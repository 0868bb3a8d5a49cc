-------------------------- MODULE VaultKeys_proofs --------------------------
(***************************************************************************)
(* The safety of VaultKeys for every value of its constants: any number of *)
(* servers, vaults, data keys, requests and faults.                        *)
(*                                                                         *)
(* The inductive invariant is a statement about the file alone (FileOK),   *)
(* one about each request under way (TaskOK), and one that relates the two *)
(* (OldSecrets).  The lemmas say that each change of the file keeps        *)
(* FileOK; the step lemmas say that each action keeps the whole.           *)
(***************************************************************************)
EXTENDS VaultKeys, TLAPS

SealedUnder(f, key) ==
    /\ f.entriesKey = key
    /\ f.appKey \in {None, key}
    /\ f.pairKey = IF Has(f, "pair") THEN key ELSE None

\* A version-1 file has one key and no pair; a version-2 file has a data key.
FileOK(f) ==
    /\ f \in File
    /\ f.vault = None => f = NoFile
    /\ f.vault # None =>
         /\ Has(f, "recovery")
         /\ \A n \in SlotNames : Has(f, n) => f.slots[n].root = f.vault
         /\ f.version = 1 => SealedUnder(f, f.vault) /\ ~Has(f, "pair")
         /\ f.version = 2 => f.dataKey \in DataKeys /\ SealedUnder(f, f.dataKey)

Secrets == Phrases \cup Passkeys

\* What a request has in hand at each of its steps.
TaskOK(t) ==
    /\ t \in Task
    /\ t.pc \in {"adopt", "adopted", "upgrade", "rotate", "rotated", "hold"} => t.root \in Vaults
    /\ t.pc \in {"open", "adopt", "adopted", "upgrade", "rotated", "hold"} => t.dek \in Keys
    /\ t.pc = "open" => t.op = "init"
    /\ t.pc = "rotate" /\ t.op = "unlock" => t.dek \in Keys
    /\ t.pc = "upgrade" => t.arg \in {"recovery", "password"} /\ t.op = "unlock"
    /\ t.pc \in {"adopt", "adopted"} => t.op \in {"unlock", "add_mfa", "add_pair"}
    /\ t.op = "unlock" => t.arg \in SlotNames /\ t.secret \in Secrets
    /\ t.op \in {"add_passkey", "replace_recovery", "add_mfa", "add_pair"} =>
         t.root \in Vaults /\ t.secret \in Secrets
    /\ t.op \in {"add_mfa", "add_pair"} /\ t.pc \in {"adopted", "write"} => t.dek \in DataKeys
    /\ t.op = "add_passkey" => t.arg \in Passkeys
    /\ t.op = "replace_recovery" => t.secret \in Phrases
    /\ t.op = "remove_passkey" => t.arg \in Passkeys \cup {"pair"}
    /\ t.op \in {"add", "delete"} => t.arg \in Names

\* A slot that is still a scrypt slot is the one a running unlock opened.
OldSecrets ==
    \A s \in Servers :
        task[s].op = "unlock" /\ file.slots[task[s].arg].old
            => task[s].secret = file.slots[task[s].arg].secret

IInv ==
    /\ TypeOK
    /\ FileOK(file)
    /\ \A s \in Servers : TaskOK(task[s])
    /\ OldSecrets
    /\ RecoveryOpens
    /\ EntriesKept

-----------------------------------------------------------------------------
(* The operators on files.                                                 *)

\* No slot is the record that says there is none.
LEMMA SlotIsNotNoSlot == NoSlot \notin Slot
BY ConstantsAssumption DEF NoSlot, Slot

LEMMA NoFileOK == FileOK(NoFile) /\ \A n \in SlotNames : ~NoFile.slots[n].old
<1>1. NoFile \in File
  BY DEF NoFile, File
<1>2. NoFile.vault = None /\ \A n \in SlotNames : NoFile.slots[n] = NoSlot
  BY DEF NoFile
<1>3. QED
  BY <1>1, <1>2 DEF FileOK, NoSlot

\* A new vault: one recovery slot, everything under its first data key.
LEMMA CreatedOK ==
    ASSUME NEW v \in Vaults, NEW k \in DataKeys, NEW phrase \in Phrases
    PROVE  /\ FileOK(Created(v, k, phrase))
           /\ Created(v, k, phrase).slots["recovery"].secret = phrase
           /\ \A n \in SlotNames : ~Created(v, k, phrase).slots[n].old
<1> DEFINE f == Created(v, k, phrase)
<1>1. NewSlot(v, phrase) \in Slot /\ NewSlot(v, phrase) # NoSlot
  BY ConstantsAssumption DEF NewSlot, Slot, NoSlot
<1>2. f \in File
  BY <1>1 DEF Created, NoFile, File, SlotNames, Keys
<1>3. f.slots = [NoFile.slots EXCEPT !["recovery"] = NewSlot(v, phrase)]
      /\ f.vault = v /\ f.version = 2 /\ f.dataKey = k /\ f.entriesKey = k
      /\ f.appKey = None /\ f.pairKey = None
  BY DEF Created, NoFile
<1>4. f.slots["recovery"] = NewSlot(v, phrase)
      /\ \A n \in SlotNames \ {"recovery"} : f.slots[n] = NoSlot
  BY <1>3 DEF NoFile, SlotNames
<1>5. Has(f, "recovery") /\ ~Has(f, "pair")
      /\ \A n \in SlotNames : Has(f, n) => f.slots[n].root = v
  BY <1>1, <1>4 DEF Has, SlotNames, NewSlot
<1>6. SealedUnder(f, k)
  BY <1>3, <1>5 DEF SealedUnder
<1>7. QED
  BY <1>2, <1>3, <1>4, <1>5, <1>6, ConstantsAssumption DEF FileOK, NewSlot, NoSlot

\* What a version-1 file was before any request of this version.
LEMMA Version1OK ==
    ASSUME NEW v \in Vaults, NEW phrase \in Phrases, NEW mfa \in BOOLEAN,
           NEW names \in SUBSET Names
    PROVE  /\ FileOK(Version1(v, phrase, mfa, names))
           /\ Version1(v, phrase, mfa, names).slots["recovery"].secret = phrase
           /\ Version1(v, phrase, mfa, names).contents = names
<1> DEFINE f == Version1(v, phrase, mfa, names)
<1>1. OldSlot(v, phrase) \in Slot /\ OldSlot(v, phrase) # NoSlot
  BY ConstantsAssumption DEF OldSlot, Slot, NoSlot
<1>2. f.slots = [[NoFile.slots EXCEPT !["recovery"] = OldSlot(v, phrase)]
                  EXCEPT !["password"] = IF mfa THEN OldSlot(v, phrase) ELSE NoSlot]
      /\ f.vault = v /\ f.version = 1 /\ f.dataKey = None /\ f.entriesKey = v
      /\ f.appKey = (IF mfa THEN v ELSE None) /\ f.pairKey = None /\ f.contents = names
  BY DEF Version1, NoFile
<1>3. f \in File
  BY <1>1 DEF Version1, NoFile, File, SlotNames, Keys
<1> HIDE DEF f
<1>4. f.slots["recovery"] = OldSlot(v, phrase)
      /\ f.slots["password"] = (IF mfa THEN OldSlot(v, phrase) ELSE NoSlot)
      /\ \A n \in SlotNames \ {"recovery", "password"} : f.slots[n] = NoSlot
  BY <1>2 DEF NoFile, SlotNames
<1>5. Has(f, "recovery") /\ ~Has(f, "pair")
      /\ \A n \in SlotNames : Has(f, n) => f.slots[n].root = v
  BY <1>1, <1>4 DEF Has, SlotNames, OldSlot
<1>6. SealedUnder(f, v)
  BY <1>2, <1>5 DEF SealedUnder
<1>7. f.vault = v /\ f.version = 1 /\ f.contents = names /\ v # None
  BY <1>2, ConstantsAssumption
<1>8. FileOK(f)
  BY <1>3, <1>5, <1>6, <1>7 DEF FileOK
<1>9. f.slots["recovery"].secret = phrase
  BY <1>4 DEF OldSlot
<1>10. QED
  BY <1>7, <1>8, <1>9 DEF f

\* Adopting or rotating puts everything sealed under the new data key.
LEMMA ResealedOK ==
    ASSUME NEW f, FileOK(f), f.vault # None, f.version = 1, NEW k \in DataKeys
    PROVE  /\ FileOK(Resealed(f, k))
           /\ Resealed(f, k).slots = f.slots /\ Resealed(f, k).contents = f.contents
           /\ Resealed(f, k).vault = f.vault
<1>1. Resealed(f, k) \in File
  BY DEF FileOK, Resealed, File, Keys
<1>2. SealedUnder(Resealed(f, k), k)
  BY DEF FileOK, SealedUnder, Resealed, Has, File
<1>3. QED
  BY <1>1, <1>2 DEF FileOK, Resealed, Has, File

LEMMA RotatedOK ==
    ASSUME NEW f, FileOK(f), f.vault # None, NEW k \in DataKeys
    PROVE  /\ FileOK(Rotated(f, k))
           /\ Rotated(f, k).slots = f.slots /\ Rotated(f, k).contents = f.contents
           /\ Rotated(f, k).vault = f.vault
<1>1. Rotated(f, k) \in File
  BY DEF FileOK, Rotated, Resealed, File, Keys
<1>2. SealedUnder(Rotated(f, k), k)
  BY DEF FileOK, SealedUnder, Rotated, Resealed, Has, File
<1>3. QED
  BY <1>1, <1>2 DEF FileOK, Rotated, Resealed, Has, File

LEMMA NewSlotOK ==
    ASSUME NEW root \in Vaults, NEW secret \in Secrets
    PROVE  NewSlot(root, secret) \in Slot /\ NewSlot(root, secret) # NoSlot
BY ConstantsAssumption DEF NewSlot, Slot, NoSlot, Secrets

\* A slot for the file's own root can be added or written again, the pair's
\* aside, which comes with a sealed key.
LEMMA WithSlotOK ==
    ASSUME NEW f, FileOK(f), f.vault # None, NEW n \in SlotNames \ {"pair"},
           NEW secret \in Secrets
    PROVE  /\ FileOK(WithSlot(f, n, NewSlot(f.vault, secret)))
           /\ WithSlot(f, n, NewSlot(f.vault, secret)).vault = f.vault
<1> DEFINE g == WithSlot(f, n, NewSlot(f.vault, secret))
<1>1. f \in File /\ f.vault \in Vaults
  BY DEF FileOK, File
<1>2. NewSlot(f.vault, secret) \in Slot /\ NewSlot(f.vault, secret) # NoSlot
  BY <1>1, NewSlotOK
<1>3. g \in File /\ g = [f EXCEPT !.slots = g.slots]
      /\ g.slots = [f.slots EXCEPT ![n] = NewSlot(f.vault, secret)]
  BY <1>1, <1>2 DEF WithSlot, File
<1> HIDE DEF g
<1>4. \A m \in SlotNames : g.slots[m] = IF m = n THEN NewSlot(f.vault, secret) ELSE f.slots[m]
  BY <1>1, <1>3 DEF File
<1>5. \A m \in SlotNames : Has(g, m) <=> (m = n \/ Has(f, m))
  BY <1>2, <1>4 DEF Has
<1>6. \A m \in SlotNames : Has(g, m) => g.slots[m].root = f.vault
  BY <1>4, <1>5 DEF FileOK, NewSlot
<1>7. Has(g, "pair") <=> Has(f, "pair")
  BY <1>5 DEF SlotNames
<1>8. FileOK(g) /\ g.vault = f.vault
  BY <1>1, <1>3, <1>5, <1>6, <1>7 DEF FileOK, SealedUnder, File, SlotNames
<1>9. QED
  BY <1>8 DEF g

\* The app's secret is sealed with the data key the write has checked.
LEMMA WithMfaOK ==
    ASSUME NEW f, FileOK(f), f.vault # None, f.version = 2, NEW secret \in Secrets
    PROVE  /\ FileOK(WithMfa(f, NewSlot(f.vault, secret), f.dataKey))
           /\ WithMfa(f, NewSlot(f.vault, secret), f.dataKey).vault = f.vault
<1> DEFINE h == WithSlot(f, "password", NewSlot(f.vault, secret))
<1>1. FileOK(h) /\ h.vault = f.vault
  BY WithSlotOK DEF SlotNames
<1>2. h.version = 2 /\ h.dataKey = f.dataKey
  BY DEF WithSlot, FileOK, File
<1>3. WithMfa(f, NewSlot(f.vault, secret), f.dataKey) = [h EXCEPT !.appKey = f.dataKey]
  BY DEF WithMfa
<1> HIDE DEF h
<1>4. [h EXCEPT !.appKey = f.dataKey] \in File
  BY <1>1, <1>2 DEF FileOK, File, Keys
<1>5. QED
  BY <1>1, <1>2, <1>3, <1>4 DEF FileOK, SealedUnder, Has, File

\* The pair's public key likewise.
LEMMA WithPairOK ==
    ASSUME NEW f, FileOK(f), f.vault # None, f.version = 2, NEW secret \in Secrets
    PROVE  /\ FileOK(WithPair(f, NewSlot(f.vault, secret), f.dataKey))
           /\ WithPair(f, NewSlot(f.vault, secret), f.dataKey).vault = f.vault
<1> DEFINE g == WithPair(f, NewSlot(f.vault, secret), f.dataKey)
<1>1. f \in File /\ f.vault \in Vaults /\ f.dataKey \in DataKeys
  BY DEF FileOK, File
<1>2. NewSlot(f.vault, secret) \in Slot /\ NewSlot(f.vault, secret) # NoSlot
  BY <1>1, NewSlotOK
<1>3. g \in File /\ g.slots = [f.slots EXCEPT !["pair"] = NewSlot(f.vault, secret)]
      /\ g.vault = f.vault /\ g.version = 2 /\ g.dataKey = f.dataKey /\ g.pairKey = f.dataKey
      /\ g.entriesKey = f.entriesKey /\ g.appKey = f.appKey
  BY <1>1, <1>2 DEF WithPair, WithSlot, File, Keys
<1> HIDE DEF g
<1>4. \A m \in SlotNames :
        g.slots[m] = IF m = "pair" THEN NewSlot(f.vault, secret) ELSE f.slots[m]
  BY <1>1, <1>3 DEF File
<1>5. Has(g, "pair") /\ \A m \in SlotNames : Has(g, m) <=> (m = "pair" \/ Has(f, m))
  BY <1>2, <1>4 DEF Has, SlotNames
<1>6. \A m \in SlotNames : Has(g, m) => g.slots[m].root = f.vault
  BY <1>4, <1>5 DEF FileOK, NewSlot
<1>7. FileOK(g) /\ g.vault = f.vault
  BY <1>1, <1>3, <1>5, <1>6 DEF FileOK, SealedUnder, SlotNames
<1>8. QED
  BY <1>7 DEF g

\* Any slot but the recovery slot can go.
LEMMA WithoutSlotOK ==
    ASSUME NEW f, FileOK(f), f.vault # None, NEW n \in SlotNames \ {"recovery"}
    PROVE  FileOK(WithoutSlot(f, n)) /\ WithoutSlot(f, n).vault = f.vault
<1> DEFINE g == WithoutSlot(f, n)
<1>1. f \in File /\ f.vault \in Vaults
  BY DEF FileOK, File
<1>2. g \in File /\ g.slots = [f.slots EXCEPT ![n] = NoSlot]
      /\ g.vault = f.vault /\ g.version = f.version /\ g.dataKey = f.dataKey
      /\ g.pairKey = (IF n = "pair" THEN None ELSE f.pairKey)
      /\ g.entriesKey = f.entriesKey /\ g.appKey = f.appKey
  BY <1>1 DEF WithoutSlot, WithSlot, File
<1> HIDE DEF g
<1>3. \A m \in SlotNames : g.slots[m] = IF m = n THEN NoSlot ELSE f.slots[m]
  BY <1>1, <1>2 DEF File
<1>4. \A m \in SlotNames : Has(g, m) <=> (m # n /\ Has(f, m))
  BY <1>3 DEF Has
<1>5. \A m \in SlotNames : Has(g, m) => g.slots[m].root = f.vault
  BY <1>3, <1>4 DEF FileOK
<1>6. FileOK(g) /\ g.vault = f.vault
  BY <1>1, <1>2, <1>4, <1>5 DEF FileOK, SealedUnder, SlotNames
<1>7. QED
  BY <1>6 DEF g

LEMMA WithoutMfaOK ==
    ASSUME NEW f, FileOK(f), f.vault # None
    PROVE  FileOK(WithoutMfa(f)) /\ WithoutMfa(f).vault = f.vault
<1> DEFINE h == WithoutSlot(f, "password")
<1>1. FileOK(h) /\ h.vault = f.vault
  BY WithoutSlotOK DEF SlotNames
<1>2. WithoutMfa(f) = [h EXCEPT !.appKey = None]
  BY DEF WithoutMfa, WithoutSlot, WithSlot, FileOK, File
<1> HIDE DEF h
<1>3. [h EXCEPT !.appKey = None] \in File
  BY <1>1 DEF FileOK, File
<1>4. QED
  BY <1>1, <1>2, <1>3 DEF FileOK, SealedUnder, Has, File

LEMMA WithEntriesOK ==
    ASSUME NEW f, FileOK(f), f.vault # None, NEW names \in SUBSET Names
    PROVE  /\ FileOK(WithEntries(f, names, f.entriesKey))
           /\ WithEntries(f, names, f.entriesKey).slots = f.slots
           /\ WithEntries(f, names, f.entriesKey).vault = f.vault
<1>1. WithEntries(f, names, f.entriesKey) \in File
  BY DEF FileOK, WithEntries, File
<1>2. QED
  BY <1>1 DEF FileOK, SealedUnder, WithEntries, Has, File

\* What the checks under the lock establish.
LEMMA CheckRootMeans ==
    ASSUME NEW f, FileOK(f), NEW root \in Vaults, CheckRoot(f, root)
    PROVE  f.vault # None /\ root = f.vault
BY ConstantsAssumption DEF CheckRoot, ReadsEntries, OpenDataKey, FileOK, SealedUnder, File

LEMMA CheckDekMeans ==
    ASSUME NEW f, FileOK(f), NEW dek \in DataKeys, CheckDek(f, dek)
    PROVE  f.vault # None /\ f.version = 2 /\ dek = f.dataKey
BY ConstantsAssumption DEF CheckDek, ReadsEntries, FileOK, SealedUnder, File

-----------------------------------------------------------------------------
(* The steps.                                                              *)

LEMMA IdleOK == TaskOK(Idle)
<1>1. Idle \in Task
  BY NoFileOK DEF Task, Idle, FileOK, Steps
<1>2. Idle.op \notin RequestKinds
  BY ConstantsAssumption DEF Idle
<1>3. QED
  BY <1>1, <1>2 DEF TaskOK, Idle, RequestKinds

\* The variables of one server's step: what the step must establish of the file
\* and of the server's new request.  No change of the file makes a scrypt slot.
LEMMA StepKeeps ==
    ASSUME IInv, NEW s \in Servers, NEW t,
           task' = [task EXCEPT ![s] = t], TaskOK(t),
           FileOK(file'),
           \A n \in SlotNames : file'.slots[n].old => file'.slots[n] = file.slots[n],
           t.op = "unlock" /\ file'.slots[t.arg].old => t.secret = file'.slots[t.arg].secret,
           held' \in [Vaults -> Hold \cup {NoHold}],
           lastHeld' \in [Servers -> Vaults \cup {None}],
           spent' \subseteq Keys, known' \subseteq Phrases, kept' \subseteq Names,
           RecoveryOpens', EntriesKept'
    PROVE  IInv'
<1>1. TypeOK'
  BY DEF IInv, TypeOK, TaskOK, FileOK
<1>2. \A u \in Servers : task'[u] = IF u = s THEN t ELSE task[u]
  BY DEF IInv, TypeOK
<1>3. \A u \in Servers : TaskOK(task'[u])
  BY <1>2 DEF IInv
<1>4. OldSecrets'
  <2> SUFFICES ASSUME NEW u \in Servers, task'[u].op = "unlock",
                      file'.slots[task'[u].arg].old
               PROVE  task'[u].secret = file'.slots[task'[u].arg].secret
    BY DEF OldSecrets
  <2>1. CASE u = s
    BY <2>1, <1>2
  <2>2. CASE u # s
    <3>1. task'[u] = task[u] /\ task[u].arg \in SlotNames
      BY <2>2, <1>2 DEF IInv, TaskOK
    <3>2. QED
      BY <3>1 DEF IInv, OldSecrets
  <2>3. QED
    BY <2>1, <2>2
<1>5. QED
  BY <1>1, <1>3, <1>4 DEF IInv

\* A step that leaves the file and the histories alone.
LEMMA ReadStepKeeps ==
    ASSUME IInv, NEW s \in Servers, NEW t,
           task' = [task EXCEPT ![s] = t], TaskOK(t),
           t.op = "unlock" /\ file.slots[t.arg].old => t.secret = file.slots[t.arg].secret,
           held' \in [Vaults -> Hold \cup {NoHold}],
           lastHeld' \in [Servers -> Vaults \cup {None}],
           spent' \subseteq Keys, UNCHANGED <<file, known, kept>>
    PROVE  IInv'
<1>1. RecoveryOpens' /\ EntriesKept' /\ known' \subseteq Phrases /\ kept' \subseteq Names
  BY DEF IInv, TypeOK, RecoveryOpens, EntriesKept, Has
<1>2. FileOK(file') /\ file' = file
  BY DEF IInv
<1>3. QED
  BY <1>1, <1>2, StepKeeps

\* A step that leaves the requests alone.
LEMMA OutsideStepKeeps ==
    ASSUME IInv, UNCHANGED task, FileOK(file'),
           \A n \in SlotNames : file'.slots[n].old => file'.slots[n] = file.slots[n],
           held' \in [Vaults -> Hold \cup {NoHold}],
           lastHeld' \in [Servers -> Vaults \cup {None}],
           spent' \subseteq Keys, known' \subseteq Phrases, kept' \subseteq Names,
           RecoveryOpens', EntriesKept'
    PROVE  IInv'
<1>1. TypeOK'
  BY DEF IInv, TypeOK, FileOK
<1>2. \A u \in Servers : TaskOK(task'[u])
  BY DEF IInv
<1>3. OldSecrets'
  BY DEF IInv, OldSecrets, TaskOK
<1>4. QED
  BY <1>1, <1>2, <1>3 DEF IInv

\* Clearing, holding and remembering keep the types of the holder.
LEMMA ClearType ==
    ASSUME TypeOK, NEW v \in Vaults \cup {None}, Clear(v)
    PROVE  held' \in [Vaults -> Hold \cup {NoHold}]
BY DEF TypeOK, Clear

LEMMA DropType ==
    ASSUME TypeOK, NEW v \in Vaults \cup {None}, DropOldKey(v)
    PROVE  held' \in [Vaults -> Hold \cup {NoHold}]
<1>1. CASE Clear(v)
  BY <1>1, ClearType
<1>2. CASE ClearIsLost(v)
  <2>1. v \in Vaults /\ held[v] \in Hold
    BY <1>2 DEF ClearIsLost, Unlocked, TypeOK
  <2>2. [held[v] EXCEPT !.left = TRUE] \in Hold
    BY <2>1 DEF Hold
  <2>3. QED
    BY <1>2, <2>1, <2>2 DEF ClearIsLost, TypeOK
<1>3. QED
  BY <1>1, <1>2 DEF DropOldKey

LEMMA PutType ==
    ASSUME TypeOK, file.vault # None, NEW t \in Task, t.root \in Vaults, t.dek \in Keys, Put(t)
    PROVE  /\ held' \in [Vaults -> Hold \cup {NoHold}]
           /\ held'[file.vault].dek = t.dek
           /\ \A v \in Vaults \ {file.vault} : held'[v] = held[v]
<1>1. [root |-> t.root, dek |-> t.dek, left |-> FALSE] \in Hold
  BY DEF Hold
<1>2. file.vault \in Vaults
  BY DEF TypeOK, File
<1>3. QED
  BY <1>1, <1>2 DEF Put, TypeOK

LEMMA SawKeyType ==
    ASSUME TypeOK, NEW s \in Servers, SawKey(s)
    PROVE  /\ lastHeld' \in [Servers -> Vaults \cup {None}]
           /\ file.vault \in Vaults /\ held[file.vault] \in Hold
BY DEF TypeOK, SawKey, Unlocked, File

LEMMA FinishReads ==
    ASSUME IInv, NEW s \in Servers, Finish(s),
           held' \in [Vaults -> Hold \cup {NoHold}],
           lastHeld' \in [Servers -> Vaults \cup {None}],
           spent' \subseteq Keys, UNCHANGED <<file, known, kept>>
    PROVE  IInv'
<1>1. Idle.op # "unlock"
  BY ConstantsAssumption DEF Idle, RequestKinds
<1>2. QED
  BY <1>1, IdleOK, ReadStepKeeps DEF Finish, Become

LEMMA InitOK == Init => IInv
<1> SUFFICES ASSUME Init PROVE IInv
  OBVIOUS
<1>1. \A s \in Servers : task[s] = Idle /\ Idle.op # "unlock"
  BY ConstantsAssumption DEF Init, Idle, RequestKinds
<1>2. FileOK(file) /\ RecoveryOpens /\ EntriesKept
      /\ spent \subseteq Keys /\ known \subseteq Phrases /\ kept \subseteq Names
  <2>1. CASE file = NoFile /\ known = {} /\ kept = {} /\ spent = {}
    BY <2>1, NoFileOK DEF RecoveryOpens, EntriesKept, NoFile
  <2>2. ASSUME NEW v \in Vaults, NEW phrase \in Phrases, NEW mfa \in BOOLEAN,
               NEW names \in SUBSET Names, file = Version1(v, phrase, mfa, names),
               known = {phrase}, kept = names, spent = {v}
        PROVE  FileOK(file) /\ RecoveryOpens /\ EntriesKept
               /\ spent \subseteq Keys /\ known \subseteq Phrases /\ kept \subseteq Names
    BY <2>2, Version1OK DEF FileOK, RecoveryOpens, EntriesKept, Keys
  <2>3. QED
    BY <2>1, <2>2 DEF Init
<1>3. TypeOK
  BY <1>1, <1>2, IdleOK DEF Init, TypeOK, FileOK, TaskOK
<1>4. QED
  BY <1>1, <1>2, <1>3, IdleOK DEF IInv, OldSecrets

-----------------------------------------------------------------------------
(* The first step of each request.                                         *)

LEMMA StartUnlockKeeps ==
    ASSUME IInv, NEW s \in Servers, NEW n \in SlotNames, StartUnlock(s, n)
    PROVE  IInv'
<1> DEFINE root == file.slots[n].root
           t == [Idle EXCEPT
                   !.pc = IF file.version = 1 THEN "adopt" ELSE AfterKey(n, file),
                   !.op = "unlock", !.arg = n, !.secret = file.slots[n].secret,
                   !.doc = file, !.root = root, !.dek = OpenDataKey(file, root)]
<1>1. task' = [task EXCEPT ![s] = t] /\ UNCHANGED <<file, held, lastHeld, spent, known, kept>>
      /\ file.vault # None /\ Has(file, n)
  BY DEF StartUnlock, Become
<1>2. file \in File /\ root = file.vault /\ file.slots[n].secret \in Secrets /\ file.vault \in Vaults
  BY <1>1 DEF IInv, FileOK, Has, File, Slot, Secrets
<1>3. OpenDataKey(file, root) \in Keys
  BY <1>1, <1>2 DEF IInv, FileOK, OpenDataKey, File, Keys
<1>4. AfterKey(n, file) \in {"upgrade", "rotate", "hold"}
      /\ (AfterKey(n, file) = "upgrade" => n \in {"recovery", "password"})
  BY DEF AfterKey, AfterUpgrade
<1>5. t \in Task
  <2>1. (IF file.version = 1 THEN "adopt" ELSE AfterKey(n, file)) \in Steps
        /\ "unlock" \in RequestKinds
    BY <1>4 DEF Steps, RequestKinds
  <2>2. QED
    BY <1>2, <1>3, <2>1 DEF Task, Idle, Secrets
<1>6. t.pc \in {"adopt", "upgrade", "rotate", "hold"} /\ t.op = "unlock" /\ t.arg = n
      /\ (t.pc = "upgrade" => n \in {"recovery", "password"})
      /\ t.secret = file.slots[n].secret /\ t.root = file.vault
      /\ t.dek = OpenDataKey(file, root)
  BY <1>2, <1>4 DEF Idle
<1> HIDE DEF t
<1>7. TaskOK(t)
  BY <1>2, <1>3, <1>5, <1>6 DEF TaskOK
<1>8. QED
  BY <1>1, <1>6, <1>7, ReadStepKeeps DEF IInv, TypeOK

LEMMA StartRotateKeeps ==
    ASSUME IInv, NEW s \in Servers, NEW n \in SlotNames, StartRotate(s, n)
    PROVE  IInv'
<1> DEFINE t == [Idle EXCEPT !.pc = "rotate", !.op = "rotate", !.doc = file,
                             !.root = file.slots[n].root]
<1>1. task' = [task EXCEPT ![s] = t] /\ UNCHANGED <<file, held, spent, known, kept>>
      /\ SawKey(s) /\ Has(file, n)
  BY DEF StartRotate, Become
<1>2. lastHeld' \in [Servers -> Vaults \cup {None}] /\ file.vault \in Vaults
  BY <1>1, SawKeyType DEF IInv
<1>3. file \in File /\ file.slots[n].root \in Vaults
  BY <1>1, <1>2, ConstantsAssumption DEF IInv, FileOK
<1>4. t \in Task
  BY <1>3 DEF Task, Idle, Steps, RequestKinds
<1>5. t.pc = "rotate" /\ t.op = "rotate" /\ t.root \in Vaults
  BY <1>3 DEF Idle
<1> HIDE DEF t
<1>6. TaskOK(t)
  BY <1>4, <1>5 DEF TaskOK
<1>7. QED
  BY <1>1, <1>2, <1>5, <1>6, ReadStepKeeps DEF IInv, TypeOK

LEMMA ProvenRootType ==
    ASSUME IInv, NEW s \in Servers, NEW proof, NEW root, ProvenRoot(s, proof, root)
    PROVE  lastHeld' \in [Servers -> Vaults \cup {None}]
<1>1. CASE UNCHANGED lastHeld
  BY <1>1 DEF IInv, TypeOK
<1>2. CASE SawKey(s)
  BY <1>2, SawKeyType DEF IInv
<1>3. QED
  BY <1>1, <1>2 DEF ProvenRoot

LEMMA StartAddPasskeyKeeps ==
    ASSUME IInv, NEW s \in Servers, NEW p \in Passkeys, NEW proof \in Proofs,
           StartAddPasskey(s, p, proof)
    PROVE  IInv'
<1>1. PICK root \in Vaults :
        /\ ProvenRoot(s, proof, root)
        /\ Become(s, [Idle EXCEPT !.pc = "write", !.op = "add_passkey", !.arg = p,
                                  !.secret = p, !.doc = file, !.root = root])
  BY DEF StartAddPasskey
<1> DEFINE t == [Idle EXCEPT !.pc = "write", !.op = "add_passkey", !.arg = p,
                             !.secret = p, !.doc = file, !.root = root]
<1>2. task' = [task EXCEPT ![s] = t] /\ UNCHANGED <<file, held, spent, known, kept>>
  BY <1>1 DEF StartAddPasskey, Become
<1>3. t \in Task
  BY DEF IInv, FileOK, Task, Idle, Steps, RequestKinds, SlotNames
<1>4. t.pc = "write" /\ t.op = "add_passkey" /\ t.arg = p /\ t.secret = p /\ t.root = root
  BY DEF Idle
<1> HIDE DEF t
<1>5. TaskOK(t)
  BY <1>3, <1>4 DEF TaskOK, Secrets
<1>6. QED
  BY <1>1, <1>2, <1>4, <1>5, ProvenRootType, ReadStepKeeps DEF IInv, TypeOK

LEMMA StartReplaceRecoveryKeeps ==
    ASSUME IInv, NEW s \in Servers, NEW phrase \in Phrases, NEW proof \in Proofs,
           StartReplaceRecovery(s, phrase, proof)
    PROVE  IInv'
<1>1. PICK root \in Vaults :
        /\ ProvenRoot(s, proof, root)
        /\ Become(s, [Idle EXCEPT !.pc = "write", !.op = "replace_recovery",
                                  !.secret = phrase, !.doc = file, !.root = root])
  BY DEF StartReplaceRecovery
<1> DEFINE t == [Idle EXCEPT !.pc = "write", !.op = "replace_recovery",
                             !.secret = phrase, !.doc = file, !.root = root]
<1>2. task' = [task EXCEPT ![s] = t] /\ UNCHANGED <<file, held, spent, known, kept>>
  BY <1>1 DEF StartReplaceRecovery, Become
<1>3. t \in Task
  BY DEF IInv, FileOK, Task, Idle, Steps, RequestKinds
<1>4. t.pc = "write" /\ t.op = "replace_recovery" /\ t.secret = phrase /\ t.root = root
  BY DEF Idle
<1> HIDE DEF t
<1>5. TaskOK(t)
  BY <1>3, <1>4 DEF TaskOK, Secrets
<1>6. QED
  BY <1>1, <1>2, <1>4, <1>5, ProvenRootType, ReadStepKeeps DEF IInv, TypeOK

\* The data key a version-2 file's root opens is a data key; a version-1 file
\* has none, and the request adopts first.
LEMMA StartAddMethodKeeps ==
    ASSUME IInv, NEW s \in Servers, NEW op \in {"add_mfa", "add_pair"},
           NEW phrase \in Phrases, NEW proof \in Proofs,
           StartAddMethod(s, op, phrase, proof)
    PROVE  IInv'
<1>1. PICK root \in Vaults :
        /\ ProvenRoot(s, proof, root)
        /\ OpenDataKey(file, root) # None
        /\ Become(s, [Idle EXCEPT
               !.pc = IF file.version = 1 THEN "adopt" ELSE "write", !.op = op,
               !.secret = phrase, !.doc = file, !.root = root,
               !.dek = OpenDataKey(file, root), !.wasHeld = Unlocked(file.vault)])
  BY DEF StartAddMethod
<1> DEFINE t == [Idle EXCEPT
               !.pc = IF file.version = 1 THEN "adopt" ELSE "write", !.op = op,
               !.secret = phrase, !.doc = file, !.root = root,
               !.dek = OpenDataKey(file, root), !.wasHeld = Unlocked(file.vault)]
<1>2. task' = [task EXCEPT ![s] = t] /\ UNCHANGED <<file, held, spent, known, kept>>
  BY <1>1 DEF StartAddMethod, Become
<1>3. /\ file.version = 1 => OpenDataKey(file, root) = root
      /\ file.version = 2 => OpenDataKey(file, root) \in DataKeys
      /\ file.version \in {1, 2}
  BY <1>1 DEF IInv, FileOK, OpenDataKey, File
<1>4. t.pc = (IF file.version = 1 THEN "adopt" ELSE "write") /\ t.op = op
      /\ t.secret = phrase /\ t.root = root /\ t.dek = OpenDataKey(file, root)
  BY DEF Idle
<1>5. t \in Task
  <2>1. (IF file.version = 1 THEN "adopt" ELSE "write") \in Steps /\ op \in RequestKinds
        /\ OpenDataKey(file, root) \in Keys
    BY <1>3 DEF Steps, RequestKinds, Keys
  <2>2. Unlocked(file.vault) \in BOOLEAN
    BY DEF Unlocked
  <2>3. QED
    BY <2>1, <2>2 DEF IInv, FileOK, Task, Idle
<1> HIDE DEF t
<1>6. TaskOK(t)
  BY <1>3, <1>4, <1>5 DEF TaskOK, Secrets, Keys
<1>7. QED
  BY <1>1, <1>2, <1>4, <1>6, ProvenRootType, ReadStepKeeps DEF IInv, TypeOK

LEMMA StartHeldKeeps ==
    ASSUME IInv, NEW s \in Servers, NEW op, NEW arg, StartHeld(s, op, arg),
           \/ op = "remove_passkey" /\ arg \in Passkeys \cup {"pair"}
           \/ op = "remove_mfa" /\ arg = None
           \/ op \in {"add", "delete"} /\ arg \in Names
    PROVE  IInv'
<1> DEFINE t == [Idle EXCEPT !.pc = "write", !.op = op, !.arg = arg,
                   !.dek = IF op \in {"add", "delete"} THEN held[file.vault].dek ELSE None]
<1>1. task' = [task EXCEPT ![s] = t] /\ UNCHANGED <<file, held, spent, known, kept>>
      /\ SawKey(s)
  BY DEF StartHeld, Become
<1>2. /\ lastHeld' \in [Servers -> Vaults \cup {None}]
      /\ held[file.vault].dek \in Keys
  BY <1>1, SawKeyType DEF IInv, Hold
<1>3. t.pc = "write" /\ t.op = op /\ t.arg = arg
  BY DEF Idle
<1>4. t \in Task
  <2>1. op \in RequestKinds /\ arg \in SlotNames \cup Names \cup {None}
    BY DEF RequestKinds, SlotNames
  <2>2. (IF op \in {"add", "delete"} THEN held[file.vault].dek ELSE None) \in Keys \cup {None}
    BY <1>2
  <2>3. NoFile \in File /\ "write" \in Steps
    BY NoFileOK DEF FileOK, Steps
  <2>4. QED
    BY <2>1, <2>2, <2>3 DEF Task, Idle
<1> HIDE DEF t
<1>5. TaskOK(t)
  BY <1>3, <1>4 DEF TaskOK
<1>6. t.op # "unlock"
  BY <1>3
<1>7. QED
  BY <1>1, <1>2, <1>5, <1>6, ReadStepKeeps DEF IInv, TypeOK

LEMMA SeeKeeps ==
    ASSUME IInv, NEW s \in Servers, See(s)
    PROVE  IInv'
<1>1. lastHeld' \in [Servers -> Vaults \cup {None}]
  BY SawKeyType DEF See, IInv
<1>2. RecoveryOpens' /\ EntriesKept'
  BY DEF See, IInv, RecoveryOpens, EntriesKept, Has
<1>3. QED
  BY <1>1, <1>2, OutsideStepKeeps DEF See, IInv, TypeOK

\* `create`: only where there is no file, so no slot of the old file is kept.
LEMMA CreateKeeps ==
    ASSUME IInv, NEW s \in Servers, NEW v \in Vaults, NEW k \in DataKeys,
           NEW phrase \in Phrases, NEW end \in Ends, Create(s, v, k, phrase, end)
    PROVE  IInv'
<1> DEFINE f == Created(v, k, phrase)
           t == [Idle EXCEPT !.pc = "open", !.op = "init", !.secret = phrase, !.dek = k]
<1>1. /\ FileOK(f) /\ f.slots["recovery"].secret = phrase
      /\ \A n \in SlotNames : ~f.slots[n].old
  BY CreatedOK
<1>2. file = NoFile /\ file' \in {file, f} /\ (end = "write" => file' = file)
      /\ (end # "write" => file' = f)
  BY DEF Create, Write, IInv, FileOK
<1>3. FileOK(file') /\ \A n \in SlotNames : ~file'.slots[n].old
  BY <1>1, <1>2, NoFileOK
<1>4. /\ spent' \subseteq Keys /\ known' \subseteq Phrases /\ kept' = {}
      /\ held' = held /\ lastHeld' = lastHeld
  BY DEF Create, IInv, TypeOK, Keys
<1>5. RecoveryOpens' /\ EntriesKept'
  <2>1. CASE end = "write"
    BY <2>1, <1>2, <1>4 DEF NoFile, RecoveryOpens, EntriesKept
  <2>2. CASE end # "write"
    BY <2>2, <1>1, <1>2, <1>4 DEF Create, FileOK, RecoveryOpens, EntriesKept
  <2>3. QED
    BY <2>1, <2>2
<1> HIDE DEF f
<1>6. CASE end = "ok"
  <2>1. task' = [task EXCEPT ![s] = t]
    BY <1>6 DEF Create, Become
  <2>2. t.pc = "open" /\ t.op = "init" /\ t.secret = phrase /\ t.dek = k
    BY DEF Idle
  <2>3. NoFile \in File /\ "open" \in Steps /\ "init" \in RequestKinds
    BY NoFileOK DEF FileOK, Steps, RequestKinds
  <2>4. t \in Task
    BY <2>3 DEF Task, Idle, Keys
  <2> HIDE DEF t
  <2>5. TaskOK(t)
    BY <2>2, <2>4 DEF TaskOK, Keys
  <2>6. QED
    BY <1>3, <1>4, <1>5, <2>1, <2>2, <2>5, StepKeeps DEF IInv, TypeOK
<1>7. CASE end # "ok"
  <2>1. UNCHANGED task
    BY <1>7 DEF Create
  <2>2. QED
    BY <1>3, <1>4, <1>5, <2>1, OutsideStepKeeps DEF IInv, TypeOK
<1>8. QED
  BY <1>6, <1>7

-----------------------------------------------------------------------------
(* The later steps of a request.                                           *)

LEMMA ReopenKeeps ==
    ASSUME IInv, NEW s \in Servers, Reopen(s)
    PROVE  IInv'
<1> DEFINE root == file.slots["recovery"].root
           t == [task[s] EXCEPT !.pc = "hold", !.root = root]
<1>1. task[s] \in Task /\ TaskOK(task[s]) /\ task[s].pc = "open" /\ task[s].op = "init"
      /\ task[s].dek \in Keys /\ UNCHANGED <<file, held, lastHeld, spent, known, kept>>
  BY DEF Reopen, At, IInv, TaskOK
<1>2. CASE Finish(s)
  BY <1>1, <1>2, FinishReads DEF IInv, TypeOK
<1>3. CASE Has(file, "recovery") /\ Become(s, t)
  <2>1. root \in Vaults
    BY <1>3, NoFileOK DEF IInv, FileOK, File, SlotNames, Has, NoFile
  <2> HIDE DEF root
  <2>2. t \in Task /\ t.pc = "hold" /\ t.op = "init" /\ t.dek \in Keys /\ t.root \in Vaults
    BY <1>1, <2>1 DEF Task, Steps
  <2> HIDE DEF t
  <2>3. TaskOK(t)
    BY <2>2 DEF TaskOK
  <2>4. QED
    BY <1>1, <1>3, <2>2, <2>3, ReadStepKeeps DEF Become, IInv, TypeOK
<1>4. QED
  BY <1>2, <1>3 DEF Reopen

\* A request that goes on with what it had: its slot and its secret.
SameUnlock(s, t) ==
    t.op = "unlock" => /\ task[s].op = "unlock"
                       /\ t.arg = task[s].arg /\ t.secret = task[s].secret

\* A step that puts the file under another data key, or fails to.
LEMMA ResealStepKeeps ==
    ASSUME IInv, NEW s \in Servers, NEW t, NEW g,
           task' = [task EXCEPT ![s] = t], TaskOK(t), SameUnlock(s, t),
           FileOK(g), g.slots = file.slots, g.contents = file.contents,
           g.vault = file.vault, file' \in {file, g}, spent' \subseteq Keys,
           UNCHANGED <<held, lastHeld, known, kept>>
    PROVE  IInv'
<1>1. file'.slots = file.slots /\ file'.contents = file.contents /\ file'.vault = file.vault
      /\ FileOK(file')
  BY DEF IInv
<1>2. RecoveryOpens' /\ EntriesKept'
  BY <1>1 DEF IInv, RecoveryOpens, EntriesKept, Has
<1>3. t.op = "unlock" /\ file'.slots[t.arg].old => t.secret = file'.slots[t.arg].secret
  BY <1>1 DEF IInv, OldSecrets, SameUnlock
<1>4. QED
  BY <1>1, <1>2, <1>3, StepKeeps DEF IInv, TypeOK

\* The requests a step leads to.
LEMMA NextPcOK ==
    ASSUME NEW t, TaskOK(t), NEW pc \in {"upgrade", "rotate", "hold"}, t.op = "unlock",
           t.root \in Vaults, t.dek \in Keys,
           pc = "upgrade" => t.arg \in {"recovery", "password"}
    PROVE  TaskOK([t EXCEPT !.pc = pc])
<1> DEFINE u == [t EXCEPT !.pc = pc]
<1>1. u \in Task /\ t \in Task
  BY DEF TaskOK, Task, Steps
<1>2. u.pc = pc /\ u.op = "unlock" /\ u.arg = t.arg /\ u.secret = t.secret
      /\ u.root = t.root /\ u.dek = t.dek
  BY <1>1 DEF Task
<1> HIDE DEF u
<1>3. TaskOK(u)
  BY <1>1, <1>2 DEF TaskOK
<1>4. QED
  BY <1>3 DEF u

LEMMA AfterKeyIn ==
    ASSUME NEW n, NEW doc
    PROVE  /\ AfterKey(n, doc) \in {"upgrade", "rotate", "hold"}
           /\ AfterKey(n, doc) = "upgrade" => n \in {"recovery", "password"}
           /\ AfterUpgrade(doc) \in {"rotate", "hold"}
BY DEF AfterKey, AfterUpgrade

LEMMA AdoptedOK ==
    ASSUME NEW t, TaskOK(t), t.pc = "adopt", NEW k \in DataKeys
    PROVE  TaskOK([t EXCEPT !.pc = "adopted", !.dek = k])
<1> DEFINE u == [t EXCEPT !.pc = "adopted", !.dek = k]
<1>1. u \in Task /\ t \in Task
  BY DEF TaskOK, Task, Steps, Keys
<1>2. u.pc = "adopted" /\ u.op = t.op /\ u.arg = t.arg /\ u.secret = t.secret
      /\ u.root = t.root /\ u.dek = k
  BY <1>1 DEF Task
<1> HIDE DEF u
<1>3. TaskOK(u)
  BY <1>1, <1>2 DEF TaskOK, Keys
<1>4. QED
  BY <1>3 DEF u

\* Where an adoption that did not happen leads.
AdoptGivesUp(s) ==
    IF task[s].op = "unlock"
    THEN Become(s, [task[s] EXCEPT !.pc = AfterKey(task[s].arg, task[s].doc)])
    ELSE Finish(s)

LEMMA AdoptGivesUpOK ==
    ASSUME IInv, NEW s \in Servers, At(s, "adopt"), AdoptGivesUp(s)
    PROVE  \E t : task' = [task EXCEPT ![s] = t] /\ TaskOK(t) /\ SameUnlock(s, t)
<1>1. TaskOK(task[s]) /\ task[s] \in Task
  BY DEF IInv, TaskOK
<1>2. CASE task[s].op = "unlock"
  <2> DEFINE pc == AfterKey(task[s].arg, task[s].doc)
             t == [task[s] EXCEPT !.pc = pc]
  <2>1. TaskOK(t)
    <3>1. /\ pc \in {"upgrade", "rotate", "hold"}
          /\ pc = "upgrade" => task[s].arg \in {"recovery", "password"}
      BY AfterKeyIn
    <3>2. task[s].root \in Vaults /\ task[s].dek \in Keys
      BY <1>1 DEF At, TaskOK
    <3> HIDE DEF pc
    <3>3. QED
      BY <1>1, <1>2, <3>1, <3>2, NextPcOK
  <2>2. SameUnlock(s, t)
    BY <1>1, <1>2 DEF SameUnlock, Task
  <2>3. QED
    BY <1>2, <2>1, <2>2 DEF AdoptGivesUp, Become
<1>3. CASE task[s].op # "unlock"
  <2>1. Idle.op # "unlock"
    BY ConstantsAssumption DEF Idle, RequestKinds
  <2>2. QED
    BY <1>3, <2>1, IdleOK DEF AdoptGivesUp, Finish, Become, SameUnlock
<1>4. QED
  BY <1>2, <1>3

LEMMA AdoptKeeps ==
    ASSUME IInv, NEW s \in Servers, NEW k \in DataKeys, NEW end \in Ends, Adopt(s, k, end)
    PROVE  IInv'
<1> DEFINE g == Resealed(file, k)
<1>1. /\ file.version = 1 /\ CanAdopt(file, task[s].root) /\ file' \in {file, g}
      /\ spent' \subseteq Keys /\ UNCHANGED <<held, lastHeld, known, kept>>
      /\ At(s, "adopt")
  BY DEF Adopt, Write, Loaded, Fresh, IInv, TypeOK, Keys
<1>2. FileOK(g) /\ g.slots = file.slots /\ g.contents = file.contents /\ g.vault = file.vault
  BY <1>1, ResealedOK DEF CanAdopt, ReadsEntries, IInv
<1>3. \E t : task' = [task EXCEPT ![s] = t] /\ TaskOK(t) /\ SameUnlock(s, t)
  <2>1. CASE end = "ok"
    <3> DEFINE t == [task[s] EXCEPT !.pc = "adopted", !.dek = k]
    <3>1. TaskOK(t)
      BY <1>1, AdoptedOK DEF IInv, At
    <3>2. SameUnlock(s, t)
      BY DEF SameUnlock, IInv, TaskOK, Task
    <3>3. QED
      BY <2>1, <3>1, <3>2 DEF Adopt, Become
  <2>2. CASE end # "ok"
    BY <2>2, <1>1, AdoptGivesUpOK DEF Adopt, AdoptGivesUp
  <2>3. QED
    BY <2>1, <2>2
<1> HIDE DEF g
<1>4. QED
  BY <1>1, <1>2, <1>3, ResealStepKeeps

LEMMA AdoptNothingKeeps ==
    ASSUME IInv, NEW s \in Servers, AdoptNothing(s)
    PROVE  IInv'
<1>1. /\ At(s, "adopt") /\ UNCHANGED <<file, held, lastHeld, spent, known, kept>>
      /\ FileOK(file) /\ spent \subseteq Keys
  BY DEF AdoptNothing, IInv, TypeOK
<1>2. \E t : task' = [task EXCEPT ![s] = t] /\ TaskOK(t) /\ SameUnlock(s, t)
  <2>1. CASE CanAdopt(file, task[s].root)
    <3> DEFINE k == OpenDataKey(file, task[s].root)
               t == [task[s] EXCEPT !.pc = "adopted", !.dek = k]
    <3>1. k \in DataKeys
      BY <2>1, <1>1 DEF AdoptNothing, CanAdopt, OpenDataKey, FileOK
    <3>2. TaskOK(t)
      BY <1>1, <3>1, AdoptedOK DEF IInv, At
    <3>3. SameUnlock(s, t)
      BY DEF SameUnlock, IInv, TaskOK, Task
    <3>4. QED
      BY <2>1, <3>2, <3>3 DEF AdoptNothing, Become
  <2>2. CASE ~CanAdopt(file, task[s].root)
    BY <2>2, <1>1, AdoptGivesUpOK DEF AdoptNothing, AdoptGivesUp
  <2>3. QED
    BY <2>1, <2>2
<1>3. QED
  BY <1>1, <1>2, ResealStepKeeps

LEMMA DropAfterAdoptKeeps ==
    ASSUME IInv, NEW s \in Servers, DropAfterAdopt(s)
    PROVE  IInv'
<1> DEFINE doc == IF task[s].op = "unlock" THEN file ELSE task[s].doc
           pc == IF task[s].op = "unlock" THEN AfterKey(task[s].arg, doc) ELSE "write"
           t == [task[s] EXCEPT !.doc = doc, !.pc = pc]
<1>1. /\ At(s, "adopted") /\ DropOldKey(doc.vault)
      /\ IF doc.vault = None THEN Finish(s) ELSE Become(s, t)
      /\ UNCHANGED <<file, lastHeld, spent, known, kept>>
  BY DEF DropAfterAdopt
<1>2. task[s] \in Task /\ TaskOK(task[s]) /\ file \in File /\ doc \in File
  BY DEF IInv, TaskOK, FileOK, Task
<1>3. /\ held' \in [Vaults -> Hold \cup {NoHold}]
      /\ lastHeld' \in [Servers -> Vaults \cup {None}] /\ spent' \subseteq Keys
  BY <1>1, <1>2, DropType DEF IInv, TypeOK, File
<1>4. pc \in {"upgrade", "rotate", "hold", "write"}
      /\ (pc \in {"upgrade", "rotate", "hold"} => task[s].op = "unlock")
      /\ (pc = "upgrade" => task[s].arg \in {"recovery", "password"})
  BY AfterKeyIn
<1> HIDE DEF doc, pc
<1>5. t \in Task /\ t.pc = pc /\ t.op = task[s].op /\ t.arg = task[s].arg
      /\ t.secret = task[s].secret /\ t.root = task[s].root /\ t.dek = task[s].dek
  BY <1>2, <1>4 DEF Task, Steps
<1> HIDE DEF t
<1>6. TaskOK(t)
  <2>1. task[s].root \in Vaults /\ task[s].dek \in Keys
        /\ task[s].op \in {"unlock", "add_mfa", "add_pair"}
        /\ (task[s].op \in {"add_mfa", "add_pair"} => task[s].dek \in DataKeys)
    BY <1>1, <1>2 DEF At, TaskOK
  <2>2. QED
    BY <1>2, <1>4, <1>5, <2>1 DEF TaskOK
<1>7. CASE doc.vault = None
  BY <1>1, <1>3, <1>7, FinishReads
<1>8. CASE doc.vault # None
  <2>1. t.op = "unlock" /\ file.slots[t.arg].old => t.secret = file.slots[t.arg].secret
    BY <1>5 DEF IInv, OldSecrets
  <2>2. QED
    BY <1>1, <1>3, <1>6, <1>8, <2>1, ReadStepKeeps DEF Become
<1>9. QED
  BY <1>7, <1>8

\* The slot an upgrade writes is the one the unlock opened, with the secret
\* that opened it: the slot under the lock may be newer, but then it is not a
\* scrypt slot any more and is left alone.
LEMMA UpgradeKeeps ==
    ASSUME IInv, NEW s \in Servers, NEW end \in Ends, Upgrade(s, end)
    PROVE  IInv'
<1> DEFINE n == task[s].arg
           g == WithSlot(file, n, NewSlot(task[s].root, task[s].secret))
           pc == AfterUpgrade(task[s].doc)
           t == [task[s] EXCEPT !.pc = pc]
<1>1. /\ At(s, "upgrade") /\ task' = [task EXCEPT ![s] = t]
      /\ file' \in {file, g} /\ (file' # file => Upgrades(file, task[s]))
      /\ UNCHANGED <<held, lastHeld, spent, known, kept>>
  BY DEF Upgrade, Write, Loaded, Become
<1>2. /\ TaskOK(task[s]) /\ n \in {"recovery", "password"} /\ task[s].op = "unlock"
      /\ task[s].root \in Vaults /\ task[s].dek \in Keys /\ task[s].secret \in Secrets
      /\ task[s] \in Task
  BY <1>1 DEF IInv, At, TaskOK
<1>3. TaskOK(t)
  <2>1. pc \in {"upgrade", "rotate", "hold"} /\ pc # "upgrade"
    BY AfterKeyIn
  <2> HIDE DEF pc
  <2>2. QED
    BY <1>2, <2>1, NextPcOK
<1>4. t.arg = n /\ t.secret = task[s].secret
  BY <1>2 DEF Task
<1>5. file.slots[n].old => task[s].secret = file.slots[n].secret
  BY <1>2 DEF IInv, OldSecrets
<1> HIDE DEF t
<1>6. CASE file' = file
  BY <1>1, <1>3, <1>4, <1>5, <1>6, ReadStepKeeps DEF IInv, TypeOK
<1>7. CASE file' # file
  <2>1. /\ file' = g /\ CheckRoot(file, task[s].root) /\ file.slots[n].old
        /\ file.vault # None /\ task[s].root = file.vault
    BY <1>1, <1>2, <1>7, CheckRootMeans DEF Upgrades, IInv
  <2>2. FileOK(g) /\ g.vault = file.vault
    BY <1>2, <2>1, WithSlotOK DEF IInv, SlotNames
  <2>3. /\ \A m \in SlotNames \ {n} : g.slots[m] = file.slots[m]
        /\ g.slots[n] = NewSlot(file.vault, task[s].secret) /\ g.contents = file.contents
        /\ n \in SlotNames
    BY <1>2, <2>1 DEF WithSlot, IInv, FileOK, File, SlotNames
  <2>4. ~g.slots[n].old /\ g.slots[n].secret = file.slots[n].secret
    BY <1>5, <2>1, <2>3 DEF NewSlot
  <2>5. RecoveryOpens' /\ EntriesKept'
    <3>1. Has(g, "recovery")
      BY <2>1, <2>2 DEF FileOK
    <3>2. g.slots["recovery"].secret = file.slots["recovery"].secret
      BY <2>3, <2>4 DEF SlotNames
    <3>3. QED
      BY <1>1, <2>1, <2>2, <2>3, <3>1, <3>2 DEF IInv, RecoveryOpens, EntriesKept
  <2> HIDE DEF g
  <2>6. QED
    BY <1>1, <1>3, <1>4, <2>1, <2>2, <2>3, <2>4, <2>5, StepKeeps DEF IInv, TypeOK
<1>8. QED
  BY <1>6, <1>7

LEMMA RotateKeeps ==
    ASSUME IInv, NEW s \in Servers, NEW k \in DataKeys, NEW end \in Ends, Rotate(s, k, end)
    PROVE  IInv'
<1> DEFINE g == Rotated(file, k)
<1>1. /\ At(s, "rotate") /\ CanRotate(file, task[s].root) /\ file' \in {file, g}
      /\ spent' \subseteq Keys /\ UNCHANGED <<held, lastHeld, known, kept>>
  BY DEF Rotate, Write, Loaded, Fresh, IInv, TypeOK, Keys
<1>2. FileOK(g) /\ g.slots = file.slots /\ g.contents = file.contents /\ g.vault = file.vault
  BY <1>1, RotatedOK DEF CanRotate, ReadsEntries, IInv
<1>3. TaskOK(task[s]) /\ task[s] \in Task /\ task[s].pc = "rotate" /\ task[s].root \in Vaults
  BY <1>1 DEF IInv, TaskOK, At
<1>4. \E t : task' = [task EXCEPT ![s] = t] /\ TaskOK(t) /\ SameUnlock(s, t)
  <2>1. CASE end = "ok"
    <3> DEFINE t == [task[s] EXCEPT !.pc = "rotated", !.dek = k]
    <3>1. t \in Task /\ t.pc = "rotated" /\ t.op = task[s].op /\ t.arg = task[s].arg
          /\ t.secret = task[s].secret /\ t.root = task[s].root /\ t.dek = k
      BY <1>3 DEF Task, Steps, Keys
    <3>2. task' = [task EXCEPT ![s] = t]
      BY <2>1 DEF Rotate, Become
    <3> HIDE DEF t
    <3>3. TaskOK(t) /\ SameUnlock(s, t)
      BY <1>3, <3>1 DEF TaskOK, SameUnlock, Keys
    <3>4. QED
      BY <3>2, <3>3
  <2>2. CASE end # "ok" /\ task[s].op = "unlock"
    <3> DEFINE t == [task[s] EXCEPT !.pc = "hold"]
    <3>1. TaskOK(t)
      BY <1>3, <2>2, NextPcOK DEF TaskOK
    <3>2. SameUnlock(s, t)
      BY <1>3, <2>2 DEF SameUnlock, Task
    <3>3. QED
      BY <2>2, <3>1, <3>2 DEF Rotate, Become
  <2>3. CASE end # "ok" /\ task[s].op # "unlock"
    <3>1. Idle.op # "unlock"
      BY ConstantsAssumption DEF Idle, RequestKinds
    <3>2. QED
      BY <2>3, <3>1, IdleOK DEF Rotate, Finish, Become, SameUnlock
  <2>4. QED
    BY <2>1, <2>2, <2>3
<1> HIDE DEF g
<1>5. QED
  BY <1>1, <1>2, <1>4, ResealStepKeeps

LEMMA RotateNothingKeeps ==
    ASSUME IInv, NEW s \in Servers, RotateNothing(s)
    PROVE  IInv'
<1>1. TaskOK(task[s]) /\ task[s] \in Task /\ task[s].pc = "rotate" /\ task[s].root \in Vaults
      /\ UNCHANGED <<file, held, lastHeld, spent, known, kept>>
  BY DEF RotateNothing, IInv, TaskOK, At
<1>2. CASE task[s].op = "unlock"
  <2> DEFINE t == [task[s] EXCEPT !.pc = "hold"]
  <2>1. TaskOK(t)
    BY <1>1, <1>2, NextPcOK DEF TaskOK
  <2>2. SameUnlock(s, t)
    BY <1>1, <1>2 DEF SameUnlock, Task
  <2>3. task' = [task EXCEPT ![s] = t]
    BY <1>2 DEF RotateNothing, Become
  <2> HIDE DEF t
  <2>4. QED
    BY <1>1, <2>1, <2>2, <2>3, ResealStepKeeps DEF IInv, TypeOK
<1>3. CASE task[s].op # "unlock"
  BY <1>1, <1>3, FinishReads DEF RotateNothing, IInv, TypeOK
<1>4. QED
  BY <1>2, <1>3

LEMMA DropAfterRotateKeeps ==
    ASSUME IInv, NEW s \in Servers, DropAfterRotate(s)
    PROVE  IInv'
<1> DEFINE t == [task[s] EXCEPT !.pc = "hold"]
<1>1. task[s] \in Task /\ TaskOK(task[s]) /\ task[s].pc = "rotated"
      /\ task[s].doc.vault \in Vaults \cup {None}
  BY DEF DropAfterRotate, At, IInv, TaskOK, Task, File
<1>2. /\ task' = [task EXCEPT ![s] = t] /\ UNCHANGED <<file, lastHeld, spent, known, kept>>
      /\ held' \in [Vaults -> Hold \cup {NoHold}]
  BY <1>1, DropType DEF DropAfterRotate, Become, IInv
<1>3. t \in Task /\ t.pc = "hold" /\ t.op = task[s].op /\ t.arg = task[s].arg
      /\ t.secret = task[s].secret /\ t.root = task[s].root /\ t.dek = task[s].dek
  BY <1>1 DEF Task, Steps
<1> HIDE DEF t
<1>4. TaskOK(t)
  BY <1>1, <1>3 DEF TaskOK
<1>5. t.op = "unlock" /\ file.slots[t.arg].old => t.secret = file.slots[t.arg].secret
  BY <1>3 DEF IInv, OldSecrets
<1>6. QED
  BY <1>2, <1>4, <1>5, ReadStepKeeps DEF IInv, TypeOK

LEMMA HoldKeyKeeps ==
    ASSUME IInv, NEW s \in Servers, HoldKey(s)
    PROVE  IInv'
<1>1. task[s].root \in Vaults /\ task[s].dek \in Keys /\ file.vault \in Vaults /\ task[s] \in Task
  BY DEF HoldKey, At, IInv, TaskOK, FileOK, File
<1>2. /\ held' \in [Vaults -> Hold \cup {NoHold}]
      /\ lastHeld' \in [Servers -> Vaults \cup {None}]
  BY <1>1, PutType DEF HoldKey, IInv, TypeOK
<1>3. QED
  BY <1>2, FinishReads DEF HoldKey, IInv, TypeOK

LEMMA HoldFailsKeeps ==
    ASSUME IInv, NEW s \in Servers, HoldFails(s)
    PROVE  IInv'
<1>1. task[s].root \in Vaults /\ task[s].dek \in Keys /\ task[s] \in Task
  BY DEF HoldFails, At, IInv, TaskOK
<1>2. held' \in [Vaults -> Hold \cup {NoHold}]
  BY <1>1, ClearType, PutType DEF HoldFails, IInv, TypeOK, FileOK, File
<1>3. QED
  BY <1>2, FinishReads DEF HoldFails, IInv, TypeOK

-----------------------------------------------------------------------------
(* The writes.                                                             *)

LEMMA RefuseKeeps ==
    ASSUME IInv, NEW s \in Servers, Refuse(s)
    PROVE  IInv'
BY FinishReads DEF Refuse, IInv, TypeOK

\* A write that keeps the recovery slot and the entries.
LEMMA SaveKeeps ==
    ASSUME IInv, NEW s \in Servers, NEW t, NEW g, NEW n \in SlotNames \ {"recovery"}, NEW x,
           task' = [task EXCEPT ![s] = t], TaskOK(t), t.op # "unlock",
           FileOK(g), g.slots = [file.slots EXCEPT ![n] = x], ~x.old,
           g.contents = file.contents, file.vault # None, file' \in {file, g},
           UNCHANGED <<held, lastHeld, spent, known, kept>>
    PROVE  IInv'
<1>1. \A m \in SlotNames : g.slots[m] = IF m = n THEN x ELSE file.slots[m]
  BY DEF IInv, FileOK, File
<1>2. \A m \in SlotNames : file'.slots[m].old => file'.slots[m] = file.slots[m]
  BY <1>1
<1>3. file'.slots["recovery"] = file.slots["recovery"] /\ file'.contents = file.contents
      /\ FileOK(file')
  BY <1>1 DEF SlotNames, IInv
<1>4. RecoveryOpens' /\ EntriesKept'
  BY <1>3 DEF IInv, RecoveryOpens, EntriesKept, Has
<1>5. QED
  BY <1>2, <1>3, <1>4, StepKeeps DEF IInv, TypeOK

LEMMA FinishedOK ==
    ASSUME NEW s \in Servers, Finish(s)
    PROVE  task' = [task EXCEPT ![s] = Idle] /\ TaskOK(Idle) /\ Idle.op # "unlock"
BY IdleOK, ConstantsAssumption DEF Finish, Become, Idle, RequestKinds

LEMMA NewSlotIsNew == \A root, secret : ~NewSlot(root, secret).old
BY DEF NewSlot

LEMMA AddPasskeyKeeps ==
    ASSUME IInv, NEW s \in Servers, NEW end \in Ends, AddPasskey(s, end)
    PROVE  IInv'
<1> DEFINE t == task[s]
           x == NewSlot(t.root, t.secret)
           g == WithSlot(file, t.arg, x)
<1>1. CASE Refuse(s)
  BY <1>1, RefuseKeeps
<1>2. CASE ~Refuse(s)
  <2>1. /\ file' \in {file, g} /\ CheckRoot(file, t.root) /\ Finish(s)
        /\ t.op = "add_passkey" /\ UNCHANGED <<held, lastHeld, spent, known, kept>>
    BY <1>2 DEF AddPasskey, Write, Loaded, Writing
  <2>2. t.root \in Vaults /\ t.secret \in Secrets /\ t.arg \in SlotNames \ {"recovery", "pair"}
    BY <2>1, ConstantsAssumption DEF IInv, TaskOK, SlotNames
  <2>3. file.vault # None /\ t.root = file.vault
    BY <2>1, <2>2, CheckRootMeans DEF IInv
  <2>4. FileOK(g)
    BY <2>2, <2>3, WithSlotOK DEF IInv
  <2>5. g.slots = [file.slots EXCEPT ![t.arg] = x] /\ g.contents = file.contents
    BY DEF WithSlot, IInv, FileOK, File
  <2> HIDE DEF g, x
  <2>6. QED
    BY <2>1, <2>2, <2>3, <2>4, <2>5, FinishedOK, SaveKeeps, NewSlotIsNew DEF x
<1>3. QED
  BY <1>1, <1>2

\* Where a new method leads after its write.
LEMMA AfterMethodOK ==
    ASSUME IInv, NEW s \in Servers, NEW end \in Ends, AfterMethod(s, end),
           task[s].op \in {"add_mfa", "add_pair"}, task[s].pc = "write"
    PROVE  \E t : task' = [task EXCEPT ![s] = t] /\ TaskOK(t) /\ t.op # "unlock"
<1>1. CASE Finish(s)
  BY <1>1, FinishedOK
<1>2. CASE Become(s, [task[s] EXCEPT !.pc = "hold"])
  <2> DEFINE t == [task[s] EXCEPT !.pc = "hold"]
  <2>1. TaskOK(task[s]) /\ task[s] \in Task
    BY DEF IInv, TaskOK
  <2>2. t \in Task /\ t.pc = "hold" /\ t.op = task[s].op /\ t.arg = task[s].arg
        /\ t.secret = task[s].secret /\ t.root = task[s].root /\ t.dek = task[s].dek
    BY <2>1 DEF Task, Steps
  <2>3. task' = [task EXCEPT ![s] = t]
    BY <1>2 DEF Become
  <2> HIDE DEF t
  <2>4. TaskOK(t) /\ t.op # "unlock"
    BY <2>1, <2>2 DEF TaskOK, Keys
  <2>5. QED
    BY <2>3, <2>4
<1>3. QED
  BY <1>1, <1>2 DEF AfterMethod

LEMMA AddMfaKeeps ==
    ASSUME IInv, NEW s \in Servers, NEW end \in Ends, AddMfa(s, end)
    PROVE  IInv'
<1> DEFINE x == NewSlot(task[s].root, task[s].secret)
           g == WithMfa(file, x, task[s].dek)
<1>1. CASE Refuse(s)
  BY <1>1, RefuseKeeps
<1>2. CASE ~Refuse(s)
  <2>1. /\ file' \in {file, g} /\ CheckRoot(file, task[s].root)
        /\ CheckDek(file, task[s].dek) /\ AfterMethod(s, end)
        /\ task[s].op = "add_mfa" /\ task[s].pc = "write"
        /\ UNCHANGED <<held, lastHeld, spent, known, kept>>
    BY <1>2 DEF AddMfa, Write, Loaded, Writing, At
  <2>2. task[s].root \in Vaults /\ task[s].secret \in Secrets /\ task[s].dek \in DataKeys
    BY <2>1 DEF IInv, TaskOK
  <2>3. file.vault # None /\ task[s].root = file.vault
    BY <2>1, <2>2, CheckRootMeans DEF IInv
  <2>4. file.version = 2 /\ task[s].dek = file.dataKey
    BY <2>1, <2>2, CheckDekMeans DEF IInv
  <2>5. FileOK(g)
    BY <2>2, <2>3, <2>4, WithMfaOK DEF IInv
  <2>6. g.slots = [file.slots EXCEPT !["password"] = x] /\ g.contents = file.contents
    BY DEF WithMfa, WithSlot, IInv, FileOK, File
  <2> HIDE DEF g
  <2>7. ~x.old
    BY NewSlotIsNew
  <2> HIDE DEF x
  <2>8. "password" \in SlotNames \ {"recovery"}
    BY DEF SlotNames
  <2>9. QED
    BY <2>1, <2>3, <2>5, <2>6, <2>7, <2>8, AfterMethodOK, SaveKeeps
<1>3. QED
  BY <1>1, <1>2

LEMMA AddPairKeeps ==
    ASSUME IInv, NEW s \in Servers, NEW end \in Ends, AddPair(s, end)
    PROVE  IInv'
<1> DEFINE x == NewSlot(task[s].root, task[s].secret)
           g == WithPair(file, x, task[s].dek)
<1>1. CASE Refuse(s)
  BY <1>1, RefuseKeeps
<1>2. CASE ~Refuse(s)
  <2>1. /\ file' \in {file, g} /\ CheckRoot(file, task[s].root)
        /\ CheckDek(file, task[s].dek) /\ AfterMethod(s, end)
        /\ task[s].op = "add_pair" /\ task[s].pc = "write"
        /\ UNCHANGED <<held, lastHeld, spent, known, kept>>
    BY <1>2 DEF AddPair, Write, Loaded, Writing, At
  <2>2. task[s].root \in Vaults /\ task[s].secret \in Secrets /\ task[s].dek \in DataKeys
    BY <2>1 DEF IInv, TaskOK
  <2>3. file.vault # None /\ task[s].root = file.vault
    BY <2>1, <2>2, CheckRootMeans DEF IInv
  <2>4. file.version = 2 /\ task[s].dek = file.dataKey
    BY <2>1, <2>2, CheckDekMeans DEF IInv
  <2>5. FileOK(g)
    BY <2>2, <2>3, <2>4, WithPairOK DEF IInv
  <2>6. g.slots = [file.slots EXCEPT !["pair"] = x] /\ g.contents = file.contents
    BY DEF WithPair, WithSlot, IInv, FileOK, File
  <2> HIDE DEF g
  <2>7. ~x.old
    BY NewSlotIsNew
  <2> HIDE DEF x
  <2>8. "pair" \in SlotNames \ {"recovery"}
    BY DEF SlotNames
  <2>9. QED
    BY <2>1, <2>3, <2>5, <2>6, <2>7, <2>8, AfterMethodOK, SaveKeeps
<1>3. QED
  BY <1>1, <1>2

LEMMA RemovePasskeyKeeps ==
    ASSUME IInv, NEW s \in Servers, NEW end \in Ends, RemovePasskey(s, end)
    PROVE  IInv'
<1> DEFINE g == WithoutSlot(file, task[s].arg)
<1>1. CASE Refuse(s)
  BY <1>1, RefuseKeeps
<1>2. CASE ~Refuse(s)
  <2>1. /\ file' \in {file, g} /\ Has(file, task[s].arg) /\ Finish(s)
        /\ task[s].op = "remove_passkey" /\ UNCHANGED <<held, lastHeld, spent, known, kept>>
    BY <1>2 DEF RemovePasskey, Write, Writing
  <2>2. task[s].arg \in SlotNames \ {"recovery"}
    BY <2>1, ConstantsAssumption DEF IInv, TaskOK, SlotNames
  <2>3. file.vault # None
    BY <2>1, <2>2 DEF IInv, FileOK, NoFile, Has
  <2>4. FileOK(g)
    BY <2>2, <2>3, WithoutSlotOK DEF IInv
  <2>5. g.slots = [file.slots EXCEPT ![task[s].arg] = NoSlot] /\ g.contents = file.contents
    BY DEF WithoutSlot, WithSlot, IInv, FileOK, File
  <2>6. ~NoSlot.old
    BY DEF NoSlot
  <2> HIDE DEF g
  <2>7. QED
    BY <2>1, <2>2, <2>3, <2>4, <2>5, <2>6, FinishedOK, SaveKeeps
<1>3. QED
  BY <1>1, <1>2

LEMMA RemoveMfaKeeps ==
    ASSUME IInv, NEW s \in Servers, NEW end \in Ends, RemoveMfa(s, end)
    PROVE  IInv'
<1> DEFINE g == WithoutMfa(file)
<1>1. CASE Refuse(s)
  BY <1>1, RefuseKeeps
<1>2. CASE ~Refuse(s)
  <2>1. /\ file' \in {file, g} /\ (Has(file, "password") \/ file.appKey # None) /\ Finish(s)
        /\ UNCHANGED <<held, lastHeld, spent, known, kept>>
    BY <1>2 DEF RemoveMfa, Write
  <2>2. file.vault # None /\ "password" \in SlotNames \ {"recovery"}
    BY <2>1 DEF IInv, FileOK, NoFile, Has, SlotNames
  <2>3. FileOK(g)
    BY <2>2, WithoutMfaOK DEF IInv
  <2>4. g.slots = [file.slots EXCEPT !["password"] = NoSlot] /\ g.contents = file.contents
    BY DEF WithoutMfa, WithSlot, IInv, FileOK, File
  <2>5. ~NoSlot.old
    BY DEF NoSlot
  <2> HIDE DEF g
  <2>6. QED
    BY <2>1, <2>2, <2>3, <2>4, <2>5, FinishedOK, SaveKeeps
<1>3. QED
  BY <1>1, <1>2

\* The recovery slot changes only here, and the new passphrase is told with it.
LEMMA ReplaceRecoveryKeeps ==
    ASSUME IInv, NEW s \in Servers, NEW end \in Ends, ReplaceRecovery(s, end)
    PROVE  IInv'
<1> DEFINE x == NewSlot(task[s].root, task[s].secret)
           g == WithSlot(file, "recovery", x)
<1>1. CASE Refuse(s)
  BY <1>1, RefuseKeeps
<1>2. CASE ~Refuse(s)
  <2>1. /\ end \in {"ok", "write", "late"} /\ CheckRoot(file, task[s].root) /\ Finish(s)
        /\ file' = (IF end = "write" THEN file ELSE g)
        /\ known' = (CASE end = "ok" -> {task[s].secret}
                       [] end = "late" -> known \cup {task[s].secret}
                       [] end = "write" -> known)
        /\ task[s].op = "replace_recovery" /\ UNCHANGED <<held, lastHeld, spent, kept>>
    BY <1>2 DEF ReplaceRecovery, Write, Loaded, Writing, Ends
  <2>2. task[s].root \in Vaults /\ task[s].secret \in Secrets /\ task[s].secret \in Phrases
    BY <2>1 DEF IInv, TaskOK
  <2>3. file.vault # None /\ task[s].root = file.vault /\ file \in File
    BY <2>1, <2>2, CheckRootMeans DEF IInv, FileOK
  <2>4. "recovery" \in SlotNames \ {"pair"} /\ FileOK(g) /\ g.vault = file.vault
    BY <2>2, <2>3, WithSlotOK DEF IInv, SlotNames
  <2>5. /\ \A m \in SlotNames : g.slots[m] = IF m = "recovery" THEN x ELSE file.slots[m]
        /\ g.contents = file.contents
    BY <2>3 DEF WithSlot, File
  <2>6. ~x.old /\ x.secret = task[s].secret
    BY DEF NewSlot
  <2> HIDE DEF g, x
  <2>7. known' \subseteq Phrases
        /\ (end # "write" => task[s].secret \in known') /\ (end = "write" => known' = known)
    <3>1. known \subseteq Phrases
      BY DEF IInv, TypeOK
    <3>2. known' \in {known, {task[s].secret}, known \cup {task[s].secret}}
          /\ (end # "write" => task[s].secret \in known') /\ (end = "write" => known' = known)
      BY <2>1
    <3>3. QED
      BY <2>2, <3>1, <3>2
  <2>8. RecoveryOpens'
    <3>1. CASE end = "write"
      BY <2>1, <2>7, <3>1 DEF IInv, RecoveryOpens, Has
    <3>2. CASE end # "write"
      BY <2>1, <2>4, <2>5, <2>6, <2>7, <3>2 DEF RecoveryOpens, FileOK
    <3>3. QED
      BY <3>1, <3>2
  <2>9. EntriesKept'
    BY <2>1, <2>5 DEF IInv, EntriesKept
  <2>10. FileOK(file') /\ \A m \in SlotNames : file'.slots[m].old => file'.slots[m] = file.slots[m]
    BY <2>1, <2>4, <2>5, <2>6 DEF IInv
  <2>11. QED
    BY <2>1, <2>7, <2>8, <2>9, <2>10, FinishedOK, StepKeeps DEF IInv, TypeOK
<1>3. QED
  BY <1>1, <1>2

\* A write of the entries under the key they are sealed under.
LEMMA EntriesStepKeeps ==
    ASSUME IInv, NEW s \in Servers, NEW names \in SUBSET Names, file.vault # None,
           file' \in {file, WithEntries(file, names, file.entriesKey)},
           Finish(s), kept' \subseteq file'.contents, kept' \subseteq Names,
           UNCHANGED <<held, lastHeld, spent, known>>
    PROVE  IInv'
<1> DEFINE g == WithEntries(file, names, file.entriesKey)
<1>1. FileOK(g) /\ g.slots = file.slots /\ g.vault = file.vault
  BY WithEntriesOK DEF IInv
<1> HIDE DEF g
<1>2. FileOK(file') /\ file'.slots = file.slots /\ file'.vault = file.vault
  BY <1>1 DEF IInv, g
<1>3. RecoveryOpens' /\ EntriesKept'
  BY <1>2 DEF IInv, RecoveryOpens, EntriesKept, Has
<1>4. QED
  BY <1>2, <1>3, FinishedOK, StepKeeps DEF IInv, TypeOK

LEMMA AddEntryKeeps ==
    ASSUME IInv, NEW s \in Servers, NEW end \in Ends, AddEntry(s, end)
    PROVE  IInv'
<1>1. CASE Refuse(s)
  BY <1>1, RefuseKeeps
<1>2. CASE ~Refuse(s)
  <2> DEFINE names == file.contents \cup {task[s].arg}
  <2>1. /\ CheckDek(file, task[s].dek) /\ Finish(s) /\ task[s].op = "add"
        /\ file' = (IF end = "write" THEN file ELSE WithEntries(file, names, task[s].dek))
        /\ kept' = (IF end = "ok" THEN kept \cup {task[s].arg} ELSE kept)
        /\ UNCHANGED <<held, lastHeld, spent, known>>
    BY <1>2 DEF AddEntry, Write, Writing
  <2>2. file.vault # None /\ task[s].dek = file.entriesKey
    BY <2>1 DEF CheckDek, ReadsEntries
  <2>3. task[s].arg \in Names /\ names \in SUBSET Names /\ kept' \subseteq Names
    BY <2>1 DEF IInv, TaskOK, TypeOK, File
  <2>4. file \in File /\ WithEntries(file, names, task[s].dek).contents = names
    BY DEF WithEntries, IInv, FileOK, File
  <2>5. kept' \subseteq file'.contents
    BY <2>1, <2>4 DEF IInv, EntriesKept, Ends
  <2> HIDE DEF names
  <2>6. QED
    BY <2>1, <2>2, <2>3, <2>5, EntriesStepKeeps
<1>3. QED
  BY <1>1, <1>2

LEMMA DeleteEntryKeeps ==
    ASSUME IInv, NEW s \in Servers, NEW end \in Ends, DeleteEntry(s, end)
    PROVE  IInv'
<1>1. CASE Refuse(s)
  BY <1>1, RefuseKeeps
<1>2. CASE ~Refuse(s)
  <2> DEFINE names == file.contents \ {task[s].arg}
  <2>1. /\ CheckDek(file, task[s].dek) /\ Finish(s)
        /\ file' = (IF end = "write" THEN file ELSE WithEntries(file, names, task[s].dek))
        /\ kept' = (IF end = "write" THEN kept ELSE kept \ {task[s].arg})
        /\ UNCHANGED <<held, lastHeld, spent, known>>
    BY <1>2 DEF DeleteEntry, Write, Writing
  <2>2. file.vault # None /\ task[s].dek = file.entriesKey
    BY <2>1 DEF CheckDek, ReadsEntries
  <2>3. names \in SUBSET Names /\ kept' \subseteq Names
    BY <2>1 DEF IInv, TypeOK, File
  <2>4. file \in File /\ WithEntries(file, names, task[s].dek).contents = names
    BY DEF WithEntries, IInv, FileOK, File
  <2>5. kept' \subseteq file'.contents
    BY <2>1, <2>4 DEF IInv, EntriesKept
  <2> HIDE DEF names
  <2>6. QED
    BY <2>1, <2>2, <2>3, <2>5, EntriesStepKeeps
<1>3. QED
  BY <1>1, <1>2

-----------------------------------------------------------------------------
(* Every step.                                                             *)

LEMMA LockKeeps ==
    ASSUME IInv, NEW s \in Servers, Lock(s)
    PROVE  IInv'
<1>1. /\ held' \in [Vaults -> Hold \cup {NoHold}]
      /\ lastHeld' \in [Servers -> Vaults \cup {None}]
  BY DEF Lock, IInv, TypeOK
<1>2. RecoveryOpens' /\ EntriesKept'
  BY DEF Lock, IInv, RecoveryOpens, EntriesKept, Has
<1>3. QED
  BY <1>1, <1>2, OutsideStepKeeps DEF Lock, IInv, TypeOK

LEMMA OutsideKeeps ==
    ASSUME IInv, (\E v \in Vaults : Expire(v)) \/ Age \/ RemoveFile
    PROVE  IInv'
<1>1. ASSUME NEW v \in Vaults, Expire(v) PROVE IInv'
  <2>1. held' \in [Vaults -> Hold \cup {NoHold}]
    BY <1>1, ClearType DEF Expire, IInv
  <2>2. RecoveryOpens' /\ EntriesKept'
    BY <1>1 DEF Expire, IInv, RecoveryOpens, EntriesKept, Has
  <2>3. QED
    BY <1>1, <2>1, <2>2, OutsideStepKeeps DEF Expire, IInv, TypeOK
<1>2. CASE Age
  <2>1. FileOK(file') /\ file'.slots = file.slots /\ file'.contents = file.contents
        /\ file'.vault = file.vault
    BY <1>2 DEF Age, IInv, FileOK, File, SealedUnder, Has
  <2>2. RecoveryOpens' /\ EntriesKept'
    BY <1>2, <2>1 DEF Age, IInv, RecoveryOpens, EntriesKept, Has
  <2>3. QED
    BY <1>2, <2>1, <2>2, OutsideStepKeeps DEF Age, IInv, TypeOK
<1>3. CASE RemoveFile
  <2>1. RecoveryOpens' /\ EntriesKept'
    BY <1>3 DEF RemoveFile, NoFile, RecoveryOpens, EntriesKept
  <2>2. FileOK(file') /\ \A n \in SlotNames : ~file'.slots[n].old
    BY <1>3, NoFileOK DEF RemoveFile
  <2>3. QED
    BY <1>3, <2>1, <2>2, OutsideStepKeeps DEF RemoveFile, IInv, TypeOK
<1>4. QED
  BY <1>1, <1>2, <1>3

LEMMA CrashKeeps ==
    ASSUME IInv, NEW s \in Servers, Crash(s)
    PROVE  IInv'
<1>1. lastHeld' \in [Servers -> Vaults \cup {None}]
  BY DEF Crash, IInv, TypeOK
<1>2. QED
  BY <1>1, FinishReads DEF Crash, IInv, TypeOK

LEMMA StartKeeps ==
    ASSUME IInv, NEW s \in Servers, Start(s)
    PROVE  IInv'
<1>1. CASE \E n \in SlotNames : StartUnlock(s, n) \/ StartRotate(s, n)
  BY <1>1, StartUnlockKeeps, StartRotateKeeps
<1>2. CASE \E proof \in Proofs, p \in Passkeys : StartAddPasskey(s, p, proof)
  BY <1>2, StartAddPasskeyKeeps
<1>3. CASE \E proof \in Proofs, phrase \in Phrases : StartReplaceRecovery(s, phrase, proof)
  BY <1>3, StartReplaceRecoveryKeeps
<1>4. CASE \E proof \in Proofs, phrase \in Phrases, op \in {"add_mfa", "add_pair"} :
             StartAddMethod(s, op, phrase, proof)
  BY <1>4, StartAddMethodKeeps
<1>5. CASE \/ \E p \in Passkeys \cup {"pair"} : StartHeld(s, "remove_passkey", p)
           \/ StartHeld(s, "remove_mfa", None)
           \/ \E op \in {"add", "delete"}, n \in Names : StartHeld(s, op, n)
  BY <1>5, StartHeldKeeps
<1>6. CASE \E v \in Vaults, k \in DataKeys, phrase \in Phrases, end \in Ends :
             Create(s, v, k, phrase, end)
  BY <1>6, CreateKeeps
<1>7. QED
  BY <1>1, <1>2, <1>3, <1>4, <1>5, <1>6 DEF Start

LEMMA ContinueKeeps ==
    ASSUME IInv, NEW s \in Servers, Continue(s)
    PROVE  IInv'
BY ReopenKeeps, AdoptKeeps, RotateKeeps, AdoptNothingKeeps, DropAfterAdoptKeeps, RotateNothingKeeps,
   DropAfterRotateKeeps, UpgradeKeeps, HoldKeyKeeps, HoldFailsKeeps DEF Continue

LEMMA SaveAnyKeeps ==
    ASSUME IInv, NEW s \in Servers, NEW end \in Ends, Save(s, end)
    PROVE  IInv'
BY AddPasskeyKeeps, ReplaceRecoveryKeeps, AddMfaKeeps, AddPairKeeps, RemovePasskeyKeeps,
   RemoveMfaKeeps, AddEntryKeeps, DeleteEntryKeeps DEF Save

LEMMA NextKeeps == IInv /\ [Next]_vars => IInv'
<1> SUFFICES ASSUME IInv, [Next]_vars PROVE IInv'
  OBVIOUS
<1>1. CASE UNCHANGED vars
  BY <1>1 DEF vars, IInv, TypeOK, OldSecrets, RecoveryOpens, EntriesKept, Has
<1>2. CASE \E s \in Servers : Start(s) \/ Continue(s) \/ See(s) \/ Lock(s) \/ Crash(s)
  BY <1>2, StartKeeps, ContinueKeeps, SeeKeeps, LockKeeps, CrashKeeps
<1>3. CASE \E s \in Servers, end \in Ends : Save(s, end)
  BY <1>3, SaveAnyKeeps
<1>4. CASE (\E v \in Vaults : Expire(v)) \/ Age \/ RemoveFile
  BY <1>4, OutsideKeeps
<1>5. QED
  BY <1>1, <1>2, <1>3, <1>4 DEF Next

\* The file, the holder and every request are always what TypeOK, FileOK and
\* TaskOK say, whatever the servers do and whatever fails.
THEOREM Invariance == Spec => []IInv
BY InitOK, NextKeeps, PTL DEF Spec

\* TypeOK holds in every state, for any number of servers and requests.
THEOREM Typed == Spec => []TypeOK
<1>1. IInv => TypeOK
  BY DEF IInv
<1>2. QED
  BY <1>1, Invariance, PTL

\* Every slot of the vault file wraps the root of that file, also when the file
\* was replaced between a request's proof and its write (`_check_root`).
THEOREM SlotsAlwaysWrapRoot == Spec => []SlotsWrapRoot
<1>1. IInv => SlotsWrapRoot
  BY NoFileOK DEF IInv, FileOK, SlotsWrapRoot, NoFile, Has
<1>2. QED
  BY <1>1, Invariance, PTL

\* Entries, app secret and pair key are under the one data key the root opens:
\* no adoption, rotation or addition leaves a part behind.
THEOREM AlwaysSealedTogether == Spec => []SealedTogether
<1>1. IInv => SealedTogether
  BY DEF IInv, FileOK, SealedTogether, SealedUnder, OpenDataKey, File
<1>2. QED
  BY <1>1, Invariance, PTL

\* The recovery slot always opens with a passphrase its owner was told of, also
\* when an unlock's upgrade crosses another server's replacement.
THEOREM RecoveryAlwaysOpens == Spec => []RecoveryOpens
<1>1. IInv => RecoveryOpens
  BY DEF IInv
<1>2. QED
  BY <1>1, Invariance, PTL

\* No acknowledged entry is lost, whatever else is written meanwhile.
THEOREM EntriesAlwaysKept == Spec => []EntriesKept
<1>1. IInv => EntriesKept
  BY DEF IInv
<1>2. QED
  BY <1>1, Invariance, PTL

-----------------------------------------------------------------------------
(* What a step can do to the file.                                         *)

SlotStep == \E n \in SlotNames : \E x :
    file'.slots = [file.slots EXCEPT ![n] = x] /\ file'.dataKey = file.dataKey

KeyStep == file'.slots = file.slots /\ file'.dataKey \notin spent

OtherStep == file'.slots = file.slots /\ file'.dataKey = file.dataKey

NewFileStep == file.vault = None /\ file'.dataKey \notin spent

NoFileStep == file' = NoFile

FileStep == SlotStep \/ KeyStep \/ OtherStep \/ NewFileStep \/ NoFileStep

LEMMA SlotStepIs ==
    ASSUME NEW n \in SlotNames, NEW x, NEW g, file' \in {file, g},
           g.slots = [file.slots EXCEPT ![n] = x], g.dataKey = file.dataKey
    PROVE  FileStep
BY DEF FileStep, SlotStep, OtherStep

LEMMA OtherStepIs ==
    ASSUME NEW g, file' \in {file, g}, g.slots = file.slots, g.dataKey = file.dataKey
    PROVE  FileStep
BY DEF FileStep, OtherStep

LEMMA KeyStepIs ==
    ASSUME NEW g, NEW k, file' \in {file, g}, g.slots = file.slots, g.dataKey = k, k \notin spent
    PROVE  FileStep
BY DEF FileStep, KeyStep, OtherStep

LEMMA SaveIsFileStep ==
    ASSUME IInv, NEW s \in Servers, NEW end \in Ends, Save(s, end)
    PROVE  FileStep
<1> DEFINE x == NewSlot(task[s].root, task[s].secret)
           n == task[s].arg
           dek == task[s].dek
<1>1. file \in File /\ TaskOK(task[s]) /\ {"recovery", "password", "pair"} \subseteq SlotNames
  BY DEF IInv, TypeOK, SlotNames
<1>2. CASE AddPasskey(s, end)
  <2>1. n \in SlotNames
    BY <1>1, <1>2 DEF AddPasskey, Writing, TaskOK, SlotNames
  <2> DEFINE g == WithSlot(file, n, x)
  <2>2. file' \in {file, g}
    BY <1>2 DEF AddPasskey, Refuse, Write, Loaded
  <2>3. g.slots = [file.slots EXCEPT ![n] = x] /\ g.dataKey = file.dataKey
    BY <1>1 DEF WithSlot, File
  <2> HIDE DEF g, x
  <2>4. QED
    BY <1>1, <2>1, <2>2, <2>3, SlotStepIs
<1>3. CASE ReplaceRecovery(s, end)
  <2> DEFINE g == WithSlot(file, "recovery", x)
  <2>1. file' \in {file, g}
    BY <1>3 DEF ReplaceRecovery, Refuse, Write, Loaded
  <2>2. g.slots = [file.slots EXCEPT !["recovery"] = x] /\ g.dataKey = file.dataKey
    BY <1>1 DEF WithSlot, File
  <2> HIDE DEF g, x
  <2>3. QED
    BY <1>1, <2>1, <2>2, SlotStepIs
<1>4. CASE AddMfa(s, end)
  <2> DEFINE g == WithMfa(file, x, dek)
  <2>1. file' \in {file, g}
    BY <1>4 DEF AddMfa, Refuse, Write, Loaded
  <2>2. g.slots = [file.slots EXCEPT !["password"] = x] /\ g.dataKey = file.dataKey
    BY <1>1 DEF WithMfa, WithSlot, File
  <2> HIDE DEF g, x
  <2>3. QED
    BY <1>1, <2>1, <2>2, SlotStepIs
<1>5. CASE AddPair(s, end)
  <2> DEFINE g == WithPair(file, x, dek)
  <2>1. file' \in {file, g}
    BY <1>5 DEF AddPair, Refuse, Write, Loaded
  <2>2. g.slots = [file.slots EXCEPT !["pair"] = x] /\ g.dataKey = file.dataKey
    BY <1>1 DEF WithPair, WithSlot, File
  <2> HIDE DEF g, x
  <2>3. QED
    BY <1>1, <2>1, <2>2, SlotStepIs
<1>6. CASE RemovePasskey(s, end)
  <2>1. n \in SlotNames
    BY <1>1, <1>6 DEF RemovePasskey, Writing, TaskOK, SlotNames
  <2> DEFINE g == WithoutSlot(file, n)
  <2>2. file' \in {file, g}
    BY <1>6 DEF RemovePasskey, Refuse, Write
  <2>3. g.slots = [file.slots EXCEPT ![n] = NoSlot] /\ g.dataKey = file.dataKey
    BY <1>1 DEF WithoutSlot, WithSlot, File
  <2> HIDE DEF g
  <2>4. QED
    BY <1>1, <2>1, <2>2, <2>3, SlotStepIs
<1>7. CASE RemoveMfa(s, end)
  <2> DEFINE g == WithoutMfa(file)
  <2>1. file' \in {file, g}
    BY <1>7 DEF RemoveMfa, Refuse, Write
  <2>2. g.slots = [file.slots EXCEPT !["password"] = NoSlot] /\ g.dataKey = file.dataKey
    BY <1>1 DEF WithoutMfa, WithSlot, File
  <2> HIDE DEF g
  <2>3. QED
    BY <1>1, <2>1, <2>2, SlotStepIs
<1>8. CASE AddEntry(s, end)
  <2> DEFINE g == WithEntries(file, file.contents \cup {n}, dek)
  <2>1. file' \in {file, g}
    BY <1>8 DEF AddEntry, Refuse, Write
  <2>2. g.slots = file.slots /\ g.dataKey = file.dataKey
    BY <1>1 DEF WithEntries, File
  <2> HIDE DEF g
  <2>3. QED
    BY <1>1, <2>1, <2>2, OtherStepIs
<1>9. CASE DeleteEntry(s, end)
  <2> DEFINE g == WithEntries(file, file.contents \ {n}, dek)
  <2>1. file' \in {file, g}
    BY <1>9 DEF DeleteEntry, Refuse, Write
  <2>2. g.slots = file.slots /\ g.dataKey = file.dataKey
    BY <1>1 DEF WithEntries, File
  <2> HIDE DEF g
  <2>3. QED
    BY <1>1, <2>1, <2>2, OtherStepIs
<1>10. QED
  BY <1>2, <1>3, <1>4, <1>5, <1>6, <1>7, <1>8, <1>9 DEF Save

LEMMA ContinueIsFileStep ==
    ASSUME IInv, NEW s \in Servers, Continue(s)
    PROVE  FileStep
<1>1. file \in File /\ TaskOK(task[s])
  BY DEF IInv, TypeOK
<1>2. ASSUME NEW k \in DataKeys, NEW end \in Ends, Adopt(s, k, end) PROVE FileStep
  <2> DEFINE g == Resealed(file, k)
  <2>1. file' \in {file, g} /\ k \notin spent
    BY <1>2 DEF Adopt, Write, Loaded, Fresh
  <2>2. g.slots = file.slots /\ g.dataKey = k
    BY <1>1 DEF Resealed, File
  <2> HIDE DEF g
  <2>3. QED
    BY <1>1, <2>1, <2>2, KeyStepIs
<1>3. ASSUME NEW k \in DataKeys, NEW end \in Ends, Rotate(s, k, end) PROVE FileStep
  <2> DEFINE g == Rotated(file, k)
  <2>1. file' \in {file, g} /\ k \notin spent
    BY <1>3 DEF Rotate, Write, Loaded, Fresh
  <2>2. g.slots = file.slots /\ g.dataKey = k
    BY <1>1 DEF Rotated, Resealed, File
  <2> HIDE DEF g
  <2>3. QED
    BY <1>1, <2>1, <2>2, KeyStepIs
<1>4. ASSUME NEW end \in Ends, Upgrade(s, end) PROVE FileStep
  <2> DEFINE x == NewSlot(task[s].root, task[s].secret)
             n == task[s].arg
  <2>1. n \in SlotNames
    BY <1>1, <1>4 DEF Upgrade, At, TaskOK, SlotNames
  <2> DEFINE g == WithSlot(file, n, x)
  <2>2. file' \in {file, g}
    BY <1>4 DEF Upgrade, Write, Loaded
  <2>3. g.slots = [file.slots EXCEPT ![n] = x] /\ g.dataKey = file.dataKey
    BY <1>1 DEF WithSlot, File
  <2> HIDE DEF g, x
  <2>4. QED
    BY <1>1, <2>1, <2>2, <2>3, SlotStepIs
<1>5. CASE Reopen(s) \/ AdoptNothing(s) \/ DropAfterAdopt(s) \/ RotateNothing(s) \/ DropAfterRotate(s)
           \/ HoldKey(s) \/ HoldFails(s)
  BY <1>5 DEF Reopen, AdoptNothing, DropAfterAdopt, RotateNothing, DropAfterRotate, HoldKey, HoldFails,
     FileStep, OtherStep
<1>6. QED
  BY <1>2, <1>3, <1>4, <1>5 DEF Continue

LEMMA NextIsFileStep == IInv /\ [Next]_vars => FileStep
<1> SUFFICES ASSUME IInv, [Next]_vars PROVE FileStep
  OBVIOUS
<1>1. ASSUME NEW s \in Servers, Start(s) PROVE FileStep
  <2>1. CASE file' = file
    BY <2>1 DEF FileStep, OtherStep
  <2>2. CASE file' # file
    <3>1. PICK v \in Vaults, k \in DataKeys, phrase \in Phrases, end \in Ends :
            Create(s, v, k, phrase, end)
      BY <1>1, <2>2 DEF Start, StartUnlock, StartRotate, StartAddPasskey, StartReplaceRecovery,
         StartAddMethod, StartHeld
    <3>2. file' = Created(v, k, phrase) /\ file.vault = None /\ k \notin spent
      BY <2>2, <3>1 DEF Create, Write
    <3>3. Created(v, k, phrase).dataKey = k
      BY DEF Created, NoFile
    <3>4. QED
      BY <3>2, <3>3 DEF FileStep, NewFileStep
  <2>3. QED
    BY <2>1, <2>2
<1>2. ASSUME NEW s \in Servers, See(s) \/ Lock(s) \/ Crash(s) PROVE FileStep
  BY <1>2 DEF See, Lock, Crash, FileStep, OtherStep
<1>3. CASE (\E v \in Vaults : Expire(v)) \/ UNCHANGED vars
  BY <1>3 DEF Expire, vars, FileStep, OtherStep
<1>4. CASE Age
  BY <1>4 DEF Age, IInv, TypeOK, File, FileStep, OtherStep
<1>5. CASE RemoveFile
  BY <1>5 DEF RemoveFile, FileStep, NoFileStep
<1>6. ASSUME NEW s \in Servers, Continue(s) PROVE FileStep
  BY <1>6, ContinueIsFileStep
<1>7. ASSUME NEW s \in Servers, NEW end \in Ends, Save(s, end) PROVE FileStep
  BY <1>7, SaveIsFileStep
<1>8. QED
  BY <1>1, <1>2, <1>3, <1>4, <1>5, <1>6, <1>7 DEF Next

\* A data key once left is never the file's key again, whichever server draws
\* the next one: a copy of the old key stays useless.
THEOREM DataKeysAlwaysFresh == Spec => DataKeysAreFresh
<1>1. FileStep => (file'.dataKey \notin {None, file.dataKey} => file'.dataKey \notin spent)
  <2>1. NoFile.dataKey = None
    BY DEF NoFile
  <2>2. SlotStep => file'.dataKey = file.dataKey
    BY DEF SlotStep
  <2>3. QED
    BY <2>1, <2>2 DEF FileStep, KeyStep, OtherStep, NewFileStep, NoFileStep
<1>2. IInv /\ [Next]_vars =>
        [file'.dataKey \notin {None, file.dataKey} => file'.dataKey \notin spent]_file
  BY <1>1, NextIsFileStep
<1>3. QED
  BY <1>2, Invariance, PTL DEF Spec, DataKeysAreFresh

\* No write disturbs a slot it is not about, and a rotation disturbs none.
THEOREM OneSlotIsWritten == Spec => WritesOneSlot
<1> DEFINE One == file.vault # None /\ file'.vault = file.vault =>
             /\ \A m, n \in SlotNames :
                  file'.slots[m] # file.slots[m] /\ file'.slots[n] # file.slots[n] => m = n
             /\ file'.dataKey # file.dataKey => file'.slots = file.slots
<1>1. TypeOK /\ FileStep => One
  <2> SUFFICES ASSUME TypeOK, FileStep, file.vault # None, file'.vault = file.vault PROVE One
    OBVIOUS
  <2>1. CASE SlotStep
    BY <2>1 DEF SlotStep, TypeOK, File
  <2>2. CASE KeyStep \/ OtherStep
    BY <2>2 DEF KeyStep, OtherStep
  <2>3. ~NewFileStep /\ ~NoFileStep
    BY DEF NewFileStep, NoFileStep, NoFile
  <2>4. QED
    BY <2>1, <2>2, <2>3 DEF FileStep
<1>2. IInv /\ [Next]_vars => [One]_file
  BY <1>1, NextIsFileStep DEF IInv
<1>3. QED
  BY <1>2, Invariance, PTL DEF Spec, WritesOneSlot

-----------------------------------------------------------------------------
(***************************************************************************)
(* The held key reads the entries, for one server of the vault and every   *)
(* value of the other constants (VaultKeys.HeldKeyReads).                  *)
(*                                                                         *)
(* Two servers, a write that fails after its rename, a crash between a new *)
(* data key and the drop of the old one, and a drop the agent does not get *)
(* are the four ways to hold a key the file has left: the theorem excludes *)
(* the first three, and of the fourth says that it is the only one left.   *)
(* What it needs beyond IInv is what the one request under way             *)
(* has in hand against the file as it is now: the data key it is going to  *)
(* hold still reads the entries, and the document it is going to drop the  *)
(* key of is still this vault's.                                           *)
(***************************************************************************)
OneServer == \A s, u \in Servers : s = u

\* A write that raises has changed nothing, and no server stops halfway.
FailuresAreAnswered == {"late", "crash"} \cap Faults = {}

\* Between a new data key and the drop of the old one.
Changing == {"adopted", "rotated"}

\* The request will hold its data key unless a later step gives it another.
WillHold(t) ==
    \/ t.pc \in {"open", "adopted", "upgrade", "rotated", "hold"}
    \/ t.op = "unlock" /\ t.pc \in {"adopt", "rotate"}

WillDrop(t) == t.pc \in {"adopt", "adopted", "upgrade", "rotate", "rotated"}

InHand(f, t) ==
    f.vault # None =>
        /\ WillHold(t) => t.dek = f.entriesKey
        /\ WillDrop(t) => t.doc.vault = f.vault

\* A vault that has a file or a held key has had its id drawn: a new vault
\* finds no key held under its id.
DrawnVaults == \A v \in Vaults : held[v] # NoHold \/ file.vault = v => v \in spent

HeldInv ==
    /\ DrawnVaults
    /\ HeldKeyReads
    /\ \A s \in Servers : InHand(file, task[s])

Quieter == \A v \in Vaults : held'[v] \in {held[v], NoHold}

\* The entries are sealed under the key they were sealed under.
SameSeal == file'.vault = file.vault /\ file'.entriesKey = file.entriesKey

-----------------------------------------------------------------------------
(* The shapes of a step.                                                   *)

LEMMA TheTask ==
    ASSUME OneServer, TypeOK, NEW s \in Servers, NEW t, Become(s, t)
    PROVE  \A u \in Servers : task[u] = task[s] /\ task'[u] = t
BY DEF OneServer, TypeOK, Become

\* The one request goes on, and the file keeps its seal.
LEMMA RequestStep ==
    ASSUME IInv, HeldInv, OneServer, NEW s \in Servers, NEW t, Become(s, t),
           SameSeal, Quieter, spent \subseteq spent',
           task[s].pc \notin Changing, InHand(file, t)
    PROVE  HeldInv'
<1>1. \A u \in Servers : task[u] = task[s] /\ task'[u] = t
  BY TheTask DEF IInv
<1>2. DrawnVaults'
  BY DEF HeldInv, DrawnVaults, SameSeal, Quieter
<1>3. InHand(file', t)
  BY DEF SameSeal, InHand
<1>4. \A u \in Servers : InHand(file, task[u])'
  BY <1>1, <1>3
<1>5. Unlocked(file.vault) /\ ~held[file.vault].left
      => ReadsEntries(file, held[file.vault].dek)
  BY <1>1 DEF HeldInv, HeldKeyReads, NoneChanging, Changing
<1>6. (Unlocked(file.vault) /\ ~held[file.vault].left)'
      => ReadsEntries(file, held[file.vault].dek)'
  BY <1>5 DEF SameSeal, Quieter, Unlocked, ReadsEntries, IInv, TypeOK, File
<1>7. QED
  BY <1>2, <1>4, <1>6 DEF HeldInv, HeldKeyReads

\* The request goes on to a step between a new data key and the drop.
LEMMA ChangingStep ==
    ASSUME IInv, HeldInv, OneServer, NEW s \in Servers, NEW t, Become(s, t),
           file'.vault = file.vault, UNCHANGED held, spent \subseteq spent',
           t.pc \in Changing, InHand(file', t)
    PROVE  HeldInv'
<1>1. \A u \in Servers : task'[u] = t
  BY TheTask DEF IInv
<1>2. DrawnVaults'
  BY DEF HeldInv, DrawnVaults
<1>3. \A u \in Servers : InHand(file, task[u])'
  BY <1>1
<1>4. HeldKeyReads'
  BY <1>1 DEF HeldKeyReads, NoneChanging, Changing
<1>5. QED
  BY <1>2, <1>3, <1>4 DEF HeldInv

\* The file's key is dropped, or its drop is lost, or it is held anew.
LEMMA HolderStep ==
    ASSUME IInv, HeldInv, OneServer, NEW s \in Servers, NEW t, Become(s, t),
           UNCHANGED <<file, spent>>,
           \A v \in Vaults \ {file.vault} : held'[v] # NoHold => held[v] # NoHold,
           file.vault # None =>
               \/ held'[file.vault] = NoHold \/ held'[file.vault].left
               \/ held'[file.vault].dek = file.entriesKey,
           InHand(file, t)
    PROVE  HeldInv'
<1>1. \A u \in Servers : task'[u] = t
  BY TheTask DEF IInv
<1>2. DrawnVaults'
  BY DEF HeldInv, DrawnVaults
<1>3. \A u \in Servers : InHand(file, task[u])'
  BY <1>1
<1>4. HeldKeyReads'
  BY DEF HeldKeyReads, Unlocked, ReadsEntries
<1>5. QED
  BY <1>2, <1>3, <1>4 DEF HeldInv

\* The requests stay where they are.
LEMMA OutsideStep ==
    ASSUME IInv, HeldInv, UNCHANGED <<task, spent>>, Quieter,
           SameSeal \/ file'.vault = None
    PROVE  HeldInv'
<1>1. DrawnVaults'
  BY ConstantsAssumption DEF HeldInv, DrawnVaults, SameSeal, Quieter
<1>2. \A u \in Servers : InHand(file, task[u])'
  BY DEF HeldInv, InHand, SameSeal
<1>3. HeldKeyReads'
  <2>1. CASE file'.vault = None
    BY <2>1 DEF HeldKeyReads, Unlocked
  <2>2. CASE SameSeal
    BY <2>2 DEF HeldInv, HeldKeyReads, NoneChanging, SameSeal, Quieter, Unlocked, ReadsEntries,
       IInv, TypeOK, File
  <2>3. QED
    BY <2>1, <2>2
<1>4. QED
  BY <1>1, <1>2, <1>3 DEF HeldInv

\* A request that neither holds nor drops a key has nothing to answer for.
LEMMA NothingInHand ==
    ASSUME NEW f, NEW t, t.pc \in {"idle", "write"}
    PROVE  InHand(f, t)
BY DEF InHand, WillHold, WillDrop

LEMMA SameIsQuieter == TypeOK /\ UNCHANGED held => Quieter
BY DEF TypeOK, Quieter

LEMMA DropIsQuieter ==
    ASSUME TypeOK, NEW v \in Vaults \cup {None}, DropOldKey(v)
    PROVE  /\ \A u \in Vaults : held'[u] # NoHold => held[u] # NoHold
           /\ \A u \in Vaults \ {v} : held'[u] = held[u]
           /\ v \in Vaults => held'[v] = NoHold \/ held'[v].left
<1>1. CASE Clear(v)
  BY <1>1, ConstantsAssumption DEF Clear, TypeOK
<1>2. CASE ClearIsLost(v)
  <2>1. v \in Vaults /\ held[v] \in Hold /\ held[v] # NoHold
    BY <1>2 DEF ClearIsLost, Unlocked, TypeOK
  <2>2. [held[v] EXCEPT !.left = TRUE].left
    BY <2>1 DEF Hold
  <2>3. QED
    BY <1>2, <2>1, <2>2 DEF ClearIsLost, TypeOK
<1>3. QED
  BY <1>1, <1>2 DEF DropOldKey

LEMMA ClearIsQuieter ==
    ASSUME TypeOK, NEW v \in Vaults \cup {None}, Clear(v)
    PROVE  Quieter /\ \A u \in Vaults : held'[u] = IF u = v THEN NoHold ELSE held[u]
BY ConstantsAssumption DEF TypeOK, Quieter, Clear

\* The data key the file's root opens is the one the entries are sealed under.
LEMMA OpenedKeyReads ==
    ASSUME NEW f, FileOK(f), f.vault # None
    PROVE  /\ OpenDataKey(f, f.vault) = f.entriesKey
           /\ \A n \in SlotNames : Has(f, n) => f.slots[n].root = f.vault
BY DEF FileOK, OpenDataKey, SealedUnder, File

LEMMA EndsAre == FailuresAreAnswered => Ends \subseteq {"ok", "write"}
BY DEF FailuresAreAnswered, Ends

-----------------------------------------------------------------------------
(* The starts of a request.                                                *)

LEMMA StartUnlockHeld ==
    ASSUME IInv, HeldInv, OneServer, NEW s \in Servers, NEW n \in SlotNames, StartUnlock(s, n)
    PROVE  HeldInv'
<1> DEFINE root == file.slots[n].root
           t == [Idle EXCEPT
                   !.pc = IF file.version = 1 THEN "adopt" ELSE AfterKey(n, file),
                   !.op = "unlock", !.arg = n, !.secret = file.slots[n].secret,
                   !.doc = file, !.root = root, !.dek = OpenDataKey(file, root)]
<1>1. Become(s, t) /\ UNCHANGED <<file, held, spent>> /\ task[s].pc = "idle"
  BY DEF StartUnlock, At
<1>2. t.doc = file /\ t.dek = OpenDataKey(file, root)
  BY DEF Idle
<1>3. root = file.vault /\ OpenDataKey(file, root) = file.entriesKey
  BY OpenedKeyReads DEF StartUnlock, IInv
<1> HIDE DEF t, root
<1>4. InHand(file, t)
  BY <1>2, <1>3 DEF InHand
<1>5. QED
  BY <1>1, <1>4, RequestStep, SameIsQuieter DEF IInv, SameSeal, Changing

LEMMA StartRotateHeld ==
    ASSUME IInv, HeldInv, OneServer, NEW s \in Servers, NEW n \in SlotNames, StartRotate(s, n)
    PROVE  HeldInv'
<1> DEFINE t == [Idle EXCEPT !.pc = "rotate", !.op = "rotate", !.doc = file,
                             !.root = file.slots[n].root]
<1>1. Become(s, t) /\ UNCHANGED <<file, held, spent>> /\ task[s].pc = "idle"
  BY DEF StartRotate, At
<1>2. t.doc = file /\ t.pc = "rotate" /\ t.op = "rotate"
  BY DEF Idle
<1> HIDE DEF t
<1>3. InHand(file, t)
  BY <1>2 DEF InHand, WillHold
<1>4. QED
  BY <1>1, <1>3, RequestStep, SameIsQuieter DEF IInv, SameSeal, Changing

LEMMA StartAddMethodHeld ==
    ASSUME IInv, HeldInv, OneServer, NEW s \in Servers, NEW op \in {"add_mfa", "add_pair"},
           NEW phrase \in Phrases, NEW proof \in Proofs, StartAddMethod(s, op, phrase, proof)
    PROVE  HeldInv'
<1>1. PICK root \in Vaults :
        Become(s, [Idle EXCEPT
            !.pc = IF file.version = 1 THEN "adopt" ELSE "write", !.op = op,
            !.secret = phrase, !.doc = file, !.root = root,
            !.dek = OpenDataKey(file, root), !.wasHeld = Unlocked(file.vault)])
  BY DEF StartAddMethod
<1> DEFINE t == [Idle EXCEPT
            !.pc = IF file.version = 1 THEN "adopt" ELSE "write", !.op = op,
            !.secret = phrase, !.doc = file, !.root = root,
            !.dek = OpenDataKey(file, root), !.wasHeld = Unlocked(file.vault)]
<1>2. Become(s, t) /\ UNCHANGED <<file, held, spent>> /\ task[s].pc = "idle"
  BY <1>1 DEF StartAddMethod, At
<1>3. t.doc = file /\ t.pc \in {"adopt", "write"} /\ t.op \in {"add_mfa", "add_pair"}
  BY DEF Idle
<1> HIDE DEF t
<1>4. InHand(file, t)
  BY <1>3 DEF InHand, WillHold
<1>5. QED
  BY <1>2, <1>4, RequestStep, SameIsQuieter DEF IInv, SameSeal, Changing

\* The requests that go straight to their write.
LEMMA StartWriteHeld ==
    ASSUME IInv, HeldInv, OneServer, NEW s \in Servers,
           \/ \E proof \in Proofs : \E p \in Passkeys : StartAddPasskey(s, p, proof)
           \/ \E proof \in Proofs : \E phrase \in Phrases : StartReplaceRecovery(s, phrase, proof)
           \/ \E op, arg : StartHeld(s, op, arg)
    PROVE  HeldInv'
<1>1. UNCHANGED <<file, held, spent>> /\ task[s].pc = "idle"
  BY DEF StartAddPasskey, StartReplaceRecovery, StartHeld, At
<1>2. ASSUME NEW t, Become(s, t), t.pc = "write" PROVE HeldInv'
  BY <1>1, <1>2, NothingInHand, RequestStep, SameIsQuieter DEF IInv, SameSeal, Changing
<1>3. ASSUME NEW p \in Passkeys, NEW proof \in Proofs, StartAddPasskey(s, p, proof) PROVE HeldInv'
  <2>1. PICK root \in Vaults :
          Become(s, [Idle EXCEPT !.pc = "write", !.op = "add_passkey", !.arg = p,
                                 !.secret = p, !.doc = file, !.root = root])
    BY <1>3 DEF StartAddPasskey
  <2> DEFINE t == [Idle EXCEPT !.pc = "write", !.op = "add_passkey", !.arg = p,
                               !.secret = p, !.doc = file, !.root = root]
  <2>2. t.pc = "write"
    BY DEF Idle
  <2>3. QED
    BY <1>2, <2>1, <2>2
<1>4. ASSUME NEW phrase \in Phrases, NEW proof \in Proofs, StartReplaceRecovery(s, phrase, proof)
      PROVE  HeldInv'
  <2>1. PICK root \in Vaults :
          Become(s, [Idle EXCEPT !.pc = "write", !.op = "replace_recovery",
                                 !.secret = phrase, !.doc = file, !.root = root])
    BY <1>4 DEF StartReplaceRecovery
  <2> DEFINE t == [Idle EXCEPT !.pc = "write", !.op = "replace_recovery",
                               !.secret = phrase, !.doc = file, !.root = root]
  <2>2. t.pc = "write"
    BY DEF Idle
  <2>3. QED
    BY <1>2, <2>1, <2>2
<1>5. ASSUME NEW op, NEW arg, StartHeld(s, op, arg) PROVE HeldInv'
  <2> DEFINE t == [Idle EXCEPT !.pc = "write", !.op = op, !.arg = arg,
                     !.dek = IF op \in {"add", "delete"} THEN held[file.vault].dek ELSE None]
  <2>1. Become(s, t)
    BY <1>5 DEF StartHeld
  <2>2. t.pc = "write"
    BY DEF Idle
  <2>3. QED
    BY <1>2, <2>1, <2>2
<1>6. QED
  BY <1>3, <1>4, <1>5

LEMMA CreateHeld ==
    ASSUME IInv, HeldInv, OneServer, NEW s \in Servers, NEW v \in Vaults, NEW k \in DataKeys,
           NEW phrase \in Phrases, NEW end \in Ends, FailuresAreAnswered,
           Create(s, v, k, phrase, end)
    PROVE  HeldInv'
<1> DEFINE t == [Idle EXCEPT !.pc = "open", !.op = "init", !.secret = phrase, !.dek = k]
<1>1. UNCHANGED held /\ v \notin spent /\ spent' = spent \cup {v, k} /\ file.vault = None
  BY DEF Create
<1>2. CASE end = "write"
  <2>1. UNCHANGED <<file, task>>
    BY <1>2 DEF Create, Write
  <2>2. QED
    BY <1>1, <2>1 DEF HeldInv, DrawnVaults, HeldKeyReads, Unlocked, ReadsEntries
<1>3. CASE end = "ok"
  <2>1. file'.vault = v /\ file'.entriesKey = k /\ Become(s, t)
    BY <1>3 DEF Create, Write, Created, NoFile
  <2>2. t.pc = "open" /\ t.dek = k /\ t.op = "init"
    BY DEF Idle
  <2> HIDE DEF t
  <2>3. InHand(file', t)
    BY <2>1, <2>2 DEF InHand, WillDrop
  <2>4. \A u \in Servers : task'[u] = t
    BY <2>1, TheTask DEF IInv
  <2>5. held'[v] = NoHold
    BY <1>1 DEF HeldInv, DrawnVaults
  <2>6. DrawnVaults'
    BY <1>1, <2>1 DEF HeldInv, DrawnVaults
  <2>7. QED
    BY <2>1, <2>3, <2>4, <2>5, <2>6 DEF HeldInv, HeldKeyReads, Unlocked
<1>4. QED
  BY <1>2, <1>3, EndsAre

LEMMA StartHeldInv ==
    ASSUME IInv, HeldInv, OneServer, FailuresAreAnswered, NEW s \in Servers, Start(s)
    PROVE  HeldInv'
<1>1. CASE \E n \in SlotNames : StartUnlock(s, n)
  BY <1>1, StartUnlockHeld
<1>2. CASE \E n \in SlotNames : StartRotate(s, n)
  BY <1>2, StartRotateHeld
<1>3. CASE \E proof \in Proofs, phrase \in Phrases, op \in {"add_mfa", "add_pair"} :
             StartAddMethod(s, op, phrase, proof)
  BY <1>3, StartAddMethodHeld
<1>4. CASE \E v \in Vaults, k \in DataKeys, phrase \in Phrases, end \in Ends :
             Create(s, v, k, phrase, end)
  BY <1>4, CreateHeld
<1>5. CASE \/ \E proof \in Proofs : \E p \in Passkeys : StartAddPasskey(s, p, proof)
           \/ \E proof \in Proofs : \E phrase \in Phrases : StartReplaceRecovery(s, phrase, proof)
           \/ \E op, arg : StartHeld(s, op, arg)
  BY <1>5, StartWriteHeld
<1>6. QED
  BY <1>1, <1>2, <1>3, <1>4, <1>5 DEF Start

-----------------------------------------------------------------------------
(* The steps of a request after its load.                                  *)

LEMMA ReopenHeld ==
    ASSUME IInv, HeldInv, OneServer, NEW s \in Servers, Reopen(s)
    PROVE  HeldInv'
<1> DEFINE t == [task[s] EXCEPT !.pc = "hold", !.root = file.slots["recovery"].root]
<1>1. UNCHANGED <<file, held, spent>> /\ task[s].pc = "open" /\ (Become(s, t) \/ Become(s, Idle))
  BY DEF Reopen, At, Finish
<1>2. InHand(file, Idle)
  BY NothingInHand DEF Idle
<1>3. t.pc = "hold" /\ t.dek = task[s].dek
  BY DEF IInv, TypeOK, Task
<1> HIDE DEF t
<1>4. InHand(file, t)
  BY <1>1, <1>3 DEF HeldInv, InHand, WillHold, WillDrop
<1>5. QED
  BY <1>1, <1>2, <1>4, RequestStep, SameIsQuieter DEF IInv, SameSeal, Changing

\* The step after an unlock's data key keeps what the request has in hand.
LEMMA GoesOnInHand ==
    ASSUME IInv, HeldInv, NEW s \in Servers, NEW pc, pc \in {"upgrade", "rotate", "hold"},
           task[s].op = "unlock", task[s].pc \in {"adopt", "upgrade", "rotate"},
           pc = "hold" \/ WillDrop(task[s])
    PROVE  InHand(file, [task[s] EXCEPT !.pc = pc])
<1> DEFINE t == [task[s] EXCEPT !.pc = pc]
<1>1. t.pc = pc /\ t.dek = task[s].dek /\ t.op = "unlock" /\ t.doc = task[s].doc
  BY DEF IInv, TypeOK, Task
<1> HIDE DEF t
<1>2. InHand(file, t)
  BY <1>1 DEF HeldInv, InHand, WillHold, WillDrop
<1>3. QED
  BY <1>2 DEF t

LEMMA AdoptHeld ==
    ASSUME IInv, HeldInv, OneServer, FailuresAreAnswered, NEW s \in Servers,
           NEW k \in DataKeys, NEW end \in Ends, Adopt(s, k, end)
    PROVE  HeldInv'
<1>1. UNCHANGED held /\ spent \subseteq spent' /\ task[s].pc = "adopt"
  BY DEF Adopt, At, Fresh
<1>2. CASE end = "write"
  <2>1. UNCHANGED file
    BY <1>2 DEF Adopt, Write
  <2> DEFINE pc == AfterKey(task[s].arg, task[s].doc)
             t == [task[s] EXCEPT !.pc = pc]
  <2>2. (task[s].op = "unlock" /\ Become(s, t)) \/ Become(s, Idle)
    BY <1>2 DEF Adopt, Finish
  <2>3. pc \in {"upgrade", "rotate", "hold"}
    BY DEF AfterKey, AfterUpgrade
  <2>4. InHand(file, Idle)
    BY NothingInHand DEF Idle
  <2>5. task[s].op = "unlock" => InHand(file, t)
    BY <1>1, <2>3, GoesOnInHand DEF WillDrop
  <2> HIDE DEF t
  <2>6. QED
    BY <1>1, <2>1, <2>2, <2>4, <2>5, RequestStep, SameIsQuieter DEF IInv, SameSeal, Changing
<1>3. CASE end = "ok"
  <2> DEFINE t == [task[s] EXCEPT !.pc = "adopted", !.dek = k]
  <2>1. Become(s, t) /\ file' = Resealed(file, k)
    BY <1>3 DEF Adopt, Write, Loaded
  <2>2. t.pc = "adopted" /\ t.dek = k /\ t.doc = task[s].doc
    BY DEF IInv, TypeOK, Task
  <2>3. file'.vault = file.vault /\ file'.entriesKey = k
    BY <2>1 DEF Resealed, IInv, TypeOK, File
  <2> HIDE DEF t
  <2>4. InHand(file', t)
    BY <1>1, <2>2, <2>3 DEF HeldInv, InHand, WillDrop
  <2>5. QED
    BY <1>1, <2>1, <2>2, <2>3, <2>4, ChangingStep DEF Changing
<1>4. QED
  BY <1>2, <1>3, EndsAre

LEMMA AdoptNothingHeld ==
    ASSUME IInv, HeldInv, OneServer, NEW s \in Servers, AdoptNothing(s)
    PROVE  HeldInv'
<1>1. UNCHANGED <<file, held, spent>> /\ task[s].pc = "adopt"
  BY DEF AdoptNothing, At
<1>2. CASE CanAdopt(file, task[s].root)
  <2> DEFINE t == [task[s] EXCEPT !.pc = "adopted", !.dek = OpenDataKey(file, task[s].root)]
  <2>1. Become(s, t) /\ file.version = 2
    BY <1>2 DEF AdoptNothing
  <2>2. t.pc = "adopted" /\ t.dek = OpenDataKey(file, task[s].root) /\ t.doc = task[s].doc
    BY DEF IInv, TypeOK, Task
  <2>3. file.vault # None /\ task[s].root = file.vault
    BY <1>2, <2>1 DEF CanAdopt, OpenDataKey
  <2>4. t.dek = file.entriesKey
    BY <2>2, <2>3, OpenedKeyReads DEF IInv
  <2> HIDE DEF t
  <2>5. InHand(file, t)
    BY <1>1, <2>2, <2>4 DEF HeldInv, InHand, WillDrop
  <2>6. QED
    BY <1>1, <2>1, <2>2, <2>5, ChangingStep DEF Changing
<1>3. CASE ~CanAdopt(file, task[s].root)
  <2> DEFINE pc == AfterKey(task[s].arg, task[s].doc)
             t == [task[s] EXCEPT !.pc = pc]
  <2>1. (task[s].op = "unlock" /\ Become(s, t)) \/ Become(s, Idle)
    BY <1>3 DEF AdoptNothing, Finish
  <2>2. pc \in {"upgrade", "rotate", "hold"}
    BY DEF AfterKey, AfterUpgrade
  <2>3. InHand(file, Idle)
    BY NothingInHand DEF Idle
  <2>4. task[s].op = "unlock" => InHand(file, t)
    BY <1>1, <2>2, GoesOnInHand DEF WillDrop
  <2> HIDE DEF t
  <2>5. QED
    BY <1>1, <2>1, <2>3, <2>4, RequestStep, SameIsQuieter DEF IInv, SameSeal, Changing
<1>4. QED
  BY <1>2, <1>3

\* The drop finds this vault, or no file: `_drop_old_key` by the loaded id.
LEMMA DropAfterAdoptHeld ==
    ASSUME IInv, HeldInv, OneServer, NEW s \in Servers, DropAfterAdopt(s)
    PROVE  HeldInv'
<1> DEFINE doc == IF task[s].op = "unlock" THEN file ELSE task[s].doc
           pc == IF task[s].op = "unlock" THEN AfterKey(task[s].arg, doc) ELSE "write"
           t == [task[s] EXCEPT !.doc = doc, !.pc = pc]
<1>1. UNCHANGED <<file, spent>> /\ task[s].pc = "adopted" /\ DropOldKey(doc.vault)
      /\ IF doc.vault = None THEN Become(s, Idle) ELSE Become(s, t)
  BY DEF DropAfterAdopt, At, Finish
<1>2. file.vault # None => doc.vault = file.vault
  BY <1>1 DEF HeldInv, InHand, WillDrop
<1>3. doc.vault \in Vaults \cup {None}
  BY DEF IInv, TypeOK, Task, File
<1>4. /\ \A u \in Vaults : held'[u] # NoHold => held[u] # NoHold
      /\ doc.vault \in Vaults => held'[doc.vault] = NoHold \/ held'[doc.vault].left
  BY <1>1, <1>3, DropIsQuieter DEF IInv
<1>5. \A v \in Vaults \ {file.vault} : held'[v] # NoHold => held[v] # NoHold
  BY <1>4
<1>6. file.vault # None => held'[file.vault] = NoHold \/ held'[file.vault].left
  BY <1>2, <1>4 DEF IInv, TypeOK, File
<1>7. t.doc = doc /\ t.pc = pc /\ t.dek = task[s].dek /\ t.op = task[s].op
  BY DEF IInv, TypeOK, Task
<1>8. pc \in {"upgrade", "rotate", "hold", "write"}
  BY DEF AfterKey, AfterUpgrade
<1> HIDE DEF t, pc, doc
<1>9. InHand(file, t)
  BY <1>1, <1>2, <1>7, <1>8 DEF HeldInv, InHand, WillHold, WillDrop
<1>10. InHand(file, Idle)
  BY NothingInHand DEF Idle
<1>11. QED
  BY <1>1, <1>5, <1>6, <1>9, <1>10, HolderStep

LEMMA UpgradeHeld ==
    ASSUME IInv, HeldInv, OneServer, NEW s \in Servers, NEW end \in Ends, Upgrade(s, end)
    PROVE  HeldInv'
<1> DEFINE pc == AfterUpgrade(task[s].doc)
           t == [task[s] EXCEPT !.pc = pc]
<1>1. UNCHANGED <<held, spent>> /\ task[s].pc = "upgrade" /\ Become(s, t)
  BY DEF Upgrade, At
<1>2. SameSeal
  BY DEF Upgrade, Write, Loaded, WithSlot, IInv, TypeOK, File, SameSeal
<1>3. pc \in {"rotate", "hold"} /\ task[s].op = "unlock"
  BY <1>1 DEF AfterUpgrade, IInv, TaskOK
<1>4. InHand(file, t)
  BY <1>1, <1>3, GoesOnInHand DEF WillDrop
<1> HIDE DEF t
<1>5. QED
  BY <1>1, <1>2, <1>4, RequestStep, SameIsQuieter DEF IInv, Changing

LEMMA RotateHeld ==
    ASSUME IInv, HeldInv, OneServer, FailuresAreAnswered, NEW s \in Servers,
           NEW k \in DataKeys, NEW end \in Ends, Rotate(s, k, end)
    PROVE  HeldInv'
<1>1. UNCHANGED held /\ spent \subseteq spent' /\ task[s].pc = "rotate"
  BY DEF Rotate, At, Fresh
<1>2. CASE end = "write"
  <2>1. UNCHANGED file
    BY <1>2 DEF Rotate, Write
  <2> DEFINE t == [task[s] EXCEPT !.pc = "hold"]
  <2>2. (task[s].op = "unlock" /\ Become(s, t)) \/ Become(s, Idle)
    BY <1>2 DEF Rotate, Finish
  <2>3. InHand(file, Idle)
    BY NothingInHand DEF Idle
  <2>4. task[s].op = "unlock" => InHand(file, t)
    BY <1>1, GoesOnInHand
  <2> HIDE DEF t
  <2>5. QED
    BY <1>1, <2>1, <2>2, <2>3, <2>4, RequestStep, SameIsQuieter DEF IInv, SameSeal, Changing
<1>3. CASE end = "ok"
  <2> DEFINE t == [task[s] EXCEPT !.pc = "rotated", !.dek = k]
  <2>1. Become(s, t) /\ file' = Rotated(file, k)
    BY <1>3 DEF Rotate, Write, Loaded
  <2>2. t.pc = "rotated" /\ t.dek = k /\ t.doc = task[s].doc
    BY DEF IInv, TypeOK, Task
  <2>3. file'.vault = file.vault /\ file'.entriesKey = k
    BY <2>1 DEF Rotated, Resealed, IInv, TypeOK, File
  <2> HIDE DEF t
  <2>4. InHand(file', t)
    BY <1>1, <2>2, <2>3 DEF HeldInv, InHand, WillDrop
  <2>5. QED
    BY <1>1, <2>1, <2>2, <2>3, <2>4, ChangingStep DEF Changing
<1>4. QED
  BY <1>2, <1>3, EndsAre

LEMMA RotateNothingHeld ==
    ASSUME IInv, HeldInv, OneServer, NEW s \in Servers, RotateNothing(s)
    PROVE  HeldInv'
<1> DEFINE t == [task[s] EXCEPT !.pc = "hold"]
<1>1. UNCHANGED <<file, held, spent>> /\ task[s].pc = "rotate"
      /\ ((task[s].op = "unlock" /\ Become(s, t)) \/ Become(s, Idle))
  BY DEF RotateNothing, At, Finish
<1>2. InHand(file, Idle)
  BY NothingInHand DEF Idle
<1>3. task[s].op = "unlock" => InHand(file, t)
  BY <1>1, GoesOnInHand
<1> HIDE DEF t
<1>4. QED
  BY <1>1, <1>2, <1>3, RequestStep, SameIsQuieter DEF IInv, SameSeal, Changing

LEMMA DropAfterRotateHeld ==
    ASSUME IInv, HeldInv, OneServer, NEW s \in Servers, DropAfterRotate(s)
    PROVE  HeldInv'
<1> DEFINE v == task[s].doc.vault
           t == [task[s] EXCEPT !.pc = "hold"]
<1>1. UNCHANGED <<file, spent>> /\ task[s].pc = "rotated" /\ DropOldKey(v) /\ Become(s, t)
  BY DEF DropAfterRotate, At
<1>2. file.vault # None => v = file.vault
  BY <1>1 DEF HeldInv, InHand, WillDrop
<1>3. v \in Vaults \cup {None}
  BY DEF IInv, TypeOK, Task, File
<1>4. /\ \A u \in Vaults : held'[u] # NoHold => held[u] # NoHold
      /\ v \in Vaults => held'[v] = NoHold \/ held'[v].left
  BY <1>1, <1>3, DropIsQuieter DEF IInv
<1>5. file.vault # None => held'[file.vault] = NoHold \/ held'[file.vault].left
  BY <1>2, <1>4 DEF IInv, TypeOK, File
<1>6. t.pc = "hold" /\ t.dek = task[s].dek
  BY DEF IInv, TypeOK, Task
<1> HIDE DEF t, v
<1>7. InHand(file, t)
  BY <1>1, <1>6 DEF HeldInv, InHand, WillHold, WillDrop
<1>8. QED
  BY <1>1, <1>4, <1>5, <1>7, HolderStep

\* The key a request comes to hold reads the entries, whether its hold is then refused or not.
LEMMA PutHeld ==
    ASSUME IInv, HeldInv, OneServer, NEW s \in Servers, task[s].pc = "hold", file.vault # None,
           Put(task[s]), Become(s, Idle), UNCHANGED <<file, spent>>
    PROVE  HeldInv'
<1>1. task[s].dek = file.entriesKey
  BY DEF HeldInv, InHand, WillHold
<1>2. task[s] \in Task /\ task[s].root \in Vaults /\ task[s].dek \in Keys
  BY DEF IInv, TaskOK
<1>3. held'[file.vault].dek = file.entriesKey /\ \A v \in Vaults \ {file.vault} : held'[v] = held[v]
  BY <1>1, <1>2, PutType DEF IInv
<1>4. InHand(file, Idle)
  BY NothingInHand DEF Idle
<1>5. QED
  BY <1>3, <1>4, HolderStep

LEMMA HoldKeyHeld ==
    ASSUME IInv, HeldInv, OneServer, NEW s \in Servers, HoldKey(s)
    PROVE  HeldInv'
<1>1. UNCHANGED <<file, spent>> /\ task[s].pc = "hold" /\ file.vault # None /\ Become(s, Idle)
      /\ Put(task[s])
  BY DEF HoldKey, At, Finish
<1>2. QED
  BY <1>1, PutHeld

LEMMA HoldFailsHeld ==
    ASSUME IInv, HeldInv, OneServer, NEW s \in Servers, HoldFails(s)
    PROVE  HeldInv'
<1>1. UNCHANGED <<file, spent>> /\ task[s].pc = "hold" /\ Become(s, Idle)
  BY DEF HoldFails, At, Finish
<1>2. CASE UNCHANGED held \/ Clear(file.vault)
  <2>1. Quieter
    BY <1>2, SameIsQuieter, ClearIsQuieter DEF IInv, TypeOK, File
  <2>2. InHand(file, Idle)
    BY NothingInHand DEF Idle
  <2>3. QED
    BY <1>1, <2>1, <2>2, RequestStep DEF SameSeal, Changing
<1>3. CASE file.vault # None /\ Put(task[s])
  BY <1>1, <1>3, PutHeld
<1>4. QED
  BY <1>2, <1>3 DEF HoldFails

LEMMA ContinueHeld ==
    ASSUME IInv, HeldInv, OneServer, FailuresAreAnswered, NEW s \in Servers, Continue(s)
    PROVE  HeldInv'
BY ReopenHeld, AdoptHeld, AdoptNothingHeld, DropAfterAdoptHeld, UpgradeHeld, RotateHeld,
   RotateNothingHeld, DropAfterRotateHeld, HoldKeyHeld, HoldFailsHeld DEF Continue

-----------------------------------------------------------------------------
(* The writes, and what happens from outside.                              *)

\* No write of a slot or an entry changes the key the entries are under: an
\* entry is written with the held key after the check that it reads them.
LEMMA SaveKeepsSeal ==
    ASSUME IInv, NEW s \in Servers, NEW end \in Ends, Save(s, end)
    PROVE  SameSeal
<1>1. file \in File
  BY DEF IInv, TypeOK
<1>2. CASE AddPasskey(s, end) \/ ReplaceRecovery(s, end)
  BY <1>1, <1>2 DEF AddPasskey, ReplaceRecovery, Refuse, Write, Loaded, WithSlot, File, SameSeal
<1>3. CASE AddMfa(s, end) \/ AddPair(s, end)
  BY <1>1, <1>3 DEF AddMfa, AddPair, Refuse, Write, Loaded, WithMfa, WithPair, WithSlot, File, SameSeal
<1>4. CASE RemovePasskey(s, end) \/ RemoveMfa(s, end)
  BY <1>1, <1>4 DEF RemovePasskey, RemoveMfa, Refuse, Write, WithoutSlot, WithoutMfa, WithSlot, File,
     SameSeal
<1>5. CASE AddEntry(s, end) \/ DeleteEntry(s, end)
  BY <1>1, <1>5 DEF AddEntry, DeleteEntry, Refuse, Write, WithEntries, CheckDek, ReadsEntries, File,
     SameSeal
<1>6. QED
  BY <1>2, <1>3, <1>4, <1>5 DEF Save

\* A write ends the request, or goes on to hold the key it has checked.
LEMMA SaveHeld ==
    ASSUME IInv, HeldInv, OneServer, NEW s \in Servers, NEW end \in Ends, Save(s, end)
    PROVE  HeldInv'
<1> DEFINE t == [task[s] EXCEPT !.pc = "hold"]
<1>1. UNCHANGED <<held, spent>> /\ task[s].pc = "write"
  BY DEF Save, AddPasskey, ReplaceRecovery, AddMfa, AddPair, RemovePasskey, RemoveMfa, AddEntry,
     DeleteEntry, Refuse, Writing, At
<1>2. Become(s, Idle) \/ (Become(s, t) /\ CheckDek(file, task[s].dek))
  BY DEF Save, AddPasskey, ReplaceRecovery, AddMfa, AddPair, RemovePasskey, RemoveMfa, AddEntry,
     DeleteEntry, Refuse, Finish, AfterMethod
<1>3. InHand(file, Idle)
  BY NothingInHand DEF Idle
<1>4. t.pc = "hold" /\ t.dek = task[s].dek
  BY DEF IInv, TypeOK, Task
<1> HIDE DEF t
<1>5. CheckDek(file, task[s].dek) => InHand(file, t)
  BY <1>4 DEF CheckDek, ReadsEntries, InHand, WillDrop
<1>6. QED
  BY <1>1, <1>2, <1>3, <1>5, SaveKeepsSeal, RequestStep, SameIsQuieter DEF IInv, Changing

LEMMA OutsideHeld ==
    ASSUME IInv, HeldInv,
           \/ \E s \in Servers : See(s) \/ Lock(s)
           \/ \E v \in Vaults : Expire(v)
           \/ Age \/ RemoveFile \/ UNCHANGED vars
    PROVE  HeldInv'
<1>1. TypeOK
  BY DEF IInv
<1>2. UNCHANGED <<task, spent>>
  BY DEF See, Lock, Expire, Age, RemoveFile, vars
<1>3. SameSeal \/ file'.vault = None
  BY <1>1 DEF See, Lock, Expire, Age, RemoveFile, vars, SameSeal, TypeOK, File, NoFile
<1>4. Quieter
  <2>1. CASE \E s \in Servers : Lock(s)
    BY <2>1 DEF Lock, Quieter
  <2>2. CASE \E v \in Vaults : Expire(v)
    BY <1>1, <2>2, ClearIsQuieter DEF Expire
  <2>3. CASE UNCHANGED held
    BY <1>1, <2>3, SameIsQuieter
  <2>4. QED
    BY <2>1, <2>2, <2>3 DEF See, Age, RemoveFile, vars
<1>5. QED
  BY <1>2, <1>3, <1>4, OutsideStep

LEMMA HeldInit == Init => HeldInv
<1> SUFFICES ASSUME Init PROVE HeldInv
  OBVIOUS
<1>1. \A v \in Vaults : held[v] = NoHold
  BY DEF Init
<1>2. \A s \in Servers : InHand(file, task[s])
  BY NothingInHand DEF Init, Idle
<1>3. file.vault \in Vaults \cup {None} /\ (file.vault \in Vaults => file.vault \in spent)
  <2>1. NoFile.vault = None /\ None \notin Vaults
    BY ConstantsAssumption DEF NoFile
  <2>2. \A v, phrase, mfa, names : Version1(v, phrase, mfa, names).vault = v
    BY DEF Version1, NoFile
  <2>3. QED
    BY <2>1, <2>2 DEF Init
<1>4. DrawnVaults /\ HeldKeyReads
  BY <1>1, <1>3 DEF DrawnVaults, HeldKeyReads, Unlocked
<1>5. QED
  BY <1>2, <1>4 DEF HeldInv

LEMMA HeldNext ==
    ASSUME OneServer, FailuresAreAnswered
    PROVE  IInv /\ HeldInv /\ [Next]_vars => HeldInv'
<1> SUFFICES ASSUME IInv, HeldInv, [Next]_vars PROVE HeldInv'
  OBVIOUS
<1>1. ASSUME NEW s \in Servers PROVE ~Crash(s)
  BY DEF Crash, FailuresAreAnswered
<1>2. QED
  BY <1>1, StartHeldInv, ContinueHeld, SaveHeld, OutsideHeld DEF Next

\* With one server, whatever is requested and in whatever order, whichever
\* writes are refused, whenever the holder refuses or forgets a key and the
\* user deletes the file: a vault that is unlocked has its entries read with
\* the held key, between any two requests and at every step of one that is not
\* between its new data key and the drop of the old (`_drop_old_key`), unless
\* it is a key whose drop never reached the agent and no other was held since.
THEOREM OneServersHeldKeyReads ==
    ASSUME OneServer, FailuresAreAnswered
    PROVE  Spec => []HeldKeyReads
<1>1. IInv /\ HeldInv /\ [Next]_vars => (IInv /\ HeldInv)'
  BY HeldNext, NextKeeps
<1>2. HeldInv => HeldKeyReads
  BY DEF HeldInv
<1>3. QED
  BY <1>1, <1>2, InitOK, HeldInit, PTL DEF Spec

=============================================================================
