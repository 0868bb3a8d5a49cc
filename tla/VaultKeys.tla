----------------------------- MODULE VaultKeys -----------------------------
(***************************************************************************)
(* The keys of the password vault: the vault file and what each key in it  *)
(* opens (vault/store.py), the key holder, and the servers whose requests  *)
(* read the file, write it under its lock and hold the key they opened     *)
(* (vault/service.py).                                                     *)
(*                                                                         *)
(* A root key is named by its vault, since a vault draws one root for its  *)
(* whole life.  Something sealed under a key is represented by that key:   *)
(* it opens with that key and with no other.  A request first takes the    *)
(* file and the held key as they are; each later step is one access to the *)
(* file or to the holder, because a write holds the file's lock from its   *)
(* read to its rename and nothing else is locked.  A request that needs a  *)
(* secret here is one that has it.                                         *)
(***************************************************************************)
EXTENDS FiniteSets

CONSTANTS
    Servers,        \* Jupyter servers of one user, all on one vault path
    Vaults,         \* vault ids, each with the root key drawn with it
    DataKeys,       \* the data keys that can be drawn (bounds rotations)
    Passkeys,       \* credential ids of PRF passkeys
    Phrases,        \* recovery passphrases and unlock passwords
    Names,          \* names of entries
    Requests,       \* the requests clients send in this instance
    Faults,         \* what can fail: see FaultKinds
    None

FaultKinds == {
    "write",    \* a write raises before the rename
    "late",     \* a write raises after the rename (fsync of the directory)
    "hold",     \* the holder refuses the key
    "clear",    \* the agent does not get a clear, which returns as one it got
    "crash",    \* a server stops between two steps
    "remove" }  \* the user deletes the vault file

RequestKinds == { "init", "unlock", "rotate", "add_passkey", "replace_recovery",
    "add_mfa", "add_pair", "remove_passkey", "remove_mfa", "add", "delete", "lock" }

ASSUME ConstantsAssumption ==
    /\ Requests \subseteq RequestKinds
    /\ Faults \subseteq FaultKinds
    /\ None \notin Vaults \cup DataKeys \cup Passkeys \cup Phrases \cup Names \cup RequestKinds
    /\ Vaults \cap DataKeys = {}
    /\ {"recovery", "password", "pair", "code", "assertion"} \cap (Passkeys \cup {None}) = {}

VARIABLES
    file,       \* the vault file
    held,       \* vault id -> the keys its holder entry keeps, or NoHold
    task,       \* server -> the request it is serving
    lastHeld,   \* server -> the vault whose key it last put or saw (`_held`)
    spent,      \* history: the keys drawn so far
    known,      \* history: the recovery passphrases the owner was told of
    kept        \* history: the entries acknowledged as added, not deleted

vars == <<file, held, task, lastHeld, spent, known, kept>>

-----------------------------------------------------------------------------
(* The vault file.                                                         *)

Keys == Vaults \cup DataKeys
SlotNames == {"recovery", "password", "pair"} \cup Passkeys

\* A slot wraps `root` for whoever has `secret`; `old` is a scrypt slot.
Slot == [root : Vaults, secret : Phrases \cup Passkeys, old : BOOLEAN]
NoSlot == [root |-> None, secret |-> None, old |-> FALSE]

File == [
    vault : Vaults \cup {None},         \* None: there is no file
    version : {1, 2},
    dataKey : DataKeys \cup {None},     \* what `data_key` opens to, with the root
    aged : BOOLEAN,                     \* the data key is at or past its period
    entriesKey : Keys \cup {None},      \* the key the entries are sealed under
    contents : SUBSET Names,
    appKey : Keys \cup {None},          \* the key the app's secret is sealed under
    pairKey : Keys \cup {None},         \* the key `cose_key` is sealed under
    slots : [SlotNames -> Slot \cup {NoSlot}] ]

NoFile == [vault |-> None, version |-> 2, dataKey |-> None, aged |-> FALSE,
           entriesKey |-> None, contents |-> {}, appKey |-> None, pairKey |-> None,
           slots |-> [n \in SlotNames |-> NoSlot]]

Has(f, n) == f.slots[n] # NoSlot
WithSlot(f, n, slot) == [f EXCEPT !.slots[n] = slot]

\* The pair's slot and the app come and go with what is sealed for them.
WithMfa(f, slot, dek) == [WithSlot(f, "password", slot) EXCEPT !.appKey = dek]
WithPair(f, slot, dek) == [WithSlot(f, "pair", slot) EXCEPT !.pairKey = dek]
WithoutMfa(f) == [WithSlot(f, "password", NoSlot) EXCEPT !.appKey = None]
WithoutSlot(f, n) ==
    [WithSlot(f, n, NoSlot) EXCEPT !.pairKey = IF n = "pair" THEN None ELSE @]

WithEntries(f, names, dek) == [f EXCEPT !.contents = names, !.entriesKey = dek]

NewSlot(root, secret) == [root |-> root, secret |-> secret, old |-> FALSE]

Created(v, k, phrase) ==
    [NoFile EXCEPT !.vault = v, !.dataKey = k, !.entriesKey = k,
                   !.slots["recovery"] = NewSlot(v, phrase)]

\* A file of 1.1.55 or before: one key for both jobs, slots under scrypt.
OldSlot(v, phrase) == [root |-> v, secret |-> phrase, old |-> TRUE]
Version1(v, phrase, mfa, names) ==
    [NoFile EXCEPT !.vault = v, !.version = 1, !.entriesKey = v, !.contents = names,
                   !.appKey = IF mfa THEN v ELSE None,
                   !.slots["recovery"] = OldSlot(v, phrase),
                   !.slots["password"] = IF mfa THEN OldSlot(v, phrase) ELSE NoSlot]

\* None stands for the refusal: the data key does not open with this root.
OpenDataKey(f, root) ==
    CASE f.version = 1 -> root
      [] f.version = 2 /\ root = f.vault -> f.dataKey
      [] OTHER -> None

ReadsEntries(f, key) == f.vault # None /\ key = f.entriesKey
ReadsApp(f, key) == f.appKey \in {None, key}
ReadsPair(f, key) == Has(f, "pair") => f.pairKey = key

\* Mutant: a slot is added to whatever vault the file is by now.
CheckNoRoot(f, root) == f.vault # None

CheckDek(f, dek) == ReadsEntries(f, dek)
CheckRoot(f, root) == ReadsEntries(f, OpenDataKey(f, root))

\* `_adopt_locked`: what it needs of a version-1 file, and what it makes of it.
CanAdopt(f, root) ==
    IF f.version = 1 THEN ReadsEntries(f, root) /\ ReadsApp(f, root)
                     ELSE f.vault # None /\ OpenDataKey(f, root) # None

Resealed(f, dek) ==
    [f EXCEPT !.version = 2, !.dataKey = dek, !.aged = FALSE, !.entriesKey = dek,
              !.appKey = IF f.appKey = None THEN None ELSE dek]

\* Mutant: the pair's public key stays under the old data key.
RotatedButPair(f, dek) == Resealed(f, dek)

Rotated(f, dek) ==
    [Resealed(f, dek) EXCEPT !.pairKey = IF Has(f, "pair") THEN dek ELSE None]

CanRotate(f, root) ==
    LET current == OpenDataKey(f, root) IN
    /\ CanAdopt(f, root)
    /\ ReadsEntries(f, current) /\ ReadsApp(f, current) /\ ReadsPair(f, current)

-----------------------------------------------------------------------------
(* A server's request: where it is, and what its handler has in hand.      *)

\* `left` is history: the drop of this key did not reach the agent.
Hold == [root : Vaults, dek : Keys, left : BOOLEAN]
NoHold == [root |-> None, dek |-> None, left |-> FALSE]

Steps == {"idle", "open", "adopt", "adopted", "upgrade", "rotate", "rotated", "write", "hold"}

Task == [
    pc : Steps,
    op : RequestKinds \cup {None},
    arg : SlotNames \cup Names \cup {None},     \* the slot or entry it is about
    secret : Phrases \cup Passkeys \cup {None}, \* the secret it wraps with or proved
    doc : File,                                 \* the file as it was loaded
    root : Vaults \cup {None},
    dek : Keys \cup {None},
    wasHeld : BOOLEAN ]                         \* the vault was unlocked at the load

Idle == [pc |-> "idle", op |-> None, arg |-> None, secret |-> None, doc |-> NoFile,
         root |-> None, dek |-> None, wasHeld |-> FALSE]

Become(s, t) == task' = [task EXCEPT ![s] = t]
Finish(s) == Become(s, Idle)
At(s, pc) == task[s].pc = pc
Offered(op) == op \in Requests

Unlocked(v) == v # None /\ held[v] # NoHold

\* `_held_key` found a key: the server remembers whose.
SawKey(s) == Unlocked(file.vault) /\ lastHeld' = [lastHeld EXCEPT ![s] = file.vault]

Fresh(k) == k \notin spent /\ spent' = spent \cup {k}

\* Mutant: a change starts from the document the request loaded before the lock.
LoadedBefore(s) == task[s].doc

\* Each change of the file starts from `load(path)` under the lock.
Loaded(s) == file

\* How a write of the file can end; a change of the file is in `new`.
Ends == {"ok"} \cup (Faults \cap {"write", "late"})
Write(end, new) == file' = IF end = "write" THEN file ELSE new

\* Where `_finish_unlock` goes once it has a data key, and after the upgrade.
AfterUpgrade(doc) == IF doc.version = 2 /\ doc.aged THEN "rotate" ELSE "hold"
AfterKey(slot, doc) == IF slot \in {"recovery", "password"} THEN "upgrade" ELSE AfterUpgrade(doc)

-----------------------------------------------------------------------------
(* The requests, up to their first write.                                  *)

\* `unlock_*`: the slot gives the root.
StartUnlock(s, n) ==
    /\ Offered("unlock") /\ At(s, "idle")
    /\ file.vault # None /\ Has(file, n)
    /\ LET root == file.slots[n].root IN
       Become(s, [Idle EXCEPT
           !.pc = IF file.version = 1 THEN "adopt" ELSE AfterKey(n, file),
           !.op = "unlock", !.arg = n, !.secret = file.slots[n].secret,
           !.doc = file, !.root = root, !.dek = OpenDataKey(file, root)])
    /\ UNCHANGED <<file, held, lastHeld, spent, known, kept>>

\* `rotate`: an unlocked vault, and the root from a slot a proof opens.
StartRotate(s, n) ==
    /\ Offered("rotate") /\ At(s, "idle")
    /\ n \in {"recovery"} \cup Passkeys /\ Has(file, n) /\ SawKey(s)
    /\ Become(s, [Idle EXCEPT !.pc = "rotate", !.op = "rotate", !.doc = file,
                              !.root = file.slots[n].root])
    /\ UNCHANGED <<file, held, spent, known, kept>>

\* `_proven_root`: the slot of a secret gives its root; a code of the app or an
\* assertion of the pair's passkey gives the held root.
Proofs == {"recovery", "code", "assertion"} \cup Passkeys

ProvenRoot(s, proof, root) ==
    \/ /\ proof \in {"recovery"} \cup Passkeys /\ Has(file, proof)
       /\ root = file.slots[proof].root
       /\ UNCHANGED lastHeld
    \/ /\ SawKey(s) /\ root = held[file.vault].root
       /\ \/ proof = "code" /\ file.appKey = held[file.vault].dek
          \/ proof = "assertion" /\ Has(file, "pair") /\ file.pairKey = held[file.vault].dek

StartAddPasskey(s, p, proof) ==
    /\ Offered("add_passkey") /\ At(s, "idle")
    /\ \E root \in Vaults :
         /\ ProvenRoot(s, proof, root)
         /\ Become(s, [Idle EXCEPT !.pc = "write", !.op = "add_passkey", !.arg = p,
                                   !.secret = p, !.doc = file, !.root = root])
    /\ UNCHANGED <<file, held, spent, known, kept>>

StartReplaceRecovery(s, phrase, proof) ==
    /\ Offered("replace_recovery") /\ At(s, "idle")
    /\ \E root \in Vaults :
         /\ ProvenRoot(s, proof, root)
         /\ Become(s, [Idle EXCEPT !.pc = "write", !.op = "replace_recovery",
                                   !.secret = phrase, !.doc = file, !.root = root])
    /\ UNCHANGED <<file, held, spent, known, kept>>

\* `add_mfa` and `add_pair`, up to `_adopted`.
StartAddMethod(s, op, phrase, proof) ==
    /\ Offered(op) /\ At(s, "idle")
    /\ IF op = "add_mfa" THEN file.appKey = None /\ ~Has(file, "password")
                         ELSE ~Has(file, "pair")
    /\ \E root \in Vaults :
         /\ ProvenRoot(s, proof, root)
         /\ OpenDataKey(file, root) # None
         /\ Become(s, [Idle EXCEPT
                !.pc = IF file.version = 1 THEN "adopt" ELSE "write", !.op = op,
                !.secret = phrase, !.doc = file, !.root = root,
                !.dek = OpenDataKey(file, root), !.wasHeld = Unlocked(file.vault)])
    /\ UNCHANGED <<file, held, spent, known, kept>>

\* `remove_passkey` (its own kind or the pair's), `remove_mfa`, and the entry
\* requests: the vault is unlocked, and the entries are read with the held key.
StartHeld(s, op, arg) ==
    /\ Offered(op) /\ At(s, "idle") /\ SawKey(s)
    /\ Become(s, [Idle EXCEPT !.pc = "write", !.op = op, !.arg = arg,
                              !.dek = IF op \in {"add", "delete"} THEN held[file.vault].dek
                                                                  ELSE None])
    /\ UNCHANGED <<file, held, spent, known, kept>>

\* Any request that finds the held key and changes nothing else: `status`, a
\* read, a request refused after its look at the key.
See(s) ==
    /\ At(s, "idle") /\ SawKey(s)
    /\ UNCHANGED <<file, held, task, spent, known, kept>>

\* `init`: `create` under the lock.
Create(s, v, k, phrase, end) ==
    /\ Offered("init") /\ At(s, "idle") /\ file.vault = None
    /\ {v, k} \cap spent = {} /\ spent' = spent \cup {v, k}
    /\ Write(end, Created(v, k, phrase))
    /\ IF end = "ok"
       THEN Become(s, [Idle EXCEPT !.pc = "open", !.op = "init", !.secret = phrase, !.dek = k])
       ELSE UNCHANGED task
    /\ known' = IF end = "write" THEN known ELSE {phrase}
    /\ kept' = {}
    /\ UNCHANGED <<held, lastHeld>>

-----------------------------------------------------------------------------
(* The steps of a request after its load.                                  *)

\* `init` loads the file it wrote, and its recovery slot gives the root.
Reopen(s) ==
    LET t == task[s] IN
    /\ At(s, "open")
    /\ IF Has(file, "recovery") /\ file.slots["recovery"].secret = t.secret
       THEN Become(s, [t EXCEPT !.pc = "hold", !.root = file.slots["recovery"].root])
       ELSE Finish(s)
    /\ UNCHANGED <<file, held, lastHeld, spent, known, kept>>

\* `adopt_data_key`: a version-1 file gains a data key.  An unlock whose
\* adoption fails keeps the key it opened; the others are refused.
Adopt(s, k, end) ==
    LET t == task[s] IN
    /\ At(s, "adopt")
    /\ \/ /\ file.version = 1 /\ CanAdopt(file, t.root)
          /\ Fresh(k) /\ Write(end, Resealed(Loaded(s), k))
          /\ end = "ok" /\ Become(s, [t EXCEPT !.pc = "adopted", !.dek = k])
       \/ /\ file.version = 1 /\ CanAdopt(file, t.root)
          /\ Fresh(k) /\ Write(end, Resealed(Loaded(s), k))
          /\ end # "ok"
          /\ IF t.op = "unlock" THEN Become(s, [t EXCEPT !.pc = AfterKey(t.arg, t.doc)])
                                ELSE Finish(s)
    /\ UNCHANGED <<held, lastHeld, known, kept>>

\* Another server adopted the file first, or it is no longer this vault's.
AdoptNothing(s) ==
    LET t == task[s] IN
    /\ At(s, "adopt")
    /\ IF CanAdopt(file, t.root)
       THEN file.version = 2 /\ Become(s, [t EXCEPT !.pc = "adopted",
                                                    !.dek = OpenDataKey(file, t.root)])
       ELSE IF t.op = "unlock" THEN Become(s, [t EXCEPT !.pc = AfterKey(t.arg, t.doc)])
                               ELSE Finish(s)
    /\ UNCHANGED <<file, held, lastHeld, spent, known, kept>>

\* Mutant: the old key goes only when the next hold replaces it.
ClearNothing(v) == held' = held

Clear(v) == held' = IF v = None THEN held ELSE [held EXCEPT ![v] = NoHold]

\* `GpgAgentHolder.clear` passes over an agent it does not reach.
ClearIsLost(v) ==
    /\ "clear" \in Faults /\ Unlocked(v)
    /\ held' = [held EXCEPT ![v].left = TRUE]

DropOldKey(v) == Clear(v) \/ ClearIsLost(v)

\* `_drop_old_key` after an adoption; an unlock loads the file again first.
DropAfterAdopt(s) ==
    LET t == task[s]
        doc == IF t.op = "unlock" THEN file ELSE t.doc IN
    /\ At(s, "adopted")
    /\ DropOldKey(doc.vault)
    /\ IF doc.vault = None
       THEN Finish(s)
       ELSE Become(s, [t EXCEPT !.doc = doc,
                !.pc = IF t.op = "unlock" THEN AfterKey(t.arg, doc) ELSE "write"])
    /\ UNCHANGED <<file, lastHeld, spent, known, kept>>

\* Mutant: the slot is written again whichever KDF wrote it.
UpgradesAny(f, t) == f.vault # None /\ Has(f, t.arg) /\ CheckRoot(f, t.root)

\* `upgrade_slot`: best effort, so every refusal goes on to the next step.
Upgrades(f, t) ==
    /\ f.vault # None /\ Has(f, t.arg) /\ f.slots[t.arg].old
    /\ CheckRoot(f, t.root)

Upgrade(s, end) ==
    LET t == task[s] IN
    /\ At(s, "upgrade")
    /\ IF Upgrades(file, t)
       THEN Write(end, WithSlot(Loaded(s), t.arg, NewSlot(t.root, t.secret)))
       ELSE end = "ok" /\ UNCHANGED file
    /\ Become(s, [t EXCEPT !.pc = AfterUpgrade(t.doc)])
    /\ UNCHANGED <<held, lastHeld, spent, known, kept>>

\* `rotate_data_key`: an unlock goes on with its own key when this fails.
Rotate(s, k, end) ==
    LET t == task[s] IN
    /\ At(s, "rotate")
    /\ CanRotate(file, t.root)
    /\ Fresh(k) /\ Write(end, Rotated(Loaded(s), k))
    /\ IF end = "ok" THEN Become(s, [t EXCEPT !.pc = "rotated", !.dek = k])
       ELSE IF t.op = "unlock" THEN Become(s, [t EXCEPT !.pc = "hold"]) ELSE Finish(s)
    /\ UNCHANGED <<held, lastHeld, known, kept>>

RotateNothing(s) ==
    /\ At(s, "rotate") /\ ~CanRotate(file, task[s].root)
    /\ IF task[s].op = "unlock" THEN Become(s, [task[s] EXCEPT !.pc = "hold"]) ELSE Finish(s)
    /\ UNCHANGED <<file, held, lastHeld, spent, known, kept>>

DropAfterRotate(s) ==
    /\ At(s, "rotated")
    /\ DropOldKey(task[s].doc.vault)
    /\ Become(s, [task[s] EXCEPT !.pc = "hold"])
    /\ UNCHANGED <<file, lastHeld, spent, known, kept>>

Put(t) == held' = [held EXCEPT ![file.vault] = [root |-> t.root, dek |-> t.dek, left |-> FALSE]]

\* `_hold`: under the id the file has now.
HoldKey(s) ==
    /\ At(s, "hold") /\ file.vault # None
    /\ Put(task[s])
    /\ lastHeld' = [lastHeld EXCEPT ![s] = file.vault]
    /\ Finish(s)
    /\ UNCHANGED <<file, spent, known, kept>>

\* The holder refuses: before it replaces the held key, or after it cleared it, or with its
\* own key left there by a clear that is lost.
HoldFails(s) ==
    /\ At(s, "hold") /\ (file.vault = None \/ "hold" \in Faults)
    /\ \/ UNCHANGED held \/ Clear(file.vault)
       \/ file.vault # None /\ "clear" \in Faults /\ Put(task[s])
    /\ Finish(s)
    /\ UNCHANGED <<file, lastHeld, spent, known, kept>>

-----------------------------------------------------------------------------
(* The writes of slots and entries, each under the file's lock.            *)

Writing(s, op) == At(s, "write") /\ task[s].op = op

\* A refusal under the lock: nothing is written, the client gets the error.
Refuse(s) == Finish(s) /\ UNCHANGED <<file, held, lastHeld, spent, known, kept>>

AddPasskey(s, end) ==
    LET t == task[s]
        allowed == CheckRoot(file, t.root) /\ ~Has(file, t.arg) IN
    /\ Writing(s, "add_passkey")
    /\ \/ ~allowed /\ Refuse(s)
       \/ /\ allowed /\ Write(end, WithSlot(Loaded(s), t.arg, NewSlot(t.root, t.secret)))
          /\ Finish(s)
          /\ UNCHANGED <<held, lastHeld, spent, known, kept>>

ReplaceRecovery(s, end) ==
    LET t == task[s] IN
    /\ Writing(s, "replace_recovery")
    /\ \/ ~CheckRoot(file, t.root) /\ Refuse(s)
       \/ /\ CheckRoot(file, t.root)
          /\ Write(end, WithSlot(Loaded(s), "recovery", NewSlot(t.root, t.secret)))
          /\ known' = CASE end = "ok" -> {t.secret}
                        [] end = "late" -> known \cup {t.secret}
                        [] end = "write" -> known
          /\ Finish(s)
          /\ UNCHANGED <<held, lastHeld, spent, kept>>

\* After its write, a new method is held when the vault was unlocked.
AfterMethod(s, end) ==
    IF end = "ok" /\ task[s].wasHeld THEN Become(s, [task[s] EXCEPT !.pc = "hold"])
                                     ELSE Finish(s)

\* `set_mfa`: the unlock password and the app, in one write.
AddMfa(s, end) ==
    LET t == task[s]
        allowed == /\ CheckRoot(file, t.root) /\ CheckDek(file, t.dek)
                   /\ file.appKey = None /\ ~Has(file, "password") IN
    /\ Writing(s, "add_mfa")
    /\ \/ ~allowed /\ Refuse(s)
       \/ /\ allowed
          /\ Write(end, WithMfa(Loaded(s), NewSlot(t.root, t.secret), t.dek))
          /\ AfterMethod(s, end)
          /\ UNCHANGED <<held, lastHeld, spent, known, kept>>

\* `store.add_pair`: the password's slot and the sealed public key, in one write.
AddPair(s, end) ==
    LET t == task[s]
        allowed == CheckRoot(file, t.root) /\ CheckDek(file, t.dek) /\ ~Has(file, "pair") IN
    /\ Writing(s, "add_pair")
    /\ \/ ~allowed /\ Refuse(s)
       \/ /\ allowed
          /\ Write(end, WithPair(Loaded(s), NewSlot(t.root, t.secret), t.dek))
          /\ AfterMethod(s, end)
          /\ UNCHANGED <<held, lastHeld, spent, known, kept>>

RemovePasskey(s, end) ==
    LET n == task[s].arg IN
    /\ Writing(s, "remove_passkey")
    /\ \/ ~Has(file, n) /\ Refuse(s)
       \/ /\ Has(file, n)
          /\ Write(end, WithoutSlot(file, n))
          /\ Finish(s)
          /\ UNCHANGED <<held, lastHeld, spent, known, kept>>

RemoveMfa(s, end) ==
    LET present == Has(file, "password") \/ file.appKey # None IN
    /\ Writing(s, "remove_mfa")
    /\ \/ ~present /\ Refuse(s)
       \/ /\ present
          /\ Write(end, WithoutMfa(file))
          /\ Finish(s)
          /\ UNCHANGED <<held, lastHeld, spent, known, kept>>

\* `update_entries` with the change of `add`, which refuses a name twice.
AddEntry(s, end) ==
    LET n == task[s].arg
        allowed == CheckDek(file, task[s].dek) /\ n \notin file.contents IN
    /\ Writing(s, "add")
    /\ \/ ~allowed /\ Refuse(s)
       \/ /\ allowed
          /\ Write(end, WithEntries(file, file.contents \cup {n}, task[s].dek))
          /\ kept' = IF end = "ok" THEN kept \cup {n} ELSE kept
          /\ Finish(s)
          /\ UNCHANGED <<held, lastHeld, spent, known>>

\* `update_entries` with the change of `delete`, which needs the name.
DeleteEntry(s, end) ==
    LET n == task[s].arg
        allowed == CheckDek(file, task[s].dek) /\ n \in file.contents IN
    /\ Writing(s, "delete")
    /\ \/ ~allowed /\ Refuse(s)
       \/ /\ allowed
          /\ Write(end, WithEntries(file, file.contents \ {n}, task[s].dek))
          /\ kept' = IF end = "write" THEN kept ELSE kept \ {n}
          /\ Finish(s)
          /\ UNCHANGED <<held, lastHeld, spent, known>>

\* `lock`: the vault last held here and the one the file is now, by a clear for each.
Lock(s) ==
    /\ Offered("lock") /\ At(s, "idle")
    /\ lastHeld[s] # None \/ file.vault # None
    /\ \E got \in SUBSET {lastHeld[s], file.vault} :
         /\ got = {lastHeld[s], file.vault} \/ "clear" \in Faults
         /\ held' = [v \in Vaults |-> IF v \in got THEN NoHold ELSE held[v]]
    /\ lastHeld' = [lastHeld EXCEPT ![s] = None]
    /\ UNCHANGED <<file, task, spent, known, kept>>

-----------------------------------------------------------------------------
(* What happens to the servers, the holder and the file from outside.      *)

\* The unlock duration ends: the kernel, the agent or a timer drops the key.
Expire(v) ==
    /\ held[v] # NoHold /\ Clear(v)
    /\ UNCHANGED <<file, task, lastHeld, spent, known, kept>>

\* The data key reaches the end of its period.
Age ==
    /\ file.vault # None /\ file.version = 2 /\ ~file.aged
    /\ file' = [file EXCEPT !.aged = TRUE]
    /\ UNCHANGED <<held, task, lastHeld, spent, known, kept>>

Crash(s) ==
    /\ "crash" \in Faults /\ (~At(s, "idle") \/ lastHeld[s] # None)
    /\ Finish(s)
    /\ lastHeld' = [lastHeld EXCEPT ![s] = None]
    /\ UNCHANGED <<file, held, spent, known, kept>>

RemoveFile ==
    /\ "remove" \in Faults /\ file.vault # None
    /\ file' = NoFile /\ known' = {} /\ kept' = {}
    /\ UNCHANGED <<held, task, lastHeld, spent>>

-----------------------------------------------------------------------------

Init ==
    /\ \/ file = NoFile /\ known = {} /\ kept = {} /\ spent = {}
       \/ \E v \in Vaults, phrase \in Phrases, mfa \in BOOLEAN, names \in SUBSET Names :
            /\ file = Version1(v, phrase, mfa, names)
            /\ known = {phrase} /\ kept = names /\ spent = {v}
    /\ held = [v \in Vaults |-> NoHold]
    /\ task = [s \in Servers |-> Idle]
    /\ lastHeld = [s \in Servers |-> None]

Start(s) ==
    \/ \E n \in SlotNames : StartUnlock(s, n) \/ StartRotate(s, n)
    \/ \E proof \in Proofs :
         \/ \E p \in Passkeys : StartAddPasskey(s, p, proof)
         \/ \E phrase \in Phrases :
              \/ StartReplaceRecovery(s, phrase, proof)
              \/ \E op \in {"add_mfa", "add_pair"} : StartAddMethod(s, op, phrase, proof)
    \/ \E p \in Passkeys \cup {"pair"} : StartHeld(s, "remove_passkey", p)
    \/ StartHeld(s, "remove_mfa", None)
    \/ \E op \in {"add", "delete"}, n \in Names : StartHeld(s, op, n)
    \/ \E v \in Vaults, k \in DataKeys, phrase \in Phrases, end \in Ends :
         Create(s, v, k, phrase, end)

Continue(s) ==
    \/ \E k \in DataKeys, end \in Ends : Adopt(s, k, end) \/ Rotate(s, k, end)
    \/ Reopen(s) \/ AdoptNothing(s) \/ DropAfterAdopt(s) \/ RotateNothing(s) \/ DropAfterRotate(s)
    \/ \E end \in Ends : Upgrade(s, end)
    \/ HoldKey(s) \/ HoldFails(s)

Save(s, end) ==
    \/ AddPasskey(s, end) \/ ReplaceRecovery(s, end) \/ AddMfa(s, end) \/ AddPair(s, end)
    \/ RemovePasskey(s, end) \/ RemoveMfa(s, end) \/ AddEntry(s, end) \/ DeleteEntry(s, end)

Next ==
    \/ \E s \in Servers : Start(s) \/ Continue(s) \/ See(s) \/ Lock(s) \/ Crash(s)
    \/ \E s \in Servers, end \in Ends : Save(s, end)
    \/ \E v \in Vaults : Expire(v)
    \/ Age \/ RemoveFile

Spec == Init /\ [][Next]_vars
-----------------------------------------------------------------------------
(* What makes the file and the held key right.                             *)

TypeOK ==
    /\ file \in File
    /\ held \in [Vaults -> Hold \cup {NoHold}]
    /\ task \in [Servers -> Task]
    /\ lastHeld \in [Servers -> Vaults \cup {None}]
    /\ spent \subseteq Keys
    /\ known \subseteq Phrases
    /\ kept \subseteq Names

\* Every slot wraps the root key of the vault it is in, whichever file the root
\* was proved against: a slot for another root would open nothing.
SlotsWrapRoot ==
    \A n \in SlotNames : Has(file, n) => file.slots[n].root = file.vault

\* Whoever opens the root reads everything: the entries, the app's secret and
\* the pair's public key are sealed under the one data key the root opens, so
\* no rotation, adoption or addition leaves a part behind under another key.
SealedTogether ==
    file.vault # None =>
        LET dek == OpenDataKey(file, file.vault) IN
        /\ file.entriesKey = dek
        /\ file.appKey \in {None, dek}
        /\ file.pairKey = IF Has(file, "pair") THEN dek ELSE None

\* The recovery slot opens with a passphrase the owner was told of last, or
\* typed into a replacement whose answer was an error: an unlock that upgrades
\* the slot never brings back the passphrase it was replaced for.
RecoveryOpens ==
    file.vault # None => Has(file, "recovery") /\ file.slots["recovery"].secret \in known

\* No entry acknowledged as added is lost to another request's write.
EntriesKept == kept \subseteq file.contents

\* No server is between its new data key and the drop of the old one.
NoneChanging == \A s \in Servers : task[s].pc \notin {"adopted", "rotated"}

\* A held key reads the entries, but for one whose drop did not reach the agent, until
\* another is held in its place (`_drop_old_key`: "a hold that fails must leave a locked
\* vault, never an open one whose entries do not decrypt").
HeldKeyReads ==
    NoneChanging /\ Unlocked(file.vault) /\ ~held[file.vault].left
        => ReadsEntries(file, held[file.vault].dek)

\* The same between any two requests, as that comment says it, of every key.  Not so: the
\* drop is lost, and the hold that follows is refused.
AlwaysReads ==
    (\A s \in Servers : At(s, "idle")) /\ Unlocked(file.vault)
        => ReadsEntries(file, held[file.vault].dek)

\* A write changes the slot it is about and leaves every slot another request
\* wrote; a new data key comes with no change of a slot.
WritesOneSlot ==
    [][file.vault # None /\ file'.vault = file.vault =>
        /\ \A m, n \in SlotNames :
             file'.slots[m] # file.slots[m] /\ file'.slots[n] # file.slots[n] => m = n
        /\ file'.dataKey # file.dataKey => file'.slots = file.slots]_file

\* A data key the file has left never becomes its data key again.
DataKeysAreFresh ==
    [][file'.dataKey \notin {None, file.dataKey} => file'.dataKey \notin spent]_file
=============================================================================
