--------------------------- MODULE Holders_proofs ---------------------------
(***************************************************************************)
(* The three key holders, for any number of callers, vaults, keys and      *)
(* durations, with every failure: what a status shows of a key and how     *)
(* long a key is kept, that memory is wiped without a request, and that    *)
(* each of the three is the holder the service counts on (KeyHolder).      *)
(*                                                                         *)
(* The inductive invariant IInv says where a call can be in which holder   *)
(* (Fits), what the timers of the memory leave there (Memory), that the    *)
(* agent runs a duration, and in steady settings that of the put that      *)
(* presets (Records), whose call a promise is about (Ones), and what a     *)
(* call that nobody crosses has kept of the promise there was, or made of  *)
(* its own (Promises).  The refinement needs OneReload too: puts that do   *)
(* not cross before a reload make no second one.                           *)
(***************************************************************************)
EXTENDS Holders, FiniteSetTheorems, TLAPS

Puts == {"addKey", "endKey", "addExpiry", "endExpiry", "conf", "reload", "record", "presetKey",
         "presetExpiry"}

\* A call is at a step of the holder there is, and of what it asks for.
CallFits(t) ==
    /\ t.pc \in {"dropKey", "dropExpiry", "addKey", "endKey", "addExpiry", "endExpiry"}
       => kind = "keyctl"
    /\ t.pc \in {"conf", "reload", "record", "presetKey", "presetExpiry", "clearBoth"}
       => kind = "gpg-agent"
    /\ t.pc = "locked" => kind = "memory" /\ t.op # "undo"
    /\ t.pc \in Puts => t.op = "put"
    /\ t.pc = "clearBoth" => t.op # "put"
    /\ t.op = "put" => t.key \in Keys
    /\ kind = "gpg-agent" /\ steady => t.ttl = setting

Fits == \A p \in Processes : task[p] # Idle => CallFits(task[p])

\* The memory has one key; a timer that waits for the lock is over, and the other holders have
\* none.
Memory ==
    /\ kind = "memory" =>
         /\ \A v \in Vaults : entry["key"][v] # None => entry["key"][v].ends \in Nat
         /\ \A v, w \in Vaults : entry["key"][v] # None /\ entry["key"][w] # None => v = w
         /\ \A end \in late : end <= now
    /\ kind # "memory" => late = {} /\ timer = None
    /\ MemoryIsWiped

\* What a call knows of the agent's config: it wrote it, reloaded it, recorded it, and in
\* steady settings nobody wrote another since.
CallRecords(t) ==
    /\ t.pc \in {"reload", "record", "presetKey", "presetExpiry"}
       => agent["conf"] # None /\ (steady => agent["conf"] = setting)
    /\ t.pc \in {"record", "presetKey", "presetExpiry"} => agent["runs"] # None
    /\ t.pc = "record" /\ steady => agent["runs"] = setting
    /\ t.pc \in {"presetKey", "presetExpiry"} /\ steady => agent["loaded"] = setting

\* The agent runs the config that is on record, and one that is not on record is the setting's.
Recorded ==
    /\ agent["conf"] # agent["loaded"] => agent["conf"] = setting
    /\ agent["conf"] = agent["loaded"] => agent["runs"] = agent["conf"]

Records ==
    /\ agent["loaded"] # None => agent["runs"] # None
    /\ agent["runs"] # None => agent["conf"] # None
    /\ kind = "gpg-agent" /\ steady => Recorded
    /\ \A p \in Processes : task[p] # Idle => CallRecords(task[p])

\* A vault with a call has no promise; a call that is alone on its vault has no other there.
Ones ==
    /\ \A p \in Processes : task[p] # Idle => promised[task[p].vault] = None
    /\ \A p, q \in Processes :
         p # q /\ task[p] # Idle /\ task[q] # Idle /\ task[p].vault = task[q].vault
         => ~task[p].alone

\* The vault's key, if there is one, is one a status shows, and ends by then.
Good(v, end) ==
    entry["key"][v] # None /\ end # None =>
        /\ end # Never /\ entry["key"][v].ends \in Nat
        /\ steady => entry["key"][v].ends <= end
        /\ kind # "memory" =>
             /\ entry["expiry"][v] # None
             /\ \/ entry["expiry"][v].ends = Never
                \/ entry["key"][v].ends <= entry["expiry"][v].ends

\* Before a call touches anything, what was promised is so.  Then the old key is gone, and a
\* put's own ends in time, by the agent's duration in the agent.
Course(t) ==
    /\ \/ t.op = "put" /\ t.pc \in {"dropKey", "conf", "reload", "record", "presetKey"}
       \/ t.op = "clear" /\ t.pc = "clearBoth"
       => Good(t.vault, t.was)
    /\ t.pc = "dropExpiry" => entry["key"][t.vault] = None
    /\ t.pc \in {"addExpiry", "endExpiry"} /\ entry["key"][t.vault] # None
       => entry["key"][t.vault].ends \in 0..(now + t.ttl)
    /\ t.pc = "presetExpiry" /\ entry["key"][t.vault] # None
       => entry["key"][t.vault].ends \in 0..(now + agent["runs"])

Promises ==
    /\ \A v \in Vaults : Good(v, promised[v])
    /\ \A p \in Processes : task[p] # Idle /\ task[p].alone => Course(task[p])

IInv == TypeOK /\ Fits /\ Memory /\ Records /\ Ones /\ Promises

-----------------------------------------------------------------------------
(* What is typed *)

LEMMA TypesOf ==
    ASSUME TypeOK, NEW p \in Processes, task[p] # Idle
    PROVE  /\ task[p] \in Call /\ task[p].pc \in Steps
           /\ task[p].op \in {"put", "clear", "undo"}
           /\ task[p].vault \in Vaults /\ task[p].key \in Keys \cup {None}
           /\ task[p].ttl \in Durations /\ task[p].ttl \in Nat \ {0}
           /\ task[p].id \in Nat \cup {None} /\ task[p].alone \in BOOLEAN
           /\ task[p].was \in Nat \cup {None, Never}
<1>1. task[p] \in Call
  BY DEF TypeOK
<1>2. QED
  BY <1>1, HoldersAssumption DEF Call

LEMMA NotIdle ==
    ASSUME NEW t \in Call
    PROVE  t # Idle
BY DEF Call, Steps, Idle

LEMMA EmptyTyped ==
    /\ Empty \in [Parts -> [Vaults -> Stored(Keys \cup Nat) \cup {None}]]
    /\ \A part \in Parts, v \in Vaults : Empty[part][v] = None
BY DEF Empty

\* A thing stored is not nothing.
LEMMA StoredIsThere ==
    ASSUME NEW value \in Keys \cup Nat, NEW id \in Nat \cup {None}, NEW end \in Nat \cup {Never}
    PROVE  /\ [value |-> value, id |-> id, ends |-> end] \in Stored(Keys \cup Nat)
           /\ [value |-> value, id |-> id, ends |-> end] # None
BY NoneIsNothing DEF Stored

LEMMA EntryTyped ==
    ASSUME TypeOK, NEW part \in Parts, NEW v \in Vaults, entry[part][v] # None
    PROVE  /\ entry[part][v] \in Stored(Keys \cup Nat)
           /\ entry[part][v].value \in Keys \cup Nat
           /\ entry[part][v].id \in Nat \cup {None} /\ entry[part][v].ends \in Nat \cup {Never}
<1> DEFINE S == Stored(Keys \cup Nat) \cup {None}
<1>a. entry \in [Parts -> [Vaults -> S]]
  BY DEF TypeOK
<1> HIDE DEF S
<1>b. entry[part][v] \in S
  BY <1>a
<1>1. entry[part][v] \in Stored(Keys \cup Nat)
  BY <1>b DEF S
<1>2. QED
  BY <1>1 DEF Stored

LEMMA FiniteImage ==
    ASSUME NEW f, IsFiniteSet(DOMAIN f)
    PROVE  IsFiniteSet({f[x] : x \in DOMAIN f})
<1> DEFINE S == DOMAIN f
           T == {f[x] : x \in S}
           g == [x \in S |-> f[x]]
<1>1. g \in Surjection(S, T)
  BY DEF Surjection
<1>2. QED
  BY <1>1, FS_Surjection

\* The kernel has a number left.
LEMMA FreeIdIsFree ==
    ASSUME TypeOK
    PROVE  FreeId \in Nat
<1> DEFINE Links == {entry[part][v] : part \in Parts, v \in Vaults} \ {None}
           Busy == {q \in Processes : task[q] # Idle}
           Numbers == {e.id : e \in Links}
           Hands == {task[p].id : p \in Busy}
<1>1. IsFiniteSet(Links)
  <2> DEFINE K == {entry["key"][v] : v \in Vaults}
             X == {entry["expiry"][v] : v \in Vaults}
  <2>1. IsFiniteSet(K)
    <3> DEFINE f == [v \in Vaults |-> entry["key"][v]]
    <3>1. K = {f[v] : v \in Vaults}
      OBVIOUS
    <3>2. IsFiniteSet({f[v] : v \in DOMAIN f})
      BY HoldersAssumption, FiniteImage
    <3>3. QED
      BY <3>1, <3>2
  <2>2. IsFiniteSet(X)
    <3> DEFINE f == [v \in Vaults |-> entry["expiry"][v]]
    <3>1. X = {f[v] : v \in Vaults}
      OBVIOUS
    <3>2. IsFiniteSet({f[v] : v \in DOMAIN f})
      BY HoldersAssumption, FiniteImage
    <3>3. QED
      BY <3>1, <3>2
  <2>3. Links \in SUBSET (K \cup X)
    BY DEF Parts
  <2>4. IsFiniteSet(K \cup X)
    BY <2>1, <2>2, FS_Union
  <2> QED
    BY <2>3, <2>4, FS_Subset
<1>2. IsFiniteSet(Numbers)
  <2> HIDE DEF Links
  <2> DEFINE f == [e \in Links |-> e.id]
  <2>1. Numbers = {f[e] : e \in Links}
    OBVIOUS
  <2>2. IsFiniteSet({f[e] : e \in DOMAIN f})
    BY <1>1, FiniteImage
  <2>3. QED
    BY <2>1, <2>2
<1>3. IsFiniteSet(Hands)
  <2> DEFINE f == [p \in Busy |-> task[p].id]
  <2>1. IsFiniteSet(Busy)
    BY HoldersAssumption, FS_Subset
  <2>2. Hands = {f[p] : p \in Busy}
    OBVIOUS
  <2>3. IsFiniteSet({f[p] : p \in DOMAIN f})
    BY <2>1, FiniteImage
  <2>4. QED
    BY <2>2, <2>3
<1>4. IsFiniteSet(UsedIds)
  <2>1. UsedIds = Numbers \cup Hands
    BY DEF UsedIds
  <2> HIDE DEF Numbers, Hands
  <2>2. QED
    BY <1>2, <1>3, <2>1, FS_Union
<1> DEFINE n == Cardinality(UsedIds)
<1>5. n \in Nat
  BY <1>4, FS_CardinalityType
<1>6. IsFiniteSet(1..(n + 1)) /\ Cardinality(1..(n + 1)) = n + 1
  BY <1>5, FS_Interval
<1>7. \E i \in 1..(n + 1) : i \notin UsedIds
  <2>1. SUFFICES ASSUME 1..(n + 1) \subseteq UsedIds PROVE FALSE
    OBVIOUS
  <2>2. Cardinality(1..(n + 1)) <= n
    BY <1>4, <2>1, FS_Subset
  <2>3. QED
    BY <1>5, <1>6, <2>2
<1>8. FreeId \in 1..(n + 1)
  BY <1>7 DEF FreeId
<1>9. QED
  BY <1>5, <1>8

-----------------------------------------------------------------------------
(* What a step leaves alone *)

\* Another vault has what it had, or no key.
Elsewhere(u) ==
    \A v \in Vaults \ {u} :
        \/ entry'["key"][v] = None
        \/ /\ \A part \in Parts : entry'[part][v] = entry[part][v]
           /\ agent'["runs"] = agent["runs"]

Entries == entry \in [Parts -> [Vaults -> Stored(Keys \cup Nat) \cup {None}]]

KeysAreKeys == \A v \in Vaults : entry["key"][v] = None \/ entry["key"][v].value \in Keys

AgentTyped == agent \in [{"conf", "loaded", "runs"} -> Durations \cup {None}]

\* Without a change of its entries, or with its key gone, a vault keeps its promise.
LEMMA GoodElsewhere ==
    ASSUME NEW v \in Vaults, NEW end, Good(v, end), kind' = kind, steady' => steady,
           \/ entry'["key"][v] = None
           \/ \A part \in Parts : entry'[part][v] = entry[part][v]
    PROVE  Good(v, end)'
BY DEF Good, Parts

LEMMA CourseElsewhere ==
    ASSUME NEW t \in Call, Course(t), kind' = kind, now' = now, steady' => steady,
           \/ entry'["key"][t.vault] = None
           \/ /\ \A part \in Parts : entry'[part][t.vault] = entry[part][t.vault]
              /\ agent'["runs"] = agent["runs"]
    PROVE  Course(t)'
<1>1. t.vault \in Vaults
  BY DEF Call
<1>2. Good(t.vault, t.was) => Good(t.vault, t.was)'
  BY <1>1, GoodElsewhere
<1>3. \/ entry'["key"][t.vault] = None
      \/ entry'["key"][t.vault] = entry["key"][t.vault] /\ agent'["runs"] = agent["runs"]
  BY DEF Parts
<1>4. QED
  BY <1>2, <1>3 DEF Course

\* The agent's config stays what the calls know of it.
LEMMA RecordsStay ==
    ASSUME Records, UNCHANGED <<kind, agent, setting, steady>>, NEW p \in Processes, NEW t,
           task' = [task EXCEPT ![p] = t], t # Idle => CallRecords(t)
    PROVE  Records'
<1>1. \A q \in Processes : task'[q] = t \/ task'[q] = task[q]
  BY DEF Records
<1>2. QED
  BY <1>1 DEF Records, Recorded, CallRecords

\* A holder other than the memory has no timers.
LEMMA NoTimers ==
    ASSUME Memory, kind # "memory", UNCHANGED <<kind, timer, late>>
    PROVE  Memory'
BY DEF Memory, MemoryIsWiped

\* The part of an action that is about the promise, for a call that goes on.
LEMMA Continues ==
    ASSUME IInv, NEW p \in Processes, task[p] # Idle, NEW t \in Call,
           task' = [task EXCEPT ![p] = t],
           t.vault = task[p].vault, t.alone = task[p].alone,
           CallFits(t), task[p].alone => Course(t)',
           UNCHANGED <<kind, now, setting, steady, timer, late, answer, promised, calls>>,
           Entries', KeysAreKeys', Elsewhere(task[p].vault),
           AgentTyped', Memory', Records'
    PROVE  IInv'
<1>1. \A q \in Processes : task'[q] = IF q = p THEN t ELSE task[q]
  BY DEF IInv, TypeOK
<1>2. TypeOK'
  <2>1. task' \in [Processes -> Call \cup {Idle}]
    BY DEF IInv, TypeOK
  <2>2. QED
    BY <2>1 DEF IInv, TypeOK, Entries, KeysAreKeys, AgentTyped
<1>3. Fits'
  <2>1. CallFits(t)' /\ \A q \in Processes : CallFits(task[q]) => CallFits(task[q])'
    BY DEF CallFits
  <2>2. QED
    BY <1>1, <2>1 DEF IInv, Fits
<1>4. Ones'
  BY <1>1 DEF IInv, Ones
<1>5. Promises'
  <2>1. \A v \in Vaults \ {task[p].vault} : Good(v, promised[v])'
    BY GoodElsewhere DEF IInv, Promises, Elsewhere
  <2>2. Good(task[p].vault, promised[task[p].vault])'
    BY DEF IInv, Ones, Good
  <2>3. ASSUME NEW q \in Processes \ {p}, task[q] # Idle, task[q].alone
        PROVE  Course(task[q])'
    <3>1. task[q] \in Call /\ task[q].vault \in Vaults
      BY <2>3, TypesOf DEF IInv
    <3>2. task[q].vault # task[p].vault
      BY <2>3 DEF IInv, Ones
    <3>3. QED
      BY <2>3, <3>1, <3>2, CourseElsewhere DEF IInv, Promises, Elsewhere
  <2>4. QED
    BY <1>1, <2>1, <2>2, <2>3 DEF Promises
<1>6. QED
  BY <1>2, <1>3, <1>4, <1>5 DEF IInv

\* And for one that ends: what it promised is so, or what was promised before it.
LEMMA Finishes ==
    ASSUME IInv, NEW p \in Processes, task[p] # Idle, NEW a \in {"ok", "refused"}, Ends(p, a),
           NEW u, u = task[p].vault, NEW end, end = promised'[u],
           task[p].alone => Good(u, end)',
           UNCHANGED <<kind, now, setting, steady, calls>>, timer' \in Nat \cup {None}, late' \subseteq Nat,
           Entries', KeysAreKeys', Elsewhere(u),
           AgentTyped', Memory', Records'
    PROVE  IInv'
<1>1. \A q \in Processes : task'[q] = IF q = p THEN Idle ELSE task[q]
  BY DEF IInv, TypeOK, Ends
<1>2. /\ u \in Vaults /\ \A v \in Vaults \ {u} : promised'[v] = promised[v]
      /\ ~task[p].alone => promised' = promised
      /\ promised' \in [Vaults -> Nat \cup {None, Never}]
  <2>1. promised \in [Vaults -> Nat \cup {None, Never}] /\ u \in Vaults
    BY TypesOf DEF IInv, TypeOK
  <2>2. CASE ~task[p].alone
    BY <2>1, <2>2 DEF Ends
  <2>3. CASE task[p].alone
    <3>1. now + task[p].ttl \in Nat /\ task[p].was \in Nat \cup {None, Never}
      <4>1. now \in Nat
        BY DEF IInv, TypeOK
      <4>2. task[p].ttl \in Nat /\ task[p].was \in Nat \cup {None, Never}
        BY TypesOf DEF IInv
      <4>3. QED
        BY <4>1, <4>2
    <3>2. PICK e \in Nat \cup {None, Never} : promised' = [promised EXCEPT ![u] = e]
      BY <2>3, <3>1 DEF Ends
    <3> QED
      BY <2>1, <2>3, <3>2
  <2>4. QED
    BY <2>2, <2>3
<1>3. TypeOK'
  <2>1. task' \in [Processes -> Call \cup {Idle}]
    BY DEF IInv, TypeOK, Ends
  <2>2. answer' \in [Processes -> {None, "ok", "refused"}]
    BY DEF IInv, TypeOK, Ends
  <2>3. QED
    BY <1>2, <2>1, <2>2 DEF IInv, TypeOK, Entries, KeysAreKeys, AgentTyped
<1>4. Fits'
  <2>1. \A q \in Processes \ {p} : CallFits(task[q]) => CallFits(task[q])'
    BY <1>1 DEF CallFits
  <2>2. QED
    BY <1>1, <2>1 DEF IInv, Fits
<1>5. Ones'
  <2>1. ASSUME NEW q \in Processes \ {p}, task[q] # Idle PROVE promised'[task[q].vault] = None
    <3>1. task[q].vault \in Vaults /\ promised[task[q].vault] = None
      BY <2>1, TypesOf DEF IInv, Ones
    <3>2. task[q].vault = u => ~task[p].alone
      BY <2>1 DEF IInv, Ones
    <3>3. QED
      BY <1>2, <3>1, <3>2
  <2>2. QED
    BY <1>1, <2>1 DEF IInv, Ones
<1>6. Promises'
  <2>1. ASSUME NEW v \in Vaults \ {u} PROVE Good(v, promised[v])'
    <3> DEFINE e == promised[v]
    <3>1. Good(v, e)
      BY DEF IInv, Promises
    <3>2. promised'[v] = e
      BY <1>2
    <3> HIDE DEF e
    <3>3. \A x : x = e => (Good(v, x) => Good(v, x)')
      BY GoodElsewhere DEF Elsewhere
    <3>4. QED
      BY <3>1, <3>2, <3>3 DEF Good
  <2>2. Good(u, end)'
    <3>1. CASE task[p].alone
      BY <3>1
    <3>2. CASE ~task[p].alone
      BY <1>2, <3>2 DEF IInv, Ones, Good
    <3>3. QED
      BY <3>1, <3>2
  <2>3. ASSUME NEW q \in Processes \ {p}, task[q] # Idle, task[q].alone
        PROVE  Course(task[q])'
    <3>1. task[q] \in Call /\ task[q].vault \in Vaults
      BY <2>3, TypesOf DEF IInv
    <3>2. task[q].vault # task[p].vault
      BY <2>3 DEF IInv, Ones
    <3>3. QED
      BY <1>1, <2>3, <3>1, <3>2, CourseElsewhere DEF IInv, Promises, Elsewhere
  <2>4. \A v \in Vaults : Good(v, promised[v])'
    BY <1>2, <2>1, <2>2 DEF Good
  <2>5. QED
    BY <1>1, <2>3, <2>4 DEF Promises
<1>7. QED
  BY <1>3, <1>4, <1>5, <1>6 DEF IInv

\* One thing is stored under a name of the vault, or taken away.
LEMMA OneIsSet ==
    ASSUME TypeOK, NEW part \in Parts, NEW v \in Vaults,
           NEW x \in Stored(Keys \cup Nat) \cup {None},
           part = "key" => x = None \/ x.value \in Keys,
           entry' = [entry EXCEPT ![part][v] = x], agent'["runs"] = agent["runs"]
    PROVE  /\ Entries' /\ KeysAreKeys' /\ Elsewhere(v)
           /\ entry'[part][v] = x
           /\ \A other \in Parts \ {part} : entry'[other] = entry[other]
<1> DEFINE S == Stored(Keys \cup Nat) \cup {None}
<1>1. entry \in [Parts -> [Vaults -> S]] /\ x \in S
  BY DEF TypeOK
<1>2. KeysAreKeys
  BY DEF TypeOK, KeysAreKeys
<1> HIDE DEF S
<1>3. entry' \in [Parts -> [Vaults -> S]]
  BY <1>1
<1>4. /\ entry'[part][v] = x
      /\ \A w \in Vaults \ {v} : entry'[part][w] = entry[part][w]
      /\ \A other \in Parts \ {part} : entry'[other] = entry[other]
  BY <1>1
<1>5. Elsewhere(v)
  BY <1>4 DEF Elsewhere
<1>6. KeysAreKeys'
  BY <1>2, <1>4 DEF KeysAreKeys, Parts
<1>7. QED
  BY <1>3, <1>4, <1>5, <1>6 DEF Entries, S

LEMMA NothingIsSet ==
    ASSUME TypeOK, UNCHANGED entry, agent'["runs"] = agent["runs"]
    PROVE  Entries' /\ KeysAreKeys' /\ \A v : Elsewhere(v)
BY DEF TypeOK, Entries, KeysAreKeys, Elsewhere

LEMMA AllIsGone ==
    ASSUME TypeOK, entry' = Empty
    PROVE  Entries' /\ KeysAreKeys' /\ (\A v : Elsewhere(v)) /\ \A v \in Vaults : \A end : Good(v, end)'
BY EmptyTyped DEF Entries, KeysAreKeys, Elsewhere, Good, Parts

\* What an end of a call makes of the promise.
LEMMA EndsWith ==
    ASSUME TypeOK, NEW p \in Processes, task[p] # Idle, NEW a, Ends(p, a), task[p].alone
    PROVE  /\ a = "refused" => promised'[task[p].vault] = task[p].was
           /\ a # "refused" /\ task[p].op = "put"
              => promised'[task[p].vault] = now + task[p].ttl
           /\ a # "refused" /\ task[p].op # "put" => promised'[task[p].vault] = Never
<1>1. task[p].vault \in Vaults /\ promised \in [Vaults -> Nat \cup {None, Never}]
  BY TypesOf DEF TypeOK
<1>2. CASE a = "refused"
  <2>1. promised' = [promised EXCEPT ![task[p].vault] = task[p].was]
    BY <1>2 DEF Ends
  <2>2. QED
    BY <1>1, <1>2, <2>1
<1>3. CASE a # "refused" /\ task[p].op = "put"
  BY <1>1, <1>3 DEF Ends
<1>4. CASE a # "refused" /\ task[p].op # "put"
  BY <1>1, <1>4 DEF Ends
<1>5. QED
  BY <1>2, <1>3, <1>4

LEMMA AgentStays ==
    ASSUME TypeOK, UNCHANGED agent
    PROVE  AgentTyped'
BY DEF TypeOK, AgentTyped

\* A call that goes on or ends where the agent's config is left alone.
LEMMA GoesOn ==
    ASSUME IInv, NEW p \in Processes, task[p] # Idle, NEW t \in Call,
           task' = [task EXCEPT ![p] = t],
           t.vault = task[p].vault, t.alone = task[p].alone,
           CallFits(t), CallRecords(t), task[p].alone => Course(t)', kind # "memory",
           Stays, NoAgent, NoMemory, UNCHANGED <<answer, promised>>,
           Entries', KeysAreKeys', Elsewhere(task[p].vault)
    PROVE  IInv'
<1>1. Records'
  BY RecordsStay DEF IInv, Stays, NoAgent
<1>2. Memory'
  BY NoTimers DEF IInv, Stays, NoMemory
<1>3. AgentTyped'
  BY AgentStays DEF IInv, NoAgent
<1>4. UNCHANGED <<kind, now, setting, steady, timer, late, answer, promised, calls>>
  BY DEF Stays, NoMemory
<1>5. QED
  BY <1>1, <1>2, <1>3, <1>4, Continues

LEMMA ComesBack ==
    ASSUME IInv, NEW p \in Processes, task[p] # Idle, NEW a \in {"ok", "refused"}, Ends(p, a),
           NEW u, u = task[p].vault, NEW end, end = promised'[u],
           task[p].alone => Good(u, end)', kind # "memory",
           Stays, NoAgent, NoMemory, Entries', KeysAreKeys', Elsewhere(u)
    PROVE  IInv'
<1>1. Records'
  <2>1. task' = [task EXCEPT ![p] = Idle]
    BY DEF Ends
  <2>2. QED
    BY <2>1, RecordsStay DEF IInv, Stays, NoAgent
<1>2. Memory'
  BY NoTimers DEF IInv, Stays, NoMemory
<1>3. AgentTyped'
  BY AgentStays DEF IInv, NoAgent
<1>4. UNCHANGED <<kind, now, setting, steady, calls>> /\ timer' \in Nat \cup {None} /\ late' \subseteq Nat
  BY DEF Stays, NoMemory, IInv, TypeOK
<1>5. QED
  BY <1>1, <1>2, <1>3, <1>4, Finishes

\* A put that takes back what it did.
LEMMA TakesBack ==
    ASSUME IInv, NEW p \in Processes, task[p] # Idle, kind \in {"keyctl", "gpg-agent"}, Undo(p),
           Stays, NoAgent, NoMemory, Entries', KeysAreKeys', Elsewhere(task[p].vault)
    PROVE  IInv'
<1>0. PICK t : t = [task[p] EXCEPT !.pc = FirstStep("clear"), !.op = "undo"]
  OBVIOUS
<1>1. FirstStep("clear") = IF kind = "keyctl" THEN "dropKey" ELSE "clearBoth"
  BY DEF FirstStep
<1>2. task[p] \in Call /\ CallFits(task[p])
  BY TypesOf DEF IInv, Fits
<1>3. t \in Call
  BY <1>0, <1>1, <1>2 DEF Call, Steps
<1>4. /\ t.pc = FirstStep("clear") /\ t.op = "undo"
      /\ t.vault = task[p].vault /\ t.alone = task[p].alone /\ t.ttl = task[p].ttl
  BY <1>0, <1>2 DEF Call
<1>5. CallFits(t) /\ CallRecords(t)
  BY <1>1, <1>2, <1>4 DEF CallFits, CallRecords, Puts
<1>6. Course(t)'
  BY <1>1, <1>4 DEF Course
<1>7. task' = [task EXCEPT ![p] = t] /\ UNCHANGED <<answer, promised>>
  BY <1>0 DEF Undo
<1>8. QED
  BY <1>3, <1>4, <1>5, <1>6, <1>7, GoesOn

-----------------------------------------------------------------------------
(* The steps of the kernel's holder *)

LEMMA CheckDeniedStep ==
    ASSUME IInv, NEW p \in Processes, CheckDenied(p)
    PROVE  IInv'
<1>1. task[p] # Idle /\ kind = "keyctl" /\ task[p].op = "put" /\ task[p].pc = "dropKey"
  BY DEF CheckDenied, At, Idle
<1>2. PICK u, end : u = task[p].vault /\ end = promised'[u]
  OBVIOUS
<1>3. Ends(p, "refused") /\ Stays /\ NoAgent /\ NoMemory /\ UNCHANGED entry
  BY DEF CheckDenied
<1>4. task[p].alone => Good(u, end)'
  <2>1. SUFFICES ASSUME task[p].alone PROVE Good(u, end)'
    OBVIOUS
  <2>2. end = task[p].was
    BY <1>1, <1>2, <1>3, <2>1, EndsWith DEF IInv
  <2>3. Good(u, end)
    BY <1>1, <1>2, <2>1, <2>2 DEF IInv, Promises, Course
  <2>4. QED
    BY <1>3, <2>3 DEF Good, Stays
<1>5. Entries' /\ KeysAreKeys' /\ Elsewhere(u)
  BY <1>3, NothingIsSet DEF IInv, NoAgent
<1>6. QED
  BY <1>1, <1>2, <1>3, <1>4, <1>5, ComesBack

LEMMA UnlinkKeyStep ==
    ASSUME IInv, NEW p \in Processes, UnlinkKey(p)
    PROVE  IInv'
<1>1. task[p] # Idle /\ task[p].pc = "dropKey"
  BY DEF UnlinkKey, At, Idle
<1>2. PICK t : t = [task[p] EXCEPT !.pc = "dropExpiry"]
  OBVIOUS
<1>3. task[p] \in Call /\ CallFits(task[p]) /\ task[p].vault \in Vaults
  BY <1>1, TypesOf DEF IInv, Fits
<1>4. t \in Call /\ t.pc = "dropExpiry" /\ t.vault = task[p].vault /\ t.alone = task[p].alone
      /\ t.op = task[p].op /\ t.key = task[p].key /\ t.ttl = task[p].ttl
  BY <1>2, <1>3 DEF Call, Steps
<1>5. CallFits(t) /\ CallRecords(t) /\ kind = "keyctl"
  BY <1>1, <1>3, <1>4 DEF CallFits, CallRecords, Puts
<1>6. entry' = [entry EXCEPT !["key"][t.vault] = None]
  BY <1>4 DEF UnlinkKey, Without
<1>7. Entries' /\ KeysAreKeys' /\ Elsewhere(task[p].vault) /\ entry'["key"][t.vault] = None
  <2>1. TypeOK /\ "key" \in Parts /\ t.vault \in Vaults
    BY <1>3, <1>4 DEF IInv, Parts
  <2>2. Entries' /\ KeysAreKeys' /\ Elsewhere(t.vault) /\ entry'["key"][t.vault] = None
    BY <1>6, <2>1, OneIsSet DEF UnlinkKey, NoAgent
  <2>3. QED
    BY <1>4, <2>2 DEF Elsewhere
<1>8. Course(t)'
  BY <1>4, <1>7 DEF Course
<1>9. task' = [task EXCEPT ![p] = t] /\ UNCHANGED <<answer, promised>>
      /\ Stays /\ NoAgent /\ NoMemory
  BY <1>2 DEF UnlinkKey, Goto
<1>10. QED
  BY <1>1, <1>4, <1>5, <1>7, <1>8, <1>9, GoesOn

LEMMA UnlinkExpiryStep ==
    ASSUME IInv, NEW p \in Processes, UnlinkExpiry(p)
    PROVE  IInv'
<1>1. task[p] # Idle /\ task[p].pc = "dropExpiry"
  BY DEF UnlinkExpiry, At, Idle
<1>2. task[p] \in Call /\ CallFits(task[p]) /\ task[p].vault \in Vaults /\ kind = "keyctl"
      /\ task[p].op \in {"put", "clear", "undo"}
  BY <1>1, TypesOf DEF IInv, Fits, CallFits
<1>3. PICK u : u = task[p].vault
  OBVIOUS
<1>4. Stays /\ NoAgent /\ NoMemory /\ entry' = [entry EXCEPT !["expiry"][u] = None]
  BY <1>3 DEF UnlinkExpiry, Without
<1>5. Entries' /\ KeysAreKeys' /\ Elsewhere(u) /\ entry'["key"] = entry["key"]
  BY <1>2, <1>3, <1>4, OneIsSet DEF IInv, Parts, NoAgent
<1>6. CASE task[p].op = "put"
  <2>1. PICK t : t = [task[p] EXCEPT !.pc = "addKey"]
    OBVIOUS
  <2>2. t \in Call /\ t.pc = "addKey" /\ t.vault = task[p].vault /\ t.alone = task[p].alone
        /\ t.op = task[p].op /\ t.key = task[p].key /\ t.ttl = task[p].ttl
    BY <1>2, <2>1 DEF Call, Steps
  <2>3. CallFits(t) /\ CallRecords(t) /\ Course(t)'
    BY <1>2, <1>6, <2>2 DEF CallFits, CallRecords, Puts, Course
  <2>4. task' = [task EXCEPT ![p] = t] /\ UNCHANGED <<answer, promised>>
    BY <1>6, <2>1 DEF UnlinkExpiry, Goto
  <2>5. QED
    BY <1>1, <1>2, <1>3, <1>4, <1>5, <2>2, <2>3, <2>4, GoesOn
<1>7. CASE task[p].op # "put"
  <2>1. PICK a \in {"ok", "refused"} : Ends(p, a)
    BY <1>2, <1>7 DEF UnlinkExpiry
  <2>2. task[p].alone => entry'["key"][u] = None
    BY <1>1, <1>3, <1>5 DEF IInv, Promises, Course
  <2>3. PICK end : end = promised'[u]
    OBVIOUS
  <2>4. task[p].alone => Good(u, end)'
    BY <2>2 DEF Good
  <2>5. QED
    BY <1>1, <1>2, <1>3, <1>4, <1>5, <2>1, <2>3, <2>4, ComesBack
<1>8. QED
  BY <1>6, <1>7

LEMMA AddStep ==
    ASSUME IInv, NEW p \in Processes, Add(p)
    PROVE  IInv'
<1>1. task[p] # Idle /\ task[p].pc \in {"addKey", "addExpiry"}
  BY DEF Add, Idle
<1>2. PICK u, part, id, next :
        /\ u = task[p].vault /\ part = PartOf(p)
        /\ id = IF entry[part][u] = None THEN FreeId ELSE entry[part][u].id
        /\ next = IF part = "key" THEN "endKey" ELSE "endExpiry"
  OBVIOUS
<1>3. part = IF task[p].pc = "addKey" THEN "key" ELSE "expiry"
  BY <1>1, <1>2 DEF PartOf
<1>4. task[p] \in Call /\ CallFits(task[p]) /\ u \in Vaults /\ part \in Parts /\ kind = "keyctl"
      /\ task[p].op = "put" /\ task[p].ttl \in Nat
  BY <1>1, <1>2, <1>3, TypesOf DEF IInv, Fits, CallFits, Parts, Puts
<1>5. id \in Nat \cup {None}
  BY <1>2, <1>4, FreeIdIsFree, EntryTyped DEF IInv
<1>6. PICK x : x = [value |-> Payload(p), id |-> id, ends |-> Never]
  OBVIOUS
<1>7. /\ entry' = [entry EXCEPT ![part][u] = x]
      /\ task' = [task EXCEPT ![p].pc = next, ![p].id = id]
      /\ Stays /\ NoAgent /\ NoMemory /\ UNCHANGED <<answer, promised>>
  BY <1>2, <1>6 DEF Add
<1>8. Payload(p) \in Keys \cup Nat /\ (part = "key" => Payload(p) \in Keys)
  <2>1. CASE part = "key"
    BY <1>2, <1>4, <2>1 DEF Payload, CallFits
  <2>2. CASE part # "key"
    <3>1. Payload(p) = now + task[p].ttl /\ now \in Nat
      BY <1>2, <2>2 DEF Payload, IInv, TypeOK
    <3>2. QED
      BY <1>4, <2>2, <3>1
  <2>3. QED
    BY <2>1, <2>2
<1>9. x \in Stored(Keys \cup Nat) /\ x # None /\ x.value = Payload(p) /\ x.ends = Never
  BY <1>5, <1>6, <1>8, StoredIsThere
<1>10. /\ Entries' /\ KeysAreKeys' /\ Elsewhere(u) /\ entry'[part][u] = x
       /\ part # "key" => entry'["key"] = entry["key"]
  <2>1. /\ TypeOK /\ part \in Parts /\ u \in Vaults /\ x \in Stored(Keys \cup Nat) \cup {None}
        /\ part = "key" => x = None \/ x.value \in Keys
        /\ entry' = [entry EXCEPT ![part][u] = x]
    BY <1>4, <1>7, <1>8, <1>9 DEF IInv
  <2>2. agent'["runs"] = agent["runs"]
    BY <1>7 DEF NoAgent
  <2>3. /\ Entries' /\ KeysAreKeys' /\ Elsewhere(u) /\ entry'[part][u] = x
        /\ \A other \in Parts \ {part} : entry'[other] = entry[other]
    BY <2>1, <2>2, OneIsSet
  <2>4. QED
    BY <2>3 DEF Parts
<1>11. PICK t : t = [task[p] EXCEPT !.pc = next, !.id = id]
  OBVIOUS
<1>12. t \in Call /\ t.pc = next /\ t.vault = u /\ t.alone = task[p].alone
       /\ t.op = task[p].op /\ t.key = task[p].key /\ t.ttl = task[p].ttl
  BY <1>2, <1>4, <1>5, <1>11 DEF Call, Steps
<1>13. CallFits(t) /\ CallRecords(t)
  BY <1>2, <1>4, <1>12 DEF CallFits, CallRecords, Puts
<1>14. task[p].alone => Course(t)'
  <2>1. CASE task[p].pc = "addKey"
    BY <1>2, <1>3, <1>12, <2>1 DEF Course
  <2>2. CASE task[p].pc = "addExpiry"
    <3>1. task[p].alone => Course(task[p])
      BY <1>1 DEF IInv, Promises
    <3>2. entry'["key"] = entry["key"] /\ now' = now
      BY <1>3, <1>7, <1>10, <2>2 DEF Stays
    <3>3. t.pc = "endExpiry"
      BY <1>2, <1>3, <1>12, <2>2
    <3>4. QED
      BY <1>2, <1>12, <2>2, <3>1, <3>2, <3>3 DEF Course
  <2>3. QED
    BY <1>1, <2>1, <2>2
<1>15. task' = [task EXCEPT ![p] = t]
  BY <1>7, <1>11 DEF IInv, TypeOK
<1>16. QED
  BY <1>1, <1>2, <1>4, <1>7, <1>10, <1>12, <1>13, <1>14, <1>15, GoesOn

LEMMA AddFailsStep ==
    ASSUME IInv, NEW p \in Processes, AddFails(p)
    PROVE  IInv'
<1>1. task[p] # Idle /\ task[p].pc \in {"addKey", "addExpiry"}
  BY DEF AddFails, Idle
<1>2. kind = "keyctl"
  BY <1>1 DEF IInv, Fits, CallFits
<1>3. Entries' /\ KeysAreKeys' /\ Elsewhere(task[p].vault)
  BY NothingIsSet DEF AddFails, IInv, NoAgent
<1>4. QED
  BY <1>1, <1>2, <1>3, TakesBack DEF AddFails

\* The key is linked, so it gets the end of this put; nobody else may have put its own.
LEMMA SetTimeoutStep ==
    ASSUME IInv, NEW p \in Processes, SetTimeout(p)
    PROVE  IInv'
<1>1. task[p] # Idle /\ task[p].pc \in {"endKey", "endExpiry"}
  BY DEF SetTimeout, Idle
<1>2. PICK u, part, e, stop :
        u = task[p].vault /\ part = PartOf(p) /\ e = entry[part][u] /\ stop = now + task[p].ttl
  OBVIOUS
<1>3. part = IF task[p].pc = "endKey" THEN "key" ELSE "expiry"
  BY <1>1, <1>2 DEF PartOf
<1>4. task[p] \in Call /\ CallFits(task[p]) /\ u \in Vaults /\ part \in Parts /\ kind = "keyctl"
      /\ task[p].op = "put" /\ task[p].ttl \in Nat
  BY <1>1, <1>2, <1>3, TypesOf DEF IInv, Fits, CallFits, Parts, Puts
<1>5. now \in Nat /\ stop \in Nat
  <2>1. now \in Nat
    BY DEF IInv, TypeOK
  <2>2. QED
    BY <1>2, <1>4, <2>1
<1>6. e # None
  BY <1>2 DEF SetTimeout, Linked
<1>7. e \in Stored(Keys \cup Nat) /\ (part = "key" => e.value \in Keys)
  <2>1. e \in Stored(Keys \cup Nat)
    BY <1>2, <1>4, <1>6, EntryTyped DEF IInv
  <2>2. part = "key" => e.value \in Keys
    BY <1>2, <1>4, <1>6 DEF IInv, TypeOK
  <2>3. QED
    BY <2>1, <2>2
<1>8. PICK x : x = [e EXCEPT !.ends = stop]
  OBVIOUS
<1>9. x \in Stored(Keys \cup Nat) /\ x # None /\ x.value = e.value /\ x.ends = stop
  <2>1. x \in Stored(Keys \cup Nat) /\ x.value = e.value /\ x.ends = stop
    BY <1>5, <1>7, <1>8 DEF Stored
  <2>2. QED
    BY <2>1, NoneIsNothing
<1>10. entry' = [entry EXCEPT ![part][u] = x]
  BY <1>2, <1>8 DEF SetTimeout
<1>11. /\ Entries' /\ KeysAreKeys' /\ Elsewhere(u) /\ entry'[part][u] = x
       /\ part # "key" => entry'["key"] = entry["key"]
  <2>1. /\ TypeOK /\ part \in Parts /\ u \in Vaults /\ x \in Stored(Keys \cup Nat) \cup {None}
        /\ part = "key" => x = None \/ x.value \in Keys
        /\ entry' = [entry EXCEPT ![part][u] = x]
    BY <1>4, <1>7, <1>9, <1>10 DEF IInv
  <2>2. agent'["runs"] = agent["runs"]
    BY DEF SetTimeout, NoAgent
  <2>3. /\ Entries' /\ KeysAreKeys' /\ Elsewhere(u) /\ entry'[part][u] = x
        /\ \A other \in Parts \ {part} : entry'[other] = entry[other]
    BY <2>1, <2>2, OneIsSet
  <2>4. QED
    BY <2>3 DEF Parts
<1>12. CASE task[p].pc = "endKey"
  <2>1. PICK t : t = [task[p] EXCEPT !.pc = "addExpiry"]
    OBVIOUS
  <2>2. t \in Call /\ t.pc = "addExpiry" /\ t.vault = u /\ t.alone = task[p].alone
        /\ t.op = task[p].op /\ t.key = task[p].key /\ t.ttl = task[p].ttl
    BY <1>2, <1>4, <2>1 DEF Call, Steps
  <2>3. CallFits(t) /\ CallRecords(t)
    BY <1>4, <2>2 DEF CallFits, CallRecords, Puts
  <2>4. Course(t)'
    <3>1. entry'["key"][u].ends = stop /\ now' = now
      BY <1>3, <1>9, <1>11, <1>12 DEF SetTimeout, Stays
    <3>2. QED
      BY <1>2, <1>5, <2>2, <3>1 DEF Course
  <2>5. task' = [task EXCEPT ![p] = t] /\ UNCHANGED <<answer, promised>>
        /\ Stays /\ NoAgent /\ NoMemory
    BY <1>2, <1>3, <1>12, <2>1 DEF SetTimeout, Goto
  <2>6. QED
    BY <1>1, <1>2, <1>4, <1>11, <2>2, <2>3, <2>4, <2>5, GoesOn
<1>13. CASE task[p].pc = "endExpiry"
  <2>1. Ends(p, "ok") /\ Stays /\ NoAgent /\ NoMemory
    BY <1>2, <1>3, <1>13 DEF SetTimeout
  <2>2. PICK end : end = promised'[u]
    OBVIOUS
  <2>3. task[p].alone => Good(u, end)'
    <3>1. SUFFICES ASSUME task[p].alone PROVE Good(u, end)'
      OBVIOUS
    <3>2. end = stop
      BY <1>1, <1>2, <1>4, <2>1, <2>2, <3>1, EndsWith DEF IInv
    <3>3. entry["key"][u] # None => entry["key"][u].ends \in 0..stop
      <4>1. Course(task[p])
        BY <1>1, <3>1 DEF IInv, Promises
      <4>2. QED
        BY <1>2, <1>13, <4>1 DEF Course
    <3>4. /\ entry'["key"] = entry["key"]
          /\ entry'["expiry"][u] # None /\ entry'["expiry"][u].ends = stop
      BY <1>3, <1>9, <1>11, <1>13
    <3>5. stop # Never
      BY <1>5, HoldersAssumption
    <3>6. QED
      BY <1>5, <3>2, <3>3, <3>4, <3>5 DEF Good
  <2>4. QED
    BY <1>1, <1>2, <1>4, <1>11, <2>1, <2>2, <2>3, ComesBack
<1>14. QED
  BY <1>1, <1>12, <1>13

LEMMA TimeoutFailsStep ==
    ASSUME IInv, NEW p \in Processes, TimeoutFails(p)
    PROVE  IInv'
<1>0. UNCHANGED agent
  BY DEF TimeoutFails, NoAgent
<1>1. task[p] # Idle /\ task[p].pc \in {"endKey", "endExpiry"}
  BY DEF TimeoutFails, Idle
<1>2. kind = "keyctl" /\ task[p].vault \in Vaults /\ PartOf(p) \in Parts
  BY <1>1, TypesOf DEF IInv, Fits, CallFits, PartOf, Parts
<1>3. Entries' /\ KeysAreKeys' /\ Elsewhere(task[p].vault)
  <2>1. PICK u, part : u = task[p].vault /\ part = PartOf(p)
    OBVIOUS
  <2>2. CASE UNCHANGED entry
    BY <1>0, <2>2, NothingIsSet DEF IInv
  <2>3. CASE entry' = Without(part, u)
    <3>1. TypeOK /\ entry' = [entry EXCEPT ![part][u] = None]
      BY <2>3 DEF Without, IInv
    <3>2. Entries' /\ KeysAreKeys' /\ Elsewhere(u)
      BY <1>0, <1>2, <2>1, <3>1, OneIsSet
    <3>3. QED
      BY <2>1, <3>2
  <2>4. QED
    BY <2>1, <2>2, <2>3 DEF TimeoutFails
<1>4. QED
  BY <1>1, <1>2, <1>3, TakesBack DEF TimeoutFails

-----------------------------------------------------------------------------
(* The steps of the agent's holder *)

LEMMA AgentOf ==
    ASSUME TypeOK
    PROVE  /\ agent \in [{"conf", "loaded", "runs"} -> Durations \cup {None}]
           /\ agent["conf"] \in Durations \cup {None} /\ setting \in Durations
           /\ \A f \in {"conf", "loaded", "runs"}, d \in Durations \cup {None} :
                [agent EXCEPT ![f] = d] \in [{"conf", "loaded", "runs"} -> Durations \cup {None}]
BY DEF TypeOK

LEMMA WriteConfStep ==
    ASSUME IInv, NEW p \in Processes, WriteConf(p)
    PROVE  IInv'
<1>1. task[p] # Idle /\ task[p].pc = "conf"
  BY DEF WriteConf, At, Idle
<1>2. task[p] \in Call /\ CallFits(task[p]) /\ kind = "gpg-agent" /\ task[p].op = "put"
      /\ task[p].ttl \in Durations /\ task[p].ttl # None /\ (steady => task[p].ttl = setting)
  BY <1>1, TypesOf, HoldersAssumption DEF IInv, Fits, CallFits, Puts
<1>3. PICK next : next = IF NeedsReload(p) THEN "reload" ELSE "presetKey"
  OBVIOUS
<1>4. PICK t : t = [task[p] EXCEPT !.pc = next]
  OBVIOUS
<1>5. t \in Call /\ t.pc = next /\ t.vault = task[p].vault /\ t.alone = task[p].alone
      /\ t.op = task[p].op /\ t.key = task[p].key /\ t.ttl = task[p].ttl /\ t.was = task[p].was
  BY <1>2, <1>3, <1>4 DEF Call, Steps
<1>6. /\ task' = [task EXCEPT ![p] = t] /\ agent' = [agent EXCEPT !["conf"] = task[p].ttl]
      /\ UNCHANGED <<kind, now, setting, steady, timer, late, answer, promised, calls, entry>>
  BY <1>2, <1>3, <1>4 DEF WriteConf, Goto, Stays, NoMemory
<1>7. CallFits(t)
  BY <1>2, <1>3, <1>5 DEF CallFits, Puts
<1>8. task[p].alone => Course(t)'
  <2>1. task[p].alone => Good(t.vault, t.was)
    BY <1>1, <1>2, <1>5 DEF IInv, Promises, Course
  <2>2. Good(t.vault, t.was) => Good(t.vault, t.was)'
    BY <1>6 DEF Good
  <2>3. QED
    BY <1>3, <1>5, <2>1, <2>2 DEF Course
<1>9. /\ agent'["conf"] = task[p].ttl /\ agent'["loaded"] = agent["loaded"]
      /\ agent'["runs"] = agent["runs"] /\ AgentTyped'
  BY <1>2, <1>6, AgentOf DEF IInv, AgentTyped
<1>10. Records'
  <2>1. steady /\ agent["loaded"] = setting => agent["runs"] = setting
    BY <1>2 DEF IInv, Records, Recorded
  <2>2. CallRecords(t)'
    <3>1. agent["loaded"] # None => agent["runs"] # None
      BY DEF IInv, Records
    <3>2. QED
      BY <1>2, <1>3, <1>5, <1>6, <1>9, <3>1 DEF CallRecords, NeedsReload
  <2>3. \A q \in Processes \ {p} : task[q] # Idle => CallRecords(task[q])'
    <3>1. \A q \in Processes \ {p} : task'[q] = task[q]
      BY <1>6
    <3>2. QED
      BY <1>2, <1>6, <1>9, <3>1 DEF IInv, Records, CallRecords
  <2>4. \A q \in Processes : task'[q] = IF q = p THEN t ELSE task[q]
    BY <1>6 DEF IInv, TypeOK
  <2>5. QED
    BY <1>2, <1>6, <1>9, <2>1, <2>2, <2>3, <2>4 DEF IInv, Records, Recorded
<1>11. Memory'
  BY <1>2, <1>6, NoTimers DEF IInv
<1>12. Entries' /\ KeysAreKeys' /\ Elsewhere(task[p].vault)
  BY <1>6, <1>9, NothingIsSet DEF IInv
<1>13. QED
  BY <1>1, <1>5, <1>6, <1>7, <1>8, <1>9, <1>10, <1>11, <1>12, Continues

LEMMA ReloadStep ==
    ASSUME IInv, NEW p \in Processes, Reload(p)
    PROVE  IInv'
<1>1. task[p] # Idle /\ task[p].pc = "reload"
  BY DEF Reload, At, Idle
<1>2. task[p] \in Call /\ CallFits(task[p]) /\ kind = "gpg-agent" /\ task[p].op = "put"
      /\ agent["conf"] # None /\ (steady => agent["conf"] = setting)
  BY <1>1, TypesOf DEF IInv, Fits, CallFits, Puts, Records, CallRecords
<1>3. /\ agent' = [agent EXCEPT !["runs"] = agent["conf"]] /\ entry' = Empty
      /\ UNCHANGED <<kind, now, setting, steady, timer, late, calls>>
  BY <1>2 DEF Reload, Stays, NoMemory
<1>4. /\ agent'["conf"] = agent["conf"] /\ agent'["loaded"] = agent["loaded"]
      /\ agent'["runs"] = agent["conf"] /\ AgentTyped'
  BY <1>3, AgentOf DEF IInv, AgentTyped
<1>5. /\ Entries' /\ KeysAreKeys' /\ Elsewhere(task[p].vault)
      /\ \A v \in Vaults : \A end : Good(v, end)'
  BY <1>3, AllIsGone DEF IInv
<1>6. \A q \in Processes : task[q] # Idle => CallRecords(task[q])
  BY DEF IInv, Records
<1>7. \A t : CallRecords(t) => CallRecords(t)'
  BY <1>2, <1>3, <1>4 DEF CallRecords
<1>8. Memory'
  BY <1>2, <1>3, NoTimers DEF IInv
<1>9. CASE Goto(p, "record")
  <2>1. PICK t : t = [task[p] EXCEPT !.pc = "record"]
    OBVIOUS
  <2>2. t \in Call /\ t.pc = "record" /\ t.vault = task[p].vault /\ t.alone = task[p].alone
        /\ t.op = task[p].op /\ t.key = task[p].key /\ t.ttl = task[p].ttl
    BY <1>2, <2>1 DEF Call, Steps
  <2>3. task' = [task EXCEPT ![p] = t] /\ UNCHANGED <<answer, promised>>
    BY <1>9, <2>1 DEF Goto
  <2>4. CallFits(t) /\ CallRecords(t)'
    BY <1>2, <1>3, <1>4, <2>2 DEF CallFits, CallRecords, Puts
  <2>5. Course(t)'
    <3>1. t.vault \in Vaults
      BY <2>2 DEF Call
    <3>2. Good(t.vault, t.was)'
      BY <1>5, <3>1
    <3>3. QED
      BY <2>2, <3>2 DEF Course
  <2>6. Records'
    <3>1. \A q \in Processes : task'[q] = IF q = p THEN t ELSE task[q]
      BY <2>3 DEF IInv, TypeOK
    <3>2. \A q \in Processes : task'[q] # Idle => CallRecords(task[q])'
      BY <1>6, <1>7, <2>4, <3>1 DEF CallRecords
    <3>3. QED
      BY <1>2, <1>3, <1>4, <3>2 DEF IInv, Records, Recorded
  <2>7. QED
    BY <1>1, <1>3, <1>4, <1>5, <1>8, <2>2, <2>3, <2>4, <2>5, <2>6, Continues
<1>10. CASE Ends(p, "refused")
  <2>1. PICK u, end : u = task[p].vault /\ end = promised'[u]
    OBVIOUS
  <2>2. Good(u, end)'
    BY <1>1, <1>5, <2>1, TypesOf DEF IInv
  <2>3. \A q \in Processes : task'[q] = IF q = p THEN Idle ELSE task[q]
    BY <1>10 DEF Ends, IInv, TypeOK
  <2>4. Records'
    <3>1. \A q \in Processes : task'[q] # Idle => CallRecords(task[q])'
      BY <1>6, <1>7, <2>3 DEF CallRecords
    <3>2. QED
      BY <1>2, <1>3, <1>4, <3>1 DEF IInv, Records, Recorded
  <2>5. timer' \in Nat \cup {None} /\ late' \subseteq Nat
    BY <1>3 DEF IInv, TypeOK
  <2>6. Elsewhere(u)
    BY <1>5, <2>1
  <2>7. QED
    BY <1>1, <1>3, <1>4, <1>5, <1>8, <1>10, <2>1, <2>2, <2>4, <2>5, <2>6, Finishes
<1>11. QED
  BY <1>9, <1>10 DEF Reload

\* Nothing is touched, so what was promised stays so.
LEMMA KeepsWhatWas ==
    ASSUME IInv, NEW p \in Processes, task[p] # Idle, task[p].op = "put",
           task[p].pc \in {"reload", "presetKey"}, Ends(p, "refused"), Stays, NoAgent, NoMemory,
           UNCHANGED entry
    PROVE  IInv'
<1>1. kind = "gpg-agent"
  BY DEF IInv, Fits, CallFits
<1>2. PICK u, end : u = task[p].vault /\ end = promised'[u]
  OBVIOUS
<1>3. task[p].alone => Good(u, end)'
  <2>1. SUFFICES ASSUME task[p].alone PROVE Good(u, end)'
    OBVIOUS
  <2>2. end = task[p].was
    BY <1>2, <2>1, EndsWith DEF IInv
  <2>3. Good(u, end)
    BY <1>2, <2>1, <2>2 DEF IInv, Promises, Course
  <2>4. QED
    BY <2>3 DEF Good, Stays
<1>4. Entries' /\ KeysAreKeys' /\ Elsewhere(u)
  BY NothingIsSet DEF IInv, NoAgent
<1>5. QED
  BY <1>1, <1>2, <1>3, <1>4, ComesBack

LEMMA ReloadFailsStep ==
    ASSUME IInv, NEW p \in Processes, ReloadFails(p)
    PROVE  IInv'
<1>1. task[p] # Idle /\ task[p].pc = "reload"
  BY DEF ReloadFails, At, Idle
<1>2. task[p].op = "put"
  BY <1>1 DEF IInv, Fits, CallFits, Puts
<1>3. QED
  BY <1>1, <1>2, KeepsWhatWas DEF ReloadFails

LEMMA RecordLoadedStep ==
    ASSUME IInv, NEW p \in Processes, RecordLoaded(p)
    PROVE  IInv'
<1>1. task[p] # Idle /\ task[p].pc = "record"
  BY DEF RecordLoaded, At, Idle
<1>2. task[p] \in Call /\ CallFits(task[p]) /\ kind = "gpg-agent" /\ task[p].op = "put"
      /\ task[p].ttl \in Durations /\ agent["conf"] # None /\ agent["runs"] # None
      /\ (steady => task[p].ttl = setting /\ agent["conf"] = setting /\ agent["runs"] = setting)
  BY <1>1, TypesOf DEF IInv, Fits, CallFits, Puts, Records, CallRecords
<1>3. PICK t : t = [task[p] EXCEPT !.pc = "presetKey"]
  OBVIOUS
<1>4. t \in Call /\ t.pc = "presetKey" /\ t.vault = task[p].vault /\ t.alone = task[p].alone
      /\ t.op = task[p].op /\ t.key = task[p].key /\ t.ttl = task[p].ttl /\ t.was = task[p].was
  BY <1>2, <1>3 DEF Call, Steps
<1>5. /\ task' = [task EXCEPT ![p] = t] /\ agent' = [agent EXCEPT !["loaded"] = task[p].ttl]
      /\ UNCHANGED <<kind, now, setting, steady, timer, late, answer, promised, calls, entry>>
  BY <1>2, <1>3 DEF RecordLoaded, Goto, Stays, NoMemory
<1>6. CallFits(t)
  BY <1>2, <1>4 DEF CallFits, Puts
<1>7. task[p].alone => Course(t)'
  <2>1. task[p].alone => Good(t.vault, t.was)
    BY <1>1, <1>2, <1>4 DEF IInv, Promises, Course
  <2>2. Good(t.vault, t.was) => Good(t.vault, t.was)'
    BY <1>5 DEF Good
  <2>3. QED
    BY <1>4, <2>1, <2>2 DEF Course
<1>8. /\ agent'["conf"] = agent["conf"] /\ agent'["loaded"] = task[p].ttl
      /\ agent'["runs"] = agent["runs"] /\ AgentTyped'
  BY <1>2, <1>5, AgentOf DEF IInv, AgentTyped
<1>9. Records'
  <2>1. CallRecords(t)'
    BY <1>2, <1>4, <1>5, <1>8 DEF CallRecords
  <2>2. \A q \in Processes : task'[q] = IF q = p THEN t ELSE task[q]
    BY <1>5 DEF IInv, TypeOK
  <2>3. QED
    BY <1>2, <1>5, <1>8, <2>1, <2>2 DEF IInv, Records, Recorded, CallRecords
<1>10. Memory'
  BY <1>2, <1>5, NoTimers DEF IInv
<1>11. Entries' /\ KeysAreKeys' /\ Elsewhere(task[p].vault)
  BY <1>5, <1>8, NothingIsSet DEF IInv
<1>12. QED
  BY <1>1, <1>4, <1>5, <1>6, <1>7, <1>8, <1>9, <1>10, <1>11, Continues

\* Both entries get the duration the agent runs, which in steady settings is this put's.
LEMMA PresetStep ==
    ASSUME IInv, NEW p \in Processes, Preset(p)
    PROVE  IInv'
<1>1. task[p] # Idle /\ task[p].pc \in {"presetKey", "presetExpiry"}
  BY DEF Preset, Idle
<1>2. PICK u, part, stop :
        u = task[p].vault /\ part = PartOf(p) /\ stop = now + agent["runs"]
  OBVIOUS
<1>3. part = IF task[p].pc = "presetKey" THEN "key" ELSE "expiry"
  BY <1>1, <1>2 DEF PartOf
<1>4. task[p] \in Call /\ CallFits(task[p]) /\ u \in Vaults /\ part \in Parts
      /\ kind = "gpg-agent" /\ task[p].op = "put" /\ task[p].ttl \in Nat
  BY <1>1, <1>2, <1>3, TypesOf DEF IInv, Fits, CallFits, Parts, Puts
<1>5. now \in Nat /\ stop \in Nat /\ EntryEnd = stop
  <2>1. now \in Nat
    BY DEF IInv, TypeOK
  <2>2. agent["runs"] # None /\ agent["runs"] \in Nat
    BY <1>1, HoldersAssumption DEF IInv, TypeOK, Records, CallRecords
  <2>3. QED
    BY <1>2, <2>1, <2>2 DEF EntryEnd
<1>6. steady => agent["runs"] = task[p].ttl
  BY <1>1, <1>4 DEF IInv, Fits, CallFits, Records, Recorded, CallRecords
<1>7. Payload(p) \in Keys \cup Nat /\ (part = "key" => Payload(p) \in Keys)
  <2>1. CASE part = "key"
    BY <1>2, <1>4, <2>1 DEF Payload, CallFits
  <2>2. CASE part # "key"
    <3>1. Payload(p) = now + task[p].ttl
      BY <1>2, <2>2 DEF Payload
    <3>2. QED
      BY <1>4, <1>5, <2>2, <3>1
  <2>3. QED
    BY <2>1, <2>2
<1>8. PICK x : x = [value |-> Payload(p), id |-> None, ends |-> stop]
  OBVIOUS
<1>9. x \in Stored(Keys \cup Nat) /\ x # None /\ x.value = Payload(p) /\ x.ends = stop
  BY <1>5, <1>7, <1>8, StoredIsThere
<1>10. entry' = [entry EXCEPT ![part][u] = x] /\ UNCHANGED agent
  BY <1>2, <1>5, <1>8 DEF Preset, NoAgent
<1>11. /\ Entries' /\ KeysAreKeys' /\ Elsewhere(u) /\ entry'[part][u] = x
       /\ part # "key" => entry'["key"] = entry["key"]
  <2>1. /\ TypeOK /\ part \in Parts /\ u \in Vaults /\ x \in Stored(Keys \cup Nat) \cup {None}
        /\ part = "key" => x = None \/ x.value \in Keys
        /\ entry' = [entry EXCEPT ![part][u] = x] /\ agent'["runs"] = agent["runs"]
    BY <1>4, <1>7, <1>9, <1>10 DEF IInv
  <2>2. /\ Entries' /\ KeysAreKeys' /\ Elsewhere(u) /\ entry'[part][u] = x
        /\ \A other \in Parts \ {part} : entry'[other] = entry[other]
    BY <2>1, OneIsSet
  <2>3. QED
    BY <2>2 DEF Parts
<1>12. CASE task[p].pc = "presetKey"
  <2>1. PICK t : t = [task[p] EXCEPT !.pc = "presetExpiry"]
    OBVIOUS
  <2>2. t \in Call /\ t.pc = "presetExpiry" /\ t.vault = u /\ t.alone = task[p].alone
        /\ t.op = task[p].op /\ t.key = task[p].key /\ t.ttl = task[p].ttl
    BY <1>2, <1>4, <2>1 DEF Call, Steps
  <2>3. CallFits(t) /\ CallRecords(t)
    <3>1. CallRecords(task[p])
      BY <1>1 DEF IInv, Records
    <3>2. CallFits(t)
      BY <1>4, <2>2 DEF CallFits, Puts
    <3>3. QED
      BY <1>12, <2>2, <3>1, <3>2 DEF CallRecords
  <2>4. Course(t)'
    <3>1. entry'["key"][u].ends = stop /\ now' = now /\ agent' = agent
      BY <1>3, <1>9, <1>10, <1>11, <1>12 DEF Preset, Stays
    <3>2. stop \in 0..(now + agent["runs"])
      BY <1>2, <1>5
    <3>3. QED
      BY <2>2, <3>1, <3>2 DEF Course
  <2>5. task' = [task EXCEPT ![p] = t] /\ UNCHANGED <<answer, promised>>
        /\ Stays /\ NoAgent /\ NoMemory
    BY <1>2, <1>3, <1>12, <2>1 DEF Preset, Goto
  <2>6. QED
    BY <1>1, <1>2, <1>4, <1>11, <2>2, <2>3, <2>4, <2>5, GoesOn
<1>13. CASE task[p].pc = "presetExpiry"
  <2>1. Ends(p, "ok") /\ Stays /\ NoAgent /\ NoMemory
    BY <1>2, <1>3, <1>13 DEF Preset
  <2>2. PICK end : end = promised'[u]
    OBVIOUS
  <2>3. task[p].alone => Good(u, end)'
    <3>1. SUFFICES ASSUME task[p].alone PROVE Good(u, end)'
      OBVIOUS
    <3>2. end = now + task[p].ttl
      BY <1>1, <1>2, <1>4, <2>1, <2>2, <3>1, EndsWith DEF IInv
    <3>3. entry["key"][u] # None => entry["key"][u].ends \in 0..stop
      <4>1. Course(task[p])
        BY <1>1, <3>1 DEF IInv, Promises
      <4>2. QED
        BY <1>2, <1>13, <4>1 DEF Course
    <3>4. /\ entry'["key"] = entry["key"]
          /\ entry'["expiry"][u] # None /\ entry'["expiry"][u].ends = stop
      BY <1>3, <1>9, <1>11, <1>13
    <3>5. end \in Nat /\ end # Never /\ (steady => end = stop)
      BY <1>2, <1>4, <1>5, <1>6, <3>2, HoldersAssumption
    <3>6. steady' = steady
      BY <2>1 DEF Stays
    <3>7. QED
      BY <1>5, <3>3, <3>4, <3>5, <3>6 DEF Good
  <2>4. QED
    BY <1>1, <1>2, <1>4, <1>11, <2>1, <2>2, <2>3, ComesBack
<1>14. QED
  BY <1>1, <1>12, <1>13

LEMMA PresetFailsStep ==
    ASSUME IInv, NEW p \in Processes, PresetFails(p)
    PROVE  IInv'
<1>1. task[p] # Idle /\ task[p].pc \in {"presetKey", "presetExpiry"}
  BY DEF PresetFails, Idle
<1>2. task[p].op = "put" /\ kind = "gpg-agent"
  BY <1>1 DEF IInv, Fits, CallFits, Puts
<1>3. CASE task[p].pc = "presetKey"
  BY <1>1, <1>2, <1>3, KeepsWhatWas DEF PresetFails, PartOf
<1>4. CASE task[p].pc = "presetExpiry"
  <2>1. Undo(p)
    BY <1>4 DEF PresetFails, PartOf
  <2>2. Entries' /\ KeysAreKeys' /\ Elsewhere(task[p].vault)
    BY NothingIsSet DEF PresetFails, IInv, NoAgent
  <2>3. QED
    BY <1>1, <1>2, <2>1, <2>2, TakesBack DEF PresetFails
<1>5. QED
  BY <1>1, <1>3, <1>4

LEMMA ClearBothStep ==
    ASSUME IInv, NEW p \in Processes, ClearBoth(p)
    PROVE  IInv'
<1>1. task[p] # Idle /\ task[p].pc = "clearBoth"
  BY DEF ClearBoth, At, Idle
<1>2. PICK u, end : u = task[p].vault /\ end = promised'[u]
  OBVIOUS
<1>3. u \in Vaults /\ kind = "gpg-agent"
  BY <1>1, <1>2, TypesOf DEF IInv, Fits, CallFits
<1>4. PICK a \in {"ok", "refused"} : Ends(p, a)
  BY DEF ClearBoth, Result
<1>5. Stays /\ NoAgent /\ NoMemory
  BY DEF ClearBoth
<1>6. entry \in [Parts -> [Vaults -> Stored(Keys \cup Nat) \cup {None}]] /\ KeysAreKeys
  BY DEF IInv, TypeOK, KeysAreKeys
<1>7. entry' = [part \in Parts |-> [entry[part] EXCEPT ![u] = None]]
  <2>1. \A part \in Parts : Without(part, u)[part] = [entry[part] EXCEPT ![u] = None]
    BY <1>6 DEF Without
  <2>2. QED
    BY <1>2, <2>1 DEF ClearBoth
<1> DEFINE S == Stored(Keys \cup Nat) \cup {None}
<1>8. None \in S
  OBVIOUS
<1> HIDE DEF S
<1>9. entry' \in [Parts -> [Vaults -> S]]
  BY <1>6, <1>7, <1>8 DEF S
<1>10. \A part \in Parts, v \in Vaults : entry'[part][v] = IF v = u THEN None ELSE entry[part][v]
  BY <1>6, <1>7
<1>11. Entries' /\ KeysAreKeys' /\ Elsewhere(u)
  <2>1. KeysAreKeys'
    BY <1>6, <1>10 DEF KeysAreKeys, Parts
  <2>2. Elsewhere(u)
    BY <1>5, <1>10 DEF Elsewhere, NoAgent
  <2>3. QED
    BY <1>9, <2>1, <2>2 DEF Entries, S
<1>12. Good(u, end)'
  BY <1>3, <1>10 DEF Good, Parts
<1>13. QED
  BY <1>1, <1>2, <1>3, <1>4, <1>5, <1>11, <1>12, ComesBack

\* The key stays, with the end it had; an undo that is lost promises nothing.
LEMMA ClearMissedStep ==
    ASSUME IInv, NEW p \in Processes, ClearMissed(p)
    PROVE  IInv'
<1>1. task[p] # Idle /\ task[p].pc = "clearBoth"
  BY DEF ClearMissed, At, Idle
<1>2. PICK u, was : u = task[p].vault /\ was = task[p].was
  OBVIOUS
<1>3. u \in Vaults /\ was \in Nat \cup {None, Never}
      /\ promised \in [Vaults -> Nat \cup {None, Never}]
  BY <1>1, <1>2, TypesOf DEF IInv, TypeOK
<1>4. /\ task' = [task EXCEPT ![p] = Idle] /\ answer' = [answer EXCEPT ![p] = Result(p)]
      /\ UNCHANGED <<kind, now, setting, steady, calls, entry, agent, timer, late>>
      /\ promised' = IF task[p].alone /\ task[p].op = "clear"
                     THEN [promised EXCEPT ![u] = was] ELSE promised
  BY <1>2 DEF ClearMissed, Stays, NoAgent, NoMemory
<1>5. \A q \in Processes : task'[q] = IF q = p THEN Idle ELSE task[q]
  BY <1>4 DEF IInv, TypeOK
<1>6. /\ promised' \in [Vaults -> Nat \cup {None, Never}]
      /\ \A v \in Vaults \ {u} : promised'[v] = promised[v]
      /\ ~task[p].alone => promised' = promised
      /\ promised'[u] # promised[u] => task[p].alone /\ task[p].op = "clear" /\ promised'[u] = was
  BY <1>3, <1>4
<1>7. TypeOK'
  <2>1. task' \in [Processes -> Call \cup {Idle}]
    BY <1>4 DEF IInv, TypeOK
  <2>2. answer' \in [Processes -> {None, "ok", "refused"}]
    BY <1>4 DEF IInv, TypeOK, Result
  <2>3. QED
    BY <1>4, <1>6, <2>1, <2>2 DEF IInv, TypeOK
<1>8. Fits' /\ Records' /\ Memory'
  BY <1>4, <1>5 DEF IInv, Fits, CallFits, Records, Recorded, CallRecords, Memory, MemoryIsWiped
<1>9. Ones'
  <2>1. ASSUME NEW q \in Processes \ {p}, task[q] # Idle PROVE promised'[task[q].vault] = None
    <3>1. task[q].vault \in Vaults /\ promised[task[q].vault] = None
      BY <2>1, TypesOf DEF IInv, Ones
    <3>2. task[q].vault = u => ~task[p].alone
      BY <1>1, <1>2, <2>1 DEF IInv, Ones
    <3>3. QED
      BY <1>6, <3>1, <3>2
  <2>2. QED
    BY <1>5, <2>1 DEF IInv, Ones
<1>10. Promises'
  <2>1. ASSUME NEW v \in Vaults PROVE Good(v, promised[v])'
    <3>1. PICK end : end = promised'[v]
      OBVIOUS
    <3>2. Good(v, end)
      <4>1. CASE end = promised[v]
        BY <4>1 DEF IInv, Promises
      <4>2. CASE end # promised[v]
        <5>1. v = u /\ task[p].alone /\ task[p].op = "clear" /\ end = was
          BY <1>6, <3>1, <4>2
        <5>2. Course(task[p])
          BY <1>1, <5>1 DEF IInv, Promises
        <5>3. QED
          BY <1>1, <1>2, <5>1, <5>2 DEF Course
      <4>3. QED
        BY <4>1, <4>2
    <3>3. QED
      BY <1>4, <3>1, <3>2 DEF Good
  <2>2. ASSUME NEW q \in Processes, task'[q] # Idle, task'[q].alone PROVE Course(task[q])'
    <3>1. task'[q] = task[q] /\ Course(task[q])
      BY <1>5, <2>2 DEF IInv, Promises
    <3>2. QED
      BY <1>4, <3>1 DEF Course, Good
  <2>3. QED
    BY <2>1, <2>2 DEF Promises
<1>11. QED
  BY <1>7, <1>8, <1>9, <1>10 DEF IInv

-----------------------------------------------------------------------------
(* The steps of the holder in memory *)

LEMMA PutInMemoryStep ==
    ASSUME IInv, NEW p \in Processes, PutInMemory(p)
    PROVE  IInv'
<1>1. task[p] # Idle /\ task[p].pc = "locked" /\ task[p].op = "put"
  BY DEF PutInMemory, At, Idle
<1>2. PICK u, stop, end :
        u = task[p].vault /\ stop = now + task[p].ttl /\ end = promised'[u]
  OBVIOUS
<1>3. u \in Vaults /\ kind = "memory" /\ task[p].key \in Keys /\ task[p].ttl \in Nat
  BY <1>1, <1>2, TypesOf DEF IInv, Fits, CallFits
<1>4. stop \in Nat /\ stop # None /\ stop # Never
  <2>1. now \in Nat
    BY DEF IInv, TypeOK
  <2>2. stop \in Nat
    BY <1>2, <1>3, <2>1
  <2>3. QED
    BY <2>2, HoldersAssumption
<1>5. PICK x : x = [value |-> task[p].key, id |-> None, ends |-> stop]
  OBVIOUS
<1>6. x \in Stored(Keys \cup Nat) /\ x # None /\ x.value \in Keys /\ x.ends = stop
  BY <1>3, <1>4, <1>5, StoredIsThere
<1>7. /\ entry' = [Empty EXCEPT !["key"][u] = x] /\ timer' = stop /\ late' = late
      /\ Ends(p, "ok") /\ UNCHANGED <<kind, now, setting, steady, calls, agent>>
  BY <1>2, <1>5 DEF PutInMemory, TimerFor, Stays, NoAgent
<1> DEFINE S == Stored(Keys \cup Nat) \cup {None}
<1>8. Empty \in [Parts -> [Vaults -> S]] /\ x \in S
  BY <1>6, EmptyTyped
<1> HIDE DEF S
<1>9. entry' \in [Parts -> [Vaults -> S]]
  BY <1>3, <1>7, <1>8
<1>10. \A v \in Vaults : entry'["key"][v] = IF v = u THEN x ELSE None
  BY <1>3, <1>7, <1>8, EmptyTyped DEF Parts
<1>11. Entries' /\ KeysAreKeys' /\ Elsewhere(u)
  BY <1>6, <1>9, <1>10 DEF Entries, KeysAreKeys, Elsewhere, S
<1>12. Memory'
  BY <1>3, <1>4, <1>6, <1>7, <1>10 DEF IInv, Memory, MemoryIsWiped
<1>13. task[p].alone => Good(u, end)'
  <2>1. SUFFICES ASSUME task[p].alone PROVE Good(u, end)'
    OBVIOUS
  <2>2. end = stop
    BY <1>1, <1>2, <1>7, <2>1, EndsWith DEF IInv
  <2>3. QED
    BY <1>3, <1>4, <1>6, <1>7, <1>10, <2>2 DEF Good
<1>14. Records' /\ AgentTyped'
  <2>1. task' = [task EXCEPT ![p] = Idle]
    BY <1>7 DEF Ends
  <2>2. QED
    BY <1>7, <2>1, RecordsStay, AgentStays DEF IInv
<1>15. timer' \in Nat \cup {None} /\ late' \subseteq Nat
  BY <1>4, <1>7 DEF IInv, TypeOK
<1>16. QED
  BY <1>1, <1>2, <1>7, <1>11, <1>12, <1>13, <1>14, <1>15, Finishes

\* Nothing is there, or what was there stays.
LEMMA WipedOrNot ==
    ASSUME Memory, kind = "memory", Wipe \/ UNCHANGED <<entry, timer>>,
           UNCHANGED <<kind, now, late>>
    PROVE  Memory'
BY EmptyTyped DEF Wipe, Memory, MemoryIsWiped, Parts

LEMMA ClearMemoryStep ==
    ASSUME IInv, NEW p \in Processes, ClearMemory(p)
    PROVE  IInv'
<1>1. task[p] # Idle /\ task[p].pc = "locked" /\ task[p].op = "clear"
  BY DEF ClearMemory, At, Idle
<1>2. PICK u, end : u = task[p].vault /\ end = promised'[u]
  OBVIOUS
<1>3. u \in Vaults /\ kind = "memory"
  BY <1>1, <1>2, TypesOf DEF IInv, Fits, CallFits
<1>4. /\ Ends(p, "ok") /\ UNCHANGED <<kind, now, setting, steady, calls, agent, late>>
      /\ Wipe \/ (entry["key"][u] = None /\ UNCHANGED <<entry, timer>>)
  BY <1>2 DEF ClearMemory, Stays, NoAgent
<1>5. Memory'
  BY <1>3, <1>4, WipedOrNot DEF IInv
<1>6. Entries' /\ KeysAreKeys' /\ Elsewhere(u) /\ Good(u, end)'
  <2>1. CASE Wipe
    BY <1>3, <2>1, AllIsGone DEF Wipe, IInv
  <2>2. CASE entry["key"][u] = None /\ UNCHANGED <<entry, timer>>
    <3>1. Entries' /\ KeysAreKeys' /\ Elsewhere(u)
      BY <1>4, <2>2, NothingIsSet DEF IInv
    <3>2. QED
      BY <2>2, <3>1 DEF Good
  <2>3. QED
    BY <1>4, <2>1, <2>2
<1>7. Records' /\ AgentTyped'
  <2>1. task' = [task EXCEPT ![p] = Idle]
    BY <1>4 DEF Ends
  <2>2. QED
    BY <1>4, <2>1, RecordsStay, AgentStays DEF IInv
<1>8. timer' \in Nat \cup {None} /\ late' \subseteq Nat
  BY <1>4 DEF IInv, TypeOK, Wipe
<1>9. QED
  BY <1>1, <1>2, <1>4, <1>5, <1>6, <1>7, <1>8, Finishes

\* No call takes a step: what is kept stays or goes.
LEMMA Quiet ==
    ASSUME IInv, entry' = Empty \/ UNCHANGED entry,
           UNCHANGED <<kind, now, setting, steady, agent, task, answer, promised, calls>>,
           timer' \in Nat \cup {None}, late' \subseteq Nat, Memory'
    PROVE  IInv'
<1>1. Entries' /\ KeysAreKeys' /\ \A v : Elsewhere(v)
  BY AllIsGone, NothingIsSet DEF IInv
<1>2. TypeOK'
  BY <1>1 DEF IInv, TypeOK, Entries, KeysAreKeys
<1>3. Fits' /\ Records' /\ Ones'
  BY DEF IInv, Fits, CallFits, Records, Recorded, CallRecords, Ones
<1>4. \A v \in Vaults :
        entry'["key"][v] = None \/ \A part \in Parts : entry'[part][v] = entry[part][v]
  BY EmptyTyped DEF Parts
<1>5. Promises'
  <2>1. \A v \in Vaults : Good(v, promised[v])'
    BY <1>4, GoodElsewhere DEF IInv, Promises
  <2>2. ASSUME NEW q \in Processes, task[q] # Idle, task[q].alone PROVE Course(task[q])'
    <3>1. task[q] \in Call /\ task[q].vault \in Vaults
      BY <2>2, TypesOf DEF IInv
    <3>2. QED
      BY <1>4, <2>2, <3>1, CourseElsewhere DEF IInv, Promises
  <2>3. QED
    BY <2>1, <2>2 DEF Promises
<1>6. QED
  BY <1>2, <1>3, <1>5 DEF IInv

LEMMA TimerFiresStep ==
    ASSUME IInv, TimerFires
    PROVE  IInv'
<1>1. /\ timer # None /\ timer <= now /\ late' = late \cup {timer}
      /\ UNCHANGED <<kind, now, setting, steady, agent, task, answer, promised, calls, entry, timer>>
  BY DEF TimerFires, Stays, NoAgent
<1>2. timer \in Nat /\ late \subseteq Nat
  BY <1>1 DEF IInv, TypeOK
<1>3. kind = "memory"
  BY <1>1 DEF IInv, Memory
<1>4. Memory'
  BY <1>1, <1>3 DEF IInv, Memory, MemoryIsWiped
<1>5. QED
  BY <1>1, <1>2, <1>4, Quiet

\* A late timer that wipes nothing was set for no key that is there.
LEMMA ExpireStep ==
    ASSUME IInv, NEW stop \in late, Expire(stop)
    PROVE  IInv'
<1>1. /\ late' = late \ {stop}
      /\ UNCHANGED <<kind, now, setting, steady, agent, task, answer, promised, calls>>
      /\ IF \E v \in Vaults : IsSetFor(v, stop) THEN Wipe ELSE UNCHANGED <<entry, timer>>
  BY DEF Expire, Stays, NoAgent
<1>2. kind = "memory"
  BY DEF IInv, Memory
<1>3. Memory'
  <2>1. CASE \E v \in Vaults : IsSetFor(v, stop)
    BY <1>1, <1>2, <2>1, EmptyTyped DEF Wipe, IInv, Memory, MemoryIsWiped, Parts
  <2>2. CASE \A v \in Vaults : ~IsSetFor(v, stop)
    <3>1. \A v \in Vaults : entry["key"][v] # None => entry["key"][v].ends # stop
      BY <2>2 DEF IsSetFor
    <3>2. UNCHANGED <<entry, timer>>
      BY <1>1, <2>2
    <3>3. QED
      BY <1>1, <1>2, <3>1, <3>2 DEF IInv, Memory, MemoryIsWiped
  <2>3. QED
    BY <2>1, <2>2
<1>4. /\ entry' = Empty \/ UNCHANGED entry
      /\ timer' \in Nat \cup {None} /\ late' \subseteq Nat
  BY <1>1 DEF Wipe, IInv, TypeOK
<1>5. QED
  BY <1>1, <1>3, <1>4, Quiet

LEMMA WipeOverStep ==
    ASSUME IInv, NEW v \in Vaults, WipeOver(v)
    PROVE  IInv'
<1>1. /\ Wipe /\ kind = "memory"
      /\ UNCHANGED <<kind, now, setting, steady, agent, late, task, answer, promised, calls>>
  BY DEF WipeOver, Stays, NoAgent
<1>2. Memory'
  BY <1>1, WipedOrNot DEF IInv
<1>3. entry' = Empty /\ timer' \in Nat \cup {None} /\ late' \subseteq Nat
  BY <1>1 DEF Wipe, IInv, TypeOK
<1>4. QED
  BY <1>1, <1>2, <1>3, Quiet

-----------------------------------------------------------------------------
(* Time, the setting, restarts, and a call that begins *)

\* A status shows a key until it ends: the expiry ends no earlier.
LEMMA TickStep ==
    ASSUME IInv, Tick
    PROVE  IInv'
<1>1. /\ now' = now + 1 /\ now \in Nat
      /\ UNCHANGED <<kind, setting, steady, calls, task, answer, promised, agent, timer, late>>
  BY DEF Tick, NoAgent, NoMemory, IInv, TypeOK
<1>2. /\ entry \in [Parts -> [Vaults -> Stored(Keys \cup Nat) \cup {None}]]
      /\ KeysAreKeys
  BY DEF IInv, TypeOK, KeysAreKeys
<1>3. /\ entry' \in [Parts -> [Vaults -> Stored(Keys \cup Nat) \cup {None}]]
      /\ \A part \in Parts, v \in Vaults :
           \/ entry'[part][v] = entry[part][v]
           \/ /\ kind # "memory" /\ entry'[part][v] = None
              /\ entry[part][v].ends # Never /\ entry[part][v].ends <= now'
      /\ kind # "memory" => \A part \in Parts, v \in Vaults :
           entry'[part][v] # None =>
             entry[part][v].ends = Never \/ ~(entry[part][v].ends <= now')
  <2> DEFINE S == Stored(Keys \cup Nat) \cup {None}
             Over2(e) == e # None /\ e.ends # Never /\ e.ends <= now'
  <2>1. CASE kind = "memory"
    BY <1>2, <2>1 DEF Tick
  <2>2. CASE kind # "memory"
    <3>1. entry' = [part \in Parts |-> [v \in Vaults |->
                      IF Over2(entry[part][v]) THEN None ELSE entry[part][v]]]
      BY <2>2 DEF Tick
    <3>2. None \in S /\ entry \in [Parts -> [Vaults -> S]]
      BY <1>2
    <3> HIDE DEF S
    <3>3. entry' \in [Parts -> [Vaults -> S]]
      BY <3>1, <3>2
    <3>4. \A part \in Parts, v \in Vaults :
            entry'[part][v] = IF Over2(entry[part][v]) THEN None ELSE entry[part][v]
      BY <3>1
    <3>5. QED
      BY <2>2, <3>3, <3>4 DEF S
  <2>3. QED
    BY <2>1, <2>2
<1>4. TypeOK'
  <2>1. KeysAreKeys'
    BY <1>2, <1>3 DEF KeysAreKeys, Parts
  <2>2. QED
    <3>1. now' \in Nat
      BY <1>1
    <3>2. QED
      BY <1>1, <1>3, <2>1, <3>1 DEF IInv, TypeOK, KeysAreKeys
<1>5. Fits' /\ Records' /\ Ones'
  BY <1>1 DEF IInv, Fits, CallFits, Records, Recorded, CallRecords, Ones
<1>6. Memory'
  <2>1. CASE kind # "memory"
    BY <1>1, <2>1, NoTimers DEF IInv
  <2>2. CASE kind = "memory"
    <3>1. entry' = entry
      BY <2>2 DEF Tick
    <3>2. \A end \in late : end \in Nat /\ end <= now
      BY <2>2 DEF IInv, TypeOK, Memory
    <3>3. \A end \in late : end <= now + 1
      BY <1>1, <3>2
    <3>4. QED
      BY <1>1, <2>2, <3>1, <3>3 DEF IInv, Memory, MemoryIsWiped
  <2>3. QED
    BY <2>1, <2>2
<1>7. ASSUME NEW v \in Vaults, NEW end \in Nat \cup {None, Never}, Good(v, end)
      PROVE  Good(v, end)'
  <2>0. kind' = kind /\ steady' = steady
    BY <1>1
  <2>1. SUFFICES ASSUME entry'["key"][v] # None, end # None PROVE Good(v, end)'
    BY DEF Good
  <2>2. PICK e, x : e = entry["key"][v] /\ x = entry["expiry"][v]
    OBVIOUS
  <2>3. entry'["key"][v] = e /\ e # None
    BY <1>3, <2>1, <2>2 DEF Parts
  <2>4. end # Never /\ end \in Nat /\ e.ends \in Nat /\ (steady => e.ends <= end)
    BY <1>7, <2>1, <2>2, <2>3 DEF Good
  <2>5. CASE kind = "memory"
    BY <2>0, <2>3, <2>4, <2>5 DEF Good
  <2>6. CASE kind # "memory"
    <3>1. x # None /\ (x.ends = Never \/ e.ends <= x.ends)
      BY <1>7, <2>1, <2>2, <2>3, <2>6 DEF Good
    <3>2. ~(e.ends <= now')
      <4>1. e.ends # Never
        BY <2>4, HoldersAssumption
      <4>2. QED
        BY <1>3, <2>1, <2>2, <2>6, <4>1 DEF Parts
    <3>3. x.ends \in Nat \cup {Never}
      BY <2>2, <3>1, EntryTyped DEF IInv, Parts
    <3>4. ~(x.ends # Never /\ x.ends <= now')
      BY <1>1, <2>4, <3>1, <3>2, <3>3
    <3>5. entry'["expiry"][v] = x
      BY <1>3, <2>2, <3>4 DEF Parts
    <3>6. QED
      BY <2>0, <2>3, <2>4, <3>1, <3>5 DEF Good
  <2>7. QED
    BY <2>5, <2>6
<1>8. Promises'
  <2>1. ASSUME NEW v \in Vaults PROVE Good(v, promised[v])'
    <3>1. PICK end : end = promised[v]
      OBVIOUS
    <3>2. end \in Nat \cup {None, Never} /\ Good(v, end)
      BY <3>1 DEF IInv, TypeOK, Promises
    <3>3. Good(v, end)'
      BY <1>7, <3>2
    <3>4. promised'[v] = end
      BY <1>1, <3>1
    <3>5. QED
      BY <3>3, <3>4 DEF Good
  <2>2. ASSUME NEW q \in Processes, task[q] # Idle, task[q].alone PROVE Course(task[q])'
    <3>1. PICK t : t = task[q]
      OBVIOUS
    <3>2. t \in Call /\ t.vault \in Vaults /\ t.ttl \in Nat /\ t.was \in Nat \cup {None, Never}
      BY <2>2, <3>1, TypesOf DEF IInv
    <3>3. Course(t)
      BY <2>2, <3>1 DEF IInv, Promises
    <3>4. Good(t.vault, t.was) => Good(t.vault, t.was)'
      BY <1>7, <3>2
    <3>5. entry'["key"][t.vault] = None \/ entry'["key"][t.vault] = entry["key"][t.vault]
      BY <1>3, <3>2 DEF Parts
    <3>6. /\ \A e : e \in 0..(now + t.ttl) => e \in 0..(now' + t.ttl)
          /\ t.pc = "presetExpiry" =>
               \A e : e \in 0..(now + agent["runs"]) => e \in 0..(now' + agent["runs"])
      <4>1. t.pc = "presetExpiry" => agent["runs"] \in Nat
        BY <2>2, <3>1, HoldersAssumption DEF IInv, TypeOK, Records, CallRecords
      <4>2. QED
        BY <1>1, <3>2, <4>1
    <3>7. Course(t)'
      BY <1>1, <3>3, <3>4, <3>5, <3>6 DEF Course
    <3>8. QED
      BY <1>1, <3>1, <3>7
  <2>3. QED
    BY <1>1, <2>1, <2>2 DEF Promises
<1>9. QED
  BY <1>4, <1>5, <1>6, <1>8 DEF IInv

\* A setting that is steady changes beside no call, and after none that was cut short.
LEMMA ChangeSettingStep ==
    ASSUME IInv, NEW d \in Durations, ChangeSetting(d)
    PROVE  IInv'
<1>1. /\ setting' = d /\ calls' = calls + 1
      /\ steady' = (steady /\ (kind = "gpg-agent" => Settled))
      /\ UNCHANGED <<kind, now, entry, agent, timer, late, task, answer, promised>>
  BY DEF ChangeSetting, NoAgent, NoMemory
<1>2. steady' => steady
  BY <1>1
<1>3. kind = "gpg-agent" /\ steady' => /\ \A p \in Processes : task[p] = Idle
                                      /\ agent["loaded"] = agent["conf"]
  BY <1>1 DEF Settled
<1>4. TypeOK'
  <2>1. steady' \in BOOLEAN
    BY <1>1
  <2>2. calls' \in Nat
    BY <1>1 DEF IInv, TypeOK
  <2>3. QED
    BY <1>1, <2>1, <2>2 DEF IInv, TypeOK
<1>5. Fits' /\ Ones'
  BY <1>1, <1>3 DEF IInv, Fits, CallFits, Ones
<1>6. Records'
  <2>1. ASSUME NEW p \in Processes, task[p] # Idle PROVE CallRecords(task[p])'
    <3>1. CallRecords(task[p]) /\ CallFits(task[p])
      BY <2>1 DEF IInv, Fits, Records
    <3>2. kind = "gpg-agent" => ~steady'
      BY <1>3, <2>1
    <3>3. QED
      BY <1>1, <3>1, <3>2 DEF CallRecords, CallFits
  <2>2. kind = "gpg-agent" /\ steady' => Recorded'
    BY <1>1, <1>2, <1>3 DEF IInv, Records, Recorded
  <2>3. QED
    BY <1>1, <2>1, <2>2 DEF IInv, Records
<1>7. Memory'
  BY <1>1 DEF IInv, Memory, MemoryIsWiped
<1>8. Promises'
  BY <1>1, <1>2 DEF IInv, Promises, Good, Course
<1>9. QED
  BY <1>4, <1>5, <1>6, <1>7, <1>8 DEF IInv

\* A call that is cut leaves its vault without a promise.
LEMMA CrashStep ==
    ASSUME IInv, NEW p \in Processes, Crash(p)
    PROVE  IInv'
<1>1. /\ task' = [task EXCEPT ![p] = Idle]
      /\ UNCHANGED <<kind, now, setting, steady, calls, entry, agent, timer, late, answer, promised>>
  BY DEF Crash, Stays, NoAgent, NoMemory
<1>2. \A q \in Processes : task'[q] = Idle \/ task'[q] = task[q]
  BY <1>1 DEF IInv, TypeOK
<1>3. TypeOK'
  <2>1. task' \in [Processes -> Call \cup {Idle}]
    BY <1>1 DEF IInv, TypeOK
  <2>2. QED
    BY <1>1, <2>1 DEF IInv, TypeOK
<1>4. Fits' /\ Records' /\ Memory'
  BY <1>1, <1>2 DEF IInv, Fits, CallFits, Records, Recorded, CallRecords, Memory, MemoryIsWiped
<1>5. Ones'
  BY <1>1, <1>2 DEF IInv, Ones
<1>6. Promises'
  BY <1>1, <1>2 DEF IInv, Promises, Good, Course
<1>7. QED
  BY <1>3, <1>4, <1>5, <1>6 DEF IInv

LEMMA RestartStep ==
    ASSUME IInv, Restart
    PROVE  IInv'
<1>1. /\ entry' = Empty /\ agent' = [agent EXCEPT !["runs"] = agent["conf"]]
      /\ timer' = None /\ late' = {} /\ kind \in {"gpg-agent", "memory"}
      /\ task' = IF kind = "memory" THEN [p \in Processes |-> Idle] ELSE task
      /\ UNCHANGED <<kind, now, setting, steady, calls, answer, promised>>
  BY DEF Restart, Stays
<1>2. /\ Entries' /\ KeysAreKeys' /\ \A v \in Vaults : \A end : Good(v, end)'
  BY <1>1, AllIsGone DEF IInv
<1>3. /\ agent'["conf"] = agent["conf"] /\ agent'["loaded"] = agent["loaded"]
      /\ agent'["runs"] = agent["conf"] /\ AgentTyped'
  BY <1>1, AgentOf DEF IInv, AgentTyped
<1>4. \A q \in Processes : task'[q] = Idle \/ task'[q] = task[q]
  BY <1>1
<1>5. TypeOK'
  <2>1. task' \in [Processes -> Call \cup {Idle}]
    BY <1>1 DEF IInv, TypeOK
  <2>2. QED
    BY <1>1, <1>2, <1>3, <2>1 DEF IInv, TypeOK, Entries, KeysAreKeys, AgentTyped
<1>6. Fits' /\ Ones'
  BY <1>1, <1>4 DEF IInv, Fits, CallFits, Ones
<1>7. Records'
  BY <1>1, <1>3, <1>4 DEF IInv, Records, Recorded, CallRecords
<1>8. Memory'
  BY <1>1, EmptyTyped DEF Memory, MemoryIsWiped, Parts
<1>9. Promises'
  <2>1. ASSUME NEW q \in Processes, task'[q] # Idle PROVE Course(task[q])'
    <3>1. PICK t : t = task[q]
      OBVIOUS
    <3>2. task'[q] = t /\ t \in Call /\ t.vault \in Vaults
      BY <1>4, <2>1, <3>1, TypesOf DEF IInv
    <3>3. entry'["key"][t.vault] = None /\ Good(t.vault, t.was)'
      BY <1>1, <1>2, <3>2, EmptyTyped DEF Parts
    <3>4. Course(t)'
      BY <3>3 DEF Course
    <3>5. QED
      BY <3>2, <3>4
  <2>2. \A v \in Vaults : Good(v, promised[v])'
    BY <1>1, <1>2
  <2>3. QED
    BY <2>1, <2>2 DEF Promises
<1>10. QED
  BY <1>5, <1>6, <1>7, <1>8, <1>9 DEF IInv

\* A call takes the promise of its vault with it, and what is not alone any more loses its own.
\* The call that begins, and what it makes of the others: those on its vault are alone no more.
NewCall(op, v, k, t) ==
    /\ t.pc \in {"dropKey", "conf", "clearBoth", "locked"}
    /\ t.pc = "dropKey" <=> kind = "keyctl"
    /\ t.pc = "conf" <=> kind = "gpg-agent" /\ op = "put"
    /\ t.pc = "clearBoth" <=> kind = "gpg-agent" /\ op = "clear"
    /\ t.pc = "locked" <=> kind = "memory"
    /\ t.op = op /\ t.vault = v /\ t.key = k /\ t.ttl = setting /\ t.was = promised[v]
    /\ t.alone <=> Calling(v) = {}

OtherCall(q, v) ==
    \/ task[q] = Idle /\ task'[q] = Idle
    \/ /\ task[q] # Idle /\ task[q] \in Call /\ task'[q] \in Call
       /\ task'[q].pc = task[q].pc /\ task'[q].op = task[q].op
       /\ task'[q].vault = task[q].vault /\ task'[q].key = task[q].key
       /\ task'[q].ttl = task[q].ttl
       /\ \/ task[q].vault = v /\ ~task'[q].alone /\ Calling(v) # {}
          \/ task[q].vault # v /\ task'[q] = task[q]

LEMMA Begins ==
    ASSUME IInv, NEW p \in Processes, NEW op \in {"put", "clear"}, NEW v \in Vaults,
           NEW k \in Keys \cup {None}, op = "put" => k \in Keys, Begin(p, op, v, k)
    PROVE  /\ kind \in Kinds /\ task[p] = Idle /\ calls' = calls + 1
           /\ promised' = [promised EXCEPT ![v] = None] /\ answer' = [answer EXCEPT ![p] = None]
           /\ UNCHANGED <<kind, now, setting, steady, entry, agent, timer, late>>
           /\ \E t \in Call : NewCall(op, v, k, t) /\ task'[p] = t /\ t # Idle
           /\ \A q \in Processes \ {p} : OtherCall(q, v)
           /\ task' = [q \in Processes |-> task'[q]]
<1>1. /\ kind \in Kinds /\ task[p] = Idle /\ calls' = calls + 1
      /\ promised' = [promised EXCEPT ![v] = None] /\ answer' = [answer EXCEPT ![p] = None]
      /\ UNCHANGED <<kind, now, setting, steady, entry, agent, timer, late>>
  BY DEF Begin, IInv, TypeOK
<1>2. PICK t : t = [pc |-> FirstStep(op), op |-> op, vault |-> v, key |-> k, ttl |-> setting,
                    id |-> None, alone |-> Calling(v) = {}, was |-> promised[v]]
  OBVIOUS
<1>3. /\ t.pc \in {"dropKey", "conf", "clearBoth", "locked"}
      /\ t.pc = "dropKey" <=> kind = "keyctl"
      /\ t.pc = "conf" <=> kind = "gpg-agent" /\ op = "put"
      /\ t.pc = "clearBoth" <=> kind = "gpg-agent" /\ op = "clear"
      /\ t.pc = "locked" <=> kind = "memory"
  <2>1. CASE kind = "keyctl"
    BY <1>2, <2>1 DEF FirstStep
  <2>2. CASE kind = "gpg-agent" /\ op = "put"
    BY <1>2, <2>2 DEF FirstStep
  <2>3. CASE kind = "gpg-agent" /\ op = "clear"
    BY <1>2, <2>3 DEF FirstStep
  <2>4. CASE kind = "memory"
    BY <1>2, <2>4 DEF FirstStep
  <2>5. QED
    BY <1>1, <2>1, <2>2, <2>3, <2>4 DEF Kinds
<1>4. t.op = op /\ t.vault = v /\ t.key = k /\ t.ttl = setting /\ t.was = promised[v]
      /\ (t.alone <=> Calling(v) = {})
  BY <1>2
<1>5. t \in Call
  <2>1. setting \in Durations /\ promised[v] \in Nat \cup {None, Never}
    BY DEF IInv, TypeOK
  <2>2. t.pc \in Steps /\ (Calling(v) = {}) \in BOOLEAN
    BY <1>3 DEF Steps
  <2>3. QED
    BY <1>2, <2>1, <2>2 DEF Call
<1>6. task' = [q \in Processes |->
                 IF q = p THEN t
                 ELSE IF q \in Calling(v) THEN [task[q] EXCEPT !.alone = FALSE] ELSE task[q]]
  BY <1>2 DEF Begin
<1>7. ASSUME NEW s \in Call PROVE /\ [s EXCEPT !.alone = FALSE] \in Call
                                  /\ [s EXCEPT !.alone = FALSE].alone = FALSE
                                  /\ [s EXCEPT !.alone = FALSE].pc = s.pc
                                  /\ [s EXCEPT !.alone = FALSE].op = s.op
                                  /\ [s EXCEPT !.alone = FALSE].vault = s.vault
                                  /\ [s EXCEPT !.alone = FALSE].key = s.key
                                  /\ [s EXCEPT !.alone = FALSE].ttl = s.ttl
  BY DEF Call
<1>8. ASSUME NEW q \in Processes \ {p} PROVE OtherCall(q, v)
  <2>1. CASE task[q] = Idle
    BY <1>6, <2>1 DEF Calling, OtherCall
  <2>2. CASE task[q] # Idle
    <3>1. task[q] \in Call
      BY <2>2, TypesOf DEF IInv
    <3>2. CASE task[q].vault = v
      <4>1. q \in Calling(v)
        BY <2>2, <3>2 DEF Calling
      <4>2. task'[q] = [task[q] EXCEPT !.alone = FALSE]
        BY <1>6, <4>1
      <4>3. QED
        BY <1>7, <2>2, <3>1, <3>2, <4>1, <4>2 DEF OtherCall
    <3>3. CASE task[q].vault # v
      BY <1>6, <2>2, <3>1, <3>3 DEF Calling, OtherCall
    <3>4. QED
      BY <3>2, <3>3
  <2>3. QED
    BY <2>1, <2>2
<1>9. task'[p] = t /\ t # Idle
  BY <1>5, <1>6, NotIdle
<1>10. NewCall(op, v, k, t)
  BY <1>3, <1>4 DEF NewCall
<1>11. task' = [q \in Processes |-> task'[q]]
  BY <1>6
<1>12. QED
  BY <1>1, <1>5, <1>8, <1>9, <1>10, <1>11

LEMMA BeginStep ==
    ASSUME IInv, NEW p \in Processes, NEW op \in {"put", "clear"}, NEW v \in Vaults,
           NEW k \in Keys \cup {None}, op = "put" => k \in Keys, Begin(p, op, v, k)
    PROVE  IInv'
<1>1. /\ kind \in Kinds /\ task[p] = Idle /\ calls' = calls + 1
      /\ promised' = [promised EXCEPT ![v] = None] /\ answer' = [answer EXCEPT ![p] = None]
      /\ UNCHANGED <<kind, now, setting, steady, entry, agent, timer, late>>
  BY Begins
<1>2. PICK t \in Call : NewCall(op, v, k, t) /\ task'[p] = t /\ t # Idle
  BY Begins
<1>3. /\ t.pc \in {"dropKey", "conf", "clearBoth", "locked"}
      /\ t.pc = "dropKey" <=> kind = "keyctl"
      /\ t.pc = "conf" <=> kind = "gpg-agent" /\ op = "put"
      /\ t.pc = "clearBoth" <=> kind = "gpg-agent" /\ op = "clear"
      /\ t.pc = "locked" <=> kind = "memory"
  BY <1>2 DEF NewCall
<1>4. t.op = op /\ t.vault = v /\ t.key = k /\ t.ttl = setting /\ t.was = promised[v]
      /\ (t.alone <=> Calling(v) = {})
  BY <1>2 DEF NewCall
<1>6. task' = [q \in Processes |-> task'[q]]
  BY Begins
<1>8. \A q \in Processes \ {p} : OtherCall(q, v)
  BY Begins
<1>9. task'[p] = t /\ t # Idle
  BY <1>2
<1>10. TypeOK'
  <2>1. task' \in [Processes -> Call \cup {Idle}]
    <3>1. \A q \in Processes : task'[q] \in Call \cup {Idle}
      BY <1>8, <1>9 DEF OtherCall
    <3>2. QED
      BY <1>6, <3>1
  <2>2. promised' \in [Vaults -> Nat \cup {None, Never}]
    BY <1>1 DEF IInv, TypeOK
  <2>3. answer' \in [Processes -> {None, "ok", "refused"}]
    BY <1>1 DEF IInv, TypeOK
  <2>4. calls' \in Nat
    BY <1>1 DEF IInv, TypeOK
  <2>5. QED
    BY <1>1, <2>1, <2>2, <2>3, <2>4 DEF IInv, TypeOK
<1>11. Fits'
  <2>1. CallFits(t)'
    BY <1>1, <1>3, <1>4 DEF CallFits, Puts
  <2>2. ASSUME NEW q \in Processes \ {p}, task'[q] # Idle PROVE CallFits(task[q])'
    BY <1>1, <1>8, <2>2 DEF IInv, Fits, CallFits, OtherCall
  <2>3. QED
    BY <1>9, <2>1, <2>2 DEF Fits
<1>12. Memory'
  BY <1>1 DEF IInv, Memory, MemoryIsWiped
<1>13. Records'
  <2>1. CallRecords(t)'
    BY <1>3 DEF CallRecords
  <2>2. ASSUME NEW q \in Processes \ {p}, task'[q] # Idle PROVE CallRecords(task[q])'
    BY <1>1, <1>8, <2>2 DEF IInv, Records, CallRecords, OtherCall
  <2>3. QED
    BY <1>1, <1>9, <2>1, <2>2 DEF IInv, Records, Recorded
<1>14. Ones'
  <2>1. ASSUME NEW q \in Processes, task'[q] # Idle PROVE promised'[task'[q].vault] = None
    <3>1. promised \in [Vaults -> Nat \cup {None, Never}]
      BY DEF IInv, TypeOK
    <3>2. CASE q = p
      BY <1>1, <1>4, <1>9, <3>1, <3>2
    <3>3. CASE q # p
      <4>1. task[q] # Idle /\ task'[q].vault = task[q].vault /\ task[q].vault \in Vaults
        BY <1>8, <2>1, <3>3, TypesOf DEF IInv, OtherCall
      <4>2. promised[task[q].vault] = None
        BY <4>1 DEF IInv, Ones
      <4>3. QED
        BY <1>1, <3>1, <4>1, <4>2
    <3>4. QED
      BY <3>2, <3>3
  <2>2. ASSUME NEW q \in Processes, NEW r \in Processes, q # r, task'[q] # Idle,
               task'[r] # Idle, task'[q].vault = task'[r].vault
        PROVE  ~task'[q].alone
    <3>1. CASE q = p
      <4>1. task[r] \in Call /\ Calling(v) # {}
        BY <1>4, <1>8, <1>9, <2>2, <3>1 DEF OtherCall
      <4>2. QED
        BY <1>4, <1>9, <3>1, <4>1
    <3>2. CASE r = p
      BY <1>4, <1>8, <1>9, <2>2, <3>2 DEF OtherCall
    <3>3. CASE q # p /\ r # p
      <4>1. /\ task[q] # Idle /\ task[r] # Idle /\ task[q].vault = task[r].vault
            /\ ~task'[q].alone \/ task'[q] = task[q]
        BY <1>8, <2>2, <3>3 DEF OtherCall
      <4>2. ~task[q].alone
        BY <2>2, <4>1 DEF IInv, Ones
      <4>3. QED
        BY <4>1, <4>2
    <3>4. QED
      BY <3>1, <3>2, <3>3
  <2>3. QED
    BY <2>1, <2>2 DEF Ones
<1>15. Promises'
  <2>1. ASSUME NEW w \in Vaults PROVE Good(w, promised[w])'
    <3>1. Good(w, promised[w]) /\ promised \in [Vaults -> Nat \cup {None, Never}]
      BY DEF IInv, Promises, TypeOK
    <3>2. CASE w = v
      BY <1>1, <3>1, <3>2 DEF Good
    <3>3. CASE w # v
      BY <1>1, <3>1, <3>3 DEF Good
    <3>4. QED
      BY <3>2, <3>3
  <2>2. Course(t)'
    <3>1. Good(v, promised[v])
      BY DEF IInv, Promises
    <3>2. Good(t.vault, t.was)
      BY <1>4, <3>1
    <3>3. Good(t.vault, t.was)'
      BY <1>1, <3>2 DEF Good
    <3>4. QED
      BY <1>3, <3>3 DEF Course
  <2>3. ASSUME NEW q \in Processes \ {p}, task'[q] # Idle, task'[q].alone
        PROVE  Course(task[q])'
    <3>1. task'[q] = task[q] /\ task[q] # Idle
      BY <1>8, <2>3 DEF OtherCall
    <3>2. Course(task[q])
      BY <2>3, <3>1 DEF IInv, Promises
    <3>3. QED
      BY <1>1, <3>1, <3>2 DEF Course, Good
  <2>4. QED
    BY <1>9, <2>1, <2>2, <2>3 DEF Promises
<1>16. QED
  BY <1>10, <1>11, <1>12, <1>13, <1>14, <1>15 DEF IInv

-----------------------------------------------------------------------------
(* Theorems *)

LEMMA SelectedIsKind ==
    ASSUME NEW choice, NEW usable
    PROVE  Selected(choice, usable) \in Kinds \cup {None}
<1> DEFINE fit == IF choice = "auto" THEN usable ELSE usable \cap {choice}
           works == {i \in DOMAIN Order : Order[i] \in fit}
           first == CHOOSE i \in works : \A j \in works : i <= j
<1>1. DOMAIN Order = {1, 2, 3} /\ \A i \in {1, 2, 3} : Order[i] \in Kinds
  BY DEF Order, Kinds
<1>2. CASE works = {}
  BY <1>2 DEF Selected
<1>3. CASE works # {}
  <2>1. works \subseteq {1, 2, 3}
    BY <1>1
  <2> HIDE DEF works
  <2>2. \E i \in works : \A j \in works : i <= j
    <3>1. \A j \in works : 1 <= j /\ (1 \notin works => 2 <= j)
                            /\ (1 \notin works /\ 2 \notin works => j = 3)
      BY <2>1
    <3>2. 1 \in works \/ 2 \in works \/ 3 \in works
      BY <1>3, <2>1
    <3>3. QED
      BY <3>1, <3>2
  <2>3. first \in works
    BY <2>2
  <2> HIDE DEF first
  <2>4. Order[first] \in Kinds
    BY <1>1, <2>1, <2>3
  <2>5. Selected(choice, usable) = Order[first]
    BY <1>3 DEF Selected, works, first
  <2>6. QED
    BY <2>4, <2>5
<1>4. QED
  BY <1>2, <1>3

LEMMA InitHolds ==
    ASSUME Init
    PROVE  IInv
<1>1. kind \in Kinds \cup {None}
  BY SelectedIsKind DEF Init
<1>2. TypeOK
  BY <1>1, EmptyTyped, HoldersAssumption DEF Init, TypeOK, Parts
<1>3. Fits /\ Records /\ Ones
  BY DEF Init, Fits, Records, Recorded, Ones
<1>4. Memory /\ Promises
  BY EmptyTyped DEF Init, Memory, MemoryIsWiped, Promises, Good, Parts
<1>5. QED
  BY <1>2, <1>3, <1>4 DEF IInv

LEMMA NextKeeps ==
    ASSUME IInv, Next
    PROVE  IInv'
<1>1. CASE Tick
  BY <1>1, TickStep
<1>2. CASE Restart
  BY <1>2, RestartStep
<1>3. CASE TimerFires
  BY <1>3, TimerFiresStep
<1>4. ASSUME NEW d \in Durations, ChangeSetting(d) PROVE IInv'
  BY <1>4, ChangeSettingStep
<1>5. ASSUME NEW end \in late, Expire(end) PROVE IInv'
  BY <1>5, ExpireStep
<1>6. ASSUME NEW v \in Vaults, WipeOver(v) PROVE IInv'
  BY <1>6, WipeOverStep
<1>7. ASSUME NEW p \in Processes, NEW v \in Vaults, Begin(p, "clear", v, None) PROVE IInv'
  BY <1>7, BeginStep
<1>8. ASSUME NEW p \in Processes, NEW v \in Vaults, NEW k \in Keys, Begin(p, "put", v, k)
      PROVE IInv'
  BY <1>8, BeginStep
<1>9. ASSUME NEW p \in Processes, KeyctlStep(p) PROVE IInv'
  BY <1>9, CheckDeniedStep, UnlinkKeyStep, UnlinkExpiryStep, AddStep, AddFailsStep,
     SetTimeoutStep, TimeoutFailsStep DEF KeyctlStep
<1>10. ASSUME NEW p \in Processes, AgentStep(p) PROVE IInv'
  BY <1>10, WriteConfStep, ReloadStep, ReloadFailsStep, RecordLoadedStep, PresetStep,
     PresetFailsStep, ClearBothStep, ClearMissedStep DEF AgentStep
<1>11. ASSUME NEW p \in Processes, MemoryStep(p) PROVE IInv'
  BY <1>11, PutInMemoryStep, ClearMemoryStep DEF MemoryStep
<1>12. ASSUME NEW p \in Processes, Crash(p) PROVE IInv'
  BY <1>12, CrashStep
<1>13. QED
  BY <1>1, <1>2, <1>3, <1>4, <1>5, <1>6, <1>7, <1>8, <1>9, <1>10, <1>11, <1>12 DEF Next

\* The inductive invariant, whichever holder was chosen and whatever fails.
THEOREM Invariance == Spec => []IInv
<1>1. Init => IInv
  BY InitHolds
<1>2. IInv /\ [Next]_vars => IInv'
  <2>1. ASSUME IInv, UNCHANGED vars PROVE IInv'
    BY <2>1 DEF vars, IInv, TypeOK, Fits, CallFits, Memory, MemoryIsWiped, Records, Recorded,
                CallRecords, Ones, Promises, Good, Course
  <2>2. QED
    BY <2>1, NextKeeps
<1>3. QED
  BY <1>1, <1>2, PTL DEF Spec

\* Each holder, its files and its callers keep their types.
THEOREM Typed == Spec => []TypeOK
BY Invariance, PTL DEF IInv

\* What is in the server's memory has a timer to come, or one that waits for the lock, for
\* any number of callers and vaults (`MemoryHolder`).
THEOREM MemoryAlwaysWiped == Spec => []MemoryIsWiped
<1>1. IInv => MemoryIsWiped
  BY DEF IInv, Memory
<1>2. QED
  BY <1>1, Invariance, PTL

\* Where calls on a vault did not cross and each undo reached the agent, a status shows the key
\* there is, and it has an end no later than the last put promised, by the agent's one duration
\* while the setting is steady: in each of the three holders, for any number of callers and
\* vaults, with any of the other failures (`Holder.put`, `clear`, `remaining`).
THEOREM AlwaysHeldAsPromised == Spec => []HeldAsPromised
<1>1. IInv => HeldAsPromised
  <2>1. SUFFICES ASSUME IInv, NEW v \in Vaults, Held(v) # None, promised[v] # None
                 PROVE  /\ Shown(v) /\ promised[v] # Never
                        /\ steady => entry["key"][v].ends \in 0..promised[v]
    BY DEF HeldAsPromised
  <2>2. entry["key"][v] # None /\ Good(v, promised[v])
    BY <2>1 DEF Held, IInv, Promises
  <2>3. Shown(v)
    <3>1. CASE kind = "keyctl"
      BY <2>1, <2>2, <3>1 DEF Shown, Good
    <3>2. CASE kind = "gpg-agent"
      BY <2>1, <2>2, <3>2 DEF Shown, Good
    <3>3. CASE kind # "keyctl" /\ kind # "gpg-agent"
      BY <2>1, <3>3 DEF Shown
    <3>4. QED
      BY <3>1, <3>2, <3>3
  <2>4. promised[v] # Never /\ promised[v] \in Nat /\ entry["key"][v].ends \in Nat
    BY <2>1, <2>2 DEF Good, IInv, TypeOK
  <2>5. QED
    BY <2>1, <2>2, <2>3, <2>4 DEF Good
<1>2. QED
  BY <1>1, Invariance, PTL

-----------------------------------------------------------------------------
(* The refinement: what a step does to a key, its end, and a call            *)

LEMMA MapLost ==
    ASSUME NEW vs, \A v \in Vaults \cap vs : Held(v)' = None,
           \A v \in Vaults \ vs : /\ Held(v)' = Held(v)
                                  /\ Held(v) # None => entry'["key"][v] = entry["key"][v]
    PROVE  Abstract!Lost(vs)
<1>1. HeldKeys' = [v \in Vaults |-> IF v \in vs THEN None ELSE HeldKeys[v]]
  BY DEF HeldKeys
<1>2. HeldEnds' = [v \in Vaults |-> IF v \in vs THEN None ELSE HeldEnds[v]]
  BY DEF HeldEnds
<1>3. QED
  BY <1>1, <1>2 DEF Abstract!Lost, HeldKeys, HeldEnds

LEMMA MapSame ==
    ASSUME \A v \in Vaults : /\ Held(v)' = Held(v)
                             /\ Held(v) # None => entry'["key"][v] = entry["key"][v]
    PROVE  HeldKeys' = HeldKeys /\ HeldEnds' = HeldEnds
BY DEF HeldKeys, HeldEnds

LEMMA MapCall ==
    ASSUME NEW p \in Processes, NEW t, task \in [Processes -> Call \cup {Idle}],
           task' = [task EXCEPT ![p] = t]
    PROVE  CallsMade' = [CallsMade EXCEPT ![p] = CallOf(t)]
<1>1. \A q \in Processes : task'[q] = IF q = p THEN t ELSE task[q]
  OBVIOUS
<1>2. QED
  BY <1>1 DEF CallsMade

LEMMA CallFields ==
    ASSUME NEW t \in Call
    PROVE  /\ CallOf(t) = [op |-> t.op, vault |-> t.vault, key |-> t.key, ttl |-> t.ttl,
                           done |-> Done(t)]
           /\ CallOf(t) # None /\ CallOf(t) \in Abstract!Call
           /\ CallOf(t).op = t.op /\ CallOf(t).vault = t.vault /\ CallOf(t).key = t.key
           /\ CallOf(t).ttl = t.ttl
           /\ CallOf(t).done = Done(t)
<1>1. t # Idle
  BY NotIdle
<1>2. CallOf(t) = [op |-> t.op, vault |-> t.vault, key |-> t.key, ttl |-> t.ttl,
                   done |-> Done(t)]
  BY <1>1 DEF CallOf
<1>3. Done(t) \in BOOLEAN
  <2>1. CASE t.op = "put"
    <3>1. Done(t) = (t.pc \in {"endKey", "addExpiry", "endExpiry", "presetExpiry"})
      BY <2>1 DEF Done
    <3>2. QED
      BY <3>1, SMT
  <2>2. CASE t.op # "put"
    <3>1. Done(t) = (t.pc = "dropExpiry")
      BY <2>2 DEF Done
    <3>2. QED
      BY <3>1, Zenon
  <2>3. QED
    BY <2>1, <2>2
<1>4. t.op \in {"put", "clear", "undo"} /\ t.vault \in Vaults /\ t.key \in Keys \cup {None}
      /\ t.ttl \in Durations
  BY DEF Call
<1>5. CallOf(t) \in Abstract!Call
  BY <1>2, <1>3, <1>4 DEF Abstract!Call
<1>6. QED
  BY <1>2, <1>5, NoneIsNothing

\* Two steps of one call are one to KeyHolder, where it has done as much.
LEMMA SameCall ==
    ASSUME NEW s \in Call, NEW t \in Call, s.op = t.op, s.vault = t.vault, s.key = t.key,
           s.ttl = t.ttl, Done(s) = Done(t)
    PROVE  CallOf(s) = CallOf(t)
BY CallFields

LEMMA DoneCall ==
    ASSUME NEW s \in Call, NEW t \in Call, s.op = t.op, s.vault = t.vault, s.key = t.key,
           s.ttl = t.ttl, Done(s)
    PROVE  CallOf(s) = [CallOf(t) EXCEPT !.done = TRUE]
<1>1. Done(s) = TRUE
  OBVIOUS
<1>2. QED
  BY <1>1, CallFields

LEMMA UndoCall ==
    ASSUME NEW s \in Call, NEW t \in Call, s.op = "undo", s.vault = t.vault, s.key = t.key,
           s.ttl = t.ttl, ~Done(s)
    PROVE  CallOf(s) = [CallOf(t) EXCEPT !.op = "undo", !.done = FALSE]
<1>1. Done(s) = FALSE
  BY DEF Done
<1>2. PICK c : c = [CallOf(t) EXCEPT !.op = "undo", !.done = FALSE]
  OBVIOUS
<1>3. CallOf(s) \in Abstract!Call /\ CallOf(t) \in Abstract!Call
  BY CallFields
<1>4. /\ c \in Abstract!Call /\ c.op = "undo" /\ c.done = FALSE
      /\ c.vault = CallOf(t).vault /\ c.key = CallOf(t).key /\ c.ttl = CallOf(t).ttl
  BY <1>2, <1>3 DEF Abstract!Call
<1>5. /\ CallOf(s).op = "undo" /\ CallOf(s).done = FALSE
      /\ c.vault = CallOf(s).vault /\ c.key = CallOf(s).key /\ c.ttl = CallOf(s).ttl
  BY <1>1, <1>4, CallFields
<1>6. c = CallOf(s)
  BY <1>3, <1>4, <1>5 DEF Abstract!Call
<1>7. QED
  BY <1>2, <1>6

LEMMA MapTask ==
    ASSUME IInv, NEW p \in Processes, task[p] # Idle
    PROVE  CallsMade[p] = CallOf(task[p]) /\ CallsMade[p] # None /\ task[p] \in Call
BY TypesOf, CallFields DEF CallsMade, IInv

\* A step of a call.
LEMMA CallSteps ==
    ASSUME IInv, NEW p \in Processes, task[p] # Idle,
           \/ Abstract!Store(p) \/ Abstract!SetEnd(p) \/ Abstract!Drop(p)
           \/ Abstract!Miss(p) \/ Abstract!MakeRoom(p) \/ Abstract!Flush(p)
           \/ Abstract!Record(p) \/ Abstract!Return(p) \/ Abstract!Refuse(p)
           \/ Abstract!TakeBack(p) \/ Abstract!Kill(p)
    PROVE  Abstract!Next
<1>1. p \in {q \in Processes : CallsMade[q] # None}
  BY MapTask
<1>2. QED
  BY <1>1 DEF Abstract!Next

\* The key of a vault, where its entry and the time are what they were.
LEMMA HeldStays ==
    ASSUME UNCHANGED <<kind, now>>, NEW v \in Vaults, entry'["key"][v] = entry["key"][v]
    PROVE  Held(v)' = Held(v)
BY DEF Held, Over

\* What `get` returns from the kernel and the agent is what is stored.
LEMMA HeldOutside ==
    ASSUME TypeOK, kind # "memory", NEW v \in Vaults
    PROVE  /\ Held(v) = IF entry["key"][v] = None THEN None ELSE entry["key"][v].value
           /\ Held(v) = None <=> entry["key"][v] = None
<1>1. Held(v) = IF entry["key"][v] = None THEN None ELSE entry["key"][v].value
  BY DEF Held
<1>2. entry["key"][v] # None => entry["key"][v].value \in Keys
  BY DEF TypeOK
<1>3. QED
  BY <1>1, <1>2, HoldersAssumption

LEMMA MapAnswer ==
    ASSUME IInv, NEW p \in Processes, task[p] # Idle, NEW a, Ends(p, a)
    PROVE  Abstract!Answers(p, a)
<1>1. CallsMade' = [CallsMade EXCEPT ![p] = None]
  BY MapCall DEF Ends, CallOf, IInv, TypeOK
<1>2. QED
  BY <1>1 DEF Abstract!Answers, Ends

LEMMA MapCrash ==
    ASSUME IInv, NEW p \in Processes, Crash(p)
    PROVE  Abstract!Next
<1>1. HeldKeys' = HeldKeys /\ HeldEnds' = HeldEnds
  BY MapSame DEF Crash, Stays, Held, Over
<1>2. CallsMade' = [CallsMade EXCEPT ![p] = None]
  BY MapCall DEF Crash, CallOf, IInv, TypeOK
<1>3. Abstract!Kill(p)
  BY <1>1, <1>2, MapTask DEF Abstract!Kill, Crash, Stays, NoAgent
<1>4. QED
  BY <1>3, CallSteps DEF Crash

\* A step of KeyHolder, or none.
Implements == Abstract!Next \/ UNCHANGED Abstract!vars

LEMMA Goes ==
    ASSUME IInv, NEW p \in Processes, task[p] # Idle, NEW pc \in Steps, Goto(p, pc),
           NEW t, t = [task[p] EXCEPT !.pc = pc]
    PROVE  /\ t \in Call /\ t.pc = pc /\ t.op = task[p].op /\ t.vault = task[p].vault
           /\ t.key = task[p].key /\ t.ttl = task[p].ttl
           /\ CallsMade' = [CallsMade EXCEPT ![p] = CallOf(t)] /\ answer' = answer
<1>1. task[p] \in Call
  BY TypesOf DEF IInv
<1>2. t \in Call /\ t.pc = pc /\ t.op = task[p].op /\ t.vault = task[p].vault
      /\ t.key = task[p].key /\ t.ttl = task[p].ttl
  BY <1>1 DEF Call
<1>3. QED
  BY <1>2, MapCall DEF Goto, IInv, TypeOK

\* A step that KeyHolder does not see in the call.
LEMMA GoesUnseen ==
    ASSUME IInv, NEW p \in Processes, task[p] # Idle, NEW pc \in Steps, Goto(p, pc),
           task[p].op = "put",
           \/ {pc, task[p].pc} \subseteq {"dropKey", "dropExpiry", "addKey", "conf", "reload",
                                          "record", "presetKey"}
           \/ {pc, task[p].pc} \subseteq {"endKey", "addExpiry", "endExpiry", "presetExpiry"}
    PROVE  CallsMade' = CallsMade /\ answer' = answer
<1>1. PICK t : t = [task[p] EXCEPT !.pc = pc]
  OBVIOUS
<1>2. t \in Call /\ t.pc = pc /\ t.op = task[p].op /\ t.vault = task[p].vault
      /\ t.key = task[p].key /\ t.ttl = task[p].ttl
      /\ CallsMade' = [CallsMade EXCEPT ![p] = CallOf(t)] /\ answer' = answer
  BY <1>1, Goes
<1>3. CallOf(t) = CallOf(task[p]) /\ CallsMade[p] = CallOf(task[p])
  BY <1>2, SameCall, MapTask DEF Done
<1>4. CallsMade' = CallsMade
  BY <1>2, <1>3 DEF CallsMade
<1>5. QED
  BY <1>2, <1>4

\* And one by which it has done what it is there for.
LEMMA GoesDone ==
    ASSUME IInv, NEW p \in Processes, task[p] # Idle, NEW pc \in Steps, Goto(p, pc),
           IF task[p].op = "put" THEN pc \in {"endKey", "addExpiry", "endExpiry", "presetExpiry"}
           ELSE pc = "dropExpiry"
    PROVE  Abstract!Served(p)
<1>1. PICK t : t = [task[p] EXCEPT !.pc = pc]
  OBVIOUS
<1>2. t \in Call /\ t.pc = pc /\ t.op = task[p].op /\ t.vault = task[p].vault
      /\ t.key = task[p].key /\ t.ttl = task[p].ttl
      /\ CallsMade' = [CallsMade EXCEPT ![p] = CallOf(t)] /\ answer' = answer
  BY <1>1, Goes
<1>3. CallOf(t) = [CallOf(task[p]) EXCEPT !.done = TRUE] /\ CallsMade[p] = CallOf(task[p])
  BY <1>2, DoneCall, MapTask DEF Done
<1>4. QED
  BY <1>2, <1>3 DEF Abstract!Served

\* A refusal before anything is stored.
LEMMA MapRefuse ==
    ASSUME IInv, NEW p \in Processes, task[p] # Idle, task[p].op = "put",
           task[p].pc \in {"dropKey", "reload", "presetKey"}, Ends(p, "refused"), Stays, NoAgent,
           UNCHANGED entry
    PROVE  Implements
<1>1. HeldKeys' = HeldKeys /\ HeldEnds' = HeldEnds
  BY MapSame, HeldStays DEF Stays
<1>2. Abstract!Answers(p, "refused")
  BY MapAnswer
<1>3. Abstract!IsPut(p) /\ ~CallsMade[p].done
  <2>1. CallsMade[p].done = Done(task[p]) /\ CallsMade[p].op = "put" /\ CallsMade[p] # None
    BY MapTask, CallFields
  <2>2. ~Done(task[p])
    BY DEF Done
  <2>3. QED
    BY <2>1, <2>2 DEF Abstract!IsPut
<1>4. Abstract!Refuse(p)
  BY <1>1, <1>2, <1>3 DEF Abstract!Refuse, Stays, NoAgent
<1>5. QED
  BY <1>4, CallSteps DEF Implements

\* An end of a call that has had its effect.
LEMMA MapReturn ==
    ASSUME IInv, NEW p \in Processes, task[p] # Idle, Done(task[p]), NEW a, Ends(p, a),
           a = IF task[p].op = "undo" THEN "refused" ELSE "ok", Stays, NoAgent,
           entry'["key"] = entry["key"]
    PROVE  Implements
<1>1. HeldKeys' = HeldKeys /\ HeldEnds' = HeldEnds
  BY MapSame, HeldStays DEF Stays
<1>2. Abstract!Answers(p, a)
  BY MapAnswer
<1>3. CallsMade[p] # None /\ CallsMade[p].done /\ CallsMade[p].op = task[p].op
  BY MapTask, CallFields
<1>4. Abstract!Return(p)
  BY <1>1, <1>2, <1>3 DEF Abstract!Return, Abstract!Result, Stays, NoAgent
<1>5. QED
  BY <1>4, CallSteps DEF Implements

LEMMA MapUnseen ==
    ASSUME IInv, CallsMade' = CallsMade, answer' = answer, Stays,
           agent'["loaded"] = agent["loaded"], entry'["key"] = entry["key"]
    PROVE  Implements
<1>1. HeldKeys' = HeldKeys /\ HeldEnds' = HeldEnds
  BY MapSame, HeldStays DEF Stays
<1>2. UNCHANGED Abstract!vars
  BY <1>1 DEF Abstract!vars, Stays
<1>3. QED
  BY <1>2 DEF Implements

\* A put that takes back what it did: its vault's key goes, or is not touched.
LEMMA MapTakeBack ==
    ASSUME IInv, NEW p \in Processes, task[p] # Idle, task[p].op = "put",
           kind \in {"keyctl", "gpg-agent"}, Undo(p), Stays, NoAgent,
           Abstract!Lost({task[p].vault}) \/ entry'["key"] = entry["key"]
    PROVE  Implements
<1>1. PICK t : t = [task[p] EXCEPT !.pc = FirstStep("clear"), !.op = "undo"]
  OBVIOUS
<1>2. FirstStep("clear") \in {"dropKey", "clearBoth"}
  BY DEF FirstStep
<1>3. task[p] \in Call /\ CallsMade[p] = CallOf(task[p]) /\ CallsMade[p] # None
  BY MapTask
<1>4. t \in Call /\ t.pc \in {"dropKey", "clearBoth"} /\ t.op = "undo"
      /\ t.vault = task[p].vault /\ t.key = task[p].key /\ t.ttl = task[p].ttl
  BY <1>1, <1>2, <1>3 DEF Call, Steps
<1>5. CallsMade' = [CallsMade EXCEPT ![p] = CallOf(t)] /\ answer' = answer
  BY <1>1, MapCall DEF Undo, IInv, TypeOK
<1>6. CallOf(t) = [CallOf(task[p]) EXCEPT !.op = "undo", !.done = FALSE]
  <2>1. ~Done(t)
    BY <1>4 DEF Done
  <2>2. QED
    BY <1>3, <1>4, <2>1, UndoCall
<1>7. Abstract!Lost({task[p].vault}) \/ (HeldKeys' = HeldKeys /\ HeldEnds' = HeldEnds)
  BY MapSame, HeldStays DEF Stays
<1>8. CallsMade[p].op = "put" /\ CallsMade[p].vault = task[p].vault
  BY <1>3, CallFields
<1>9. Abstract!TakeBack(p)
  BY <1>3, <1>5, <1>6, <1>7, <1>8 DEF Abstract!TakeBack, Abstract!IsPut, Stays, NoAgent
<1>10. QED
  BY <1>9, CallSteps DEF Implements

LEMMA LoseOne ==
    ASSUME NEW u \in Vaults, Stays, entry'["key"][u] = None,
           \A v \in Vaults \ {u} : entry'["key"][v] = entry["key"][v]
    PROVE  Abstract!Lost({u})
<1>1. Held(u)' = None
  BY DEF Held
<1>2. \A v \in Vaults \ {u} : Held(v)' = Held(v)
  BY HeldStays DEF Stays
<1>3. QED
  BY <1>1, <1>2, MapLost

\* A put stores its key, with its end or, in the keyring, without one yet.
LEMMA MapStore ==
    ASSUME IInv, NEW p \in Processes, task[p] # Idle, task[p].op = "put", Abstract!Served(p),
           NEW u, u = task[p].vault, NEW stop, NEW k, k = task[p].key, k # None,
           Held(u)' = k, entry'["key"][u].ends = stop,
           \/ kind = "keyctl" /\ stop = Never
           \/ stop = now + task[p].ttl
           \/ kind = "gpg-agent" /\ ~steady /\ \E d \in Durations : stop = now + d,
           \A v \in Vaults \ {u} :
             IF kind = "memory" THEN Held(v)' = None
             ELSE Held(v)' = Held(v) /\ entry'["key"][v] = entry["key"][v],
           Stays, NoAgent
    PROVE  Implements
<1>1. /\ CallsMade[p] # None /\ CallsMade[p].op = "put" /\ CallsMade[p].vault = u
      /\ CallsMade[p].key = k /\ CallsMade[p].ttl = task[p].ttl
  BY MapTask, CallFields
<1>2. HeldKeys' = [v \in Vaults |-> IF v = u THEN k
                                    ELSE IF kind = "memory" THEN None ELSE HeldKeys[v]]
  BY DEF HeldKeys
<1>3. HeldEnds' = [v \in Vaults |-> IF v = u THEN stop
                                    ELSE IF kind = "memory" THEN None ELSE HeldEnds[v]]
  BY DEF HeldEnds
<1>4. Abstract!Store(p)
  <2>1. task[p].ttl \in Durations
    BY TypesOf DEF IInv
  <2>2. QED
    BY <1>1, <1>2, <1>3, <2>1 DEF Abstract!Store, Abstract!IsPut, Stays, NoAgent
<1>5. QED
  BY <1>4, CallSteps DEF Implements

LEMMA MapDrop ==
    ASSUME IInv, NEW p \in Processes, task[p] # Idle, task[p].op # "put", Abstract!Served(p),
           Abstract!Lost({task[p].vault}), Stays, NoAgent
    PROVE  Implements
<1>1. CallsMade[p] # None /\ CallsMade[p].op \in {"clear", "undo"}
      /\ CallsMade[p].vault = task[p].vault
  BY MapTask, CallFields, TypesOf DEF IInv
<1>2. Abstract!Drop(p)
  BY <1>1 DEF Abstract!Drop, Stays, NoAgent
<1>3. QED
  BY <1>2, CallSteps DEF Implements

\* What a call that ends is to KeyHolder.
LEMMA EndServes ==
    ASSUME IInv, NEW p \in Processes, task[p] # Idle, NEW a, Ends(p, a),
           a = IF task[p].op = "undo" THEN "refused" ELSE "ok"
    PROVE  Abstract!Served(p)
<1>1. Abstract!Answers(p, a)
  BY MapAnswer
<1>2. CallsMade[p].op = task[p].op
  BY MapTask, CallFields
<1>3. QED
  BY <1>1, <1>2 DEF Abstract!Served, Abstract!Result

-----------------------------------------------------------------------------
(* The steps of the kernel's holder, to KeyHolder *)

LEMMA MapCheckDenied ==
    ASSUME IInv, NEW p \in Processes, CheckDenied(p)
    PROVE  Implements
<1>1. task[p] # Idle /\ task[p].pc = "dropKey"
  BY DEF CheckDenied, At, Idle
<1>2. QED
  BY <1>1, MapRefuse DEF CheckDenied

LEMMA MapUnlinkKey ==
    ASSUME IInv, NEW p \in Processes, UnlinkKey(p)
    PROVE  Implements
<1>1. task[p] # Idle /\ task[p].pc = "dropKey" /\ Goto(p, "dropExpiry") /\ "dropExpiry" \in Steps
      /\ Stays /\ NoAgent
  BY DEF UnlinkKey, At, Idle, Steps
<1>2. PICK u : u = task[p].vault
  OBVIOUS
<1>3. u \in Vaults
  BY <1>1, <1>2, TypesOf DEF IInv
<1>4. Abstract!Lost({u})
  <2>1. TypeOK /\ entry' = [entry EXCEPT !["key"][u] = None]
    BY <1>2 DEF UnlinkKey, Without, IInv
  <2>2. entry'["key"][u] = None /\ \A v \in Vaults \ {u} : entry'["key"][v] = entry["key"][v]
    BY <1>3, <2>1 DEF TypeOK, Parts
  <2>3. QED
    BY <1>1, <1>3, <2>2, LoseOne
<1>5. CASE task[p].op = "put"
  <2>1. CallsMade' = CallsMade /\ answer' = answer
    BY <1>1, <1>5, GoesUnseen
  <2>2. CallsMade[p] # None /\ CallsMade[p].op = "put" /\ CallsMade[p].vault = u
        /\ CallsMade[p].done = Done(task[p])
    BY <1>1, <1>2, <1>5, MapTask, CallFields
  <2>3. ~CallsMade[p].done
    BY <1>1, <1>5, <2>2 DEF Done
  <2>4. Abstract!MakeRoom(p)
    BY <1>1, <1>4, <2>1, <2>2, <2>3 DEF Abstract!MakeRoom, Abstract!IsPut, Stays, NoAgent
  <2>5. QED
    BY <1>1, <2>4, CallSteps DEF Implements
<1>6. CASE task[p].op # "put"
  <2>1. Abstract!Served(p)
    BY <1>1, <1>6, GoesDone
  <2>2. QED
    BY <1>1, <1>2, <1>4, <1>6, <2>1, MapDrop
<1>7. QED
  BY <1>5, <1>6

LEMMA MapUnlinkExpiry ==
    ASSUME IInv, NEW p \in Processes, UnlinkExpiry(p)
    PROVE  Implements
<1>1. task[p] # Idle /\ task[p].pc = "dropExpiry" /\ Stays /\ NoAgent
      /\ entry' = [entry EXCEPT !["expiry"][task[p].vault] = None]
  BY DEF UnlinkExpiry, At, Idle, Without
<1>2. entry'["key"] = entry["key"] /\ agent'["loaded"] = agent["loaded"]
  BY <1>1 DEF IInv, TypeOK, Parts, NoAgent
<1>3. CASE task[p].op = "put"
  <2>1. Goto(p, "addKey") /\ "addKey" \in Steps
    BY <1>3 DEF UnlinkExpiry, Steps
  <2>2. CallsMade' = CallsMade /\ answer' = answer
    BY <1>1, <1>3, <2>1, GoesUnseen
  <2>3. QED
    BY <1>1, <1>2, <2>2, MapUnseen
<1>4. CASE task[p].op # "put"
  <2>1. Ends(p, IF task[p].op = "undo" THEN "refused" ELSE "ok")
    <3>1. task[p].op \in {"clear", "undo"}
      BY <1>1, <1>4, TypesOf DEF IInv
    <3>2. CASE task[p].op = "clear"
      BY <3>2 DEF UnlinkExpiry
    <3>3. CASE task[p].op = "undo"
      BY <3>3 DEF UnlinkExpiry
    <3>4. QED
      BY <3>1, <3>2, <3>3
  <2>2. Done(task[p])
    BY <1>1, <1>4 DEF Done
  <2>3. PICK a : a = IF task[p].op = "undo" THEN "refused" ELSE "ok"
    OBVIOUS
  <2>4. QED
    BY <1>1, <1>2, <2>1, <2>2, <2>3, MapReturn
<1>5. QED
  BY <1>3, <1>4

\* The entries of one name are set, and those of the others are not.
LEMMA SetsOne ==
    ASSUME TypeOK, NEW part \in Parts, NEW u \in Vaults, NEW x,
           entry' = [entry EXCEPT ![part][u] = x]
    PROVE  /\ part = "key" => /\ entry'["key"][u] = x
                              /\ \A v \in Vaults \ {u} : entry'["key"][v] = entry["key"][v]
           /\ part # "key" => entry'["key"] = entry["key"]
BY DEF TypeOK, Parts

\* What a holder other than the memory stores is held.
LEMMA HeldNow ==
    ASSUME kind # "memory", kind' = kind, NEW u \in Vaults, entry'["key"][u] # None
    PROVE  Held(u)' = entry'["key"][u].value
BY DEF Held

LEMMA MapAdd ==
    ASSUME IInv, NEW p \in Processes, Add(p)
    PROVE  Implements
<1>1. task[p] # Idle /\ task[p].pc \in {"addKey", "addExpiry"} /\ Stays /\ NoAgent
  BY DEF Add, Idle
<1>2. PICK u, part, id, next :
        /\ u = task[p].vault /\ part = PartOf(p)
        /\ id = IF entry[part][u] = None THEN FreeId ELSE entry[part][u].id
        /\ next = IF part = "key" THEN "endKey" ELSE "endExpiry"
  OBVIOUS
<1>3. part = IF task[p].pc = "addKey" THEN "key" ELSE "expiry"
  BY <1>1, <1>2 DEF PartOf
<1>4. task[p] \in Call /\ u \in Vaults /\ part \in Parts /\ kind = "keyctl"
      /\ task[p].op = "put" /\ task[p].key \in Keys
  BY <1>1, <1>2, <1>3, TypesOf DEF IInv, Fits, CallFits, Parts, Puts
<1>5. id \in Nat \cup {None}
  BY <1>2, <1>4, FreeIdIsFree, EntryTyped DEF IInv
<1>6. PICK x : x = [value |-> Payload(p), id |-> id, ends |-> Never]
  OBVIOUS
<1>7. /\ entry' = [entry EXCEPT ![part][u] = x]
      /\ task' = [task EXCEPT ![p].pc = next, ![p].id = id] /\ answer' = answer
  BY <1>2, <1>6 DEF Add
<1>8. PICK t : t = [task[p] EXCEPT !.pc = next, !.id = id]
  OBVIOUS
<1>9. t \in Call /\ t.pc = next /\ t.op = task[p].op /\ t.vault = u
      /\ t.key = task[p].key /\ t.ttl = task[p].ttl
  BY <1>2, <1>4, <1>5, <1>8 DEF Call, Steps
<1>10. CallsMade' = [CallsMade EXCEPT ![p] = CallOf(t)] /\ CallsMade[p] = CallOf(task[p])
  <2>1. task' = [task EXCEPT ![p] = t]
    BY <1>7, <1>8 DEF IInv, TypeOK
  <2>2. QED
    BY <1>1, <1>9, <2>1, MapCall, MapTask DEF IInv, TypeOK
<1>11. (part = "key" => /\ entry'["key"][u] = x
                        /\ \A v \in Vaults \ {u} : entry'["key"][v] = entry["key"][v])
       /\ (part # "key" => entry'["key"] = entry["key"])
  BY <1>4, <1>7, SetsOne DEF IInv
<1>12. CASE task[p].pc = "addKey"
  <2>1. Abstract!Served(p)
    <3>1. CallOf(t) = [CallOf(task[p]) EXCEPT !.done = TRUE]
      BY <1>2, <1>3, <1>4, <1>9, <1>12, DoneCall DEF Done
    <3>2. QED
      BY <1>7, <1>10, <3>1 DEF Abstract!Served
  <2>2. PICK k : k = task[p].key
    OBVIOUS
  <2>3. x.value = k /\ x.ends = Never /\ x # None /\ k # None
    <3>1. Payload(p) = k /\ k # None
      BY <1>2, <1>3, <1>4, <1>12, <2>2, HoldersAssumption DEF Payload
    <3>2. k \in Keys
      BY <1>4, <2>2
    <3>3. x \in Stored(Keys \cup Nat)
      BY <1>5, <1>6, <3>1, <3>2 DEF Stored
    <3>4. QED
      BY <1>6, <3>1, <3>3, NoneIsNothing
  <2>4. entry'["key"][u] = x /\ \A v \in Vaults \ {u} : entry'["key"][v] = entry["key"][v]
    BY <1>3, <1>11, <1>12
  <2>5. Held(u)' = k
    BY <1>1, <1>4, <2>3, <2>4, HeldNow DEF Stays
  <2>6. \A v \in Vaults \ {u} : Held(v)' = Held(v) /\ entry'["key"][v] = entry["key"][v]
    BY <1>1, <2>4, HeldStays DEF Stays
  <2>7. PICK stop : stop = Never
    OBVIOUS
  <2>8. QED
    BY <1>1, <1>2, <1>4, <2>1, <2>2, <2>3, <2>4, <2>5, <2>6, <2>7, MapStore
<1>13. CASE task[p].pc = "addExpiry"
  <2>1. CallOf(t) = CallOf(task[p])
    BY <1>2, <1>3, <1>4, <1>9, <1>13, SameCall DEF Done
  <2>2. CallsMade' = CallsMade
    BY <1>10, <2>1 DEF CallsMade
  <2>3. entry'["key"] = entry["key"] /\ agent'["loaded"] = agent["loaded"]
    BY <1>1, <1>3, <1>11, <1>13 DEF NoAgent
  <2>4. QED
    BY <1>1, <1>7, <2>2, <2>3, MapUnseen
<1>14. QED
  BY <1>1, <1>12, <1>13

LEMMA MapAddFails ==
    ASSUME IInv, NEW p \in Processes, AddFails(p)
    PROVE  Implements
<1>1. task[p] # Idle /\ task[p].pc \in {"addKey", "addExpiry"} /\ Undo(p) /\ Stays /\ NoAgent
      /\ entry' = entry
  BY DEF AddFails, Idle
<1>2. task[p].op = "put" /\ kind = "keyctl"
  BY <1>1 DEF IInv, Fits, CallFits, Puts
<1>3. QED
  BY <1>1, <1>2, MapTakeBack

LEMMA MapSetTimeout ==
    ASSUME IInv, NEW p \in Processes, SetTimeout(p)
    PROVE  Implements
<1>1. task[p] # Idle /\ task[p].pc \in {"endKey", "endExpiry"} /\ Stays /\ NoAgent /\ Linked(p)
  BY DEF SetTimeout, Idle
<1>2. PICK u, part, stop : u = task[p].vault /\ part = PartOf(p) /\ stop = now + task[p].ttl
  OBVIOUS
<1>3. part = IF task[p].pc = "endKey" THEN "key" ELSE "expiry"
  BY <1>1, <1>2 DEF PartOf
<1>4. u \in Vaults /\ part \in Parts /\ kind = "keyctl" /\ task[p].op = "put"
      /\ entry[part][u] # None
  BY <1>1, <1>2, <1>3, TypesOf DEF IInv, Fits, CallFits, Parts, Puts, Linked
<1>5. PICK x : x = [entry[part][u] EXCEPT !.ends = stop]
  OBVIOUS
<1>6. entry[part][u] \in Stored(Keys \cup Nat)
  BY <1>4, EntryTyped DEF IInv
<1>7. x.value = entry[part][u].value /\ x.ends = stop
  BY <1>5, <1>6 DEF Stored
<1>8. entry' = [entry EXCEPT ![part][u] = x]
  BY <1>2, <1>4, <1>5 DEF SetTimeout, IInv, TypeOK
<1>9. (part = "key" => /\ entry'["key"][u] = x
                       /\ \A v \in Vaults \ {u} : entry'["key"][v] = entry["key"][v])
      /\ (part # "key" => entry'["key"] = entry["key"])
  BY <1>4, <1>8, SetsOne DEF IInv
<1>10. CASE task[p].pc = "endKey"
  <2>1. Goto(p, "addExpiry") /\ "addExpiry" \in Steps
    BY <1>2, <1>3, <1>10 DEF SetTimeout, Steps
  <2>2. CallsMade' = CallsMade /\ answer' = answer
    BY <1>1, <1>4, <1>10, <2>1, GoesUnseen
  <2>3. entry'["key"][u] = x /\ \A v \in Vaults \ {u} : entry'["key"][v] = entry["key"][v]
    BY <1>3, <1>9, <1>10
  <2>4. Held(u) # None /\ Held(u)' = Held(u)
    <3>1. Held(u) = entry["key"][u].value /\ Held(u) # None /\ part = "key"
      BY <1>3, <1>4, <1>10, HeldOutside DEF IInv
    <3>2. x # None
      <4>1. now + task[p].ttl \in Nat
        <5>1. task[p].ttl \in Nat
          BY <1>1, TypesOf DEF IInv
        <5>2. now \in Nat
          BY DEF IInv, TypeOK
        <5>3. QED
          BY <5>1, <5>2
      <4>2. x \in Stored(Keys \cup Nat)
        BY <1>2, <1>5, <1>6, <4>1 DEF Stored
      <4>3. QED
        BY <4>2, NoneIsNothing
    <3>3. Held(u)' = x.value
      BY <1>1, <1>4, <2>3, <3>2, HeldNow DEF Stays
    <3>4. QED
      BY <1>7, <3>1, <3>3
  <2>5. \A v \in Vaults \ {u} : Held(v)' = Held(v)
    BY <1>1, <2>3, HeldStays DEF Stays
  <2>6. HeldKeys' = HeldKeys
    BY <2>4, <2>5 DEF HeldKeys
  <2>7. HeldEnds' = [HeldEnds EXCEPT ![u] = stop]
    <3>1. HeldEnds' = [v \in Vaults |-> IF v = u THEN stop ELSE HeldEnds[v]]
      BY <1>7, <2>3, <2>4, <2>5 DEF HeldEnds
    <3>2. QED
      BY <3>1 DEF HeldEnds
  <2>8. CallsMade[p] # None /\ CallsMade[p].op = "put" /\ CallsMade[p].vault = u
        /\ CallsMade[p].done = Done(task[p]) /\ CallsMade[p].ttl = task[p].ttl
    BY <1>1, <1>2, <1>4, MapTask, CallFields
  <2>9. CallsMade[p].done
    BY <1>4, <1>10, <2>8 DEF Done
  <2>10. HeldKeys[u] # None
    BY <1>4, <2>4 DEF HeldKeys
  <2>11. Abstract!SetEnd(p)
    BY <1>1, <1>2, <1>4, <2>2, <2>6, <2>7, <2>8, <2>9, <2>10
       DEF Abstract!SetEnd, Abstract!IsPut, Stays, NoAgent
  <2>12. QED
    BY <1>1, <2>11, CallSteps DEF Implements
<1>11. CASE task[p].pc = "endExpiry"
  <2>1. Ends(p, "ok") /\ Done(task[p]) /\ entry'["key"] = entry["key"]
    BY <1>2, <1>3, <1>4, <1>9, <1>11 DEF SetTimeout, Done
  <2>2. PICK a : a = "ok"
    OBVIOUS
  <2>3. QED
    BY <1>1, <1>4, <2>1, <2>2, MapReturn
<1>12. QED
  BY <1>1, <1>10, <1>11

LEMMA MapTimeoutFails ==
    ASSUME IInv, NEW p \in Processes, TimeoutFails(p)
    PROVE  Implements
<1>1. task[p] # Idle /\ task[p].pc \in {"endKey", "endExpiry"} /\ Undo(p) /\ Stays /\ NoAgent
  BY DEF TimeoutFails, Idle
<1>2. PICK u, part : u = task[p].vault /\ part = PartOf(p)
  OBVIOUS
<1>3. u \in Vaults /\ part \in Parts /\ task[p].op = "put" /\ kind = "keyctl"
  BY <1>1, <1>2, TypesOf DEF IInv, Fits, CallFits, Puts, PartOf, Parts
<1>4. Abstract!Lost({u}) \/ entry'["key"] = entry["key"]
  <2>1. CASE Linked(p)
    <3>1. entry' = [entry EXCEPT ![part][u] = None]
      BY <1>2, <2>1 DEF TimeoutFails, Without
    <3>2. /\ part = "key" => /\ entry'["key"][u] = None
                             /\ \A v \in Vaults \ {u} : entry'["key"][v] = entry["key"][v]
          /\ part # "key" => entry'["key"] = entry["key"]
      BY <1>3, <3>1, SetsOne DEF IInv
    <3>3. QED
      BY <1>1, <1>3, <3>2, LoseOne
  <2>2. CASE ~Linked(p)
    BY <2>2 DEF TimeoutFails
  <2>3. QED
    BY <2>1, <2>2
<1>5. QED
  BY <1>1, <1>2, <1>3, <1>4, MapTakeBack

-----------------------------------------------------------------------------
(* The steps of the agent's holder, to KeyHolder *)

\* The files are not the agent's: a config is written before anything is lost.
LEMMA MapWriteConf ==
    ASSUME IInv, NEW p \in Processes, WriteConf(p)
    PROVE  Implements
<1>1. task[p] # Idle /\ task[p].pc = "conf" /\ Stays /\ UNCHANGED entry
      /\ agent'["loaded"] = agent["loaded"]
  BY DEF WriteConf, At, Idle, IInv, TypeOK
<1>2. task[p].op = "put" /\ kind = "gpg-agent" /\ task[p] \in Call
  BY <1>1, TypesOf DEF IInv, Fits, CallFits, Puts
<1>3. PICK pc \in {"reload", "presetKey"} : Goto(p, pc)
  BY DEF WriteConf
<1>4. CallsMade' = CallsMade /\ answer' = answer
  <2>1. pc \in Steps
    BY <1>3 DEF Steps
  <2>2. QED
    BY <1>1, <1>2, <1>3, <2>1, GoesUnseen
<1>5. QED
  BY <1>1, <1>4, MapUnseen

\* A put that reloads found another duration on record, and nobody has recorded its own since.
LEMMA MapReload ==
    ASSUME IInv, NEW p \in Processes, Reload(p), agent["loaded"] # task[p].ttl
    PROVE  Implements
<1>1. task[p] # Idle /\ task[p].pc = "reload" /\ Stays /\ entry' = Empty
      /\ agent'["loaded"] = agent["loaded"]
  BY DEF Reload, At, Idle, IInv, TypeOK
<1>2. task[p].op = "put" /\ task[p] \in Call /\ kind = "gpg-agent"
  BY <1>1, TypesOf DEF IInv, Fits, CallFits, Puts
<1>3. Abstract!Lost(Vaults)
  <2>1. \A v \in Vaults : Held(v)' = None
    BY <1>1, EmptyTyped DEF Held, Parts
  <2>2. QED
    BY <2>1, MapLost
<1>4. CallsMade[p] # None /\ CallsMade[p].op = "put" /\ CallsMade[p].ttl = task[p].ttl
  BY <1>1, <1>2, MapTask, CallFields
<1>5. \/ CallsMade' = CallsMade /\ answer' = answer
      \/ Abstract!Answers(p, "refused")
  <2>1. CASE Goto(p, "record")
    <3>1. "record" \in Steps
      BY DEF Steps
    <3>2. QED
      BY <1>1, <1>2, <2>1, <3>1, GoesUnseen
  <2>2. CASE Ends(p, "refused")
    BY <1>1, <2>2, MapAnswer
  <2>3. QED
    BY <2>1, <2>2 DEF Reload
<1>6. Abstract!Flush(p)
  BY <1>1, <1>2, <1>3, <1>4, <1>5 DEF Abstract!Flush, Abstract!IsPut, Stays
<1>7. QED
  BY <1>1, <1>6, CallSteps DEF Implements

LEMMA MapReloadFails ==
    ASSUME IInv, NEW p \in Processes, ReloadFails(p)
    PROVE  Implements
<1>1. task[p] # Idle /\ task[p].pc = "reload"
  BY DEF ReloadFails, At, Idle
<1>2. task[p].op = "put"
  BY <1>1 DEF IInv, Fits, CallFits, Puts
<1>3. QED
  BY <1>1, <1>2, MapRefuse DEF ReloadFails

LEMMA MapRecordLoaded ==
    ASSUME IInv, NEW p \in Processes, RecordLoaded(p)
    PROVE  Implements
<1>1. task[p] # Idle /\ task[p].pc = "record" /\ Stays /\ UNCHANGED entry
      /\ Goto(p, "presetKey") /\ "presetKey" \in Steps
      /\ agent'["loaded"] = task[p].ttl
  BY DEF RecordLoaded, At, Idle, IInv, TypeOK, Steps
<1>2. task[p].op = "put" /\ kind = "gpg-agent" /\ task[p] \in Call
  BY <1>1, TypesOf DEF IInv, Fits, CallFits, Puts
<1>3. CallsMade' = CallsMade /\ answer' = answer
  BY <1>1, <1>2, GoesUnseen
<1>4. HeldKeys' = HeldKeys /\ HeldEnds' = HeldEnds
  BY <1>1, MapSame, HeldStays DEF Stays
<1>5. CallsMade[p] # None /\ CallsMade[p].op = "put" /\ CallsMade[p].ttl = task[p].ttl
  BY <1>1, <1>2, MapTask, CallFields
<1>6. Abstract!Record(p)
  BY <1>1, <1>2, <1>3, <1>4, <1>5 DEF Abstract!Record, Abstract!IsPut, Stays
<1>7. QED
  BY <1>1, <1>6, CallSteps DEF Implements

LEMMA MapPreset ==
    ASSUME IInv, NEW p \in Processes, Preset(p)
    PROVE  Implements
<1>1. task[p] # Idle /\ task[p].pc \in {"presetKey", "presetExpiry"} /\ Stays /\ NoAgent
  BY DEF Preset, Idle
<1>2. PICK u, part, stop : u = task[p].vault /\ part = PartOf(p) /\ stop = now + agent["runs"]
  OBVIOUS
<1>3. part = IF task[p].pc = "presetKey" THEN "key" ELSE "expiry"
  BY <1>1, <1>2 DEF PartOf
<1>4. u \in Vaults /\ part \in Parts /\ kind = "gpg-agent" /\ task[p].op = "put"
      /\ task[p].key \in Keys /\ task[p].ttl \in Nat
  BY <1>1, <1>2, <1>3, TypesOf DEF IInv, Fits, CallFits, Parts, Puts
<1>5. PICK x : x = [value |-> Payload(p), id |-> None, ends |-> EntryEnd]
  OBVIOUS
<1>6. entry' = [entry EXCEPT ![part][u] = x]
  BY <1>2, <1>5 DEF Preset
<1>7. (part = "key" => /\ entry'["key"][u] = x
                       /\ \A v \in Vaults \ {u} : entry'["key"][v] = entry["key"][v])
      /\ (part # "key" => entry'["key"] = entry["key"])
  BY <1>4, <1>6, SetsOne DEF IInv
<1>8. CASE task[p].pc = "presetKey"
  <2>1. Abstract!Served(p)
    <3>1. Goto(p, "presetExpiry") /\ "presetExpiry" \in Steps
      BY <1>2, <1>3, <1>8 DEF Preset, Steps
    <3>2. QED
      BY <1>1, <1>4, <1>8, <3>1, GoesDone
  <2>2. PICK k : k = task[p].key
    OBVIOUS
  <2>3. /\ x.ends = stop /\ agent["runs"] \in Durations
        /\ steady => agent["runs"] = task[p].ttl
    <3>1. agent["runs"] # None /\ agent["runs"] \in Durations
      BY <1>1 DEF IInv, TypeOK, Records, CallRecords
    <3>2. EntryEnd = stop
      BY <1>2, <3>1 DEF EntryEnd
    <3>3. steady => agent["runs"] = task[p].ttl
      BY <1>1, <1>4 DEF IInv, Fits, CallFits, Records, Recorded, CallRecords
    <3>4. QED
      BY <1>5, <3>1, <3>2, <3>3
  <2>4. x.value = k /\ x # None /\ k # None
    <3>1. Payload(p) = k /\ k # None /\ k \in Keys
      BY <1>2, <1>3, <1>4, <1>8, <2>2, HoldersAssumption DEF Payload
    <3>2. stop \in Nat
      <4>1. now \in Nat
        BY DEF IInv, TypeOK
      <4>2. agent["runs"] \in Nat
        BY <2>3, HoldersAssumption
      <4>3. stop = now + agent["runs"]
        BY <1>2
      <4>4. QED
        BY <4>1, <4>2, <4>3
    <3>3. x \in Stored(Keys \cup Nat)
      BY <1>5, <2>3, <3>1, <3>2 DEF Stored
    <3>4. QED
      BY <1>5, <3>1, <3>3, NoneIsNothing
  <2>5. entry'["key"][u] = x /\ \A v \in Vaults \ {u} : entry'["key"][v] = entry["key"][v]
    BY <1>3, <1>7, <1>8
  <2>6. Held(u)' = k
    BY <1>1, <1>4, <2>4, <2>5, HeldNow DEF Stays
  <2>7. \A v \in Vaults \ {u} : Held(v)' = Held(v) /\ entry'["key"][v] = entry["key"][v]
    BY <1>1, <2>5, HeldStays DEF Stays
  <2>8. QED
    BY <1>1, <1>2, <1>4, <2>1, <2>2, <2>3, <2>4, <2>5, <2>6, <2>7, MapStore
<1>9. CASE task[p].pc = "presetExpiry"
  <2>1. Ends(p, "ok") /\ Done(task[p]) /\ entry'["key"] = entry["key"]
    BY <1>2, <1>3, <1>4, <1>7, <1>9 DEF Preset, Done
  <2>2. PICK a : a = "ok"
    OBVIOUS
  <2>3. QED
    BY <1>1, <1>4, <2>1, <2>2, MapReturn
<1>10. QED
  BY <1>1, <1>8, <1>9

LEMMA MapPresetFails ==
    ASSUME IInv, NEW p \in Processes, PresetFails(p)
    PROVE  Implements
<1>1. task[p] # Idle /\ task[p].pc \in {"presetKey", "presetExpiry"} /\ Stays /\ NoAgent
      /\ entry' = entry
  BY DEF PresetFails, Idle
<1>2. task[p].op = "put" /\ kind = "gpg-agent"
  BY <1>1 DEF IInv, Fits, CallFits, Puts
<1>3. CASE task[p].pc = "presetKey"
  <2>1. Ends(p, "refused")
    BY <1>3 DEF PresetFails, PartOf
  <2>2. QED
    BY <1>1, <1>2, <1>3, <2>1, MapRefuse
<1>4. CASE task[p].pc = "presetExpiry"
  <2>1. Undo(p)
    BY <1>4 DEF PresetFails, PartOf
  <2>2. QED
    BY <1>1, <1>2, <1>4, <2>1, MapTakeBack
<1>5. QED
  BY <1>1, <1>3, <1>4

LEMMA MapClearBoth ==
    ASSUME IInv, NEW p \in Processes, ClearBoth(p)
    PROVE  Implements
<1>1. task[p] # Idle /\ task[p].pc = "clearBoth" /\ Stays /\ NoAgent
  BY DEF ClearBoth, At, Idle
<1>2. PICK u : u = task[p].vault
  OBVIOUS
<1>3. task[p].op \in {"clear", "undo"} /\ u \in Vaults
  BY <1>1, <1>2, TypesOf DEF IInv, Fits, CallFits
<1>4. PICK a : a = IF task[p].op = "undo" THEN "refused" ELSE "ok"
  OBVIOUS
<1>5. Abstract!Served(p)
  BY <1>1, <1>4, EndServes DEF ClearBoth, Result
<1>6. entry'["key"][u] = None /\ \A v \in Vaults \ {u} : entry'["key"][v] = entry["key"][v]
  <2>1. entry'["key"] = [entry EXCEPT !["key"][u] = None]["key"]
    BY <1>2 DEF ClearBoth, Without, Parts
  <2>2. QED
    BY <1>3, <2>1 DEF IInv, TypeOK, Parts
<1>7. Abstract!Lost({u})
  BY <1>1, <1>3, <1>6, LoseOne
<1>8. QED
  BY <1>1, <1>2, <1>3, <1>5, <1>7, MapDrop

LEMMA MapClearMissed ==
    ASSUME IInv, NEW p \in Processes, ClearMissed(p)
    PROVE  Implements
<1>1. task[p] # Idle /\ task[p].pc = "clearBoth" /\ Stays /\ NoAgent /\ entry' = entry
      /\ task' = [task EXCEPT ![p] = Idle] /\ answer' = [answer EXCEPT ![p] = Result(p)]
  BY DEF ClearMissed, At, Idle
<1>2. task[p].op \in {"clear", "undo"} /\ kind = "gpg-agent"
  BY <1>1, TypesOf DEF IInv, Fits, CallFits
<1>3. CallsMade[p] # None /\ CallsMade[p].op = task[p].op
  BY <1>1, MapTask, CallFields
<1>4. CallsMade' = [CallsMade EXCEPT ![p] = None]
  BY <1>1, MapCall DEF CallOf, IInv, TypeOK
<1>5. HeldKeys' = HeldKeys /\ HeldEnds' = HeldEnds
  BY <1>1, MapSame, HeldStays DEF Stays
<1>6. Abstract!Miss(p)
  BY <1>1, <1>2, <1>3, <1>4, <1>5
     DEF Abstract!Miss, Abstract!Answers, Abstract!Result, Result, Stays, NoAgent
<1>7. QED
  BY <1>1, <1>6, CallSteps DEF Implements

-----------------------------------------------------------------------------
(* The steps of the memory, to KeyHolder *)

\* A key that is over is held no more, and what is stored nowhere is not either.
LEMMA HeldInMemory ==
    ASSUME TypeOK, kind = "memory", NEW v \in Vaults
    PROVE  /\ entry["key"][v] = None => Held(v) = None
           /\ entry["key"][v] # None /\ Over(entry["key"][v].ends) => Held(v) = None
BY DEF Held

\* To wipe one that is over loses nothing.
LEMMA MapWipe ==
    ASSUME IInv, kind = "memory", NEW u \in Vaults, entry["key"][u] # None,
           Over(entry["key"][u].ends), entry' = Empty, Stays, NoAgent,
           UNCHANGED <<task, answer>>
    PROVE  Implements
<1>1. \A v \in Vaults : Held(v) = None
  <2>1. \A v \in Vaults \ {u} : entry["key"][v] = None
    BY DEF IInv, Memory
  <2>2. QED
    BY <2>1, HeldInMemory DEF IInv
<1>2. \A v \in Vaults : Held(v)' = None
  BY EmptyTyped DEF Held, Parts
<1>3. HeldKeys' = HeldKeys /\ HeldEnds' = HeldEnds
  BY <1>1, <1>2, MapSame
<1>4. UNCHANGED Abstract!vars
  BY <1>3 DEF Abstract!vars, Stays, NoAgent, CallsMade
<1>5. QED
  BY <1>4 DEF Implements

LEMMA MapPutInMemory ==
    ASSUME IInv, NEW p \in Processes, PutInMemory(p)
    PROVE  Implements
<1>1. task[p] # Idle /\ task[p].pc = "locked" /\ task[p].op = "put" /\ Ends(p, "ok")
      /\ Stays /\ NoAgent
  BY DEF PutInMemory, At, Idle
<1>2. PICK u, stop, k : u = task[p].vault /\ stop = now + task[p].ttl /\ k = task[p].key
  OBVIOUS
<1>3. u \in Vaults /\ k \in Keys /\ kind = "memory" /\ task[p].ttl \in Nat \ {0}
  BY <1>1, <1>2, TypesOf DEF IInv, Fits, CallFits
<1>4. now \in Nat /\ stop \in Nat /\ ~(stop <= now)
  <2>1. now \in Nat
    BY DEF IInv, TypeOK
  <2>2. QED
    BY <1>2, <1>3, <2>1
<1>5. PICK x : x = [value |-> k, id |-> None, ends |-> stop]
  OBVIOUS
<1>6. x # None /\ x.value = k /\ x.ends = stop
  <2>1. x \in Stored(Keys \cup Nat)
    BY <1>3, <1>4, <1>5 DEF Stored
  <2>2. QED
    BY <1>5, <2>1, NoneIsNothing
<1>7. entry' = [Empty EXCEPT !["key"][u] = x]
  BY <1>2, <1>5 DEF PutInMemory
<1>8. entry'["key"][u] = x /\ \A v \in Vaults \ {u} : entry'["key"][v] = None
  BY <1>3, <1>7 DEF Empty, Parts
<1>9. Held(u)' = k
  <2>1. ~Over(stop)'
    BY <1>1, <1>4 DEF Over, Stays
  <2>2. QED
    BY <1>6, <1>8, <2>1 DEF Held
<1>10. \A v \in Vaults \ {u} : Held(v)' = None
  BY <1>8 DEF Held
<1>11. PICK a : a = "ok"
  OBVIOUS
<1>12. Abstract!Served(p)
  BY <1>1, <1>11, EndServes
<1>13. k # None
  BY <1>3, HoldersAssumption
<1>14. entry'["key"][u].ends = stop
  BY <1>6, <1>8
<1>15. QED
  BY <1>1, <1>2, <1>3, <1>9, <1>10, <1>12, <1>13, <1>14, MapStore

LEMMA MapClearMemory ==
    ASSUME IInv, NEW p \in Processes, ClearMemory(p)
    PROVE  Implements
<1>1. task[p] # Idle /\ task[p].pc = "locked" /\ task[p].op = "clear" /\ Ends(p, "ok")
      /\ Stays /\ NoAgent
  BY DEF ClearMemory, At, Idle
<1>2. PICK u : u = task[p].vault
  OBVIOUS
<1>3. u \in Vaults /\ kind = "memory"
  BY <1>1, <1>2, TypesOf DEF IInv, Fits, CallFits
<1>4. entry'["key"][u] = None /\ \A v \in Vaults \ {u} : entry'["key"][v] = entry["key"][v]
  <2>1. CASE entry["key"][u] # None
    <3>1. entry' = Empty
      BY <1>2, <2>1 DEF ClearMemory, Wipe
    <3>2. \A v \in Vaults \ {u} : entry["key"][v] = None
      BY <1>3, <2>1 DEF IInv, Memory
    <3>3. QED
      BY <1>3, <3>1, <3>2, EmptyTyped DEF Parts
  <2>2. CASE entry["key"][u] = None
    BY <1>2, <2>2 DEF ClearMemory
  <2>3. QED
    BY <2>1, <2>2
<1>5. Abstract!Lost({u})
  BY <1>1, <1>3, <1>4, LoseOne
<1>6. PICK a : a = "ok"
  OBVIOUS
<1>7. Abstract!Served(p)
  BY <1>1, <1>6, EndServes
<1>8. QED
  BY <1>1, <1>2, <1>5, <1>7, MapDrop

LEMMA MapTimerFires ==
    ASSUME IInv, TimerFires
    PROVE  Implements
BY MapUnseen DEF TimerFires, CallsMade, NoAgent

\* The late timer wipes the key it was set for, which is over, or none.
LEMMA MapExpire ==
    ASSUME IInv, NEW end \in late, Expire(end)
    PROVE  Implements
<1>1. Stays /\ NoAgent /\ UNCHANGED <<task, answer>>
  BY DEF Expire
<1>2. kind = "memory" /\ end \in Nat /\ end <= now
  BY DEF IInv, Memory, TypeOK
<1>3. CASE \E v \in Vaults : IsSetFor(v, end)
  <2>1. PICK v \in Vaults : entry["key"][v] # None /\ entry["key"][v].ends = end
    BY <1>3 DEF IsSetFor
  <2>2. Over(entry["key"][v].ends)
    BY <1>2, <2>1, HoldersAssumption DEF Over
  <2>3. entry' = Empty
    BY <1>3 DEF Expire, Wipe
  <2>4. QED
    BY <1>1, <1>2, <2>1, <2>2, <2>3, MapWipe
<1>4. CASE ~\E v \in Vaults : IsSetFor(v, end)
  BY <1>1, <1>4, MapUnseen DEF Expire, CallsMade, NoAgent
<1>5. QED
  BY <1>3, <1>4

LEMMA MapWipeOver ==
    ASSUME IInv, NEW v \in Vaults, WipeOver(v)
    PROVE  Implements
BY MapWipe DEF WipeOver, Wipe

-----------------------------------------------------------------------------
(* Time, the setting and restarts, to KeyHolder *)

LEMMA MapTick ==
    ASSUME IInv, Tick
    PROVE  Implements
<1>1. /\ now' = now + 1 /\ now \in Nat
      /\ UNCHANGED <<kind, setting, steady, calls, task, answer, promised, agent, timer, late>>
  BY DEF Tick, NoAgent, NoMemory, IInv, TypeOK
<1>2. PICK vs : vs = {v \in Vaults : HeldEnds[v] \notin {None, Never} /\ HeldEnds[v] <= now + 1}
  OBVIOUS
<1>3. ASSUME NEW v \in Vaults
      PROVE  /\ v \in vs => Held(v)' = None
             /\ v \notin vs => /\ Held(v)' = Held(v)
                               /\ Held(v) # None => entry'["key"][v] = entry["key"][v]
  <2>1. PICK e : e = entry["key"][v]
    OBVIOUS
  <2>2. e = None \/ e.ends \in Nat \cup {Never}
    BY <2>1 DEF IInv, TypeOK, Parts, Stored
  <2>3. HeldEnds[v] = IF Held(v) = None THEN None ELSE e.ends
    BY <2>1 DEF HeldEnds
  <2>4. None \notin Nat /\ Never \notin Nat /\ None # Never
    BY HoldersAssumption
  <2>5. v \in vs <=> Held(v) # None /\ e.ends # Never /\ e.ends <= now + 1
    <3>1. Held(v) # None => e # None
      BY <2>1 DEF Held
    <3>2. QED
      BY <1>2, <2>2, <2>3, <2>4, <3>1
  <2>6. CASE kind = "memory"
    <3>1. entry' = entry /\ kind' = kind
      BY <1>1, <2>6 DEF Tick
    <3>2. e # None => e.ends \in Nat
      BY <2>1, <2>6 DEF IInv, Memory
    <3>3. Held(v) = IF e = None \/ (e # None /\ e.ends <= now) THEN None ELSE e.value
      BY <2>1, <2>4, <2>6, <3>2 DEF Held, Over
    <3>4. Held(v)' = IF e = None \/ (e # None /\ e.ends <= now + 1) THEN None ELSE e.value
      BY <1>1, <2>1, <2>4, <2>6, <3>1, <3>2 DEF Held, Over
    <3>5. QED
      BY <1>1, <2>1, <2>4, <2>5, <3>1, <3>2, <3>3, <3>4
  <2>7. CASE kind # "memory"
    <3>1. entry'["key"][v] = IF e # None /\ e.ends # Never /\ e.ends <= now + 1 THEN None ELSE e
      BY <1>1, <2>1, <2>7 DEF Tick, Parts
    <3>2. Held(v) = IF e = None THEN None ELSE e.value
      BY <2>1, <2>7 DEF Held
    <3>3. e # None => e.value # None
      <4>1. e # None => e.value \in Keys
        BY <2>1 DEF IInv, TypeOK
      <4>2. QED
        BY <4>1, HoldersAssumption
    <3>4. Held(v)' = IF entry'["key"][v] = None THEN None ELSE entry'["key"][v].value
      BY <1>1, <2>7 DEF Held
    <3>5. QED
      BY <2>1, <2>5, <3>1, <3>2, <3>3, <3>4
  <2>8. QED
    BY <2>6, <2>7
<1>4. Abstract!Lost(vs)
  BY <1>3, MapLost
<1>5. Abstract!Pass
  BY <1>1, <1>2, <1>4 DEF Abstract!Pass, CallsMade
<1>6. QED
  BY <1>5 DEF Abstract!Next, Implements

LEMMA MapChangeSetting ==
    ASSUME IInv, NEW d \in Durations, ChangeSetting(d)
    PROVE  Implements
<1>1. /\ UNCHANGED <<kind, now, entry, task, answer, agent>>
      /\ steady' = (steady /\ (kind = "gpg-agent" => Settled))
  BY DEF ChangeSetting, NoAgent
<1>2. HeldKeys' = HeldKeys /\ HeldEnds' = HeldEnds
  BY <1>1, MapSame, HeldStays
<1>3. CASE kind = "gpg-agent" /\ ~Settled
  <2>1. Abstract!Unsettle
    BY <1>1, <1>2, <1>3 DEF Abstract!Unsettle, CallsMade
  <2>2. QED
    BY <2>1 DEF Abstract!Next, Implements
<1>4. CASE kind # "gpg-agent" \/ Settled
  <2>1. steady' = steady
    BY <1>1, <1>4 DEF IInv, TypeOK
  <2>2. UNCHANGED Abstract!vars
    BY <1>1, <1>2, <2>1 DEF Abstract!vars, CallsMade
  <2>3. QED
    BY <2>2 DEF Implements
<1>5. QED
  BY <1>3, <1>4

LEMMA MapRestart ==
    ASSUME IInv, Restart
    PROVE  Implements
<1>1. /\ kind \in {"gpg-agent", "memory"} /\ entry' = Empty /\ Stays /\ answer' = answer
      /\ task' = IF kind = "memory" THEN [p \in Processes |-> Idle] ELSE task
      /\ agent'["loaded"] = agent["loaded"]
  BY DEF Restart, IInv, TypeOK
<1>2. Abstract!Lost(Vaults)
  <2>1. \A v \in Vaults : Held(v)' = None
    BY <1>1, EmptyTyped DEF Held, Parts
  <2>2. QED
    BY <2>1, MapLost
<1>3. CallsMade' = IF kind = "memory" THEN [p \in Processes |-> None] ELSE CallsMade
  BY <1>1 DEF CallsMade, CallOf
<1>4. Abstract!Restart
  BY <1>1, <1>2, <1>3 DEF Abstract!Restart, Stays
<1>5. QED
  BY <1>4 DEF Abstract!Next, Implements

\* The calls that it leaves alone no more are to KeyHolder the calls they were.
LEMMA MapBegin ==
    ASSUME IInv, NEW p \in Processes, NEW op \in {"put", "clear"}, NEW v \in Vaults,
           NEW k \in Keys \cup {None}, op = "put" => k \in Keys, Begin(p, op, v, k)
    PROVE  Implements
<1>1. /\ kind \in Kinds /\ task[p] = Idle /\ answer' = [answer EXCEPT ![p] = None]
      /\ UNCHANGED <<kind, now, setting, steady, entry, agent, timer, late>>
  BY Begins
<1>2. PICK t \in Call : NewCall(op, v, k, t) /\ task'[p] = t /\ t # Idle
  BY Begins
<1>3. HeldKeys' = HeldKeys /\ HeldEnds' = HeldEnds
  BY <1>1, MapSame, HeldStays
<1>4. CallsMade[p] = None /\ CallsMade'[p] = CallOf(t)
  BY <1>1, <1>2 DEF CallsMade, CallOf
<1>5. \A q \in Processes \ {p} : CallsMade'[q] = CallsMade[q]
  <2>1. SUFFICES ASSUME NEW q \in Processes \ {p} PROVE CallOf(task'[q]) = CallOf(task[q])
    BY DEF CallsMade
  <2>2. OtherCall(q, v)
    BY Begins
  <2>3. CASE task[q] = Idle
    BY <2>2, <2>3 DEF OtherCall
  <2>4. CASE task[q] # Idle
    <3>1. PICK s \in Call, s2 \in Call :
            /\ s = task[q] /\ s2 = task'[q] /\ s2.pc = s.pc /\ s2.op = s.op
            /\ s2.vault = s.vault /\ s2.key = s.key /\ s2.ttl = s.ttl
      BY <2>2, <2>4 DEF OtherCall
    <3>2. Done(s2) = Done(s)
      BY <3>1 DEF Done
    <3>3. CallOf(s2) = CallOf(s)
      BY <3>1, <3>2, SameCall
    <3>4. QED
      BY <3>1, <3>3
  <2>5. QED
    BY <2>3, <2>4
<1>6. CallsMade' = [CallsMade EXCEPT ![p] = CallsMade'[p]]
  BY <1>5 DEF CallsMade
<1>7. CallsMade'[p] \in [op : {"put", "clear"}, vault : Vaults, key : Keys \cup {None},
                         ttl : Durations, done : {FALSE}]
  <2>1. /\ t.pc \in {"dropKey", "conf", "clearBoth", "locked"}
        /\ t.op \in {"put", "clear"} /\ t.vault \in Vaults /\ t.key \in Keys \cup {None}
        /\ t.ttl \in Durations
    BY <1>2 DEF NewCall, Call
  <2>2. Done(t) = FALSE
    BY <2>1 DEF Done
  <2>3. CallOf(t) = [op |-> t.op, vault |-> t.vault, key |-> t.key, ttl |-> t.ttl,
                     done |-> FALSE]
    BY <1>2, <2>2 DEF CallOf
  <2>4. QED
    BY <1>4, <2>1, <2>3
<1>8. CallsMade'[p] # None
  BY <1>2, <1>4, CallFields
<1>9. kind # None
  BY <1>1, HoldersAssumption DEF Begin
<1>10. Abstract!Begin(p)
  BY <1>1, <1>3, <1>4, <1>6, <1>7, <1>8, <1>9 DEF Abstract!Begin
<1>11. QED
  BY <1>10 DEF Abstract!Next, Implements

-----------------------------------------------------------------------------
(* The refinement *)

LEMMA MapInit ==
    ASSUME Init
    PROVE  Abstract!Init
<1>1. kind \in {None, "keyctl", "gpg-agent", "memory"}
  BY SelectedIsKind DEF Init, Kinds
<1>2. HeldKeys = Abstract!Empty /\ HeldEnds = Abstract!Empty
  <2>1. \A v \in Vaults : Held(v) = None
    BY EmptyTyped DEF Init, Held, Parts
  <2>2. QED
    BY <2>1 DEF HeldKeys, HeldEnds, Abstract!Empty
<1>3. CallsMade = [p \in Processes |-> None]
  BY DEF Init, CallsMade, CallOf
<1>4. QED
  BY <1>1, <1>2, <1>3 DEF Abstract!Init, Init

\* Puts that do not cross: one of them reloads, and until it has put its own duration on record
\* there is another one there.
OneReload ==
    /\ \A p, q \in Processes : Reloading(p) /\ Reloading(q) => p = q
    /\ \A p \in Processes : task[p].pc = "reload" => agent["loaded"] # task[p].ttl

\* A step that begins no reload, and puts none on record.
LEMMA NoReload ==
    ASSUME OneReload, agent'["loaded"] = agent["loaded"],
           \A q \in Processes :
              \/ task'[q].pc \notin {"reload", "record"}
              \/ task'[q].pc = task[q].pc /\ task'[q].ttl = task[q].ttl
              \/ task'[q].pc = "record" /\ task[q].pc = "reload"
    PROVE  OneReload'
BY DEF OneReload, Reloading

\* A step of one call, to another place or to its end.
LEMMA NoReloadHere ==
    ASSUME IInv, OneReload, agent'["loaded"] = agent["loaded"], NEW p \in Processes,
           task[p] # Idle,
           \/ task' = [task EXCEPT ![p] = Idle]
           \/ \E pc \in Steps \ {"reload", "record"} :
                 \/ Goto(p, pc)
                 \/ task' = [task EXCEPT ![p].pc = pc, ![p].op = "undo"]
                 \/ \E id : task' = [task EXCEPT ![p].pc = pc, ![p].id = id]
           \/ task[p].pc = "reload" /\ Goto(p, "record")
    PROVE  OneReload'
<1>1. \A q \in Processes \ {p} : task'[q] = task[q]
  BY DEF Goto, IInv, TypeOK
<1>2. \/ task'[p].pc \notin {"reload", "record"}
      \/ task'[p].pc = "record" /\ task[p].pc = "reload"
  <2>1. task \in [Processes -> Call \cup {Idle}]
    BY DEF IInv, TypeOK
  <2>2. CASE task' = [task EXCEPT ![p] = Idle]
    BY <2>1, <2>2 DEF Idle
  <2>3. CASE task' # [task EXCEPT ![p] = Idle]
    <3>1. task[p] \in Call
      BY <2>1
    <3>2. ASSUME NEW pc \in Steps, task' = [task EXCEPT ![p].pc = pc] PROVE task'[p].pc = pc
      BY <2>1, <3>1, <3>2 DEF Call
    <3>3. ASSUME NEW pc \in Steps, task' = [task EXCEPT ![p].pc = pc, ![p].op = "undo"]
          PROVE  task'[p].pc = pc
      BY <2>1, <3>1, <3>3 DEF Call
    <3>4. ASSUME NEW pc \in Steps, NEW id, task' = [task EXCEPT ![p].pc = pc, ![p].id = id]
          PROVE  task'[p].pc = pc
      BY <2>1, <3>1, <3>4 DEF Call
    <3>5. "record" \in Steps
      BY DEF Steps
    <3>6. QED
      BY <2>3, <3>2, <3>3, <3>4, <3>5 DEF Goto
  <2>4. QED
    BY <2>2, <2>3
<1>3. QED
  BY <1>1, <1>2, NoReload

LEMMA OneReloadKeeps ==
    ASSUME "crossed" \notin Faults, IInv, OneReload, Next
    PROVE  OneReload'
<1>1. CASE Tick \/ TimerFires \/ \E v \in Vaults : WipeOver(v)
  BY <1>1, NoReload DEF Tick, TimerFires, WipeOver, NoAgent
<1>2. CASE \/ \E d \in Durations : ChangeSetting(d)
           \/ \E end \in late : Expire(end)
  BY <1>2, NoReload DEF ChangeSetting, Expire, NoAgent
<1>3. CASE Restart
  <2>1. agent'["loaded"] = agent["loaded"]
    BY <1>3 DEF Restart, IInv, TypeOK
  <2>2. \A q \in Processes : task'[q] = task[q] \/ task'[q] = Idle
    BY <1>3 DEF Restart
  <2>3. QED
    BY <2>1, <2>2, NoReload DEF Idle
<1>4. ASSUME NEW p \in Processes, NEW v \in Vaults, NEW op \in {"put", "clear"},
             NEW k \in Keys \cup {None}, op = "put" => k \in Keys, Begin(p, op, v, k)
      PROVE  OneReload'
  <2>1. /\ UNCHANGED agent
        /\ \E t \in Call : NewCall(op, v, k, t) /\ task'[p] = t /\ t # Idle
        /\ \A q \in Processes \ {p} : OtherCall(q, v)
    BY <1>4, Begins
  <2>2. QED
    BY <2>1, NoReload DEF NewCall, OtherCall
<1>5. ASSUME NEW p \in Processes, KeyctlStep(p) PROVE OneReload'
  <2>1. UNCHANGED agent
    BY <1>5 DEF KeyctlStep, CheckDenied, UnlinkKey, UnlinkExpiry, Add, AddFails, SetTimeout,
                TimeoutFails, NoAgent
  <2>2. \/ task' = [task EXCEPT ![p] = Idle]
        \/ \E pc \in Steps \ {"reload", "record"} :
              \/ Goto(p, pc)
              \/ task' = [task EXCEPT ![p].pc = pc, ![p].op = "undo"]
              \/ \E id : task' = [task EXCEPT ![p].pc = pc, ![p].id = id]
    <3>1. CASE CheckDenied(p)
      BY <3>1 DEF CheckDenied, Ends
    <3>2. CASE UnlinkKey(p) \/ UnlinkExpiry(p)
      BY <3>2 DEF UnlinkKey, UnlinkExpiry, Ends, Steps
    <3>3. CASE Add(p)
      BY <3>3 DEF Add, Steps
    <3>4. CASE AddFails(p) \/ TimeoutFails(p)
      BY <3>4 DEF AddFails, TimeoutFails, Undo, FirstStep, Steps
    <3>5. CASE SetTimeout(p)
      BY <3>5 DEF SetTimeout, Ends, Steps
    <3>6. QED
      BY <1>5, <3>1, <3>2, <3>3, <3>4, <3>5 DEF KeyctlStep
  <2>3. task[p] # Idle
    BY <1>5 DEF KeyctlStep, CheckDenied, UnlinkKey, UnlinkExpiry, Add, AddFails, SetTimeout,
                TimeoutFails, At, Idle
  <2>4. QED
    BY <2>1, <2>2, <2>3, NoReloadHere
<1>6. ASSUME NEW p \in Processes, WriteConf(p) PROVE OneReload'
  <2>1. /\ agent'["loaded"] = agent["loaded"]
        /\ \A q \in Processes : ~Reloading(q)
    BY <1>6 DEF WriteConf, IInv, TypeOK
  <2>2. PICK pc \in {"reload", "presetKey"} :
          Goto(p, pc) /\ (pc = "reload" => agent["loaded"] # task[p].ttl)
    BY <1>6 DEF WriteConf, NeedsReload
  <2>3. \A q \in Processes \ {p} : task'[q] = task[q]
    BY <2>2 DEF Goto, IInv, TypeOK
  <2>4. task'[p].pc = pc /\ task'[p].ttl = task[p].ttl
    <3>1. task[p] # Idle
      BY <1>6 DEF WriteConf, At, Idle
    <3>2. task[p] \in Call
      BY <3>1, TypesOf DEF IInv
    <3>3. task'[p] = [task[p] EXCEPT !.pc = pc]
      BY <2>2 DEF Goto, IInv, TypeOK
    <3>4. QED
      BY <3>2, <3>3 DEF Call
  <2>5. QED
    BY <2>1, <2>2, <2>3, <2>4 DEF OneReload, Reloading
<1>7. ASSUME NEW p \in Processes, RecordLoaded(p) PROVE OneReload'
  <2>1. task[p].pc = "record" /\ Goto(p, "presetKey")
    BY <1>7 DEF RecordLoaded, At
  <2>2. \A q \in Processes \ {p} : task'[q] = task[q] /\ ~Reloading(q)
    BY <2>1 DEF Goto, IInv, TypeOK, OneReload, Reloading
  <2>3. task'[p].pc = "presetKey"
    BY <2>1 DEF Goto, IInv, TypeOK, Call, Idle
  <2>4. QED
    BY <2>2, <2>3 DEF OneReload, Reloading
<1>8. ASSUME NEW p \in Processes,
             \/ Reload(p) \/ ReloadFails(p) \/ Preset(p) \/ PresetFails(p)
             \/ ClearBoth(p) \/ ClearMissed(p)
      PROVE  OneReload'
  <2>1. agent'["loaded"] = agent["loaded"]
    BY <1>8 DEF Reload, ReloadFails, Preset, PresetFails, ClearBoth, ClearMissed, NoAgent, IInv,
                TypeOK
  <2>2. \/ task' = [task EXCEPT ![p] = Idle]
        \/ \E pc \in Steps \ {"reload", "record"} :
              Goto(p, pc) \/ task' = [task EXCEPT ![p].pc = pc, ![p].op = "undo"]
        \/ task[p].pc = "reload" /\ Goto(p, "record")
    <3>1. CASE Reload(p) \/ ReloadFails(p)
      BY <3>1 DEF Reload, ReloadFails, Ends, At
    <3>2. CASE Preset(p)
      BY <3>2 DEF Preset, Ends, Steps
    <3>3. CASE PresetFails(p)
      BY <3>3 DEF PresetFails, Ends, Undo, FirstStep, Steps
    <3>4. CASE ClearBoth(p) \/ ClearMissed(p)
      BY <3>4 DEF ClearBoth, ClearMissed, Ends
    <3>5. QED
      BY <1>8, <3>1, <3>2, <3>3, <3>4
  <2>3. task[p] # Idle
    BY <1>8 DEF Reload, ReloadFails, Preset, PresetFails, ClearBoth, ClearMissed, At, Idle
  <2>4. QED
    BY <2>1, <2>2, <2>3, NoReloadHere
<1>9. ASSUME NEW p \in Processes, MemoryStep(p) \/ Crash(p) PROVE OneReload'
  BY <1>9, NoReloadHere DEF MemoryStep, PutInMemory, ClearMemory, Crash, Ends, NoAgent, At, Idle
<1>10. QED
  BY <1>1, <1>2, <1>3, <1>4, <1>5, <1>6, <1>7, <1>8, <1>9 DEF Next, AgentStep

LEMMA NextImplements ==
    ASSUME IInv, OneReload, Next
    PROVE  Implements
<1>1. CASE Tick
  BY <1>1, MapTick
<1>2. CASE Restart
  BY <1>2, MapRestart
<1>3. CASE TimerFires
  BY <1>3, MapTimerFires
<1>4. ASSUME NEW d \in Durations, ChangeSetting(d) PROVE Implements
  BY <1>4, MapChangeSetting
<1>5. ASSUME NEW end \in late, Expire(end) PROVE Implements
  BY <1>5, MapExpire
<1>6. ASSUME NEW v \in Vaults, WipeOver(v) PROVE Implements
  BY <1>6, MapWipeOver
<1>7. ASSUME NEW p \in Processes, NEW v \in Vaults, Begin(p, "clear", v, None) PROVE Implements
  BY <1>7, MapBegin
<1>8. ASSUME NEW p \in Processes, NEW v \in Vaults, NEW k \in Keys, Begin(p, "put", v, k)
      PROVE Implements
  BY <1>8, MapBegin
<1>9. ASSUME NEW p \in Processes, KeyctlStep(p) PROVE Implements
  BY <1>9, MapCheckDenied, MapUnlinkKey, MapUnlinkExpiry, MapAdd, MapAddFails,
     MapSetTimeout, MapTimeoutFails DEF KeyctlStep
<1>10. ASSUME NEW p \in Processes, AgentStep(p) PROVE Implements
  <2>1. Reload(p) => agent["loaded"] # task[p].ttl
    BY DEF Reload, At, OneReload
  <2>2. QED
    BY <1>10, <2>1, MapWriteConf, MapReload, MapReloadFails, MapRecordLoaded, MapPreset,
       MapPresetFails, MapClearBoth, MapClearMissed DEF AgentStep
<1>11. ASSUME NEW p \in Processes, MemoryStep(p) PROVE Implements
  BY <1>11, MapPutInMemory, MapClearMemory DEF MemoryStep
<1>12. ASSUME NEW p \in Processes, Crash(p) PROVE Implements
  BY <1>12, MapCrash DEF Implements
<1>13. QED
  BY <1>1, <1>2, <1>3, <1>4, <1>5, <1>6, <1>7, <1>8, <1>9, <1>10, <1>11, <1>12 DEF Next

\* Each of the three holders is the holder the service counts on, where no two puts each find
\* a reload to be made before either has: it keeps a key for its vault until its end, and loses
\* it before to what KeyHolder lists and to nothing else, whatever timers of old keys fire,
\* calls cross, clears are lost, or a put fails half way (`Holder` of holders.py; "keep each
\* other's keys", holders.py:265-266).
THEOREM HoldersImplementKeyHolder ==
    ASSUME "crossed" \notin Faults
    PROVE  Spec => ImplementsKeyHolder
<1>1. Init => Abstract!Init /\ OneReload
  <2>1. Init => OneReload
    BY DEF Init, OneReload, Reloading, Idle
  <2>2. QED
    BY <2>1, MapInit
<1>2. IInv /\ OneReload /\ [Next]_vars => OneReload'
  <2>1. ASSUME OneReload, UNCHANGED vars PROVE OneReload'
    BY <2>1 DEF vars, OneReload, Reloading
  <2>2. QED
    BY <2>1, OneReloadKeeps
<1>3. IInv /\ OneReload /\ [Next]_vars => [Abstract!Next]_(Abstract!vars)
  <2>1. ASSUME UNCHANGED vars PROVE UNCHANGED Abstract!vars
    BY <2>1 DEF vars, Abstract!vars, HeldKeys, HeldEnds, Held, Over, CallsMade
  <2>2. IInv /\ OneReload /\ Next => Abstract!Next \/ UNCHANGED Abstract!vars
    BY NextImplements DEF Implements
  <2>3. QED
    BY <2>1, <2>2
<1>4. QED
  BY <1>1, <1>2, <1>3, Invariance, PTL DEF Spec, ImplementsKeyHolder, Abstract!Spec

=============================================================================
