------------------------------ MODULE Holders ------------------------------
(***************************************************************************)
(* The three key holders of vault/holders.py: the kernel's keyring, a      *)
(* gpg-agent of the vault's own, and the server's memory.  One of them is  *)
(* chosen; the servers of a user, or the threads of one server, call it    *)
(* side by side.  An action is one access to what they share: a call of    *)
(* the kernel, one conversation with the agent, a file, a hold of the lock.*)
(***************************************************************************)
EXTENDS Integers, FiniteSets, Sequences

CONSTANTS
    Processes,      \* who calls the holder
    Vaults,         \* vault ids
    Keys,           \* the keys handed to it
    Durations,      \* the unlock durations of the setting, shared by the servers
    MaxTime,        \* bound: the last time of the clock
    MaxCalls,       \* bound: calls, and changes of the setting, in a behaviour
    Faults,         \* what goes wrong, of "denied", "quota", "agent", "lost", "crash",
                    \* "restart", and "crossed": two puts each find a reload to be made
    None, Never

ASSUME HoldersAssumption ==
    /\ Durations \subseteq Nat \ {0}
    /\ Never \notin Nat /\ None \notin Nat /\ None # Never
    /\ None \notin Keys \cup Processes
    /\ IsFiniteSet(Processes) /\ IsFiniteSet(Vaults)

VARIABLES
    kind,       \* `_selected`: the name of the holder, or None where `select` refused
    now,        \* the clock
    setting,    \* the unlock duration a put is given
    entry,      \* "key" | "expiry" -> vault -> what is stored, or None
    agent,      \* gpg-agent.conf, gpg-agent.conf.loaded, and the config the agent runs
    timer,      \* memory: the end its timer is set for, or None
    late,       \* memory: the timers that fired and wait for the lock
    task,       \* process -> the call it makes
    answer,     \* process -> how its last call ended
    promised,   \* history: vault -> the end the last put promised, Never without one, or
                \* None where calls crossed or were cut, or an undo did not reach the agent
    steady,     \* history: the agent's setting changed between puts alone, never beside one
                \* or after one that was cut short of its record
    calls       \* bound: calls, and changes of the setting, made

vars == <<kind, now, setting, entry, agent, timer, late, task, answer, promised, steady, calls>>

Kinds == {"keyctl", "gpg-agent", "memory"}
Order == <<"keyctl", "gpg-agent", "memory">>
Parts == {"key", "expiry"}
Empty == [part \in Parts |-> [v \in Vaults |-> None]]
Idle == [pc |-> "idle"]

-----------------------------------------------------------------------------
(* What the holders answer *)

\* `select`: the choice of the user where it works here, or the first that works.
Selected(choice, usable) ==
    LET fit   == IF choice = "auto" THEN usable ELSE usable \cap {choice}
        works == {i \in DOMAIN Order : Order[i] \in fit}
    IN  IF works = {} THEN None ELSE Order[CHOOSE i \in works : \A j \in works : i <= j]

Over(e) == e # None /\ e # Never /\ e <= now

\* `get`: what is kept for the vault, and in memory only within its time.
Held(v) ==
    LET e == entry["key"][v] IN
    IF e = None \/ (kind = "memory" /\ Over(e.ends)) THEN None ELSE e.value

\* `remaining`: the kernel's holder needs both entries, the agent's reads the expiry alone.
Shown(v) ==
    CASE kind = "keyctl"    -> entry["key"][v] # None /\ entry["expiry"][v] # None
      [] kind = "gpg-agent" -> entry["expiry"][v] # None
      [] OTHER              -> Held(v) # None

\* The vaults some process calls for.
Calling(v) == {p \in Processes : task[p] # Idle /\ task[p].vault = v}

-----------------------------------------------------------------------------
(* Calls *)

Init ==
    /\ \E choice \in Kinds \cup {"auto"}, broken \in SUBSET {"keyctl", "gpg-agent"} :
          kind = Selected(choice, Kinds \ broken)
    /\ now = 0
    /\ setting \in Durations
    /\ entry = Empty
    /\ agent = [conf |-> None, loaded |-> None, runs |-> None]
    /\ timer = None
    /\ late = {}
    /\ task = [p \in Processes |-> Idle]
    /\ answer = [p \in Processes |-> None]
    /\ promised = [v \in Vaults |-> Never]
    /\ steady = TRUE
    /\ calls = 0

\* The first step of a call: a put of the kernel's holder clears first.
FirstStep(op) ==
    CASE kind = "keyctl"                    -> "dropKey"
      [] kind = "gpg-agent" /\ op = "put"   -> "conf"
      [] kind = "gpg-agent" /\ op = "clear" -> "clearBoth"
      [] OTHER                              -> "locked"

Begin(p, op, v, k) ==
    /\ kind # None /\ task[p] = Idle /\ calls < MaxCalls
    /\ task' = [q \in Processes |->
          IF q = p THEN [pc |-> FirstStep(op), op |-> op, vault |-> v, key |-> k,
                         ttl |-> setting, id |-> None, alone |-> Calling(v) = {},
                         was |-> promised[v]]
          ELSE IF q \in Calling(v) THEN [task[q] EXCEPT !.alone = FALSE] ELSE task[q]]
    /\ answer' = [answer EXCEPT ![p] = None]
    /\ promised' = [promised EXCEPT ![v] = None]
    /\ calls' = calls + 1
    /\ UNCHANGED <<kind, now, setting, entry, agent, timer, late, steady>>

At(p, pc) == task[p].pc = pc
Goto(p, pc) ==
    /\ task' = [task EXCEPT ![p].pc = pc]
    /\ UNCHANGED <<answer, promised>>

Ends(p, a) ==
    /\ task' = [task EXCEPT ![p] = Idle]
    /\ answer' = [answer EXCEPT ![p] = a]
    /\ promised' = IF ~task[p].alone THEN promised
                   ELSE [promised EXCEPT ![task[p].vault] =
                           IF a = "refused" THEN task[p].was
                           ELSE IF task[p].op = "put" THEN now + task[p].ttl ELSE Never]

\* Mutant: it raises, and leaves what it stored.
UndoNothing(p) == Ends(p, "refused")

\* A put that fails half way clears what it stored before it raises.
Undo(p) ==
    /\ task' = [task EXCEPT ![p].pc = FirstStep("clear"), ![p].op = "undo"]
    /\ UNCHANGED <<answer, promised>>

Stays == UNCHANGED <<kind, now, setting, steady, calls>>
NoAgent == UNCHANGED agent
NoMemory == UNCHANGED <<timer, late>>

Without(part, v) == [entry EXCEPT ![part][v] = None]

-----------------------------------------------------------------------------
(* keyctl *)

\* "denied": the kernel refuses to read the key that is held, so nothing is touched.
CheckDenied(p) ==
    /\ At(p, "dropKey") /\ kind = "keyctl" /\ task[p].op = "put"
    /\ "denied" \in Faults /\ entry["key"][task[p].vault] # None
    /\ Ends(p, "refused")
    /\ Stays /\ NoAgent /\ NoMemory /\ UNCHANGED entry

UnlinkKey(p) ==
    /\ At(p, "dropKey")
    /\ entry' = Without("key", task[p].vault)
    /\ Goto(p, "dropExpiry")
    /\ Stays /\ NoAgent /\ NoMemory

UnlinkExpiry(p) ==
    /\ At(p, "dropExpiry")
    /\ entry' = Without("expiry", task[p].vault)
    /\ CASE task[p].op = "put"   -> Goto(p, "addKey")
         [] task[p].op = "clear" -> Ends(p, "ok")
         [] OTHER                -> Ends(p, "refused")
    /\ Stays /\ NoAgent /\ NoMemory

PartOf(p) == IF task[p].pc \in {"addKey", "endKey", "presetKey"} THEN "key" ELSE "expiry"

Payload(p) == IF PartOf(p) = "key" THEN task[p].key ELSE now + task[p].ttl

\* The numbers of keys that are linked, or that a call still has in hand.
UsedIds ==
    {e.id : e \in {entry[part][v] : part \in Parts, v \in Vaults} \ {None}}
    \cup {task[p].id : p \in {q \in Processes : task[q] # Idle}}
FreeId == CHOOSE i \in 1..(Cardinality(UsedIds) + 1) : i \notin UsedIds

\* `padd`: a key of that name keeps its number, takes the value, and has no end.
Add(p) ==
    LET part == PartOf(p)
        v    == task[p].vault
        id   == IF entry[part][v] = None THEN FreeId ELSE entry[part][v].id
    IN
    /\ task[p].pc \in {"addKey", "addExpiry"}
    /\ entry' = [entry EXCEPT ![part][v] = [value |-> Payload(p), id |-> id, ends |-> Never]]
    /\ task' = [task EXCEPT ![p].pc = IF part = "key" THEN "endKey" ELSE "endExpiry",
                            ![p].id = id]
    /\ Stays /\ NoAgent /\ NoMemory /\ UNCHANGED <<answer, promised>>

\* "quota": the kernel has no room for another key.
AddFails(p) ==
    /\ task[p].pc \in {"addKey", "addExpiry"} /\ "quota" \in Faults
    /\ Undo(p)
    /\ Stays /\ NoAgent /\ NoMemory /\ UNCHANGED entry

Linked(p) ==
    LET e == entry[PartOf(p)][task[p].vault] IN e # None /\ e.id = task[p].id

SetTimeout(p) ==
    /\ task[p].pc \in {"endKey", "endExpiry"} /\ Linked(p)
    /\ entry' = [entry EXCEPT ![PartOf(p)][task[p].vault].ends = now + task[p].ttl]
    /\ IF PartOf(p) = "key" THEN Goto(p, "addExpiry") ELSE Ends(p, "ok")
    /\ Stays /\ NoAgent /\ NoMemory

\* The key was unlinked meanwhile, or the kernel refuses: the key is unlinked by number.
TimeoutFails(p) ==
    /\ task[p].pc \in {"endKey", "endExpiry"} /\ (~Linked(p) \/ "denied" \in Faults)
    /\ entry' = IF Linked(p) THEN Without(PartOf(p), task[p].vault) ELSE entry
    /\ Undo(p)
    /\ Stays /\ NoAgent /\ NoMemory

-----------------------------------------------------------------------------
(* gpg-agent *)

\* The config is not the one a reload is on record for.
NeedsReload(p) == agent.loaded # task[p].ttl

\* It found that, and has not put its own reload on record.
Reloading(p) == task[p].pc \in {"reload", "record"}

WriteConf(p) ==
    /\ At(p, "conf")
    /\ "crossed" \in Faults \/ \A q \in Processes : ~Reloading(q)
    /\ agent' = [agent EXCEPT !.conf = task[p].ttl]
    /\ Goto(p, IF NeedsReload(p) THEN "reload" ELSE "presetKey")
    /\ Stays /\ NoMemory /\ UNCHANGED entry

\* The agent takes its config from the file, and drops what it has.
Reload(p) ==
    /\ At(p, "reload")
    /\ agent' = [agent EXCEPT !.runs = agent.conf]
    /\ entry' = Empty
    /\ \/ Goto(p, "record")
       \/ "lost" \in Faults /\ Ends(p, "refused")   \* its answer is lost, or the record not written
    /\ Stays /\ NoMemory

ReloadFails(p) ==
    /\ At(p, "reload") /\ "agent" \in Faults
    /\ Ends(p, "refused")
    /\ Stays /\ NoAgent /\ NoMemory /\ UNCHANGED entry

RecordLoaded(p) ==
    /\ At(p, "record")
    /\ agent' = [agent EXCEPT !.loaded = task[p].ttl]
    /\ Goto(p, "presetKey")
    /\ Stays /\ NoMemory /\ UNCHANGED entry

\* The agent ends an entry by the duration it runs with, which is of no entry's own.  One
\* that never read a duration has two hours by default, which is after every time here.
EntryEnd == IF agent.runs = None THEN Never ELSE now + agent.runs

Preset(p) ==
    /\ task[p].pc \in {"presetKey", "presetExpiry"}
    /\ entry' = [entry EXCEPT ![PartOf(p)][task[p].vault] =
          [value |-> Payload(p), id |-> None, ends |-> EntryEnd]]
    /\ IF PartOf(p) = "key" THEN Goto(p, "presetExpiry") ELSE Ends(p, "ok")
    /\ Stays /\ NoAgent /\ NoMemory

PresetFails(p) ==
    /\ task[p].pc \in {"presetKey", "presetExpiry"} /\ "agent" \in Faults
    /\ IF PartOf(p) = "key" THEN Ends(p, "refused") ELSE Undo(p)
    /\ Stays /\ NoAgent /\ NoMemory /\ UNCHANGED entry

Result(p) == IF task[p].op = "undo" THEN "refused" ELSE "ok"

ClearBoth(p) ==
    /\ At(p, "clearBoth")
    /\ entry' = [part \in Parts |-> Without(part, task[p].vault)[part]]
    /\ Ends(p, Result(p))
    /\ Stays /\ NoAgent /\ NoMemory

\* A clear that does not reach the agent returns as one that does: the key stays to its end.
ClearMissed(p) ==
    /\ At(p, "clearBoth") /\ "agent" \in Faults
    /\ task' = [task EXCEPT ![p] = Idle]
    /\ answer' = [answer EXCEPT ![p] = Result(p)]
    /\ promised' = IF task[p].alone /\ task[p].op = "clear"
                   THEN [promised EXCEPT ![task[p].vault] = task[p].was] ELSE promised
    /\ Stays /\ NoAgent /\ NoMemory /\ UNCHANGED entry

-----------------------------------------------------------------------------
(* memory: each action holds the lock for its length *)

Wipe == entry' = Empty /\ timer' = None

\* Mutant: a timer that is set already is left to wipe the new key too.
OneTimer(end) == IF timer = None THEN end ELSE timer

TimerFor(end) == end

PutInMemory(p) ==
    /\ At(p, "locked") /\ task[p].op = "put"
    /\ LET end == now + task[p].ttl IN
       /\ entry' = [Empty EXCEPT !["key"][task[p].vault] =
             [value |-> task[p].key, id |-> None, ends |-> end]]
       /\ timer' = TimerFor(end)
    /\ Ends(p, "ok")
    /\ Stays /\ NoAgent /\ UNCHANGED late

ClearMemory(p) ==
    /\ At(p, "locked") /\ task[p].op = "clear"
    /\ IF entry["key"][task[p].vault] # None THEN Wipe ELSE UNCHANGED <<entry, timer>>
    /\ Ends(p, "ok")
    /\ Stays /\ NoAgent /\ UNCHANGED late

\* The timer's thread is running: a cancel comes too late for it.
TimerFires ==
    /\ timer # None /\ timer <= now /\ timer \notin late
    /\ late' = late \cup {timer}
    /\ Stays /\ NoAgent /\ UNCHANGED <<entry, timer, task, answer, promised>>

\* Mutant: the late timer of an old key wipes the one there is.
IsSetForAny(v, end) == entry["key"][v] # None

IsSetFor(v, end) == entry["key"][v] # None /\ entry["key"][v].ends = end

\* `_expire`: only the key this timer was set for.
Expire(end) ==
    /\ end \in late
    /\ late' = late \ {end}
    /\ IF \E v \in Vaults : IsSetFor(v, end) THEN Wipe ELSE UNCHANGED <<entry, timer>>
    /\ Stays /\ NoAgent /\ UNCHANGED <<task, answer, promised>>

\* `_left`: a read, or a status, that comes before the timer wipes what is over.
WipeOver(v) ==
    /\ kind = "memory" /\ entry["key"][v] # None /\ Over(entry["key"][v].ends)
    /\ Wipe
    /\ Stays /\ NoAgent /\ UNCHANGED <<late, task, answer, promised>>

-----------------------------------------------------------------------------
(* Time, the setting, restarts *)

\* The kernel and the agent end their entries by themselves.
Tick ==
    /\ now < MaxTime
    /\ now' = now + 1
    /\ entry' = IF kind = "memory" THEN entry
                ELSE [part \in Parts |-> [v \in Vaults |->
                        LET e == entry[part][v] IN
                        IF e # None /\ e.ends # Never /\ e.ends <= now' THEN None ELSE e]]
    /\ UNCHANGED <<kind, setting, steady, calls, task, answer, promised>> /\ NoAgent /\ NoMemory

\* No call is under way, and the last put was not cut short of its record.
Settled == (\A p \in Processes : task[p] = Idle) /\ agent.loaded = agent.conf

\* A server reads the unlock duration anew for each put.
ChangeSetting(d) ==
    /\ d # setting /\ calls < MaxCalls
    /\ setting' = d
    /\ steady' = (steady /\ (kind = "gpg-agent" => Settled))
    /\ calls' = calls + 1
    /\ UNCHANGED <<kind, now, entry, task, answer, promised>> /\ NoAgent /\ NoMemory

\* A server dies in a call; the kernel and the agent keep what they have.
Crash(p) ==
    /\ "crash" \in Faults /\ kind # "memory" /\ task[p] # Idle
    /\ task' = [task EXCEPT ![p] = Idle]
    /\ Stays /\ NoAgent /\ NoMemory /\ UNCHANGED <<entry, answer, promised>>

\* What keeps the keys starts again: the server itself, or the agent, which reads its file.
Restart ==
    /\ "restart" \in Faults /\ kind \in {"gpg-agent", "memory"} /\ entry # Empty
    /\ entry' = Empty
    /\ agent' = [agent EXCEPT !.runs = agent.conf]
    /\ timer' = None /\ late' = {}
    /\ task' = IF kind = "memory" THEN [p \in Processes |-> Idle] ELSE task
    /\ Stays /\ UNCHANGED <<answer, promised>>

KeyctlStep(p) ==
    \/ CheckDenied(p) \/ UnlinkKey(p) \/ UnlinkExpiry(p) \/ Add(p) \/ AddFails(p)
    \/ SetTimeout(p) \/ TimeoutFails(p)

AgentStep(p) ==
    \/ WriteConf(p) \/ Reload(p) \/ ReloadFails(p) \/ RecordLoaded(p) \/ Preset(p)
    \/ PresetFails(p) \/ ClearBoth(p) \/ ClearMissed(p)

MemoryStep(p) == PutInMemory(p) \/ ClearMemory(p)

Next ==
    \/ Tick \/ Restart \/ TimerFires
    \/ \E d \in Durations : ChangeSetting(d)
    \/ \E end \in late : Expire(end)
    \/ \E v \in Vaults : WipeOver(v)
    \/ \E p \in Processes :
          \/ \E v \in Vaults : Begin(p, "clear", v, None) \/ \E k \in Keys : Begin(p, "put", v, k)
          \/ KeyctlStep(p) \/ AgentStep(p) \/ MemoryStep(p) \/ Crash(p)

Spec == Init /\ [][Next]_vars

-----------------------------------------------------------------------------
(* Properties *)

Steps == {"dropKey", "dropExpiry", "addKey", "endKey", "addExpiry", "endExpiry", "conf",
          "reload", "record", "presetKey", "presetExpiry", "clearBoth", "locked"}

\* What is stored under a name; the keyring alone numbers it.
Stored(values) == [value : values, id : Nat \cup {None}, ends : Nat \cup {Never}]

Call == [pc : Steps, op : {"put", "clear", "undo"}, vault : Vaults, key : Keys \cup {None},
         ttl : Durations, id : Nat \cup {None}, alone : BOOLEAN, was : Nat \cup {None, Never}]

\* Types: what each holder, its files and its callers have in hand.
TypeOK ==
    /\ kind \in Kinds \cup {None} /\ now \in Nat /\ setting \in Durations
    /\ entry \in [Parts -> [Vaults -> Stored(Keys \cup Nat) \cup {None}]]
    /\ \A v \in Vaults : entry["key"][v] = None \/ entry["key"][v].value \in Keys
    /\ agent \in [{"conf", "loaded", "runs"} -> Durations \cup {None}]
    /\ timer \in Nat \cup {None} /\ late \subseteq Nat
    /\ task \in [Processes -> Call \cup {Idle}]
    /\ answer \in [Processes -> {None, "ok", "refused"}]
    /\ promised \in [Vaults -> Nat \cup {None, Never}] /\ steady \in BOOLEAN /\ calls \in Nat

\* What a call has done so far: its key is stored, or its vault's key is gone.
Done(t) ==
    IF t.op = "put" THEN t.pc \in {"endKey", "addExpiry", "endExpiry", "presetExpiry"}
    ELSE t.pc = "dropExpiry"

CallOf(t) ==
    IF t = Idle THEN None
    ELSE [op |-> t.op, vault |-> t.vault, key |-> t.key, ttl |-> t.ttl, done |-> Done(t)]

HeldKeys == [v \in Vaults |-> Held(v)]
HeldEnds == [v \in Vaults |-> IF Held(v) = None THEN None ELSE entry["key"][v].ends]
CallsMade == [p \in Processes |-> CallOf(task[p])]

Abstract == INSTANCE KeyHolder WITH
    name <- kind, held <- HeldKeys, ends <- HeldEnds, call <- CallsMade,
    duration <- agent.loaded

\* "Nothing is stored" and "no call" are not a thing that is stored, or a call.
ASSUME NoneIsNothing == None \notin Stored(Keys \cup Nat) /\ None \notin Abstract!Call

\* Each holder is the one the service counts on (KeyHolder): a key is kept for its vault
\* until its end, whatever timers of old keys fire and whichever clear is lost, a put that
\* is refused brings none that stays, unless its undo is lost, and the keys of an agent that
\* has its duration survive every put.
ImplementsKeyHolder == Abstract!Spec

\* Where calls on a vault ran one after the other, and each undo reached the agent: a status
\* shows the key it has (else it reads as locked, and opens), none is left by a clear that
\* was served, and it ends no later than the last put promised, also after a refused put, a
\* lost clear, a restart, and puts for other vaults.  The agent has one duration for all, so
\* its keys have that end while the setting is steady.
HeldAsPromised ==
    \A v \in Vaults : Held(v) # None /\ promised[v] # None =>
        /\ Shown(v)
        /\ promised[v] # Never
        /\ steady => entry["key"][v].ends \in 0..promised[v]

\* `put`: "The expiry lives in the agent's config", and a reload "that failed or never ran is
\* retried on the next put": the end is as promised however the setting changes.  Not so.
EndsAsPromised ==
    \A v \in Vaults : Held(v) # None /\ promised[v] \notin {None, Never}
                      => entry["key"][v].ends \in 0..promised[v]

\* What is in the server's memory has a timer to come, or one that waits for the lock, so
\* that it is wiped without a request.
MemoryIsWiped ==
    kind = "memory" =>
        \A v \in Vaults : entry["key"][v] # None
                          => entry["key"][v].ends \in late \cup {timer}

=============================================================================
