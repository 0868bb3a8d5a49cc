----------------------------- MODULE KeyHolder -----------------------------
(***************************************************************************)
(* What the service may count on from any key holder (the class `Holder`   *)
(* of vault/holders.py), whichever it has: a key is kept from a put on its *)
(* vault until its end, and is lost before it only to a call on the same   *)
(* vault, to a restart of what keeps it, to a put with another duration    *)
(* than the one an agent has for all, or to the next key of a holder of    *)
(* one.  A clear of an agent may be lost, and returns all the same.        *)
(***************************************************************************)
EXTENDS Integers

CONSTANTS Processes, Vaults, Keys, Durations, None, Never

VARIABLES
    name,       \* the holder: "keyctl", "gpg-agent" or "memory"
    now,
    held,       \* vault -> the key a `get` returns, or None
    ends,       \* vault -> the end of the held key
    call,       \* process -> the call it makes, or None
    answer,     \* process -> how its last call ended
    duration,   \* an agent's: the duration on record for all keys
    steady      \* an agent's: its keys have the end each put asked for

vars == <<name, now, held, ends, call, answer, duration, steady>>

\* A call, what it asks for, and how far it is.
Call == [op : {"put", "clear", "undo"}, vault : Vaults, key : Keys \cup {None},
         ttl : Durations, done : BOOLEAN]

IsPut(p) == call[p] # None /\ call[p].op = "put"
Empty == [v \in Vaults |-> None]

Init ==
    /\ name \in {None, "keyctl", "gpg-agent", "memory"}
    /\ now = 0
    /\ held = Empty
    /\ ends = Empty
    /\ call = [p \in Processes |-> None]
    /\ answer = [p \in Processes |-> None]
    /\ duration = None
    /\ steady = TRUE

Begin(p) ==
    /\ name # None /\ call[p] = None /\ call'[p] # None
    /\ call' = [call EXCEPT ![p] = call'[p]]
    /\ call'[p] \in [op : {"put", "clear"}, vault : Vaults, key : Keys \cup {None},
                     ttl : Durations, done : {FALSE}]
    /\ answer' = [answer EXCEPT ![p] = None]
    /\ UNCHANGED <<name, now, held, ends, duration, steady>>

Answers(p, a) ==
    /\ call' = [call EXCEPT ![p] = None]
    /\ answer' = [answer EXCEPT ![p] = a]

Result(p) == IF call[p].op = "undo" THEN "refused" ELSE "ok"

\* The call has had its effect; it goes on, or returns.
Served(p) ==
    \/ call' = [call EXCEPT ![p].done = TRUE] /\ UNCHANGED answer
    \/ Answers(p, Result(p))

\* Only a put brings a key, to its own vault.  Memory has room for one.
Store(p) ==
    LET c == call[p]
        Spans == IF name = "gpg-agent" /\ ~steady THEN Durations ELSE {c.ttl}
        Kept(f, x) == [v \in Vaults |-> IF v = c.vault THEN x
                                        ELSE IF name = "memory" THEN None ELSE f[v]]
    IN
    /\ IsPut(p)
    /\ held' = Kept(held, c.key)
    /\ ends' \in {Kept(ends, now + d) : d \in Spans} \cup
                 (IF name = "keyctl" THEN {Kept(ends, Never)} ELSE {})
    /\ Served(p)
    /\ UNCHANGED <<name, now, duration, steady>>

\* The kernel learns a key's end after the key.
SetEnd(p) ==
    /\ IsPut(p) /\ name = "keyctl" /\ call[p].done /\ held[call[p].vault] # None
    /\ ends' = [ends EXCEPT ![call[p].vault] = now + call[p].ttl]
    /\ UNCHANGED <<name, now, held, call, answer, duration, steady>>

Lost(vs) ==
    /\ held' = [v \in Vaults |-> IF v \in vs THEN None ELSE held[v]]
    /\ ends' = [v \in Vaults |-> IF v \in vs THEN None ELSE ends[v]]

\* A clear, or a put that takes back what it did, drops the key of its vault.
Drop(p) ==
    /\ call[p] # None /\ call[p].op \in {"clear", "undo"}
    /\ Lost({call[p].vault})
    /\ Served(p)
    /\ UNCHANGED <<name, now, duration, steady>>

\* The agent was not reached: its key stays.
Miss(p) ==
    /\ call[p] # None /\ call[p].op \in {"clear", "undo"} /\ name = "gpg-agent"
    /\ Answers(p, Result(p))
    /\ UNCHANGED <<name, now, held, ends, duration, steady>>

\* A put may drop the old key before it stores its own.
MakeRoom(p) ==
    /\ IsPut(p) /\ ~call[p].done
    /\ Lost({call[p].vault})
    /\ UNCHANGED <<name, now, call, answer, duration, steady>>

\* Every key is lost to a put with another duration than the one on record, and to no other.
Flush(p) ==
    /\ IsPut(p) /\ name = "gpg-agent" /\ call[p].ttl # duration
    /\ Lost(Vaults)
    /\ UNCHANGED <<call, answer>> \/ Answers(p, "refused")
    /\ UNCHANGED <<name, now, duration, steady>>

Record(p) ==
    /\ IsPut(p) /\ name = "gpg-agent"
    /\ duration' = call[p].ttl
    /\ UNCHANGED <<name, now, held, ends, call, answer, steady>>

Return(p) ==
    /\ call[p] # None /\ call[p].done
    /\ Answers(p, Result(p))
    /\ UNCHANGED <<name, now, held, ends, duration, steady>>

\* A put is refused before it stores, or takes back what it stored.
Refuse(p) ==
    /\ IsPut(p) /\ ~call[p].done
    /\ Answers(p, "refused")
    /\ UNCHANGED <<name, now, held, ends, duration, steady>>

TakeBack(p) ==
    /\ IsPut(p)
    /\ call' = [call EXCEPT ![p].op = "undo", ![p].done = FALSE]
    /\ Lost({call[p].vault}) \/ UNCHANGED <<held, ends>>
    /\ UNCHANGED <<name, now, answer, duration, steady>>

Kill(p) ==
    /\ call[p] # None
    /\ call' = [call EXCEPT ![p] = None]
    /\ UNCHANGED <<name, now, held, ends, answer, duration, steady>>

Pass ==
    /\ now' = now + 1
    /\ Lost({v \in Vaults : ends[v] \notin {None, Never} /\ ends[v] <= now'})
    /\ UNCHANGED <<name, call, answer, duration, steady>>

Restart ==
    /\ name \in {"gpg-agent", "memory"}
    /\ Lost(Vaults)
    /\ call' = IF name = "memory" THEN [p \in Processes |-> None] ELSE call
    /\ UNCHANGED <<name, now, answer, duration, steady>>

\* The setting changed beside a put: from then on an agent may keep to the other duration.
Unsettle ==
    /\ name = "gpg-agent"
    /\ steady' = FALSE
    /\ UNCHANGED <<name, now, held, ends, call, answer, duration>>

Next ==
    \/ Pass \/ Restart \/ Unsettle
    \/ \E p \in Processes : Begin(p)
    \/ \E p \in {q \in Processes : call[q] # None} :
          \/ Store(p) \/ SetEnd(p) \/ Drop(p) \/ Miss(p) \/ MakeRoom(p) \/ Flush(p)
          \/ Record(p) \/ Return(p) \/ Refuse(p) \/ TakeBack(p) \/ Kill(p)

Spec == Init /\ [][Next]_vars
=============================================================================
