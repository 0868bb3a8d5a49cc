---------------------------- MODULE UnlockShare ----------------------------
(***************************************************************************)
(* How the command-line processes of a user share one pending unlock, or   *)
(* one pending set-up of the vault (vault/client.py), by the record        *)
(* `unlock-wait.json` of the relay directory.  A process reads the record  *)
(* and asks for the status at different moments, and the server removes    *)
(* the record without the lock the processes take (relay.py).              *)
(*                                                                         *)
(* A process makes one call.  An operation is its notification's command;  *)
(* a line (`why`) is named by the operation whose end it tells.  Time is   *)
(* what has run out: a process's wait, or a record.                        *)
(***************************************************************************)
EXTENDS Naturals

CONSTANTS
    Processes,
    Patient,    \* those that wait for as long as it takes (`--timeout inf`)
    Calls,      \* the calls processes make in this instance: see CallKinds
    Faults,     \* what can happen to them: see FaultKinds
    None

CallKinds == {
    "unlock",   \* `Vault.unlock`, which asks anew
    "read",     \* a call under `Vault._unlocked`, on a locked vault
    "setup" }   \* `Vault._setup`

FaultKinds == {
    "crash",    \* a process is killed
    "interrupt",\* Ctrl-C in a wait, in a process that lives on
    "trigger",  \* the notification cannot be raised
    "status",   \* a read of the status fails
    "answer",   \* the page's step fails or is cancelled
    "timeout",  \* the waits run out
    "lock",     \* the vault is locked again
    "remove" }  \* the user deletes the vault file

ASSUME ConstantsAssumption ==
    /\ Patient \subseteq Processes
    /\ Calls \subseteq CallKinds
    /\ Faults \subseteq FaultKinds
    /\ None \notin Processes \cup CallKinds

VARIABLES
    vault,      \* "none", "locked" or "unlocked"
    serving,    \* how far the server is with an unlock or an `init`
    record,     \* `unlock-wait.json`
    task        \* process -> its call

vars == <<vault, serving, record, task>>

-----------------------------------------------------------------------------

Commands == {"unlock", "setup"}
Command(call) == IF call = "setup" THEN "setup" ELSE "unlock"

\* What vault status says of the key a wait is for.
Reached(command) ==
    IF command = "setup" THEN vault # "none" ELSE vault = "unlocked"

\* `why` is None where the code has an empty line.
Record == [state : {"pending", "failed", "unanswered"}, why : Commands \cup {None},
           pid : Processes, command : Commands]
NoRecord == [state |-> "none", why |-> None, pid |-> None, command |-> None]

Pending(r) == r.state = "pending"
SharedClaim == {r \in Record : Pending(r)} \cup {NoRecord}

Steps == {"idle", "refusal", "check", "claim", "claiming", "share", "look", "notify", "wait",
          "last", "end", "drop", "done", "dead"}

Task == [
    pc : Steps,
    call : CallKinds \cup {None},
    sharing : BOOLEAN,                  \* it has waited on another's notification
    seen : Record \cup {NoRecord},      \* the record as it was read last
    shared : SharedClaim,               \* the claim it waits on
    over : BOOLEAN,                     \* its deadline has passed
    answered : BOOLEAN,                 \* a failure is in its result relay
    quiet : BOOLEAN,                    \* history: no unlock was under way or done at `seen`
    result : {None, "opened", "failed", "unanswered", "refused", "error"},
    why : Commands \cup {None} ]        \* the line it ends with

Idle == [pc |-> "idle", call |-> None, sharing |-> FALSE, seen |-> NoRecord, shared |-> NoRecord,
         over |-> FALSE, answered |-> FALSE, quiet |-> FALSE, result |-> None, why |-> None]

At(p, pc) == task[p].pc = pc
Mine(p) == Command(task[p].call)
Become(p, t) == task' = [task EXCEPT ![p] = t]
Go(p, pc) == Become(p, [task[p] EXCEPT !.pc = pc])
Alive(p) == ~At(p, "dead")

\* Mutant: a claim holds whether its process lives or not.
AnyRecord == record

\* `_wait_record`: the claim of a process that is gone is none.
WaitRecord == IF Pending(record) /\ ~Alive(record.pid) THEN NoRecord ELSE record

\* The lock is free: nobody is between its read and its write.
LockFree == \A p \in Processes : ~At(p, "claiming")

\* A call ends with no claim of its own to drop.
Return(p, result, why) ==
    Become(p, [Idle EXCEPT !.pc = "done", !.call = task[p].call,
                           !.result = result, !.why = why])

\* A call of an asking process ends: its claim goes, after its end is recorded.
Leave(p, pc, result) ==
    Become(p, [Idle EXCEPT !.pc = pc, !.call = task[p].call, !.result = result,
                           !.why = IF pc = "end" THEN Mine(p) ELSE None])

\* It raises its own notification.
Ask(p) == Become(p, [Idle EXCEPT !.pc = "notify", !.call = task[p].call])

-----------------------------------------------------------------------------
(* Before the claim.                                                       *)

\* A set-up follows a status with no vault, a read's unlock a refusal.
Begin(p, call) ==
    /\ At(p, "idle")
    /\ call = "setup" => vault = "none"
    /\ call = "read" => vault = "locked"
    /\ Become(p, [Idle EXCEPT !.call = call,
                              !.pc = IF call = "unlock" THEN "check" ELSE "refusal"])
    /\ UNCHANGED <<vault, serving, record>>

\* Mutant: nobody answered, whatever was asked.
RefusesAny(p, r) == r.state = "unanswered"

Refuses(p, r) == r.state = "unanswered" /\ r.command = Mine(p)

\* `_refuse_after_no_answer`.
Refusal(p) ==
    /\ At(p, "refusal")
    /\ IF Refuses(p, WaitRecord)
       THEN Return(p, "refused", WaitRecord.why)
       ELSE Go(p, IF task[p].call = "setup" THEN "claim" ELSE "check")
    /\ UNCHANGED <<vault, serving, record>>

\* `Vault.unlock` reads the status first.
Check(p) ==
    /\ At(p, "check")
    /\ \/ vault = "unlocked" /\ Return(p, "opened", None)
       \/ vault = "locked" /\ Go(p, "claim")
       \/ (vault = "none" \/ "status" \in Faults) /\ Return(p, "error", None)
    /\ UNCHANGED <<vault, serving, record>>

-----------------------------------------------------------------------------
(* The claim, under the lock: a read, then a write.                        *)

ReadToClaim(p) ==
    /\ At(p, "claim") /\ LockFree
    /\ Become(p, [task[p] EXCEPT !.pc = "claiming", !.seen = WaitRecord])
    /\ UNCHANGED <<vault, serving, record>>

\* A claim over an end keeps its line, for the waits that have not read it.
KeptLine(r, command) == IF r.command = command THEN r.why ELSE None

\* Mutant: the claim of another process is written over.
ClaimsOver(r) == r = r

Claims(r) == ~Pending(r)

ClaimUnlock(p) ==
    LET r == task[p].seen IN
    /\ At(p, "claiming") /\ Claims(r)
    /\ record' = [state |-> "pending", why |-> KeptLine(r, Mine(p)), pid |-> p,
                  command |-> Mine(p)]
    /\ Ask(p)
    /\ UNCHANGED <<vault, serving>>

\* Another process has a claim: of the other operation, it is not this one's.
FindClaim(p) ==
    LET t == task[p] IN
    /\ At(p, "claiming") /\ ~Claims(t.seen)
    /\ \/ t.seen.command # Mine(p) /\ Ask(p)
       \/ /\ t.seen.command = Mine(p)
          /\ IF t.sharing /\ t.seen.why # None
             THEN Return(p, "failed", t.seen.why)
             ELSE Become(p, [t EXCEPT !.pc = "share", !.shared = t.seen, !.seen = NoRecord,
                                      !.sharing = TRUE])
    /\ UNCHANGED <<vault, serving, record>>

-----------------------------------------------------------------------------
(* `_share_unlock`: each round reads the record, then the status.          *)

\* Another operation's notification is no record for this wait.
OfMine(p, r) == IF r.command = Mine(p) THEN r ELSE NoRecord

ReadRecord(p) ==
    /\ At(p, "share")
    /\ Become(p, [task[p] EXCEPT !.pc = "look", !.seen = OfMine(p, WaitRecord),
                                 !.quiet = ~Reached(Mine(p)) /\ serving # "held"])
    /\ UNCHANGED <<vault, serving, record>>

\* Mutant: the vault counts as open only while there is a record.
LookOpenOnRecord(p) ==
    /\ At(p, "look") /\ Reached(Mine(p)) /\ task[p].seen # NoRecord
    /\ Return(p, "opened", None)
    /\ UNCHANGED <<vault, serving, record>>

LookOpen(p) ==
    /\ At(p, "look") /\ Reached(Mine(p))
    /\ Return(p, "opened", None)
    /\ UNCHANGED <<vault, serving, record>>

\* Mutant: the deadline ends a wait on a record only.
OverOnRecord(t) == t.over /\ t.seen # NoRecord

Over(t) == t.over

NextRound(p, claim) ==
    Become(p, [task[p] EXCEPT !.pc = "share", !.shared = claim, !.seen = NoRecord,
                              !.quiet = FALSE])

\* `locked`: the status was read and is short of the key.
LookLocked(p, locked) ==
    LET t == task[p] IN
    /\ At(p, "look")
    /\ IF locked THEN ~Reached(Mine(p)) ELSE "status" \in Faults
    /\ CASE Over(t) -> Return(p, "failed", IF t.seen.why # None THEN t.seen.why ELSE Mine(p))
         [] ~Over(t) /\ locked /\ t.seen # t.shared /\ t.seen = NoRecord -> Go(p, "claim")
         [] ~Over(t) /\ locked /\ t.seen # t.shared /\ t.seen # NoRecord ->
              IF ~Pending(t.seen) \/ t.seen.why # None
              THEN Return(p, "failed", t.seen.why)
              ELSE NextRound(p, t.seen)
         [] OTHER -> NextRound(p, t.shared)
    /\ UNCHANGED <<vault, serving, record>>

-----------------------------------------------------------------------------
(* The process that asks: `browser_step`, and how it ends.                 *)

Notify(p) ==
    /\ At(p, "notify")
    /\ \/ Go(p, "wait")
       \/ "trigger" \in Faults /\ Leave(p, "end", "failed")
    /\ UNCHANGED <<vault, serving, record>>

\* A round of the wait: the page's failure, then the deadline, then the status.
Wait(p) ==
    /\ At(p, "wait")
    /\ CASE task[p].answered -> Leave(p, "end", "failed")
         [] ~task[p].answered /\ task[p].over -> Go(p, "last")
         [] OTHER -> Reached(Mine(p)) /\ Leave(p, "drop", "opened")
    /\ UNCHANGED <<vault, serving, record>>

\* Nobody answered: one last look.
LastLook(p) ==
    /\ At(p, "last")
    /\ \/ Leave(p, IF Reached(Mine(p)) THEN "drop" ELSE "end",
                   IF Reached(Mine(p)) THEN "opened" ELSE "unanswered")
       \/ "status" \in Faults /\ Leave(p, "drop", "error")
    /\ UNCHANGED <<vault, serving, record>>

\* `_end_unlock`, for every other process.
EndUnlock(p) ==
    /\ At(p, "end") /\ LockFree
    /\ record' = [state |-> task[p].result, why |-> Mine(p), pid |-> p, command |-> Mine(p)]
    /\ Go(p, "drop")
    /\ UNCHANGED <<vault, serving>>

\* Mutant: the claim stays.
DropsNothing(p) == p # p

Drops(p) == Pending(WaitRecord) /\ WaitRecord.pid = p

DropClaim(p) ==
    /\ At(p, "drop") /\ LockFree
    /\ record' = IF Drops(p) THEN NoRecord ELSE record
    /\ Go(p, "done")
    /\ UNCHANGED <<vault, serving>>

-----------------------------------------------------------------------------
(* The server, the page and time.                                          *)

\* `init` writes the file, then holds its key.
Create ==
    /\ serving = "no" /\ vault = "none"
    /\ vault' = "locked" /\ serving' = "created"
    /\ UNCHANGED <<record, task>>

ServerHolds ==
    /\ serving # "held" /\ vault = "locked" /\ vault' = "unlocked" /\ serving' = "held"

\* `end_unlock_wait`, which takes no lock.
ServerRemoves == record' = NoRecord

\* Mutant: the record goes before the vault is open.
RemoveThenHold ==
    \/ serving = "no" /\ vault = "locked" /\ serving' = "held" /\ ServerRemoves
       /\ UNCHANGED vault
    \/ serving = "held" /\ vault' = "unlocked" /\ serving' = "no" /\ UNCHANGED record

\* `_hold`: from here or anywhere else.
HoldThenRemove ==
    \/ ServerHolds /\ UNCHANGED record
    \/ serving = "held" /\ serving' = "no" /\ ServerRemoves /\ UNCHANGED vault

ServerUnlocks == HoldThenRemove /\ UNCHANGED task

\* The page posts only a failure.
PageFails(p) ==
    /\ "answer" \in Faults /\ At(p, "wait") /\ ~task[p].answered
    /\ Become(p, [task[p] EXCEPT !.answered = TRUE])
    /\ UNCHANGED <<vault, serving, record>>

\* The deadline of a wait passes.
TimeOut(p) ==
    /\ "timeout" \in Faults /\ p \notin Patient
    /\ ~task[p].over /\ task[p].pc \in {"share", "look", "wait"}
    /\ Become(p, [task[p] EXCEPT !.over = TRUE])
    /\ UNCHANGED <<vault, serving, record>>

\* The time of an end on record is over.  A claim has the time of the trigger on
\* top of its wait's, which is taken to be enough.
RecordEnds ==
    /\ "timeout" \in Faults /\ record # NoRecord /\ ~Pending(record)
    /\ record' = NoRecord
    /\ UNCHANGED <<vault, serving, task>>

Lock ==
    /\ "lock" \in Faults /\ vault = "unlocked" /\ vault' = "locked"
    /\ UNCHANGED <<serving, record, task>>

RemoveFile ==
    /\ "remove" \in Faults /\ vault # "none" /\ serving = "no" /\ vault' = "none"
    /\ UNCHANGED <<serving, record, task>>

\* A killed process holds no lock.
Crash(p) ==
    /\ "crash" \in Faults /\ task[p].pc \notin {"idle", "done", "dead"}
    /\ Become(p, [Idle EXCEPT !.pc = "dead", !.call = task[p].call])
    /\ UNCHANGED <<vault, serving, record>>

Interrupt(p) ==
    /\ "interrupt" \in Faults
    /\ \/ task[p].pc \in {"notify", "wait", "last"} /\ Leave(p, "drop", "error")
       \/ task[p].pc \in {"share", "look"} /\ Return(p, "error", None)
    /\ UNCHANGED <<vault, serving, record>>

-----------------------------------------------------------------------------

Init ==
    /\ vault \in {"none", "locked"} /\ serving = "no"
    /\ record = NoRecord
    /\ task = [p \in Processes |-> Idle]

\* What a process does of itself.
Step(p) ==
    \/ Refusal(p) \/ Check(p)
    \/ ReadToClaim(p) \/ ClaimUnlock(p) \/ FindClaim(p)
    \/ ReadRecord(p) \/ LookOpen(p) \/ \E locked \in BOOLEAN : LookLocked(p, locked)
    \/ Notify(p) \/ Wait(p) \/ LastLook(p) \/ EndUnlock(p) \/ DropClaim(p)

Next ==
    \/ \E p \in Processes :
         \/ \E call \in Calls : Begin(p, call)
         \/ Step(p) \/ PageFails(p) \/ TimeOut(p) \/ Crash(p) \/ Interrupt(p)
    \/ Create \/ ServerUnlocks \/ RecordEnds \/ Lock \/ RemoveFile

Spec == Init /\ [][Next]_vars

\* The system runs its processes, and time passes; nobody has to press anything.
Fairness == \A p \in Processes : WF_vars(Step(p)) /\ WF_vars(TimeOut(p))

FairSpec == Spec /\ Fairness
-----------------------------------------------------------------------------

TypeOK ==
    /\ vault \in {"none", "locked", "unlocked"}
    /\ serving \in {"no", "created", "held"}
    /\ record \in Record \cup {NoRecord}
    /\ task \in [Processes -> Task]

Asking(p) == task[p].pc \in {"notify", "wait"}
Sharing(p) == task[p].pc \in {"share", "look"}

\* The processes of an operation raise one notification while the vault is not
\* open: "the first process of that operation raises the notification and the
\* others wait on vault status" (client.py).
OneNotification ==
    \A p, q \in Processes :
        Asking(p) /\ Asking(q) /\ Mine(p) = Mine(q) /\ ~Reached(Mine(p)) => p = q

\* A claim in force is that of a process which is asking or about to end it, so
\* nobody waits for a process that ended its call, however it ended it.
ClaimIsHeld ==
    Pending(WaitRecord) =>
        task[WaitRecord.pid].pc \in {"notify", "wait", "last", "end", "drop"}

\* The line a call fails with is one of its own operation.
OwnLine == \A p \in Processes : task[p].why \in {None, Mine(p)}

\* A waiting process raises a notification of its own only when the claim it
\* waited on went with no unlock: "the server removes it only after the vault
\* opened" (client.py), so the order of its two reads tells.
TakesOverLost ==
    [][\A p \in Processes : At(p, "look") /\ task'[p].pc = "claim" => task[p].quiet]_task

\* Every call with a deadline ends, whether anybody presses, the status is read or
\* the page answers.
EveryCallEnds ==
    \A p \in Processes \ Patient : ~At(p, "idle") ~> task[p].pc \in {"done", "dead"}

\* A status that is read again and again is read well at some time.
ReadsStatus(p) == SF_vars(LookOpen(p) \/ LookLocked(p, TRUE))

\* One press lets them all go on: a process that waits when the vault opens
\* returns with it open, or finds it locked again.
OnePressForAll ==
    \A p \in Patient : ReadsStatus(p) =>
        (Sharing(p) /\ Reached(Mine(p))
            ~> task[p].result = "opened" \/ ~Reached(Mine(p)) \/ ~Alive(p))

\* A process that stops ends nobody's wait and leaves nobody waiting for it: while
\* a process waits, some process of its operation asks, or comes to ask.
AskedAgain ==
    \A p \in Patient : ReadsStatus(p) =>
        (Sharing(p) ~> ~Sharing(p) \/ \E q \in Processes : Asking(q) /\ Mine(q) = Mine(p))
=============================================================================
