------------------------- MODULE UnlockShare_proofs -------------------------
(***************************************************************************)
(* The safety of UnlockShare for any number of processes, both operations  *)
(* and any set of failures.                                                *)
(*                                                                         *)
(* The inductive invariant says what a record is (RecordOK), what a call   *)
(* has in hand (TaskOK) and whose a claim is (ClaimInHand).                *)
(***************************************************************************)
EXTENDS UnlockShare, TLAPS

\* A record's line is of the operation it names.
RecordOK(r) == r \in Record \cup {NoRecord} /\ r.why \in {None, r.command}

\* A round of the shared wait looks at records of its own operation only.
TaskOK(t) ==
    /\ t \in Task
    /\ t.why \in {None, Command(t.call)}
    /\ RecordOK(t.seen)
    /\ t.pc = "look" => t.seen.why \in {None, Command(t.call)}
    /\ t.pc = "end" => t.result \in {"failed", "unanswered"}

Holding == {"notify", "wait", "last", "end", "drop"}

\* Without `_alive`: the process of a claim asks, ends its call, or was killed.
ClaimInHand(r, t) == Pending(r) => t[r.pid].pc \in Holding \cup {"dead"}

IInv ==
    /\ vault \in {"none", "locked", "unlocked"}
    /\ serving \in {"no", "created", "held"}
    /\ RecordOK(record)
    /\ task \in [Processes -> Task]
    /\ \A p \in Processes : TaskOK(task[p])
    /\ ClaimInHand(record, task)

-----------------------------------------------------------------------------
(* Records and calls.                                                      *)

LEMMA CommandType == \A call : Command(call) \in Commands
BY DEF Command, Commands

LEMMA NoRecordOK == RecordOK(NoRecord) /\ ~Pending(NoRecord) /\ NoRecord.why = None
BY DEF RecordOK, NoRecord, Pending

LEMMA PendingIsRecord ==
    ASSUME NEW r, RecordOK(r), Pending(r)
    PROVE  r \in Record /\ r.pid \in Processes /\ r # NoRecord
BY NoRecordOK DEF RecordOK, Record

LEMMA WaitRecordOK ==
    ASSUME IInv PROVE RecordOK(WaitRecord)
BY NoRecordOK DEF IInv, WaitRecord

LEMMA NoRecordShared == NoRecord \in SharedClaim
BY DEF SharedClaim

\* A call with nothing in hand, on its way into or out of `_one_notification`.
LEMMA BareTaskOK ==
    ASSUME NEW call \in CallKinds \cup {None}, NEW pc \in Steps \ {"look"},
           NEW result \in {None, "opened", "failed", "unanswered", "refused", "error"},
           NEW why \in {None, Command(call)},
           pc = "end" => result \in {"failed", "unanswered"}
    PROVE  TaskOK([Idle EXCEPT !.pc = pc, !.call = call, !.result = result, !.why = why])
<1> DEFINE t == [Idle EXCEPT !.pc = pc, !.call = call, !.result = result, !.why = why]
<1>1. t \in Task
  BY CommandType, NoRecordOK, NoRecordShared DEF Task, Idle, RecordOK
<1>2. t.seen = NoRecord /\ t.why = why /\ t.call = call /\ t.pc = pc /\ t.result = result
  BY DEF Idle
<1>3. QED
  BY <1>1, <1>2, NoRecordOK DEF TaskOK

LEMMA IdleOK == TaskOK(Idle)
<1>1. Idle \in Task
  BY NoRecordOK, NoRecordShared DEF Task, Idle, Steps, RecordOK
<1>2. QED
  BY <1>1, NoRecordOK DEF TaskOK, Idle

-----------------------------------------------------------------------------
(* Steps.                                                                  *)

\* A step of one call that leaves the record as it is.
LEMMA CallStepKeeps ==
    ASSUME IInv, NEW p \in Processes, NEW t, TaskOK(t), Become(p, t),
           task[p].pc \in Holding \cup {"dead"} => t.pc \in Holding \cup {"dead"},
           UNCHANGED <<vault, serving, record>>
    PROVE  IInv'
<1>1. t \in Task
  BY DEF TaskOK
<1>2. task' = [task EXCEPT ![p] = t] /\ task' \in [Processes -> Task]
  BY <1>1 DEF IInv, Become
<1>3. \A q \in Processes : TaskOK(task'[q])
  BY <1>2 DEF IInv
<1>4. ClaimInHand(record, task')
  BY <1>2, PendingIsRecord DEF IInv, ClaimInHand
<1>5. QED
  BY <1>2, <1>3, <1>4 DEF IInv, TaskOK, RecordOK, Task, Record, NoRecord, ClaimInHand

LEMMA BeginKeeps ==
    ASSUME IInv, NEW p \in Processes, NEW call \in Calls, Begin(p, call), ConstantsAssumption
    PROVE  IInv'
<1> DEFINE t == [Idle EXCEPT !.call = call,
                            !.pc = IF call = "unlock" THEN "check" ELSE "refusal"]
<1>1. call \in CallKinds
  BY DEF ConstantsAssumption
<1>2. TaskOK(t)
  <2>1. t \in Task
    BY <1>1, NoRecordOK, NoRecordShared DEF Task, Idle, Steps, RecordOK
  <2>2. t.why = None /\ t.seen = NoRecord /\ t.pc \notin {"look", "end"}
    BY DEF Idle
  <2>3. QED
    BY <2>1, <2>2, NoRecordOK DEF TaskOK
<1>3. Become(p, t) /\ UNCHANGED <<vault, serving, record>> /\ task[p].pc = "idle"
  BY DEF Begin, At
<1>4. QED
  BY <1>2, <1>3, CallStepKeeps DEF Holding

\* The process moves on with what it has.
LEMMA GoOK ==
    ASSUME NEW t, TaskOK(t), NEW pc \in Steps \ {"look"},
           pc = "end" => t.result \in {"failed", "unanswered"}
    PROVE  TaskOK([t EXCEPT !.pc = pc])
<1>1. [t EXCEPT !.pc = pc] \in Task
  BY DEF TaskOK, Task
<1>2. QED
  BY <1>1 DEF TaskOK, Task

LEMMA CallType ==
    ASSUME IInv, NEW p \in Processes
    PROVE  task[p].call \in CallKinds \cup {None} /\ TaskOK(task[p]) /\ task[p] \in Task
BY DEF IInv, TaskOK, Task

\* The four ways of a step, each with what it asks of the step.
LEMMA GoKeeps ==
    ASSUME IInv, NEW p \in Processes, NEW pc \in Steps \ {"look", "end"}, Go(p, pc),
           task[p].pc \in Holding \cup {"dead"} => pc \in Holding \cup {"dead"},
           UNCHANGED <<vault, serving, record>>
    PROVE  IInv'
<1> DEFINE t == [task[p] EXCEPT !.pc = pc]
<1>1. TaskOK(t) /\ t.pc = pc
  BY CallType, GoOK DEF Task
<1>2. QED
  BY <1>1, CallStepKeeps DEF Go

LEMMA ReturnKeeps ==
    ASSUME IInv, NEW p \in Processes, NEW result \in {"opened", "failed", "refused", "error"},
           NEW why \in {None, Mine(p)}, Return(p, result, why),
           task[p].pc \notin Holding \cup {"dead"},
           UNCHANGED <<vault, serving, record>>
    PROVE  IInv'
<1> DEFINE t == [Idle EXCEPT !.pc = "done", !.call = task[p].call,
                             !.result = result, !.why = why]
<1>1. TaskOK(t)
  BY CallType, BareTaskOK DEF Steps, Mine
<1>2. QED
  BY <1>1, CallStepKeeps DEF Return

LEMMA LeaveKeeps ==
    ASSUME IInv, NEW p \in Processes, NEW pc \in {"end", "drop"},
           NEW result \in {"opened", "failed", "unanswered", "error"},
           pc = "end" => result \in {"failed", "unanswered"},
           Leave(p, pc, result), UNCHANGED <<vault, serving, record>>
    PROVE  IInv'
<1> DEFINE t == [Idle EXCEPT !.pc = pc, !.call = task[p].call, !.result = result,
                             !.why = IF pc = "end" THEN Mine(p) ELSE None]
<1>1. TaskOK(t)
  BY CallType, BareTaskOK DEF Steps, Mine
<1>2. t.pc = pc
  BY DEF Idle
<1>3. QED
  BY <1>1, <1>2, CallStepKeeps DEF Leave, Holding

LEMMA AskOK ==
    ASSUME IInv, NEW p \in Processes, NEW pc \in {"notify", "dead"}
    PROVE  TaskOK([Idle EXCEPT !.pc = pc, !.call = task[p].call])
<1> DEFINE t == [Idle EXCEPT !.pc = pc, !.call = task[p].call]
<1>1. t \in Task
  BY CallType, NoRecordOK, NoRecordShared DEF Task, Idle, Steps, RecordOK
<1>2. t.why = None /\ t.seen = NoRecord /\ t.pc = pc
  BY DEF Idle
<1>3. QED
  BY <1>1, <1>2, NoRecordOK DEF TaskOK

LEMMA AskKeeps ==
    ASSUME IInv, NEW p \in Processes, Ask(p), UNCHANGED <<vault, serving, record>>
    PROVE  IInv'
<1> DEFINE t == [Idle EXCEPT !.pc = "notify", !.call = task[p].call]
<1>1. TaskOK(t) /\ t.pc = "notify"
  BY AskOK DEF Idle
<1>2. QED
  BY <1>1, CallStepKeeps DEF Ask, Holding

-----------------------------------------------------------------------------
(* One lemma for each action of a process.                                 *)

LEMMA RefusalKeeps ==
    ASSUME IInv, NEW p \in Processes, Refusal(p) PROVE IInv'
<1>1. task[p].pc = "refusal" /\ UNCHANGED <<vault, serving, record>>
  BY DEF Refusal, At
<1>2. CASE Refuses(p, WaitRecord)
  <2>1. WaitRecord.why \in {None, Mine(p)}
    BY <1>2, WaitRecordOK DEF RecordOK, Refuses
  <2>2. Return(p, "refused", WaitRecord.why)
    BY <1>2 DEF Refusal
  <2>3. QED
    BY <1>1, <2>1, <2>2, ReturnKeeps DEF Holding
<1>3. CASE ~Refuses(p, WaitRecord)
  <2>1. Go(p, "claim") \/ Go(p, "check")
    BY <1>3 DEF Refusal
  <2>2. QED
    BY <1>1, <2>1, GoKeeps DEF Steps, Holding
<1>4. QED
  BY <1>2, <1>3

LEMMA CheckKeeps ==
    ASSUME IInv, NEW p \in Processes, Check(p) PROVE IInv'
<1>1. task[p].pc = "check" /\ UNCHANGED <<vault, serving, record>>
  BY DEF Check, At
<1>2. Return(p, "opened", None) \/ Go(p, "claim") \/ Return(p, "error", None)
  BY DEF Check
<1>3. QED
  BY <1>1, <1>2, ReturnKeeps, GoKeeps DEF Steps, Holding

LEMMA ReadToClaimKeeps ==
    ASSUME IInv, NEW p \in Processes, ReadToClaim(p) PROVE IInv'
<1> DEFINE t == [task[p] EXCEPT !.pc = "claiming", !.seen = WaitRecord]
<1>1. task[p].pc = "claim" /\ Become(p, t) /\ UNCHANGED <<vault, serving, record>>
  BY DEF ReadToClaim, At
<1>2. TaskOK(t)
  BY CallType, WaitRecordOK DEF TaskOK, Task, RecordOK, Steps
<1>3. QED
  BY <1>1, <1>2, CallStepKeeps DEF Holding

\* The claim is written with its process on the way to its notification.
LEMMA ClaimUnlockKeeps ==
    ASSUME IInv, NEW p \in Processes, ClaimUnlock(p) PROVE IInv'
<1> DEFINE r == [state |-> "pending", why |-> KeptLine(task[p].seen, Mine(p)), pid |-> p,
                command |-> Mine(p)]
           t == [Idle EXCEPT !.pc = "notify", !.call = task[p].call]
<1>1. record' = r /\ task' = [task EXCEPT ![p] = t] /\ UNCHANGED <<vault, serving>>
  BY DEF ClaimUnlock, Ask, Become
<1>2. KeptLine(task[p].seen, Mine(p)) \in {None, Mine(p)} /\ Mine(p) \in Commands
  BY CallType, CommandType DEF TaskOK, RecordOK, KeptLine, Mine
<1>3. RecordOK(r)
  BY <1>2 DEF RecordOK, Record
<1>4. TaskOK(t) /\ t.pc = "notify"
  BY AskOK DEF Idle
<1>5. task' \in [Processes -> Task] /\ \A q \in Processes : TaskOK(task'[q])
  BY <1>1, <1>4 DEF IInv, TaskOK
<1>6. ClaimInHand(r, task')
  BY <1>1, <1>4 DEF ClaimInHand, Holding, IInv
<1>7. QED
  BY <1>1, <1>3, <1>5, <1>6 DEF IInv, RecordOK, TaskOK, Task, Record, NoRecord, ClaimInHand

LEMMA FindClaimKeeps ==
    ASSUME IInv, NEW p \in Processes, FindClaim(p) PROVE IInv'
<1>1. /\ task[p].pc = "claiming" /\ Pending(task[p].seen)
      /\ UNCHANGED <<vault, serving, record>>
  BY DEF FindClaim, At, Claims
<1>2. RecordOK(task[p].seen)
  BY CallType DEF TaskOK
<1>3. CASE Ask(p)
  BY <1>1, <1>3, AskKeeps
<1>4. CASE task[p].seen.command = Mine(p) /\ Return(p, "failed", task[p].seen.why)
  BY <1>1, <1>2, <1>4, ReturnKeeps DEF RecordOK, Holding
<1>5. CASE Become(p, [task[p] EXCEPT !.pc = "share", !.shared = task[p].seen,
                                     !.seen = NoRecord, !.sharing = TRUE])
  <2> DEFINE t == [task[p] EXCEPT !.pc = "share", !.shared = task[p].seen,
                                  !.seen = NoRecord, !.sharing = TRUE]
  <2>1. task[p].seen \in SharedClaim
    BY <1>1, <1>2, PendingIsRecord DEF SharedClaim
  <2>2. t \in Task
    BY <2>1, CallType DEF Task, Steps
  <2>3. TaskOK(t)
    BY <2>2, CallType, NoRecordOK DEF TaskOK, Task
  <2>4. QED
    BY <1>1, <1>5, <2>3, CallStepKeeps DEF Holding
<1>6. QED
  BY <1>3, <1>4, <1>5 DEF FindClaim

LEMMA QuietOK ==
    ASSUME NEW t \in Task, NEW b \in BOOLEAN PROVE [t EXCEPT !.quiet = b] \in Task
BY DEF Task

LEMMA ReadRecordKeeps ==
    ASSUME IInv, NEW p \in Processes, ReadRecord(p) PROVE IInv'
<1> DEFINE r == OfMine(p, WaitRecord)
           b == ~Reached(Mine(p)) /\ serving # "held"
           t == [task[p] EXCEPT !.pc = "look", !.seen = r, !.quiet = b]
<1>1. task[p].pc = "share" /\ Become(p, t) /\ UNCHANGED <<vault, serving, record>>
  BY DEF ReadRecord, At
<1>2. RecordOK(r) /\ r.why \in {None, Mine(p)}
  BY WaitRecordOK, NoRecordOK DEF OfMine, RecordOK
<1>3. b \in BOOLEAN
  OBVIOUS
<1>4. t \in Task
  <2>1. [task[p] EXCEPT !.pc = "look", !.seen = r] \in Task
    BY <1>2, CallType DEF Task, Steps, RecordOK
  <2>2. QED
    BY <1>3, <2>1, QuietOK
<1>5. TaskOK(t)
  BY <1>2, <1>4, CallType DEF TaskOK, Task, Mine
<1>6. QED
  BY <1>1, <1>5, CallStepKeeps DEF Holding

LEMMA LookOpenKeeps ==
    ASSUME IInv, NEW p \in Processes, LookOpen(p) PROVE IInv'
BY ReturnKeeps DEF LookOpen, At, Holding

LEMMA NextRoundKeeps ==
    ASSUME IInv, NEW p \in Processes, task[p].pc = "look",
           NEW claim \in SharedClaim, NextRound(p, claim),
           UNCHANGED <<vault, serving, record>>
    PROVE  IInv'
<1> DEFINE t == [task[p] EXCEPT !.pc = "share", !.shared = claim, !.seen = NoRecord,
                                !.quiet = FALSE]
<1>1. t \in Task
  <2>1. [task[p] EXCEPT !.pc = "share", !.shared = claim, !.seen = NoRecord] \in Task
    BY CallType DEF Task, Steps
  <2>2. QED
    BY <2>1, QuietOK
<1>2. TaskOK(t)
  BY <1>1, CallType, NoRecordOK DEF TaskOK, Task
<1>3. QED
  BY <1>2, CallStepKeeps DEF NextRound, Holding

LEMMA LookLockedKeeps ==
    ASSUME IInv, NEW p \in Processes, NEW locked \in BOOLEAN, LookLocked(p, locked) PROVE IInv'
<1> DEFINE t == task[p]
<1>1. t.pc = "look" /\ UNCHANGED <<vault, serving, record>>
  BY DEF LookLocked, At
<1>2. t.seen.why \in {None, Mine(p)} /\ RecordOK(t.seen) /\ Mine(p) \in Commands
  BY <1>1, CallType, CommandType DEF TaskOK, Mine
<1>3. CASE Return(p, "failed", IF t.seen.why # None THEN t.seen.why ELSE Mine(p))
  BY <1>1, <1>2, <1>3, ReturnKeeps DEF Holding
<1>4. CASE Go(p, "claim")
  BY <1>1, <1>4, GoKeeps DEF Steps, Holding
<1>5. CASE Return(p, "failed", t.seen.why)
  BY <1>1, <1>2, <1>5, ReturnKeeps DEF Holding
<1>6. CASE Pending(t.seen) /\ NextRound(p, t.seen)
  BY <1>1, <1>2, <1>6, PendingIsRecord, NextRoundKeeps DEF SharedClaim
<1>7. CASE NextRound(p, t.shared)
  <2>1. t.shared \in SharedClaim
    BY CallType DEF Task
  <2>2. QED
    BY <1>1, <1>7, <2>1, NextRoundKeeps
<1>8. QED
  BY <1>3, <1>4, <1>5, <1>6, <1>7 DEF LookLocked

LEMMA NotifyKeeps ==
    ASSUME IInv, NEW p \in Processes, Notify(p) PROVE IInv'
BY GoKeeps, LeaveKeeps DEF Notify, Steps, Holding

LEMMA WaitKeeps ==
    ASSUME IInv, NEW p \in Processes, Wait(p) PROVE IInv'
<1>1. UNCHANGED <<vault, serving, record>>
  BY DEF Wait
<1>2. Leave(p, "end", "failed") \/ Go(p, "last") \/ Leave(p, "drop", "opened")
  BY DEF Wait
<1>3. QED
  BY <1>1, <1>2, GoKeeps, LeaveKeeps DEF Steps, Holding

LEMMA LastLookKeeps ==
    ASSUME IInv, NEW p \in Processes, LastLook(p) PROVE IInv'
<1>1. UNCHANGED <<vault, serving, record>>
  BY DEF LastLook
<1>2. Leave(p, "drop", "opened") \/ Leave(p, "end", "unanswered") \/ Leave(p, "drop", "error")
  BY DEF LastLook
<1>3. QED
  BY <1>1, <1>2, LeaveKeeps

\* An end or nothing in place of the record is no claim.
LEMMA RecordStepKeeps ==
    ASSUME IInv, NEW p \in Processes, NEW pc \in {"drop", "done"}, Go(p, pc),
           RecordOK(record'), ~Pending(record'), UNCHANGED <<vault, serving>>
    PROVE  IInv'
<1> DEFINE t == [task[p] EXCEPT !.pc = pc]
<1>1. TaskOK(t)
  BY CallType, GoOK DEF Steps
<1>2. task' = [task EXCEPT ![p] = t]
  BY DEF Go, Become
<1>3. task' \in [Processes -> Task] /\ \A q \in Processes : TaskOK(task'[q])
  BY <1>1, <1>2 DEF IInv, TaskOK
<1>4. QED
  BY <1>3 DEF IInv, RecordOK, TaskOK, Task, Record, NoRecord, ClaimInHand, Pending

LEMMA EndUnlockKeeps ==
    ASSUME IInv, NEW p \in Processes, EndUnlock(p) PROVE IInv'
<1> DEFINE r == [state |-> task[p].result, why |-> Mine(p), pid |-> p, command |-> Mine(p)]
<1>1. task[p].result \in {"failed", "unanswered"}
  BY CallType DEF EndUnlock, At, TaskOK
<1>2. RecordOK(r) /\ ~Pending(r)
  BY <1>1, CommandType DEF RecordOK, Record, Pending, Mine
<1>3. record' = r /\ Go(p, "drop") /\ UNCHANGED <<vault, serving>>
  BY DEF EndUnlock
<1>4. QED
  BY <1>2, <1>3, RecordStepKeeps

\* A claim that stays is another process's, so its own process may be done.
LEMMA DropClaimKeeps ==
    ASSUME IInv, NEW p \in Processes, DropClaim(p) PROVE IInv'
<1>1. task[p].pc = "drop" /\ Go(p, "done") /\ UNCHANGED <<vault, serving>>
  BY DEF DropClaim, At
<1>2. CASE Drops(p)
  BY <1>1, <1>2, NoRecordOK, RecordStepKeeps DEF DropClaim
<1>3. CASE ~Drops(p)
  <2>1. record' = record
    BY <1>3 DEF DropClaim
  <2>2. CASE ~Pending(record)
    BY <1>1, <2>1, <2>2, RecordStepKeeps DEF IInv, RecordOK, Record, NoRecord
  <2>3. CASE Pending(record)
    <3> DEFINE t == [task[p] EXCEPT !.pc = "done"]
    <3>1. record.pid # p
      BY <1>1, <1>3, <2>3 DEF Drops, WaitRecord, Alive, At
    <3>2. TaskOK(t)
      BY CallType, GoOK DEF Steps
    <3>3. task' = [task EXCEPT ![p] = t]
      BY <1>1 DEF Go, Become
    <3>4. task' \in [Processes -> Task] /\ \A q \in Processes : TaskOK(task'[q])
      BY <3>2, <3>3 DEF IInv, TaskOK
    <3>5. ClaimInHand(record, task')
      BY <2>3, <3>1, <3>3, PendingIsRecord DEF IInv, ClaimInHand
    <3>6. QED
      BY <1>1, <2>1, <3>4, <3>5
      DEF IInv, RecordOK, TaskOK, Task, Record, NoRecord, ClaimInHand
  <2>4. QED
    BY <2>2, <2>3
<1>4. QED
  BY <1>2, <1>3

-----------------------------------------------------------------------------
(* The server, the page, time and faults.                                  *)

\* Nothing outside a process writes a claim.
LEMMA OutsideKeeps ==
    ASSUME IInv, UNCHANGED task,
           vault' \in {"none", "locked", "unlocked"}, serving' \in {"no", "created", "held"},
           record' \in {record, NoRecord}
    PROVE  IInv'
<1>1. RecordOK(record') /\ (Pending(record') => record' = record)
  BY NoRecordOK DEF IInv
<1>2. ClaimInHand(record', task)
  BY <1>1 DEF IInv, ClaimInHand
<1>3. QED
  BY <1>1, <1>2 DEF IInv, RecordOK, TaskOK, Task, Record, NoRecord, ClaimInHand

LEMMA ServerKeeps ==
    ASSUME IInv, Create \/ ServerUnlocks \/ RecordEnds \/ Lock \/ RemoveFile PROVE IInv'
<1>1. CASE Create
  BY <1>1, OutsideKeeps DEF Create
<1>2. CASE ServerUnlocks
  BY <1>2, OutsideKeeps
  DEF ServerUnlocks, HoldThenRemove, ServerHolds, ServerRemoves, IInv
<1>3. CASE RecordEnds
  BY <1>3, OutsideKeeps DEF RecordEnds, IInv
<1>4. CASE Lock \/ RemoveFile
  BY <1>4, OutsideKeeps DEF Lock, RemoveFile, IInv
<1>5. QED
  BY <1>1, <1>2, <1>3, <1>4

\* A deadline or a failure of the page changes what a call knows, not where it is.
LEMMA FlagOK ==
    ASSUME NEW t, TaskOK(t)
    PROVE  TaskOK([t EXCEPT !.over = TRUE]) /\ TaskOK([t EXCEPT !.answered = TRUE])
<1>1. [t EXCEPT !.over = TRUE] \in Task /\ [t EXCEPT !.answered = TRUE] \in Task
  BY DEF TaskOK, Task
<1>2. QED
  BY <1>1 DEF TaskOK, Task

LEMMA FlagKeeps ==
    ASSUME IInv, NEW p \in Processes, PageFails(p) \/ TimeOut(p) PROVE IInv'
<1>1. UNCHANGED <<vault, serving, record>>
  BY DEF PageFails, TimeOut
<1>2. CASE PageFails(p)
  <2> DEFINE t == [task[p] EXCEPT !.answered = TRUE]
  <2>1. TaskOK(t) /\ t.pc = task[p].pc
    BY CallType, FlagOK DEF Task
  <2>2. QED
    BY <1>1, <1>2, <2>1, CallStepKeeps DEF PageFails
<1>3. CASE TimeOut(p)
  <2> DEFINE t == [task[p] EXCEPT !.over = TRUE]
  <2>1. TaskOK(t) /\ t.pc = task[p].pc
    BY CallType, FlagOK DEF Task
  <2>2. QED
    BY <1>1, <1>3, <2>1, CallStepKeeps DEF TimeOut
<1>4. QED
  BY <1>2, <1>3

LEMMA StopKeeps ==
    ASSUME IInv, NEW p \in Processes, Crash(p) \/ Interrupt(p) PROVE IInv'
<1>1. CASE Crash(p)
  <2> DEFINE t == [Idle EXCEPT !.pc = "dead", !.call = task[p].call]
  <2>1. TaskOK(t) /\ t.pc = "dead"
    BY AskOK DEF Idle
  <2>2. QED
    BY <1>1, <2>1, CallStepKeeps DEF Crash
<1>2. CASE Interrupt(p)
  BY <1>2, LeaveKeeps, ReturnKeeps DEF Interrupt, Holding
<1>3. QED
  BY <1>1, <1>2

-----------------------------------------------------------------------------
(* The invariant and what follows from it.                                 *)

LEMMA InitOK == Init => IInv
<1> SUFFICES ASSUME Init PROVE IInv
  OBVIOUS
<1>1. task = [p \in Processes |-> Idle] /\ record = NoRecord
  BY DEF Init
<1>2. task \in [Processes -> Task] /\ \A p \in Processes : TaskOK(task[p])
  BY <1>1, IdleOK DEF TaskOK
<1>3. QED
  BY <1>1, <1>2, NoRecordOK DEF Init, IInv, ClaimInHand

LEMMA StepKeeps ==
    ASSUME IInv, NEW p \in Processes, Step(p) PROVE IInv'
<1>1. CASE Refusal(p) \/ Check(p)
  BY <1>1, RefusalKeeps, CheckKeeps
<1>2. CASE ReadToClaim(p) \/ ClaimUnlock(p) \/ FindClaim(p)
  BY <1>2, ReadToClaimKeeps, ClaimUnlockKeeps, FindClaimKeeps
<1>3. CASE ReadRecord(p) \/ LookOpen(p) \/ \E locked \in BOOLEAN : LookLocked(p, locked)
  BY <1>3, ReadRecordKeeps, LookOpenKeeps, LookLockedKeeps
<1>4. CASE Notify(p) \/ Wait(p) \/ LastLook(p)
  BY <1>4, NotifyKeeps, WaitKeeps, LastLookKeeps
<1>5. CASE EndUnlock(p) \/ DropClaim(p)
  BY <1>5, EndUnlockKeeps, DropClaimKeeps
<1>6. QED
  BY <1>1, <1>2, <1>3, <1>4, <1>5 DEF Step

LEMMA NextKeeps == IInv /\ [Next]_vars => IInv'
<1> SUFFICES ASSUME IInv, [Next]_vars PROVE IInv'
  OBVIOUS
<1>1. ASSUME NEW p \in Processes, NEW call \in Calls, Begin(p, call) PROVE IInv'
  BY <1>1, BeginKeeps, ConstantsAssumption
<1>2. ASSUME NEW p \in Processes, Step(p) PROVE IInv'
  BY <1>2, StepKeeps
<1>3. ASSUME NEW p \in Processes, PageFails(p) \/ TimeOut(p) \/ Crash(p) \/ Interrupt(p)
      PROVE  IInv'
  BY <1>3, FlagKeeps, StopKeeps
<1>4. CASE Create \/ ServerUnlocks \/ RecordEnds \/ Lock \/ RemoveFile
  BY <1>4, ServerKeeps
<1>5. CASE UNCHANGED vars
  BY <1>5, OutsideKeeps DEF vars, IInv
<1>6. QED
  BY <1>1, <1>2, <1>3, <1>4, <1>5 DEF Next

\* What the record, the calls and the claim always are, for any number of
\* processes: the two theorems below follow from it.
THEOREM Invariance == Spec => []IInv
BY InitOK, NextKeeps, PTL DEF Spec

\* The state keeps its types: a process shares claims only, never an end.
THEOREM Typed == Spec => []TypeOK
<1>1. IInv => TypeOK
  BY DEF IInv, RecordOK, TypeOK
<1>2. QED
  BY <1>1, Invariance, PTL

\* A claim in force is that of a process which asks or is about to end its call:
\* `_drop_claim` leaves none behind, however the wait ended.
THEOREM ClaimAlwaysHeld == Spec => []ClaimIsHeld
<1>1. IInv => ClaimIsHeld
  <2> SUFFICES ASSUME IInv, Pending(WaitRecord)
               PROVE  task[WaitRecord.pid].pc \in Holding
    BY DEF ClaimIsHeld, Holding
  <2>1. WaitRecord = record /\ Alive(record.pid)
    BY NoRecordOK DEF WaitRecord
  <2>2. QED
    BY <2>1 DEF IInv, ClaimInHand, Alive, At
<1>2. QED
  BY <1>1, Invariance, PTL

\* A call fails with a line of its own operation, whatever the one record that
\* two operations share went through while it waited.
THEOREM LinesAlwaysOwn == Spec => []OwnLine
<1>1. IInv => OwnLine
  BY DEF IInv, TaskOK, OwnLine, Mine
<1>2. QED
  BY <1>1, Invariance, PTL

-----------------------------------------------------------------------------
(* One notification, where processes unlock and the vault stays open.      *)

OneOperation ==
    /\ Calls \subseteq {"unlock", "read"}
    /\ "lock" \notin Faults
    /\ "remove" \notin Faults

AskSteps == {"notify", "wait", "last", "end"}

UnlocksOnly(t) == t.call # "setup" /\ t.seen.command # "setup"

\* While the vault is not open, whoever asks has the claim: the server removes it
\* after the vault opened, and another process writes only where it read none.
NInv ==
    /\ IInv
    /\ record.command # "setup"
    /\ \A p \in Processes : UnlocksOnly(task[p])
    /\ serving = "held" => vault = "unlocked"
    /\ \A p \in Processes :
         task[p].pc \in AskSteps /\ vault # "unlocked" => Pending(record) /\ record.pid = p
    /\ \A p \in Processes : At(p, "claiming") /\ ~Pending(task[p].seen) => ~Pending(WaitRecord)
    /\ \A p, q \in Processes : At(p, "claiming") /\ At(q, "claiming") => p = q

\* A step of one call that neither claims nor asks, or goes on with asking.
LEMMA MoveKeeps ==
    ASSUME NInv, IInv', NEW p \in Processes, NEW t, Become(p, t),
           UNCHANGED <<vault, serving, record>>, UnlocksOnly(t), t.pc # "claiming",
           t.pc \in AskSteps => task[p].pc \in AskSteps, task[p].pc # "dead"
    PROVE  NInv'
<1>1. task' = [task EXCEPT ![p] = t] /\ task'[p] = t
  BY DEF NInv, IInv, Become
<1>2. \A q \in Processes \ {p} : task'[q] = task[q]
  BY <1>1 DEF NInv, IInv
<1>3. Pending(record) => record.pid \in Processes
  BY PendingIsRecord DEF NInv, IInv
<1>4. ~Pending(WaitRecord) => ~Pending(WaitRecord')
  BY <1>1, <1>2, <1>3, NoRecordOK DEF WaitRecord, Alive, At, NInv, IInv
<1>5. \A q \in Processes : UnlocksOnly(task'[q])
  BY <1>1, <1>2 DEF NInv
<1>6. \A q \in Processes : task'[q].pc \in AskSteps => task[q].pc \in AskSteps
  BY <1>1, <1>2
<1>7. \A q \in Processes : task'[q].pc = "claiming" => q # p /\ task'[q] = task[q]
  BY <1>1, <1>2
<1>8. QED
  BY <1>4, <1>5, <1>6, <1>7 DEF NInv, At, UnlocksOnly, Pending

LEMMA NoneIsNoSetup == None # "setup"
BY ConstantsAssumption DEF ConstantsAssumption, CallKinds

LEMMA BeginOnce ==
    ASSUME NInv, IInv', OneOperation, NEW p \in Processes, NEW call \in Calls, Begin(p, call)
    PROVE  NInv'
<1> DEFINE t == [Idle EXCEPT !.call = call,
                            !.pc = IF call = "unlock" THEN "check" ELSE "refusal"]
<1>1. call # "setup"
  BY DEF OneOperation
<1>2. UnlocksOnly(t) /\ t.pc \in {"check", "refusal"}
  BY <1>1, NoneIsNoSetup DEF UnlocksOnly, Idle, NoRecord
<1>3. QED
  BY <1>2, MoveKeeps DEF Begin, At, AskSteps

\* The shapes a call takes when it moves, leaves or returns.
LEMMA GoOnce ==
    ASSUME NInv, IInv', NEW p \in Processes, NEW pc \in Steps \ {"claiming"}, Go(p, pc),
           UNCHANGED <<vault, serving, record>>, pc \in AskSteps => task[p].pc \in AskSteps,
           task[p].pc # "dead"
    PROVE  NInv'
<1> DEFINE t == [task[p] EXCEPT !.pc = pc]
<1>1. t.pc = pc /\ UnlocksOnly(t)
  BY CallType DEF NInv, Task, UnlocksOnly
<1>2. QED
  BY <1>1, MoveKeeps DEF Go

LEMMA ReturnOnce ==
    ASSUME NInv, IInv', NEW p \in Processes, NEW result, NEW why, Return(p, result, why),
           UNCHANGED <<vault, serving, record>>, task[p].pc # "dead"
    PROVE  NInv'
<1> DEFINE t == [Idle EXCEPT !.pc = "done", !.call = task[p].call,
                             !.result = result, !.why = why]
<1>1. UnlocksOnly(t) /\ t.pc = "done"
  BY NoneIsNoSetup DEF NInv, UnlocksOnly, Idle, NoRecord
<1>2. Become(p, t)
  BY DEF Return
<1>3. QED
  BY <1>1, <1>2, MoveKeeps DEF AskSteps

LEMMA LeaveOnce ==
    ASSUME NInv, IInv', NEW p \in Processes, NEW pc \in {"end", "drop"}, NEW result,
           Leave(p, pc, result), UNCHANGED <<vault, serving, record>>,
           task[p].pc \in AskSteps
    PROVE  NInv'
<1> DEFINE t == [Idle EXCEPT !.pc = pc, !.call = task[p].call, !.result = result,
                             !.why = IF pc = "end" THEN Mine(p) ELSE None]
<1>1. UnlocksOnly(t) /\ t.pc = pc
  BY NoneIsNoSetup DEF NInv, UnlocksOnly, Idle, NoRecord
<1>2. Become(p, t)
  BY DEF Leave
<1>3. QED
  BY <1>1, <1>2, MoveKeeps DEF AskSteps

LEMMA RefusalOnce ==
    ASSUME NInv, IInv', NEW p \in Processes, Refusal(p) \/ Check(p) PROVE NInv'
<1>1. /\ task[p].pc \in {"refusal", "check"} /\ UNCHANGED <<vault, serving, record>>
      /\ \/ \E result, why : Return(p, result, why)
         \/ Go(p, "claim") \/ Go(p, "check")
  BY DEF Refusal, Check, At
<1>2. QED
  BY <1>1, ReturnOnce, GoOnce DEF Steps, AskSteps

\* A process that reads no claim under the lock reads none of a process that asks.
LEMMA ReadToClaimOnce ==
    ASSUME NInv, IInv', NEW p \in Processes, ReadToClaim(p) PROVE NInv'
<1> DEFINE t == [task[p] EXCEPT !.pc = "claiming", !.seen = WaitRecord]
<1>1. task[p].pc = "claim" /\ task' = [task EXCEPT ![p] = t]
      /\ UNCHANGED <<vault, serving, record>> /\ LockFree
  BY DEF ReadToClaim, At, Become
<1>2. task'[p] = t /\ t.pc = "claiming" /\ t.seen = WaitRecord /\ t.call = task[p].call
  BY <1>1, CallType DEF NInv, IInv, Task
<1>3. \A q \in Processes \ {p} : task'[q] = task[q] /\ task[q].pc # "claiming"
  BY <1>1 DEF NInv, IInv, LockFree, At
<1>4. WaitRecord.command # "setup"
  BY NoneIsNoSetup DEF NInv, WaitRecord, NoRecord
<1>5. Pending(record) => record.pid \in Processes
  BY PendingIsRecord DEF NInv, IInv
<1>6. WaitRecord' = WaitRecord
  BY <1>1, <1>2, <1>3, <1>5 DEF WaitRecord, Alive, At, Pending
<1>7. \A q \in Processes : UnlocksOnly(task'[q])
  BY <1>2, <1>3, <1>4 DEF NInv, UnlocksOnly
<1>8. \A q \in Processes : task'[q].pc \in AskSteps => task[q].pc \in AskSteps
  BY <1>2, <1>3 DEF AskSteps
<1>9. \A q \in Processes : task'[q].pc = "claiming" => q = p
  BY <1>3
<1>10. QED
  BY <1>1, <1>2, <1>6, <1>7, <1>8, <1>9 DEF NInv, At, Pending

\* Where a claim is written, nobody asks or the vault is open.
LEMMA ClaimUnlockOnce ==
    ASSUME NInv, IInv', NEW p \in Processes, ClaimUnlock(p) PROVE NInv'
<1> DEFINE t == [Idle EXCEPT !.pc = "notify", !.call = task[p].call]
<1>1. /\ task[p].pc = "claiming" /\ ~Pending(task[p].seen)
      /\ task' = [task EXCEPT ![p] = t] /\ UNCHANGED <<vault, serving>>
      /\ record'.state = "pending" /\ record'.pid = p /\ record'.command = Mine(p)
  BY DEF ClaimUnlock, Claims, At, Ask, Become
<1>2. task'[p] = t /\ t.pc = "notify" /\ UnlocksOnly(t)
  BY <1>1, NoneIsNoSetup DEF NInv, IInv, UnlocksOnly, Idle, NoRecord
<1>3. \A q \in Processes \ {p} : task'[q] = task[q] /\ task[q].pc # "claiming"
  BY <1>1 DEF NInv, IInv, At
<1>4. ~Pending(WaitRecord)
  BY <1>1 DEF NInv, At
<1>5. \A q \in Processes : task[q].pc \in AskSteps => vault = "unlocked"
  <2> SUFFICES ASSUME NEW q \in Processes, task[q].pc \in AskSteps, vault # "unlocked"
               PROVE  FALSE
    OBVIOUS
  <2>1. Pending(record) /\ record.pid = q
    BY DEF NInv
  <2>2. QED
    BY <1>4, <2>1 DEF WaitRecord, Alive, At, AskSteps
<1>6. Mine(p) # "setup"
  BY DEF NInv, UnlocksOnly, Mine, Command
<1>7. \A q \in Processes : UnlocksOnly(task'[q])
  BY <1>2, <1>3 DEF NInv
<1>8. \A q \in Processes : task'[q].pc # "claiming"
  BY <1>2, <1>3
<1>9. \A q \in Processes : task'[q].pc \in AskSteps /\ vault # "unlocked" => q = p
  BY <1>3, <1>5
<1>10. QED
  BY <1>1, <1>6, <1>7, <1>8, <1>9 DEF NInv, At, Pending

LEMMA FindClaimOnce ==
    ASSUME NInv, IInv', NEW p \in Processes, FindClaim(p) PROVE NInv'
<1>1. /\ task[p].pc = "claiming" /\ Pending(task[p].seen)
      /\ UNCHANGED <<vault, serving, record>>
  BY DEF FindClaim, At, Claims
<1>2. task[p].seen.command = Mine(p)
  <2>1. task[p].seen \in Record /\ task[p].seen.command # "setup" /\ task[p].call # "setup"
    BY <1>1, CallType, PendingIsRecord DEF NInv, TaskOK, UnlocksOnly
  <2>2. QED
    BY <2>1 DEF Record, Commands, Mine, Command
<1>3. CASE Return(p, "failed", task[p].seen.why)
  BY <1>1, <1>3, ReturnOnce
<1>4. CASE Become(p, [task[p] EXCEPT !.pc = "share", !.shared = task[p].seen,
                                     !.seen = NoRecord, !.sharing = TRUE])
  <2> DEFINE t == [task[p] EXCEPT !.pc = "share", !.shared = task[p].seen,
                                  !.seen = NoRecord, !.sharing = TRUE]
  <2>1. t.pc = "share" /\ UnlocksOnly(t)
    BY CallType, NoneIsNoSetup DEF NInv, Task, UnlocksOnly, NoRecord
  <2>2. QED
    BY <1>1, <1>4, <2>1, MoveKeeps DEF AskSteps
<1>5. QED
  BY <1>2, <1>3, <1>4 DEF FindClaim

LEMMA ReadRecordOnce ==
    ASSUME NInv, IInv', NEW p \in Processes, ReadRecord(p) PROVE NInv'
<1> DEFINE r == OfMine(p, WaitRecord)
           b == ~Reached(Mine(p)) /\ serving # "held"
           t == [task[p] EXCEPT !.pc = "look", !.seen = r, !.quiet = b]
<1>1. task[p].pc = "share" /\ Become(p, t) /\ UNCHANGED <<vault, serving, record>>
  BY DEF ReadRecord, At
<1>2. r.command # "setup"
  BY NoneIsNoSetup DEF NInv, OfMine, WaitRecord, NoRecord
<1>3. t.pc = "look" /\ t.seen = r /\ t.call = task[p].call
  BY CallType DEF NInv, Task
<1>4. UnlocksOnly(t)
  BY <1>2, <1>3 DEF NInv, UnlocksOnly
<1>5. QED
  BY <1>1, <1>3, <1>4, MoveKeeps DEF AskSteps

LEMMA NextRoundOnce ==
    ASSUME NInv, IInv', NEW p \in Processes, NEW claim, task[p].pc = "look",
           NextRound(p, claim), UNCHANGED <<vault, serving, record>>
    PROVE  NInv'
<1> DEFINE t == [task[p] EXCEPT !.pc = "share", !.shared = claim, !.seen = NoRecord,
                                !.quiet = FALSE]
<1>1. t.pc = "share" /\ t.seen = NoRecord /\ t.call = task[p].call
  BY CallType DEF NInv, Task
<1>2. UnlocksOnly(t)
  BY <1>1, NoneIsNoSetup DEF NInv, UnlocksOnly, NoRecord
<1>3. QED
  BY <1>1, <1>2, MoveKeeps DEF NextRound, AskSteps

LEMMA LookOnce ==
    ASSUME NInv, IInv', NEW p \in Processes,
           LookOpen(p) \/ \E locked \in BOOLEAN : LookLocked(p, locked)
    PROVE  NInv'
<1>1. task[p].pc = "look" /\ UNCHANGED <<vault, serving, record>>
  BY DEF LookOpen, LookLocked, At
<1>2. \/ \E result, why : Return(p, result, why)
      \/ Go(p, "claim")
      \/ \E claim : NextRound(p, claim)
  BY DEF LookOpen, LookLocked
<1>3. QED
  BY <1>1, <1>2, ReturnOnce, GoOnce, NextRoundOnce DEF Steps, AskSteps

LEMMA AskingOnce ==
    ASSUME NInv, IInv', NEW p \in Processes, Notify(p) \/ Wait(p) \/ LastLook(p) PROVE NInv'
<1>1. task[p].pc \in {"notify", "wait", "last"} /\ UNCHANGED <<vault, serving, record>>
  BY DEF Notify, Wait, LastLook, At
<1>2. \/ Go(p, "wait") \/ Go(p, "last")
      \/ \E pc \in {"end", "drop"} : \E result : Leave(p, pc, result)
  BY DEF Notify, Wait, LastLook
<1>3. QED
  BY <1>1, <1>2, GoOnce, LeaveOnce DEF Steps, AskSteps

\* A write under the lock, from which the process asks no more.
LEMMA EndingOnce ==
    ASSUME NInv, IInv', NEW p \in Processes, NEW pc \in {"drop", "done"}, Go(p, pc), LockFree,
           record'.command # "setup", UNCHANGED <<vault, serving>>,
           \A q \in Processes \ {p} :
             task[q].pc \in AskSteps /\ vault # "unlocked" => record' = record
    PROVE  NInv'
<1> DEFINE t == [task[p] EXCEPT !.pc = pc]
<1>1. task' = [task EXCEPT ![p] = t] /\ task'[p] = t /\ t.pc = pc /\ UnlocksOnly(t)
  BY CallType DEF NInv, IInv, Go, Become, Task, UnlocksOnly
<1>2. \A q \in Processes \ {p} : task'[q] = task[q] /\ task[q].pc # "claiming"
  BY <1>1 DEF NInv, IInv, LockFree, At
<1>3. \A q \in Processes : UnlocksOnly(task'[q]) /\ task'[q].pc # "claiming"
  BY <1>1, <1>2 DEF NInv
<1>4. \A q \in Processes : task'[q].pc \in AskSteps => q # p /\ task[q].pc \in AskSteps
  BY <1>1, <1>2 DEF AskSteps
<1>5. \A q \in Processes : task'[q].pc \in AskSteps /\ vault # "unlocked" =>
                           Pending(record') /\ record'.pid = q
  BY <1>4 DEF NInv
<1>6. QED
  BY <1>3, <1>5 DEF NInv, At, Pending

LEMMA EndUnlockOnce ==
    ASSUME NInv, IInv', NEW p \in Processes, EndUnlock(p) PROVE NInv'
<1>1. task[p].pc = "end" /\ Go(p, "drop") /\ LockFree /\ UNCHANGED <<vault, serving>>
  BY DEF EndUnlock, At
<1>2. record'.command # "setup"
  BY DEF EndUnlock, NInv, UnlocksOnly, Mine, Command
<1>3. \A q \in Processes \ {p} : ~(task[q].pc \in AskSteps /\ vault # "unlocked")
  BY <1>1 DEF NInv, AskSteps
<1>4. QED
  BY <1>1, <1>2, <1>3, EndingOnce

LEMMA DropClaimOnce ==
    ASSUME NInv, IInv', NEW p \in Processes, DropClaim(p) PROVE NInv'
<1>1. task[p].pc = "drop" /\ Go(p, "done") /\ LockFree /\ UNCHANGED <<vault, serving>>
  BY DEF DropClaim, At
<1>2. record'.command # "setup"
  BY NoneIsNoSetup DEF DropClaim, NInv, NoRecord
<1>3. \A q \in Processes \ {p} :
        task[q].pc \in AskSteps /\ vault # "unlocked" => record' = record
  BY NoRecordOK DEF NInv, DropClaim, Drops, WaitRecord
<1>4. QED
  BY <1>1, <1>2, <1>3, EndingOnce

\* The server holds the key before it removes the record, and nobody locks here.
LEMMA ServerOnce ==
    ASSUME NInv, IInv', OneOperation, Create \/ ServerUnlocks \/ RecordEnds \/ Lock \/ RemoveFile
    PROVE  NInv'
<1>1. /\ UNCHANGED task /\ record' \in {record, NoRecord}
      /\ serving' = "held" => vault' = "unlocked"
      /\ vault' # "unlocked" => vault # "unlocked" /\ (Pending(record) => record' = record)
  BY DEF Create, ServerUnlocks, HoldThenRemove, ServerHolds, ServerRemoves, RecordEnds, Lock,
         RemoveFile, OneOperation, NInv, IInv
<1>2. record'.command # "setup"
  BY <1>1, NoneIsNoSetup DEF NInv, NoRecord
<1>3. ~Pending(WaitRecord) => ~Pending(WaitRecord')
  BY <1>1, NoRecordOK DEF WaitRecord, Alive, At
<1>4. QED
  BY <1>1, <1>2, <1>3 DEF NInv, At, Pending, UnlocksOnly

LEMMA FlagOnce ==
    ASSUME NInv, IInv', NEW p \in Processes, PageFails(p) \/ TimeOut(p) PROVE NInv'
<1>1. UNCHANGED <<vault, serving, record>> /\ task[p].pc \in {"share", "look", "wait"}
  BY DEF PageFails, TimeOut, At
<1>2. CASE PageFails(p)
  <2> DEFINE t == [task[p] EXCEPT !.answered = TRUE]
  <2>1. t.pc = task[p].pc /\ UnlocksOnly(t)
    BY CallType DEF NInv, Task, UnlocksOnly
  <2>2. QED
    BY <1>1, <1>2, <2>1, MoveKeeps DEF PageFails
<1>3. CASE TimeOut(p)
  <2> DEFINE t == [task[p] EXCEPT !.over = TRUE]
  <2>1. t.pc = task[p].pc /\ UnlocksOnly(t)
    BY CallType DEF NInv, Task, UnlocksOnly
  <2>2. QED
    BY <1>1, <1>3, <2>1, MoveKeeps DEF TimeOut
<1>4. QED
  BY <1>2, <1>3

LEMMA StopOnce ==
    ASSUME NInv, IInv', NEW p \in Processes, Crash(p) \/ Interrupt(p) PROVE NInv'
<1>1. CASE Crash(p)
  <2> DEFINE t == [Idle EXCEPT !.pc = "dead", !.call = task[p].call]
  <2>1. t.pc = "dead" /\ UnlocksOnly(t)
    BY NoneIsNoSetup DEF NInv, UnlocksOnly, Idle, NoRecord
  <2>2. QED
    BY <1>1, <2>1, MoveKeeps DEF Crash, AskSteps
<1>2. CASE Interrupt(p)
  BY <1>2, LeaveOnce, ReturnOnce DEF Interrupt, AskSteps
<1>3. QED
  BY <1>1, <1>2

LEMMA InitOnce == Init => NInv
<1> SUFFICES ASSUME Init PROVE NInv
  OBVIOUS
<1>1. task = [p \in Processes |-> Idle] /\ record = NoRecord /\ serving = "no"
  BY DEF Init
<1>2. UnlocksOnly(Idle) /\ Idle.pc = "idle"
  BY NoneIsNoSetup DEF UnlocksOnly, Idle, NoRecord
<1>3. NoRecord.command # "setup"
  BY NoneIsNoSetup DEF NoRecord
<1>4. QED
  BY <1>1, <1>2, <1>3, InitOK DEF NInv, At, AskSteps

LEMMA NextOnce == OneOperation /\ NInv /\ [Next]_vars => NInv'
<1> SUFFICES ASSUME OneOperation, NInv, [Next]_vars PROVE NInv'
  OBVIOUS
<1>1. IInv'
  BY NextKeeps DEF NInv
<1>2. ASSUME NEW p \in Processes, NEW call \in Calls, Begin(p, call) PROVE NInv'
  BY <1>1, <1>2, BeginOnce
<1>3. ASSUME NEW p \in Processes, Step(p) PROVE NInv'
  BY <1>1, <1>3, RefusalOnce, ReadToClaimOnce, ClaimUnlockOnce, FindClaimOnce,
     ReadRecordOnce, LookOnce, AskingOnce, EndUnlockOnce, DropClaimOnce DEF Step
<1>4. ASSUME NEW p \in Processes, PageFails(p) \/ TimeOut(p) \/ Crash(p) \/ Interrupt(p)
      PROVE  NInv'
  BY <1>1, <1>4, FlagOnce, StopOnce
<1>5. CASE Create \/ ServerUnlocks \/ RecordEnds \/ Lock \/ RemoveFile
  BY <1>1, <1>5, ServerOnce
<1>6. CASE UNCHANGED vars
  BY <1>1, <1>6 DEF vars, NInv, At, UnlocksOnly, Pending, WaitRecord, Alive
<1>7. QED
  BY <1>2, <1>3, <1>4, <1>5, <1>6 DEF Next

\* Any number of processes that unlock raise one notification between them, until
\* the vault opens, whichever of them are killed, fail or run out of time.
THEOREM OneIsRaised ==
    ASSUME OneOperation PROVE Spec => []OneNotification
<1>1. NInv => OneNotification
  <2> SUFFICES ASSUME NInv, NEW p \in Processes, NEW q \in Processes, Asking(p), Asking(q),
                      ~Reached(Mine(p))
               PROVE  p = q
    BY DEF OneNotification
  <2>1. vault # "unlocked"
    BY DEF Reached, Mine, Command, NInv, UnlocksOnly
  <2>2. QED
    BY <2>1 DEF NInv, Asking, AskSteps
<1>2. QED
  BY <1>1, InitOnce, NextOnce, PTL DEF Spec

-----------------------------------------------------------------------------
(* Taking over, for both operations, where a vault that opens stays open.  *)

StaysOpen == {"lock", "remove"} \cap Faults = {}

\* Whoever read the record while an unlock was done or being told finds the vault
\* reached at its look at the status, which comes after: the server holds the key
\* before it removes the record.
LookInv ==
    /\ serving = "held" => vault = "unlocked"
    /\ \A p \in Processes : At(p, "look") => task[p].quiet \/ Reached(Mine(p))

\* A step of one call that does not begin a look.
LEMMA NoNewLook ==
    ASSUME IInv, LookInv, NEW p \in Processes, UNCHANGED <<vault, serving>>,
           \A q \in Processes \ {p} : task'[q] = task[q],
           \/ task'[p].pc # "look"
           \/ /\ task'[p].pc = task[p].pc /\ task'[p].quiet = task[p].quiet
              /\ task'[p].call = task[p].call
    PROVE  LookInv'
BY DEF LookInv, At, Reached, Mine

LEMMA OneMoves ==
    ASSUME IInv, NEW p \in Processes, NEW t, Become(p, t)
    PROVE  task'[p] = t /\ \A q \in Processes \ {p} : task'[q] = task[q]
BY DEF IInv, Become

LEMMA ReturnPc ==
    ASSUME IInv, NEW p \in Processes, NEW result, NEW why, Return(p, result, why)
    PROVE  task'[p].pc = "done" /\ \A q \in Processes \ {p} : task'[q] = task[q]
<1> DEFINE t == [Idle EXCEPT !.pc = "done", !.call = task[p].call, !.result = result, !.why = why]
<1>1. t.pc = "done" /\ Become(p, t)
  BY DEF Idle, Return
<1> HIDE DEF t
<1>2. QED
  BY <1>1, OneMoves

LEMMA LeavePc ==
    ASSUME IInv, NEW p \in Processes, NEW pc, NEW result, Leave(p, pc, result)
    PROVE  task'[p].pc = pc /\ \A q \in Processes \ {p} : task'[q] = task[q]
<1> DEFINE t == [Idle EXCEPT !.pc = pc, !.call = task[p].call, !.result = result,
                             !.why = IF pc = "end" THEN Mine(p) ELSE None]
<1>1. t.pc = pc /\ Become(p, t)
  BY DEF Idle, Leave
<1> HIDE DEF t
<1>2. QED
  BY <1>1, OneMoves

LEMMA GoPc ==
    ASSUME IInv, NEW p \in Processes, NEW pc, Go(p, pc)
    PROVE  task'[p].pc = pc /\ \A q \in Processes \ {p} : task'[q] = task[q]
<1> DEFINE t == [task[p] EXCEPT !.pc = pc]
<1>1. t.pc = pc /\ Become(p, t)
  BY CallType DEF Task, Go
<1> HIDE DEF t
<1>2. QED
  BY <1>1, OneMoves

LEMMA AskPc ==
    ASSUME IInv, NEW p \in Processes, Ask(p)
    PROVE  task'[p].pc = "notify" /\ \A q \in Processes \ {p} : task'[q] = task[q]
<1> DEFINE t == [Idle EXCEPT !.pc = "notify", !.call = task[p].call]
<1>1. t.pc = "notify" /\ Become(p, t)
  BY DEF Idle, Ask
<1> HIDE DEF t
<1>2. QED
  BY <1>1, OneMoves

\* Where a step of a call goes; only a look that finds the vault short of its key
\* goes on to the claim from the shared wait.
LEMMA LookLockedPc ==
    ASSUME IInv, NEW p \in Processes, NEW locked \in BOOLEAN, LookLocked(p, locked)
    PROVE  /\ task'[p].pc \in {"done", "claim", "share"}
           /\ task'[p].pc = "claim" => ~Reached(Mine(p))
           /\ \A q \in Processes \ {p} : task'[q] = task[q]
<1> DEFINE t == task[p]
<1>1. \/ \E why : Return(p, "failed", why)
      \/ locked /\ Go(p, "claim")
      \/ \E claim : NextRound(p, claim)
  BY DEF LookLocked
<1>2. locked => ~Reached(Mine(p))
  BY DEF LookLocked
<1>3. ASSUME NEW claim, NextRound(p, claim)
      PROVE  task'[p].pc = "share" /\ \A q \in Processes \ {p} : task'[q] = task[q]
  <2> DEFINE u == [t EXCEPT !.pc = "share", !.shared = claim, !.seen = NoRecord, !.quiet = FALSE]
  <2>1. u.pc = "share" /\ Become(p, u)
    BY <1>3, CallType DEF Task, NextRound
  <2> HIDE DEF u
  <2>2. QED
    BY <2>1, OneMoves
<1>4. QED
  BY <1>1, <1>2, <1>3, ReturnPc, GoPc

LEMMA StepPc ==
    ASSUME IInv, NEW p \in Processes, Step(p), ~ReadRecord(p)
    PROVE  /\ task'[p].pc # "look" /\ \A q \in Processes \ {p} : task'[q] = task[q]
           /\ UNCHANGED <<vault, serving>>
           /\ At(p, "look") /\ task'[p].pc = "claim" => ~Reached(Mine(p))
<1>1. UNCHANGED <<vault, serving>>
  BY DEF Step, Refusal, Check, ReadToClaim, ClaimUnlock, FindClaim, ReadRecord, LookOpen, LookLocked,
     Notify, Wait, LastLook, EndUnlock, DropClaim
<1>2. CASE Refusal(p) \/ Check(p)
  BY <1>1, <1>2, ReturnPc, GoPc DEF Refusal, Check, At
<1>3. CASE ReadToClaim(p)
  <2> DEFINE t == [task[p] EXCEPT !.pc = "claiming", !.seen = WaitRecord]
  <2>1. t.pc = "claiming" /\ Become(p, t)
    BY <1>3, CallType DEF Task, ReadToClaim
  <2> HIDE DEF t
  <2>2. QED
    BY <1>1, <2>1, OneMoves
<1>4. CASE ClaimUnlock(p)
  BY <1>1, <1>4, AskPc DEF ClaimUnlock
<1>5. CASE FindClaim(p)
  <2> DEFINE t == [task[p] EXCEPT !.pc = "share", !.shared = task[p].seen, !.seen = NoRecord,
                                  !.sharing = TRUE]
  <2>1. t.pc = "share"
    BY CallType DEF Task
  <2>2. Ask(p) \/ Return(p, "failed", task[p].seen.why) \/ Become(p, t)
    BY <1>5 DEF FindClaim
  <2> HIDE DEF t
  <2>3. QED
    BY <1>1, <2>1, <2>2, AskPc, ReturnPc, OneMoves
<1>6. CASE LookOpen(p)
  BY <1>1, <1>6, ReturnPc DEF LookOpen
<1>7. CASE \E locked \in BOOLEAN : LookLocked(p, locked)
  BY <1>1, <1>7, LookLockedPc
<1>8. CASE Notify(p)
  BY <1>1, <1>8, GoPc, LeavePc DEF Notify
<1>9. CASE Wait(p)
  BY <1>1, <1>9, GoPc, LeavePc DEF Wait
<1>10. CASE LastLook(p)
  BY <1>1, <1>10, LeavePc DEF LastLook
<1>11. CASE EndUnlock(p) \/ DropClaim(p)
  BY <1>1, <1>11, GoPc DEF EndUnlock, DropClaim
<1>12. QED
  BY <1>2, <1>3, <1>4, <1>5, <1>6, <1>7, <1>8, <1>9, <1>10, <1>11 DEF Step

\* The round's first read: what it says of the vault stays true until its second.
LEMMA ReadRecordLook ==
    ASSUME IInv, LookInv, NEW p \in Processes, ReadRecord(p) PROVE LookInv'
<1> DEFINE b == ~Reached(Mine(p)) /\ serving # "held"
           r == OfMine(p, WaitRecord)
           t == [task[p] EXCEPT !.pc = "look", !.seen = r, !.quiet = b]
<1>1. Become(p, t) /\ UNCHANGED <<vault, serving>>
  BY DEF ReadRecord
<1>2. t.quiet = b /\ t.call = task[p].call
  BY CallType DEF Task
<1>3. b \/ Reached(Mine(p))
  <2>1. serving = "held" => Reached(Mine(p))
    BY DEF LookInv, Reached
  <2>2. QED
    BY <2>1
<1> HIDE DEF t, b
<1>4. task'[p] = t /\ \A q \in Processes \ {p} : task'[q] = task[q]
  BY <1>1, OneMoves
<1>5. (t.quiet \/ Reached(Mine(p))) /\ Mine(p)' = Mine(p)
  BY <1>2, <1>3, <1>4 DEF Mine
<1>6. QED
  BY <1>1, <1>4, <1>5 DEF LookInv, At, Reached, Mine

LEMMA FlagPc ==
    ASSUME IInv, NEW p \in Processes, PageFails(p) \/ TimeOut(p)
    PROVE  /\ \A q \in Processes \ {p} : task'[q] = task[q]
           /\ task'[p].pc = task[p].pc /\ task'[p].quiet = task[p].quiet
           /\ task'[p].call = task[p].call /\ UNCHANGED <<vault, serving>>
<1> DEFINE t == [task[p] EXCEPT !.answered = TRUE]
           u == [task[p] EXCEPT !.over = TRUE]
<1>1. (Become(p, t) \/ Become(p, u)) /\ UNCHANGED <<vault, serving>>
  BY DEF PageFails, TimeOut
<1>2. t.pc = task[p].pc /\ t.quiet = task[p].quiet /\ t.call = task[p].call
      /\ u.pc = task[p].pc /\ u.quiet = task[p].quiet /\ u.call = task[p].call
  BY CallType DEF Task
<1> HIDE DEF t, u
<1>3. QED
  BY <1>1, <1>2, OneMoves

LEMMA StopPc ==
    ASSUME IInv, NEW p \in Processes,
           Crash(p) \/ Interrupt(p) \/ \E call \in Calls : Begin(p, call)
    PROVE  /\ task'[p].pc \in {"dead", "drop", "done", "check", "refusal"}
           /\ \A q \in Processes \ {p} : task'[q] = task[q]
           /\ UNCHANGED <<vault, serving>>
<1>1. CASE Crash(p)
  <2> DEFINE t == [Idle EXCEPT !.pc = "dead", !.call = task[p].call]
  <2>1. t.pc = "dead" /\ Become(p, t)
    BY <1>1 DEF Idle, Crash
  <2> HIDE DEF t
  <2>2. QED
    BY <1>1, <2>1, OneMoves DEF Crash
<1>2. CASE Interrupt(p)
  BY <1>2, LeavePc, ReturnPc DEF Interrupt
<1>3. CASE \E call \in Calls : Begin(p, call)
  <2>1. PICK call \in Calls : Begin(p, call)
    BY <1>3
  <2> DEFINE pc == IF call = "unlock" THEN "check" ELSE "refusal"
             t == [Idle EXCEPT !.call = call, !.pc = pc]
  <2>2. t.pc = pc /\ Become(p, t) /\ UNCHANGED <<vault, serving>>
    BY <2>1 DEF Idle, Begin
  <2>3. pc \in {"check", "refusal"}
    OBVIOUS
  <2> HIDE DEF t, pc
  <2>4. QED
    BY <2>2, <2>3, OneMoves
<1>4. QED
  BY <1>1, <1>2, <1>3

\* A vault that opens, or is set up, stays so.
LEMMA ServerLook ==
    ASSUME IInv, LookInv, StaysOpen, Create \/ ServerUnlocks \/ RecordEnds \/ Lock \/ RemoveFile
    PROVE  LookInv' /\ UNCHANGED task
<1>1. UNCHANGED task /\ (serving' = "held" => vault' = "unlocked")
  BY DEF LookInv, StaysOpen, Create, ServerUnlocks, HoldThenRemove, ServerHolds, RecordEnds, Lock,
     RemoveFile
<1>2. \/ vault' = vault
      \/ vault = "none" /\ vault' = "locked"
      \/ vault = "locked" /\ vault' = "unlocked"
  BY DEF StaysOpen, Create, ServerUnlocks, HoldThenRemove, ServerHolds, RecordEnds, Lock, RemoveFile
<1>3. \A p \in Processes : Reached(Mine(p)) => Reached(Mine(p))'
  BY <1>1, <1>2 DEF Reached, Mine
<1>4. QED
  BY <1>1, <1>3 DEF LookInv, At

TakesOver == \A p \in Processes : At(p, "look") /\ task'[p].pc = "claim" => task[p].quiet

LEMMA NextLook ==
    ASSUME StaysOpen
    PROVE  IInv /\ LookInv /\ [Next]_vars => LookInv' /\ (TakesOver \/ UNCHANGED task)
<1> SUFFICES ASSUME IInv, LookInv, [Next]_vars PROVE LookInv' /\ (TakesOver \/ UNCHANGED task)
  OBVIOUS
<1>1. ASSUME NEW p \in Processes, \A q \in Processes \ {p} : task'[q] = task[q],
             At(p, "look") /\ task'[p].pc = "claim" => ~Reached(Mine(p))
      PROVE  TakesOver
  BY <1>1 DEF TakesOver, At, LookInv
<1>2. ASSUME NEW p \in Processes, Step(p), ~ReadRecord(p) PROVE LookInv' /\ TakesOver
  BY <1>1, <1>2, StepPc, NoNewLook
<1>3. ASSUME NEW p \in Processes, ReadRecord(p) PROVE LookInv' /\ TakesOver
  <2>1. ~At(p, "look") /\ \A q \in Processes \ {p} : task'[q] = task[q]
    BY <1>3, OneMoves DEF ReadRecord, At
  <2>2. QED
    BY <1>1, <1>3, <2>1, ReadRecordLook
<1>4. ASSUME NEW p \in Processes, PageFails(p) \/ TimeOut(p) PROVE LookInv' /\ TakesOver
  BY <1>1, <1>4, FlagPc, NoNewLook DEF At
<1>5. ASSUME NEW p \in Processes,
             Crash(p) \/ Interrupt(p) \/ \E call \in Calls : Begin(p, call)
      PROVE  LookInv' /\ TakesOver
  BY <1>1, <1>5, StopPc, NoNewLook
<1>6. CASE Create \/ ServerUnlocks \/ RecordEnds \/ Lock \/ RemoveFile
  BY <1>6, ServerLook
<1>7. CASE UNCHANGED vars
  BY <1>7 DEF vars, LookInv, At, Reached, Mine
<1>8. QED
  BY <1>2, <1>3, <1>4, <1>5, <1>6, <1>7 DEF Next

LEMMA InitLook == Init => LookInv
BY DEF Init, LookInv, At, Idle

\* A process that waits on another's notification raises its own only when, at
\* its last look at the record, no unlock of its operation was done or being told:
\* a press that opened the vault makes nobody ask again (`_share_unlock`).
THEOREM OnlyLostIsTakenOver ==
    ASSUME StaysOpen PROVE Spec => TakesOverLost
<1>1. IInv /\ LookInv /\ [Next]_vars => LookInv' /\ [TakesOver]_task
  BY NextLook
<1>2. QED
  BY <1>1, Invariance, InitLook, PTL DEF Spec, TakesOverLost, TakesOver

=============================================================================
