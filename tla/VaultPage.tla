----------------------------- MODULE VaultPage -----------------------------
(***************************************************************************)
(* The vault in one tab of the browser: the panel (vault/panel.ts), what   *)
(* the plugin does with each state it reads (vault/plugin.ts), and the     *)
(* registration of a passkey (vault/webauthn.ts).                          *)
(*                                                                         *)
(* A task is one run of an async function: a reader runs `refresh` or      *)
(* `_tick`, the task "act" the action behind `_act`.  A step of a task is  *)
(* the code from one `await` to the next.  The server answers a request at *)
(* one moment and the answer arrives at a later one.                       *)
(***************************************************************************)
EXTENDS Integers, Sequences, SequencesExt

CONSTANTS
    Readers,        \* bound: the reads of the panel under way at once
    Actions,        \* what the user does in the panel: see ActionKinds
    MaxChanges,     \* bound: changes of the vault
    MaxFaults,      \* bound: failed requests, and countdowns that end early
    Faults,         \* "late": requests and their answers overtake each other
    None

ActionKinds == {"lock", "unlock", "write", "register"}

ASSUME PageAssumption ==
    /\ Actions \subseteq ActionKinds
    /\ MaxChanges \in Nat /\ MaxFaults \in Nat
    /\ "act" \notin Readers

VARIABLES
    vault,      \* what the server has: is it unlocked, and the change it stands at
    task,       \* reader or "act" -> the async function it runs
    wire,       \* requests and their answers under way, in the order they were sent
    view,       \* the panel's `_status`, `_entries` and `_readError`
    drawn,      \* what the body was last drawn from
    shown,      \* the panel is visible, and its timer runs
    note,       \* the unlock notification: "none" yet, "here" or "gone"
    passkey,    \* the passkey a registration makes
    past        \* history: an unlock since the notification came, a passkey stored; and
                \* what the bounds count

vars == <<vault, task, wire, view, drawn, shown, note, passkey, past>>

-----------------------------------------------------------------------------

Tasks == Readers \cup {"act"}
Idle == [pc |-> "idle", kind |-> None, before |-> None, since |-> FALSE]
Busy == task["act"].pc # "idle"
Waits == {"tick", "status", "entries", "request"}

Asked(t) == [task |-> t, is |-> "asked", of |-> None]

\* A task waits for an answer.  `since` is whether the notification was there when the
\* state was asked for.
Waiting(pc, n) == [Idle EXCEPT !.pc = pc, !.since = n = "here"]

Fails == past.faults < MaxFaults
Failed == past.faults + 1

\* The vault after a change by `kind`; the change is what its revision tells apart.
Changed(kind) ==
    [unlocked |-> CASE kind = "lock" -> FALSE
                    [] kind = "unlock" -> TRUE
                    [] OTHER -> vault.unlocked,
     at |-> vault.at + (IF kind \in {"write", "register"} THEN 1 ELSE 0)]

Change(kind, faults) ==
    /\ vault' = Changed(kind)
    /\ past' = [past EXCEPT
            !.opened = note = "here" /\ (@ \/ vault'.unlocked),
            !.stored = @ \/ kind = "register",
            !.changes = @ + 1,
            !.faults = faults]

-----------------------------------------------------------------------------
(* The server, and everyone else who changes its vault.                    *)

\* A command, another tab, or the end of the unlock.
Elsewhere ==
    /\ past.changes < MaxChanges
    /\ \E kind \in {"lock", "unlock", "write"} :
        /\ kind = "write" => vault.unlocked
        /\ kind # "write" => vault.unlocked = (kind = "lock")
        /\ Change(kind, past.faults)
    /\ UNCHANGED <<task, wire, view, drawn, shown, note, passkey>>

\* Without "late" the server takes the requests in the order they were sent, and the
\* answers arrive in that order.
Unserved == {i \in DOMAIN wire : wire[i].is = "asked"}
Served == DOMAIN wire \ Unserved
Taking(i) == i \in Unserved /\ (\A j \in Unserved : i <= j \/ "late" \in Faults)
Arriving(i) == i \in Served /\ (i = 1 \/ "late" \in Faults)

Answer(i, is, of) == wire' = [wire EXCEPT ![i].is = is, ![i].of = of]

\* `VaultService.status` and `entries`; 423 is the answer on a locked vault.
ServeRead(i) ==
    LET pc == task[wire[i].task].pc
    IN  /\ Taking(i) /\ pc # "request"
        /\ \/ /\ pc = "entries" => vault.unlocked
              /\ Answer(i, "ok", vault)
              /\ UNCHANGED past
           \/ /\ pc = "entries" /\ ~vault.unlocked
              /\ Answer(i, "locked", None)
              /\ UNCHANGED past
           \/ /\ Fails
              /\ Answer(i, "failed", None)
              /\ past' = [past EXCEPT !.faults = Failed]
        /\ UNCHANGED <<vault, task, view, drawn, shown, note, passkey>>

\* A 4xx answer changed nothing.  A 5xx, or an answer that is lost, tells nothing of
\* it: `add_pair` stores the slot before it holds the key.
ServeRequest(i) ==
    LET kind == task["act"].kind
        Allowed == kind = "write" => vault.unlocked
    IN  /\ Taking(i) /\ task[wire[i].task].pc = "request"
        /\ \/ /\ Allowed /\ past.changes < MaxChanges
              /\ \/ Answer(i, "ok", None) /\ Change(kind, past.faults)
                 \/ Fails /\ Answer(i, "failed", None) /\ Change(kind, Failed)
           \/ /\ Answer(i, "refused", None)
              /\ UNCHANGED <<vault, past>>
           \/ /\ Fails
              /\ Answer(i, "failed", None)
              /\ past' = [past EXCEPT !.faults = Failed]
              /\ UNCHANGED vault
        /\ UNCHANGED <<task, view, drawn, shown, note, passkey>>

-----------------------------------------------------------------------------
(* plugin.ts: `watch`, which every status read of the panel calls.         *)

\* Mutant: any read that shows the vault unlocked dismisses it.
DismissedByAny(status, since) ==
    IF note = "here" /\ status.unlocked THEN "gone" ELSE note

\* An unlock notification goes for a read begun after it came (`dismissStale`).
Dismissed(status, since) ==
    IF note = "here" /\ status.unlocked /\ since THEN "gone" ELSE note

Watch(status, since) ==
    /\ note' = Dismissed(status, since)
    /\ past' = [past EXCEPT !.opened = @ /\ note' = "here"]

\* A command asks for an unlock in every tab; `Notification.manager.changed`.
NoteComes ==
    /\ note = "none"
    /\ note' = "here"
    /\ past' = [past EXCEPT !.opened = vault.unlocked]
    /\ UNCHANGED <<vault, task, wire, view, drawn, shown, passkey>>

-----------------------------------------------------------------------------
(* panel.ts: `refresh` and `_tick`.                                        *)

\* An answer is taken; with `Again` the same task asks for the next.
Taken(i) == wire' = RemoveAt(wire, i)
TakenAgain(i) == wire' = Append(RemoveAt(wire, i), Asked(wire[i].task))
Sent(t) == wire' = Append(wire, Asked(t))

\* The body is drawn at once; while an action runs, when it ends (`_act`).
Ends(t, v) ==
    /\ view' = v
    /\ task' = [task EXCEPT ![t] = Idle]
    /\ drawn' = IF Busy /\ t # "act" THEN drawn ELSE [status |-> v.status, entries |-> v.entries]

\* Begun by the Refresh button, a reveal, or a step done for a command in this tab.
Refresh(t) ==
    /\ task[t].pc = "idle"
    /\ task' = [task EXCEPT ![t] = Waiting("status", note)]
    /\ Sent(t)
    /\ UNCHANGED <<vault, view, drawn, shown, note, passkey, past>>

\* `onAfterShow`
Show(t) ==
    /\ ~shown /\ task[t].pc = "idle"
    /\ shown' = TRUE
    /\ task' = [task EXCEPT ![t] = Waiting("status", note)]
    /\ Sent(t)
    /\ UNCHANGED <<vault, view, drawn, note, passkey, past>>

\* Mutant: a notification has no timer.
PollsShown == shown

\* The timer of a panel that is shown, or of a notification (`read`).
Polls == shown \/ note = "here"

Tick(t) ==
    /\ Polls
    /\ ~Busy /\ task[t].pc = "idle"
    /\ task' = [task EXCEPT ![t] = [Waiting("tick", note) EXCEPT !.before = view.status]]
    /\ Sent(t)
    /\ UNCHANGED <<vault, view, drawn, shown, note, passkey, past>>

\* Mutant: after a failed read too, only when the state is another one.
ReadsOnChange(t, status) == status # task[t].before

\* A tick reads all again when the state is another one, or the last read failed.
ReadsAgain(t, status) == status # task[t].before \/ view.failed

TickAnswer(i) ==
    LET t == wire[i].task
        status == wire[i].of
    IN  /\ task[t].pc = "tick" /\ Arriving(i)
        /\ \/ /\ wire[i].is = "failed"
              /\ Taken(i)
              /\ view' = [view EXCEPT !.failed = TRUE]
              /\ task' = [task EXCEPT ![t] = Idle]
              /\ UNCHANGED <<note, past>>
           \/ /\ wire[i].is = "ok"
              /\ view' = [view EXCEPT !.status = status]
              /\ Watch(status, task[t].since)
              /\ IF ~Busy /\ ReadsAgain(t, status)
                 THEN /\ TakenAgain(i)
                      /\ task' = [task EXCEPT ![t] = Waiting("status", note')]
                 ELSE /\ Taken(i)
                      /\ task' = [task EXCEPT ![t] = Idle]
        /\ UNCHANGED <<vault, drawn, shown, passkey>>

\* The state first, then the entries of an unlocked vault.
StatusAnswer(i) ==
    LET t == wire[i].task
        status == wire[i].of
    IN  /\ task[t].pc = "status" /\ Arriving(i)
        /\ \/ /\ wire[i].is = "failed"
              /\ Taken(i)
              /\ Ends(t, [view EXCEPT !.failed = TRUE])
              /\ UNCHANGED <<note, past>>
           \/ /\ wire[i].is = "ok" /\ status.unlocked
              /\ TakenAgain(i)
              /\ view' = [view EXCEPT !.status = status]
              /\ Watch(status, task[t].since)
              /\ task' = [task EXCEPT ![t].pc = "entries"]
              /\ UNCHANGED drawn
           \/ /\ wire[i].is = "ok" /\ ~status.unlocked
              /\ Taken(i)
              /\ Watch(status, task[t].since)
              /\ Ends(t, [status |-> status, entries |-> None, failed |-> FALSE])
        /\ UNCHANGED <<vault, shown, passkey>>

EntriesAnswer(i) ==
    LET t == wire[i].task
    IN  /\ task[t].pc = "entries" /\ Arriving(i) /\ Taken(i)
        /\ Ends(t, CASE wire[i].is = "failed" -> [view EXCEPT !.failed = TRUE]
                     [] wire[i].is = "locked" ->
                            [status |-> [view.status EXCEPT !.unlocked = FALSE],
                             entries |-> None, failed |-> FALSE]
                     [] wire[i].is = "ok" ->
                            [view EXCEPT !.entries = wire[i].of.at, !.failed = FALSE])
        /\ UNCHANGED <<vault, shown, note, passkey, past>>

\* `_renderStatus`: the time left ran out in the tab.
Countdown(t) ==
    /\ view.status # None /\ view.status.unlocked
    /\ Fails /\ task[t].pc = "idle"
    /\ view' = [view EXCEPT !.status.unlocked = FALSE]
    /\ past' = [past EXCEPT !.faults = Failed]
    /\ IF Busy THEN UNCHANGED <<task, wire>>
       ELSE /\ task' = [task EXCEPT ![t] = Waiting("status", note)]
            /\ Sent(t)
    /\ UNCHANGED <<vault, drawn, shown, note, passkey>>

-----------------------------------------------------------------------------
(* panel.ts: `_act`, one action at a time; it reads all when it ends.      *)

\* What the drawn view offers.
Offers(kind) ==
    /\ drawn.status # None
    /\ kind \in {"lock", "write"} => drawn.status.unlocked
    /\ kind = "unlock" => ~drawn.status.unlocked
    /\ kind = "register" => passkey = "none"

Press(kind) ==
    /\ kind \in Actions /\ Offers(kind)
    /\ ~Busy
    /\ IF kind = "register"
       THEN /\ task' = [task EXCEPT !["act"].pc = "create", !["act"].kind = kind]
            /\ UNCHANGED wire
       ELSE /\ task' = [task EXCEPT !["act"].pc = "request", !["act"].kind = kind]
            /\ Sent("act")
    /\ UNCHANGED <<vault, view, drawn, shown, note, passkey, past>>

ActReads == task' = [task EXCEPT !["act"] = Waiting("status", note)]

\* `registerPasskey`: the browser makes the passkey, or refuses.
Create ==
    /\ task["act"].pc = "create"
    /\ \/ /\ passkey' = "made"
          /\ task' = [task EXCEPT !["act"].pc = "confirm"]
          /\ UNCHANGED wire
       \/ ActReads /\ Sent("act") /\ UNCHANGED passkey
    /\ UNCHANGED <<vault, view, drawn, shown, note, past>>

\* The click and the passkey's answer, or the user backs out: then it is unused.
Confirm ==
    /\ task["act"].pc = "confirm"
    /\ \/ task' = [task EXCEPT !["act"].pc = "request"] /\ UNCHANGED passkey
       \/ ActReads /\ passkey' = "forgotten"
    /\ Sent("act")
    /\ UNCHANGED <<vault, view, drawn, shown, note, past>>

\* Mutant: any failure is a refusal.
OutcomeRefused(is) == IF is = "ok" THEN "added" ELSE "forgotten"

\* Only a 4xx answer proves that the request stored nothing (`stored`).
Outcome(is) == CASE is = "ok" -> "added"
                 [] is = "refused" -> "forgotten"
                 [] is = "failed" -> "maybe added"

RequestAnswer(i) ==
    /\ task[wire[i].task].pc = "request" /\ Arriving(i) /\ TakenAgain(i)
    /\ passkey' = IF task["act"].kind = "register" THEN Outcome(wire[i].is) ELSE passkey
    /\ ActReads
    /\ UNCHANGED <<vault, view, drawn, shown, note, past>>

-----------------------------------------------------------------------------

Init ==
    /\ vault \in [unlocked : BOOLEAN, at : {0}]
    /\ \E t \in Readers :       \* the plugin reads the state when it starts
        /\ task = [u \in Tasks |-> IF u = t THEN [Idle EXCEPT !.pc = "status"] ELSE Idle]
        /\ wire = <<Asked(t)>>
    /\ view = [status |-> None, entries |-> None, failed |-> FALSE]
    /\ drawn = [status |-> None, entries |-> None]
    /\ shown = FALSE
    /\ note = "none"
    /\ passkey = "none"
    /\ past = [opened |-> FALSE, stored |-> FALSE, changes |-> 0, faults |-> 0]

\* A task has one request under way.
Serve(t) == \E i \in DOMAIN wire : wire[i].task = t /\ (ServeRead(i) \/ ServeRequest(i))

Receive(t) == \E i \in DOMAIN wire :
    /\ wire[i].task = t
    /\ TickAnswer(i) \/ StatusAnswer(i) \/ EntriesAnswer(i) \/ RequestAnswer(i)

Next ==
    \/ Elsewhere
    \/ NoteComes
    \/ Create \/ Confirm
    \/ \E kind \in Actions : Press(kind)
    \/ \E t \in Tasks : Serve(t) \/ Receive(t)
    \/ \E t \in Readers : Refresh(t) \/ Show(t) \/ Tick(t) \/ Countdown(t)

Spec == Init /\ [][Next]_vars

\* Every request is answered, the timers fire, and a registration goes on once the
\* user has begun it.  Nobody has to press anything.
FairSpec ==
    /\ Spec
    /\ \A t \in Tasks : WF_vars(Serve(t)) /\ WF_vars(Receive(t))
    /\ WF_vars(\E t \in Readers : Tick(t))
    /\ WF_vars(Create) /\ WF_vars(Confirm)

-----------------------------------------------------------------------------

State == [unlocked : BOOLEAN, at : 0 .. MaxChanges]

\* Every variable has its shape; no more answers are under way than tasks wait.
TypeOK ==
    /\ vault \in State
    /\ task \in [Tasks -> [pc : Waits \cup {"idle", "create", "confirm"},
                           kind : Actions \cup {None},
                           before : State \cup {None}, since : BOOLEAN]]
    /\ \A i \in DOMAIN wire :
        /\ wire[i].task \in Tasks /\ task[wire[i].task].pc \in Waits
        /\ wire[i].is \in {"asked", "ok", "locked", "refused", "failed"}
        /\ wire[i].of \in State \cup {None}
    /\ \A t \in Tasks : task[t].pc = "tick" => t # "act"
    /\ view \in [status : State \cup {None}, entries : 0 .. MaxChanges \cup {None},
                 failed : BOOLEAN]
    /\ drawn \in [status : State \cup {None}, entries : 0 .. MaxChanges \cup {None}]
    /\ shown \in BOOLEAN
    /\ note \in {"none", "here", "gone"}
    /\ passkey \in {"none", "made", "added", "maybe added", "forgotten"}
    /\ past \in [opened : BOOLEAN, stored : BOOLEAN,
                 changes : 0 .. MaxChanges, faults : 0 .. MaxFaults]

\* The browser is asked to remove a passkey only when the vault has no slot of it: a
\* request that failed may have stored it (webauthn.ts, `stored`).
KeepsStoredPasskey == passkey = "forgotten" => ~past.stored

\* An unlock notification is taken away only when the vault has been unlocked since it
\* came; a read that began before can tell of the unlock that ended (`dismissStale`).
NoteStaysUntilReached ==
    [][note = "here" /\ note' = "gone" => past.opened]_vars

\* What the body shows is what the vault is.
Settled ==
    /\ view.status = vault
    /\ drawn.status # None /\ drawn.status.unlocked = vault.unlocked
    /\ vault.unlocked => drawn.entries = vault.at

\* A panel that stays visible comes to show the vault as it is, after changes made
\* elsewhere, its own actions, failed reads and a countdown that ended early.
PanelSettles == <>[]shown => <>[]Settled

\* A visible panel does not go on listing the entries of a vault that stays locked: "the
\* panel lists no entry while locked" (docs/acc-crit-passkey.md, ACC-UNLOCK-217).
LockedIsDrawn ==
    <>[](shown /\ ~vault.unlocked) => <>[](drawn.status = None \/ ~drawn.status.unlocked)

\* The notification does not stay once the vault is open, also with the panel hidden.
NoteGoes == note = "here" /\ vault.unlocked ~> note = "gone" \/ ~vault.unlocked

=============================================================================
