------------------------ MODULE RevealWindow_proofs ------------------------
(***************************************************************************)
(* With a setting that was 0 all along the tab has no reveal window, for   *)
(* any number of popups and steps of time, any settings, and every loss.   *)
(*                                                                         *)
(* The tab starts with a window of its own length.  What makes it 0 in     *)
(* time is that nothing that proves begins before an answer has set the    *)
(* length: the panel shows nothing to press before its first read, and a   *)
(* command reads first.  `ReadFirst` says so.                              *)
(***************************************************************************)
EXTENDS RevealWindow, TLAPS

Task == [pc : {"idle", "joined", "prompt", "asked", "answered"}, asks : Requests \cup {None},
         ok : BOOLEAN, says : State \cup {None}, old : BOOLEAN]

Popup == [open : BOOLEAN, row : BOOLEAN, pending : BOOLEAN, shown : BOOLEAN]

Past == [stamp : {"none", "fresh", "crossed"}, open : Nat, zero : BOOLEAN, ticks : Nat,
         setbacks : Nat, troubles : Nat]

\* An answer that sets the length has the state, with a setting of 0 if it was always 0.
Tells(w, zero) ==
    w.pc = "answered" /\ w.ok /\ SetsLength(w.asks) =>
        w.says \in State /\ (zero => w.says.seconds = 0)

\* A task that may come to prove.
Began(w) == w.pc = "prompt" \/ (w.pc \in {"asked", "answered"} /\ Proves(w.asks))

\* Something has proved, or may come to.
HasProof ==
    \/ api.at # 0
    \/ seen # None
    \/ \E t \in Tasks : Began(task[t])
    \/ \E p \in Popups : popup[p].open

ReadFirst ==
    past.zero =>
        /\ server.seconds = 0
        /\ \A t \in Tasks : Tells(task[t], TRUE)
        /\ HasProof => api.length = 0

IInv == TypeOK /\ ReadFirst

-----------------------------------------------------------------------------

LEMMA Shapes ==
    ASSUME IInv
    PROVE  /\ task \in [Tasks -> Task] /\ popup \in [Popups -> Popup] /\ past \in Past
           /\ server \in State /\ unlocking \in {None, "act", "command"}
BY DEF IInv, TypeOK, Task, Popup, Past

LEMMA TasksAre == \A p \in Popups : p \in Tasks
BY DEF Tasks

LEMMA NamesAre == "act" \in Tasks /\ "command" \in Tasks /\ "poll" \in Tasks
BY DEF Tasks

\* What a task becomes.
LEMMA NewTasks ==
    /\ Idle \in Task /\ ~Began(Idle) /\ Idle.pc # "answered"
    /\ Joined \in Task /\ ~Began(Joined) /\ Joined.pc # "answered"
    /\ \A r \in Requests \cup {None} :
        /\ Asks(r) \in Task /\ Asks(r).pc # "answered" /\ Asks(r).asks = r
        /\ Prompts(r) \in Task /\ Prompts(r).pc # "answered" /\ Prompts(r).asks = r
BY DEF Idle, Joined, Asks, Prompts, Task, Requests, Began

\* What an eye or a close makes of a popup.
LEMMA NewPopups ==
    ASSUME NEW v \in Popup, NEW b \in BOOLEAN, NEW c \in BOOLEAN, NEW d \in BOOLEAN
    PROVE  /\ [v EXCEPT !.open = b] \in Popup
           /\ [v EXCEPT !.row = b, !.pending = c] \in Popup
           /\ [v EXCEPT !.pending = b] \in Popup
           /\ [v EXCEPT !.pending = b, !.shown = c, !.row = d] \in Popup
           /\ [Closed EXCEPT !.open = b] \in Popup
BY DEF Popup, Closed

\* A read proves nothing.
LEMMA ReadsProveNothing ==
    \A r \in {"status", "press", "lock", "plain"} :
        Asks(r) \in Task /\ Asks(r).pc # "answered" /\ ~Began(Asks(r))
<1>1. \A r \in {"status", "press", "lock", "plain"} :
        Asks(r) \in Task /\ Asks(r).pc = "asked" /\ Asks(r).asks = r
  BY NewTasks DEF Requests, Asks, Idle
<1>2. QED
  BY <1>1 DEF Began, Proves

LEMMA ElsewhereStep == IInv /\ Elsewhere => IInv'
<1> SUFFICES ASSUME IInv, Elsewhere PROVE IInv'
  OBVIOUS
<1>1. server' \in State /\ past.troubles + 1 \in Nat
  BY DEF Elsewhere, IInv, TypeOK, State
<1>2. UNCHANGED <<now, api, task, unlocking, seen, popup>>
  BY DEF Elsewhere
<1>3. past' = [past EXCEPT !.troubles = @ + 1, !.zero = @ /\ server'.seconds = 0]
  BY DEF Elsewhere
<1>4. (past.zero /\ server'.seconds = 0) \in BOOLEAN
  BY DEF IInv, TypeOK
<1>5. TypeOK'
  BY <1>1, <1>2, <1>3, <1>4 DEF IInv, TypeOK
<1>6. past'.zero = (past.zero /\ server'.seconds = 0)
  BY <1>3 DEF IInv, TypeOK
<1>7. HasProof' <=> HasProof
  BY <1>2 DEF HasProof
<1>8. QED
  BY <1>2, <1>5, <1>6, <1>7 DEF IInv, ReadFirst

LEMMA TickStep == IInv /\ (Tick \/ SetBack) => IInv'
<1> SUFFICES ASSUME IInv, Tick \/ SetBack PROVE IInv'
  OBVIOUS
<1>1. UNCHANGED <<server, api, task, unlocking, seen, popup>> /\ now' \in Nat
  BY DEF Tick, SetBack, IInv, TypeOK
<1>2. past' \in Past /\ past'.zero = past.zero
  <2>1. past \in Past
    BY Shapes
  <2>2. CASE Tick
    <3>1. PICK n \in {0, 1} : past' = [past EXCEPT !.ticks = @ + 1, !.open = @ + n]
      BY <2>2 DEF Tick
    <3>2. past.ticks + 1 \in Nat /\ past.open + n \in Nat
      BY <2>1 DEF Past
    <3>3. QED
      BY <2>1, <3>1, <3>2 DEF Past
  <2>3. CASE SetBack
    <3>1. past' = [past EXCEPT !.setbacks = @ + 1, !.troubles = @ + 1]
      BY <2>3 DEF SetBack
    <3>2. past.setbacks + 1 \in Nat /\ past.troubles + 1 \in Nat
      BY <2>1 DEF Past
    <3>3. QED
      BY <2>1, <3>1, <3>2 DEF Past
  <2>4. QED
    BY <2>2, <2>3
<1>3. TypeOK'
  BY <1>1, <1>2 DEF IInv, TypeOK, Past
<1>4. HasProof' <=> HasProof
  BY <1>1 DEF HasProof
<1>5. QED
  BY <1>1, <1>2, <1>3, <1>4 DEF IInv, ReadFirst

\* A step that changes tasks, the unlock or a popup alone keeps the invariant, when no task
\* begins to prove unread.
LEMMA TaskStep ==
    ASSUME IInv, UNCHANGED <<server, now, api, seen, past>>,
           task' \in [Tasks -> Task], unlocking' \in {None, "act", "command"},
           popup' \in [Popups -> Popup],
           \A t \in Tasks : task'[t] = task[t] \/ task'[t].pc # "answered",
           \A t \in Tasks : Began(task'[t]) => HasProof \/ api.length = 0,
           \A p \in Popups : popup'[p].open => HasProof
    PROVE  IInv'
<1>1. TypeOK'
  BY DEF IInv, TypeOK, Task, Popup, State
<1>2. ASSUME past.zero PROVE \A t \in Tasks : Tells(task'[t], TRUE)
  BY <1>2 DEF IInv, ReadFirst, Tells
<1>3. HasProof' => HasProof \/ api.length = 0
  BY DEF HasProof
<1>4. QED
  BY <1>1, <1>2, <1>3 DEF IInv, ReadFirst

\* The same for one task.
LEMMA OneTask ==
    ASSUME IInv, UNCHANGED <<server, now, api, seen, past>>,
           NEW t \in Tasks, NEW w \in Task, Becomes(t, w), w.pc # "answered",
           Began(w) => HasProof \/ api.length = 0,
           unlocking' \in {None, "act", "command"},
           popup' \in [Popups -> Popup],
           \A p \in Popups : popup'[p].open => popup[p].open \/ HasProof
    PROVE  IInv'
<1>1. task \in [Tasks -> Task]
  BY DEF IInv, TypeOK, Task
<1>2. task' \in [Tasks -> Task] /\ \A u \in Tasks : task'[u] = IF u = t THEN w ELSE task[u]
  BY <1>1 DEF Becomes
<1>3. \A u \in Tasks : Began(task'[u]) => HasProof \/ api.length = 0
  BY <1>2 DEF HasProof
<1>4. \A p \in Popups : popup'[p].open => HasProof
  BY DEF HasProof
<1>5. QED
  BY <1>2, <1>3, <1>4, TaskStep

LEMMA PollStep == IInv /\ Poll => IInv'
<1> SUFFICES ASSUME IInv, Poll PROVE IInv'
  OBVIOUS
<1>1. Asks("status") \in Task /\ Asks("status").pc # "answered" /\ ~Began(Asks("status"))
  BY NewTasks, ReadsProveNothing
<1>2. Becomes("poll", Asks("status")) /\ UNCHANGED <<server, now, api, unlocking, seen, popup, past>>
  BY DEF Poll
<1>3. QED
  BY <1>1, <1>2, NamesAre, Shapes, OneTask

LEMMA ActStep == IInv /\ Act => IInv'
<1> SUFFICES ASSUME IInv, Act PROVE IInv'
  OBVIOUS
<1>1. HasProof
  <2>1. seen # None
    BY WindowAssumption DEF Act
  <2>2. QED
    BY <2>1 DEF HasProof
<1>2. PICK w \in {Joined, Prompts("unlock"), Prompts("prove")} : Becomes("act", w)
  BY DEF Act, ActUnlocks
<1>3. w \in Task /\ w.pc # "answered"
  BY NewTasks DEF Requests
<1>4. unlocking' \in {None, "act", "command"} /\ UNCHANGED <<server, now, api, seen, popup, past>>
  BY DEF Act, ActUnlocks, IInv, TypeOK
<1>5. QED
  BY <1>1, <1>2, <1>3, <1>4, NamesAre, Shapes, OneTask

LEMMA CommandStep == IInv /\ Command => IInv'
<1> SUFFICES ASSUME IInv, Command PROVE IInv'
  OBVIOUS
<1>1. PICK w \in {Joined, Asks("press")} : Becomes("command", w)
  BY DEF Command, Registers
<1>2. w \in Task /\ w.pc # "answered" /\ ~Began(w)
  BY NewTasks, ReadsProveNothing
<1>3. unlocking' \in {None, "act", "command"} /\ UNCHANGED <<server, now, api, seen, popup, past>>
  BY DEF Command, IInv, TypeOK
<1>4. QED
  BY <1>1, <1>2, <1>3, NamesAre, Shapes, OneTask

LEMMA PopupStep ==
    ASSUME IInv, NEW p \in Popups, Open(p) \/ Close(p)
    PROVE  IInv'
<1>1. UNCHANGED <<server, now, api, task, unlocking, seen, past>>
  BY DEF Open, Close
<1>2. popup' \in [Popups -> Popup]
  <2>1. popup \in [Popups -> Popup] /\ popup[p] \in Popup
    BY Shapes
  <2>2. [Closed EXCEPT !.open = TRUE] \in Popup /\ [popup[p] EXCEPT !.open = FALSE] \in Popup
    BY <2>1, NewPopups
  <2>3. QED
    BY <2>1, <2>2 DEF Open, Close
<1>3. \A q \in Popups : popup'[q].open => HasProof
  <2>1. CASE Open(p)
    <3>1. seen # None
      BY <2>1, WindowAssumption DEF Open
    <3>2. QED
      BY <3>1 DEF HasProof
  <2>2. CASE Close(p)
    BY <2>2 DEF Close, HasProof, IInv, TypeOK
  <2>3. QED
    BY <2>1, <2>2
<1>4. \A t \in Tasks : Began(task[t]) => HasProof
  BY DEF HasProof
<1>5. task' \in [Tasks -> Task] /\ unlocking' \in {None, "act", "command"} /\ task' = task
  BY <1>1 DEF IInv, TypeOK, Task
<1>6. QED
  BY <1>1, <1>2, <1>3, <1>4, <1>5, TaskStep

LEMMA EyeStep ==
    ASSUME IInv, NEW p \in Popups, Eye(p) \/ EyePrompted(p)
    PROVE  IInv'
<1>1. UNCHANGED <<server, now, api, unlocking, seen, past>> /\ unlocking \in {None, "act", "command"}
  BY DEF Eye, EyePrompted, IInv, TypeOK
<1>2. /\ popup' \in [Popups -> Popup]
      /\ \A q \in Popups : popup'[q].open = popup[q].open
  <2>1. popup \in [Popups -> Popup] /\ popup[p] \in Popup
    BY Shapes
  <2>2. PICK v \in Popup : popup' = [popup EXCEPT ![p] = v] /\ v.open = popup[p].open
    <3>1. CASE popup' = popup
      BY <2>1, <3>1
    <3>2. CASE popup' = [popup EXCEPT ![p].pending = TRUE]
      <4>1. [popup[p] EXCEPT !.pending = TRUE] \in Popup
        BY <2>1, NewPopups
      <4>2. [popup[p] EXCEPT !.pending = TRUE].open = popup[p].open
        BY <2>1 DEF Popup
      <4>3. QED
        BY <3>2, <4>1, <4>2
    <3>3. ASSUME NEW row \in BOOLEAN, popup' = [popup EXCEPT ![p] = NoPasskey(p, row)]
          PROVE  \E v \in Popup : popup' = [popup EXCEPT ![p] = v] /\ v.open = popup[p].open
      <4>1. NoPasskey(p, row) \in Popup
        BY <2>1, NewPopups DEF NoPasskey
      <4>2. NoPasskey(p, row).open = popup[p].open
        BY <2>1 DEF Popup, NoPasskey
      <4>3. QED
        BY <3>3, <4>1, <4>2
    <3>4. QED
      BY <3>1, <3>2, <3>3 DEF Eye, EyePrompted
  <2>3. QED
    BY <2>1, <2>2
<1>3. PICK w \in {Idle, Asks("reveal"), Asks("plain"), Prompts("reveal")} : Becomes(p, w)
  BY DEF Eye, EyePrompted
<1>4. w \in Task /\ w.pc # "answered"
  BY NewTasks DEF Requests
<1>5. Began(w) => HasProof
  <2>1. CASE Eye(p)
    BY <2>1 DEF Eye, HasProof
  <2>2. CASE EyePrompted(p)
    BY <2>2, TasksAre DEF EyePrompted, HasProof, Began
  <2>3. QED
    BY <2>1, <2>2
<1>6. QED
  BY <1>1, <1>2, <1>3, <1>4, <1>5, TasksAre, OneTask

\* The unlock is over for its task and for whoever joined it.
LEMMA EndsStep ==
    ASSUME IInv, NEW t \in {"act", "command"}, Ends(t)
    PROVE  /\ task' \in [Tasks -> Task]
           /\ unlocking' \in {None, "act", "command"}
           /\ \A u \in Tasks : task'[u] = task[u] \/ (task'[u].pc # "answered" /\ ~Began(task'[u]))
<1>1. Asks("status") \in Task /\ Asks("status").pc # "answered" /\ ~Began(Asks("status"))
  BY NewTasks, ReadsProveNothing
<1>2. \A u \in Tasks : task'[u] \in {task[u], Asks("status")}
  BY DEF Ends, Over
<1>3. task' \in [Tasks -> Task]
  BY <1>1, Shapes DEF Ends, Over
<1>4. QED
  BY <1>1, <1>2, <1>3, Shapes DEF Ends

LEMMA PromptedStep ==
    ASSUME IInv, NEW t \in Tasks, Prompted(t)
    PROVE  IInv'
<1>1. UNCHANGED <<server, now, api, seen, popup, past>> /\ t \in {"act", "command"}
  BY DEF Prompted
<1>2. HasProof
  BY DEF Prompted, HasProof, Began
<1>3. CASE Becomes(t, Asks(task[t].asks)) /\ UNCHANGED unlocking
  <2>1. task[t].asks \in Requests \cup {None}
    BY Shapes DEF Task
  <2>2. Asks(task[t].asks) \in Task /\ Asks(task[t].asks).pc # "answered"
    BY <2>1, NewTasks
  <2>3. QED
    BY <1>1, <1>2, <1>3, <2>2, Shapes, OneTask
<1>4. CASE Ends(t)
  BY <1>1, <1>2, <1>4, EndsStep, Shapes, TaskStep
<1>5. QED
  BY <1>3, <1>4 DEF Prompted

LEMMA LockStep == IInv /\ Lock => IInv'
<1> SUFFICES ASSUME IInv, Lock PROVE IInv'
  OBVIOUS
<1>1. UNCHANGED <<server, now, unlocking, seen, popup>>
  BY DEF Lock
<1>2. api' = [at |-> 0, length |-> api.length] /\ api.length \in Settings
  BY DEF Lock, IInv, TypeOK
<1>3. past' \in Past /\ past'.zero = past.zero
  BY Shapes DEF Lock, Past
<1>4. Asks("lock") \in Task /\ Asks("lock").pc # "answered" /\ ~Began(Asks("lock"))
  BY NewTasks, ReadsProveNothing
<1>5. \A t \in Tasks : task'[t] \in {Asks("lock"), task[t],
                                     [task[t] EXCEPT !.old = Proves(task[t].asks)]}
  BY DEF Lock
<1>6. ASSUME NEW w \in Task
      PROVE  /\ [w EXCEPT !.old = Proves(w.asks)] \in Task
             /\ [w EXCEPT !.old = Proves(w.asks)].pc = w.pc
             /\ [w EXCEPT !.old = Proves(w.asks)].ok = w.ok
             /\ [w EXCEPT !.old = Proves(w.asks)].says = w.says
             /\ [w EXCEPT !.old = Proves(w.asks)].asks = w.asks
  <2>1. \A b \in BOOLEAN : /\ [w EXCEPT !.old = b] \in Task
                           /\ [w EXCEPT !.old = b].pc = w.pc
                           /\ [w EXCEPT !.old = b].ok = w.ok
                           /\ [w EXCEPT !.old = b].says = w.says
                           /\ [w EXCEPT !.old = b].asks = w.asks
    BY DEF Task
  <2>2. Proves(w.asks) \in BOOLEAN
    BY DEF Proves
  <2>3. QED
    BY <2>1, <2>2
<1>7. \A t \in Tasks : task[t] \in Task /\ task'[t] \in Task
  BY <1>4, <1>5, <1>6, Shapes
<1>8. task' \in [Tasks -> Task]
  BY <1>7 DEF Lock
<1>9. \A t \in Tasks : \/ task'[t].pc # "answered" /\ ~Began(task'[t])
                       \/ /\ task'[t].pc = task[t].pc /\ task'[t].asks = task[t].asks
                          /\ task'[t].ok = task[t].ok /\ task'[t].says = task[t].says
  BY <1>4, <1>5, <1>6, <1>7
<1>10. TypeOK'
  BY <1>1, <1>2, <1>3, <1>8, <1>9 DEF IInv, TypeOK, Task, Past
<1>11. HasProof' => HasProof
  BY <1>1, <1>2, <1>9 DEF HasProof, Began
<1>12. ASSUME past.zero PROVE \A t \in Tasks : Tells(task'[t], TRUE)
  BY <1>9, <1>12 DEF IInv, ReadFirst, Tells
<1>13. QED
  BY <1>1, <1>2, <1>3, <1>10, <1>11, <1>12 DEF IInv, ReadFirst

LEMMA ServeStep ==
    ASSUME IInv, NEW t \in Tasks, Serve(t)
    PROVE  IInv'
<1>1. UNCHANGED <<now, api, unlocking, seen, popup>> /\ task[t].pc = "asked"
  BY DEF Serve
<1>2. server' \in State /\ server'.seconds = server.seconds
  <2>1. \A b \in BOOLEAN : /\ [server EXCEPT !.unlocked = b] \in State
                           /\ [server EXCEPT !.unlocked = b].seconds = server.seconds
    BY Shapes DEF State
  <2>2. server.unlocked \in BOOLEAN
    BY Shapes DEF State
  <2>3. QED
    BY <2>1, <2>2, Shapes DEF Serve
<1>3. past' \in Past /\ past'.zero = past.zero
  <2>1. past.troubles + 1 \in Nat /\ past \in Past
    BY Shapes DEF Past
  <2>2. past' \in {past, [past EXCEPT !.troubles = @ + 1]}
    BY DEF Serve, Loses
  <2>3. QED
    BY <2>1, <2>2 DEF Past
<1>4. PICK ok \in BOOLEAN : Answers(t, ok)
  BY DEF Serve, Loses
<1>5. DEFINE says == IF ok /\ task[t].asks \in {"status", "press", "unlock"} THEN server' ELSE None
             w == [task[t] EXCEPT !.pc = "answered", !.ok = ok, !.says = says]
<1>6. task' = [task EXCEPT ![t] = w]
  BY <1>4 DEF Answers
<1>7. task[t] \in Task /\ says \in State \cup {None}
  BY <1>2, Shapes
<1>8. w \in Task /\ w.asks = task[t].asks /\ w.ok = ok /\ w.says = says
  BY <1>7 DEF Task
<1>9. ok /\ SetsLength(w.asks) => w.says = server'
  BY <1>8 DEF SetsLength
<1>10. task' \in [Tasks -> Task] /\ \A u \in Tasks : task'[u] = IF u = t THEN w ELSE task[u]
  BY <1>6, <1>8, Shapes
<1>11. HasProof' => HasProof
  <2>1. \A u \in Tasks : Began(task'[u]) => Began(task[u])
    <3>1. Began(w) => Began(task[t])
      BY <1>1, <1>7, <1>8 DEF Began, Task
    <3>2. QED
      BY <1>10, <3>1
  <2>2. QED
    BY <1>1, <2>1 DEF HasProof
<1>12. TypeOK'
  <2>1. \A u \in Tasks : task'[u].pc = "answered" /\ task'[u].ok /\ SetsLength(task'[u].asks)
                            => task'[u].says \in State
    BY <1>2, <1>8, <1>9, <1>10 DEF IInv, TypeOK
  <2>2. QED
    BY <1>1, <1>2, <1>3, <1>10, <2>1 DEF IInv, TypeOK, Task, Past
<1>13. ASSUME past.zero PROVE \A u \in Tasks : Tells(task'[u], TRUE)
  BY <1>2, <1>8, <1>9, <1>10, <1>13 DEF IInv, ReadFirst, Tells
<1>14. QED
  BY <1>1, <1>2, <1>3, <1>11, <1>12, <1>13 DEF IInv, ReadFirst

-----------------------------------------------------------------------------

\* An answer sets a length of 0, when the setting always was, and proves after that.
LEMMA ArrivesStep ==
    ASSUME IInv, NEW t \in Tasks, Arrives(t)
    PROVE  /\ UNCHANGED <<server, now>>
           /\ api' \in [at : Nat, length : Settings]
           /\ past' \in Past /\ past'.zero = past.zero
           /\ past.zero /\ api.length = 0 => api'.length = 0
           /\ past.zero /\ task[t].ok /\ SetsLength(task[t].asks) => api'.length = 0
           /\ api'.at # 0 => HasProof
           /\ Began(task[t]) => HasProof
           /\ task[t] \in Task
<1>1. task[t] \in Task /\ task[t].pc = "answered" /\ UNCHANGED <<server, now>>
  BY Shapes DEF Arrives
<1>2. task[t].ok /\ SetsLength(task[t].asks) => task[t].says \in State
  BY <1>1 DEF IInv, TypeOK
<1>3. api' \in [at : Nat, length : Settings]
  BY <1>2 DEF Arrives, IInv, TypeOK, State
<1>4. past' \in Past /\ past'.zero = past.zero
  BY Shapes DEF Arrives, Past
<1>5. past.zero => Tells(task[t], TRUE)
  BY DEF IInv, ReadFirst
<1>6. Began(task[t]) => HasProof
  BY DEF HasProof
<1>7. api'.at # 0 => HasProof
  BY <1>1, <1>6 DEF Arrives, HasProof, Began
<1>8. past.zero /\ api.length = 0 => api'.length = 0
  BY <1>1, <1>5 DEF Arrives, Tells
<1>9. past.zero /\ task[t].ok /\ SetsLength(task[t].asks) => api'.length = 0
  BY <1>1, <1>5 DEF Arrives, Tells
<1>10. QED
  BY <1>1, <1>3, <1>4, <1>6, <1>7, <1>8, <1>9

\* What its arrival leads to keeps the invariant, when nothing begins to prove unread.
LEMMA AfterArrival ==
    ASSUME IInv, NEW t \in Tasks, Arrives(t),
           task' \in [Tasks -> Task], unlocking' \in {None, "act", "command"},
           popup' \in [Popups -> Popup], seen' \in BOOLEAN \cup {None},
           \A u \in Tasks : task'[u] = task[u] \/ task'[u].pc # "answered",
           \A u \in Tasks : Began(task'[u]) =>
               HasProof \/ (task[t].ok /\ SetsLength(task[t].asks)),
           \A p \in Popups : popup'[p].open => HasProof,
           seen' # seen => task[t].ok /\ SetsLength(task[t].asks)
    PROVE  IInv'
<1>1. TypeOK'
  BY ArrivesStep DEF IInv, TypeOK, Task, Popup, Past
<1>2. ASSUME past.zero PROVE \A u \in Tasks : Tells(task'[u], TRUE)
  BY <1>2 DEF IInv, ReadFirst, Tells
<1>3. HasProof' => HasProof \/ (task[t].ok /\ SetsLength(task[t].asks))
  BY ArrivesStep DEF HasProof
<1>4. past.zero /\ HasProof' => api'.length = 0
  BY <1>3, ArrivesStep DEF IInv, ReadFirst
<1>5. QED
  BY <1>1, <1>2, <1>4, ArrivesStep DEF IInv, ReadFirst

LEMMA StatusStep ==
    ASSUME IInv, NEW t \in Tasks, StatusArrives(t)
    PROVE  IInv'
<1>1. Arrives(t) /\ task[t].asks = "status" /\ UNCHANGED <<unlocking, popup>>
  BY DEF StatusArrives
<1>2. task' \in [Tasks -> Task] /\ \A u \in Tasks : task'[u] = IF u = t THEN Idle ELSE task[u]
  BY NewTasks, Shapes DEF StatusArrives, Becomes
<1>3. SetsLength(task[t].asks)
  BY <1>1 DEF SetsLength
<1>4. seen' \in BOOLEAN \cup {None}
  BY <1>1, <1>3 DEF StatusArrives, Arrives, IInv, TypeOK, State
<1>5. seen' # seen => task[t].ok
  BY DEF StatusArrives
<1>6. \A u \in Tasks : task'[u] = task[u] \/ (task'[u].pc # "answered" /\ ~Began(task'[u]))
  BY <1>2, NewTasks
<1>7. \A u \in Tasks : Began(task'[u]) => HasProof
  BY <1>6 DEF HasProof
<1>8. \A p \in Popups : popup'[p].open => HasProof
  BY <1>1 DEF HasProof
<1>9. QED
  BY <1>1, <1>2, <1>3, <1>4, <1>5, <1>6, <1>7, <1>8, Shapes, AfterArrival

LEMMA RequestStep ==
    ASSUME IInv, NEW t \in Tasks, RequestArrives(t)
    PROVE  IInv'
<1>1. Arrives(t) /\ t \in {"act", "command"} /\ Ends(t) /\ UNCHANGED <<seen, popup>>
  BY DEF RequestArrives
<1>2. task[t].ok \in BOOLEAN
  BY Shapes DEF Task
<1>3. \A p \in Popups : popup'[p].open => HasProof
  BY <1>1 DEF HasProof
<1>4. \A u \in Tasks : Began(task[u]) => HasProof
  BY DEF HasProof
<1>5. seen \in BOOLEAN \cup {None}
  BY DEF IInv, TypeOK
<1>6. QED
  BY <1>1, <1>2, <1>3, <1>4, <1>5, EndsStep, Shapes, AfterArrival

\* A read that failed ends the command: only one that set the length goes on.
LEMMA PressStep ==
    ASSUME IInv, PressArrives
    PROVE  IInv'
<1>1. /\ Arrives("command") /\ "command" \in Tasks /\ task["command"].asks = "press"
      /\ UNCHANGED <<seen, popup>>
  BY NamesAre DEF PressArrives
<1>2. SetsLength(task["command"].asks) /\ task["command"].ok \in BOOLEAN
  BY <1>1, Shapes DEF SetsLength, Task
<1>3. \A p \in Popups : popup'[p].open => HasProof
  BY <1>1 DEF HasProof
<1>4. \A u \in Tasks : Began(task[u]) => HasProof
  BY DEF HasProof
<1>5. seen \in BOOLEAN \cup {None}
  BY DEF IInv, TypeOK
<1>6. CASE Ends("command")
  BY <1>1, <1>2, <1>3, <1>4, <1>5, <1>6, EndsStep, Shapes, AfterArrival
<1>7. ASSUME task["command"].ok, UNCHANGED unlocking, NEW r \in Requests,
             Becomes("command", Prompts(r))
      PROVE  IInv'
  <2>1. Prompts(r) \in Task /\ Prompts(r).pc # "answered"
    BY NewTasks
  <2>2. /\ task' \in [Tasks -> Task]
        /\ \A u \in Tasks : task'[u] = IF u = "command" THEN Prompts(r) ELSE task[u]
    BY <1>7, <2>1, Shapes DEF Becomes
  <2>3. QED
    BY <1>1, <1>2, <1>3, <1>4, <1>5, <1>7, <2>1, <2>2, Shapes, AfterArrival
<1>8. QED
  BY <1>6, <1>7 DEF PressArrives, Requests

LEMMA RevealStep ==
    ASSUME IInv, NEW p \in Popups, RevealArrives(p)
    PROVE  IInv'
<1>1. Arrives(p) /\ p \in Tasks /\ UNCHANGED <<unlocking, seen>>
  BY TasksAre DEF RevealArrives
<1>2. PICK w \in {Idle, Asks("status")} : Becomes(p, w)
  BY DEF RevealArrives
<1>3. w \in Task /\ w.pc # "answered" /\ ~Began(w)
  BY NewTasks, ReadsProveNothing
<1>4. task' \in [Tasks -> Task] /\ \A u \in Tasks : task'[u] = IF u = p THEN w ELSE task[u]
  BY <1>2, <1>3, Shapes DEF Becomes
<1>5. \A u \in Tasks : Began(task'[u]) => HasProof
  BY <1>3, <1>4 DEF HasProof
<1>6. popup' \in [Popups -> Popup] /\ \A q \in Popups : popup'[q].open = popup[q].open
  <2>1. popup \in [Popups -> Popup] /\ popup[p] \in Popup /\ task[p].ok \in BOOLEAN
    BY <1>1, Shapes DEF Task
  <2>2. DEFINE v == [popup[p] EXCEPT !.pending = FALSE, !.shown = task[p].ok,
                                     !.row = @ /\ ~task[p].ok]
  <2>3. v \in Popup /\ v.open = popup[p].open
    BY <2>1 DEF Popup
  <2>4. popup' = [popup EXCEPT ![p] = v]
    BY DEF RevealArrives
  <2>5. QED
    BY <2>1, <2>3, <2>4
<1>7. \A q \in Popups : popup'[q].open => HasProof
  BY <1>6 DEF HasProof
<1>8. seen \in BOOLEAN \cup {None}
  BY DEF IInv, TypeOK
<1>9. QED
  BY <1>1, <1>3, <1>4, <1>5, <1>6, <1>7, <1>8, Shapes, AfterArrival

-----------------------------------------------------------------------------

LEMMA InitHolds == Init => IInv
<1> SUFFICES ASSUME Init PROVE IInv
  OBVIOUS
<1>1. task \in [Tasks -> Task] /\ \A t \in Tasks : task[t].pc # "answered" /\ ~Began(task[t])
  BY NewTasks DEF Init, Requests, Began, Proves, Asks
<1>2. api = [at |-> 0, length |-> Default] /\ Default \in Settings
  BY WindowAssumption DEF Init
<1>3. /\ popup \in [Popups -> Popup] /\ \A p \in Popups : ~popup[p].open
      /\ past \in Past /\ past.zero = (server.seconds = 0)
  BY DEF Init, Popup, Closed, Past
<1>4. server \in State /\ now \in Nat /\ unlocking = None /\ seen = None
  BY DEF Init, State
<1>5. TypeOK
  BY <1>1, <1>2, <1>3, <1>4 DEF TypeOK, Task, Popup, Past
<1>6. ~HasProof
  BY <1>1, <1>2, <1>3, <1>4 DEF HasProof
<1>7. QED
  BY <1>1, <1>3, <1>5, <1>6 DEF IInv, ReadFirst, Tells

\* The invariant of every step.
THEOREM Invariance == Spec => []IInv
<1>1. ASSUME IInv, Next PROVE IInv'
  <2>1. ASSUME NEW t \in Tasks, Serve(t) \/ Receive(t) \/ Prompted(t) PROVE IInv'
    BY <1>1, <2>1, ServeStep, StatusStep, RequestStep, PressStep, PromptedStep DEF Receive
  <2>2. ASSUME NEW p \in Popups,
               Open(p) \/ Close(p) \/ Eye(p) \/ EyePrompted(p) \/ RevealArrives(p)
        PROVE  IInv'
    BY <1>1, <2>2, PopupStep, EyeStep, RevealStep
  <2>3. QED
    BY <1>1, <2>1, <2>2, ElsewhereStep, TickStep, PollStep, ActStep, LockStep, CommandStep DEF Next
<1>2. IInv /\ UNCHANGED vars => IInv'
  BY DEF vars, IInv, TypeOK, ReadFirst, HasProof
<1>3. QED
  BY <1>1, <1>2, InitHolds, PTL DEF Spec

\* Every variable has its shape, for any number of popups, settings and bounds.
THEOREM Typed == Spec => []TypeOK
<1>1. IInv => TypeOK
  BY DEF IInv
<1>2. QED
  BY <1>1, Invariance, PTL

\* With a setting that was 0 all along every reveal asks a proof (`proven`), though the tab
\* starts with a window of its own.
THEOREM ZeroAlwaysHolds == Spec => []ZeroAlwaysAsks
<1>1. IInv => ZeroAlwaysAsks
  BY DEF IInv, TypeOK, ReadFirst, HasProof, ZeroAlwaysAsks, Proven
<1>2. QED
  BY <1>1, Invariance, PTL

-----------------------------------------------------------------------------

\* How long the window has been open since it was opened: at most the time since then, and a
\* whole window for each time the clock was set back.  Nothing is counted with no proof.
Counted ==
    /\ api.at = 0 => past.open = 0
    /\ api.at # 0 => past.open <= past.setbacks * Longest + Longest
    /\ api.at # 0 /\ now <= api.at => past.open <= past.setbacks * Longest
    /\ api.at # 0 /\ now >= api.at => past.open <= past.setbacks * Longest + (now - api.at)

LEMMA BoundIsNatural == ASSUME IInv PROVE past.setbacks * Longest \in Nat /\ Longest \in Nat
<1>1. past.setbacks \in Nat /\ Longest \in Nat
  BY Shapes, WindowAssumption DEF Past
<1>2. QED
  BY <1>1

LEMMA NumbersAre ==
    ASSUME IInv
    PROVE  now \in Nat /\ api.at \in Nat /\ api.length \in 0 .. Longest /\ past.open \in Nat
BY WindowAssumption, Shapes DEF IInv, TypeOK, Past

\* The count is kept by a step that leaves the time, and the proof or begins anew.
LEMMA CountStays ==
    ASSUME IInv, Counted, UNCHANGED now, past'.setbacks = past.setbacks,
           \/ api'.at = api.at /\ past'.open = past.open
           \/ api'.at \in {0, now} /\ past'.open = 0
    PROVE  Counted'
BY BoundIsNatural, NumbersAre DEF Counted

LEMMA CountTick == IInv /\ Counted /\ Tick => Counted'
<1> SUFFICES ASSUME IInv, Counted, Tick PROVE Counted'
  OBVIOUS
<1>1. UNCHANGED api /\ now' = now + 1 /\ past'.setbacks = past.setbacks
  BY Shapes DEF Tick, Past
<1>2. past'.open = past.open + (IF Proven THEN 1 ELSE 0)
  BY Shapes DEF Tick, Past
<1>3. CASE Proven
  <2>1. api.at # 0 /\ now - api.at \in 0 .. Longest - 1
    BY <1>3, NumbersAre, BoundIsNatural DEF Proven
  <2>2. QED
    BY <1>1, <1>2, <1>3, <2>1, NumbersAre, BoundIsNatural DEF Counted
<1>4. CASE ~Proven
  BY <1>1, <1>2, <1>4, NumbersAre, BoundIsNatural DEF Counted
<1>5. QED
  BY <1>3, <1>4

LEMMA CountSetBack == IInv /\ Counted /\ SetBack => Counted'
<1> SUFFICES ASSUME IInv, Counted, SetBack PROVE Counted'
  OBVIOUS
<1>1. UNCHANGED api /\ now' \in Nat /\ past'.setbacks = past.setbacks + 1 /\ past'.open = past.open
  BY NumbersAre, Shapes DEF SetBack, Past
<1>2. past.setbacks \in Nat /\ Longest \in Nat
  BY Shapes, WindowAssumption DEF Past
<1>3. (past.setbacks + 1) * Longest = past.setbacks * Longest + Longest
  BY <1>2
<1>4. QED
  BY <1>1, <1>3, NumbersAre, BoundIsNatural DEF Counted

LEMMA CountArrives ==
    ASSUME IInv, Counted, NEW t \in Tasks, Arrives(t)
    PROVE  Counted'
<1>1. UNCHANGED now /\ past'.setbacks = past.setbacks
  BY Shapes DEF Arrives, Past
<1>2. \/ api'.at = api.at /\ past'.open = past.open
      \/ api'.at = now /\ past'.open = 0
  BY Shapes DEF Arrives, Past
<1>3. QED
  BY <1>1, <1>2, CountStays

LEMMA CountStep == ASSUME IInv, Counted, Next PROVE Counted'
<1>1. CASE Tick
  BY <1>1, CountTick
<1>2. CASE SetBack
  BY <1>2, CountSetBack
<1>3. CASE Lock
  BY <1>3, CountStays, Shapes DEF Lock, Past, IInv, TypeOK
<1>4. ASSUME NEW t \in Tasks, Arrives(t) PROVE Counted'
  BY <1>4, CountArrives
<1>5. ASSUME UNCHANGED <<now, api>>, past'.open = past.open, past'.setbacks = past.setbacks
      PROVE  Counted'
  BY <1>5, CountStays
<1>6. CASE Elsewhere
  BY <1>5, <1>6, Shapes DEF Elsewhere, Past
<1>7. CASE Poll \/ Act \/ Command
  BY <1>5, <1>7 DEF Poll, Act, Command
<1>8. ASSUME NEW t \in Tasks, Serve(t) \/ Receive(t) \/ Prompted(t) PROVE Counted'
  <2>1. CASE Serve(t)
    BY <1>5, <2>1, Shapes DEF Serve, Loses, Past
  <2>2. CASE Receive(t)
    BY <1>4, <2>2, NamesAre DEF Receive, StatusArrives, RequestArrives, PressArrives
  <2>3. CASE Prompted(t)
    BY <1>5, <2>3 DEF Prompted
  <2>4. QED
    BY <1>8, <2>1, <2>2, <2>3
<1>9. ASSUME NEW p \in Popups,
             Open(p) \/ Close(p) \/ Eye(p) \/ EyePrompted(p) \/ RevealArrives(p)
      PROVE  Counted'
  <2>1. CASE RevealArrives(p)
    BY <1>4, <2>1, TasksAre DEF RevealArrives
  <2>2. CASE Open(p) \/ Close(p) \/ Eye(p) \/ EyePrompted(p)
    BY <1>5, <2>2 DEF Open, Close, Eye, EyePrompted
  <2>3. QED
    BY <1>9, <2>1, <2>2
<1>10. QED
  BY <1>1, <1>2, <1>3, <1>6, <1>7, <1>8, <1>9 DEF Next

\* The window is open no longer than the longest setting, and once more for each time the
\* clock was set back (`since >= 0`), for any settings and any number of either.
THEOREM WindowAlwaysBounded == Spec => []WindowIsBounded
<1>1. Init => Counted
  BY DEF Init, Counted
<1>2. IInv /\ IInv' /\ Counted /\ [Next]_vars => Counted'
  <2>1. UNCHANGED vars /\ Counted => Counted'
    BY DEF vars, Counted
  <2>2. QED
    BY <2>1, CountStep
<1>3. IInv /\ Counted => WindowIsBounded
  <2>1. SUFFICES ASSUME IInv, Counted PROVE past.open <= (1 + past.setbacks) * Longest
    BY DEF WindowIsBounded
  <2>2. past.setbacks \in Nat /\ Longest \in Nat
    BY <2>1, Shapes, WindowAssumption DEF Past
  <2>3. (1 + past.setbacks) * Longest = past.setbacks * Longest + Longest
    BY <2>2
  <2>4. QED
    BY <2>1, <2>3, BoundIsNatural, NumbersAre DEF Counted
<1>4. QED
  BY <1>1, <1>2, <1>3, Invariance, PTL DEF Spec

=============================================================================
