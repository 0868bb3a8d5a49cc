-------------------------- MODULE VaultPage_proofs --------------------------
(***************************************************************************)
(* The safety of VaultPage for any number of reads under way, of changes   *)
(* of the vault and of failed requests, whether or not requests and their  *)
(* answers overtake each other: none of the proofs looks at the order of   *)
(* the wire.                                                               *)
(*                                                                         *)
(* The inductive invariant has three layers.  Shape is the types and what  *)
(* makes an answer fit the task that waits for it: a task has at most one  *)
(* request under way.  Registered relates the registration to what the     *)
(* server stored, Reached the notification to what the server has told.    *)
(***************************************************************************)
EXTENDS VaultPage, TLAPS

Mail == [task : Tasks, is : {"asked", "ok", "locked", "refused", "failed"},
         of : State \cup {None}]
TaskType == [pc : Waits \cup {"idle", "create", "confirm"}, kind : Actions \cup {None},
             before : State \cup {None}, since : BOOLEAN]

\* What may be under way for a task at the step it waits at.
Fits(m, t) ==
    /\ t.pc \in Waits
    /\ m.is = "ok" /\ t.pc # "request" => m.of \in State
    /\ m.is = "refused" => t.pc = "request"
    /\ m.is = "locked" => t.pc = "entries"

WireOK ==
    /\ wire \in Seq(Mail)
    /\ \A i, j \in DOMAIN wire : wire[i].task = wire[j].task => i = j
    /\ \A i \in DOMAIN wire : Fits(wire[i], task[wire[i].task])

Shape ==
    /\ TypeOK
    /\ WireOK
    /\ vault.at <= past.changes
    /\ \A t \in Tasks : task[t].pc = "entries" => view.status \in State
    /\ \A t \in Readers : task[t].pc \notin {"request", "create", "confirm"}

\* A registration under way: nothing is stored before its request is sent, nor after
\* while the request is still unserved, or served with a refusal.
Registered ==
    LET a == task["act"]
    IN  /\ a.pc = "create" => passkey = "none" /\ a.kind = "register"
        /\ a.pc = "confirm" => passkey = "made" /\ ~past.stored /\ a.kind = "register"
        /\ a.pc = "request" /\ a.kind = "register" =>
            /\ passkey = "made"
            /\ \A i \in DOMAIN wire :
                wire[i].task = "act" /\ wire[i].is \in {"asked", "refused"} => ~past.stored
        /\ past.stored => passkey \in {"made", "added", "maybe added"}

\* What is known of an unlock while the notification is there: by the vault as it is,
\* and by each answer under way to a read that was begun after it came.
Reached ==
    /\ note = "here" /\ vault.unlocked => past.opened
    /\ \A t \in Tasks : task[t].since => note # "none"
    /\ note = "here" =>
        \A i \in DOMAIN wire :
            LET t == task[wire[i].task]
            IN  t.since /\ t.pc # "request" /\ wire[i].is = "ok" /\ wire[i].of.unlocked
                    => past.opened

-----------------------------------------------------------------------------
(* The wire.                                                               *)

LEMMA RemoveAtIs ==
    ASSUME NEW S, NEW s \in Seq(S), NEW i \in DOMAIN s
    PROVE  /\ RemoveAt(s, i) \in Seq(S)
           /\ Len(RemoveAt(s, i)) = Len(s) - 1
           /\ \A j \in 1 .. Len(s) - 1 : RemoveAt(s, i)[j] = IF j < i THEN s[j] ELSE s[j + 1]
<1>1. i \in 1 .. Len(s) /\ Len(s) \in Nat
  OBVIOUS
<1>2. SubSeq(s, 1, i - 1) \in Seq(S) /\ Len(SubSeq(s, 1, i - 1)) = i - 1
      /\ \A j \in 1 .. i - 1 : SubSeq(s, 1, i - 1)[j] = s[j]
  BY <1>1
<1>3. SubSeq(s, i + 1, Len(s)) \in Seq(S) /\ Len(SubSeq(s, i + 1, Len(s))) = Len(s) - i
      /\ \A j \in 1 .. Len(s) - i : SubSeq(s, i + 1, Len(s))[j] = s[i + j]
  BY <1>1
<1> DEFINE a == SubSeq(s, 1, i - 1)
           b == SubSeq(s, i + 1, Len(s))
<1>4. RemoveAt(s, i) = a \o b
  BY DEF RemoveAt
<1> HIDE DEF a, b
<1>5. a \in Seq(S) /\ b \in Seq(S) /\ Len(a) = i - 1 /\ Len(b) = Len(s) - i
  BY <1>2, <1>3 DEF a, b
<1>6. a \o b \in Seq(S) /\ Len(a \o b) = Len(s) - 1
      /\ \A j \in 1 .. Len(s) - 1 :
            (a \o b)[j] = IF j <= i - 1 THEN a[j] ELSE b[j - (i - 1)]
  BY <1>1, <1>5
<1>7. ASSUME NEW j \in 1 .. Len(s) - 1
      PROVE  (a \o b)[j] = IF j < i THEN s[j] ELSE s[j + 1]
  <2>1. CASE j < i
    <3>1. j \in 1 .. i - 1
      BY <1>1, <2>1
    <3>2. a[j] = s[j]
      BY <1>2, <3>1 DEF a
    <3>3. QED
      BY <1>6, <2>1, <3>1, <3>2
  <2>2. CASE ~(j < i)
    <3>1. j - (i - 1) \in 1 .. Len(s) - i /\ i + (j - (i - 1)) = j + 1
      BY <1>1, <2>2
    <3>2. b[j - (i - 1)] = s[j + 1]
      BY <1>3, <3>1 DEF b
    <3>3. QED
      BY <1>1, <1>6, <2>2, <3>2
  <2>3. QED
    BY <2>1, <2>2
<1>8. QED
  BY <1>4, <1>6, <1>7

\* Every message left is one that was there, of another task.
Rest(i, m) == \E k \in DOMAIN wire \ {i} : wire[k] = m /\ wire[k].task # wire[i].task

LEMMA RestIs ==
    ASSUME WireOK, NEW i \in DOMAIN wire
    PROVE  /\ RemoveAt(wire, i) \in Seq(Mail)
           /\ \A j, k \in DOMAIN RemoveAt(wire, i) :
                RemoveAt(wire, i)[j].task = RemoveAt(wire, i)[k].task => j = k
           /\ \A j \in DOMAIN RemoveAt(wire, i) : Rest(i, RemoveAt(wire, i)[j])
<1> DEFINE r == RemoveAt(wire, i)
<1>1. i \in 1 .. Len(wire) /\ Len(wire) \in Nat /\ DOMAIN wire = 1 .. Len(wire)
  BY DEF WireOK
<1>2. r \in Seq(Mail) /\ Len(r) = Len(wire) - 1
      /\ \A j \in 1 .. Len(wire) - 1 : r[j] = IF j < i THEN wire[j] ELSE wire[j + 1]
  BY RemoveAtIs DEF WireOK
<1> HIDE DEF r
<1>3. DOMAIN r = 1 .. Len(wire) - 1
  BY <1>2
<1> DEFINE at(j) == IF j < i THEN j ELSE j + 1
<1>4. \A j \in DOMAIN r : at(j) \in DOMAIN wire \ {i} /\ r[j] = wire[at(j)]
  BY <1>1, <1>2, <1>3
<1>5. \A j, k \in DOMAIN r : at(j) = at(k) => j = k
  BY <1>1, <1>3
<1> HIDE DEF at
<1>6. \A j \in DOMAIN r : wire[at(j)].task # wire[i].task
  BY <1>4 DEF WireOK
<1>7. \A j, k \in DOMAIN r : r[j].task = r[k].task => j = k
  BY <1>4, <1>5 DEF WireOK
<1>8. \A j \in DOMAIN r : Rest(i, r[j])
  BY <1>4, <1>6 DEF Rest
<1>9. QED
  BY <1>2, <1>7, <1>8 DEF r

LEMMA TakenIs ==
    ASSUME WireOK, NEW i \in DOMAIN wire, Taken(i)
    PROVE  /\ wire' \in Seq(Mail)
           /\ \A j, k \in DOMAIN wire' : wire'[j].task = wire'[k].task => j = k
           /\ \A j \in DOMAIN wire' : Rest(i, wire'[j])
BY RestIs DEF Taken

LEMMA AskedIsMail ==
    ASSUME NEW t \in Tasks
    PROVE  Asked(t) \in Mail /\ Asked(t).task = t /\ Asked(t).is = "asked"
BY DEF Asked, Mail

\* A message appended for a task that has none under way.
LEMMA AppendIs ==
    ASSUME NEW s \in Seq(Mail), NEW t \in Tasks,
           \A i, j \in DOMAIN s : s[i].task = s[j].task => i = j,
           \A i \in DOMAIN s : s[i].task # t
    PROVE  /\ Append(s, Asked(t)) \in Seq(Mail)
           /\ \A i, j \in DOMAIN Append(s, Asked(t)) :
                Append(s, Asked(t))[i].task = Append(s, Asked(t))[j].task => i = j
           /\ \A i \in DOMAIN Append(s, Asked(t)) :
                \/ Append(s, Asked(t))[i] = Asked(t)
                \/ \E k \in DOMAIN s : Append(s, Asked(t))[i] = s[k]
<1> DEFINE a == Append(s, Asked(t))
<1>1. Asked(t) \in Mail /\ Asked(t).task = t
  BY AskedIsMail
<1>2. a \in Seq(Mail) /\ DOMAIN a = 1 .. Len(s) + 1 /\ Len(s) \in Nat /\ DOMAIN s = 1 .. Len(s)
      /\ a[Len(s) + 1] = Asked(t) /\ \A i \in DOMAIN s : a[i] = s[i]
  BY <1>1
<1> HIDE DEF a
<1>3. \A i \in DOMAIN a : i = Len(s) + 1 \/ i \in DOMAIN s
  BY <1>2
<1>4. Len(s) + 1 \notin DOMAIN s
  BY <1>2
<1>5. \A i, j \in DOMAIN a : a[i].task = a[j].task => i = j
  BY <1>1, <1>2, <1>3, <1>4
<1>6. \A i \in DOMAIN a : a[i] = Asked(t) \/ \E k \in DOMAIN s : a[i] = s[k]
  BY <1>2, <1>3
<1>7. QED
  BY <1>2, <1>5, <1>6 DEF a

LEMMA TakenAgainIs ==
    ASSUME WireOK, NEW i \in DOMAIN wire, TakenAgain(i)
    PROVE  /\ wire' \in Seq(Mail)
           /\ \A j, k \in DOMAIN wire' : wire'[j].task = wire'[k].task => j = k
           /\ \A j \in DOMAIN wire' : wire'[j] = Asked(wire[i].task) \/ Rest(i, wire'[j])
<1> DEFINE r == RemoveAt(wire, i)
           t == wire[i].task
<1>0. wire[i] \in Mail
  BY DEF WireOK
<1>1. t \in Tasks /\ wire' = Append(r, Asked(t))
  BY <1>0 DEF Mail, TakenAgain
<1>2. /\ r \in Seq(Mail)
      /\ \A j, k \in DOMAIN r : r[j].task = r[k].task => j = k
      /\ \A j \in DOMAIN r : Rest(i, r[j])
  BY RestIs
<1> HIDE DEF r
<1>3. \A j \in DOMAIN r : r[j].task # t
  BY <1>2 DEF Rest
<1> HIDE DEF t
<1>4. QED
  BY <1>1, <1>2, <1>3, AppendIs DEF t

LEMMA SentIs ==
    ASSUME WireOK, NEW t \in Tasks, task[t].pc \notin Waits, Sent(t)
    PROVE  /\ wire' \in Seq(Mail)
           /\ \A j, k \in DOMAIN wire' : wire'[j].task = wire'[k].task => j = k
           /\ \A j \in DOMAIN wire' :
                wire'[j] = Asked(t) \/ \E k \in DOMAIN wire : wire[k] = wire'[j] /\ wire[k].task # t
<1>1. \A i \in DOMAIN wire : wire[i].task # t
  BY DEF WireOK, Fits
<1>2. wire' = Append(wire, Asked(t))
  BY DEF Sent
<1>3. QED
  BY <1>1, <1>2, AppendIs DEF WireOK

LEMMA AnswerIs ==
    ASSUME WireOK, NEW i \in DOMAIN wire, NEW is, NEW of, Answer(i, is, of),
           is \in {"ok", "locked", "refused", "failed"}, of \in State \cup {None}
    PROVE  /\ wire' \in Seq(Mail) /\ DOMAIN wire' = DOMAIN wire
           /\ \A j, k \in DOMAIN wire' : wire'[j].task = wire'[k].task => j = k
           /\ \A j \in DOMAIN wire \ {i} : wire'[j] = wire[j]
           /\ wire'[i].task = wire[i].task /\ wire'[i].is = is /\ wire'[i].of = of
<1>1. wire[i] \in Mail /\ DOMAIN wire = 1 .. Len(wire) /\ Len(wire) \in Nat
  BY DEF WireOK
<1> DEFINE m == [wire[i] EXCEPT !.is = is, !.of = of]
<1>2. m \in Mail /\ m.task = wire[i].task /\ m.is = is /\ m.of = of
  BY <1>1 DEF Mail
<1>3. wire' = [wire EXCEPT ![i] = m]
  BY <1>1 DEF Answer, Mail
<1> HIDE DEF m
<1>4. wire' \in Seq(Mail) /\ DOMAIN wire' = DOMAIN wire
      /\ \A j \in DOMAIN wire : wire'[j] = IF j = i THEN m ELSE wire[j]
  BY <1>2, <1>3 DEF WireOK
<1>5. QED
  BY <1>2, <1>4 DEF WireOK

-----------------------------------------------------------------------------
(* The shape of a step: one task goes on, and every message under way is   *)
(* one of another task that was there, or the request the task sends.      *)

ViewType == [status : State \cup {None}, entries : 0 .. MaxChanges \cup {None}, failed : BOOLEAN]
DrawnType == [status : State \cup {None}, entries : 0 .. MaxChanges \cup {None}]
PastType == [opened : BOOLEAN, stored : BOOLEAN, changes : 0 .. MaxChanges, faults : 0 .. MaxFaults]
PasskeyType == {"none", "made", "added", "maybe added", "forgotten"}

Moved(t, tk) ==
    /\ tk \in TaskType
    /\ task' = [task EXCEPT ![t] = tk]
    /\ wire' \in Seq(Mail)
    /\ \A j, k \in DOMAIN wire' : wire'[j].task = wire'[k].task => j = k
    /\ \A j \in DOMAIN wire' :
        \/ wire'[j] = Asked(t) /\ tk.pc \in Waits
        \/ \E k \in DOMAIN wire : wire[k] = wire'[j] /\ wire[k].task # t

LEMMA TypesAre ==
    ASSUME Shape
    PROVE  /\ vault \in State /\ task \in [Tasks -> TaskType] /\ view \in ViewType
           /\ drawn \in DrawnType /\ past \in PastType /\ passkey \in PasskeyType
           /\ shown \in BOOLEAN /\ note \in {"none", "here", "gone"}
BY DEF Shape, TypeOK, TaskType, ViewType, DrawnType, PastType, PasskeyType

LEMMA MovedWire ==
    ASSUME Shape, NEW t \in Tasks, NEW tk, Moved(t, tk)
    PROVE  WireOK' /\ \A u \in Tasks : task'[u] = IF u = t THEN tk ELSE task[u]
<1>1. \A u \in Tasks : task'[u] = IF u = t THEN tk ELSE task[u]
  BY TypesAre DEF Moved
<1>2. ASSUME NEW j \in DOMAIN wire' PROVE Fits(wire'[j], task'[wire'[j].task])
  <2>1. CASE wire'[j] = Asked(t) /\ tk.pc \in Waits
    BY <1>1, <2>1, AskedIsMail DEF Fits
  <2>2. CASE \E k \in DOMAIN wire : wire[k] = wire'[j] /\ wire[k].task # t
    <3>1. PICK k \in DOMAIN wire : wire[k] = wire'[j] /\ wire[k].task # t
      BY <2>2
    <3>2. wire[k] \in Mail
      BY DEF Shape, WireOK
    <3>3. task'[wire[k].task] = task[wire[k].task]
      BY <1>1, <3>1, <3>2 DEF Mail
    <3>4. QED
      BY <3>1, <3>3 DEF Shape, WireOK
  <2>3. QED
    BY <2>1, <2>2 DEF Moved
<1>3. QED
  BY <1>1, <1>2 DEF Moved, WireOK

\* The four ways a task goes on.
LEMMA SentMoves ==
    ASSUME Shape, NEW t \in Tasks, task[t].pc \notin Waits, Sent(t),
           NEW tk \in TaskType, tk.pc \in Waits, task' = [task EXCEPT ![t] = tk]
    PROVE  Moved(t, tk)
BY SentIs DEF Shape, Moved

LEMMA TakenMoves ==
    ASSUME Shape, NEW i \in DOMAIN wire, Taken(i),
           NEW tk \in TaskType, task' = [task EXCEPT ![wire[i].task] = tk]
    PROVE  Moved(wire[i].task, tk)
BY TakenIs DEF Shape, Moved, Rest

LEMMA TakenAgainMoves ==
    ASSUME Shape, NEW i \in DOMAIN wire, TakenAgain(i),
           NEW tk \in TaskType, tk.pc \in Waits, task' = [task EXCEPT ![wire[i].task] = tk]
    PROVE  Moved(wire[i].task, tk)
BY TakenAgainIs DEF Shape, Moved, Rest

LEMMA QuietMoves ==
    ASSUME Shape, NEW t \in Tasks, task[t].pc \notin Waits, UNCHANGED wire,
           NEW tk \in TaskType, task' = [task EXCEPT ![t] = tk]
    PROVE  Moved(t, tk)
BY DEF Shape, WireOK, Fits, Moved

LEMMA MailTask == ASSUME Shape, NEW i \in DOMAIN wire
                  PROVE  wire[i].task \in Tasks /\ wire[i] \in Mail
<1>1. wire[i] \in Mail
  BY DEF Shape, WireOK
<1>2. QED
  BY <1>1 DEF Mail

\* What a step of a task keeps of the shape.
LEMMA MovedShape ==
    ASSUME Shape, NEW t \in Tasks, NEW tk, Moved(t, tk),
           tk.pc = "tick" => t # "act",
           t \in Readers => tk.pc \notin {"request", "create", "confirm"},
           UNCHANGED vault, view' \in ViewType, drawn' \in DrawnType,
           shown' \in BOOLEAN, note' \in {"none", "here", "gone"}, passkey' \in PasskeyType,
           past' \in PastType, past'.changes = past.changes,
           view.status \in State => view'.status \in State,
           tk.pc = "entries" => view'.status \in State
    PROVE  Shape'
<1>1. WireOK' /\ \A u \in Tasks : task'[u] = IF u = t THEN tk ELSE task[u]
  BY MovedWire
<1>2. task' \in [Tasks -> TaskType]
  BY <1>1, TypesAre DEF Moved
<1>3. \A j \in DOMAIN wire' : wire'[j] \in Mail
  BY <1>1 DEF WireOK
<1>4. TypeOK'
  <2>1. \A i \in DOMAIN wire' :
          /\ wire'[i].task \in Tasks /\ task'[wire'[i].task].pc \in Waits
          /\ wire'[i].is \in {"asked", "ok", "locked", "refused", "failed"}
          /\ wire'[i].of \in State \cup {None}
    BY <1>1, <1>3 DEF Mail, WireOK, Fits
  <2>2. \A u \in Tasks : task'[u].pc = "tick" => u # "act"
    BY <1>1 DEF Shape, TypeOK
  <2>3. QED
    BY <1>2, <2>1, <2>2, TypesAre DEF TypeOK, TaskType, ViewType, DrawnType, PastType, PasskeyType
<1>5. vault'.at <= past'.changes
  BY DEF Shape
<1>6. \A u \in Tasks : task'[u].pc = "entries" => view'.status \in State
  BY <1>1 DEF Shape
<1>7. \A u \in Readers : task'[u].pc \notin {"request", "create", "confirm"}
  BY <1>1 DEF Shape, Tasks
<1>8. QED
  BY <1>1, <1>4, <1>5, <1>6, <1>7 DEF Shape

\* What it keeps of the notification.
LEMMA MovedReached ==
    ASSUME Shape, Reached, NEW t \in Tasks, NEW tk, Moved(t, tk), UNCHANGED vault,
           tk.since => note' # "none",
           note' = note \/ (note = "here" /\ note' = "gone"),
           note' = "here" /\ past.opened => past'.opened
    PROVE  Reached'
<1>1. \A u \in Tasks : task'[u] = IF u = t THEN tk ELSE task[u]
  BY MovedWire
<1>2. note' = "here" /\ vault'.unlocked => past'.opened
  BY DEF Reached
<1>3. \A u \in Tasks : task'[u].since => note' # "none"
  BY <1>1 DEF Reached
<1>4. ASSUME note' = "here", NEW j \in DOMAIN wire', task'[wire'[j].task].since,
             task'[wire'[j].task].pc # "request", wire'[j].is = "ok", wire'[j].of.unlocked
      PROVE  past'.opened
  <2>1. wire'[j] # Asked(t)
    BY <1>4, AskedIsMail
  <2>2. PICK k \in DOMAIN wire : wire[k] = wire'[j] /\ wire[k].task # t
    BY <2>1 DEF Moved
  <2>3. task'[wire[k].task] = task[wire[k].task]
    BY <1>1, <2>2, MailTask
  <2>4. QED
    BY <1>4, <2>2, <2>3 DEF Reached
<1>5. QED
  BY <1>2, <1>3, <1>4 DEF Reached

\* A reader's step leaves the registration where it is.
LEMMA MovedRegistered ==
    ASSUME Shape, Registered, NEW t \in Readers, NEW tk, Moved(t, tk),
           UNCHANGED passkey, past'.stored = past.stored
    PROVE  Registered'
<1>1. task'["act"] = task["act"] /\ t \in Tasks /\ t # "act"
  BY MovedWire, PageAssumption DEF Tasks
<1>2. ASSUME NEW j \in DOMAIN wire', wire'[j].task = "act"
      PROVE  \E k \in DOMAIN wire : wire[k] = wire'[j]
  BY <1>1, <1>2, AskedIsMail DEF Moved
<1>3. QED
  BY <1>1, <1>2 DEF Registered

\* A step of "act" to where it is not registering.
LEMMA MovedAway ==
    ASSUME Shape, Registered, NEW tk, Moved("act", tk),
           tk.pc \notin {"create", "confirm", "request"},
           past'.stored = past.stored,
           past.stored => passkey' \in {"made", "added", "maybe added"}
    PROVE  Registered'
<1>1. task'["act"] = tk
  BY MovedWire DEF Tasks
<1>2. QED
  BY <1>1 DEF Registered

-----------------------------------------------------------------------------
(* The reads.                                                              *)

IInv == Shape /\ Registered /\ Reached

\* A step of a read, a reader's or the one that ends an action.
LEMMA ReadStep ==
    ASSUME IInv, NEW t \in Tasks, NEW tk, Moved(t, tk),
           tk.pc = "tick" => t # "act",
           tk.pc \notin {"request", "create", "confirm"},
           UNCHANGED <<vault, passkey>>,
           view' \in ViewType, drawn' \in DrawnType, shown' \in BOOLEAN, past' \in PastType,
           past'.changes = past.changes, past'.stored = past.stored,
           view.status \in State => view'.status \in State,
           tk.pc = "entries" => view'.status \in State,
           tk.since => note' # "none",
           note' = note \/ (note = "here" /\ note' = "gone"),
           note' = "here" /\ past.opened => past'.opened
    PROVE  IInv'
<1>1. note' \in {"none", "here", "gone"} /\ passkey' \in PasskeyType
  BY TypesAre DEF IInv
<1>2. Shape'
  BY <1>1, MovedShape DEF IInv
<1>3. Reached'
  BY MovedReached DEF IInv
<1>4. Registered'
  <2>1. CASE t = "act"
    BY <2>1, MovedAway DEF IInv, Registered
  <2>2. CASE t \in Readers
    BY <2>2, MovedRegistered DEF IInv
  <2>3. QED
    BY <2>1, <2>2 DEF Tasks
<1>5. QED
  BY <1>2, <1>3, <1>4 DEF IInv

LEMMA WaitingIs ==
    ASSUME NEW pc \in Waits, NEW n
    PROVE  /\ Waiting(pc, n) \in TaskType /\ Waiting(pc, n).pc = pc
           /\ Waiting(pc, n).since = (n = "here")
BY DEF Waiting, Idle, TaskType, Waits

LEMMA IdleIs == Idle \in TaskType /\ Idle.pc = "idle" /\ ~Idle.since
BY DEF Idle, TaskType

LEMMA AskStep ==
    ASSUME IInv, NEW t \in Readers, Refresh(t) \/ Show(t)
    PROVE  IInv'
<1> DEFINE tk == Waiting("status", note)
<1>1. tk \in TaskType /\ tk.pc = "status" /\ tk.since = (note = "here")
  BY WaitingIs DEF Waits
<1>2. task[t].pc = "idle" /\ Sent(t) /\ task' = [task EXCEPT ![t] = tk]
      /\ UNCHANGED <<vault, view, drawn, note, passkey, past>> /\ shown' \in {shown, TRUE}
  BY DEF Refresh, Show
<1> HIDE DEF tk
<1>3. Moved(t, tk)
  BY <1>1, <1>2, SentMoves DEF IInv, Waits, Tasks
<1>4. QED
  BY <1>1, <1>2, <1>3, ReadStep, TypesAre DEF IInv, Tasks

LEMMA TickStep ==
    ASSUME IInv, NEW t \in Readers, Tick(t)
    PROVE  IInv'
<1> DEFINE tk == [Waiting("tick", note) EXCEPT !.before = view.status]
<1>1. task[t].pc = "idle" /\ Sent(t) /\ task' = [task EXCEPT ![t] = tk]
      /\ UNCHANGED <<vault, view, drawn, shown, note, passkey, past>>
  BY DEF Tick
<1>2. view.status \in State \cup {None}
  BY TypesAre DEF IInv, ViewType
<1>3. tk \in TaskType /\ tk.pc = "tick" /\ tk.since = (note = "here")
  BY <1>2, WaitingIs DEF Waits, TaskType
<1> HIDE DEF tk
<1>4. Moved(t, tk)
  BY <1>1, <1>3, SentMoves DEF IInv, Waits, Tasks
<1>5. QED
  BY <1>1, <1>3, <1>4, ReadStep, TypesAre, PageAssumption DEF IInv, Tasks

\* A countdown asks at once, or leaves it to the action under way.
LEMMA CountdownStep ==
    ASSUME IInv, NEW t \in Readers, Countdown(t)
    PROVE  IInv'
<1> DEFINE tk == Waiting("status", note)
<1>1. tk \in TaskType /\ tk.pc = "status" /\ tk.since = (note = "here")
  BY WaitingIs DEF Waits
<1>2. task[t].pc = "idle" /\ UNCHANGED <<vault, drawn, shown, note, passkey>>
      /\ past' = [past EXCEPT !.faults = Failed] /\ past.faults < MaxFaults
      /\ view.status # None /\ view' = [view EXCEPT !.status.unlocked = FALSE]
      /\ \/ UNCHANGED <<task, wire>>
         \/ task' = [task EXCEPT ![t] = tk] /\ Sent(t)
  BY DEF Countdown, Fails
<1> HIDE DEF tk
<1>3. view.status \in State /\ view'.status \in State /\ view' \in ViewType
  BY <1>2, TypesAre DEF IInv, ViewType, State
<1>4. past' \in PastType /\ past'.changes = past.changes /\ past'.stored = past.stored
      /\ past'.opened = past.opened
  BY <1>2, TypesAre, PageAssumption DEF IInv, PastType, Failed
<1>5. CASE task' = [task EXCEPT ![t] = tk] /\ Sent(t)
  <2>1. Moved(t, tk)
    BY <1>1, <1>2, <1>5, SentMoves DEF IInv, Waits, Tasks
  <2>2. QED
    BY <1>1, <1>2, <1>3, <1>4, <2>1, ReadStep, TypesAre DEF IInv, Tasks
<1>6. CASE UNCHANGED <<task, wire>>
  <2>1. t \in Tasks /\ task[t] \in TaskType /\ task' = [task EXCEPT ![t] = task[t]]
    BY <1>6, TypesAre DEF IInv, Tasks
  <2>2. Moved(t, task[t])
    BY <1>2, <1>6, <2>1, QuietMoves DEF IInv, Waits
  <2>3. task[t].since => note # "none"
    BY <2>1 DEF IInv, Reached
  <2>4. QED
    BY <1>2, <1>3, <1>4, <2>1, <2>2, <2>3, ReadStep, TypesAre DEF IInv
<1>7. QED
  BY <1>2, <1>5, <1>6

\* A dismissal by a read's answer keeps the bookkeeping, and follows an unlock.
LEMMA WatchIs ==
    ASSUME IInv, NEW i \in DOMAIN wire, wire[i].is = "ok", task[wire[i].task].pc # "request",
           Watch(wire[i].of, task[wire[i].task].since)
    PROVE  /\ past' \in PastType /\ past'.changes = past.changes /\ past'.stored = past.stored
           /\ note' = note \/ (note = "here" /\ note' = "gone")
           /\ note' = "here" /\ past.opened => past'.opened
           /\ note = "here" /\ note' = "gone" => past.opened
<1>1. past \in PastType /\ past' = [past EXCEPT !.opened = @ /\ note' = "here"]
  BY TypesAre DEF IInv, Watch
<1>2. note' = note \/ (note = "here" /\ note' = "gone" /\ wire[i].of.unlocked
                        /\ task[wire[i].task].since)
  BY DEF Watch, Dismissed
<1>3. note = "here" /\ note' = "gone" => past.opened
  BY <1>2 DEF IInv, Reached
<1>4. past' \in PastType /\ past'.changes = past.changes /\ past'.stored = past.stored
  BY <1>1 DEF PastType
<1>5. past'.opened = (past.opened /\ note' = "here")
  BY <1>1 DEF PastType
<1>6. QED
  BY <1>2, <1>3, <1>4, <1>5

LEMMA OkIsState ==
    ASSUME IInv, NEW i \in DOMAIN wire, wire[i].is = "ok", task[wire[i].task].pc # "request"
    PROVE  wire[i].of \in State
BY DEF IInv, Shape, WireOK, Fits

\* What the body is drawn from is what the view holds, or what it was.
LEMMA EndsIs ==
    ASSUME IInv, NEW t \in Tasks, NEW v \in ViewType, Ends(t, v)
    PROVE  view' = v /\ task' = [task EXCEPT ![t] = Idle] /\ drawn' \in DrawnType
<1>1. [status |-> v.status, entries |-> v.entries] \in DrawnType
  BY DEF ViewType, DrawnType
<1>2. QED
  BY <1>1, TypesAre DEF IInv, Ends

LEMMA TickAnswerStep ==
    ASSUME IInv, NEW i \in DOMAIN wire, TickAnswer(i)
    PROVE  IInv'
<1> DEFINE t == wire[i].task
           status == wire[i].of
           tk == Waiting("status", note')
<1>1. t \in Tasks /\ task[t].pc = "tick" /\ UNCHANGED <<vault, drawn, shown, passkey>>
  BY MailTask DEF TickAnswer, IInv
<1>2. tk \in TaskType /\ tk.pc = "status" /\ tk.since = (note' = "here")
  BY WaitingIs DEF Waits
<1> HIDE DEF tk
<1>3. CASE wire[i].is = "failed"
  <2>1. Taken(i) /\ view' = [view EXCEPT !.failed = TRUE] /\ task' = [task EXCEPT ![t] = Idle]
        /\ UNCHANGED <<note, past>>
    BY <1>3 DEF TickAnswer
  <2>2. view' \in ViewType /\ view'.status = view.status
    BY <2>1, TypesAre DEF IInv, ViewType
  <2>3. Moved(t, Idle)
    BY <2>1, IdleIs, TakenMoves DEF IInv
  <2>4. QED
    BY <1>1, <2>1, <2>2, <2>3, IdleIs, ReadStep, TypesAre DEF IInv
<1>4. CASE wire[i].is = "ok"
  <2>1. view' = [view EXCEPT !.status = status] /\ Watch(status, task[t].since)
        /\ \/ TakenAgain(i) /\ task' = [task EXCEPT ![t] = tk]
           \/ Taken(i) /\ task' = [task EXCEPT ![t] = Idle]
    BY <1>4 DEF TickAnswer, tk
  <2>2. status \in State
    BY <1>1, <1>4, OkIsState
  <2>3. view' \in ViewType /\ view'.status = status
    BY <2>1, <2>2, TypesAre DEF IInv, ViewType
  <2>4. /\ past' \in PastType /\ past'.changes = past.changes /\ past'.stored = past.stored
        /\ note' = note \/ (note = "here" /\ note' = "gone")
        /\ note' = "here" /\ past.opened => past'.opened
    BY <1>1, <1>4, <2>1, WatchIs
  <2>5. CASE TakenAgain(i) /\ task' = [task EXCEPT ![t] = tk]
    <3>1. Moved(t, tk)
      BY <1>2, <2>5, TakenAgainMoves DEF IInv, Waits
    <3>2. QED
      BY <1>1, <1>2, <2>2, <2>3, <2>4, <3>1, ReadStep, TypesAre DEF IInv
  <2>6. CASE Taken(i) /\ task' = [task EXCEPT ![t] = Idle]
    <3>1. Moved(t, Idle)
      BY <2>6, IdleIs, TakenMoves DEF IInv
    <3>2. QED
      BY <1>1, <2>2, <2>3, <2>4, <3>1, IdleIs, ReadStep, TypesAre DEF IInv
  <2>7. QED
    BY <2>1, <2>5, <2>6
<1>5. QED
  BY <1>3, <1>4 DEF TickAnswer

LEMMA StatusAnswerStep ==
    ASSUME IInv, NEW i \in DOMAIN wire, StatusAnswer(i)
    PROVE  IInv'
<1> DEFINE t == wire[i].task
           status == wire[i].of
<1>1. t \in Tasks /\ task[t].pc = "status" /\ UNCHANGED <<vault, shown, passkey>>
  BY MailTask DEF StatusAnswer, IInv
<1>2. CASE wire[i].is = "failed"
  <2> DEFINE v == [view EXCEPT !.failed = TRUE]
  <2>1. Taken(i) /\ Ends(t, v) /\ UNCHANGED <<note, past>>
    BY <1>2 DEF StatusAnswer
  <2>2. v \in ViewType /\ v.status = view.status
    BY TypesAre DEF IInv, ViewType
  <2> HIDE DEF v
  <2>3. view' = v /\ task' = [task EXCEPT ![t] = Idle] /\ drawn' \in DrawnType
    BY <1>1, <2>1, <2>2, EndsIs
  <2>4. Moved(t, Idle)
    BY <2>1, <2>3, IdleIs, TakenMoves DEF IInv
  <2>5. QED
    BY <1>1, <2>1, <2>2, <2>3, <2>4, IdleIs, ReadStep, TypesAre DEF IInv
<1>3. ASSUME wire[i].is = "ok"
      PROVE  /\ status \in State
             /\ Watch(status, task[t].since) =>
                /\ past' \in PastType /\ past'.changes = past.changes /\ past'.stored = past.stored
                /\ note' = note \/ (note = "here" /\ note' = "gone")
                /\ note' = "here" /\ past.opened => past'.opened
  BY <1>1, <1>3, OkIsState, WatchIs
<1>4. CASE wire[i].is = "ok" /\ status.unlocked
  <2> DEFINE tk == [task[t] EXCEPT !.pc = "entries"]
  <2>1. TakenAgain(i) /\ view' = [view EXCEPT !.status = status] /\ Watch(status, task[t].since)
        /\ task' = [task EXCEPT ![t] = tk] /\ UNCHANGED drawn
    BY <1>1, <1>4, TypesAre DEF StatusAnswer, IInv
  <2>2. task[t] \in TaskType
    BY <1>1, TypesAre DEF IInv
  <2>3. tk \in TaskType /\ tk.pc = "entries" /\ tk.since = task[t].since
    BY <2>2 DEF TaskType, Waits
  <2> HIDE DEF tk
  <2>4. view' \in ViewType /\ view'.status = status
    BY <1>3, <1>4, <2>1, TypesAre DEF IInv, ViewType
  <2>5. Moved(t, tk)
    BY <2>1, <2>3, TakenAgainMoves DEF IInv, Waits
  <2>6. tk.since => note' # "none"
    BY <1>1, <1>3, <1>4, <2>1, <2>3 DEF IInv, Reached
  <2>7. QED
    BY <1>1, <1>3, <1>4, <2>1, <2>3, <2>4, <2>5, <2>6, ReadStep, TypesAre DEF IInv
<1>5. CASE wire[i].is = "ok" /\ ~status.unlocked
  <2> DEFINE v == [status |-> status, entries |-> None, failed |-> FALSE]
  <2>1. Taken(i) /\ Watch(status, task[t].since) /\ Ends(t, v)
    BY <1>5 DEF StatusAnswer
  <2>2. v \in ViewType /\ v.status = status
    BY <1>3, <1>5 DEF ViewType
  <2> HIDE DEF v
  <2>3. view' = v /\ task' = [task EXCEPT ![t] = Idle] /\ drawn' \in DrawnType
    BY <1>1, <2>1, <2>2, EndsIs
  <2>4. Moved(t, Idle)
    BY <2>1, <2>3, IdleIs, TakenMoves DEF IInv
  <2>5. QED
    BY <1>1, <1>3, <1>5, <2>1, <2>2, <2>3, <2>4, IdleIs, ReadStep, TypesAre DEF IInv
<1>6. QED
  BY <1>2, <1>4, <1>5 DEF StatusAnswer

LEMMA EntriesAnswerStep ==
    ASSUME IInv, NEW i \in DOMAIN wire, EntriesAnswer(i)
    PROVE  IInv'
<1> DEFINE t == wire[i].task
           v == CASE wire[i].is = "failed" -> [view EXCEPT !.failed = TRUE]
                  [] wire[i].is = "locked" ->
                         [status |-> [view.status EXCEPT !.unlocked = FALSE],
                          entries |-> None, failed |-> FALSE]
                  [] wire[i].is = "ok" ->
                         [view EXCEPT !.entries = wire[i].of.at, !.failed = FALSE]
<1>1. t \in Tasks /\ task[t].pc = "entries" /\ Taken(i) /\ Ends(t, v)
      /\ UNCHANGED <<vault, shown, note, passkey, past>>
  BY MailTask DEF EntriesAnswer, IInv
<1>2. view \in ViewType /\ view.status \in State
  BY <1>1, TypesAre DEF IInv, Shape
<1>3. v \in ViewType /\ v.status \in State
  <2>1. wire[i].is \in {"failed", "locked", "ok"}
    <3>1. wire[i] \in Mail /\ Fits(wire[i], task[t]) /\ wire[i].is # "asked"
      BY <1>1, MailTask DEF IInv, Shape, WireOK, EntriesAnswer, Arriving, Served, Unserved
    <3>2. QED
      BY <1>1, <3>1 DEF Mail, Fits
  <2>2. CASE wire[i].is = "failed"
    <3>1. v = [view EXCEPT !.failed = TRUE]
      BY <2>2
    <3>2. QED
      BY <1>2, <3>1 DEF ViewType
  <2>3. CASE wire[i].is = "locked"
    <3>1. v = [status |-> [view.status EXCEPT !.unlocked = FALSE], entries |-> None,
               failed |-> FALSE]
      BY <2>3
    <3>2. [view.status EXCEPT !.unlocked = FALSE] \in State
      BY <1>2 DEF State
    <3>3. \A q \in State : LET r == [status |-> q, entries |-> None, failed |-> FALSE]
                            IN  r \in ViewType /\ r.status = q
      BY DEF ViewType
    <3>4. QED
      BY <3>1, <3>2, <3>3
  <2>4. CASE wire[i].is = "ok"
    <3>1. v = [view EXCEPT !.entries = wire[i].of.at, !.failed = FALSE]
      BY <2>4
    <3>2. wire[i].of.at \in 0 .. MaxChanges
      BY <1>1, <2>4, OkIsState DEF State
    <3>3. QED
      BY <1>2, <3>1, <3>2 DEF ViewType
  <2>5. QED
    BY <2>1, <2>2, <2>3, <2>4
<1> HIDE DEF v
<1>4. view' = v /\ task' = [task EXCEPT ![t] = Idle] /\ drawn' \in DrawnType
  BY <1>1, <1>3, EndsIs
<1>5. Moved(t, Idle)
  BY <1>1, <1>4, IdleIs, TakenMoves DEF IInv
<1>6. QED
  BY <1>1, <1>3, <1>4, <1>5, IdleIs, ReadStep, TypesAre DEF IInv

-----------------------------------------------------------------------------
(* The action.                                                             *)

LEMMA ActReadsMoves ==
    ASSUME IInv, ActReads, UNCHANGED note
    PROVE  LET tk == Waiting("status", note)
           IN  /\ tk \in TaskType /\ tk.pc = "status" /\ (tk.since => note' # "none")
               /\ task' = [task EXCEPT !["act"] = tk]
BY WaitingIs DEF ActReads, Waits

\* What an action's step keeps, the registration aside.
LEMMA ActStep ==
    ASSUME IInv, NEW tk, Moved("act", tk), tk.pc \notin {"tick", "entries"},
           UNCHANGED <<vault, view, drawn, shown, note, past>>, passkey' \in PasskeyType,
           tk.since => note # "none", Registered'
    PROVE  IInv'
<1>1. "act" \in Tasks /\ "act" \notin Readers
  BY PageAssumption DEF Tasks
<1>2. Shape'
  BY <1>1, MovedShape, TypesAre DEF IInv
<1>3. Reached'
  BY <1>1, MovedReached DEF IInv
<1>4. QED
  BY <1>2, <1>3 DEF IInv

LEMMA PressStep ==
    ASSUME IInv, NEW kind \in Actions, Press(kind)
    PROVE  IInv'
<1> DEFINE pc == IF kind = "register" THEN "create" ELSE "request"
           tk == [task["act"] EXCEPT !.pc = pc, !.kind = kind]
<1>1. "act" \in Tasks /\ task["act"] \in TaskType /\ task["act"].pc = "idle"
  BY TypesAre DEF IInv, Press, Busy, Tasks
<1>2. task' = [task EXCEPT !["act"] = tk]
      /\ UNCHANGED <<vault, view, drawn, shown, note, passkey, past>>
      /\ IF kind = "register" THEN UNCHANGED wire ELSE Sent("act")
  BY <1>1, TypesAre DEF Press, IInv
<1>3. tk \in TaskType /\ tk.pc = pc /\ tk.kind = kind /\ tk.since = task["act"].since
  BY <1>1 DEF TaskType, Waits
<1>4. pc \in {"create", "request"} /\ (pc = "create" <=> kind = "register")
  OBVIOUS
<1> HIDE DEF tk, pc
<1>5. Moved("act", tk)
  <2>1. CASE kind = "register"
    BY <1>1, <1>2, <1>3, <2>1, QuietMoves DEF IInv, Waits
  <2>2. CASE kind # "register"
    BY <1>1, <1>2, <1>3, <1>4, <2>2, SentMoves DEF IInv, Waits
  <2>3. QED
    BY <2>1, <2>2
<1>6. Registered'
  <2>1. task'["act"] = tk
    BY <1>1, <1>2, TypesAre DEF IInv
  <2>2. kind = "register" => passkey = "none"
    BY DEF Press, Offers
  <2>3. QED
    BY <1>2, <1>3, <1>4, <2>1, <2>2 DEF IInv, Registered
<1>7. tk.since => note # "none"
  BY <1>1, <1>3 DEF IInv, Reached
<1>8. QED
  BY <1>2, <1>3, <1>4, <1>5, <1>6, <1>7, ActStep, TypesAre DEF IInv

LEMMA CreateStep == ASSUME IInv, Create PROVE IInv'
<1>1. "act" \in Tasks /\ task["act"] \in TaskType /\ task["act"].pc = "create"
      /\ UNCHANGED <<vault, view, drawn, shown, note, past>>
  BY TypesAre DEF IInv, Create, Tasks
<1>2. task["act"].since => note # "none"
  BY <1>1 DEF IInv, Reached
<1>3. CASE passkey' = "made" /\ task' = [task EXCEPT !["act"].pc = "confirm"] /\ UNCHANGED wire
  <2> DEFINE tk == [task["act"] EXCEPT !.pc = "confirm"]
  <2>1. task' = [task EXCEPT !["act"] = tk]
    BY <1>1, <1>3, TypesAre DEF IInv
  <2>2. tk \in TaskType /\ tk.pc = "confirm" /\ tk.kind = task["act"].kind
        /\ tk.since = task["act"].since
    BY <1>1 DEF TaskType
  <2> HIDE DEF tk
  <2>3. Moved("act", tk)
    BY <1>1, <1>3, <2>1, <2>2, QuietMoves DEF IInv, Waits
  <2>4. task'["act"] = tk
    BY <1>1, <2>1, TypesAre DEF IInv
  <2>5. Registered'
    BY <1>1, <1>3, <2>2, <2>4 DEF IInv, Registered
  <2>6. QED
    BY <1>1, <1>2, <1>3, <2>2, <2>3, <2>5, ActStep DEF PasskeyType
<1>4. CASE ActReads /\ Sent("act") /\ UNCHANGED passkey
  <2> DEFINE tk == Waiting("status", note)
  <2>1. tk \in TaskType /\ tk.pc = "status" /\ (tk.since => note # "none")
        /\ task' = [task EXCEPT !["act"] = tk]
    BY <1>1, <1>4, ActReadsMoves
  <2> HIDE DEF tk
  <2>2. Moved("act", tk)
    BY <1>1, <1>4, <2>1, SentMoves DEF IInv, Waits
  <2>3. Registered'
    BY <1>1, <1>4, <2>1, <2>2, MovedAway DEF IInv, Registered
  <2>4. QED
    BY <1>1, <1>4, <2>1, <2>2, <2>3, ActStep, TypesAre DEF IInv
<1>5. QED
  BY <1>3, <1>4 DEF Create

\* The user backs out before the request: nothing can have stored the passkey.
LEMMA ConfirmStep == ASSUME IInv, Confirm PROVE IInv'
<1>1. "act" \in Tasks /\ task["act"] \in TaskType /\ task["act"].pc = "confirm"
      /\ Sent("act") /\ UNCHANGED <<vault, view, drawn, shown, note, past>>
  BY TypesAre DEF IInv, Confirm, Tasks
<1>2. task["act"].since => note # "none"
  BY <1>1 DEF IInv, Reached
<1>3. passkey = "made" /\ ~past.stored
  BY <1>1 DEF IInv, Registered
<1>4. CASE task' = [task EXCEPT !["act"].pc = "request"] /\ UNCHANGED passkey
  <2> DEFINE tk == [task["act"] EXCEPT !.pc = "request"]
  <2>1. task' = [task EXCEPT !["act"] = tk]
    BY <1>1, <1>4, TypesAre DEF IInv
  <2>2. tk \in TaskType /\ tk.pc = "request" /\ tk.since = task["act"].since
    BY <1>1 DEF TaskType, Waits
  <2> HIDE DEF tk
  <2>3. Moved("act", tk)
    BY <1>1, <2>1, <2>2, SentMoves DEF IInv, Waits
  <2>4. task'["act"] = tk
    BY <1>1, <2>1, TypesAre DEF IInv
  <2>5. Registered'
    BY <1>1, <1>3, <1>4, <2>2, <2>4 DEF Registered
  <2>6. QED
    BY <1>1, <1>2, <1>4, <2>2, <2>3, <2>5, ActStep, TypesAre DEF IInv
<1>5. CASE ActReads /\ passkey' = "forgotten"
  <2> DEFINE tk == Waiting("status", note)
  <2>1. tk \in TaskType /\ tk.pc = "status" /\ (tk.since => note # "none")
        /\ task' = [task EXCEPT !["act"] = tk]
    BY <1>1, <1>5, ActReadsMoves
  <2> HIDE DEF tk
  <2>2. Moved("act", tk)
    BY <1>1, <2>1, SentMoves DEF IInv, Waits
  <2>3. Registered'
    BY <1>1, <1>3, <2>1, <2>2, MovedAway DEF IInv
  <2>4. QED
    BY <1>1, <1>5, <2>1, <2>2, <2>3, ActStep DEF PasskeyType
<1>6. QED
  BY <1>4, <1>5 DEF Confirm

\* Only a refusal forgets the passkey, and a refusal stored nothing.
LEMMA RequestAnswerStep ==
    ASSUME IInv, NEW i \in DOMAIN wire, RequestAnswer(i)
    PROVE  IInv'
<1> DEFINE tk == Waiting("status", note)
           m == wire[i]
<1>1. m \in Mail /\ m.task \in Tasks /\ task[m.task].pc = "request"
      /\ UNCHANGED <<vault, view, drawn, shown, note, past>>
  BY MailTask DEF RequestAnswer, IInv
<1>2. m.task = "act"
  BY <1>1 DEF IInv, Shape, Tasks
<1>3. tk \in TaskType /\ tk.pc = "status" /\ (tk.since => note # "none")
      /\ task' = [task EXCEPT !["act"] = tk]
  BY <1>1, ActReadsMoves DEF RequestAnswer
<1> HIDE DEF tk
<1>4. Moved("act", tk)
  BY <1>2, <1>3, TakenAgainMoves DEF RequestAnswer, IInv, Waits
<1>5. m.is \in {"ok", "refused", "failed"}
  <2>1. Fits(m, task[m.task]) /\ m.is # "asked"
    BY <1>1 DEF IInv, Shape, WireOK, RequestAnswer, Arriving, Served, Unserved
  <2>2. QED
    BY <1>1, <2>1 DEF Mail, Fits
<1>6. CASE task["act"].kind = "register"
  <2>1. passkey' = Outcome(m.is)
    BY <1>6 DEF RequestAnswer
  <2>2. /\ m.is = "ok" => Outcome(m.is) = "added"
        /\ m.is = "refused" => Outcome(m.is) = "forgotten"
        /\ m.is = "failed" => Outcome(m.is) = "maybe added"
    BY DEF Outcome
  <2>3. m.is = "refused" => ~past.stored
    BY <1>1, <1>2, <1>6 DEF IInv, Registered
  <2>4. Registered'
    BY <1>1, <1>3, <1>4, <1>5, <2>1, <2>2, <2>3, MovedAway DEF IInv
  <2>5. QED
    BY <1>1, <1>3, <1>4, <1>5, <2>1, <2>2, <2>4, ActStep DEF PasskeyType
<1>7. CASE task["act"].kind # "register"
  <2>1. passkey' = passkey
    BY <1>7 DEF RequestAnswer
  <2>2. Registered'
    BY <1>1, <1>3, <1>4, <2>1, MovedAway DEF IInv, Registered
  <2>3. QED
    BY <1>1, <1>3, <1>4, <2>1, <2>2, ActStep, TypesAre DEF IInv
<1>8. QED
  BY <1>6, <1>7

-----------------------------------------------------------------------------
(* The server.                                                             *)

LEMMA ChangeIs ==
    ASSUME IInv, NEW kind, NEW faults \in 0 .. MaxFaults, past.changes < MaxChanges,
           Change(kind, faults)
    PROVE  /\ vault' \in State /\ past' \in PastType /\ vault'.at <= past'.changes
           /\ past'.stored = (past.stored \/ kind = "register")
           /\ past'.opened = (note = "here" /\ (past.opened \/ vault'.unlocked))
<1>1. vault \in State /\ past \in PastType /\ vault.at <= past.changes
  BY TypesAre DEF IInv, Shape
<1>2. vault'.at \in {vault.at, vault.at + 1} /\ vault'.unlocked \in BOOLEAN
      /\ vault' = [unlocked |-> vault'.unlocked, at |-> vault'.at]
  <2>1. \A a, b : [unlocked |-> a, at |-> b].unlocked = a /\ [unlocked |-> a, at |-> b].at = b
    OBVIOUS
  <2> DEFINE u == CASE kind = "lock" -> FALSE [] kind = "unlock" -> TRUE [] OTHER -> vault.unlocked
             a == vault.at + (IF kind \in {"write", "register"} THEN 1 ELSE 0)
  <2>2. vault' = [unlocked |-> u, at |-> a]
    BY DEF Change, Changed
  <2>3. a \in {vault.at, vault.at + 1}
    BY <1>1 DEF State
  <2>4. u \in BOOLEAN
    <3>1. vault.unlocked \in BOOLEAN
      BY <1>1 DEF State
    <3>2. QED
      BY <3>1
  <2> HIDE DEF u, a
  <2>5. QED
    BY <2>1, <2>2, <2>3, <2>4
<1>3. vault' \in State
  BY <1>1, <1>2, PageAssumption DEF State, PastType
<1>4. past' = [past EXCEPT !.opened = note = "here" /\ (@ \/ vault'.unlocked),
                           !.stored = @ \/ kind = "register", !.changes = @ + 1,
                           !.faults = faults]
  BY DEF Change
<1>5. past'.changes = past.changes + 1
  BY <1>1, <1>4 DEF PastType
<1>6. past' \in PastType
  <2> DEFINE o == note = "here" /\ (past.opened \/ vault'.unlocked)
             d == past.stored \/ kind = "register"
  <2>1. o \in BOOLEAN /\ d \in BOOLEAN
    OBVIOUS
  <2>2. past' = [past EXCEPT !.opened = o, !.stored = d, !.changes = past.changes + 1,
                             !.faults = faults]
    BY <1>4
  <2>3. past.changes + 1 \in 0 .. MaxChanges
    BY <1>1, PageAssumption DEF PastType
  <2> HIDE DEF o, d
  <2>4. QED
    BY <1>1, <2>1, <2>2, <2>3 DEF PastType
<1>7. vault'.at <= past'.changes
  BY <1>1, <1>2, <1>5 DEF State, PastType
<1>8. past'.stored = (past.stored \/ kind = "register")
      /\ past'.opened = (note = "here" /\ (past.opened \/ vault'.unlocked))
  BY <1>1, <1>4 DEF PastType
<1>9. QED
  BY <1>3, <1>6, <1>7, <1>8

\* An answer put on the wire: what it may be, and what it keeps.
LEMMA ServedShape ==
    ASSUME IInv, NEW i \in DOMAIN wire, NEW is, NEW of, Answer(i, is, of),
           is \in {"ok", "locked", "refused", "failed"}, of \in State \cup {None},
           is = "ok" /\ task[wire[i].task].pc # "request" => of \in State,
           is = "refused" => task[wire[i].task].pc = "request",
           is = "locked" => task[wire[i].task].pc = "entries",
           UNCHANGED <<task, view, drawn, shown, note, passkey>>,
           vault' \in State, past' \in PastType, vault'.at <= past'.changes
    PROVE  Shape'
<1>1. /\ wire' \in Seq(Mail) /\ DOMAIN wire' = DOMAIN wire
      /\ \A j, k \in DOMAIN wire' : wire'[j].task = wire'[k].task => j = k
      /\ \A j \in DOMAIN wire \ {i} : wire'[j] = wire[j]
      /\ wire'[i].task = wire[i].task /\ wire'[i].is = is /\ wire'[i].of = of
  BY AnswerIs DEF IInv, Shape
<1>2. \A j \in DOMAIN wire' : Fits(wire'[j], task'[wire'[j].task])
  <2>1. \A j \in DOMAIN wire : Fits(wire[j], task[wire[j].task])
    BY DEF IInv, Shape, WireOK
  <2>2. Fits(wire'[i], task[wire[i].task])
    BY <1>1, <2>1 DEF Fits
  <2>3. QED
    BY <1>1, <2>1, <2>2
<1>3. WireOK'
  BY <1>1, <1>2 DEF WireOK
<1>4. \A j \in DOMAIN wire' : wire'[j] \in Mail
  BY <1>1
<1>5. TypeOK'
  <2>1. \A j \in DOMAIN wire' :
          /\ wire'[j].task \in Tasks /\ task'[wire'[j].task].pc \in Waits
          /\ wire'[j].is \in {"asked", "ok", "locked", "refused", "failed"}
          /\ wire'[j].of \in State \cup {None}
    BY <1>2, <1>4 DEF Mail, Fits
  <2>2. \A u \in Tasks : task'[u].pc = "tick" => u # "act"
    BY DEF IInv, Shape, TypeOK
  <2>3. QED
    BY <2>1, <2>2, TypesAre DEF IInv, TypeOK, TaskType, ViewType, DrawnType, PastType, PasskeyType
<1>6. QED
  BY <1>3, <1>5 DEF IInv, Shape

LEMMA ServedReached ==
    ASSUME IInv, NEW i \in DOMAIN wire, NEW is, NEW of, Answer(i, is, of),
           is \in {"ok", "locked", "refused", "failed"}, of \in State \cup {None},
           is = "ok" /\ task[wire[i].task].pc # "request" => of = vault,
           UNCHANGED <<task, note>>,
           note = "here" /\ past.opened => past'.opened,
           note = "here" /\ vault'.unlocked => past'.opened
    PROVE  Reached'
<1>1. /\ DOMAIN wire' = DOMAIN wire
      /\ \A j \in DOMAIN wire \ {i} : wire'[j] = wire[j]
      /\ wire'[i].task = wire[i].task /\ wire'[i].is = is /\ wire'[i].of = of
  BY AnswerIs DEF IInv, Shape
<1>2. ASSUME note = "here", NEW j \in DOMAIN wire', task[wire'[j].task].since,
             task[wire'[j].task].pc # "request", wire'[j].is = "ok", wire'[j].of.unlocked
      PROVE  past'.opened
  <2>1. CASE j = i
    <3>1. vault.unlocked
      BY <1>1, <1>2, <2>1
    <3>2. QED
      BY <1>2, <3>1 DEF IInv, Reached
  <2>2. CASE j # i
    BY <1>1, <1>2, <2>2 DEF IInv, Reached
  <2>3. QED
    BY <2>1, <2>2
<1>3. QED
  BY <1>2 DEF IInv, Reached

\* Another answer than the registration's leaves the registration alone.
LEMMA ServedRegistered ==
    ASSUME IInv, NEW i \in DOMAIN wire, NEW is, NEW of, Answer(i, is, of),
           is \in {"ok", "locked", "refused", "failed"}, of \in State \cup {None},
           UNCHANGED <<task, passkey>>, wire[i].is = "asked",
           \/ past'.stored = past.stored
           \/ /\ wire[i].task = "act" /\ is \in {"ok", "failed"}
              /\ task["act"].pc = "request" /\ task["act"].kind = "register"
    PROVE  Registered'
<1>1. /\ DOMAIN wire' = DOMAIN wire
      /\ \A j \in DOMAIN wire \ {i} : wire'[j] = wire[j]
      /\ wire'[i].task = wire[i].task /\ wire'[i].is = is
      /\ \A j, k \in DOMAIN wire' : wire'[j].task = wire'[k].task => j = k
  BY AnswerIs DEF IInv, Shape
<1>2. CASE past'.stored = past.stored
  <2>1. ASSUME NEW j \in DOMAIN wire', wire'[j].task = "act", wire'[j].is \in {"asked", "refused"}
        PROVE  wire[j].task = "act" /\ wire[j].is \in {"asked", "refused"}
    BY <1>1, <2>1
  <2>2. QED
    BY <1>1, <1>2, <2>1 DEF IInv, Registered
<1>3. CASE /\ wire[i].task = "act" /\ is \in {"ok", "failed"}
           /\ task["act"].pc = "request" /\ task["act"].kind = "register"
  <2>1. passkey = "made"
    BY <1>3 DEF IInv, Registered
  <2>2. \A j \in DOMAIN wire' : wire'[j].task = "act" => j = i
    BY <1>1, <1>3
  <2>3. QED
    BY <1>1, <1>3, <2>1, <2>2 DEF Registered
<1>4. QED
  BY <1>2, <1>3

LEMMA FailedIs ==
    ASSUME IInv, Fails
    PROVE  Failed \in 0 .. MaxFaults /\ past.faults \in 0 .. MaxFaults
           /\ [past EXCEPT !.faults = Failed] \in PastType
BY TypesAre, PageAssumption DEF IInv, Fails, Failed, PastType

LEMMA ServeReadStep ==
    ASSUME IInv, NEW i \in DOMAIN wire, ServeRead(i)
    PROVE  IInv'
<1>1. task[wire[i].task].pc # "request" /\ wire[i].is = "asked"
      /\ UNCHANGED <<vault, task, view, drawn, shown, note, passkey>>
  BY DEF ServeRead, Taking, Unserved
<1>2. vault \in State /\ past \in PastType /\ vault.at <= past.changes
  BY TypesAre DEF IInv, Shape
<1>3. note = "here" /\ vault.unlocked => past.opened
  BY DEF IInv, Reached
<1>4. ASSUME NEW is \in {"ok", "locked", "failed"}, NEW of \in State \cup {None}, Answer(i, is, of),
             past' \in PastType, past'.changes = past.changes, past'.stored = past.stored,
             past'.opened = past.opened,
             is = "ok" => of = vault,
             is = "locked" => task[wire[i].task].pc = "entries"
      PROVE  IInv'
  <2>1. Shape'
    BY <1>1, <1>2, <1>4, ServedShape
  <2>2. Reached'
    BY <1>1, <1>3, <1>4, ServedReached
  <2>3. Registered'
    BY <1>1, <1>4, ServedRegistered
  <2>4. QED
    BY <2>1, <2>2, <2>3 DEF IInv
<1>5. CASE Answer(i, "ok", vault) /\ UNCHANGED past
  BY <1>2, <1>4, <1>5
<1>6. CASE task[wire[i].task].pc = "entries" /\ Answer(i, "locked", None) /\ UNCHANGED past
  BY <1>2, <1>4, <1>6
<1>7. CASE Fails /\ Answer(i, "failed", None) /\ past' = [past EXCEPT !.faults = Failed]
  <2>1. past' \in PastType
    BY <1>7, FailedIs
  <2>2. past'.changes = past.changes /\ past'.stored = past.stored /\ past'.opened = past.opened
    BY <1>2, <1>7 DEF PastType
  <2>3. QED
    BY <1>4, <1>7, <2>1, <2>2
<1>8. QED
  BY <1>5, <1>6, <1>7 DEF ServeRead

LEMMA ServeRequestStep ==
    ASSUME IInv, NEW i \in DOMAIN wire, ServeRequest(i)
    PROVE  IInv'
<1> DEFINE kind == task["act"].kind
<1>1. task[wire[i].task].pc = "request" /\ wire[i].is = "asked"
      /\ UNCHANGED <<task, view, drawn, shown, note, passkey>>
  BY DEF ServeRequest, Taking, Unserved
<1>2. wire[i].task = "act"
  BY <1>1, MailTask DEF IInv, Shape, Tasks
<1>3. vault \in State /\ past \in PastType /\ vault.at <= past.changes
  BY TypesAre DEF IInv, Shape
<1>4. ASSUME NEW is \in {"ok", "refused", "failed"}, Answer(i, is, None),
             vault' \in State, past' \in PastType, vault'.at <= past'.changes,
             \/ past'.stored = past.stored
             \/ is \in {"ok", "failed"} /\ kind = "register",
             note = "here" /\ past.opened => past'.opened,
             note = "here" /\ vault'.unlocked => past'.opened
      PROVE  IInv'
  <2>1. Shape'
    BY <1>1, <1>4, ServedShape
  <2>2. Reached'
    BY <1>1, <1>4, ServedReached
  <2>3. Registered'
    BY <1>1, <1>2, <1>4, ServedRegistered
  <2>4. QED
    BY <2>1, <2>2, <2>3 DEF IInv
<1>5. ASSUME past.changes < MaxChanges, NEW is \in {"ok", "failed"}, Answer(i, is, None),
             NEW faults \in 0 .. MaxFaults, Change(kind, faults)
      PROVE  IInv'
  <2>1. /\ vault' \in State /\ past' \in PastType /\ vault'.at <= past'.changes
        /\ past'.stored = (past.stored \/ kind = "register")
        /\ past'.opened = (note = "here" /\ (past.opened \/ vault'.unlocked))
    BY <1>5, ChangeIs
  <2>2. past'.stored = past.stored \/ kind = "register"
    BY <1>3, <2>1 DEF PastType
  <2>3. QED
    BY <1>4, <1>5, <2>1, <2>2
<1>6. CASE past.changes < MaxChanges /\ Answer(i, "ok", None) /\ Change(kind, past.faults)
  BY <1>3, <1>5, <1>6 DEF PastType
<1>7. CASE past.changes < MaxChanges /\ Fails /\ Answer(i, "failed", None) /\ Change(kind, Failed)
  BY <1>5, <1>7, FailedIs
<1>8. ASSUME NEW is \in {"refused", "failed"}, Answer(i, is, None), UNCHANGED vault,
             past' \in PastType, past'.changes = past.changes, past'.stored = past.stored,
             past'.opened = past.opened
      PROVE  IInv'
  <2>1. note = "here" /\ vault.unlocked => past.opened
    BY DEF IInv, Reached
  <2>2. QED
    BY <1>3, <1>4, <1>8, <2>1
<1>9. CASE Answer(i, "refused", None) /\ UNCHANGED <<vault, past>>
  BY <1>3, <1>8, <1>9
<1>10. CASE Fails /\ Answer(i, "failed", None) /\ past' = [past EXCEPT !.faults = Failed]
            /\ UNCHANGED vault
  <2>1. past' \in PastType
    BY <1>10, FailedIs
  <2>2. past'.changes = past.changes /\ past'.stored = past.stored /\ past'.opened = past.opened
    BY <1>3, <1>10 DEF PastType
  <2>3. QED
    BY <1>8, <1>10, <2>1, <2>2
<1>11. QED
  BY <1>6, <1>7, <1>9, <1>10 DEF ServeRequest

LEMMA ElsewhereStep == ASSUME IInv, Elsewhere PROVE IInv'
<1>1. PICK kind \in {"lock", "unlock", "write"} : Change(kind, past.faults)
  BY DEF Elsewhere
<1>2. past.changes < MaxChanges /\ UNCHANGED <<task, wire, view, drawn, shown, note, passkey>>
  BY DEF Elsewhere
<1>3. past \in PastType /\ past.faults \in 0 .. MaxFaults
  BY TypesAre DEF IInv, PastType
<1>4. /\ vault' \in State /\ past' \in PastType /\ vault'.at <= past'.changes
      /\ past'.stored = (past.stored \/ kind = "register")
      /\ past'.opened = (note = "here" /\ (past.opened \/ vault'.unlocked))
  BY <1>1, <1>2, <1>3, ChangeIs
<1>5. past'.stored = past.stored
  BY <1>3, <1>4 DEF PastType
<1>6. Shape'
  BY <1>2, <1>4, TypesAre DEF IInv, Shape, TypeOK, WireOK, PastType
<1>7. Reached'
  BY <1>2, <1>4 DEF IInv, Reached
<1>8. Registered'
  BY <1>2, <1>5 DEF IInv, Registered
<1>9. QED
  BY <1>6, <1>7, <1>8 DEF IInv

LEMMA NoteComesStep == ASSUME IInv, NoteComes PROVE IInv'
<1>1. note = "none" /\ note' = "here" /\ past' = [past EXCEPT !.opened = vault.unlocked]
      /\ UNCHANGED <<vault, task, wire, view, drawn, shown, passkey>>
  BY DEF NoteComes
<1>2. vault \in State /\ past \in PastType
  BY TypesAre DEF IInv
<1>3. past' \in PastType /\ past'.changes = past.changes /\ past'.stored = past.stored
      /\ past'.opened = vault.unlocked
  BY <1>1, <1>2 DEF State, PastType
<1>4. Shape'
  BY <1>1, <1>3 DEF IInv, Shape, TypeOK, WireOK, PastType
<1>5. Reached'
  <2>1. \A t \in Tasks : ~task[t].since
    BY <1>1 DEF IInv, Reached
  <2>2. \A i \in DOMAIN wire : wire[i].task \in Tasks
    BY MailTask DEF IInv
  <2>3. QED
    BY <1>1, <1>3, <2>1, <2>2 DEF Reached
<1>6. Registered'
  BY <1>1, <1>3 DEF IInv, Registered
<1>7. QED
  BY <1>4, <1>5, <1>6 DEF IInv

-----------------------------------------------------------------------------
(* The theorems.                                                           *)

LEMMA InitOK == Init => IInv
<1> SUFFICES ASSUME Init PROVE IInv
  OBVIOUS
<1>1. PICK t \in Readers :
        /\ task = [u \in Tasks |-> IF u = t THEN [Idle EXCEPT !.pc = "status"] ELSE Idle]
        /\ wire = <<Asked(t)>>
  BY DEF Init
<1> DEFINE tk == [Idle EXCEPT !.pc = "status"]
<1>2. tk \in TaskType /\ tk.pc = "status" /\ ~tk.since
  BY IdleIs DEF Idle, TaskType, Waits
<1> HIDE DEF tk
<1>3. \A u \in Tasks : task[u] = IF u = t THEN tk ELSE Idle
  BY <1>1 DEF tk
<1>4. task \in [Tasks -> TaskType]
  BY <1>1, <1>2, IdleIs DEF tk
<1>5. t \in Tasks /\ t # "act"
  BY PageAssumption DEF Tasks
<1>6. wire \in Seq(Mail) /\ DOMAIN wire = {1} /\ wire[1] = Asked(t)
  BY <1>1, <1>5, AskedIsMail
<1>7. WireOK
  <2>1. Fits(Asked(t), task[t])
    BY <1>2, <1>3, <1>5, AskedIsMail DEF Fits, Waits
  <2>2. QED
    BY <1>5, <1>6, <2>1, AskedIsMail DEF WireOK
<1>8. vault \in State /\ vault.at = 0 /\ past \in PastType /\ past.changes = 0
      /\ ~past.stored /\ ~past.opened /\ note = "none" /\ shown \in BOOLEAN
      /\ view \in ViewType /\ drawn \in DrawnType /\ passkey \in PasskeyType
  <2>1. 0 \in 0 .. MaxChanges /\ 0 \in 0 .. MaxFaults
    BY PageAssumption
  <2>2. vault \in State /\ vault.at = 0
    BY <2>1 DEF Init, State
  <2>3. past \in PastType /\ past.changes = 0 /\ ~past.stored /\ ~past.opened
    BY <2>1 DEF Init, PastType
  <2>4. view \in ViewType /\ drawn \in DrawnType /\ passkey \in PasskeyType
    BY DEF Init, ViewType, DrawnType, PasskeyType
  <2>5. QED
    BY <2>2, <2>3, <2>4 DEF Init
<1>9. TypeOK
  <2>1. wire[1].task = t /\ wire[1].is = "asked" /\ wire[1].of = None /\ task[t].pc \in Waits
    BY <1>2, <1>3, <1>5, <1>6 DEF Asked, Waits
  <2>2. \A u \in Tasks : task[u].pc = "tick" => u # "act"
    BY <1>2, <1>3, IdleIs
  <2>3. QED
    BY <1>4, <1>5, <1>6, <1>8, <2>1, <2>2 DEF TypeOK, TaskType, ViewType, DrawnType, PastType,
       PasskeyType
<1>10. Shape
  BY <1>2, <1>3, <1>7, <1>8, <1>9, IdleIs DEF Shape, Tasks
<1>11. Registered
  BY <1>3, <1>5, <1>8, IdleIs DEF Registered, Tasks
<1>12. Reached
  BY <1>2, <1>3, <1>8, IdleIs DEF Reached
<1>13. QED
  BY <1>10, <1>11, <1>12 DEF IInv

LEMMA NextKeeps == IInv /\ [Next]_vars => IInv'
<1> SUFFICES ASSUME IInv, [Next]_vars PROVE IInv'
  OBVIOUS
<1>1. CASE UNCHANGED vars
  <2>1. UNCHANGED <<vault, task, wire, view, drawn, shown, note, passkey, past>>
    BY <1>1 DEF vars
  <2>2. Shape'
    <3>1. TypeOK'
      BY <2>1 DEF IInv, Shape, TypeOK
    <3>2. WireOK'
      BY <2>1 DEF IInv, Shape, WireOK
    <3>3. QED
      BY <2>1, <3>1, <3>2 DEF IInv, Shape
  <2>3. Registered'
    BY <2>1 DEF IInv, Registered
  <2>4. Reached'
    BY <2>1 DEF IInv, Reached
  <2>5. QED
    BY <2>2, <2>3, <2>4 DEF IInv
<1>2. ASSUME NEW t \in Tasks, Serve(t) PROVE IInv'
  BY <1>2, ServeReadStep, ServeRequestStep DEF Serve
<1>3. ASSUME NEW t \in Tasks, Receive(t) PROVE IInv'
  BY <1>3, TickAnswerStep, StatusAnswerStep, EntriesAnswerStep, RequestAnswerStep DEF Receive
<1>4. QED
  BY <1>1, <1>2, <1>3, ElsewhereStep, NoteComesStep, CreateStep, ConfirmStep, PressStep, AskStep,
     TickStep, CountdownStep DEF Next

THEOREM Invariance == Spec => []IInv
BY InitOK, NextKeeps, PTL DEF Spec

\* Every variable of the page keeps its shape, and an answer always finds the
\* task that waits for it.
THEOREM Typed == Spec => []TypeOK
<1>1. IInv => TypeOK
  BY DEF IInv, Shape
<1>2. QED
  BY <1>1, Invariance, PTL

\* The browser is told to forget a passkey only when the vault has stored no
\* slot of it: an answer that failed, or never came, forgets nothing.
THEOREM StoredPasskeyIsKept == Spec => []KeepsStoredPasskey
<1>1. IInv => KeepsStoredPasskey
  BY DEF IInv, Registered, KeepsStoredPasskey
<1>2. QED
  BY <1>1, Invariance, PTL

\* Only an answer to a read dismisses the notification.
LEMMA DismissalFollowsAnUnlock ==
    IInv /\ [Next]_vars => [note = "here" /\ note' = "gone" => past.opened]_vars
<1> SUFFICES ASSUME IInv, Next, note = "here", note' = "gone" PROVE past.opened
  BY DEF vars
<1>1. note' # note
  OBVIOUS
<1>2. ASSUME NEW i \in DOMAIN wire, TickAnswer(i) \/ StatusAnswer(i) PROVE past.opened
  <2>1. wire[i].is = "ok" /\ task[wire[i].task].pc # "request"
        /\ Watch(wire[i].of, task[wire[i].task].since)
    BY <1>1, <1>2 DEF TickAnswer, StatusAnswer
  <2>2. QED
    BY <2>1, WatchIs
<1>3. ~\E t \in Tasks : Serve(t)
  BY <1>1 DEF Serve, ServeRead, ServeRequest
<1>4. \A i : ~EntriesAnswer(i) /\ ~RequestAnswer(i)
  BY <1>1 DEF EntriesAnswer, RequestAnswer
<1>5. ~Elsewhere /\ ~NoteComes /\ ~Create /\ ~Confirm /\ (\A kind : ~Press(kind))
      /\ \A t : ~Refresh(t) /\ ~Show(t) /\ ~Tick(t) /\ ~Countdown(t)
  BY <1>1 DEF Elsewhere, NoteComes, Create, Confirm, Press, Refresh, Show, Tick, Countdown
<1>6. \E t \in Tasks : Receive(t)
  BY <1>3, <1>5 DEF Next
<1>7. QED
  BY <1>2, <1>4, <1>6 DEF Receive

\* The notification goes only for an unlock since it came: a read begun before
\* it came says nothing of it, however late its answer (`dismissStale`).
THEOREM NoteStaysUntilAnUnlock == Spec => NoteStaysUntilReached
BY DismissalFollowsAnUnlock, Invariance, PTL DEF Spec, NoteStaysUntilReached

=============================================================================
