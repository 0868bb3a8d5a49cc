---------------------------- MODULE Relay_proofs ----------------------------
(***************************************************************************)
(* The safety of Relay for any number of clicks, whatever commands there   *)
(* are and whatever can happen to them.                                    *)
(*                                                                         *)
(* That a secret is given once rests on OnceInv: as long as a value is     *)
(* staged no click has it, and a click that is about to unlink what it     *)
(* read is the only one that can come to have it.  That keys have ends     *)
(* rests on KeysInv: a key without one is the key of the writer that is    *)
(* about to give it one, so that writer removes it when it cannot.         *)
(*                                                                         *)
(* The second half is about what the command says and leaves: Course says  *)
(* where it is by what it runs and has said; Outgoing, Remains and Answers *)
(* are the inductive forms of SecretIsKept and the block half of           *)
(* SaysWhatIsSo, of NothingIsLeft and the other half, and of AnswerIsSeen. *)
(***************************************************************************)
EXTENDS Relay, TLAPS

Staging == {"clear", "add", "end", "write"}
Reading == {"read", "unlink"}
InRequest == Staging \cup Reading \cup {"back", "raised"}

\* A click that has the secret, or the image, in its answer.
HasIt(c) == At(c, "back") /\ task[c].value # None

NotStaged == \A home \in Homes : staged[home]["value"] = None

\* A click whose request runs is the one served, and there is one when a click is served.
ServesOne ==
    \A c \in Clicks : serving = c <=> task[c].pc \in InRequest

Types ==
    /\ backend \in [command : Homes, server : Homes]
    /\ staged \in [Homes -> [Kinds -> Value \cup {None}]]
    /\ endless \subseteq Kinds
    /\ serving \in Clicks \cup {None}
    /\ button \in BOOLEAN
    /\ command \in Command
    /\ task \in [Actors -> Task]
    /\ history \in History

\* Before the button is raised nothing has begun; before the command starts there is nothing.
Begins ==
    /\ At(Cli, "idle") <=> command.name = None
    /\ At(Cli, "idle") => ~button /\ NotStaged
    /\ ~button => history.got = {} /\ \A c \in Clicks : At(c, "idle")
    /\ Outward => task[Cli].pc \notin Reading

\* What a step has in hand, by the direction of the command.
TaskFits(t) ==
    /\ t.pc \in Staging => t.value # None
    /\ t.pc = "unlink" => t.seen # None

ClickFits(t) ==
    /\ Outward => t.pc \notin Staging
    /\ ~Outward => t.pc \notin Reading
    /\ ~Outward /\ t.pc # "idle" => t.value # None
    /\ t.pc = "read" => t.value = None

Fits ==
    /\ \A a \in Actors : TaskFits(task[a])
    /\ \A c \in Clicks : ClickFits(task[c])

\* The command is about to stage: it has not yet, and no button is raised.
OnceBefore ==
    task[Cli].pc \in {"clear", "add", "write"} => NotStaged /\ ~button

\* One of the two homes at most has the value, and while one has it no click does.
OnceStaged ==
    /\ staged["key"]["value"] = None \/ staged["file"]["value"] = None
    /\ ~NotStaged => history.got = {} /\ \A c \in Clicks : ~HasIt(c)

\* A click that has read the value unlinks the only one there is.
OnceTaken(c) ==
    /\ HasIt(c) => history.got = {}
    /\ At(c, "unlink") /\ task[c].value # None =>
         /\ history.got = {}
         /\ staged[task[c].home]["value"] \in {None, task[c].seen}
         /\ \A home \in Homes \ {task[c].home} : staged[home]["value"] = None

OnceInv ==
    /\ CollectedOnce
    /\ history.got # {} => Outward
    /\ Outward => OnceBefore /\ OnceStaged /\ \A c \in Clicks : OnceTaken(c)

\* A key without an end is its writer's, and the writer is about to give it one.
KeysInv ==
    history.cut \/ \A kind \in endless : \E a \in Actors :
        At(a, "end") /\ task[a].kind = kind /\ Adds(a)

IInv == Types /\ ServesOne /\ Begins /\ Fits /\ OnceInv /\ KeysInv

-----------------------------------------------------------------------------
(* Types.                                                                  *)

LEMMA ActorsAre == Cli \in Actors /\ \A c \in Clicks : c \in Actors /\ c # Cli /\ c # None
BY ConstantsAssumption DEF Actors

LEMMA Becomes ==
    ASSUME task \in [Actors -> Task], NEW a \in Actors, NEW t \in Task, Become(a, t)
    PROVE  /\ task' \in [Actors -> Task]
           /\ task'[a] = t
           /\ \A b \in Actors : b # a => task'[b] = task[b]
BY DEF Become

LEMMA ServesOneStays ==
    ASSUME ServesOne, NEW a \in Actors, serving' = serving,
           \A c \in Clicks : c # a => task'[c] = task[c],
           a \in Clicks => task[a].pc \in InRequest /\ task'[a].pc \in InRequest
    PROVE  ServesOne'
<1> SUFFICES ASSUME NEW c \in Clicks
             PROVE  serving' = c <=> task'[c].pc \in InRequest
  BY DEF ServesOne
<1>1. serving = c <=> task[c].pc \in InRequest
  BY DEF ServesOne
<1>2. QED
  BY <1>1

LEMMA PcTyped ==
    ASSUME NEW t \in Task, NEW pc \in Steps, NEW u, u = [t EXCEPT !.pc = pc]
    PROVE  /\ u \in Task
           /\ u.pc = pc /\ u.kind = t.kind /\ u.home = t.home /\ u.value = t.value
           /\ u.seen = t.seen
BY DEF Task

LEMMA StageTyped ==
    ASSUME NEW t \in Task, NEW a \in Actors, NEW kind \in Kinds, NEW v \in Value
    PROVE  /\ Stage(t, a, kind, v) \in Task
           /\ Stage(t, a, kind, v).pc \in {"clear", "write"}
           /\ Stage(t, a, kind, v).value = v
BY DEF Stage, Task, Steps

LEMMA CollectTyped ==
    ASSUME backend \in [command : Homes, server : Homes], NEW t \in Task, NEW a \in Actors
    PROVE  /\ Collect(t, a) \in Task
           /\ Collect(t, a).pc = "read" /\ Collect(t, a).value = None
BY DEF Collect, Home, Task, Steps

LEMMA IdleTyped == Idle \in Task
BY DEF Idle, Task, Steps, Kinds, Homes

LEMMA EndTyped ==
    ASSUME command \in Command, NEW result \in Results, End(result)
    PROVE  command' \in Command /\ command'.name = command.name
BY DEF End, Command

-----------------------------------------------------------------------------
(* Steps that stage nothing.                                               *)

\* Values go from the relay, and a key without an end stays as it is or goes.
Trims ==
    /\ staged' \in [Homes -> [Kinds -> Value \cup {None}]]
    /\ \A home \in Homes : staged'[home]["value"] \in {None, staged[home]["value"]}
    /\ endless' \subseteq endless
    /\ \A kind \in endless' : staged'["key"][kind] = staged["key"][kind]

LEMMA NothingTrims ==
    ASSUME Types, UNCHANGED <<staged, endless>>
    PROVE  Trims
BY DEF Types, Trims

LEMMA RemoveKeyTrims ==
    ASSUME Types, NEW kind \in Kinds, RemoveKey(kind)
    PROVE  Trims
BY DEF Types, Trims, RemoveKey, Homes

LEMMA UnstagedTrims ==
    ASSUME Types, NEW kind \in Kinds
    PROVE  /\ Unstaged(kind) \in [Homes -> [Kinds -> Value \cup {None}]]
           /\ \A home \in Homes, k \in Kinds :
                Unstaged(kind)[home][k] \in {None, staged[home][k]}
           /\ \A k \in Kinds : k # kind \/ Home(Cli) # "key" =>
                Unstaged(kind)["key"][k] = staged["key"][k]
BY DEF Types, Unstaged, Homes

LEMMA UnstageTrims ==
    ASSUME Types, NEW kind \in Kinds, Unstage(kind)
    PROVE  Trims
<1>1. kind \in {"value", "cancel"} /\ "value" \in Kinds
  BY DEF Kinds
<1>2. endless' \subseteq endless /\ endless' \subseteq Kinds
  BY DEF Types, Unstage
<1>3. \A k \in endless' : staged'["key"][k] = staged["key"][k]
  BY <1>2, UnstagedTrims DEF Unstage
<1>4. QED
  BY <1>1, <1>2, <1>3, UnstagedTrims DEF Trims, Unstage

LEMMA NotStagedStays ==
    ASSUME NotStaged, Trims
    PROVE  NotStaged'
BY DEF NotStaged, Trims

\* Nobody comes to have the secret or to be about to unlink it.
LEMMA OnceStays ==
    ASSUME Types, OnceInv, Trims,
           history'.got = history.got,
           command'.name = command.name,
           task'[Cli].pc \in {"clear", "add", "write"} =>
               task[Cli].pc \in {"clear", "add", "write"} /\ button' = button,
           \A c \in Clicks : /\ Outward /\ HasIt(c)' => HasIt(c)
                             /\ Outward /\ At(c, "unlink")' => task'[c] = task[c]
    PROVE  OnceInv'
<1>1. Outward' = Outward
  BY DEF Outward
<1>2. CollectedOnce' /\ (history'.got # {} => Outward')
  BY <1>1 DEF OnceInv, CollectedOnce
<1>3. ASSUME Outward PROVE OnceBefore'
  BY <1>3, NotStagedStays DEF OnceInv, OnceBefore
<1>4. ASSUME Outward PROVE OnceStaged'
  <2>1. staged'["key"]["value"] = None \/ staged'["file"]["value"] = None
    BY <1>4 DEF OnceInv, OnceStaged, Trims, Homes
  <2>2. ~NotStaged' => ~NotStaged
    BY NotStagedStays
  <2>3. QED
    BY <1>4, <2>1, <2>2 DEF OnceInv, OnceStaged
<1>5. ASSUME Outward, NEW c \in Clicks PROVE OnceTaken(c)'
  <2>1. OnceTaken(c)
    BY <1>5 DEF OnceInv
  <2>2. HasIt(c)' => history'.got = {}
    BY <1>5, <2>1 DEF OnceTaken
  <2>3. ASSUME At(c, "unlink")', task'[c].value # None
        PROVE  /\ history'.got = {}
               /\ staged'[task'[c].home]["value"] \in {None, task'[c].seen}
               /\ \A home \in Homes \ {task'[c].home} : staged'[home]["value"] = None
    <3>1. task'[c] = task[c] /\ At(c, "unlink")
      BY <1>5, <2>3 DEF At
    <3>2. /\ history.got = {}
          /\ staged[task[c].home]["value"] \in {None, task[c].seen}
          /\ \A home \in Homes \ {task[c].home} : staged[home]["value"] = None
      BY <2>1, <2>3, <3>1 DEF OnceTaken
    <3>3. task[c].home \in Homes
      BY ActorsAre DEF Types, Task
    <3>4. QED
      BY <3>1, <3>2, <3>3 DEF Trims
  <2>4. QED
    BY <2>2, <2>3 DEF OnceTaken
<1>6. QED
  BY <1>1, <1>2, <1>3, <1>4, <1>5 DEF OnceInv

\* A writer that leaves the place where it gives its key an end has given it, or the key
\* is gone, or was not its own.
LEMMA KeysStay ==
    ASSUME KeysInv, Types, Trims,
           history.cut => history'.cut,
           \A a \in Actors : At(a, "end") =>
               \/ history'.cut
               \/ task'[a] = task[a]
               \/ task[a].kind \notin endless'
               \/ ~Adds(a)
    PROVE  KeysInv'
<1> SUFFICES ASSUME ~history'.cut, NEW kind \in endless'
             PROVE  \E a \in Actors : (At(a, "end") /\ task[a].kind = kind /\ Adds(a))'
  BY DEF KeysInv
<1>1. kind \in endless /\ staged'["key"][kind] = staged["key"][kind]
  BY DEF Trims
<1>2. PICK a \in Actors : At(a, "end") /\ task[a].kind = kind /\ Adds(a)
  BY <1>1 DEF KeysInv
<1>3. task'[a] = task[a]
  BY <1>2
<1>4. QED
  BY <1>1, <1>2, <1>3 DEF At, Adds

LEMMA TrimsTyped ==
    ASSUME Types, Trims
    PROVE  /\ staged' \in [Homes -> [Kinds -> Value \cup {None}]]
           /\ endless' \subseteq Kinds
BY DEF Types, Trims

\* The command takes a step.
LEMMA CommandMoves ==
    ASSUME IInv, Trims, NEW t \in Task, Become(Cli, t),
           ~At(Cli, "idle"),
           t.pc # "idle", TaskFits(t),
           t.pc \in {"clear", "add", "write"} => At(Cli, "clear") /\ button' = button,
           Outward => t.pc \notin Reading,
           UNCHANGED <<backend, serving>>,
           button' \in BOOLEAN, button => button',
           command' \in Command, command'.name = command.name,
           history' \in History, history'.got = history.got,
           history.cut => history'.cut,
           At(Cli, "end") => \/ history'.cut
                             \/ task[Cli].kind \notin endless'
                             \/ ~Adds(Cli)
    PROVE  IInv'
<1>1. Types /\ ServesOne /\ Begins /\ Fits /\ OnceInv /\ KeysInv
  BY DEF IInv
<1>2. /\ task' \in [Actors -> Task]
      /\ task'[Cli] = t
      /\ \A c \in Clicks : task'[c] = task[c]
      /\ \A a \in Actors : a # Cli => task'[a] = task[a]
  BY <1>1, ActorsAre, Becomes DEF Types
<1>3. Outward' = Outward
  BY DEF Outward
<1>4. Types'
  BY <1>1, <1>2, TrimsTyped DEF Types
<1>5. ServesOne'
  BY <1>1, <1>2 DEF ServesOne
<1>6. Begins'
  <2>1. (At(Cli, "idle") <=> command.name = None)'
    BY <1>1, <1>2 DEF Begins, At
  <2>2. ~button' => history'.got = {} /\ \A c \in Clicks : At(c, "idle")'
    BY <1>1, <1>2 DEF Begins, At
  <2>3. QED
    BY <1>2, <1>3, <2>1, <2>2 DEF Begins, At
<1>7. Fits'
  <2>1. ASSUME NEW a \in Actors PROVE TaskFits(task[a])'
    BY <1>1, <1>2 DEF Fits, TaskFits
  <2>2. ASSUME NEW c \in Clicks PROVE ClickFits(task[c])'
    BY <1>1, <1>2, <1>3 DEF Fits, ClickFits
  <2>3. QED
    BY <2>1, <2>2 DEF Fits
<1>8. OnceInv'
  BY <1>1, <1>2, OnceStays DEF HasIt, At
<1>9. KeysInv'
  BY <1>1, <1>2, KeysStay
<1>10. QED
  BY <1>4, <1>5, <1>6, <1>7, <1>8, <1>9 DEF IInv

\* A click takes a step, with no value of an outward command.
LEMMA ClickMoves ==
    ASSUME IInv, Trims, NEW c \in Clicks, NEW t \in Task, Become(c, t),
           button, UNCHANGED <<button, command>>,
           backend' \in [command : Homes, server : Homes],
           serving' \in Clicks \cup {None}, ServesOne',
           TaskFits(t), ClickFits(t),
           Outward => t.pc # "unlink" /\ ~(t.pc = "back" /\ t.value # None),
           history' \in History, history'.got = history.got,
           history.cut => history'.cut,
           At(c, "end") => \/ history'.cut
                           \/ task[c].kind \notin endless'
                           \/ ~Adds(c)
    PROVE  IInv'
<1>1. Types /\ Begins /\ Fits /\ OnceInv /\ KeysInv
  BY DEF IInv
<1>2. /\ task' \in [Actors -> Task]
      /\ task'[c] = t
      /\ task'[Cli] = task[Cli]
      /\ \A a \in Actors : a # c => task'[a] = task[a]
      /\ \A d \in Clicks : d # c => task'[d] = task[d]
  BY <1>1, ActorsAre, Becomes DEF Types
<1>3. Outward' = Outward
  BY DEF Outward
<1>4. Types'
  BY <1>1, <1>2, TrimsTyped DEF Types
<1>6. Begins'
  BY <1>1, <1>2, <1>3 DEF Begins, At
<1>7. Fits'
  <2>1. ASSUME NEW a \in Actors PROVE TaskFits(task[a])'
    BY <1>1, <1>2 DEF Fits, TaskFits
  <2>2. ASSUME NEW d \in Clicks PROVE ClickFits(task[d])'
    BY <1>1, <1>2, <1>3 DEF Fits, ClickFits
  <2>3. QED
    BY <2>1, <2>2 DEF Fits
<1>8. OnceInv'
  <2>1. ASSUME NEW d \in Clicks
        PROVE  /\ Outward /\ HasIt(d)' => HasIt(d)
               /\ Outward /\ At(d, "unlink")' => task'[d] = task[d]
    BY <1>2 DEF HasIt, At
  <2>2. QED
    BY <1>1, <1>2, <2>1, OnceStays
<1>9. KeysInv'
  BY <1>1, <1>2, KeysStay
<1>10. QED
  BY <1>4, <1>6, <1>7, <1>8, <1>9 DEF IInv

\* The relay, the time of the command or the server changes, and nobody takes a step.
LEMMA RestMoves ==
    ASSUME IInv, Trims, UNCHANGED <<task, button>>,
           backend' \in [command : Homes, server : Homes],
           serving' \in Clicks \cup {None}, ServesOne',
           command' \in Command, command'.name = command.name,
           history' \in History, history'.got = history.got,
           history.cut => history'.cut
    PROVE  IInv'
<1>1. Types /\ Begins /\ Fits /\ OnceInv /\ KeysInv
  BY DEF IInv
<1>3. Outward' = Outward
  BY DEF Outward
<1>4. Types'
  BY <1>1, TrimsTyped DEF Types
<1>6. Begins'
  BY <1>1, <1>3, NotStagedStays DEF Begins, At
<1>7. Fits'
  BY <1>1, <1>3 DEF Fits, TaskFits, ClickFits
<1>8. OnceInv'
  BY <1>1, OnceStays DEF HasIt, At
<1>9. KeysInv'
  BY <1>1, KeysStay
<1>10. QED
  BY <1>4, <1>6, <1>7, <1>8, <1>9 DEF IInv

-----------------------------------------------------------------------------
(* The calls of the relay.                                                 *)

LEMMA Pressed ==
    ASSUME IInv, NEW c \in Clicks, ~At(c, "idle")
    PROVE  button /\ ~At(Cli, "idle")
BY DEF IInv, Begins

\* A step of a call that stages nothing.
LEMMA CallMoves ==
    ASSUME IInv, Trims, NEW a \in Actors, NEW t \in Task, Become(a, t),
           task[a].pc \in Staging \cup Reading,
           t.pc \in Staging \cup Reading \cup {"back", "raised"},
           t.pc \in Staging => task[a].pc \in Staging,
           t.pc \in Reading => task[a].pc \in Reading,
           t.pc \in {"clear", "add", "write"} => At(a, "clear"),
           TaskFits(t),
           task[a].pc \in Staging => t.value # None,
           a # Cli => /\ t.pc = "read" => t.value = None
                      /\ Outward => t.pc # "unlink" /\ ~(t.pc = "back" /\ t.value # None),
           UNCHANGED <<backend, serving, button, command>>,
           history' \in History, history'.got = history.got,
           history.cut => history'.cut,
           At(a, "end") => \/ task[a].kind \notin endless'
                           \/ ~Adds(a)
    PROVE  IInv'
<1>1. Types /\ ServesOne /\ Begins /\ Fits
  BY DEF IInv
<1>2. ~At(a, "idle") /\ t.pc # "idle"
  BY DEF At, Staging, Reading
<1>3. CASE a = Cli
  <2>1. Outward => t.pc \notin Reading
    BY <1>1, <1>3 DEF Begins
  <2>2. button' \in BOOLEAN /\ command' \in Command /\ command'.name = command.name
    BY <1>1 DEF Types
  <2>3. QED
    BY <1>2, <1>3, <2>1, <2>2, CommandMoves
<1>4. CASE a \in Clicks
  <2>1. button /\ a # Cli
    BY <1>2, <1>4, ActorsAre, Pressed
  <2>2. ClickFits(task[a])
    BY <1>1, <1>4 DEF Fits
  <2>3. ClickFits(t)
    BY <2>1, <2>2 DEF ClickFits, Staging, Reading
  <2>4. serving = a /\ serving' = a
    BY <1>1, <1>4 DEF ServesOne, InRequest
  <2>5. ServesOne'
    <3>1. task'[a] = t /\ \A d \in Clicks : d # a => task'[d] = task[d]
      BY <1>1, ActorsAre, Becomes DEF Types
    <3>2. QED
      BY <1>1, <3>1, ServesOneStays DEF InRequest
  <2>6. backend' \in [command : Homes, server : Homes] /\ serving' \in Clicks \cup {None}
    BY <1>1, <1>4, <2>4 DEF Types
  <2>7. QED
    BY <1>4, <2>1, <2>3, <2>5, <2>6, ClickMoves
<1>5. QED
  BY <1>3, <1>4 DEF Actors

LEMMA TaskOf ==
    ASSUME IInv, NEW a \in Actors
    PROVE  /\ Types /\ task[a] \in Task /\ history \in History /\ TaskFits(task[a])
           /\ task[a].kind \in Kinds /\ task[a].home \in Homes
BY DEF IInv, Types, Task, Fits

LEMMA StageClearKeeps ==
    ASSUME IInv, NEW a \in Actors, StageClear(a)
    PROVE  IInv'
<1> DEFINE t == [task[a] EXCEPT !.pc = "add"]
<1>1. Become(a, t) /\ At(a, "clear") /\ RemoveKey(task[a].kind)
  BY DEF StageClear, Go
<1>2. /\ t \in Task /\ t.pc = "add" /\ t.value = task[a].value
  BY TaskOf, PcTyped DEF Steps
<1>3. t.value # None /\ TaskFits(t)
  BY <1>1, <1>2, TaskOf DEF TaskFits, Staging, At
<1>4. Trims
  BY <1>1, TaskOf, RemoveKeyTrims
<1> HIDE DEF t
<1>5. QED
  BY <1>1, <1>2, <1>3, <1>4, TaskOf, CallMoves DEF StageClear, At, Staging, Reading

LEMMA StageEndKeeps ==
    ASSUME IInv, NEW a \in Actors, StageEnd(a)
    PROVE  IInv'
<1> DEFINE t == [task[a] EXCEPT !.pc = "back"]
<1>1. Become(a, t) /\ At(a, "end") /\ task[a].kind \notin endless'
  BY DEF StageEnd, Go
<1>2. /\ t \in Task /\ t.pc = "back" /\ t.value = task[a].value
  BY TaskOf, PcTyped DEF Steps
<1>3. t.value # None /\ TaskFits(t)
  BY <1>1, <1>2, TaskOf DEF TaskFits, Staging, At
<1>4. Trims
  BY TaskOf DEF StageEnd, Types, Trims
<1>5. a # Cli => ~Outward
  BY <1>1 DEF IInv, Fits, ClickFits, Staging, At, Actors
<1> HIDE DEF t
<1>6. QED
  BY <1>1, <1>2, <1>3, <1>4, <1>5, TaskOf, CallMoves DEF StageEnd, At, Staging, Reading

LEMMA StageEndRefusedKeeps ==
    ASSUME IInv, NEW a \in Actors, StageEndRefused(a)
    PROVE  IInv'
<1> DEFINE t == [task[a] EXCEPT !.pc = "raised"]
<1>1. Become(a, t) /\ At(a, "end")
  BY DEF StageEndRefused, Go
<1>2. /\ t \in Task /\ t.pc = "raised" /\ t.value = task[a].value
  BY TaskOf, PcTyped DEF Steps
<1>3. t.value # None /\ TaskFits(t)
  BY <1>1, <1>2, TaskOf DEF TaskFits, Staging, At
<1>4. CASE Adds(a)
  <2>1. RemoveKey(task[a].kind)
    BY <1>4 DEF StageEndRefused, NoEnd
  <2>2. Trims /\ task[a].kind \notin endless'
    BY <2>1, TaskOf, RemoveKeyTrims DEF RemoveKey
  <2> HIDE DEF t
  <2>3. QED
    BY <1>1, <1>2, <1>3, <2>2, TaskOf, CallMoves DEF StageEndRefused, At, Staging, Reading
<1>5. CASE ~Adds(a)
  <2>1. Trims
    BY <1>5, TaskOf, NothingTrims DEF StageEndRefused
  <2> HIDE DEF t
  <2>2. QED
    BY <1>1, <1>2, <1>3, <1>5, <2>1, TaskOf, CallMoves DEF StageEndRefused, At, Staging, Reading
<1>6. QED
  BY <1>4, <1>5

LEMMA StageRefusedKeeps ==
    ASSUME IInv, NEW a \in Actors, StageRefused(a)
    PROVE  IInv'
<1> DEFINE t == [task[a] EXCEPT !.pc = "raised"]
<1>1. Become(a, t) /\ task[a].pc \in {"add", "write"}
  BY DEF StageRefused, Go
<1>2. /\ t \in Task /\ t.pc = "raised" /\ t.value = task[a].value
  BY TaskOf, PcTyped DEF Steps
<1>3. t.value # None /\ TaskFits(t)
  BY <1>1, <1>2, TaskOf DEF TaskFits, Staging, At
<1>4. Trims
  BY TaskOf, NothingTrims DEF StageRefused
<1> HIDE DEF t
<1>5. QED
  BY <1>1, <1>2, <1>3, <1>4, TaskOf, CallMoves DEF StageRefused, At, Staging, Reading

LEMMA CollectNothingKeeps ==
    ASSUME IInv, NEW a \in Actors, CollectNothing(a)
    PROVE  IInv'
<1>1. PICK t \in {[task[a] EXCEPT !.home = "file"], [task[a] EXCEPT !.pc = "back"]} :
        Become(a, t)
  BY DEF CollectNothing
<1>2. /\ t \in Task /\ t.pc \in {"read", "back"} /\ t.value = task[a].value
      /\ task[a].pc = "read"
  BY TaskOf DEF CollectNothing, At, Task, Steps, Homes
<1>3. a # Cli => t.value = None
  BY <1>2 DEF IInv, Fits, ClickFits, Actors
<1>4. Trims
  BY TaskOf, NothingTrims DEF CollectNothing
<1>5. QED
  BY <1>1, <1>2, <1>3, <1>4, TaskOf, CallMoves DEF CollectNothing, At, Staging, Reading, TaskFits

LEMMA CollectRefusedKeeps ==
    ASSUME IInv, NEW a \in Actors, CollectRefused(a)
    PROVE  IInv'
<1>1. PICK pc \in {"raised", "back"} : Go(a, pc)
  BY DEF CollectRefused
<1> DEFINE t == [task[a] EXCEPT !.pc = pc]
<1>2. /\ Become(a, t) /\ t \in Task /\ t.pc = pc /\ t.value = task[a].value
      /\ task[a].pc = "read"
  BY <1>1, TaskOf, PcTyped DEF CollectRefused, At, Go, Steps
<1>3. a # Cli => t.value = None
  BY <1>2 DEF IInv, Fits, ClickFits, Actors
<1>4. Trims
  BY TaskOf, NothingTrims DEF CollectRefused
<1> HIDE DEF t
<1>5. QED
  BY <1>1, <1>2, <1>3, <1>4, TaskOf, CallMoves
  DEF CollectRefused, At, Staging, Reading, TaskFits

\* A click that reads the value of an outward command is the one that can unlink it.
LEMMA CollectReadKeeps ==
    ASSUME IInv, NEW a \in Actors, CollectRead(a)
    PROVE  IInv'
<1> DEFINE found == staged[task[a].home]["value"]
<1>1. /\ Types /\ ServesOne /\ Begins /\ Fits /\ OnceInv /\ KeysInv /\ task[a].pc = "read"
      /\ UNCHANGED <<backend, staged, endless, serving, button, command, history>>
  BY DEF IInv, CollectRead, At
<1>2. PICK v \in {found, None} :
        Become(a, [task[a] EXCEPT !.pc = "unlink", !.value = v, !.seen = found])
  BY DEF CollectRead
<1> DEFINE t == [task[a] EXCEPT !.pc = "unlink", !.value = v, !.seen = found]
<1>3. found # None /\ found \in Value \cup {None}
  BY <1>1, TaskOf DEF CollectRead, Types, Kinds
<1>4. /\ t \in Task /\ t.pc = "unlink" /\ t.value = v /\ t.seen = found
      /\ t.home = task[a].home
  BY <1>3, TaskOf DEF Task, Steps
<1>5. Trims /\ TaskFits(t)
  BY <1>1, <1>3, <1>4, NothingTrims DEF TaskFits, Staging
<1> HIDE DEF t
<1>6. CASE a = Cli
  BY <1>1, <1>2, <1>4, <1>5, <1>6, TaskOf, CallMoves DEF t, Staging, Reading, At
<1>7. CASE a \in Clicks
  <2>1. Outward /\ button /\ serving = a /\ a # Cli
    BY <1>1, <1>7, ActorsAre DEF Fits, ClickFits, InRequest, Reading, ServesOne, Begins, At
  <2>2. /\ task' \in [Actors -> Task] /\ task'[a] = t /\ task'[Cli] = task[Cli]
        /\ \A b \in Actors : b # a => task'[b] = task[b]
        /\ \A d \in Clicks : d # a => task'[d] = task[d]
    BY <1>1, <1>2, <1>4, <2>1, ActorsAre, Becomes DEF t, Types
  <2>3. Types'
    BY <1>1, <2>2 DEF Types
  <2>4. ServesOne' /\ Begins'
    <3>1. ServesOne'
      BY <1>1, <1>4, <2>2, ServesOneStays DEF InRequest, Reading
    <3>2. Begins'
      BY <1>1, <1>4, <2>1, <2>2 DEF Begins, At, NotStaged, Outward
    <3>3. QED
      BY <3>1, <3>2
  <2>5. Fits'
    <3>1. ASSUME NEW b \in Actors PROVE TaskFits(task[b])'
      BY <1>1, <1>5, <2>2 DEF Fits, TaskFits
    <3>2. ASSUME NEW d \in Clicks PROVE ClickFits(task[d])'
      BY <1>1, <1>4, <2>1, <2>2 DEF Fits, ClickFits, Staging, Outward
    <3>3. QED
      BY <3>1, <3>2 DEF Fits
  <2>6. OnceInv'
    <3>1. ~NotStaged /\ history.got = {} /\ \A c \in Clicks : ~HasIt(c)
      BY <1>1, <1>3, <2>1, TaskOf DEF OnceInv, OnceStaged, NotStaged
    <3>2. OnceBefore' /\ (\A c \in Clicks : ~HasIt(c))'
      BY <1>1, <1>4, <2>1, <2>2, <3>1 DEF OnceInv, OnceBefore, HasIt, At, NotStaged
    <3>3. OnceStaged'
      BY <1>1, <2>1, <3>1, <3>2 DEF OnceInv, OnceStaged, NotStaged
    <3>4. ASSUME NEW d \in Clicks, At(d, "unlink")', task'[d].value # None
          PROVE  /\ staged'[task'[d].home]["value"] \in {None, task'[d].seen}
                 /\ \A home \in Homes \ {task'[d].home} : staged'[home]["value"] = None
      <4>1. d = a
        BY <1>1, <2>1, <2>2, <3>4 DEF ServesOne, At, InRequest, Reading
      <4>2. staged["key"]["value"] = None \/ staged["file"]["value"] = None
        BY <1>1, <2>1 DEF OnceInv, OnceStaged
      <4>3. QED
        BY <1>1, <1>3, <1>4, <2>2, <4>1, <4>2, TaskOf DEF Homes
    <3>5. QED
      BY <1>1, <2>1, <3>1, <3>2, <3>3, <3>4
      DEF OnceInv, OnceTaken, CollectedOnce, Outward
  <2>7. KeysInv'
    BY <1>1, <1>5, <2>2, KeysStay DEF At
  <2>8. QED
    BY <2>3, <2>4, <2>5, <2>6, <2>7 DEF IInv
<1>8. QED
  BY <1>6, <1>7 DEF Actors

LEMMA CollectUnlinkTrims ==
    ASSUME IInv, NEW a \in Actors, CollectUnlink(a)
    PROVE  Trims
<1>1. CASE Takes(a)
  <2>1. staged' = [staged EXCEPT ![task[a].home]["value"] = None]
    BY <1>1 DEF CollectUnlink
  <2>2. endless' = IF task[a].home = "key" THEN endless \ {"value"} ELSE endless
    BY <1>1 DEF CollectUnlink
  <2>3. Types /\ task[a].home \in Homes
    BY TaskOf
  <2>4. QED
    BY <2>1, <2>2, <2>3 DEF Types, Trims, Homes, Kinds
<1>2. CASE ~Takes(a)
  BY <1>2, TaskOf, NothingTrims DEF CollectUnlink
<1>3. QED
  BY <1>1, <1>2

LEMMA CollectUnlinkHistory ==
    ASSUME IInv, NEW a \in Actors, CollectUnlink(a)
    PROVE  /\ history' \in History
           /\ history'.got = history.got /\ history'.cut = history.cut
<1> DEFINE h == [history EXCEPT
        !.consumed = @ \/ (a # Cli /\ task[a].seen.by = Cli), !.lost = @ \/ task[a].value = None]
<1>1. history' = h /\ history \in History
  BY TaskOf DEF CollectUnlink
<1>2. /\ (history.consumed \/ (a # Cli /\ task[a].seen.by = Cli)) \in BOOLEAN
      /\ (history.lost \/ task[a].value = None) \in BOOLEAN
  OBVIOUS
<1>3. QED
  BY <1>1, <1>2 DEF History

LEMMA CollectUnlinkKeeps ==
    ASSUME IInv, NEW a \in Actors, CollectUnlink(a)
    PROVE  IInv'
<1>1. /\ Types /\ ServesOne /\ Begins /\ Fits /\ OnceInv /\ KeysInv /\ task[a].pc = "unlink"
      /\ UNCHANGED <<backend, serving, button, command>>
  BY DEF IInv, CollectUnlink, At
<1>2. Trims
  BY CollectUnlinkTrims
<1>3. CASE task[a].value = None
  <2>1. PICK t \in {[task[a] EXCEPT !.pc = "read", !.home = "file"],
                    [task[a] EXCEPT !.pc = "back"]} : Become(a, t)
    BY DEF CollectUnlink
  <2>2. /\ t \in Task /\ t.pc \in {"read", "back"} /\ t.value = None
    BY <1>3, TaskOf DEF Task, Steps, Homes
  <2>3. QED
    BY <1>1, <1>2, <2>1, <2>2, TaskOf, CollectUnlinkHistory, CallMoves
    DEF Staging, Reading, At, TaskFits
<1>4. CASE task[a].value # None
  <2> DEFINE t == [task[a] EXCEPT !.pc = "back"]
  <2>1. Become(a, t) /\ t \in Task /\ t.pc = "back" /\ t.value # None
    BY <1>4, TaskOf, PcTyped DEF CollectUnlink, Steps
  <2> HIDE DEF t
  <2>2. CASE a = Cli
    BY <1>1, <1>2, <2>1, <2>2, TaskOf, CollectUnlinkHistory, CallMoves
    DEF Staging, Reading, At, TaskFits
  <2>3. CASE a \in Clicks
    <3>1. Outward /\ button /\ serving = a /\ a # Cli /\ Outward'
      BY <1>1, <2>3, ActorsAre DEF Fits, ClickFits, InRequest, Reading, ServesOne, Begins, At,
         Outward
    <3>2. /\ task' \in [Actors -> Task] /\ task'[a] = t /\ task'[Cli] = task[Cli]
          /\ \A b \in Actors : b # a => task'[b] = task[b]
          /\ \A d \in Clicks : d # a => task'[d] = task[d]
      BY <1>1, <2>1, <3>1, ActorsAre, Becomes DEF Types
    <3>3. Types'
      BY <1>1, <1>2, <3>2, CollectUnlinkHistory, TrimsTyped DEF Types
    <3>4. ServesOne' /\ Begins'
      <4>1. ServesOne'
        BY <1>1, <2>1, <3>2, ServesOneStays DEF InRequest, Reading
      <4>2. Begins'
        BY <1>1, <3>1, <3>2 DEF Begins, At
      <4>3. QED
        BY <4>1, <4>2
    <3>5. Fits'
      <4>1. ASSUME NEW b \in Actors PROVE TaskFits(task[b])'
        BY <1>1, <2>1, <3>2 DEF Fits, TaskFits, Staging
      <4>2. ASSUME NEW d \in Clicks PROVE ClickFits(task[d])'
        BY <1>1, <2>1, <3>1, <3>2 DEF Fits, ClickFits, Staging
      <4>3. QED
        BY <4>1, <4>2 DEF Fits
    <3>6. OnceInv'
      <4>1. /\ history.got = {} /\ history'.got = {}
            /\ staged[task[a].home]["value"] \in {None, task[a].seen}
            /\ \A home \in Homes \ {task[a].home} : staged[home]["value"] = None
        BY <1>1, <1>4, <2>3, <3>1, CollectUnlinkHistory DEF OnceInv, OnceTaken, At
      <4>2. staged'[task[a].home]["value"] = None
        BY <1>1, <4>1, TaskOf DEF CollectUnlink, Takes, Types, Homes, Kinds
      <4>3. NotStaged'
        BY <1>2, <4>1, <4>2 DEF NotStaged, Trims
      <4>4. OnceBefore' /\ OnceStaged'
        BY <1>1, <3>1, <3>2, <4>3 DEF OnceInv, OnceBefore, OnceStaged, NotStaged, Homes
      <4>5. ASSUME NEW d \in Clicks PROVE OnceTaken(d)'
        <5>1. task'[d].pc # "unlink"
          BY <1>1, <2>1, <3>1, <3>2 DEF ServesOne, InRequest, Reading
        <5>2. QED
          BY <4>1, <5>1 DEF OnceTaken, At
      <4>6. QED
        BY <4>1, <4>4, <4>5 DEF OnceInv, CollectedOnce
    <3>7. KeysInv'
      <4>1. ASSUME NEW b \in Actors, At(b, "end") PROVE task'[b] = task[b]
        BY <1>1, <3>2, <4>1 DEF At
      <4>2. QED
        BY <1>1, <1>2, <4>1, CollectUnlinkHistory, KeysStay
    <3>8. QED
      BY <3>3, <3>4, <3>5, <3>6, <3>7 DEF IInv
  <2>4. QED
    BY <2>2, <2>3 DEF Actors
<1>5. QED
  BY <1>3, <1>4

\* What the relay has after a value was put there.
LEMMA Puts ==
    ASSUME IInv, NEW a \in Actors, NEW home \in Homes, Put(a, home), task[a].value # None
    PROVE  /\ staged' \in [Homes -> [Kinds -> Value \cup {None}]]
           /\ \A other \in Homes \ {home} : staged'[other] = staged[other]
           /\ \A kind \in Kinds : kind # task[a].kind => staged'[home][kind] = staged[home][kind]
           /\ staged'[home][task[a].kind] # None
           /\ staged'[home][task[a].kind].by = task[a].value.by
           /\ staged'[home][task[a].kind].caught = task[a].value.caught
           /\ history' \in History
           /\ history'.got = history.got /\ history'.cut = history.cut
<1> DEFINE v == [task[a].value EXCEPT !.late = Ended]
<1>1. Types /\ task[a].kind \in Kinds /\ task[a].value \in Value
  BY TaskOf DEF Task
<1>2. Ended \in BOOLEAN
  BY DEF Ended
<1>3. v \in Value /\ v.by = task[a].value.by /\ v.caught = task[a].value.caught
  BY <1>1, <1>2 DEF Value
<1>4. v # None
  BY <1>3, NoneIsNoValue
<1>5. staged' = [staged EXCEPT ![home][task[a].kind] = v]
  BY DEF Put
<1>6. /\ history' \in History
      /\ history'.got = history.got /\ history'.cut = history.cut
  BY <1>1 DEF Put, Types, History
<1> HIDE DEF v
<1>7. QED
  BY <1>1, <1>3, <1>4, <1>5, <1>6 DEF Types

\* A value is put: in an outward command by the command, which has put none before.
LEMMA PutMoves ==
    ASSUME IInv, NEW a \in Actors, NEW home \in Homes, Put(a, home),
           NEW pc \in {"end", "back"}, Go(a, pc),
           task[a].pc \in {"add", "write"}, endless' \subseteq Kinds,
           UNCHANGED <<backend, serving, button, command>>
    PROVE  Types' /\ ServesOne' /\ Begins' /\ Fits' /\ OnceInv'
<1>1. Types /\ ServesOne /\ Begins /\ Fits /\ OnceInv
  BY DEF IInv
<1> DEFINE t == [task[a] EXCEPT !.pc = pc]
<1>2. /\ Become(a, t) /\ t \in Task /\ t.pc = pc /\ t.value = task[a].value
      /\ task[a].value # None
  BY <1>1, TaskOf, PcTyped DEF Go, Steps, TaskFits, Staging
<1> HIDE DEF t
<1>3. /\ task' \in [Actors -> Task] /\ task'[a] = t
      /\ \A b \in Actors : b # a => task'[b] = task[b]
      /\ \A d \in Clicks : d # a => task'[d] = task[d]
  BY <1>1, <1>2, ActorsAre, Becomes DEF Types
<1>4. Types'
  BY <1>1, <1>2, <1>3, Puts DEF Types
<1>5. ServesOne'
  BY <1>1, <1>2, <1>3, ServesOneStays DEF InRequest, Staging
<1>6. a \in Clicks => ~Outward
  BY <1>1 DEF Fits, ClickFits, Staging
<1>7. ~At(Cli, "idle") /\ ~At(Cli, "idle")'
  <2>1. a \in Clicks => ~At(Cli, "idle") /\ a # Cli
    BY Pressed, ActorsAre DEF At
  <2>2. QED
    BY <1>2, <1>3, <2>1, ActorsAre DEF At, Actors
<1>8. Begins'
  <2>1. ~button' => \A c \in Clicks : At(c, "idle")'
    BY <1>1, <1>3, ActorsAre DEF Begins, At
  <2>2. (Outward => task[Cli].pc \notin Reading)'
    BY <1>1, <1>2, <1>3, ActorsAre DEF Begins, Outward, Reading
  <2>3. QED
    BY <1>1, <1>2, <1>7, <2>1, <2>2, Puts DEF Begins
<1>9. Fits'
  <2>1. ASSUME NEW b \in Actors PROVE TaskFits(task[b])'
    BY <1>1, <1>2, <1>3 DEF Fits, TaskFits
  <2>2. ASSUME NEW c \in Clicks PROVE ClickFits(task[c])'
    BY <1>1, <1>2, <1>3, <1>6 DEF Fits, ClickFits, Outward, Reading
  <2>3. QED
    BY <2>1, <2>2 DEF Fits
<1>10. OnceInv'
  <2>1. CollectedOnce' /\ (history.got # {} => Outward)' /\ Outward' = Outward
    BY <1>1, <1>2, Puts DEF OnceInv, CollectedOnce, Outward
  <2>2. CASE ~Outward
    BY <2>1, <2>2 DEF OnceInv
  <2>3. CASE Outward
    <3>1. a = Cli /\ NotStaged /\ ~button
      BY <1>1, <1>6, <2>3 DEF Actors, OnceInv, OnceBefore
    <3>2. history.got = {} /\ \A c \in Clicks : At(c, "idle")'
      BY <1>1, <1>3, <3>1, ActorsAre DEF Begins, At
    <3>3. OnceBefore'
      BY <1>2, <1>3, <3>1 DEF OnceBefore
    <3>4. OnceStaged'
      BY <1>2, <3>1, <3>2, Puts DEF OnceStaged, NotStaged, HasIt, At, Homes
    <3>5. ASSUME NEW c \in Clicks PROVE OnceTaken(c)'
      BY <3>2 DEF OnceTaken, HasIt, At
    <3>6. QED
      BY <2>1, <3>3, <3>4, <3>5 DEF OnceInv
  <2>4. QED
    BY <2>2, <2>3
<1>11. QED
  BY <1>4, <1>5, <1>8, <1>9, <1>10

LEMMA StageAddKeeps ==
    ASSUME IInv, NEW a \in Actors, StageAdd(a)
    PROVE  IInv'
<1>1. /\ Put(a, "key") /\ Go(a, "end") /\ task[a].pc = "add" /\ "key" \in Homes
      /\ endless' = endless \cup {task[a].kind}
      /\ UNCHANGED <<backend, serving, button, command>>
  BY DEF StageAdd, At, Homes
<1>2. Types /\ KeysInv /\ task[a] \in Task /\ task[a].kind \in Kinds /\ task[a].value # None
  BY <1>1, TaskOf DEF IInv, TaskFits, Staging
<1>3. Types' /\ ServesOne' /\ Begins' /\ Fits' /\ OnceInv'
  <2>1. endless' \subseteq Kinds
    BY <1>1, <1>2 DEF Types
  <2>2. QED
    BY <1>1, <2>1, PutMoves
<1>4. KeysInv'
  <2> SUFFICES ASSUME ~history'.cut, NEW kind \in endless'
               PROVE  \E b \in Actors : (At(b, "end") /\ task[b].kind = kind /\ Adds(b))'
    BY DEF KeysInv
  <2> DEFINE t == [task[a] EXCEPT !.pc = "end"]
  <2>1. t \in Task /\ t.pc = "end" /\ t.kind = task[a].kind /\ t.value = task[a].value
    BY <1>2, PcTyped DEF Steps
  <2>2. Become(a, t)
    BY <1>1 DEF Go
  <2> HIDE DEF t
  <2>3. task'[a] = t /\ \A b \in Actors : b # a => task'[b] = task[b]
    BY <1>2, <2>1, <2>2, Becomes DEF Types
  <2>4. CASE kind = task[a].kind
    BY <1>1, <1>2, <2>1, <2>3, <2>4, Puts DEF At, Adds
  <2>5. CASE kind # task[a].kind
    <3>1. kind \in endless /\ kind \in Kinds /\ ~history.cut
      BY <1>1, <1>2, <2>5, Puts DEF Types
    <3>2. PICK b \in Actors : At(b, "end") /\ task[b].kind = kind /\ Adds(b)
      BY <1>2, <3>1 DEF KeysInv
    <3>3. b # a /\ staged'["key"][kind] = staged["key"][kind]
      BY <1>1, <1>2, <2>5, <3>1, <3>2, Puts
    <3>4. QED
      BY <2>3, <3>2, <3>3 DEF At, Adds
  <2>6. QED
    BY <2>4, <2>5
<1>5. QED
  BY <1>3, <1>4 DEF IInv

LEMMA StageWriteKeeps ==
    ASSUME IInv, NEW a \in Actors, StageWrite(a)
    PROVE  IInv'
<1>1. /\ Put(a, "file") /\ Go(a, "back") /\ task[a].pc = "write" /\ "file" \in Homes
      /\ UNCHANGED <<backend, endless, serving, button, command>>
  BY DEF StageWrite, At, Homes
<1>2. Types /\ KeysInv /\ task[a] \in Task /\ task[a].kind \in Kinds /\ task[a].value # None
  BY <1>1, TaskOf DEF IInv, TaskFits, Staging
<1>3. Types' /\ ServesOne' /\ Begins' /\ Fits' /\ OnceInv'
  <2>1. endless' \subseteq Kinds
    BY <1>1, <1>2 DEF Types
  <2>2. QED
    BY <1>1, <2>1, PutMoves
<1>4. KeysInv'
  <2> SUFFICES ASSUME ~history'.cut, NEW kind \in endless'
               PROVE  \E b \in Actors : (At(b, "end") /\ task[b].kind = kind /\ Adds(b))'
    BY DEF KeysInv
  <2>1. PICK b \in Actors : At(b, "end") /\ task[b].kind = kind /\ Adds(b)
    BY <1>1, <1>2, Puts DEF KeysInv
  <2>2. b # a /\ task'[b] = task[b]
    BY <1>1, <1>2, <2>1 DEF At, Go, Become, Types
  <2>3. staged'["key"] = staged["key"]
    BY <1>1, <1>2, Puts DEF Homes
  <2>4. QED
    BY <2>1, <2>2, <2>3 DEF At, Adds
<1>5. QED
  BY <1>3, <1>4 DEF IInv

LEMMA RelayStepKeeps ==
    ASSUME IInv, NEW a \in Actors, RelayStep(a)
    PROVE  IInv'
BY StageClearKeeps, StageAddKeeps, StageEndKeeps, StageEndRefusedKeeps, StageWriteKeeps,
   StageRefusedKeeps, CollectReadKeeps, CollectNothingKeeps, CollectRefusedKeeps,
   CollectUnlinkKeeps DEF RelayStep

-----------------------------------------------------------------------------
(* The command.                                                            *)

\* The command goes on to a step outside a call of the relay.
LEMMA CommandGoes ==
    ASSUME IInv, Trims, NEW pc \in Steps \ (Staging \cup Reading \cup {"idle"}), Go(Cli, pc),
           ~At(Cli, "idle") /\ ~At(Cli, "end"),
           UNCHANGED <<backend, serving, history>>,
           button' \in BOOLEAN, button => button',
           command' \in Command, command'.name = command.name
    PROVE  IInv'
<1> DEFINE t == [task[Cli] EXCEPT !.pc = pc]
<1>1. Become(Cli, t) /\ t \in Task /\ t.pc = pc
  BY ActorsAre, TaskOf, PcTyped DEF Go
<1>2. TaskFits(t)
  BY <1>1 DEF TaskFits, Reading
<1>3. history' \in History /\ history'.got = history.got /\ (history.cut => history'.cut)
  BY ActorsAre, TaskOf
<1> HIDE DEF t
<1>4. QED
  BY <1>1, <1>2, <1>3, CommandMoves DEF Staging, Reading

LEMMA CommandOf ==
    ASSUME IInv
    PROVE  /\ Types /\ command \in Command /\ button \in BOOLEAN /\ Cli \in Actors
           /\ task[Cli] \in Task
BY ActorsAre, TaskOf DEF IInv, Types

\* The steps outside a call and their names.
LEMMA Outside ==
    {"back", "raised", "trigger", "asked", "wait", "marker", "refer", "unwind", "done", "dead"}
        \subseteq Steps \ (Staging \cup Reading \cup {"idle"})
BY DEF Steps, Staging, Reading

LEMMA StartKeeps ==
    ASSUME IInv, NEW name \in Names, Start(name)
    PROVE  IInv'
<1> DEFINE t == IF name \in {"ceremony", "passphrase"}
                THEN [Idle EXCEPT !.pc = "trigger"] ELSE Stage(Idle, Cli, "value", Secret)
<1>1. /\ Types /\ ServesOne /\ Begins /\ Fits /\ OnceInv /\ KeysInv /\ At(Cli, "idle")
      /\ UNCHANGED <<backend, staged, endless, serving, button, history>>
      /\ command' = [command EXCEPT !.name = name] /\ Become(Cli, t)
  BY DEF IInv, Start
<1>2. name \in CommandNames /\ name # None
  BY ConstantsAssumption
<1>3. command' \in Command /\ command'.name = name
  BY <1>1, <1>2 DEF Types, Command
<1>4. t \in Task /\ t.pc \in {"trigger", "clear", "write"} /\ TaskFits(t)
  <2>1. Secret \in Value /\ Secret # None /\ "value" \in Kinds
    <3>1. Secret \in Value /\ "value" \in Kinds
      BY ActorsAre DEF Secret, Value, Kinds
    <3>2. QED
      BY <3>1, NoneIsNoValue
  <2>2. CASE name \in {"ceremony", "passphrase"}
    BY <2>2, IdleTyped, PcTyped DEF Steps, TaskFits, Staging
  <2>3. CASE name \notin {"ceremony", "passphrase"}
    BY <2>1, <2>3, ActorsAre, IdleTyped, StageTyped DEF TaskFits, Staging
  <2>4. QED
    BY <2>2, <2>3
<1> HIDE DEF t
<1>5. /\ task' \in [Actors -> Task] /\ task'[Cli] = t
      /\ \A b \in Actors : b # Cli => task'[b] = task[b]
      /\ \A c \in Clicks : task'[c] = task[c] /\ At(c, "idle") /\ At(c, "idle")'
  BY <1>1, <1>4, ActorsAre, Becomes DEF Types, Begins, At
<1>6. Types' /\ ServesOne'
  <2>1. Types'
    BY <1>1, <1>3, <1>5 DEF Types
  <2>2. ServesOne'
    BY <1>1, <1>5 DEF ServesOne
  <2>3. QED
    BY <2>1, <2>2
<1>7. NotStaged /\ ~button /\ history.got = {}
  BY <1>1 DEF Begins
<1>8. Begins'
  BY <1>1, <1>2, <1>3, <1>4, <1>5, <1>7 DEF Begins, At, Reading
<1>9. Fits'
  BY <1>1, <1>4, <1>5 DEF Fits, TaskFits, ClickFits, At, Staging, Reading
<1>10. OnceInv'
  <2>1. CollectedOnce' /\ history'.got = {} /\ NotStaged' /\ ~button'
    BY <1>1, <1>7 DEF CollectedOnce, NotStaged
  <2>2. OnceBefore' /\ OnceStaged' /\ \A c \in Clicks : OnceTaken(c)'
    BY <1>5, <2>1 DEF OnceBefore, OnceStaged, OnceTaken, HasIt, At, NotStaged, Homes
  <2>3. QED
    BY <2>1, <2>2 DEF OnceInv
<1>11. KeysInv'
  BY <1>1, <1>5, NothingTrims, KeysStay DEF At
<1>12. QED
  BY <1>6, <1>8, <1>9, <1>10, <1>11 DEF IInv

LEMMA StageReturnsKeeps ==
    ASSUME IInv, StageReturns
    PROVE  IInv'
<1>1. /\ Types /\ Trims /\ UNCHANGED <<backend, serving, history>> /\ button' = button
      /\ button \in BOOLEAN /\ command \in Command
      /\ task[Cli].pc \in {"back", "raised"}
  BY CommandOf, NothingTrims DEF StageReturns, At
<1>2. ~At(Cli, "idle") /\ ~At(Cli, "end")
  BY <1>1 DEF At
<1>3. CASE Go(Cli, "trigger") /\ UNCHANGED command
  BY <1>1, <1>2, <1>3, Outside, CommandGoes
<1>4. CASE Go(Cli, "done") /\ End("failed")
  BY <1>1, <1>2, <1>4, Outside, CommandGoes, EndTyped DEF Results
<1>5. QED
  BY <1>3, <1>4 DEF StageReturns

LEMMA TriggerKeeps ==
    ASSUME IInv, Trigger
    PROVE  IInv'
<1>1. /\ Types /\ Trims /\ UNCHANGED <<backend, serving, history, command>> /\ button' = TRUE
      /\ command \in Command /\ task[Cli].pc = "trigger" /\ Go(Cli, "asked")
  BY CommandOf, NothingTrims DEF Trigger, At
<1>2. QED
  BY <1>1, Outside, CommandGoes DEF At

LEMMA TriggeredKeeps ==
    ASSUME IInv, Triggered
    PROVE  IInv'
<1>1. /\ Types /\ Trims /\ UNCHANGED <<backend, serving, history>> /\ button' = button
      /\ button \in BOOLEAN /\ command \in Command /\ task[Cli].pc = "asked"
  BY CommandOf, NothingTrims DEF Triggered, At
<1>2. ~At(Cli, "idle") /\ ~At(Cli, "end")
  BY <1>1 DEF At
<1>3. CASE Go(Cli, "done") /\ End("posted")
  BY <1>1, <1>2, <1>3, Outside, CommandGoes, EndTyped DEF Results
<1>4. CASE Go(Cli, "wait") /\ UNCHANGED command
  BY <1>1, <1>2, <1>4, Outside, CommandGoes
<1>5. QED
  BY <1>3, <1>4 DEF Triggered

\* A step that ends the command's wait, or its trigger, and says with what.
LEMMA EndGoes ==
    ASSUME IInv, Trims, NEW pc \in {"unwind", "done", "wait"}, Go(Cli, pc),
           NEW result \in Results, End(result) \/ UNCHANGED command,
           ~At(Cli, "idle") /\ ~At(Cli, "end"),
           UNCHANGED <<backend, serving, history, button>>
    PROVE  IInv'
<1>1. command' \in Command /\ command'.name = command.name
  BY CommandOf, EndTyped
<1>2. QED
  BY <1>1, CommandOf, Outside, CommandGoes

LEMMA TriggerFailsKeeps ==
    ASSUME IInv, TriggerFails
    PROVE  IInv'
<1>1. PICK pc \in {"unwind", "done"} : Go(Cli, pc)
  BY DEF TriggerFails
<1>2. QED
  BY <1>1, CommandOf, NothingTrims, EndGoes DEF TriggerFails, At, Results

LEMMA SeeAnswerKeeps ==
    ASSUME IInv, SeeAnswer
    PROVE  IInv'
<1>1. /\ Types /\ Trims /\ UNCHANGED <<backend, serving, history, command, button>>
      /\ button \in BOOLEAN /\ command \in Command /\ task[Cli].pc = "wait" /\ ~Outward
  BY CommandOf, NothingTrims DEF SeeAnswer, At
<1>2. CASE Go(Cli, "refer")
  BY <1>1, <1>2, Outside, CommandGoes DEF At
<1>3. CASE Become(Cli, Collect(task[Cli], Cli))
  <2> DEFINE t == Collect(task[Cli], Cli)
  <2>1. t \in Task /\ t.pc = "read"
    BY <1>1, CommandOf, CollectTyped DEF Types
  <2>2. history \in History
    BY <1>1 DEF Types
  <2> HIDE DEF t
  <2>3. QED
    BY <1>1, <1>3, <2>1, <2>2, CommandMoves DEF t, At, TaskFits, Staging
<1>4. QED
  BY <1>2, <1>3 DEF SeeAnswer

LEMMA LookForMarkerKeeps ==
    ASSUME IInv, LookForMarker
    PROVE  IInv'
<1>1. /\ Types /\ Trims /\ UNCHANGED <<backend, serving, history, command, button>>
      /\ button \in BOOLEAN /\ command \in Command /\ task[Cli].pc = "wait"
      /\ Go(Cli, "marker")
  BY CommandOf, NothingTrims DEF LookForMarker, At
<1>2. QED
  BY <1>1, Outside, CommandGoes DEF At

LEMMA ReadMarkerKeeps ==
    ASSUME IInv, ReadMarker
    PROVE  IInv'
<1>1. /\ UNCHANGED <<backend, serving, history, button>>
      /\ ~At(Cli, "idle") /\ ~At(Cli, "end") /\ "cancel" \in Kinds /\ "cancelled" \in Results
  BY DEF ReadMarker, At, Kinds, Results
<1>2. CASE Unstage("cancel") /\ Go(Cli, "done") /\ End("cancelled")
  BY <1>1, <1>2, CommandOf, UnstageTrims, EndGoes
<1>3. CASE Go(Cli, "wait") /\ UNCHANGED <<staged, endless, command>>
  BY <1>1, <1>3, CommandOf, NothingTrims, EndGoes
<1>4. QED
  BY <1>2, <1>3 DEF ReadMarker

LEMMA SeeGoneKeeps ==
    ASSUME IInv, SeeGone
    PROVE  IInv'
BY CommandOf, NothingTrims, EndGoes DEF SeeGone, At, Results

LEMMA TimeoutKeeps ==
    ASSUME IInv, Timeout
    PROVE  IInv'
<1>1. PICK pc \in {"unwind", "done"} : Go(Cli, pc)
  BY DEF Timeout
<1>2. QED
  BY <1>1, CommandOf, NothingTrims, EndGoes DEF Timeout, At, Results

LEMMA StopKeeps ==
    ASSUME IInv, Stop
    PROVE  IInv'
<1>1. PICK pc \in {"unwind", "done"} : Go(Cli, pc)
  BY DEF Stop
<1>2. QED
  BY <1>1, CommandOf, NothingTrims, EndGoes DEF Stop, At, Results

LEMMA CollectReturnsKeeps ==
    ASSUME IInv, CollectReturns
    PROVE  IInv'
<1>1. PICK result \in {"failed", "answer", "refused"} : End(result)
  BY DEF CollectReturns
<1>2. QED
  BY <1>1, CommandOf, NothingTrims, EndGoes DEF CollectReturns, At, Results

LEMMA PrintReferenceKeeps ==
    ASSUME IInv, PrintReference
    PROVE  IInv'
<1>1. /\ UNCHANGED <<backend, serving, history, button>> /\ Go(Cli, "done")
      /\ ~At(Cli, "idle") /\ ~At(Cli, "end") /\ "value" \in Kinds /\ "failed" \in Results
  BY DEF PrintReference, At, Kinds, Results
<1>2. CASE /\ command' = [command EXCEPT !.result = "reference", !.reference = Reference]
           /\ UNCHANGED <<staged, endless>>
  <2>1. command' \in Command /\ command'.name = command.name
    BY <1>2, CommandOf DEF Command, Results, Reference, Homes
  <2>2. QED
    BY <1>1, <1>2, <2>1, CommandOf, NothingTrims, Outside, CommandGoes
<1>3. CASE End("failed") /\ Unstage("value")
  BY <1>1, <1>3, CommandOf, UnstageTrims, EndGoes
<1>4. QED
  BY <1>2, <1>3 DEF PrintReference

LEMMA UnwindKeeps ==
    ASSUME IInv, Unwind
    PROVE  IInv'
<1>1. /\ UNCHANGED <<backend, serving, button, command, history>> /\ Go(Cli, "done")
      /\ ~At(Cli, "idle") /\ ~At(Cli, "end") /\ "value" \in Kinds
      /\ staged' = Unstaged("value")
      /\ endless' = {kind \in endless : Unstaged("value")["key"][kind] # None}
  BY DEF Unwind, Unwound, At, Kinds
<1>2. Trims
  BY <1>1, CommandOf, UnstagedTrims DEF Trims, Types, Homes
<1>3. QED
  BY <1>1, <1>2, CommandOf, Outside, CommandGoes

LEMMA KillKeeps ==
    ASSUME IInv, Kill
    PROVE  IInv'
<1> DEFINE t == [task[Cli] EXCEPT !.pc = "dead"]
<1>1. /\ Types /\ Trims /\ UNCHANGED <<backend, serving, command, button>>
      /\ button \in BOOLEAN /\ command \in Command /\ ~At(Cli, "idle") /\ Become(Cli, t)
  BY CommandOf, NothingTrims DEF Kill, Go
<1>2. t \in Task /\ t.pc = "dead"
  BY CommandOf, PcTyped DEF Steps
<1>3. /\ history' \in History /\ history'.got = history.got
      /\ history'.cut <=> history.cut \/ At(Cli, "end")
  <2>1. (history.cut \/ At(Cli, "end")) \in BOOLEAN
    OBVIOUS
  <2>2. history' = [history EXCEPT !.cut = history.cut \/ At(Cli, "end")] /\ history \in History
    BY <1>1 DEF Kill, Types
  <2>3. QED
    BY <2>1, <2>2 DEF History
<1> HIDE DEF t
<1>4. QED
  BY <1>1, <1>2, <1>3, CommandMoves DEF TaskFits, Staging, Reading

LEMMA TimeUpKeeps ==
    ASSUME IInv, TimeUp
    PROVE  IInv'
<1>1. command' \in Command /\ command'.name = command.name
  BY CommandOf DEF TimeUp, Command
<1>2. /\ backend' \in [command : Homes, server : Homes] /\ serving' \in Clicks \cup {None}
      /\ history' \in History /\ ServesOne'
  BY DEF IInv, TimeUp, Types, ServesOne
<1>3. QED
  BY <1>1, <1>2, CommandOf, NothingTrims, RestMoves DEF TimeUp

LEMMA CommandStepKeeps ==
    ASSUME IInv, CommandStep
    PROVE  IInv'
BY ActorsAre, RelayStepKeeps, StageReturnsKeeps, TriggerKeeps, TriggeredKeeps, SeeAnswerKeeps,
   LookForMarkerKeeps, ReadMarkerKeeps, SeeGoneKeeps, TimeoutKeeps, CollectReturnsKeeps,
   PrintReferenceKeeps, UnwindKeeps DEF CommandStep

-----------------------------------------------------------------------------
(* The page and the server.                                                *)

\* What is known of a click that has begun.
LEMMA ClickOf ==
    ASSUME IInv, NEW c \in Clicks, ~At(c, "idle")
    PROVE  /\ Types /\ ServesOne /\ button /\ c \in Actors /\ task[c] \in Task
           /\ c # Cli /\ c # None /\ command.name \in CommandNames
           /\ ClickFits(task[c]) /\ history \in History
           /\ backend \in [command : Homes, server : Homes] /\ serving \in Clicks \cup {None}
<1>1. Types /\ ServesOne /\ button /\ command.name # None /\ command \in Command
  BY Pressed DEF IInv, Begins, Types
<1>2. QED
  BY <1>1, ActorsAre DEF IInv, Types, Fits, Command

\* A click goes from a step outside its request to another.
LEMMA ClickGoes ==
    ASSUME IInv, NEW c \in Clicks, NEW pc \in Steps \ (InRequest \cup {"idle"}), Go(c, pc),
           ~At(c, "idle"), task[c].pc \notin InRequest,
           UNCHANGED <<backend, staged, endless, serving, button, command>>,
           history' \in History, history'.got = history.got, history'.cut = history.cut
    PROVE  IInv'
<1> DEFINE t == [task[c] EXCEPT !.pc = pc]
<1>1. Become(c, t) /\ t \in Task /\ t.pc = pc /\ t.value = task[c].value
  BY ClickOf, PcTyped DEF Go
<1>2. TaskFits(t) /\ ClickFits(t)
  BY <1>1, ClickOf DEF TaskFits, ClickFits, InRequest, Staging, Reading, At
<1> HIDE DEF t
<1>3. ServesOne'
  <2>1. task'[c] = t /\ \A d \in Clicks : d # c => task'[d] = task[d]
    BY <1>1, ClickOf, ActorsAre, Becomes DEF Types
  <2>2. QED
    BY <1>1, <2>1, ClickOf DEF ServesOne
<1>4. Trims /\ ~At(c, "end")
  BY ClickOf, NothingTrims DEF InRequest, Staging, At
<1>5. QED
  BY <1>1, <1>2, <1>3, <1>4, ClickOf, ClickMoves DEF InRequest, Reading

LEMMA PressKeeps ==
    ASSUME IInv, NEW c \in Clicks, Press(c)
    PROVE  IInv'
<1>1. /\ Types /\ ServesOne /\ Begins /\ c \in Actors /\ c # Cli /\ button /\ At(c, "idle")
      /\ UNCHANGED <<backend, staged, endless, serving, button, command>>
      /\ history' = [history EXCEPT !.clicks = @ \cup {c}]
  BY ActorsAre DEF IInv, Press
<1>2. \A ok \in BOOLEAN, caught \in BOOLEAN : Answer(c, ok, caught) \in Value
  BY <1>1 DEF Answer, Value
<1>3. PICK kind \in Kinds, v \in Value \cup {None} :
        /\ Become(c, [Idle EXCEPT !.pc = "post", !.kind = kind, !.value = v])
        /\ ~Outward => v \in Value
  <2> DEFINE posts == CASE Runs("ceremony") -> {"value"} \X CeremonyPosts(c)
                         [] Runs("passphrase") -> DialogPosts(c)
                         [] OTHER -> {<<"value", None>>}
  <2>1. PICK post \in posts :
          Become(c, [Idle EXCEPT !.pc = "post", !.kind = post[1], !.value = post[2]])
    BY DEF Press
  <2>2. CASE Runs("ceremony")
    <3>1. posts = {"value"} \X CeremonyPosts(c)
      BY <2>2 DEF Runs
    <3>2. CeremonyPosts(c) \subseteq Value
      BY <1>2 DEF CeremonyPosts
    <3>3. post[1] \in Kinds /\ post[2] \in Value
      BY <3>1, <3>2 DEF Kinds
    <3>4. QED
      BY <2>1, <3>3
  <2>3. CASE Runs("passphrase")
    <3>1. posts = DialogPosts(c)
      BY <2>3 DEF Runs
    <3>2. PICK kind \in Kinds : post = <<kind, Answer(c, TRUE, FALSE)>>
      BY <3>1 DEF DialogPosts
    <3>3. post[1] \in Kinds /\ post[2] \in Value
      BY <1>2, <3>2
    <3>4. QED
      BY <2>1, <3>3
  <2>4. CASE ~Runs("ceremony") /\ ~Runs("passphrase")
    <3>1. command.name \in CommandNames
      BY <1>1 DEF Begins, At, Types, Command
    <3>2. Outward
      BY <2>4, <3>1 DEF Runs, Outward, CommandNames
    <3>3. posts = {<<"value", None>>}
      BY <2>4
    <3>4. post[1] \in Kinds /\ post[2] = None
      BY <3>3 DEF Kinds
    <3>5. QED
      BY <2>1, <3>2, <3>4
  <2>5. QED
    BY <2>2, <2>3, <2>4
<1> DEFINE t == [Idle EXCEPT !.pc = "post", !.kind = kind, !.value = v]
<1>4. t \in Task /\ t.pc = "post" /\ t.value = v
  BY IdleTyped DEF Task, Steps
<1>5. TaskFits(t) /\ ClickFits(t)
  BY <1>3, <1>4, NoneIsNoValue DEF TaskFits, ClickFits, Staging, Reading
<1>6. Become(c, t)
  BY <1>3
<1> HIDE DEF t
<1>7. ServesOne'
  <2>1. task'[c] = t /\ \A d \in Clicks : d # c => task'[d] = task[d]
    BY <1>1, <1>4, <1>6, ActorsAre, Becomes DEF Types
  <2>2. task[c].pc \notin InRequest /\ t.pc \notin InRequest
    BY <1>1, <1>4 DEF At, InRequest, Staging, Reading
  <2>3. QED
    BY <1>1, <2>1, <2>2 DEF ServesOne
<1>8. history' \in History /\ history'.got = history.got /\ history'.cut = history.cut
  BY <1>1 DEF Types, History
<1>9. Trims /\ ~At(c, "end")
  BY <1>1, NothingTrims DEF At
<1>10. QED
  BY <1>1, <1>4, <1>5, <1>6, <1>7, <1>8, <1>9, ClickMoves DEF Types

LEMMA ServeKeeps ==
    ASSUME IInv, NEW c \in Clicks, Serve(c)
    PROVE  IInv'
<1> DEFINE t == IF Outward THEN Collect(task[c], c)
                ELSE Stage(task[c], c, task[c].kind, task[c].value)
<1>1. /\ At(c, "post") /\ serving = None /\ serving' = c /\ Become(c, t)
      /\ UNCHANGED <<backend, staged, endless, button, command, history>>
      /\ ~At(c, "idle") /\ ~At(c, "end")
  BY DEF Serve, Free, At
<1>2. /\ t \in Task
      /\ Outward => t.pc = "read" /\ t.value = None
      /\ ~Outward => t.pc \in {"clear", "write"} /\ t.value # None
  <2>1. CASE Outward
    BY <1>1, <2>1, ClickOf, CollectTyped
  <2>2. CASE ~Outward
    <3>1. task[c].value # None /\ task[c].value \in Value /\ task[c].kind \in Kinds
      BY <1>1, <2>2, ClickOf DEF ClickFits, At, Task
    <3>2. QED
      BY <1>1, <2>2, <3>1, ClickOf, StageTyped
  <2>3. QED
    BY <2>1, <2>2
<1> HIDE DEF t
<1>3. TaskFits(t) /\ ClickFits(t) /\ t.pc \in InRequest
  BY <1>2 DEF TaskFits, ClickFits, Staging, Reading, InRequest
<1>4. ServesOne'
  <2>1. task'[c] = t /\ \A d \in Clicks : d # c => task'[d] = task[d]
    BY <1>1, <1>2, ClickOf, ActorsAre, Becomes DEF Types
  <2>2. \A d \in Clicks : task[d].pc \notin InRequest
    BY <1>1, ClickOf, ActorsAre DEF ServesOne
  <2>3. QED
    BY <1>1, <1>3, <2>1, <2>2 DEF ServesOne
<1>5. QED
  BY <1>1, <1>2, <1>3, <1>4, ClickOf, NothingTrims, ClickMoves

\* The request of a click ends.
LEMMA RequestEnds ==
    ASSUME IInv, NEW c \in Clicks, serving = c, serving' = None,
           NEW t \in Task, Become(c, t), t.pc \notin InRequest
    PROVE  ServesOne'
<1>1. Types /\ ServesOne /\ c \in Actors
  BY ActorsAre DEF IInv
<1>2. task'[c] = t /\ \A d \in Clicks : d # c => task'[d] = task[d]
  BY <1>1, ActorsAre, Becomes DEF Types
<1>3. \A d \in Clicks : d # c => task[d].pc \notin InRequest
  BY <1>1 DEF ServesOne
<1>4. QED
  BY <1>2, <1>3, ActorsAre DEF ServesOne

LEMMA AcknowledgeHistory ==
    ASSUME Types, NEW c \in Clicks, Acknowledge(c)
    PROVE  history' \in History /\ history'.got = history.got /\ history'.cut = history.cut
<1> DEFINE b == history.answered \/
          /\ task[c].kind = "value"
          /\ task[Cli].pc \in {"asked", "wait", "marker"}
          /\ Home(Cli) = "key" \/ Home(c) = "file"
<1>1. b \in BOOLEAN
  OBVIOUS
<1>2. history' = [history EXCEPT !.answered = b] /\ history \in History
  BY DEF Acknowledge, Types
<1> HIDE DEF b
<1>3. QED
  BY <1>1, <1>2 DEF History

LEMMA AcknowledgeKeeps ==
    ASSUME IInv, NEW c \in Clicks, Acknowledge(c)
    PROVE  IInv'
<1> DEFINE t == [task[c] EXCEPT !.pc = "done"]
<1>1. /\ serving = c /\ At(c, "back") /\ ~Outward /\ serving' = None /\ Become(c, t)
      /\ UNCHANGED <<backend, staged, endless, button, command>>
      /\ ~At(c, "idle") /\ ~At(c, "end")
  BY DEF Acknowledge, Go, At
<1>2. t \in Task /\ t.pc = "done" /\ t.value = task[c].value
  BY <1>1, ClickOf, PcTyped DEF Steps
<1> HIDE DEF t
<1>3. TaskFits(t) /\ ClickFits(t) /\ t.pc \notin InRequest
  BY <1>1, <1>2, ClickOf DEF TaskFits, ClickFits, Staging, Reading, InRequest, At
<1>4. ServesOne'
  BY <1>1, <1>2, <1>3, RequestEnds
<1>5. QED
  BY <1>1, <1>2, <1>3, <1>4, ClickOf, AcknowledgeHistory, NothingTrims, ClickMoves

LEMMA AfterFailureTyped ==
    ASSUME IInv, NEW c \in Clicks, ~At(c, "idle")
    PROVE  /\ AfterFailure(c) \in Task
           /\ AfterFailure(c).pc \in {"post", "done"}
           /\ TaskFits(AfterFailure(c)) /\ ClickFits(AfterFailure(c))
<1> DEFINE t == AfterFailure(c)
<1>1. task[c] \in Task /\ (~Outward => task[c].value # None)
  BY ClickOf DEF ClickFits, At
<1>2. CASE Runs("ceremony") /\ ~task[c].value.caught
  <2>1. ~Outward /\ task[c].value \in Value
    BY <1>1, <1>2 DEF Runs, Outward, Task
  <2> DEFINE v == [task[c].value EXCEPT !.ok = FALSE, !.caught = TRUE]
  <2>2. v \in Value
    BY <2>1 DEF Value
  <2>3. t = [task[c] EXCEPT !.pc = "post", !.value = v]
    BY <1>1, <1>2, <2>1 DEF AfterFailure, Task, Value
  <2> HIDE DEF v, t
  <2>4. t \in Task /\ t.pc = "post" /\ t.value = v
    BY <1>1, <2>2, <2>3 DEF Task, Steps
  <2>5. t.value # None
    BY <2>2, <2>4, NoneIsNoValue
  <2>6. TaskFits(t) /\ ClickFits(t)
    BY <2>1, <2>4, <2>5 DEF TaskFits, ClickFits, Staging, Reading
  <2>7. QED
    BY <2>4, <2>6 DEF t
<1>3. CASE ~(Runs("ceremony") /\ ~task[c].value.caught)
  <2>1. t = [task[c] EXCEPT !.pc = "done"]
    BY <1>3 DEF AfterFailure
  <2> HIDE DEF t
  <2>2. t \in Task /\ t.pc = "done" /\ t.value = task[c].value
    BY <1>1, <2>1, PcTyped DEF Steps
  <2>3. TaskFits(t) /\ ClickFits(t)
    BY <1>1, <2>2 DEF TaskFits, ClickFits, Staging, Reading
  <2>4. QED
    BY <2>2, <2>3 DEF t
<1>4. QED
  BY <1>2, <1>3

LEMMA RefuseKeeps ==
    ASSUME IInv, NEW c \in Clicks, Refuse(c)
    PROVE  IInv'
<1> DEFINE t == AfterFailure(c)
<1>1. /\ serving = c /\ At(c, "raised") /\ serving' = None /\ Become(c, t)
      /\ UNCHANGED <<backend, staged, endless, button, command, history>>
      /\ ~At(c, "idle") /\ ~At(c, "end")
  BY DEF Refuse, At
<1>2. t \in Task /\ t.pc \in {"post", "done"} /\ TaskFits(t) /\ ClickFits(t)
  BY <1>1, AfterFailureTyped
<1> HIDE DEF t
<1>3. ServesOne'
  BY <1>1, <1>2, RequestEnds DEF InRequest, Staging, Reading
<1>4. QED
  BY <1>1, <1>2, <1>3, ClickOf, NothingTrims, ClickMoves

\* The click has it, and was the only one that could.
LEMMA HandOverKeeps ==
    ASSUME IInv, NEW c \in Clicks, HandOver(c)
    PROVE  IInv'
<1>1. /\ serving = c /\ At(c, "back") /\ Outward /\ serving' = None
      /\ UNCHANGED <<backend, staged, endless, button, command>>
      /\ ~At(c, "idle") /\ ~At(c, "end")
  BY DEF HandOver, At
<1>2. PICK pc \in {"done", "delivered", "holding"} :
        /\ Go(c, pc)
        /\ \/ history' = history
           \/ history' = [history EXCEPT !.lost = TRUE]
           \/ history' = [history EXCEPT !.got = @ \cup {c}] /\ task[c].value # None
  BY DEF HandOver
<1> DEFINE t == [task[c] EXCEPT !.pc = pc]
<1>3. Become(c, t) /\ t \in Task /\ t.pc = pc /\ t.value = task[c].value
  BY <1>1, <1>2, ClickOf, PcTyped DEF Go, Steps
<1>4. TaskFits(t) /\ ClickFits(t) /\ t.pc \notin InRequest
  BY <1>1, <1>3 DEF TaskFits, ClickFits, Staging, Reading, InRequest
<1> HIDE DEF t
<1>5. ServesOne'
  BY <1>1, <1>3, <1>4, RequestEnds
<1>6. CASE history' = history \/ history' = [history EXCEPT !.lost = TRUE]
  <2>1. history' \in History /\ history'.got = history.got /\ history'.cut = history.cut
    BY <1>1, <1>6, ClickOf DEF History
  <2>2. QED
    BY <1>1, <1>3, <1>4, <1>5, <2>1, ClickOf, NothingTrims, ClickMoves
<1>7. CASE history' = [history EXCEPT !.got = @ \cup {c}] /\ task[c].value # None
  <2>1. /\ Types /\ Begins /\ Fits /\ OnceInv /\ KeysInv /\ button /\ c # Cli /\ c \in Actors
        /\ ServesOne
    BY <1>1, ClickOf DEF IInv
  <2>2. /\ task' \in [Actors -> Task] /\ task'[c] = t /\ task'[Cli] = task[Cli]
        /\ \A b \in Actors : b # c => task'[b] = task[b]
        /\ \A d \in Clicks : d # c => task'[d] = task[d]
    BY <1>3, <2>1, ActorsAre, Becomes DEF Types
  <2>3. HasIt(c) /\ NotStaged /\ history.got = {}
    BY <1>1, <1>7, <2>1 DEF HasIt, OnceInv, OnceStaged, OnceTaken
  <2>4. history' \in History /\ history'.got = {c} /\ history'.cut = history.cut
    BY <1>7, <2>1, <2>3 DEF History, Types
  <2>5. Types' /\ Trims /\ Outward' = Outward
    BY <1>1, <2>1, <2>2, <2>4, NothingTrims DEF Types, Outward
  <2>6. Begins'
    BY <1>1, <2>1, <2>2, <2>5 DEF Begins, At
  <2>7. Fits'
    <3>1. ASSUME NEW b \in Actors PROVE TaskFits(task[b])'
      BY <1>4, <2>1, <2>2 DEF Fits, TaskFits
    <3>2. ASSUME NEW d \in Clicks PROVE ClickFits(task[d])'
      BY <1>4, <2>1, <2>2, <2>5 DEF Fits, ClickFits
    <3>3. QED
      BY <3>1, <3>2 DEF Fits
  <2>8. OnceInv'
    <3>1. CollectedOnce' /\ Outward'
      BY <1>1, <2>4, <2>5 DEF CollectedOnce
    <3>2. NotStaged' /\ OnceBefore'
      BY <1>1, <2>1, <2>2, <2>3 DEF NotStaged, OnceInv, OnceBefore
    <3>3. OnceStaged'
      BY <3>2 DEF OnceStaged, NotStaged, Homes
    <3>4. ASSUME NEW d \in Clicks PROVE OnceTaken(d)'
      <4>1. d # c => task[d].pc \notin InRequest
        BY <1>1, <2>1 DEF ServesOne
      <4>2. task'[d].pc \notin InRequest
        BY <1>4, <2>2, <4>1
      <4>3. QED
        BY <4>2 DEF OnceTaken, HasIt, At, InRequest, Reading
    <3>5. QED
      BY <3>1, <3>2, <3>3, <3>4 DEF OnceInv
  <2>9. KeysInv'
    BY <1>1, <2>1, <2>2, <2>4, <2>5, KeysStay DEF At
  <2>10. QED
    BY <1>5, <2>5, <2>6, <2>7, <2>8, <2>9 DEF IInv
<1>8. QED
  BY <1>2, <1>6, <1>7

LEMMA WriteKeeps ==
    ASSUME IInv, NEW c \in Clicks, Write(c)
    PROVE  IInv'
<1>1. task[c].pc \notin InRequest /\ ~At(c, "idle")
  BY DEF Write, InRequest, Staging, Reading, At
<1>2. "delivered" \in Steps \ (InRequest \cup {"idle"})
  BY DEF Steps, InRequest, Staging, Reading
<1>3. QED
  BY <1>1, <1>2, ClickOf, ClickGoes DEF Write

LEMMA WriteRefusedKeeps ==
    ASSUME IInv, NEW c \in Clicks, WriteRefused(c)
    PROVE  IInv'
<1>1. task[c].pc \notin InRequest /\ ~At(c, "idle")
  BY DEF WriteRefused, InRequest, Staging, Reading, At
<1>2. "offered" \in Steps \ (InRequest \cup {"idle"})
  BY DEF Steps, InRequest, Staging, Reading
<1>3. QED
  BY <1>1, <1>2, ClickOf, ClickGoes DEF WriteRefused, AfterRetries

LEMMA CloseKeeps ==
    ASSUME IInv, NEW c \in Clicks, Close(c)
    PROVE  IInv'
<1>1. task[c].pc \notin InRequest /\ ~At(c, "idle")
  BY DEF Close, InRequest, Staging, Reading, At
<1>2. "done" \in Steps \ (InRequest \cup {"idle"})
  BY DEF Steps, InRequest, Staging, Reading
<1>3. history' \in History /\ history'.got = history.got /\ history'.cut = history.cut
  BY <1>1, ClickOf DEF Close, History
<1>4. QED
  BY <1>1, <1>2, <1>3, ClickGoes DEF Close

LEMMA PageStepKeeps ==
    ASSUME IInv, NEW c \in Clicks, PageStep(c)
    PROVE  IInv'
BY ActorsAre, RelayStepKeeps, PressKeeps, ServeKeeps, AcknowledgeKeeps, RefuseKeeps,
   HandOverKeeps, WriteKeeps, WriteRefusedKeeps, CloseKeeps DEF PageStep

LEMMA RestartKeeps ==
    ASSUME IInv, NEW home \in Homes, Restart(home)
    PROVE  IInv'
<1>1. /\ Types /\ ServesOne /\ Begins /\ serving' = None
      /\ UNCHANGED <<staged, endless, button, command>>
      /\ button \in BOOLEAN /\ command \in Command
  BY CommandOf DEF IInv, Restart
<1>2. backend' \in [command : Homes, server : Homes]
  BY <1>1 DEF Types, Restart
<1>3. CASE serving = None
  <2>1. ServesOne' /\ UNCHANGED <<task, history>>
    BY <1>1, <1>3 DEF Restart, ServesOne
  <2>2. QED
    BY <1>1, <1>2, <2>1, NothingTrims, RestMoves DEF Types
<1>4. CASE serving # None
  <2>1. PICK c \in Clicks : serving = c
    BY <1>1, <1>4 DEF Types
  <2>2. task[c].pc \in InRequest /\ ~At(c, "idle")
    BY <1>1, <2>1 DEF ServesOne, InRequest, Staging, Reading, At
  <2> DEFINE t == AfterFailure(c)
  <2>3. Become(c, t)
    BY <1>4, <2>1 DEF Restart
  <2>4. t \in Task /\ t.pc \in {"post", "done"} /\ TaskFits(t) /\ ClickFits(t)
    BY <2>2, AfterFailureTyped
  <2> HIDE DEF t
  <2>5. ServesOne'
    BY <1>1, <2>1, <2>3, <2>4, RequestEnds DEF InRequest, Staging, Reading
  <2>6. /\ history' \in History /\ history'.got = history.got
        /\ history'.cut <=> history.cut \/ At(c, "end")
    <3>1. (history.cut \/ At(c, "end")) \in BOOLEAN
      OBVIOUS
    <3>2. /\ history' = [history EXCEPT !.lost = TRUE, !.cut = history.cut \/ At(c, "end")]
          /\ history \in History
      BY <1>1, <1>4, <2>1 DEF Restart, Types
    <3>3. QED
      BY <3>1, <3>2 DEF History
  <2>7. button
    BY <2>2, Pressed
  <2>8. QED
    BY <1>1, <1>2, <2>3, <2>4, <2>5, <2>6, <2>7, NothingTrims, ClickMoves
<1>5. QED
  BY <1>3, <1>4

LEMMA KeyEndsKeeps ==
    ASSUME IInv, NEW kind \in Kinds, KeyEnds(kind)
    PROVE  IInv'
<1>1. /\ Types /\ ServesOne /\ command \in Command
      /\ UNCHANGED <<backend, endless, serving, button, command, task>>
      /\ staged' = [staged EXCEPT !["key"][kind] = None] /\ kind \notin endless
  BY CommandOf DEF IInv, KeyEnds
<1>2. Trims
  BY <1>1 DEF Types, Trims, Homes, Kinds
<1>3. history' \in History /\ history'.got = history.got /\ history'.cut = history.cut
  BY <1>1 DEF KeyEnds, Types, History
<1>4. ServesOne'
  BY <1>1 DEF ServesOne
<1>5. QED
  BY <1>1, <1>2, <1>3, <1>4, RestMoves DEF Types

-----------------------------------------------------------------------------
(* The theorems.                                                           *)

LEMMA Initially ==
    ASSUME Init
    PROVE  IInv
<1>1. Types
  BY ActorsAre, IdleTyped DEF Init, Types, Command, History, Kinds
<1>2. \A a \in Actors : task[a].pc = "idle"
  BY DEF Init, Idle
<1>3. ServesOne
  BY <1>2, ActorsAre DEF Init, ServesOne, InRequest, Staging, Reading
<1>4. NotStaged
  BY DEF Init, NotStaged, Kinds
<1>5. Begins
  BY <1>2, <1>4, ActorsAre DEF Init, Begins, At, Reading
<1>6. Fits
  BY <1>2, ActorsAre DEF Fits, TaskFits, ClickFits, Staging, Reading
<1>7. OnceInv
  <2>1. ~Outward
    BY ConstantsAssumption DEF Init, Outward, CommandNames
  <2>2. QED
    BY <2>1 DEF Init, OnceInv, CollectedOnce
<1>8. KeysInv
  BY DEF Init, KeysInv
<1>9. QED
  BY <1>1, <1>3, <1>5, <1>6, <1>7, <1>8 DEF IInv

LEMMA Step ==
    ASSUME IInv, [Next]_vars
    PROVE  IInv'
<1>1. CASE UNCHANGED vars
  <2>1. UNCHANGED <<backend, staged, endless, serving, button, command, task, history>>
    BY <1>1 DEF vars
  <2>2. Types /\ ServesOne /\ Trims
    BY <2>1, CommandOf, NothingTrims DEF IInv
  <2>3. Types' /\ ServesOne'
    BY <2>1, <2>2 DEF Types, ServesOne
  <2>4. QED
    BY <2>1, <2>2, <2>3, RestMoves DEF Types
<1>2. CASE Next
  BY <1>2, StartKeeps, CommandStepKeeps, TriggerFailsKeeps, TimeUpKeeps, StopKeeps, KillKeeps,
     PageStepKeeps, RestartKeeps, KeyEndsKeeps DEF Next
<1>3. QED
  BY <1>1, <1>2

\* The inductive invariant.
THEOREM Invariance == Spec => []IInv
<1>1. Init => IInv
  BY Initially
<1>2. IInv /\ [Next]_vars => IInv'
  BY Step
<1>3. QED
  BY <1>1, <1>2, PTL DEF Spec

\* The state has its types, and a request that runs is that of the click served.
THEOREM Typed == Spec => []TypeOK
<1>1. IInv => TypeOK
  BY DEF IInv, TypeOK, Types, ServesOne, InRequest, Staging, Reading
<1>2. QED
  BY <1>1, Invariance, PTL

\* A secret is given to one click at most, for any number of presses, in either home, with
\* any restart, refusal or race of a click with the command.
THEOREM AlwaysCollectedOnce == Spec => []CollectedOnce
<1>1. IInv => CollectedOnce
  BY DEF IInv, OnceInv
<1>2. QED
  BY <1>1, Invariance, PTL

\* No failure but a writer's death leaves a key that never ends.
THEOREM KeysAlwaysEnd == Spec => []KeysHaveEnds
<1>1. IInv => KeysHaveEnds
  BY DEF IInv, KeysInv, KeysHaveEnds
<1>2. QED
  BY <1>1, Invariance, PTL


-----------------------------------------------------------------------------
(* What a command says, leaves and loses.                                  *)

Failed == command.result \in {"unasked", "failed", "timeout"}

\* From the end of its `stage` to the end of its wait.
Live == task[Cli].pc \in {"back", "trigger", "asked", "wait"}

\* Only a command that hands something out stages; the button comes after all that;
\* a result ends the work but for the `finally`.
Course ==
    /\ task[Cli].pc \in Staging =>
         /\ Outward
         /\ task[Cli].kind = "value"
         /\ task[Cli].value.by = Cli /\ ~task[Cli].value.caught
    /\ task[Cli].pc \in {"marker", "refer"} => Runs("passphrase")
    /\ task[Cli].pc \in {"idle", "trigger"} \cup Staging => ~button
    /\ Outward /\ task[Cli].pc \in {"back", "raised"} => ~button
    /\ command.result # None => task[Cli].pc \in {"unwind", "done", "dead"}

\* A writer is in the home its process has.
InHome ==
    \A a \in Actors :
        /\ task[a].pc \in {"clear", "add", "end"} => Home(a) = "key"
        /\ task[a].pc = "write" => Home(a) = "file"

CourseInv == Course /\ InHome

\* A click has the secret, or has read it.
Has(c) ==
    /\ task[c].pc \in {"unlink", "back", "holding", "offered", "delivered"}
    /\ task[c].value # None

Kept == history.lost \/ ~NotStaged \/ \E c \in Clicks : Has(c)

\* The secret is due to be somewhere.
Due == Live \/ (button /\ ~Failed)

\* The command is about to raise, to end after it saw the secret go, or has failed and ended.
Empty ==
    \/ task[Cli].pc = "raised"
    \/ task[Cli].pc = "unwind" /\ ~Failed
    \/ task[Cli].pc = "done" /\ Failed

\* What is staged is the command's own and in the home it looks into, so that it finds it
\* gone only when it is gone, and removes all there is.
Outgoing ==
    Outward =>
        /\ \A home \in Homes :
             staged[home]["value"] # None =>
                 /\ home = Home(Cli)
                 /\ staged[home]["value"].by = Cli /\ ~staged[home]["value"].caught
        /\ \A c \in Clicks : At(c, "unlink") => task[c].seen.by = Cli
        /\ Empty => NotStaged
        /\ Due => Kept
        /\ Runs("block") /\ Live => history.consumed \/ ~NotStaged
        /\ Runs("block") /\ command.result = "posted" => history.consumed

\* A file stays until the command removes it; a key that ran out was put there.
Remains ==
    /\ \A home \in Homes : staged[home]["value"] # None => home \in history.put
    /\ command.result = "reference" => command.reference \in history.put
    /\ task[Cli].pc = "refer" =>
         \/ staged["file"]["value"] # None
         \/ Home(Cli) = "key" /\ "key" \in history.put
    /\ task[Cli].pc = "done" /\ command.result # "unasked" => ~ResultLeft

Waiting == task[Cli].pc \in {"asked", "wait", "marker"}

Excused == history.lost \/ \E c, d \in history.clicks : c # d

\* While the command waits, what a click has staged is there to be seen: the click that was
\* told so has ended, so another one removes it.
Answers ==
    /\ \A c \in Clicks : ~At(c, "idle") => c \in history.clicks
    /\ history.answered => \E d \in Clicks : At(d, "done")
    /\ ~Outward /\ Waiting /\ ~Excused =>
         /\ history.answered => Exists("value")
         /\ \A c \in Clicks :
              At(c, "back") /\ task[c].kind = "value" => staged[Home(c)]["value"] # None
    /\ AnswerIsSeen

-----------------------------------------------------------------------------
(* The course of the command.                                              *)

LEMMA RelayStepIs ==
    ASSUME IInv, NEW a \in Actors, RelayStep(a)
    PROVE  /\ UNCHANGED <<backend, serving, button, command>>
           /\ task[a].pc \in Staging \cup Reading
           /\ task' \in [Actors -> Task]
           /\ task'[a].pc \in InRequest
           /\ task[a].pc \in Staging => task'[a].pc \in Staging \cup {"back", "raised"}
           /\ task[a].pc \in Reading => task'[a].pc \in Reading \cup {"back", "raised"}
           /\ task'[a].pc = "add" => task[a].pc = "clear"
           /\ task'[a].pc = "end" => task[a].pc = "add"
           /\ task'[a].pc \notin {"clear", "write"}
           /\ task[a].pc \in Staging =>
                task'[a].kind = task[a].kind /\ task'[a].value = task[a].value
           /\ \A b \in Actors : b # a => task'[b] = task[b]
<1>1. task \in [Actors -> Task] /\ task' \in [Actors -> Task] /\ task[a] \in Task
  BY TaskOf, RelayStepKeeps DEF IInv, Types
<1>2. UNCHANGED <<backend, serving, button, command>>
  BY DEF RelayStep, StageClear, StageAdd, StageEnd, StageEndRefused, StageWrite, StageRefused,
         CollectRead, CollectNothing, CollectRefused, CollectUnlink
<1>3. PICK t : Become(a, t)
  BY DEF RelayStep, StageClear, StageAdd, StageEnd, StageEndRefused, StageWrite, StageRefused,
         CollectRead, CollectNothing, CollectRefused, CollectUnlink, Go
<1>4. \A b \in Actors : b # a => task'[b] = task[b]
  BY <1>1, <1>3 DEF Become
<1> USE DEF Go, Become, At, Task, Staging, Reading, InRequest
<1>5. CASE StageClear(a)
  BY <1>1, <1>2, <1>4, <1>5 DEF StageClear
<1>6. CASE StageAdd(a)
  BY <1>1, <1>2, <1>4, <1>6 DEF StageAdd
<1>7. CASE StageEnd(a)
  BY <1>1, <1>2, <1>4, <1>7 DEF StageEnd
<1>8. CASE StageEndRefused(a)
  BY <1>1, <1>2, <1>4, <1>8 DEF StageEndRefused
<1>9. CASE StageWrite(a)
  BY <1>1, <1>2, <1>4, <1>9 DEF StageWrite
<1>10. CASE StageRefused(a)
  BY <1>1, <1>2, <1>4, <1>10 DEF StageRefused
<1>11. CASE CollectRead(a)
  BY <1>1, <1>2, <1>4, <1>11 DEF CollectRead
<1>12. CASE CollectNothing(a)
  BY <1>1, <1>2, <1>4, <1>12 DEF CollectNothing
<1>13. CASE CollectRefused(a)
  BY <1>1, <1>2, <1>4, <1>13 DEF CollectRefused
<1>14. CASE CollectUnlink(a)
  BY <1>1, <1>2, <1>4, <1>14 DEF CollectUnlink
<1>15. QED
  BY <1>5, <1>6, <1>7, <1>8, <1>9, <1>10, <1>11, <1>12, <1>13, <1>14 DEF RelayStep

\* What a step of the page's side leaves alone.
LEMMA PageStepIs ==
    ASSUME IInv, NEW c \in Clicks, PageStep(c)
    PROVE  /\ UNCHANGED <<backend, button, command>>
           /\ task'[Cli] = task[Cli]
           /\ \A b \in Actors : b # c => task'[b] = task[b]
<1>1. task \in [Actors -> Task] /\ c \in Actors /\ c # Cli /\ Cli \in Actors
  BY ActorsAre DEF IInv, Types
<1>2. UNCHANGED <<backend, button, command>>
  BY <1>1, RelayStepIs DEF PageStep, Press, Serve, Acknowledge, Refuse, HandOver, Write,
         WriteRefused, Close
<1>3. CASE RelayStep(c)
  BY <1>1, <1>2, <1>3, RelayStepIs
<1>4. CASE ~RelayStep(c)
  <2>1. PICK t : Become(c, t)
    BY <1>4 DEF PageStep, Press, Serve, Acknowledge, Refuse, HandOver, Write,
         WriteRefused, Close, Go
  <2>2. QED
    BY <1>1, <1>2, <2>1 DEF Become
<1>5. QED
  BY <1>3, <1>4

LEMMA CourseStays ==
    ASSUME Course, task'[Cli] = task[Cli], button' = button,
           command'.name = command.name, command'.result = command.result
    PROVE  Course'
BY DEF Course, Outward, Runs

LEMMA InHomeStays ==
    ASSUME InHome, NEW a, \A b \in Actors : b # a => task'[b] = task[b],
           UNCHANGED backend,
           task'[a].pc = "add" => task[a].pc = "clear",
           task'[a].pc = "end" => task[a].pc = "add",
           task'[a].pc \notin {"clear", "write"}
    PROVE  InHome'
BY DEF InHome, Home


\* A step of the command that is not one of its calls: what it leaves alone, and the step
\* it goes to.
LEMMA CommandGoesOn ==
    ASSUME IInv,
           StageReturns \/ Trigger \/ Triggered \/ SeeAnswer \/ LookForMarker \/ ReadMarker
             \/ SeeGone \/ Timeout \/ CollectReturns \/ PrintReference \/ Unwind
             \/ TriggerFails \/ Stop
    PROVE  /\ UNCHANGED <<backend, serving, history>>
           /\ task \in [Actors -> Task] /\ command \in Command
           /\ \A b \in Actors : b # Cli => task'[b] = task[b]
           /\ \A c \in Clicks : task'[c] = task[c]
           /\ command'.name = command.name
<1>1. /\ task \in [Actors -> Task] /\ command \in Command
      /\ Cli \in Actors /\ \A c \in Clicks : c \in Actors /\ c # Cli
  BY ActorsAre DEF IInv, Types
<1>2. UNCHANGED <<backend, serving, history>>
  BY DEF StageReturns, Trigger, Triggered, SeeAnswer, LookForMarker, ReadMarker, SeeGone,
         Timeout, CollectReturns, PrintReference, Unwind, TriggerFails, Stop
<1>3. PICK t : Become(Cli, t)
  BY DEF StageReturns, Trigger, Triggered, SeeAnswer, LookForMarker, ReadMarker, SeeGone,
         Timeout, CollectReturns, PrintReference, Unwind, TriggerFails, Stop, Go
<1>4. command'.name = command.name
  BY <1>1 DEF StageReturns, Trigger, Triggered, SeeAnswer, LookForMarker, ReadMarker, SeeGone,
         Timeout, CollectReturns, PrintReference, Unwind, TriggerFails, Stop, End, Command
<1>5. QED
  BY <1>1, <1>2, <1>3, <1>4 DEF Become

LEMMA CourseGoesOn ==
    ASSUME IInv, Course,
           StageReturns \/ Trigger \/ Triggered \/ SeeAnswer \/ LookForMarker \/ ReadMarker
             \/ SeeGone \/ Timeout \/ CollectReturns \/ PrintReference \/ Unwind
             \/ TriggerFails \/ Stop
    PROVE  /\ Course'
           /\ task'[Cli].pc \notin Staging
<1>1. /\ task \in [Actors -> Task] /\ command \in Command /\ command'.name = command.name
      /\ Cli \in Actors /\ task[Cli] \in Task
  BY CommandOf, CommandGoesOn
<1>2. Outward' = Outward /\ \A n : Runs(n)' = Runs(n)
  BY <1>1 DEF Outward, Runs
<1> USE DEF Course, Go, Become, At, End, Command, Task, Staging, Outward, Runs
<1>3. CASE StageReturns
  BY <1>1, <1>2, <1>3 DEF StageReturns
<1>4. CASE Trigger
  BY <1>1, <1>2, <1>4 DEF Trigger
<1>5. CASE Triggered
  BY <1>1, <1>2, <1>5 DEF Triggered
<1>6. CASE SeeAnswer
  <2>1. /\ At(Cli, "wait") /\ ~Outward /\ UNCHANGED <<button, command>>
        /\ task'[Cli].pc = "read" \/ (task'[Cli].pc = "refer" /\ Runs("passphrase"))
    <3>1. CASE Runs("passphrase")
      BY <1>1, <1>6, <3>1 DEF SeeAnswer, Go, Become, Task
    <3>2. CASE ~Runs("passphrase")
      <4>1. Collect(task[Cli], Cli).pc = "read"
        BY <1>1, CommandOf, CollectTyped DEF Types
      <4>2. QED
        BY <1>1, <1>6, <3>2, <4>1 DEF SeeAnswer, Become
    <3>3. QED
      BY <3>1, <3>2
  <2>2. QED
    BY <1>1, <1>2, <2>1 DEF Course, At, Staging
<1>7. CASE LookForMarker
  BY <1>1, <1>2, <1>7 DEF LookForMarker
<1>8. CASE ReadMarker
  BY <1>1, <1>2, <1>8 DEF ReadMarker
<1>9. CASE SeeGone
  BY <1>1, <1>2, <1>9 DEF SeeGone
<1>10. CASE Timeout
  BY <1>1, <1>2, <1>10 DEF Timeout
<1>11. CASE CollectReturns
  BY <1>1, <1>2, <1>11 DEF CollectReturns
<1>12. CASE PrintReference
  BY <1>1, <1>2, <1>12 DEF PrintReference
<1>13. CASE Unwind
  BY <1>1, <1>2, <1>13 DEF Unwind
<1>14. CASE TriggerFails
  BY <1>1, <1>2, <1>14 DEF TriggerFails, UndoesTrigger
<1>15. CASE Stop
  BY <1>1, <1>2, <1>15 DEF Stop
<1>16. QED
  BY <1>3, <1>4, <1>5, <1>6, <1>7, <1>8, <1>9, <1>10, <1>11, <1>12, <1>13, <1>14, <1>15

LEMMA CourseOfCall ==
    ASSUME IInv, Course, RelayStep(Cli)
    PROVE  Course'
<1>1. /\ UNCHANGED <<button, command>>
      /\ task[Cli].pc \in Staging =>
           /\ task'[Cli].pc \in Staging \cup {"back", "raised"}
           /\ task'[Cli].kind = task[Cli].kind /\ task'[Cli].value = task[Cli].value
      /\ task[Cli].pc \in Reading => task'[Cli].pc \in Reading \cup {"back", "raised"}
      /\ task[Cli].pc \in Staging \cup Reading
  BY CommandOf, RelayStepIs
<1>2. Outward => task[Cli].pc \notin Reading
  BY DEF IInv, Begins
<1>3. QED
  BY <1>1, <1>2 DEF Course, Outward, Runs, Staging, Reading

\* What a command begins with.
LEMMA StartsWith ==
    ASSUME IInv, NEW name \in Names, Start(name)
    PROVE  /\ command'.name = name /\ command'.result = command.result
           /\ task'[Cli].pc \in {"trigger", "clear", "write"}
           /\ Outward' <=> task'[Cli].pc # "trigger"
           /\ Outward' => task'[Cli].kind = "value" /\ task'[Cli].value = Secret
           /\ task'[Cli].pc = "clear" => Home(Cli) = "key"
           /\ task'[Cli].pc = "write" => Home(Cli) = "file"
           /\ \A b \in Actors : b # Cli => task'[b] = task[b]
<1> DEFINE t == IF name \in {"ceremony", "passphrase"}
                THEN [Idle EXCEPT !.pc = "trigger"] ELSE Stage(Idle, Cli, "value", Secret)
<1>1. /\ Types /\ Become(Cli, t) /\ command' = [command EXCEPT !.name = name]
      /\ command \in Command /\ Cli \in Actors /\ name \in CommandNames
  BY CommandOf, ConstantsAssumption DEF Start
<1>2. command'.name = name /\ command'.result = command.result
  BY <1>1 DEF Command
<1>3. /\ t.pc \in {"trigger", "clear", "write"}
      /\ Outward' <=> t.pc # "trigger"
      /\ Outward' => t.kind = "value" /\ t.value = Secret
      /\ t.pc = "clear" => Home(Cli) = "key"
      /\ t.pc = "write" => Home(Cli) = "file"
  <2>1. CASE name \in {"ceremony", "passphrase"}
    BY <1>2, <2>1 DEF Idle, Outward
  <2>2. CASE name \notin {"ceremony", "passphrase"}
    <3>1. Outward'
      BY <1>1, <1>2, <2>2 DEF Outward, CommandNames
    <3>2. backend.command \in Homes
      BY <1>1 DEF Types
    <3>3. QED
      BY <2>2, <3>1, <3>2 DEF Stage, Idle, Home, Homes
  <2>3. QED
    BY <2>1, <2>2
<1> HIDE DEF t
<1>4. task'[Cli] = t /\ \A b \in Actors : b # Cli => task'[b] = task[b]
  BY <1>1 DEF Types, Become
<1>5. QED
  BY <1>2, <1>3, <1>4

LEMMA CourseOfStart ==
    ASSUME IInv, CourseInv, NEW name \in Names, Start(name)
    PROVE  CourseInv'
<1>1. /\ At(Cli, "idle") /\ UNCHANGED <<backend, button>> /\ ~button
      /\ command.result = None
  BY DEF IInv, Begins, Start, CourseInv, Course, At
<1>2. Course'
  BY <1>1, StartsWith DEF Course, Secret, Staging
<1>3. InHome'
  BY <1>1, StartsWith DEF CourseInv, InHome, Home
<1>4. QED
  BY <1>2, <1>3 DEF CourseInv

LEMMA CourseOfServe ==
    ASSUME IInv, InHome, NEW c \in Clicks, Serve(c)
    PROVE  InHome'
<1> DEFINE t == IF Outward THEN Collect(task[c], c)
                ELSE Stage(task[c], c, task[c].kind, task[c].value)
<1>1. /\ Types /\ Become(c, t) /\ UNCHANGED backend /\ c \in Actors /\ task[c] \in Task
      /\ backend \in [command : Homes, server : Homes]
  BY ActorsAre DEF IInv, Serve, Types
<1>2. /\ t.pc \in {"read", "clear", "write"}
      /\ t.pc = "clear" => Home(c) = "key"
      /\ t.pc = "write" => Home(c) = "file"
  <2>1. CASE Outward
    BY <1>1, <2>1, CollectTyped
  <2>2. CASE ~Outward
    <3>1. Home(c) \in Homes
      BY <1>1 DEF Home
    <3>2. QED
      BY <1>1, <2>2, <3>1 DEF Stage, Homes, Task
  <2>3. QED
    BY <2>1, <2>2
<1> HIDE DEF t
<1>3. task'[c] = t /\ \A b \in Actors : b # c => task'[b] = task[b]
  BY <1>1 DEF Types, Become
<1>4. QED
  BY <1>1, <1>2, <1>3 DEF InHome, Home

LEMMA CourseOfPage ==
    ASSUME IInv, CourseInv, NEW c \in Clicks, PageStep(c)
    PROVE  CourseInv'
<1>1. /\ UNCHANGED <<backend, button, command>> /\ task'[Cli] = task[Cli]
      /\ \A b \in Actors : b # c => task'[b] = task[b]
      /\ c \in Actors /\ task \in [Actors -> Task] /\ task[c] \in Task
  BY ActorsAre, PageStepIs DEF IInv, Types
<1>2. Course'
  BY <1>1, CourseStays DEF CourseInv
<1>3. InHome'
  <2>1. CASE RelayStep(c)
    <3>1. /\ task'[c].pc = "add" => task[c].pc = "clear"
          /\ task'[c].pc = "end" => task[c].pc = "add"
          /\ task'[c].pc \notin {"clear", "write"}
      BY <1>1, <2>1, RelayStepIs
    <3>2. QED
      BY <1>1, <3>1, InHomeStays DEF CourseInv
  <2>2. CASE Serve(c)
    BY <2>2, CourseOfServe DEF CourseInv
  <2>3. CASE ~RelayStep(c) /\ ~Serve(c)
    <3>1. CASE Press(c)
      <4>1. PICK kind, v : Become(c, [Idle EXCEPT !.pc = "post", !.kind = kind, !.value = v])
        BY <3>1 DEF Press
      <4>2. task'[c].pc = "post"
        BY <1>1, <4>1 DEF Become, Idle
      <4>3. QED
        BY <1>1, <4>2, InHomeStays DEF CourseInv
    <3>2. CASE Refuse(c)
      <4>1. AfterFailure(c).pc \in {"post", "done"} /\ Become(c, AfterFailure(c))
        BY <3>2, AfterFailureTyped DEF Refuse, At
      <4>2. task'[c].pc \in {"post", "done"}
        BY <1>1, <4>1 DEF Become
      <4>3. QED
        BY <1>1, <4>2, InHomeStays DEF CourseInv
    <3>3. CASE ~Press(c) /\ ~Refuse(c)
      <4>1. PICK pc \in {"done", "delivered", "holding", "offered"} : Go(c, pc)
        BY <2>3, <3>3 DEF PageStep, Acknowledge, HandOver, Write, WriteRefused, AfterRetries,
               Close
      <4>2. task'[c].pc = pc
        BY <1>1, <4>1 DEF Go, Become, Task
      <4>3. QED
        BY <1>1, <4>2, InHomeStays DEF CourseInv
    <3>4. QED
      BY <3>1, <3>2, <3>3
  <2>4. QED
    BY <2>1, <2>2, <2>3
<1>4. QED
  BY <1>2, <1>3 DEF CourseInv

LEMMA CourseOfRestart ==
    ASSUME IInv, CourseInv, NEW home \in Homes, Restart(home)
    PROVE  CourseInv'
<1>1. /\ Types /\ ServesOne /\ UNCHANGED <<button, command>>
      /\ backend' = [backend EXCEPT !.server = home]
      /\ backend \in [command : Homes, server : Homes]
      /\ task \in [Actors -> Task]
  BY DEF IInv, Types, Restart
<1>2. /\ task'[Cli] = task[Cli]
      /\ \A c \in Clicks : \/ task'[c] = task[c] /\ task[c].pc \notin InRequest
                           \/ task'[c].pc \in {"post", "done"}
  <2>1. CASE serving = None
    BY <1>1, <2>1, ActorsAre DEF Restart, ServesOne
  <2>2. CASE serving # None
    <3>1. PICK d \in Clicks : serving = d
      BY <1>1, <2>2 DEF Types
    <3>2. Become(d, AfterFailure(d)) /\ ~At(d, "idle")
      BY <1>1, <2>2, <3>1 DEF Restart, ServesOne, InRequest, Staging, Reading, At
    <3>3. AfterFailure(d).pc \in {"post", "done"}
      BY <3>2, AfterFailureTyped
    <3>4. \A c \in Clicks : c # d => task[c].pc \notin InRequest
      BY <1>1, <3>1 DEF ServesOne
    <3>5. QED
      BY <1>1, <3>2, <3>3, <3>4, ActorsAre DEF Become
  <2>3. QED
    BY <2>1, <2>2
<1>3. Course'
  BY <1>1, <1>2, CourseStays DEF CourseInv
<1>4. InHome'
  <2>1. ASSUME NEW a \in Actors
        PROVE  /\ task'[a].pc \in {"clear", "add", "end"} => Home(a)' = "key"
               /\ task'[a].pc = "write" => Home(a)' = "file"
    <3>1. CASE a = Cli
      BY <1>1, <1>2, <2>1, <3>1 DEF CourseInv, InHome, Home
    <3>2. CASE a \in Clicks
      BY <1>2, <3>2 DEF InRequest, Staging
    <3>3. QED
      BY <3>1, <3>2 DEF Actors
  <2>2. QED
    BY <2>1 DEF InHome
<1>5. QED
  BY <1>3, <1>4 DEF CourseInv

LEMMA CourseKeeps ==
    ASSUME IInv, CourseInv, [Next]_vars
    PROVE  CourseInv'
<1>1. CASE UNCHANGED vars
  BY <1>1 DEF vars, CourseInv, Course, InHome, Home, Outward, Runs
<1>2. CASE \E name \in Names : Start(name)
  BY <1>2, CourseOfStart
<1>3. CASE RelayStep(Cli)
  <2>1. Course'
    BY <1>3, CourseOfCall DEF CourseInv
  <2>2. InHome'
    BY <1>3, CommandOf, RelayStepIs, InHomeStays DEF CourseInv
  <2>3. QED
    BY <2>1, <2>2 DEF CourseInv
<1>4. CASE \/ CommandStep /\ ~RelayStep(Cli)
           \/ TriggerFails \/ Stop
  <2>1. /\ UNCHANGED backend /\ Course' /\ task'[Cli].pc \notin Staging
        /\ \A b \in Actors : b # Cli => task'[b] = task[b]
    BY <1>4, CommandGoesOn, CourseGoesOn DEF CourseInv, CommandStep
  <2>2. InHome'
    BY <2>1, InHomeStays DEF CourseInv, Staging
  <2>3. QED
    BY <2>1, <2>2 DEF CourseInv
<1>5. CASE Kill
  <2>1. /\ UNCHANGED <<backend, button, command>> /\ task'[Cli].pc = "dead"
        /\ \A b \in Actors : b # Cli => task'[b] = task[b]
    BY <1>5, CommandOf DEF Kill, Go, Become, Types, Task
  <2>2. Course'
    BY <2>1 DEF Course, Staging
  <2>3. InHome'
    BY <2>1, InHomeStays DEF CourseInv
  <2>4. QED
    BY <2>2, <2>3 DEF CourseInv
<1>6. CASE TimeUp
  <2>1. command'.name = command.name /\ command'.result = command.result
    BY <1>6, CommandOf DEF TimeUp, Command
  <2>2. UNCHANGED <<backend, button, task>>
    BY <1>6 DEF TimeUp
  <2>3. QED
    BY <2>1, <2>2, CourseStays DEF CourseInv, InHome, Home
<1>7. CASE \E c \in Clicks : PageStep(c)
  BY <1>7, CourseOfPage
<1>8. CASE \E home \in Homes : Restart(home)
  BY <1>8, CourseOfRestart
<1>9. CASE \E kind \in Kinds : KeyEnds(kind)
  <2>1. UNCHANGED <<backend, button, command, task>>
    BY <1>9 DEF KeyEnds
  <2>2. QED
    BY <2>1, CourseStays DEF CourseInv, InHome, Home
<1>10. QED
  BY <1>1, <1>2, <1>3, <1>4, <1>5, <1>6, <1>7, <1>8, <1>9 DEF Next

-----------------------------------------------------------------------------
(* What a command hands out.                                               *)

\* A step that stages nothing and leaves the clicks what they have.
LEMMA OutgoingStays ==
    ASSUME Types, Outgoing, Trims,
           command'.name = command.name, backend'.command = backend.command,
           Outward =>
               /\ \A c \in Clicks : At(c, "unlink")' => task'[c].seen.by = Cli
               /\ Empty' => NotStaged'
               /\ Due' => Kept'
               /\ Runs("block") /\ Live' => history'.consumed \/ ~NotStaged'
               /\ Runs("block") /\ command'.result = "posted" => history'.consumed
    PROVE  Outgoing'
<1>1. Outward' = Outward /\ Runs("block")' = Runs("block") /\ Home(Cli)' = Home(Cli)
  BY DEF Outward, Runs, Home
<1>2. ASSUME Outward, NEW home \in Homes, staged'[home]["value"] # None
      PROVE  /\ home = Home(Cli)
             /\ staged'[home]["value"].by = Cli /\ ~staged'[home]["value"].caught
  <2>1. staged'[home]["value"] = staged[home]["value"]
    BY <1>2 DEF Trims
  <2>2. QED
    BY <1>2, <2>1 DEF Outgoing
<1>3. QED
  BY <1>1, <1>2 DEF Outgoing

LEMMA KeptStays ==
    ASSUME Kept, history.lost => history'.lost, ~NotStaged => ~NotStaged' \/ Kept',
           \A c \in Clicks : Has(c) => Has(c)' \/ Kept'
    PROVE  Kept'
BY DEF Kept

\* A step of the command outside its calls, with the relay as it is.
LEMMA OutgoingGoes ==
    ASSUME Types, Outgoing,
           UNCHANGED <<staged, endless>>, backend'.command = backend.command,
           history'.lost = history.lost, history'.consumed = history.consumed,
           \A c \in Clicks : task'[c] = task[c],
           command'.name = command.name,
           Outward =>
               /\ Empty' => NotStaged
               /\ Due' => Due \/ ~NotStaged
               /\ Live' => Live \/ ~NotStaged
               /\ Runs("block") /\ command'.result = "posted" => history.consumed
    PROVE  Outgoing'
<1>1. Trims /\ NotStaged' = NotStaged
  BY NothingTrims DEF NotStaged
<1>2. \A c \in Clicks : At(c, "unlink")' = At(c, "unlink") /\ Has(c)' = Has(c)
  BY DEF At, Has
<1>3. Kept => Kept'
  BY <1>1, <1>2, KeptStays
<1>4. ~NotStaged => Kept'
  BY <1>1 DEF Kept
<1>5. QED
  BY <1>1, <1>2, <1>3, <1>4, OutgoingStays DEF Outgoing

\* A step of the page's side.
LEMMA OutgoingServes ==
    ASSUME Types, Outgoing, Trims, UNCHANGED <<button, command>>,
           task'[Cli] = task[Cli], backend'.command = backend.command,
           history.lost => history'.lost, history.consumed => history'.consumed,
           Outward =>
               /\ \A c \in Clicks : At(c, "unlink")' => task'[c].seen.by = Cli
               /\ ~NotStaged => ~NotStaged' \/ Kept'
               /\ Runs("block") /\ Live /\ ~NotStaged => ~NotStaged' \/ history'.consumed
               /\ \A c \in Clicks : Has(c) => Has(c)' \/ Kept'
    PROVE  Outgoing'
<1>1. Due' = Due /\ Live' = Live /\ Empty' = Empty
  BY DEF Due, Live, Empty, Failed
<1>2. Outward /\ Kept => Kept'
  BY KeptStays
<1>3. NotStaged => NotStaged'
  BY NotStagedStays
<1>4. QED
  BY <1>1, <1>2, <1>3, OutgoingStays DEF Outgoing

LEMMA OutgoingOfRead ==
    ASSUME IInv, Outgoing, NEW c \in Clicks, Outward,
           CollectRead(c) \/ CollectNothing(c) \/ CollectRefused(c)
    PROVE  Outgoing'
<1>1. /\ Types /\ At(c, "read") /\ c \in Actors /\ c # Cli /\ task[c] \in Task
      /\ UNCHANGED <<backend, staged, endless, serving, button, command, history>>
      /\ task[c].home \in Homes /\ task \in [Actors -> Task]
      /\ task[c].value = None
  BY ActorsAre, TaskOf DEF IInv, Types, Fits, ClickFits, CollectRead, CollectNothing,
     CollectRefused, At
<1>2. \A b \in Actors : b # c => task'[b] = task[b]
  BY <1>1, RelayStepIs DEF RelayStep
<1>3. /\ task'[c].pc = "unlink" => task'[c].seen = staged[task[c].home]["value"]
                                   /\ staged[task[c].home]["value"] # None
  <2>1. CASE CollectRead(c)
    BY <1>1, <2>1 DEF CollectRead, Become, Task
  <2>2. CASE CollectNothing(c)
    BY <1>1, <2>2 DEF CollectNothing, Become, Task, At
  <2>3. CASE CollectRefused(c)
    BY <1>1, <2>3 DEF CollectRefused, Go, Become, Task, At
  <2>4. QED
    BY <2>1, <2>2, <2>3
<1>4. \A d \in Clicks : At(d, "unlink")' => task'[d].seen.by = Cli
  BY <1>1, <1>2, <1>3, ActorsAre DEF Outgoing, At
<1>5. \A d \in Clicks : Has(d) => Has(d)'
  BY <1>1, <1>2, ActorsAre DEF Has, At
<1>6. Trims /\ NotStaged' = NotStaged /\ task'[Cli] = task[Cli]
  BY <1>1, <1>2, ActorsAre, NothingTrims DEF NotStaged
<1>7. QED
  BY <1>1, <1>4, <1>5, <1>6, OutgoingServes

\* Whoever takes the secret out has it, or it is lost.
LEMMA OutgoingOfUnlink ==
    ASSUME IInv, Outgoing, NEW c \in Clicks, Outward, CollectUnlink(c)
    PROVE  Outgoing'
<1>1. /\ Types /\ At(c, "unlink") /\ c \in Actors /\ c # Cli /\ task[c] \in Task
      /\ UNCHANGED <<backend, serving, button, command>> /\ task \in [Actors -> Task]
      /\ history \in History
  BY ActorsAre, TaskOf DEF IInv, Types, CollectUnlink
<1>2. \A b \in Actors : b # c => task'[b] = task[b]
  BY <1>1, RelayStepIs DEF RelayStep
<1>3. task[c].seen.by = Cli
  BY <1>1 DEF Outgoing
<1>4. /\ history'.consumed
      /\ history.lost => history'.lost
      /\ task[c].value = None => history'.lost
  <2> DEFINE l == history.lost \/ task[c].value = None
             k == history.consumed \/ (c # Cli /\ task[c].seen.by = Cli)
  <2>1. history' = [history EXCEPT !.consumed = k, !.lost = l]
    BY DEF CollectUnlink
  <2>2. k
    BY <1>1, <1>3
  <2> HIDE DEF k, l
  <2>3. history'.consumed = k /\ history'.lost = l
    BY <1>1, <2>1 DEF History
  <2>4. QED
    BY <2>2, <2>3 DEF l
<1>5. /\ task'[c].pc \in {"read", "back"}
      /\ task[c].value # None => task'[c].pc = "back" /\ task'[c].value = task[c].value
  BY <1>1 DEF CollectUnlink, Become, Task
<1>6. Kept'
  <2>1. CASE task[c].value = None
    BY <1>4, <2>1 DEF Kept
  <2>2. CASE task[c].value # None
    BY <1>5, <2>2 DEF Kept, Has
  <2>3. QED
    BY <2>1, <2>2
<1>7. \A d \in Clicks : At(d, "unlink")' => task'[d].seen.by = Cli
  BY <1>1, <1>2, <1>5, ActorsAre DEF Outgoing, At
<1>8. Trims /\ task'[Cli] = task[Cli]
  BY <1>1, <1>2, ActorsAre, CollectUnlinkTrims
<1>9. QED
  BY <1>1, <1>4, <1>6, <1>7, <1>8, OutgoingServes

LEMMA OutgoingOfPage ==
    ASSUME IInv, Outgoing, NEW c \in Clicks, PageStep(c)
    PROVE  Outgoing'
<1>1. /\ UNCHANGED <<backend, button, command>> /\ task'[Cli] = task[Cli]
      /\ \A b \in Actors : b # c => task'[b] = task[b]
      /\ c \in Actors /\ c # Cli /\ task \in [Actors -> Task] /\ task[c] \in Task
      /\ Types /\ ClickFits(task[c]) /\ history \in History
  BY ActorsAre, PageStepIs DEF IInv, Types, Fits
<1>2. CASE ~Outward
  BY <1>1, <1>2 DEF Outgoing, Outward
<1>3. CASE Outward /\ RelayStep(c)
  <2>1. task[c].pc \notin Staging
    BY <1>1, <1>3 DEF ClickFits
  <2>2. \/ CollectRead(c) \/ CollectNothing(c) \/ CollectRefused(c) \/ CollectUnlink(c)
    BY <1>3, <2>1 DEF RelayStep, StageClear, StageAdd, StageEnd, StageEndRefused, StageWrite,
       StageRefused, At, Staging
  <2>3. QED
    BY <1>3, <2>2, OutgoingOfRead, OutgoingOfUnlink
<1>4. CASE Outward /\ ~RelayStep(c)
  <2>1. UNCHANGED <<staged, endless>>
    BY <1>4 DEF PageStep, Press, Serve, Acknowledge, Refuse, HandOver, Write, WriteRefused, Close
  <2>2. Trims /\ NotStaged' = NotStaged
    BY <1>1, <2>1, NothingTrims DEF NotStaged
  <2>3. /\ task'[c].pc # "unlink"
        /\ history'.consumed = history.consumed
        /\ history.lost => history'.lost
        /\ Has(c) => Has(c)' \/ history'.lost
    <3>1. CASE Press(c)
      <4>1. PICK kind, v : Become(c, [Idle EXCEPT !.pc = "post", !.kind = kind, !.value = v])
        BY <3>1 DEF Press
      <4>2. task'[c].pc = "post"
        BY <1>1, <4>1 DEF Become, Idle
      <4>3. history' = [history EXCEPT !.clicks = @ \cup {c}] /\ At(c, "idle")
        BY <3>1 DEF Press
      <4>4. QED
        BY <1>1, <4>2, <4>3 DEF Has, At, History
    <3>2. CASE Serve(c)
      <4>1. /\ task' = [task EXCEPT ![c] = Collect(task[c], c)] /\ At(c, "post")
            /\ history' = history
        BY <1>4, <3>2 DEF Serve, Become
      <4>2. task'[c].pc = "read"
        BY <1>1, <4>1, CollectTyped DEF Types
      <4>3. QED
        BY <4>1, <4>2 DEF Has, At
    <3>3. CASE Refuse(c)
      <4>1. AfterFailure(c).pc \in {"post", "done"} /\ Become(c, AfterFailure(c))
            /\ At(c, "raised") /\ history' = history
        BY <3>3, AfterFailureTyped DEF Refuse, At
      <4>2. task'[c].pc \in {"post", "done"}
        BY <1>1, <4>1 DEF Become
      <4>3. QED
        BY <4>1, <4>2 DEF Has, At
    <3>4. CASE HandOver(c)
      <4>1. PICK pc \in {"done", "delivered", "holding"} :
              /\ Go(c, pc)
              /\ \/ task[c].value = None /\ history' = history
                 \/ history' = [history EXCEPT !.lost = TRUE]
                 \/ history' = [history EXCEPT !.got = @ \cup {c}] /\ pc # "done"
        BY <3>4 DEF HandOver
      <4>2. task'[c].pc = pc /\ task'[c].value = task[c].value
        BY <1>1, <4>1 DEF Go, Become, Task
      <4>3. QED
        BY <1>1, <4>1, <4>2 DEF Has, History
    <3>5. CASE Write(c) \/ WriteRefused(c)
      BY <1>1, <3>5 DEF Write, WriteRefused, AfterRetries, Go, Become, Task, Has
    <3>6. CASE Close(c)
      <4>1. history' = [history EXCEPT !.lost = TRUE] /\ task'[c].pc = "done"
        BY <1>1, <3>6 DEF Close, Go, Become, Task
      <4>2. QED
        BY <1>1, <4>1 DEF History
    <3>7. CASE Acknowledge(c)
      BY <1>4, <3>7 DEF Acknowledge
    <3>8. QED
      BY <1>4, <3>1, <3>2, <3>3, <3>4, <3>5, <3>6, <3>7 DEF PageStep
  <2>4. \A d \in Clicks : At(d, "unlink")' => task'[d].seen.by = Cli
    BY <1>1, <1>4, <2>3, ActorsAre DEF Outgoing, At
  <2>5. \A d \in Clicks : Has(d) => Has(d)' \/ Kept'
    BY <1>1, <2>3, ActorsAre DEF Has, Kept
  <2>6. QED
    BY <1>1, <1>4, <2>2, <2>3, <2>4, <2>5, OutgoingServes
<1>5. QED
  BY <1>2, <1>3, <1>4

\* What is known of the command while it stages.
LEMMA CommandStages ==
    ASSUME IInv, CourseInv, task[Cli].pc \in Staging
    PROVE  /\ Types /\ Course /\ Outward /\ task \in [Actors -> Task]
           /\ task[Cli].value # None
           /\ task[Cli].kind = "value" /\ task[Cli].value.by = Cli /\ ~task[Cli].value.caught
           /\ ~button /\ command.result = None
           /\ task[Cli].pc \in {"clear", "add", "write"} => NotStaged
           /\ task[Cli].pc \in {"clear", "add", "end"} => Home(Cli) = "key"
           /\ task[Cli].pc = "write" => Home(Cli) = "file"
<1>1. Types /\ Course /\ InHome /\ OnceInv /\ Fits /\ Cli \in Actors
  BY ActorsAre DEF IInv, CourseInv
<1>2. /\ Outward /\ ~button
      /\ task[Cli].kind = "value" /\ task[Cli].value.by = Cli /\ ~task[Cli].value.caught
  BY <1>1 DEF Course
<1>3. command.result = None
  BY <1>1 DEF Course, Staging
<1>4. task[Cli].pc \in {"clear", "add", "write"} => NotStaged
  BY <1>1, <1>2 DEF OnceInv, OnceBefore
<1>5. task[Cli].value # None
  BY <1>1 DEF Fits, TaskFits
<1>6. QED
  BY <1>1, <1>2, <1>3, <1>4, <1>5 DEF Types, InHome

\* The command puts its secret.
LEMMA OutgoingOfPut ==
    ASSUME IInv, CourseInv, Outgoing, NEW home \in Homes, Put(Cli, home), home = Home(Cli),
           NEW pc \in {"end", "back"}, Go(Cli, pc), pc = "end" => ~Live',
           task[Cli].pc \in {"add", "write"},
           UNCHANGED <<backend, serving, button, command>>
    PROVE  Outgoing'
<1>1. /\ Types /\ Course /\ Outward /\ NotStaged /\ task[Cli].value # None
      /\ task[Cli].kind = "value" /\ task[Cli].value.by = Cli /\ ~task[Cli].value.caught
      /\ Cli \in Actors /\ task \in [Actors -> Task] /\ task[Cli] \in Task
      /\ ~button /\ command.result = None
  BY CommandOf, CommandStages DEF Staging
<1>2. /\ \A other \in Homes \ {home} : staged'[other] = staged[other]
      /\ staged'[home]["value"] # None
      /\ staged'[home]["value"].by = Cli /\ staged'[home]["value"].caught = task[Cli].value.caught
  BY <1>1, Puts
<1>3. Home(Cli)' = Home(Cli) /\ Outward' = Outward
  BY DEF Home, Outward
<1>4. ~NotStaged'
  BY <1>2 DEF NotStaged
<1>5. /\ task'[Cli].pc = pc
      /\ \A c \in Clicks : task'[c] = task[c]
  BY <1>1, ActorsAre DEF Go, Become, Task
<1>6. \A other \in Homes :
        staged'[other]["value"] # None =>
            /\ other = Home(Cli)'
            /\ staged'[other]["value"].by = Cli /\ ~staged'[other]["value"].caught
  BY <1>1, <1>2, <1>3 DEF NotStaged
<1>7. \A c \in Clicks : At(c, "unlink")' => task'[c].seen.by = Cli
  BY <1>1, <1>5 DEF Outgoing, At
<1>8. ~Empty'
  BY <1>5 DEF Empty
<1>9. Kept' /\ command'.result # "posted"
  BY <1>1, <1>4, NoneIsNoValue DEF Kept, Results
<1>10. QED
  BY <1>4, <1>6, <1>7, <1>8, <1>9 DEF Outgoing

\* A refused end takes the key, and there was no file.
LEMMA OutgoingOfRefusal ==
    ASSUME IInv, CourseInv, Outgoing, StageEndRefused(Cli)
    PROVE  Outgoing'
<1>1. /\ Types /\ Course /\ Outward /\ At(Cli, "end") /\ Cli \in Actors
      /\ task \in [Actors -> Task] /\ task[Cli] \in Task /\ Home(Cli) = "key"
      /\ task[Cli].kind = "value" /\ task[Cli].value.by = Cli /\ ~task[Cli].value.caught
      /\ UNCHANGED <<backend, serving, button, command, history>>
      /\ ~button /\ task[Cli].value # None
  <2>1. At(Cli, "end") /\ UNCHANGED <<backend, serving, button, command, history>>
    BY DEF StageEndRefused
  <2>2. QED
    BY <2>1, CommandOf, CommandStages DEF Staging, At
<1>2. task[Cli].value.caught = FALSE
  BY <1>1 DEF Task, Value
<1>3. Trims /\ staged'["key"]["value"] = None
  <2>1. CASE Adds(Cli)
    <3>1. RemoveKey("value") /\ "value" \in Kinds
      BY <1>1, <2>1 DEF StageEndRefused, NoEnd, Kinds
    <3>2. QED
      BY <1>1, <3>1, RemoveKeyTrims DEF RemoveKey, Types, Homes
  <2>2. CASE ~Adds(Cli)
    <3>1. UNCHANGED <<staged, endless>>
      BY <2>2 DEF StageEndRefused
    <3>2. ASSUME staged["key"]["value"] # None PROVE FALSE
      <4>1. /\ staged["key"]["value"].by = Cli /\ ~staged["key"]["value"].caught
            /\ staged["key"]["value"] \in Value
        BY <1>1, <3>2 DEF Outgoing, Homes, Types, Kinds
      <4>2. staged["key"]["value"].caught = FALSE
        BY <4>1 DEF Value
      <4>3. QED
        BY <1>1, <1>2, <2>2, <3>2, <4>1, <4>2 DEF Adds
    <3>3. QED
      BY <1>1, <3>1, <3>2, NothingTrims
  <2>3. QED
    BY <2>1, <2>2
<1>4. NotStaged'
  <2>1. staged["file"]["value"] = None
    BY <1>1 DEF Outgoing, Homes
  <2>2. QED
    BY <1>3, <2>1 DEF Trims, NotStaged, Homes
<1>5. task'[Cli].pc = "raised" /\ \A c \in Clicks : task'[c] = task[c]
  BY <1>1, ActorsAre DEF StageEndRefused, Go, Become, Task
<1>6. ~Due' /\ ~Live' /\ command.result = None
  BY <1>1, <1>5 DEF Due, Live, Course, At
<1>7. QED
  BY <1>1, <1>3, <1>4, <1>5, <1>6, OutgoingStays, NoneIsNoValue DEF Outgoing, At, Results

LEMMA OutgoingOfCall ==
    ASSUME IInv, CourseInv, Outgoing, RelayStep(Cli)
    PROVE  Outgoing'
<1>1. /\ Types /\ Course /\ Cli \in Actors /\ task \in [Actors -> Task] /\ task[Cli] \in Task
      /\ UNCHANGED <<backend, serving, button, command>>
      /\ \A c \in Clicks : task'[c] = task[c]
      /\ Home(Cli) \in Homes
  BY CommandOf, ActorsAre, RelayStepIs DEF CourseInv, Types, Home
<1>2. CASE ~Outward
  BY <1>1, <1>2 DEF Outgoing, Outward
<1>3. CASE Outward
  <2>1. /\ task[Cli].pc \in Staging /\ ~button /\ command.result = None
        /\ task[Cli].kind = "value"
    BY <1>1, <1>3, CommandOf, RelayStepIs DEF IInv, Begins, Course, Staging
  <2>2. CASE StageClear(Cli)
    <3>1. /\ RemoveKey("value") /\ "value" \in Kinds /\ NotStaged /\ task'[Cli].pc = "add"
          /\ history' = history
      BY <1>1, <1>3, <2>1, <2>2 DEF StageClear, Kinds, Go, Become, Task, At, IInv, OnceInv,
         OnceBefore
    <3>2. Trims /\ NotStaged'
      BY <1>1, <3>1, RemoveKeyTrims, NotStagedStays
    <3>3. ~Due' /\ ~Live' /\ ~Empty'
      BY <1>1, <2>1, <3>1 DEF Due, Live, Empty
    <3>4. QED
      BY <1>1, <2>1, <3>1, <3>2, <3>3, OutgoingStays, NoneIsNoValue DEF Outgoing, At, Results
  <2>3. CASE StageAdd(Cli)
    <3>1. /\ Put(Cli, "key") /\ Go(Cli, "end") /\ At(Cli, "add") /\ Home(Cli) = "key"
          /\ "key" \in Homes
      BY <1>1, <2>3 DEF StageAdd, CourseInv, InHome, At, Homes
    <3>2. ~Live'
      BY <1>1, <3>1 DEF Live, Go, Become, Task
    <3>3. QED
      BY <1>1, <3>1, <3>2, OutgoingOfPut DEF At
  <2>4. CASE StageEnd(Cli)
    <3>1. /\ UNCHANGED <<staged, history>> /\ Adds(Cli) /\ task'[Cli].pc = "back"
      BY <1>1, <2>4 DEF StageEnd, Go, Become, Task
    <3>2. Trims
      BY <1>1, <2>4 DEF StageEnd, Types, Trims
    <3>3. ~NotStaged /\ ~NotStaged'
      BY <2>1, <3>1 DEF Adds, NotStaged, Homes
    <3>4. Kept' /\ ~Empty'
      BY <3>1, <3>3 DEF Kept, Empty
    <3>5. QED
      BY <1>1, <2>1, <3>2, <3>3, <3>4, OutgoingStays, NoneIsNoValue DEF Outgoing, At, Results
  <2>5. CASE StageEndRefused(Cli)
    BY <2>5, OutgoingOfRefusal
  <2>6. CASE StageWrite(Cli)
    <3>1. /\ Put(Cli, "file") /\ Go(Cli, "back") /\ At(Cli, "write") /\ Home(Cli) = "file"
          /\ "file" \in Homes
      BY <1>1, <2>6 DEF StageWrite, CourseInv, InHome, At, Homes
    <3>2. QED
      BY <1>1, <3>1, OutgoingOfPut DEF At
  <2>7. CASE StageRefused(Cli)
    <3>1. /\ UNCHANGED <<staged, endless, history>> /\ NotStaged /\ task'[Cli].pc = "raised"
      BY <1>1, <1>3, <2>7 DEF StageRefused, Go, Become, Task, IInv, OnceInv, OnceBefore
    <3>2. ~Due' /\ ~Live'
      BY <1>1, <2>1, <3>1 DEF Due, Live
    <3>3. QED
      BY <1>1, <2>1, <3>1, <3>2, OutgoingGoes, NoneIsNoValue DEF Results
  <2>8. QED
    BY <2>1, <2>2, <2>3, <2>4, <2>5, <2>6, <2>7, RelayStepIs
    DEF RelayStep, CollectRead, CollectNothing, CollectRefused, CollectUnlink, At, Staging,
        Reading
<1>4. QED
  BY <1>2, <1>3

LEMMA OutgoingGoesOn ==
    ASSUME IInv, CourseInv, Outgoing,
           StageReturns \/ Trigger \/ Triggered \/ SeeAnswer \/ LookForMarker \/ ReadMarker
             \/ SeeGone \/ Timeout \/ CollectReturns \/ PrintReference
             \/ TriggerFails \/ Stop
    PROVE  Outgoing'
<1>1. /\ UNCHANGED <<backend, serving, history>>
      /\ task \in [Actors -> Task] /\ command \in Command /\ Types /\ task[Cli] \in Task
      /\ \A c \in Clicks : task'[c] = task[c]
      /\ command'.name = command.name /\ Cli \in Actors /\ Course
  BY CommandGoesOn, CommandOf DEF CourseInv
<1>2. CASE ~Outward
  BY <1>1, <1>2 DEF Outgoing, Outward
<1>3. CASE Outward
  <2>1. ~(ReadMarker \/ PrintReference \/ LookForMarker \/ SeeAnswer \/ CollectReturns)
    BY <1>1, <1>3 DEF ReadMarker, PrintReference, LookForMarker, SeeAnswer, CollectReturns,
       Course, Runs, Outward, At
  <2>2. UNCHANGED <<staged, endless>>
    BY <2>1 DEF StageReturns, Trigger, Triggered, SeeGone, Timeout, TriggerFails, Stop
  <2>3. /\ Empty' => NotStaged
        /\ Due' => Due
        /\ Live' => Live
        /\ Runs("block") /\ command'.result = "posted" => history.consumed
    <3>1. CASE StageReturns
      <4>1. CASE Go(Cli, "trigger") /\ UNCHANGED command /\ At(Cli, "back")
        <5>1. task'[Cli].pc = "trigger" /\ button' = button
          BY <1>1, <3>1, <4>1 DEF StageReturns, Go, Become, Task
        <5>2. QED
          BY <1>3, <4>1, <5>1 DEF Outgoing, Empty, Due, Live, Failed, At
      <4>2. CASE Go(Cli, "done") /\ End("failed") /\ At(Cli, "raised")
        <5>1. task'[Cli].pc = "done" /\ command'.result = "failed" /\ NotStaged
          BY <1>1, <1>3, <4>2 DEF Go, Become, Task, End, Command, Outgoing, Empty, At
        <5>2. QED
          BY <5>1 DEF Due, Live, Failed
      <4>3. QED
        BY <3>1, <4>1, <4>2 DEF StageReturns
    <3>2. CASE Trigger
      <4>1. task'[Cli].pc = "asked" /\ At(Cli, "trigger") /\ UNCHANGED command
        BY <1>1, <3>2 DEF Trigger, Go, Become, Task
      <4>2. QED
        BY <1>3, <4>1 DEF Outgoing, Empty, Due, Live, At
    <3>3. CASE Triggered
      <4>1. At(Cli, "asked") /\ button' = button
        BY <3>3 DEF Triggered
      <4>2. CASE Runs("copy") \/ Runs("show")
        <5>1. task'[Cli].pc = "done" /\ command'.result = "posted"
          BY <1>1, <3>3, <4>2 DEF Triggered, Go, Become, Task, End, Command, Runs
        <5>2. QED
          BY <4>1, <4>2, <5>1 DEF Empty, Due, Live, Failed, At, Runs
      <4>3. CASE ~(Runs("copy") \/ Runs("show"))
        <5>1. task'[Cli].pc = "wait" /\ command' = command
          BY <1>1, <3>3, <4>3 DEF Triggered, Go, Become, Task, Runs
        <5>2. QED
          BY <1>3, <4>1, <5>1 DEF Outgoing, Empty, Due, Live, At
      <4>4. QED
        BY <4>2, <4>3
    <3>4. CASE SeeGone
      <4>1. /\ At(Cli, "wait") /\ ~Exists("value") /\ button' = button
            /\ task'[Cli].pc = "unwind" /\ command'.result = "posted"
        BY <1>1, <3>4 DEF SeeGone, Go, Become, Task, End, Command
      <4>2. NotStaged
        <5>1. backend.command \in Homes
          BY <1>1 DEF Types
        <5>2. QED
          BY <1>3, <4>1, <5>1 DEF Exists, Outgoing, NotStaged, Home, Homes
      <4>3. Live
        BY <4>1 DEF Live, At
      <4>4. QED
        BY <1>3, <4>1, <4>2, <4>3 DEF Outgoing, Due, Live, Failed
    <3>5. CASE Timeout \/ Stop \/ TriggerFails
      <4>1. /\ task'[Cli].pc \in {"unwind", "done"}
            /\ command'.result \in {"timeout", "failed", "unasked"}
            /\ ~Runs("passphrase") => task'[Cli].pc = "unwind"
        BY <1>1, <1>3, <3>5
          DEF Timeout, Stop, TriggerFails, UndoesTrigger, Go, Become, Task, End, Command
      <4>2. task'[Cli].pc = "unwind" /\ Failed'
        BY <1>3, <4>1 DEF Runs, Outward, Failed
      <4>3. QED
        BY <4>1, <4>2 DEF Empty, Due, Live, Failed
    <3>6. QED
      BY <2>1, <3>1, <3>2, <3>3, <3>4, <3>5
  <2>4. QED
    BY <1>1, <1>3, <2>2, <2>3, OutgoingGoes
<1>4. QED
  BY <1>2, <1>3

LEMMA OutgoingOfUnwind ==
    ASSUME IInv, CourseInv, Outgoing, Unwind
    PROVE  Outgoing'
<1>1. /\ UNCHANGED <<backend, serving, history, button, command>> /\ At(Cli, "unwind")
      /\ task \in [Actors -> Task] /\ command \in Command /\ Types /\ task[Cli] \in Task
      /\ \A c \in Clicks : task'[c] = task[c]
      /\ Cli \in Actors /\ backend.command \in Homes
  BY CommandGoesOn, CommandOf DEF Types, Unwind
<1>2. /\ task'[Cli].pc = "done" /\ staged' = Unstaged("value") /\ "value" \in Kinds
      /\ endless' = {kind \in endless : Unstaged("value")["key"][kind] # None}
  BY <1>1 DEF Unwind, Unwound, Go, Become, Task, Kinds
<1>3. Trims
  BY <1>1, <1>2, UnstagedTrims DEF Trims, Types, Homes
<1>4. CASE ~Outward
  BY <1>1, <1>4 DEF Outgoing, Outward
<1>5. CASE Outward
  <2>1. NotStaged'
    <3>1. staged'["file"]["value"] = None
      BY <1>1, <1>2 DEF Unstaged, Types, Homes
    <3>2. staged'["key"]["value"] = None
      BY <1>1, <1>2, <1>3, <1>5 DEF Unstaged, Types, Homes, Outgoing, Trims
    <3>3. QED
      BY <3>1, <3>2 DEF NotStaged, Homes
  <2>2. ~Live' /\ (Due' => Due /\ ~Failed)
    BY <1>1, <1>2 DEF Due, Live, Failed, At
  <2>3. Due' => Kept'
    <3>1. \A c \in Clicks : Has(c)' = Has(c)
      BY <1>1 DEF Has
    <3>2. ASSUME Due' PROVE NotStaged /\ Kept
      BY <1>1, <1>5, <2>2, <3>2 DEF Outgoing, Empty, At
    <3>3. QED
      BY <1>1, <3>1, <3>2 DEF Kept
  <2>4. \A c \in Clicks : At(c, "unlink")' => task'[c].seen.by = Cli
    BY <1>1, <1>5 DEF Outgoing, At
  <2>5. Runs("block") /\ command'.result = "posted" => history'.consumed
    BY <1>1, <1>5 DEF Outgoing
  <2>6. QED
    BY <1>1, <1>3, <2>1, <2>2, <2>3, <2>4, <2>5, OutgoingStays
<1>6. QED
  BY <1>4, <1>5

LEMMA OutgoingOfStart ==
    ASSUME IInv, CourseInv, CourseInv', Outgoing, NEW name \in Names, Start(name)
    PROVE  Outgoing'
<1>1. /\ Types /\ NotStaged /\ ~button /\ At(Cli, "idle") /\ Cli \in Actors
      /\ UNCHANGED <<backend, staged, endless, serving, button, history>>
      /\ \A c \in Clicks : At(c, "idle")
      /\ command.result = None /\ command' = [command EXCEPT !.name = name]
      /\ command \in Command /\ task \in [Actors -> Task]
  BY CommandOf DEF IInv, Begins, Start, CourseInv, Course, At, Types
<1>2. command'.result = None
  BY <1>1 DEF Command
<1>3. \A c \in Clicks : At(c, "idle")'
  BY <1>1, ActorsAre, StartsWith DEF At
<1>4. Outward' => task'[Cli].pc \in {"clear", "write"}
  BY StartsWith
<1>5. NotStaged'
  BY <1>1 DEF NotStaged
<1>6. Outward' => ~Due' /\ ~Live' /\ command'.result # "posted"
  BY <1>1, <1>2, <1>4, NoneIsNoValue DEF Due, Live, Results
<1>7. QED
  BY <1>3, <1>5, <1>6 DEF Outgoing, NotStaged, At

LEMMA OutgoingOfRestart ==
    ASSUME IInv, Outgoing, NEW home \in Homes, Restart(home)
    PROVE  Outgoing'
<1>1. /\ Types /\ ServesOne /\ UNCHANGED <<staged, endless, button, command>>
      /\ backend' = [backend EXCEPT !.server = home]
      /\ backend \in [command : Homes, server : Homes]
      /\ task \in [Actors -> Task] /\ history \in History
  BY DEF IInv, Types, Restart
<1>2. backend'.command = backend.command /\ Trims /\ NotStaged' = NotStaged
  BY <1>1, NothingTrims DEF NotStaged
<1>3. CASE serving = None
  <2>1. UNCHANGED <<task, history>>
    BY <1>3 DEF Restart
  <2>2. \A c \in Clicks : Has(c)' = Has(c) /\ At(c, "unlink")' = At(c, "unlink")
    BY <2>1 DEF Has, At
  <2>3. QED
    BY <1>1, <1>2, <2>1, <2>2, OutgoingServes DEF Outgoing
<1>4. CASE serving # None
  <2>1. PICK d \in Clicks : serving = d
    BY <1>1, <1>4 DEF Types
  <2>2. Become(d, AfterFailure(d)) /\ ~At(d, "idle")
    BY <1>1, <1>4, <2>1 DEF Restart, ServesOne, InRequest, Staging, Reading, At
  <2>3. AfterFailure(d).pc \in {"post", "done"}
    BY <2>2, AfterFailureTyped
  <2>4. /\ task'[Cli] = task[Cli] /\ task'[d].pc \in {"post", "done"}
        /\ \A c \in Clicks : c # d => task'[c] = task[c]
    BY <1>1, <2>2, <2>3, ActorsAre DEF Become
  <2>5. history'.lost /\ history'.consumed = history.consumed
    BY <1>1, <1>4 DEF Restart, History
  <2>6. Kept'
    BY <2>5 DEF Kept
  <2>7. \A c \in Clicks : Outward /\ At(c, "unlink")' => task'[c].seen.by = Cli
    BY <2>4 DEF Outgoing, At
  <2>8. QED
    BY <1>1, <1>2, <2>4, <2>5, <2>6, <2>7, OutgoingServes
<1>5. QED
  BY <1>3, <1>4

\* A time that is over loses the secret, and not that of a command that waits for it to go.
LEMMA OutgoingOfKeyEnds ==
    ASSUME IInv, Outgoing, NEW kind \in Kinds, KeyEnds(kind)
    PROVE  Outgoing'
<1>1. /\ Types /\ UNCHANGED <<backend, endless, serving, button, command, task>>
      /\ staged' = [staged EXCEPT !["key"][kind] = None] /\ kind \notin endless
      /\ history \in History
  BY DEF IInv, Types, KeyEnds
<1>2. Trims
  BY <1>1 DEF Types, Trims, Homes, Kinds
<1>3. history'.lost /\ history'.consumed = history.consumed
  BY <1>1 DEF KeyEnds, History
<1>4. ~(Runs("block") /\ Live)
  BY DEF KeyEnds, Outlives, Live
<1>5. Kept'
  BY <1>3 DEF Kept
<1>6. QED
  BY <1>1, <1>2, <1>3, <1>4, <1>5, OutgoingServes DEF Outgoing, At

LEMMA OutgoingKeeps ==
    ASSUME IInv, CourseInv, CourseInv', Outgoing, [Next]_vars
    PROVE  Outgoing'
<1> Types
  BY DEF IInv
<1>1. CASE UNCHANGED vars
  BY <1>1 DEF vars, Outgoing, Outward, Runs, Home, At, Empty, Failed, NotStaged, Due, Live, Kept,
     Has
<1>2. CASE \E name \in Names : Start(name)
  BY <1>2, OutgoingOfStart
<1>3. CASE CommandStep \/ TriggerFails \/ Stop
  BY <1>3, OutgoingOfCall, OutgoingGoesOn, OutgoingOfUnwind DEF CommandStep
<1>4. CASE Kill
  <2>1. /\ UNCHANGED <<backend, staged, endless, button, command>> /\ task'[Cli].pc = "dead"
        /\ \A c \in Clicks : task'[c] = task[c]
        /\ history \in History /\ ~Ended /\ ~At(Cli, "idle")
    BY <1>4, CommandOf, ActorsAre DEF Kill, Go, Become, Types, Task
  <2>2. history'.lost = history.lost /\ history'.consumed = history.consumed
    BY <1>4, <2>1 DEF Kill, History
  <2>3. ~Empty' /\ ~Live' /\ (Due' => Due)
    BY <2>1 DEF Empty, Live, Due, Failed
  <2>4. Outward /\ Runs("block") /\ command'.result = "posted" => history.consumed
    BY <2>1 DEF Outgoing
  <2>5. QED
    BY <2>1, <2>2, <2>3, <2>4, OutgoingGoes
<1>5. CASE TimeUp
  <2>1. command'.name = command.name /\ command'.result = command.result
    BY <1>5, CommandOf DEF TimeUp, Command
  <2>2. UNCHANGED <<backend, staged, endless, button, task, history>>
    BY <1>5 DEF TimeUp
  <2>3. Empty' = Empty /\ Live' = Live /\ Due' = Due
    BY <2>1, <2>2 DEF Empty, Live, Due, Failed
  <2>4. QED
    BY <2>1, <2>2, <2>3, OutgoingGoes DEF Outgoing
<1>6. CASE \E c \in Clicks : PageStep(c)
  BY <1>6, OutgoingOfPage
<1>7. CASE \E home \in Homes : Restart(home)
  BY <1>7, OutgoingOfRestart
<1>8. CASE \E kind \in Kinds : KeyEnds(kind)
  BY <1>8, OutgoingOfKeyEnds
<1>9. QED
  BY <1>1, <1>2, <1>3, <1>4, <1>5, <1>6, <1>7, <1>8 DEF Next

-----------------------------------------------------------------------------
(* What a command leaves, and the home it names.                           *)

LEMMA NoneIsNoResult ==
    None \notin {"answer", "refused", "reference", "cancelled", "posted", "unasked", "failed",
               "timeout"}
BY NoneIsNoValue DEF Results

\* A step that stages nothing.
LEMMA RemainsStays ==
    ASSUME Remains, Trims, history.put \subseteq history'.put,
           command'.result = "reference" => command'.reference \in history'.put,
           task'[Cli].pc = "refer" =>
               \/ staged'["file"]["value"] # None
               \/ Home(Cli)' = "key" /\ "key" \in history'.put,
           task'[Cli].pc = "done" /\ command'.result # "unasked" => ~ResultLeft'
    PROVE  Remains'
<1>1. \A home \in Homes : staged'[home]["value"] # None => home \in history'.put
  BY DEF Remains, Trims
<1>2. QED
  BY <1>1 DEF Remains

LEMMA NothingMoreIsLeft ==
    ASSUME Trims, command'.name = command.name, backend'.command = backend.command,
           ResultLeft'
    PROVE  ResultLeft
<1>1. Reached' = Reached /\ Runs("ceremony")' = Runs("ceremony")
  BY DEF Reached, Home, Runs
<1>2. PICK home \in Reached : staged'[home]["value"] # None /\ ~staged'[home]["value"].late
  BY <1>1 DEF ResultLeft
<1>3. home \in Homes
  BY <1>2 DEF Reached, Homes
<1>4. staged'[home]["value"] = staged[home]["value"]
  BY <1>2, <1>3 DEF Trims
<1>5. QED
  BY <1>1, <1>2, <1>4 DEF ResultLeft

\* Whatever is at work but the command leaves a file of a passphrase.
LEMMA RemainsServes ==
    ASSUME Course, Remains, Trims, UNCHANGED command, task'[Cli] = task[Cli],
           backend'.command = backend.command, history'.put = history.put,
           ~Outward => staged'["file"]["value"] = staged["file"]["value"]
    PROVE  Remains'
<1>1. task[Cli].pc = "refer" => ~Outward
  BY DEF Course, Runs, Outward
<1>2. Home(Cli)' = Home(Cli)
  BY DEF Home
<1>3. ResultLeft' => ResultLeft
  BY NothingMoreIsLeft
<1>4. QED
  BY <1>1, <1>2, <1>3, RemainsStays DEF Remains

\* A value is put: after the command's end it is late.
LEMMA RemainsOfPut ==
    ASSUME IInv, CourseInv, Remains, NEW a \in Actors, NEW home \in Homes, Put(a, home),
           task[a].pc \in {"add", "write"}, UNCHANGED <<backend, command>>,
           a # Cli => task'[Cli] = task[Cli],
           a = Cli => task'[Cli].pc \in {"end", "back"}
    PROVE  Remains'
<1> DEFINE late == Ended
           v == [task[a].value EXCEPT !.late = late]
<1>1. /\ Types /\ task[a].value # None /\ task[a].kind \in Kinds /\ task[a].value \in Value
      /\ history \in History /\ staged \in [Homes -> [Kinds -> Value \cup {None}]]
  BY TaskOf DEF TaskFits, Staging, Task, Types
<1>2. v \in Value /\ v.late = late
  <2>1. late \in BOOLEAN
    BY DEF Ended
  <2> HIDE DEF late
  <2>2. QED
    BY <1>1, <2>1 DEF Value
<1>3. v # None
  BY <1>2, NoneIsNoValue
<1>4. staged' = [staged EXCEPT ![home][task[a].kind] = v]
  BY DEF Put
<1> HIDE DEF v
<1>5. /\ history.put \subseteq history'.put
      /\ task[a].kind = "value" => home \in history'.put
  BY <1>1 DEF Put, History
<1>6. ASSUME NEW other \in Homes
      PROVE  \/ staged'[other]["value"] = staged[other]["value"]
             \/ other = home /\ task[a].kind = "value" /\ staged'[other]["value"] = v
  <2>1. CASE other # home
    BY <1>1, <1>4, <2>1
  <2>2. CASE other = home
    <3>1. staged'[home] = [staged[home] EXCEPT ![task[a].kind] = v]
      BY <1>1, <1>4
    <3>2. staged[home] \in [Kinds -> Value \cup {None}] /\ "value" \in Kinds
      BY <1>1 DEF Kinds
    <3>3. QED
      BY <2>2, <3>1, <3>2
  <2>3. QED
    BY <2>1, <2>2
<1>7. \A other \in Homes : staged'[other]["value"] # None => other \in history'.put
  BY <1>5, <1>6 DEF Remains
<1>8. command.result = "reference" => command.reference \in history'.put
  BY <1>5 DEF Remains
<1>9. task'[Cli].pc = "refer" =>
         \/ staged'["file"]["value"] # None
         \/ Home(Cli)' = "key" /\ "key" \in history'.put
  <2>1. CASE a = Cli
    BY <2>1
  <2>2. CASE a # Cli
    BY <1>3, <1>5, <1>6, <2>2 DEF Remains, Home, Homes
  <2>3. QED
    BY <2>1, <2>2
<1>10. task'[Cli].pc = "done" /\ command'.result # "unasked" => ~ResultLeft'
  <2>1. CASE a = Cli
    BY <2>1
  <2>2. CASE a # Cli
    <3>1. ASSUME task'[Cli].pc = "done", command'.result # "unasked", ResultLeft' PROVE FALSE
      <4>1. Reached' = Reached /\ Runs("ceremony")' = Runs("ceremony")
        BY DEF Reached, Home, Runs
      <4>2. task[Cli].pc = "done" /\ ~ResultLeft
        BY <2>2, <3>1 DEF Remains
      <4>3. PICK other \in Reached :
              staged'[other]["value"] # None /\ ~staged'[other]["value"].late
        BY <3>1, <4>1 DEF ResultLeft
      <4>4. other \in Homes /\ v.late = TRUE
        BY <1>2, <4>2, <4>3 DEF Reached, Homes, Ended, late
      <4>5. staged'[other]["value"] = staged[other]["value"]
        BY <1>6, <4>3, <4>4
      <4>6. QED
        BY <3>1, <4>1, <4>2, <4>3, <4>5 DEF ResultLeft
    <3>2. QED
      BY <3>1
  <2>3. QED
    BY <2>1, <2>2
<1>11. QED
  BY <1>7, <1>8, <1>9, <1>10 DEF Remains

LEMMA RelayStepTrims ==
    ASSUME IInv, NEW a \in Actors, RelayStep(a), ~StageAdd(a), ~StageWrite(a)
    PROVE  /\ Trims /\ history'.put = history.put
           /\ task[a].pc \in Staging => staged'["file"] = staged["file"]
<1>1. /\ Types /\ task[a].kind \in Kinds /\ task[a].home \in Homes /\ history \in History
  BY TaskOf
<1>2. CASE StageClear(a)
  BY <1>1, <1>2, RemoveKeyTrims DEF StageClear, RemoveKey, Types, Homes
<1>3. CASE StageEnd(a)
  BY <1>1, <1>3 DEF StageEnd, Types, Trims
<1>4. CASE StageEndRefused(a)
  <2>1. CASE Adds(a)
    BY <1>1, <1>4, <2>1, RemoveKeyTrims DEF StageEndRefused, NoEnd, RemoveKey, Types, Homes
  <2>2. CASE ~Adds(a)
    BY <1>1, <1>4, <2>2, NothingTrims DEF StageEndRefused
  <2>3. QED
    BY <2>1, <2>2
<1>5. CASE StageRefused(a) \/ CollectRead(a) \/ CollectNothing(a) \/ CollectRefused(a)
  BY <1>1, <1>5, NothingTrims DEF StageRefused, CollectRead, CollectNothing, CollectRefused
<1>6. CASE CollectUnlink(a)
  BY <1>1, <1>6, CollectUnlinkTrims DEF CollectUnlink, At, Staging, History
<1>7. QED
  BY <1>2, <1>3, <1>4, <1>5, <1>6 DEF RelayStep

LEMMA RemainsOfCall ==
    ASSUME IInv, CourseInv, Remains, NEW a \in Actors, RelayStep(a)
    PROVE  Remains'
<1>1. /\ UNCHANGED <<backend, serving, button, command>>
      /\ task[a].pc \in Staging \cup Reading /\ task'[a].pc \in InRequest
      /\ \A b \in Actors : b # a => task'[b] = task[b]
      /\ Cli \in Actors /\ Types
  BY RelayStepIs, CommandOf
<1>2. CASE StageAdd(a) \/ StageWrite(a)
  <2>1. PICK home \in Homes : Put(a, home)
    BY <1>2 DEF StageAdd, StageWrite, Homes
  <2>2. task[a].pc \in {"add", "write"}
    BY <1>2 DEF StageAdd, StageWrite, At
  <2>3. task'[a].pc \in {"end", "back"}
    BY <1>1, <1>2, TaskOf DEF StageAdd, StageWrite, Go, Become, Types, Task
  <2>4. QED
    BY <1>1, <2>1, <2>2, <2>3, RemainsOfPut
<1>3. CASE ~StageAdd(a) /\ ~StageWrite(a)
  <2>1. /\ Trims /\ history'.put = history.put
        /\ task[a].pc \in Staging => staged'["file"] = staged["file"]
    BY <1>3, RelayStepTrims
  <2>2. CASE a = Cli
    <3>1. task'[Cli].pc \notin {"refer", "done"} /\ command'.result = command.result
      BY <1>1, <2>2 DEF InRequest, Staging, Reading
    <3>2. QED
      BY <1>1, <2>1, <3>1, RemainsStays DEF Remains
  <2>3. CASE a \in Clicks
    <3>1. ~Outward => task[a].pc \notin Reading
      BY <2>3 DEF IInv, Fits, ClickFits
    <3>2. QED
      BY <1>1, <2>1, <2>3, <3>1, ActorsAre, RemainsServes DEF CourseInv
  <2>4. QED
    BY <2>2, <2>3 DEF Actors
<1>4. QED
  BY <1>2, <1>3

\* The steps of the page's side that are no calls leave the relay as it is.
LEMMA RemainsOfPage ==
    ASSUME IInv, CourseInv, Remains, NEW c \in Clicks, PageStep(c)
    PROVE  Remains'
<1>1. CASE RelayStep(c)
  BY <1>1, ActorsAre, RemainsOfCall
<1>2. CASE ~RelayStep(c)
  <2>1. UNCHANGED <<staged, endless>>
    BY <1>2 DEF PageStep, Press, Serve, Acknowledge, Refuse, HandOver, Write, WriteRefused, Close
  <2>2. history'.put = history.put
    BY <1>2 DEF PageStep, Press, Serve, Acknowledge, Refuse, HandOver, Write, WriteRefused, Close,
       IInv, Types, History
  <2>3. Trims
    BY <2>1, NothingTrims DEF IInv
  <2>4. QED
    BY <2>1, <2>2, <2>3, PageStepIs, RemainsServes DEF CourseInv
<1>3. QED
  BY <1>1, <1>2

LEMMA RemainsGoesOn ==
    ASSUME IInv, CourseInv, Remains,
           StageReturns \/ Trigger \/ Triggered \/ SeeAnswer \/ LookForMarker \/ ReadMarker
             \/ SeeGone \/ Timeout \/ CollectReturns \/ PrintReference \/ Unwind
             \/ TriggerFails \/ Stop
    PROVE  Remains'
<1>1. /\ UNCHANGED <<backend, serving, history>>
      /\ task \in [Actors -> Task] /\ command \in Command /\ Types /\ task[Cli] \in Task
      /\ \A c \in Clicks : task'[c] = task[c]
      /\ command'.name = command.name /\ Cli \in Actors /\ Course
      /\ backend.command \in Homes /\ Home(Cli)' = Home(Cli)
  BY CommandGoesOn, CommandOf DEF CourseInv, Types, Home
<1>2. "value" \in Kinds /\ "cancel" \in Kinds
  BY DEF Kinds
<1>3. Trims
  <2>1. CASE Unwind
    BY <1>1, <1>2, <2>1, UnstagedTrims DEF Unwind, Unwound, Trims, Types, Homes
  <2>2. CASE ~Unwind
    BY <1>1, <1>2, <2>2, NothingTrims, UnstageTrims DEF StageReturns, Trigger, Triggered, SeeAnswer,
       LookForMarker, ReadMarker, SeeGone, Timeout, CollectReturns, PrintReference,
       TriggerFails, Stop
  <2>3. QED
    BY <2>1, <2>2
<1>4. command'.result = "reference" => command'.reference \in history.put
  <2>1. CASE PrintReference
    <3>1. CASE command' = [command EXCEPT !.result = "reference", !.reference = Reference]
      <4>1. Reference \in history.put
        BY <1>1, <2>1 DEF PrintReference, Reference, Remains, At, Homes
      <4>2. QED
        BY <1>1, <3>1, <4>1 DEF Command
    <3>2. CASE End("failed")
      BY <1>1, <3>2 DEF End, Command
    <3>3. QED
      BY <2>1, <3>1, <3>2 DEF PrintReference
  <2>2. CASE ~PrintReference
    <3>1. \/ command' = command
          \/ \E r \in {"failed", "posted", "unasked", "cancelled", "timeout", "answer", "refused"} :
                End(r)
      BY <2>2 DEF StageReturns, Trigger, Triggered, SeeAnswer, LookForMarker, ReadMarker,
         SeeGone, Timeout, CollectReturns, Unwind, TriggerFails, Stop
    <3>2. CASE command' = command
      BY <3>2 DEF Remains
    <3>3. CASE command' # command
      <4>1. PICK r \in {"failed", "posted", "unasked", "cancelled", "timeout", "answer",
                       "refused"} :
              End(r)
        BY <3>1, <3>3
      <4>2. command'.result = r
        BY <1>1, <4>1 DEF End, Command
      <4>3. QED
        BY <4>1, <4>2
    <3>4. QED
      BY <3>2, <3>3
  <2>3. QED
    BY <2>1, <2>2
<1>5. task'[Cli].pc = "refer" =>
        \/ staged'["file"]["value"] # None
        \/ Home(Cli) = "key" /\ "key" \in history.put
  <2>1. CASE SeeAnswer
    <3>1. staged' = staged /\ Exists("value")
      BY <2>1 DEF SeeAnswer
    <3>2. QED
      BY <3>1 DEF Exists, Remains, Homes
  <2>2. CASE ~SeeAnswer
    <3>1. PICK pc \in {"trigger", "done", "asked", "wait", "unwind", "marker"} : Go(Cli, pc)
      BY <2>2 DEF StageReturns, Trigger, Triggered, LookForMarker, ReadMarker, SeeGone,
         Timeout, CollectReturns, PrintReference, Unwind, TriggerFails, Stop
    <3>2. task'[Cli].pc = pc
      BY <1>1, <3>1 DEF Go, Become, Task
    <3>3. QED
      BY <3>2
  <2>3. QED
    BY <2>1, <2>2
<1>6. ASSUME task'[Cli].pc = "done", command'.result # "unasked", Runs("ceremony")
      PROVE  ~ResultLeft'
  <2>1. ~Outward /\ ~Runs("passphrase") /\ ~Runs("copy") /\ ~Runs("show")
    BY <1>6 DEF Runs, Outward
  <2>2. CASE Unwind
    <3>1. staged' = Unstaged("value")
      BY <2>2 DEF Unwind, Unwound
    <3>2. \A home \in Reached : staged'[home]["value"] = None
      BY <1>1, <3>1 DEF Unstaged, Reached, Types, Homes, Kinds
    <3>3. Reached' = Reached
      BY <1>1 DEF Reached
    <3>4. QED
      BY <3>2, <3>3 DEF ResultLeft
  <2>3. CASE TriggerFails
    <3>1. command'.result = "unasked"
      BY <1>1, <2>3 DEF TriggerFails, End, Command
    <3>2. QED
      BY <1>6, <3>1
  <2>4. CASE SeeAnswer
    <3>1. Collect(task[Cli], Cli).pc = "read"
      BY <1>1, CollectTyped DEF Types
    <3>2. task'[Cli].pc \in {"refer", "read"}
      BY <1>1, <2>1, <2>4, <3>1 DEF SeeAnswer, Become
    <3>3. QED
      BY <1>6, <3>2
  <2>5. CASE ~Unwind /\ ~TriggerFails /\ ~SeeAnswer
    <3>1. PICK pc \in {"trigger", "asked", "wait", "unwind", "marker"} : Go(Cli, pc)
      BY <1>1, <2>1, <2>5 DEF StageReturns, Trigger, Triggered, LookForMarker, ReadMarker, SeeGone,
         Timeout, CollectReturns, PrintReference, Stop, Course, At, Runs
    <3>2. task'[Cli].pc = pc
      BY <1>1, <3>1 DEF Go, Become, Task
    <3>3. QED
      BY <1>6, <3>2
  <2>6. QED
    BY <2>2, <2>3, <2>4, <2>5
<1>7. ~Runs("ceremony") => ~ResultLeft'
  BY <1>1 DEF ResultLeft, Runs
<1>8. QED
  BY <1>1, <1>3, <1>4, <1>5, <1>6, <1>7, RemainsStays

LEMMA RemainsKeeps ==
    ASSUME IInv, CourseInv, Remains, [Next]_vars
    PROVE  Remains'
<1>0. Types /\ Course /\ Cli \in Actors
  BY CommandOf DEF CourseInv
<1>1. CASE UNCHANGED vars
  BY <1>0, <1>1, NothingTrims, RemainsServes DEF vars
<1>2. CASE \E name \in Names : Start(name)
  <2>1. PICK name \in Names : Start(name)
    BY <1>2
  <2>2. /\ UNCHANGED <<staged, endless, history, backend>>
        /\ command.result = None
    BY <1>0, <2>1 DEF Start, Course, At
  <2>3. Trims
    BY <1>0, <2>2, NothingTrims
  <2>4. QED
    BY <2>1, <2>2, <2>3, StartsWith, RemainsStays, NoneIsNoResult
<1>3. CASE CommandStep \/ TriggerFails \/ Stop
  BY <1>0, <1>3, RemainsOfCall, RemainsGoesOn DEF CommandStep
<1>4. CASE Kill
  <2>1. /\ UNCHANGED <<backend, staged, endless, command>> /\ task'[Cli].pc = "dead"
        /\ history \in History
    BY <1>4, CommandOf DEF Kill, Go, Become, Types, Task
  <2>2. history'.put = history.put
    BY <1>4, <2>1 DEF Kill, History
  <2>3. Trims
    BY <1>0, <2>1, NothingTrims
  <2>4. QED
    BY <2>1, <2>2, <2>3, RemainsStays DEF Remains
<1>5. CASE TimeUp
  <2>1. /\ command'.name = command.name /\ command'.result = command.result
        /\ command'.reference = command.reference
    BY <1>5, CommandOf DEF TimeUp, Command
  <2>2. UNCHANGED <<backend, staged, endless, button, task, history>>
    BY <1>5 DEF TimeUp
  <2>3. Trims
    BY <1>0, <2>2, NothingTrims
  <2>4. ResultLeft' => ResultLeft
    BY <2>1, <2>2, <2>3, NothingMoreIsLeft
  <2>5. Home(Cli)' = Home(Cli)
    BY <2>2 DEF Home
  <2>6. QED
    BY <2>1, <2>2, <2>3, <2>4, <2>5, RemainsStays DEF Remains
<1>6. CASE \E c \in Clicks : PageStep(c)
  BY <1>6, RemainsOfPage
<1>7. CASE \E home \in Homes : Restart(home)
  <2>1. PICK home \in Homes : Restart(home)
    BY <1>7
  <2>2. UNCHANGED <<staged, endless, command>> /\ backend'.command = backend.command
    BY <1>0, <2>1 DEF Restart, Types
  <2>3. Trims
    BY <1>0, <2>2, NothingTrims
  <2>4. task'[Cli] = task[Cli] /\ history'.put = history.put
    <3>1. CASE serving = None
      BY <2>1, <3>1 DEF Restart
    <3>2. CASE serving # None
      BY <1>0, <2>1, <3>2, ActorsAre DEF Restart, Become, Types, History
    <3>3. QED
      BY <3>1, <3>2
  <2>5. QED
    BY <1>0, <2>2, <2>3, <2>4, RemainsServes
<1>8. CASE \E kind \in Kinds : KeyEnds(kind)
  <2>1. PICK kind \in Kinds : KeyEnds(kind)
    BY <1>8
  <2>2. /\ UNCHANGED <<backend, endless, command, task>> /\ kind \notin endless
        /\ staged' = [staged EXCEPT !["key"][kind] = None]
        /\ history'.put = history.put
    BY <1>0, <2>1 DEF KeyEnds, Types, History
  <2>3. Trims /\ staged'["file"]["value"] = staged["file"]["value"]
    BY <1>0, <2>2 DEF Types, Trims, Homes, Kinds
  <2>4. QED
    BY <1>0, <2>2, <2>3, RemainsServes
<1>9. QED
  BY <1>1, <1>2, <1>3, <1>4, <1>5, <1>6, <1>7, <1>8 DEF Next

-----------------------------------------------------------------------------
(* The answer of a click.                                                  *)

LEMMA TwoClicksExcuse ==
    ASSUME Answers, NEW c \in Clicks, NEW d \in Clicks, c # d, ~At(c, "idle"), ~At(d, "idle")
    PROVE  Excused
BY DEF Answers, Excused

LEMMA ExcusedStays ==
    ASSUME Excused, history.clicks \subseteq history'.clicks, history.lost => history'.lost
    PROVE  Excused'
BY DEF Excused

\* A result is given when the wait is over.
LEMMA NoResultYet ==
    ASSUME Course, Waiting
    PROVE  command.result # "timeout"
BY NoneIsNoResult DEF Course, Waiting

LEMMA CallHistory ==
    ASSUME IInv, NEW a \in Actors, RelayStep(a)
    PROVE  /\ history'.clicks = history.clicks /\ history'.answered = history.answered
           /\ history.lost => history'.lost
<1>1. history \in History
  BY TaskOf
<1>2. CASE CollectUnlink(a)
  <2> DEFINE l == history.lost \/ task[a].value = None
             k == history.consumed \/ (a # Cli /\ task[a].seen.by = Cli)
  <2>1. history' = [history EXCEPT !.consumed = k, !.lost = l]
    BY <1>2 DEF CollectUnlink
  <2> HIDE DEF k, l
  <2>2. /\ history'.lost = l /\ history'.clicks = history.clicks
        /\ history'.answered = history.answered
    BY <1>1, <2>1 DEF History
  <2>3. history.lost => l
    BY DEF l
  <2>4. QED
    BY <2>2, <2>3
<1>3. CASE ~CollectUnlink(a)
  <2>1. \/ history' = history
        \/ \E home : history' = [history EXCEPT !.put = @ \cup {home}]
    BY <1>3 DEF RelayStep, StageClear, StageAdd, StageEnd, StageEndRefused, StageWrite,
       StageRefused, CollectRead, CollectNothing, CollectRefused, Put
  <2>2. QED
    BY <1>1, <2>1 DEF History
<1>4. QED
  BY <1>2, <1>3

\* The history of a step of the page's side, but for that of an acknowledgement.
LEMMA PageHistory ==
    ASSUME IInv, NEW c \in Clicks, PageStep(c)
    PROVE  /\ history.clicks \subseteq history'.clicks
           /\ history.lost => history'.lost
           /\ Press(c) => history'.clicks = history.clicks \cup {c}
           /\ ~Acknowledge(c) => history'.answered = history.answered
<1>1. history \in History /\ Types /\ c \in Actors
  BY ActorsAre DEF IInv, Types
<1>2. CASE RelayStep(c)
  BY <1>1, <1>2, CallHistory, RelayStepIs DEF Press, At, Staging, Reading
<1>3. CASE Press(c)
  BY <1>1, <1>3 DEF Press, History
<1>4. CASE Acknowledge(c)
  <2> DEFINE b == history.answered \/
          /\ task[c].kind = "value"
          /\ task[Cli].pc \in {"asked", "wait", "marker"}
          /\ Home(Cli) = "key" \/ Home(c) = "file"
  <2>1. history' = [history EXCEPT !.answered = b] /\ ~Press(c)
    BY <1>4 DEF Acknowledge, Press, At
  <2> HIDE DEF b
  <2>2. QED
    BY <1>1, <1>4, <2>1 DEF History
<1>5. CASE HandOver(c)
  BY <1>1, <1>5 DEF HandOver, Press, At, History
<1>6. CASE Close(c)
  BY <1>1, <1>6 DEF Close, Press, At, History
<1>7. CASE Serve(c) \/ Refuse(c) \/ Write(c) \/ WriteRefused(c)
  BY <1>1, <1>7 DEF Serve, Refuse, Write, WriteRefused, Press, At
<1>8. QED
  BY <1>2, <1>3, <1>4, <1>5, <1>6, <1>7 DEF PageStep

\* Whoever takes a step has been pressed and has not ended; only a call comes to its end.
LEMMA PageTakesPart ==
    ASSUME IInv, Answers, NEW c \in Clicks, PageStep(c)
    PROVE  /\ ~At(c, "done") /\ ~At(c, "idle")' /\ c \in history'.clicks
           /\ At(c, "back")' => RelayStep(c)
<1>1. /\ history \in History /\ c \in Actors /\ task \in [Actors -> Task] /\ task[c] \in Task
      /\ Types
  BY ActorsAre DEF IInv, Types
<1>2. CASE RelayStep(c)
  <2>1. task[c].pc \in Staging \cup Reading /\ task'[c].pc \in InRequest
    BY <1>1, <1>2, RelayStepIs
  <2>2. QED
    BY <1>2, <2>1, PageHistory DEF At, Staging, Reading, InRequest, Answers
<1>3. CASE Press(c)
  <2>1. PICK kind, v : Become(c, [Idle EXCEPT !.pc = "post", !.kind = kind, !.value = v])
    BY <1>3 DEF Press
  <2>2. task'[c].pc = "post"
    BY <1>1, <2>1 DEF Become, Idle
  <2>3. QED
    BY <1>3, <2>2, PageHistory DEF At, Press
<1>4. CASE ~RelayStep(c) /\ ~Press(c)
  <2>1. task[c].pc \in {"post", "back", "raised", "holding", "offered"}
    BY <1>4 DEF PageStep, Serve, Acknowledge, Refuse, HandOver, Write, WriteRefused, Close, At
  <2>2. task'[c].pc \notin {"idle", "back"}
    <3>1. CASE Serve(c)
      <4>1. Collect(task[c], c).pc = "read"
        BY <1>1, CollectTyped DEF Types
      <4>2. Stage(task[c], c, task[c].kind, task[c].value).pc \in {"clear", "write"}
        BY <1>1 DEF Stage, Task
      <4>3. QED
        BY <1>1, <3>1, <4>1, <4>2 DEF Serve, Become
    <3>2. CASE Refuse(c)
      <4>1. AfterFailure(c).pc \in {"post", "done"} /\ Become(c, AfterFailure(c))
        BY <3>2, AfterFailureTyped DEF Refuse, At
      <4>2. QED
        BY <1>1, <4>1 DEF Become
    <3>3. CASE ~Serve(c) /\ ~Refuse(c)
      <4>1. PICK pc \in {"done", "delivered", "holding", "offered"} : Go(c, pc)
        BY <1>4, <3>3 DEF PageStep, Acknowledge, HandOver, Write, WriteRefused, AfterRetries,
               Close
      <4>2. task'[c].pc = pc
        BY <1>1, <4>1 DEF Go, Become, Task
      <4>3. QED
        BY <4>2
    <3>4. QED
      BY <3>1, <3>2, <3>3
  <2>3. QED
    BY <2>1, <2>2, PageHistory DEF At, Answers
<1>5. QED
  BY <1>2, <1>3, <1>4

\* A click that comes to the end of its call has staged its value.
LEMMA HasStaged ==
    ASSUME IInv, CourseInv, NEW c \in Clicks, ~Outward, RelayStep(c), At(c, "back")',
           task'[c].kind = "value"
    PROVE  staged'[Home(c)]["value"] # None
<1>1. /\ c \in Actors /\ Types /\ task[c] \in Task /\ task[c].pc \in Staging
      /\ task[c].kind = "value" /\ task[c].value # None
  BY ActorsAre, TaskOf, RelayStepIs DEF IInv, Fits, ClickFits, TaskFits
<1>2. task'[c].pc = "back"
  BY DEF At
<1>3. CASE StageEnd(c)
  BY <1>1, <1>3 DEF StageEnd, Adds, CourseInv, InHome, At
<1>4. CASE StageWrite(c)
  <2>1. Put(c, "file") /\ "file" \in Homes /\ Home(c) = "file"
    BY <1>1, <1>4 DEF StageWrite, CourseInv, InHome, At, Homes
  <2>2. QED
    BY <1>1, <2>1, Puts
<1>5. CASE ~StageEnd(c) /\ ~StageWrite(c)
  <2>1. StageClear(c) \/ StageAdd(c) \/ StageEndRefused(c) \/ StageRefused(c)
    BY <1>1, <1>5 DEF RelayStep, CollectRead, CollectNothing, CollectRefused, CollectUnlink, At,
       Staging
  <2>2. PICK pc \in {"add", "end", "raised"} : Go(c, pc)
    BY <2>1 DEF StageClear, StageAdd, StageEndRefused, StageRefused
  <2>3. QED
    BY <1>1, <1>2, <2>2 DEF Go, Become, Types, Task
<1>6. QED
  BY <1>3, <1>4, <1>5

LEMMA AnswersOfPage ==
    ASSUME IInv, CourseInv, Answers, NEW c \in Clicks, PageStep(c)
    PROVE  Answers'
<1>1. /\ UNCHANGED <<backend, button, command>> /\ task'[Cli] = task[Cli]
      /\ \A d \in Clicks : d # c => task'[d] = task[d]
      /\ ~At(c, "done") /\ ~At(c, "idle")' /\ c \in history'.clicks
      /\ history.clicks \subseteq history'.clicks /\ history.lost => history'.lost
      /\ Course /\ c \in Actors
  BY ActorsAre, PageStepIs, PageTakesPart, PageHistory DEF CourseInv
<1>2. \A d \in Clicks : ~At(d, "idle")' => d \in history'.clicks
  <2>1. \A d \in Clicks : ~At(d, "idle") => d \in history.clicks
    BY DEF Answers
  <2>2. history.clicks \subseteq history'.clicks
    BY PageHistory
  <2>3. QED
    BY <1>1, <2>1, <2>2 DEF At
<1>3. Outward' = Outward /\ Waiting' = Waiting /\ \A d \in Clicks : Home(d)' = Home(d)
  BY <1>1 DEF Outward, Waiting, Home
<1>4. Excused => Excused'
  BY PageHistory, ExcusedStays
<1>5. ASSUME NEW d \in Clicks, d # c, ~At(d, "idle")'
      PROVE  Excused'
  BY <1>1, <1>2, <1>5 DEF Excused
<1>6. history.answered => Excused' /\ \E d \in Clicks : At(d, "done")'
  <2>1. ASSUME history.answered PROVE Excused' /\ \E d \in Clicks : At(d, "done")'
    <3>1. PICK d \in Clicks : At(d, "done")
      BY <2>1 DEF Answers
    <3>2. d # c /\ At(d, "done")' /\ ~At(d, "idle")'
      BY <1>1, <3>1 DEF At
    <3>3. QED
      BY <1>5, <3>2
  <2>2. QED
    BY <2>1
<1>7. CASE Acknowledge(c)
  <2>1. /\ At(c, "back") /\ ~Outward /\ task'[c].pc = "done" /\ UNCHANGED <<staged, backend>>
    BY <1>1, <1>7 DEF Acknowledge, Go, Become, IInv, Types, Task
  <2>2. history'.answered =>
          \/ history.answered
          \/ task[c].kind = "value" /\ Waiting /\ (Home(Cli) = "key" \/ Home(c) = "file")
    <3> DEFINE told == /\ task[c].kind = "value"
                       /\ task[Cli].pc \in {"asked", "wait", "marker"}
                       /\ Home(Cli) = "key" \/ Home(c) = "file"
               b == history.answered \/ told
    <3>1. history' = [history EXCEPT !.answered = b] /\ history \in History
      BY <1>7 DEF Acknowledge, IInv, Types
    <3> HIDE DEF b
    <3>2. history'.answered = b
      BY <3>1 DEF History
    <3>3. QED
      BY <3>2 DEF b, Waiting
  <2>3. \E d \in Clicks : At(d, "done")'
    BY <2>1 DEF At
  <2>4. ASSUME Waiting, ~Excused'
        PROVE  /\ history'.answered => Exists("value")'
               /\ \A d \in Clicks : At(d, "back")' /\ task'[d].kind = "value" =>
                    staged'[Home(d)]["value"] # None
    <3>1. history'.answered => Exists("value")'
      <4>1. ASSUME history'.answered PROVE Exists("value")'
        <5>1. task[c].kind = "value" /\ (Home(Cli) = "key" \/ Home(c) = "file")
          BY <1>6, <2>2, <2>4, <4>1
        <5>2. staged[Home(c)]["value"] # None
          BY <1>4, <2>1, <2>4, <5>1 DEF Answers
        <5>3. Home(c) \in Homes
          BY <1>1 DEF Home, IInv, Types
        <5>4. QED
          BY <2>1, <5>1, <5>2, <5>3 DEF Exists, Home, Homes
      <4>2. QED
        BY <4>1
    <3>2. ASSUME NEW d \in Clicks, At(d, "back")' PROVE FALSE
      BY <1>5, <2>1, <2>4, <3>2 DEF At
    <3>3. QED
      BY <3>1, <3>2
  <2>5. AnswerIsSeen'
    <3>1. ASSUME ~Outward, command.result = "timeout", history'.answered PROVE Excused'
      BY <1>1, <1>6, <2>2, <3>1, NoResultYet
    <3>2. QED
      BY <1>1, <1>3, <3>1 DEF AnswerIsSeen, Excused
  <2>6. QED
    BY <1>2, <1>3, <2>3, <2>4, <2>5 DEF Answers
<1>8. CASE ~Acknowledge(c)
  <2>1. history'.answered = history.answered
    BY <1>8, PageHistory
  <2>2. ASSUME ~Outward, ~Excused', NEW d \in Clicks, At(d, "back")', task'[d].kind = "value"
        PROVE  staged'[Home(d)]["value"] # None
    <3>1. d = c
      BY <1>5, <2>2 DEF At
    <3>2. RelayStep(c)
      BY <2>2, <3>1, PageTakesPart
    <3>3. QED
      BY <2>2, <3>1, <3>2, HasStaged
  <2>3. AnswerIsSeen'
    BY <1>3, <1>6, <2>1 DEF AnswerIsSeen, Excused
  <2>4. QED
    BY <1>2, <1>3, <1>6, <2>1, <2>2, <2>3 DEF Answers
<1>9. QED
  BY <1>7, <1>8

\* A step of the command: it goes on to wait with the relay as it is, and gives up only
\* where it sees nothing.
LEMMA AnswersOfCommand ==
    ASSUME IInv, CourseInv, Answers,
           \A c \in Clicks : task'[c] = task[c],
           backend' = backend, command'.name = command.name,
           history'.clicks = history.clicks, history.lost => history'.lost,
           history'.answered = history.answered,
           Waiting' => button = FALSE \/ (Waiting /\ staged' = staged),
           command'.result = "timeout" =>
               \/ command.result = "timeout"
               \/ Waiting /\ (~Outward => ~Exists("value"))
    PROVE  Answers'
<1>1. /\ Outward' = Outward /\ (Excused => Excused')
      /\ Home(Cli)' = Home(Cli) /\ \A c \in Clicks : Home(c)' = Home(c)
      /\ \A c \in Clicks : /\ At(c, "idle")' = At(c, "idle") /\ At(c, "done")' = At(c, "done")
                           /\ At(c, "back")' = At(c, "back")
  BY DEF Outward, Excused, Home, At
<1>2. button = FALSE => ~history.answered /\ \A c \in Clicks : ~At(c, "back")
  BY DEF IInv, Begins, Answers, At
<1>3. ASSUME ~Outward, Waiting', ~Excused'
      PROVE  /\ history.answered => Exists("value")'
             /\ \A c \in Clicks :
                  At(c, "back") /\ task[c].kind = "value" => staged'[Home(c)]["value"] # None
  <2>1. CASE button = FALSE
    BY <1>2, <2>1
  <2>2. CASE Waiting /\ staged' = staged
    BY <1>1, <1>3, <2>2 DEF Answers, Exists
  <2>3. QED
    BY <1>3, <2>1, <2>2
<1>4. AnswerIsSeen'
  <2>1. ASSUME ~Outward, command'.result = "timeout", history.answered PROVE Excused
    BY <2>1 DEF Answers, AnswerIsSeen, Excused
  <2>2. QED
    BY <1>1, <2>1 DEF AnswerIsSeen, Excused
<1>5. \A c \in Clicks : ~At(c, "idle")' => c \in history'.clicks
  BY <1>1 DEF Answers
<1>6. history'.answered => \E d \in Clicks : At(d, "done")'
  BY <1>1 DEF Answers
<1>7. QED
  BY <1>1, <1>3, <1>4, <1>5, <1>6 DEF Answers

LEMMA AnswersGoesOn ==
    ASSUME IInv, CourseInv, Answers,
           StageReturns \/ Trigger \/ Triggered \/ SeeAnswer \/ LookForMarker \/ ReadMarker
             \/ SeeGone \/ Timeout \/ CollectReturns \/ PrintReference \/ Unwind
             \/ TriggerFails \/ Stop
    PROVE  Answers'
<1>1. /\ UNCHANGED <<backend, serving, history>>
      /\ task \in [Actors -> Task] /\ command \in Command /\ Types /\ task[Cli] \in Task
      /\ \A c \in Clicks : task'[c] = task[c]
      /\ command'.name = command.name /\ Cli \in Actors /\ Course
  BY CommandGoesOn, CommandOf DEF CourseInv
<1>2. Waiting' => button = FALSE \/ (Waiting /\ staged' = staged)
  <2>1. CASE Trigger
    BY <1>1, <2>1, CommandOf DEF Trigger, At, Course
  <2>2. CASE Triggered \/ LookForMarker
    BY <2>2 DEF Triggered, LookForMarker, At, Waiting
  <2>3. CASE ReadMarker
    <3>1. CASE Exists("cancel")
      BY <1>1, <2>3, <3>1 DEF ReadMarker, Go, Become, Task, Waiting
    <3>2. CASE ~Exists("cancel")
      BY <2>3, <3>2 DEF ReadMarker, At, Waiting
    <3>3. QED
      BY <3>1, <3>2
  <2>4. CASE SeeAnswer
    BY <2>4 DEF SeeAnswer, At, Waiting
  <2>5. CASE ~Trigger /\ ~Triggered /\ ~LookForMarker /\ ~ReadMarker /\ ~SeeAnswer
    <3>1. PICK pc \in {"trigger", "done", "unwind"} : Go(Cli, pc)
      BY <2>5 DEF StageReturns, SeeGone, Timeout, CollectReturns, PrintReference, Unwind,
         TriggerFails, Stop
    <3>2. task'[Cli].pc = pc
      BY <1>1, <3>1 DEF Go, Become, Task
    <3>3. QED
      BY <3>2 DEF Waiting
  <2>6. QED
    BY <2>1, <2>2, <2>3, <2>4, <2>5
<1>3. ASSUME command'.result = "timeout"
      PROVE  \/ command.result = "timeout"
             \/ Waiting /\ (~Outward => ~Exists("value"))
  <2>1. CASE Timeout
    <3>1. Exists("value") \in BOOLEAN
      BY DEF Exists
    <3>2. QED
      BY <2>1, <3>1 DEF Timeout, TimedOut, At, Waiting
  <2>2. CASE ~Timeout
    <3>1. \/ command' = command
          \/ command' = [command EXCEPT !.result = "reference", !.reference = Reference]
          \/ \E r \in {"failed", "posted", "unasked", "cancelled", "answer", "refused"} : End(r)
      BY <2>2 DEF StageReturns, Trigger, Triggered, SeeAnswer, LookForMarker, ReadMarker,
         SeeGone, CollectReturns, PrintReference, Unwind, TriggerFails, Stop
    <3>2. CASE command' = [command EXCEPT !.result = "reference", !.reference = Reference]
      BY <1>1, <1>3, <3>2 DEF Command
    <3>3. CASE \E r \in {"failed", "posted", "unasked", "cancelled", "answer", "refused"} : End(r)
      BY <1>1, <1>3, <3>3 DEF End, Command
    <3>4. QED
      BY <1>3, <3>1, <3>2, <3>3
  <2>3. QED
    BY <2>1, <2>2
<1>4. QED
  BY <1>1, <1>2, <1>3, AnswersOfCommand

LEMMA AnswersOfRestart ==
    ASSUME IInv, Answers, NEW home \in Homes, Restart(home)
    PROVE  Answers'
<1>1. /\ Types /\ ServesOne /\ UNCHANGED <<staged, command>>
      /\ backend' = [backend EXCEPT !.server = home]
      /\ backend \in [command : Homes, server : Homes]
      /\ task \in [Actors -> Task] /\ history \in History
  BY DEF IInv, Types, Restart
<1>2. Outward' = Outward /\ Home(Cli)' = Home(Cli)
  BY <1>1 DEF Outward, Home
<1>3. CASE serving = None
  <2>1. UNCHANGED <<task, history>>
    BY <1>3 DEF Restart
  <2>2. \A c \in Clicks : ~At(c, "back")
    BY <1>1, <1>3, ActorsAre DEF ServesOne, InRequest, At
  <2>3. Exists("value")' = Exists("value") /\ AnswerIsSeen' = AnswerIsSeen
    BY <1>1, <1>2, <2>1 DEF Exists, AnswerIsSeen
  <2>4. QED
    BY <1>1, <1>2, <2>1, <2>2, <2>3 DEF Answers, At, Waiting, Excused
<1>4. CASE serving # None
  <2>1. PICK d \in Clicks : serving = d
    BY <1>1, <1>4 DEF Types
  <2>2. Become(d, AfterFailure(d)) /\ ~At(d, "idle") /\ ~At(d, "done")
    BY <1>1, <1>4, <2>1 DEF Restart, ServesOne, InRequest, Staging, Reading, At
  <2>3. \A c \in Clicks : c # d => task'[c] = task[c]
    BY <1>1, <2>2, ActorsAre DEF Become
  <2>4. /\ history'.lost /\ history'.clicks = history.clicks
        /\ history'.answered = history.answered
    BY <1>1, <1>4 DEF Restart, History
  <2>5. Excused' /\ AnswerIsSeen'
    BY <2>4 DEF Excused, AnswerIsSeen
  <2>6. \A c \in Clicks : ~At(c, "idle")' => c \in history'.clicks
    BY <2>2, <2>3, <2>4 DEF Answers, At
  <2>7. history'.answered => \E c \in Clicks : At(c, "done")'
    BY <2>2, <2>3, <2>4 DEF Answers, At
  <2>8. QED
    BY <2>5, <2>6, <2>7 DEF Answers
<1>5. QED
  BY <1>3, <1>4

LEMMA AnswersKeeps ==
    ASSUME IInv, CourseInv, Answers, [Next]_vars
    PROVE  Answers'
<1>0. Types /\ Course /\ Cli \in Actors /\ history \in History
  BY CommandOf DEF CourseInv, Types
<1>1. CASE UNCHANGED vars
  BY <1>1, AnswersOfCommand DEF vars, Waiting
<1>2. CASE \E name \in Names : Start(name)
  <2>1. PICK name \in Names : Start(name)
    BY <1>2
  <2>2. /\ UNCHANGED <<staged, history, backend, button>> /\ ~button /\ command.result = None
        /\ \A c \in Clicks : At(c, "idle")
    BY <1>0, <2>1 DEF Start, Course, At, IInv, Begins
  <2>3. /\ ~Waiting' /\ command'.result # "timeout"
        /\ \A c \in Clicks : task'[c] = task[c]
    BY <2>1, <2>2, ActorsAre, StartsWith, NoneIsNoResult DEF Waiting
  <2>4. QED
    BY <2>2, <2>3 DEF Answers, At, AnswerIsSeen
<1>3. CASE RelayStep(Cli)
  <2>1. /\ UNCHANGED <<backend, serving, button, command>> /\ task'[Cli].pc \in InRequest
        /\ \A c \in Clicks : task'[c] = task[c]
    BY <1>0, <1>3, ActorsAre, RelayStepIs
  <2>2. /\ history'.clicks = history.clicks /\ history'.answered = history.answered
        /\ history.lost => history'.lost
    BY <1>0, <1>3, CallHistory
  <2>3. ~Waiting'
    BY <2>1 DEF Waiting, InRequest, Staging, Reading
  <2>4. QED
    BY <2>1, <2>2, <2>3, AnswersOfCommand
<1>4. CASE (CommandStep /\ ~RelayStep(Cli)) \/ TriggerFails \/ Stop
  BY <1>4, AnswersGoesOn DEF CommandStep
<1>5. CASE Kill
  <2>1. /\ UNCHANGED <<backend, staged, button, command>> /\ task'[Cli].pc = "dead"
        /\ \A c \in Clicks : task'[c] = task[c]
    BY <1>0, <1>5, ActorsAre DEF Kill, Go, Become, Types, Task
  <2>2. /\ history'.clicks = history.clicks /\ history'.lost = history.lost
        /\ history'.answered = history.answered
    BY <1>0, <1>5 DEF Kill, History
  <2>3. QED
    BY <2>1, <2>2, AnswersOfCommand DEF Waiting
<1>6. CASE TimeUp
  <2>1. command'.name = command.name /\ command'.result = command.result
    BY <1>6, CommandOf DEF TimeUp, Command
  <2>2. UNCHANGED <<backend, staged, button, task, history>>
    BY <1>6 DEF TimeUp
  <2>3. QED
    BY <2>1, <2>2, AnswersOfCommand DEF Waiting
<1>7. CASE \E c \in Clicks : PageStep(c)
  BY <1>7, AnswersOfPage
<1>8. CASE \E home \in Homes : Restart(home)
  BY <1>8, AnswersOfRestart
<1>9. CASE \E kind \in Kinds : KeyEnds(kind)
  <2>1. UNCHANGED <<backend, command, task>>
    BY <1>9 DEF KeyEnds
  <2>2. /\ history'.lost /\ history'.clicks = history.clicks
        /\ history'.answered = history.answered
    BY <1>0, <1>9 DEF KeyEnds, History
  <2>3. Excused' /\ AnswerIsSeen'
    BY <2>2 DEF Excused, AnswerIsSeen
  <2>4. QED
    BY <2>1, <2>2, <2>3 DEF Answers, At
<1>10. QED
  BY <1>1, <1>2, <1>3, <1>4, <1>5, <1>6, <1>7, <1>8, <1>9 DEF Next

-----------------------------------------------------------------------------
(* The theorems.                                                           *)

RelayInv == IInv /\ CourseInv /\ Outgoing /\ Remains /\ Answers

LEMMA InitiallyAll ==
    ASSUME Init
    PROVE  RelayInv
<1>1. IInv /\ NotStaged
  BY Initially DEF Init, NotStaged, Kinds
<1>2. \A a \in Actors : task[a].pc = "idle"
  BY DEF Init, Idle
<1>3. /\ Cli \in Actors /\ \A c \in Clicks : c \in Actors
      /\ command = [name |-> None, over |-> FALSE, result |-> None, reference |-> None]
      /\ button = FALSE
  BY ActorsAre DEF Init
<1>4. ~Outward
  BY <1>3, ConstantsAssumption DEF Outward, CommandNames
<1>5. CourseInv
  BY <1>2, <1>3, <1>4 DEF CourseInv, Course, InHome, Staging
<1>6. Outgoing
  BY <1>4 DEF Outgoing
<1>7. Remains
  BY <1>1, <1>2, <1>3, NoneIsNoResult DEF Remains, NotStaged
<1>8. Answers
  <2>1. history.answered = FALSE
    BY DEF Init
  <2>2. \A c \in Clicks : At(c, "idle") /\ ~At(c, "back")
    BY <1>2, <1>3 DEF At
  <2>3. ~Waiting /\ AnswerIsSeen
    BY <1>2, <1>3, <2>1 DEF Waiting, AnswerIsSeen
  <2>4. QED
    BY <2>1, <2>2, <2>3 DEF Answers
<1>9. QED
  BY <1>1, <1>5, <1>6, <1>7, <1>8 DEF RelayInv

\* What the theorems below rest on, besides IInv: the course of the command, what it hands
\* out, what it leaves, and the answers of the clicks.
THEOREM AllInvariant == Spec => []RelayInv
<1>1. Init => RelayInv
  BY InitiallyAll
<1>2. RelayInv /\ [Next]_vars => RelayInv'
  <2>1. SUFFICES ASSUME RelayInv, [Next]_vars PROVE RelayInv'
    OBVIOUS
  <2>2. IInv /\ CourseInv /\ Outgoing /\ Remains /\ Answers
    BY <2>1 DEF RelayInv
  <2>3. IInv' /\ CourseInv'
    BY <2>1, <2>2, Step, CourseKeeps
  <2>4. Outgoing' /\ Remains' /\ Answers'
    BY <2>1, <2>2, <2>3, OutgoingKeeps, RemainsKeeps, AnswersKeeps
  <2>5. QED
    BY <2>3, <2>4 DEF RelayInv
<1>3. QED
  BY <1>1, <1>2, PTL DEF Spec

\* From the trigger on, the secret of a command that has not failed is in the relay, on its
\* way to one page, or there, unless a time, a restart, a tab or an image took it.
THEOREM SecretAlwaysKept == Spec => []SecretIsKept
<1>1. RelayInv => SecretIsKept
  <2>1. SUFFICES ASSUME Outgoing, Outward, button, ~Failed
                 PROVE  \/ history.lost
                        \/ \E home \in Homes : staged[home]["value"] # None
                        \/ \E c \in Clicks :
                              /\ task[c].pc \in
                                    {"unlink", "back", "holding", "offered", "delivered"}
                              /\ task[c].value # None
    BY DEF RelayInv, SecretIsKept, Failed
  <2>2. Kept
    BY <2>1 DEF Outgoing, Due
  <2>3. QED
    BY <2>2 DEF Kept, NotStaged, Has
<1>2. QED
  BY <1>1, AllInvariant, PTL

\* `copy --block` says a secret has gone only when the server took it, and `passphrase` names
\* a home the passphrase was put in.
THEOREM AlwaysSaysWhatIsSo == Spec => []SaysWhatIsSo
<1>1. RelayInv => SaysWhatIsSo
  BY DEF RelayInv, Outgoing, Remains, SaysWhatIsSo, Runs, Outward
<1>2. QED
  BY <1>1, AllInvariant, PTL

\* A `copy` or `show` that fails leaves nothing to collect, and a ceremony that ends leaves no
\* result where it could have removed it.
THEOREM NothingEverLeft == Spec => []NothingIsLeft
<1>1. RelayInv => NothingIsLeft
  BY DEF RelayInv, Outgoing, Remains, NothingIsLeft, Empty, Failed, NotStaged, At
<1>2. QED
  BY <1>1, AllInvariant, PTL

\* A wait does not run out on an answer its page was told is staged, unless it was lost or
\* another click was at work.
THEOREM AnswerAlwaysSeen == Spec => []AnswerIsSeen
<1>1. RelayInv => AnswerIsSeen
  BY DEF RelayInv, Answers
<1>2. QED
  BY <1>1, AllInvariant, PTL

=============================================================================
