---------------------------- MODULE RevealWindow ----------------------------
(***************************************************************************)
(* The reveal window of one tab: for a while after an unlock or a proof    *)
(* the eye of the entry popup asks no proof (vault/api.ts).  The popup     *)
(* (vault/dialogs.ts), the panel's actions and reads (vault/panel.ts), the *)
(* commands a notification's button runs (vault/plugin.ts) and the unlock  *)
(* they share (vault/webauthn.ts) all use one client, and each is a task.  *)
(*                                                                         *)
(* A step of a task is the code from one `await` to the next.  The server  *)
(* takes a request at one moment and its answer arrives at a later one, in *)
(* any order.                                                              *)
(***************************************************************************)
EXTENDS Integers, FiniteSets

CONSTANTS
    Popups,         \* bound: entry popups that are open, or closed with a request left
    Uses,           \* what the person does besides: "act", "lock", "command"
    Settings,       \* values of the reveal_seconds setting, in steps of the clock
    Longest,        \* the end of their range
    Default,        \* the tab's window before it has read the setting
    MaxTasks,       \* bound: tasks under way at once
    MaxTicks,       \* bound: steps of time
    MaxTroubles,    \* bound: the system clock set back, a change made elsewhere, an answer lost
    None

ASSUME WindowAssumption ==
    /\ Longest \in Nat /\ Settings \subseteq 0 .. Longest /\ {0, Default} \subseteq Settings
    /\ {MaxTasks, MaxTicks, MaxTroubles} \subseteq Nat
    /\ Uses \subseteq {"act", "lock", "command"}
    /\ Popups \cap {"act", "command", "poll"} = {}
    /\ None \notin Popups \cup {"act", "command"} /\ None \notin BOOLEAN

VARIABLES
    server,     \* is the vault unlocked, and its reveal_seconds setting
    now,        \* `Date.now()`
    api,        \* `_provenAt` (0 is none), `_revealMs`
    task,       \* task -> the async function it runs
    unlocking,  \* the task whose unlock the others join
    seen,       \* `unlocked` in the panel's `_status`
    popup,      \* popup -> what the person sees of it
    past        \* history: what opened the window and for how long, a setting that was
                \* always 0; and what the bounds count

vars == <<server, now, api, task, unlocking, seen, popup, past>>

-----------------------------------------------------------------------------

Tasks == Popups \cup {"act", "command", "poll"}
Busy == task["act"].pc # "idle"
MayStart(t) == task[t].pc = "idle" /\ Cardinality({u \in Tasks : task[u].pc # "idle"}) < MaxTasks

Idle == [pc |-> "idle", asks |-> None, ok |-> FALSE, says |-> None, old |-> FALSE]
Asks(what) == [Idle EXCEPT !.pc = "asked", !.asks = what]
Prompts(what) == [Idle EXCEPT !.pc = "prompt", !.asks = what]
Joined == [Idle EXCEPT !.pc = "joined"]

\* Mutant: a proof later than the clock reads is a proof of now.
ProvenLoosely == api.at # 0 /\ now - api.at < api.length

\* `VaultApi.proven`; no setting is as long as the time since 1970.
Proven == api.at # 0 /\ now - api.at \in 0 .. api.length - 1

Closed == [open |-> FALSE, row |-> FALSE, pending |-> FALSE, shown |-> FALSE]
Modal == \E p \in Popups : popup[p].open

Becomes(t, what) == task' = [task EXCEPT ![t] = what]

\* A run of the panel or of a command is over: `shareUnlock` forgets the unlock, whoever
\* joined it goes on, and each reads the state.
Over(t) == [u \in Tasks |->
    IF u = t \/ (unlocking = t /\ task[u].pc = "joined") THEN Asks("status") ELSE task[u]]

\* `finally`: however the unlock went.
Ends(t) == task' = Over(t) /\ unlocking' = IF unlocking = t THEN None ELSE unlocking

-----------------------------------------------------------------------------
(* The server, and everyone else who changes its vault.                    *)

Elsewhere ==
    /\ past.troubles < MaxTroubles
    /\ server' \in [unlocked : BOOLEAN, seconds : Settings] \ {server}
    /\ server'.unlocked = server.unlocked \/ server'.seconds = server.seconds
    /\ past' = [past EXCEPT !.troubles = @ + 1, !.zero = @ /\ server'.seconds = 0]
    /\ UNCHANGED <<now, api, task, unlocking, seen, popup>>

\* The state is answered to a read and to an unlock.
Answers(t, ok) ==
    task' = [task EXCEPT ![t].pc = "answered", ![t].ok = ok,
                         ![t].says = IF ok /\ task[t].asks \in {"status", "press", "unlock"}
                                     THEN server' ELSE None]

Loses(t) ==
    /\ past.troubles < MaxTroubles
    /\ Answers(t, FALSE)
    /\ past' = [past EXCEPT !.troubles = @ + 1]

\* A password is shown on an unlocked vault only, whatever the proof.
Serve(t) ==
    LET asks == task[t].asks
        Reveals == asks \in {"reveal", "plain"}
        Takes == server' = [server EXCEPT !.unlocked =
                                asks = "unlock" \/ (@ /\ asks # "lock")]
    IN  /\ task[t].pc = "asked"
        /\ \/ /\ Reveals => server.unlocked
              /\ Takes
              /\ (Answers(t, TRUE) /\ UNCHANGED past) \/ Loses(t)
           \/ /\ UNCHANGED server
              /\ \/ /\ asks \in {"unlock", "prove", "reveal"} \/ (Reveals /\ ~server.unlocked)
                    /\ Answers(t, FALSE) /\ UNCHANGED past
                 \/ Loses(t)
        /\ UNCHANGED <<now, api, unlocking, seen, popup>>

\* Time passes; the system clock is set back.
Tick ==
    /\ past.ticks < MaxTicks
    /\ now' = now + 1
    /\ past' = [past EXCEPT !.ticks = @ + 1, !.open = @ + (IF Proven THEN 1 ELSE 0)]
    /\ UNCHANGED <<server, api, task, unlocking, seen, popup>>

SetBack ==
    /\ past.troubles < MaxTroubles
    /\ now' \in 1 .. now - 1
    /\ past' = [past EXCEPT !.setbacks = @ + 1, !.troubles = @ + 1]
    /\ UNCHANGED <<server, api, task, unlocking, seen, popup>>

-----------------------------------------------------------------------------
(* What an answer does to the client, whoever asked.                       *)

\* `_status`: every answer that is the state.
SetsLength(asks) == asks \in {"status", "press", "unlock"}

\* `_proving`: an unlock or an accepted proof.
Proves(asks) == asks \in {"unlock", "prove", "reveal"}

Arrives(t) ==
    LET answer == task[t]
        Stamps == answer.ok /\ Proves(answer.asks)
    IN  /\ answer.pc = "answered"
        /\ api' = [at |-> IF Stamps THEN now ELSE api.at,
                   length |-> IF answer.ok /\ SetsLength(answer.asks)
                              THEN answer.says.seconds ELSE api.length]
        /\ past' = IF Stamps
                   THEN [past EXCEPT !.open = 0, !.stamp = IF answer.old THEN "crossed" ELSE "fresh"]
                   ELSE past
        /\ UNCHANGED <<server, now>>

\* The state the panel keeps, and a run that is over.
StatusArrives(t) ==
    /\ task[t].asks = "status" /\ Arrives(t)
    /\ seen' = IF task[t].ok THEN task[t].says.unlocked ELSE seen
    /\ Becomes(t, Idle)
    /\ UNCHANGED <<unlocking, popup>>

-----------------------------------------------------------------------------
(* panel.ts: the reads, and `_act` with one action at a time.  A popup is  *)
(* modal: what is behind it cannot be pressed.                             *)

Poll ==
    /\ MayStart("poll") /\ ~Busy
    /\ Becomes("poll", Asks("status"))
    /\ UNCHANGED <<server, now, api, unlocking, seen, popup, past>>

\* `_unlockPasskey`, or to join the unlock that a command runs.
ActUnlocks ==
    IF unlocking # None THEN Becomes("act", Joined) /\ UNCHANGED unlocking
    ELSE Becomes("act", Prompts("unlock")) /\ unlocking' = "act"

Act ==
    /\ "act" \in Uses /\ MayStart("act") /\ ~Modal
    /\ \/ seen = FALSE /\ ActUnlocks
       \/ /\ seen = FALSE            \* by a password or the recovery passphrase
          /\ Becomes("act", Prompts("unlock")) /\ UNCHANGED unlocking
       \/ /\ seen # None             \* a passkey or a method is added, a rotation
          /\ Becomes("act", Prompts("prove")) /\ UNCHANGED unlocking
    /\ UNCHANGED <<server, now, api, seen, popup, past>>

\* The lock forgets the proof as it is sent.
Lock ==
    /\ "lock" \in Uses /\ MayStart("act") /\ ~Modal /\ seen = TRUE
    /\ api' = [api EXCEPT !.at = 0]
    /\ task' = [t \in Tasks |->
        CASE t = "act" -> Asks("lock")
          [] task[t].pc \in {"asked", "answered"} -> [task[t] EXCEPT !.old = Proves(task[t].asks)]
          [] OTHER -> task[t]]
    /\ past' = [past EXCEPT !.stamp = "none", !.open = 0]
    /\ UNCHANGED <<server, now, unlocking, seen, popup>>

-----------------------------------------------------------------------------
(* plugin.ts: an unlock and a registration that a command asks for.        *)

\* Mutant: the registration goes on from whatever the tab has read.
RegistersUnread == Prompts("prove")

\* The registration reads the state before it asks the proof.
Registers == Asks("press")

Command ==
    /\ "command" \in Uses /\ MayStart("command")
    /\ \/ /\ unlocking # None
          /\ Becomes("command", Joined) /\ UNCHANGED unlocking
       \/ /\ unlocking = None
          /\ Becomes("command", Asks("press")) /\ unlocking' = "command"
       \/ Becomes("command", Registers) /\ UNCHANGED unlocking
    /\ UNCHANGED <<server, now, api, seen, popup, past>>

\* `readOnPress`: a failed read, and an unlock of an open vault, ask nothing.
PressArrives ==
    LET answer == task["command"]
    IN  /\ answer.asks = "press" /\ Arrives("command")
        /\ IF ~answer.ok \/ (unlocking = "command" /\ answer.says.unlocked)
           THEN Ends("command")
           ELSE /\ Becomes("command", Prompts(IF unlocking = "command" THEN "unlock" ELSE "prove"))
                /\ UNCHANGED unlocking
        /\ UNCHANGED <<seen, popup>>

\* The person answers the prompt, or leaves it.
Prompted(t) ==
    /\ t \in {"act", "command"} /\ task[t].pc = "prompt"
    /\ \/ Becomes(t, Asks(task[t].asks)) /\ UNCHANGED unlocking
       \/ Ends(t)
    /\ UNCHANGED <<server, now, api, seen, popup, past>>

RequestArrives(t) ==
    /\ t \in {"act", "command"} /\ task[t].asks \in {"unlock", "prove", "lock"}
    /\ Arrives(t)
    /\ Ends(t)
    /\ UNCHANGED <<seen, popup>>

-----------------------------------------------------------------------------
(* dialogs.ts: the entry popup (`EntryView`).                              *)

Open(p) ==
    /\ seen = TRUE /\ ~Modal /\ task[p].pc = "idle"
    /\ popup' = [popup EXCEPT ![p] = [Closed EXCEPT !.open = TRUE]]
    /\ UNCHANGED <<server, now, api, task, unlocking, seen, past>>

\* A request it has sent goes on.
Close(p) ==
    /\ popup[p].open
    /\ popup' = [popup EXCEPT ![p].open = FALSE]
    /\ UNCHANGED <<server, now, api, task, unlocking, seen, past>>

\* The eye: a plain read in the window, else the passkey; `_prove`: what the row takes.
Eye(p) ==
    /\ popup[p].open /\ ~popup[p].shown /\ ~popup[p].pending /\ MayStart(p)
    /\ popup' = [popup EXCEPT ![p].pending = TRUE]
    /\ Becomes(p, IF popup[p].row THEN Asks("reveal")
                  ELSE IF Proven THEN Asks("plain") ELSE Prompts("reveal"))
    /\ UNCHANGED <<server, now, api, unlocking, seen, past>>

\* No passkey answered: the row opens, or a failure is said.
NoPasskey(p, row) == [popup[p] EXCEPT !.row = row, !.pending = FALSE]

EyePrompted(p) ==
    /\ task[p].pc = "prompt"
    /\ \/ Becomes(p, Asks("reveal")) /\ UNCHANGED popup
       \/ /\ Becomes(p, Idle)
          /\ \E row \in BOOLEAN : popup' = [popup EXCEPT ![p] = NoPasskey(p, row)]
    /\ UNCHANGED <<server, now, api, unlocking, seen, past>>

\* A reveal reads the panel's state again behind the popup.
RevealArrives(p) ==
    /\ task[p].asks \in {"reveal", "plain"} /\ Arrives(p)
    /\ popup' = [popup EXCEPT ![p].pending = FALSE, ![p].shown = task[p].ok,
                              ![p].row = @ /\ ~task[p].ok]
    /\ Becomes(p, IF task[p].ok THEN Asks("status") ELSE Idle)
    /\ UNCHANGED <<unlocking, seen>>

-----------------------------------------------------------------------------

\* The plugin reads the state when it starts.  The clock can be set back before that.
Init ==
    /\ server \in [unlocked : BOOLEAN, seconds : Settings]
    /\ now = 2
    /\ api = [at |-> 0, length |-> Default]
    /\ task = [t \in Tasks |-> IF t = "poll" THEN Asks("status") ELSE Idle]
    /\ unlocking = None
    /\ seen = None
    /\ popup = [p \in Popups |-> Closed]
    /\ past = [stamp |-> "none", open |-> 0, zero |-> server.seconds = 0,
               ticks |-> 0, setbacks |-> 0, troubles |-> 0]

Receive(t) == StatusArrives(t) \/ RequestArrives(t) \/ (t = "command" /\ PressArrives)

Next ==
    \/ Elsewhere \/ Tick \/ SetBack
    \/ Poll \/ Act \/ Lock \/ Command
    \/ \E t \in Tasks : Serve(t) \/ Receive(t) \/ Prompted(t)
    \/ \E p \in Popups : Open(p) \/ Close(p) \/ Eye(p) \/ EyePrompted(p) \/ RevealArrives(p)

Spec == Init /\ [][Next]_vars

-----------------------------------------------------------------------------

State == [unlocked : BOOLEAN, seconds : Settings]
Requests == {"status", "press", "lock", "unlock", "prove", "reveal", "plain"}

\* Every variable has its shape; an answer that sets the window carries the state.
TypeOK ==
    /\ server \in State
    /\ now \in Nat
    /\ api \in [at : Nat, length : Settings]
    /\ task \in [Tasks -> [pc : {"idle", "joined", "prompt", "asked", "answered"},
                           asks : Requests \cup {None}, ok : BOOLEAN,
                           says : State \cup {None}, old : BOOLEAN]]
    /\ \A t \in Tasks :
        task[t].pc = "answered" /\ task[t].ok /\ SetsLength(task[t].asks) => task[t].says \in State
    /\ unlocking \in {None, "act", "command"}
    /\ seen \in BOOLEAN \cup {None}
    /\ popup \in [Popups -> [open : BOOLEAN, row : BOOLEAN, pending : BOOLEAN, shown : BOOLEAN]]
    /\ past \in [stamp : {"none", "fresh", "crossed"}, open : Nat, zero : BOOLEAN, ticks : Nat,
                 setbacks : Nat, troubles : Nat]

\* The window is open no longer than the longest setting, and once more for each time
\* the system clock was set back (`since >= 0`).
WindowIsBounded == past.open <= (1 + past.setbacks) * Longest

\* With a setting that was 0 all along no reveal goes without a proof, though the tab
\* starts with a window of its own: whatever proves has read the setting first.
ZeroAlwaysAsks == past.zero => ~Proven

\* What opened the window was asked after the tab's last lock: "Locking the vault in the
\* tab ends it" (docs/design-vault.md, the reveal window).
LockEndsWindow == Proven => past.stamp = "fresh"

=============================================================================
