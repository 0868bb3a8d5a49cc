------------------------------- MODULE Relay -------------------------------
(***************************************************************************)
(* One command of the bridge and the relay of its nonce (cli.py, relay.py, *)
(* routes.py, and the page's passkey.ts, passphrase.ts, copy.ts, show.ts). *)
(* A nonce is drawn by the command that uses it, so another command's      *)
(* relay is another instance of this module.                               *)
(*                                                                         *)
(* A value has two possible homes: a kernel key, which can have an end,    *)
(* and a file, which has none.  The command and the server each take one   *)
(* of the two by themselves.  A click is one run of the notification's     *)
(* command in some tab: its button stays live, so there can be several.    *)
(***************************************************************************)
EXTENDS Naturals

CONSTANTS
    Clicks,
    Cli,        \* the command's process
    Names,      \* the commands of this instance: see CommandNames
    Faults,     \* what can happen to them: see FaultKinds
    None

CommandNames == {
    "ceremony",     \* `_run`: `create`, `get`, the vault's ceremonies
    "passphrase",   \* `cmd_passphrase`
    "copy",         \* `cmd_copy` without `--block`
    "block",        \* `cmd_copy --block`
    "show" }        \* `cmd_show`

FaultKinds == {
    "relay",    \* a home refuses: a quota, a full or squatted directory
    "end",      \* the kernel refuses a key's end
    "pipe",     \* the kernel refuses the read of a key
    "ends",     \* a key's time is over
    "trigger",  \* the notification is refused
    "reply",    \* it is raised, and the command does not hear so
    "timeout",  \* the command's wait runs out
    "stop",     \* Ctrl-C in a wait
    "kill",     \* the command is killed
    "restart",  \* the server is, with the request it serves
    "stdout",   \* nobody reads the command's output
    "clipboard",\* the browser refuses a write
    "render",   \* no image can be made of a code
    "close" }   \* the tab is closed

ASSUME ConstantsAssumption ==
    /\ Names \subseteq CommandNames
    /\ Faults \subseteq FaultKinds
    /\ Cli \notin Clicks
    /\ None \notin Clicks \cup {Cli} \cup CommandNames

VARIABLES
    backend,    \* what `backend` says in the command and in the server
    staged,     \* home -> kind -> the value there
    endless,    \* the kinds whose key has no end
    serving,    \* the click whose request the server runs: one handler at a time
    button,     \* the notification is raised
    command,    \* the process: what it runs and how it ended
    task,       \* the step of the process and of each click, and its call of the relay
    history     \* for the properties only

vars == <<backend, staged, endless, serving, button, command, task, history>>

-----------------------------------------------------------------------------

Homes == {"key", "file"}
Actors == Clicks \cup {Cli}

\* "value" is "json", "pass", "secret" or "code", by the command.
Kinds == {"value", "cancel"}

\* Who staged it; a result that is ok; one that a `catch` posts; a value staged when the
\* command had ended.
Value == [by : Actors, ok : BOOLEAN, caught : BOOLEAN, late : BOOLEAN]

Steps == {
    "idle", "post",                     \* a click: unused, its request on its way
    "clear", "add", "end", "write",     \* in `stage`
    "read", "unlink",                   \* in `collect`
    "back", "raised",                   \* `stage` or `collect` has returned, or raised
    "trigger", "asked",                 \* the command: before its notification, and with it
    "wait", "marker", "refer", "unwind",
    "holding", "offered",               \* a click of `copy`: it has the secret
    "delivered",                        \* the clipboard has it, or the image is shown
    "done", "dead" }

Task == [pc : Steps, kind : Kinds, home : Homes, value : Value \cup {None},
         seen : Value \cup {None}]      \* `seen` is the key or file a collect found

Results == {"answer", "refused", "reference", "cancelled", "posted",
            "unasked", "failed", "timeout"}

ASSUME NoneIsNoValue == None \notin Value \cup Results

Command == [name : CommandNames \cup {None}, over : BOOLEAN,
            result : Results \cup {None}, reference : Homes \cup {None}]

History == [
    put : SUBSET Homes,         \* where a value has been staged
    answered : BOOLEAN,         \* a result was acknowledged to the page during the wait
    clicks : SUBSET Clicks,     \* the clicks there were
    got : SUBSET Clicks,        \* those the server gave the secret
    consumed : BOOLEAN,         \* the server has taken the secret out of the relay
    lost : BOOLEAN,             \* a time, a restart or a tab took a value with it
    cut : BOOLEAN ]             \* a writer was killed before it had given its key an end

Idle == [pc |-> "idle", kind |-> "value", home |-> "key", value |-> None, seen |-> None]

At(a, pc) == task[a].pc = pc
Become(a, t) == task' = [task EXCEPT ![a] = t]
Go(a, pc) == Become(a, [task[a] EXCEPT !.pc = pc])

Home(a) == IF a = Cli THEN backend.command ELSE backend.server
Ended == task[Cli].pc \in {"done", "dead"}
Runs(name) == command.name = name

\* The command stages and the page collects; in the others it is the other way round.
Outward == command.name \in {"copy", "block", "show"}

-----------------------------------------------------------------------------
(* relay.py, by whichever process calls it.  A search and the unlink or    *)
(* the pipe that follows it is one step: what comes between them can only  *)
(* take the key away, as it could before.                                  *)

Stage(t, a, kind, v) ==
    [t EXCEPT !.pc = IF Home(a) = "key" THEN "clear" ELSE "write", !.kind = kind, !.value = v]

Collect(t, a) == [t EXCEPT !.pc = "read", !.home = Home(a), !.value = None, !.seen = None]

Put(a, home) ==
    /\ staged' = [staged EXCEPT ![home][task[a].kind] = [task[a].value EXCEPT !.late = Ended]]
    /\ history' = IF task[a].kind = "value"
                  THEN [history EXCEPT !.put = @ \cup {home}] ELSE history

RemoveKey(kind) ==
    /\ staged' = [staged EXCEPT !["key"][kind] = None]
    /\ endless' = endless \ {kind}

\* Whether the key is still the one this call has added.
Adds(a) == LET v == staged["key"][task[a].kind]
           IN  v # None /\ v.by = task[a].value.by /\ v.caught = task[a].value.caught

StageClear(a) ==
    /\ At(a, "clear")
    /\ RemoveKey(task[a].kind)
    /\ Go(a, "add")
    /\ UNCHANGED <<backend, serving, button, command, history>>

StageAdd(a) ==
    /\ At(a, "add")
    /\ Put(a, "key")
    /\ endless' = endless \cup {task[a].kind}
    /\ Go(a, "end")
    /\ UNCHANGED <<backend, serving, button, command>>

StageEnd(a) ==
    /\ At(a, "end")
    /\ Adds(a)
    /\ endless' = endless \ {task[a].kind}
    /\ Go(a, "back")
    /\ UNCHANGED <<backend, staged, serving, button, command, history>>

\* Mutant: the failure is raised and the key stays.
NoEndLeft(a) == UNCHANGED <<staged, endless>>

\* The end is refused, or the reader was faster: no key stays without one.
NoEnd(a) == RemoveKey(task[a].kind)

StageEndRefused(a) ==
    /\ At(a, "end")
    /\ Adds(a) => "end" \in Faults
    /\ IF Adds(a) THEN NoEnd(a) ELSE UNCHANGED <<staged, endless>>
    /\ Go(a, "raised")
    /\ UNCHANGED <<backend, serving, button, command, history>>

StageWrite(a) ==
    /\ At(a, "write")
    /\ Put(a, "file")
    /\ Go(a, "back")
    /\ UNCHANGED <<backend, endless, serving, button, command>>

StageRefused(a) ==
    /\ task[a].pc \in {"add", "write"}
    /\ "relay" \in Faults
    /\ Go(a, "raised")
    /\ UNCHANGED <<backend, staged, endless, serving, button, command, history>>

\* The value is read; a key the kernel does not let be read goes all the same.
CollectRead(a) ==
    /\ At(a, "read")
    /\ LET found == staged[task[a].home]["value"]
       IN  /\ found # None
           /\ \E v \in {found} \cup (IF task[a].home = "key" /\ "pipe" \in Faults
                                     THEN {None} ELSE {}) :
                Become(a, [task[a] EXCEPT !.pc = "unlink", !.value = v, !.seen = found])
    /\ UNCHANGED <<backend, staged, endless, serving, button, command, history>>

\* An empty keyring is followed by a look for a file.
CollectNothing(a) ==
    /\ At(a, "read")
    /\ staged[task[a].home]["value"] = None
    /\ Become(a, IF task[a].home = "key" THEN [task[a] EXCEPT !.home = "file"]
                 ELSE [task[a] EXCEPT !.pc = "back"])
    /\ UNCHANGED <<backend, staged, endless, serving, button, command, history>>

\* A directory that cannot be used raises in a reader that uses it, and is no value to
\* one that only looks there after the keyring.
CollectRefused(a) ==
    /\ At(a, "read")
    /\ task[a].home = "file"
    /\ "relay" \in Faults
    /\ Go(a, IF Home(a) = "file" THEN "raised" ELSE "back")
    /\ UNCHANGED <<backend, staged, endless, serving, button, command, history>>

\* Mutant: a read leaves the value for the next.
TakesNothing(a) == FALSE

\* A key goes by its number, a file by its name.
Takes(a) == task[a].home = "key" => staged["key"]["value"] = task[a].seen

CollectUnlink(a) ==
    /\ At(a, "unlink")
    /\ IF Takes(a)
       THEN /\ staged' = [staged EXCEPT ![task[a].home]["value"] = None]
            /\ endless' = IF task[a].home = "key" THEN endless \ {"value"} ELSE endless
       ELSE UNCHANGED <<staged, endless>>
    /\ history' = [history EXCEPT !.consumed = @ \/ (a # Cli /\ task[a].seen.by = Cli),
                                  !.lost = @ \/ task[a].value = None]
    /\ Become(a, IF task[a].value = None /\ task[a].home = "key"
                 THEN [task[a] EXCEPT !.pc = "read", !.home = "file"]
                 ELSE [task[a] EXCEPT !.pc = "back"])
    /\ UNCHANGED <<backend, serving, button, command>>

\* Mutant: it looks at its own home only.
ExistsHere(kind) == staged[Home(Cli)][kind] # None

\* `relay_exists`, by the command.
Exists(kind) ==
    \/ staged["file"][kind] # None
    \/ Home(Cli) = "key" /\ staged["key"][kind] # None

\* What `unstage` leaves, called by the command.
Unstaged(kind) ==
    [staged EXCEPT !["file"][kind] = None,
                   !["key"][kind] = IF Home(Cli) = "key" THEN None ELSE @]
Unstage(kind) ==
    /\ staged' = Unstaged(kind)
    /\ endless' = IF Home(Cli) = "key" THEN endless \ {kind} ELSE endless

\* `reference`: what names the home of a passphrase.
Reference ==
    IF Home(Cli) = "key" /\ (staged["key"]["value"] # None \/ staged["file"]["value"] = None)
    THEN "key" ELSE "file"

-----------------------------------------------------------------------------
(* cli.py.                                                                 *)

Secret == [by |-> Cli, ok |-> TRUE, caught |-> FALSE, late |-> FALSE]

End(result) == command' = [command EXCEPT !.result = result]

Start(name) ==
    /\ At(Cli, "idle")
    /\ command' = [command EXCEPT !.name = name]
    /\ Become(Cli, IF name \in {"ceremony", "passphrase"}
                   THEN [Idle EXCEPT !.pc = "trigger"]
                   ELSE Stage(Idle, Cli, "value", Secret))
    /\ UNCHANGED <<backend, staged, endless, serving, button, history>>

StageReturns ==
    /\ Outward
    /\ \/ At(Cli, "back") /\ Go(Cli, "trigger") /\ UNCHANGED command
       \/ At(Cli, "raised") /\ Go(Cli, "done") /\ End("failed")
    /\ UNCHANGED <<backend, staged, endless, serving, button, history>>

\* The button is live before the command hears so.
Trigger ==
    /\ At(Cli, "trigger")
    /\ button' = TRUE
    /\ Go(Cli, "asked")
    /\ UNCHANGED <<backend, staged, endless, serving, command, history>>

Triggered ==
    /\ At(Cli, "asked")
    /\ IF command.name \in {"copy", "show"}
       THEN Go(Cli, "done") /\ End("posted")
       ELSE Go(Cli, "wait") /\ UNCHANGED command
    /\ UNCHANGED <<backend, staged, endless, serving, button, history>>

\* What is staged for a button that is not asked for again goes; the trigger of `_run`
\* is outside its `try`.
UndoesTrigger == Outward

TriggerFails ==
    /\ \/ At(Cli, "trigger") /\ "trigger" \in Faults
       \/ At(Cli, "asked") /\ "reply" \in Faults
    /\ Go(Cli, IF UndoesTrigger THEN "unwind" ELSE "done")
    /\ End("unasked")
    /\ UNCHANGED <<backend, staged, endless, serving, button, history>>

\* `_wait` and `_wait_gone`: a round, and with `over` the last look.
SeeAnswer ==
    /\ At(Cli, "wait")
    /\ ~Outward
    /\ Exists("value")
    /\ IF Runs("passphrase") THEN Go(Cli, "refer") ELSE Become(Cli, Collect(task[Cli], Cli))
    /\ UNCHANGED <<backend, staged, endless, serving, button, command, history>>

\* After a look for a passphrase, one for a dismissed dialog.
LookForMarker ==
    /\ At(Cli, "wait")
    /\ Runs("passphrase")
    /\ ~command.over
    /\ ~Exists("value")
    /\ Go(Cli, "marker")
    /\ UNCHANGED <<backend, staged, endless, serving, button, command, history>>

ReadMarker ==
    /\ At(Cli, "marker")
    /\ IF Exists("cancel")
       THEN Unstage("cancel") /\ Go(Cli, "done") /\ End("cancelled")
       ELSE Go(Cli, "wait") /\ UNCHANGED <<staged, endless, command>>
    /\ UNCHANGED <<backend, serving, button, history>>

SeeGone ==
    /\ At(Cli, "wait")
    /\ Outward
    /\ ~Exists("value")
    /\ Go(Cli, "unwind")
    /\ End("posted")
    /\ UNCHANGED <<backend, staged, endless, serving, button, history>>

\* Mutant: the wait ends with its time, without a last look.
TimedOutUnseen == command.over

\* Mutant: a wait for a secret to go has no end.
TimedOutInward == command.over /\ ~Exists("value") /\ ~Outward

\* The last look has not seen what the wait was for.
TimedOut == command.over /\ Exists("value") = Outward

Timeout ==
    /\ At(Cli, "wait")
    /\ TimedOut
    /\ Go(Cli, IF Runs("passphrase") THEN "done" ELSE "unwind")
    /\ End("timeout")
    /\ UNCHANGED <<backend, staged, endless, serving, button, history>>

\* What `_run` makes of its relay.
CollectReturns ==
    /\ ~Outward
    /\ \/ At(Cli, "back") /\ End(CASE task[Cli].value = None -> "failed"
                                    [] task[Cli].value # None /\ task[Cli].value.ok -> "answer"
                                    [] OTHER -> "refused")
       \/ At(Cli, "raised") /\ End("failed")
    /\ Go(Cli, "unwind")
    /\ UNCHANGED <<backend, staged, endless, serving, button, history>>

\* The reference is printed; where it cannot be, the passphrase goes.
PrintReference ==
    /\ At(Cli, "refer")
    /\ Go(Cli, "done")
    /\ \/ /\ command' = [command EXCEPT !.result = "reference", !.reference = Reference]
          /\ UNCHANGED <<staged, endless>>
       \/ /\ "stdout" \in Faults
          /\ End("failed")
          /\ Unstage("value")
    /\ UNCHANGED <<backend, serving, button, history>>

\* Mutant: the relay is left to the time it ends.
UnwoundNothing == staged

\* The `finally` of `_run` and of a wait for a secret, and the undo of a trigger.
Unwound == Unstaged("value")

Unwind ==
    /\ At(Cli, "unwind")
    /\ staged' = Unwound
    /\ endless' = {kind \in endless : Unwound["key"][kind] # None}
    /\ Go(Cli, "done")
    /\ UNCHANGED <<backend, serving, button, command, history>>

TimeUp ==
    /\ "timeout" \in Faults
    /\ task[Cli].pc \in {"wait", "marker"}
    /\ ~command.over
    /\ command' = [command EXCEPT !.over = TRUE]
    /\ UNCHANGED <<backend, staged, endless, serving, button, task, history>>

Stop ==
    /\ "stop" \in Faults
    /\ task[Cli].pc \in {"wait", "marker"}
    /\ Go(Cli, IF Runs("passphrase") THEN "done" ELSE "unwind")
    /\ End("failed")
    /\ UNCHANGED <<backend, staged, endless, serving, button, history>>

Kill ==
    /\ "kill" \in Faults
    /\ ~At(Cli, "idle") /\ ~Ended
    /\ Go(Cli, "dead")
    /\ history' = [history EXCEPT !.cut = @ \/ At(Cli, "end")]
    /\ UNCHANGED <<backend, staged, endless, serving, button, command>>

-----------------------------------------------------------------------------
(* The page and the server's handlers.                                     *)

Answer(c, ok, caught) == [by |-> c, ok |-> ok, caught |-> caught, late |-> FALSE]

\* What a ceremony posts: a credential; no PRF; the error of a refusal, from the `catch`.
CeremonyPosts(c) == {Answer(c, TRUE, FALSE), Answer(c, FALSE, FALSE), Answer(c, FALSE, TRUE)}

\* What the dialog of a passphrase posts, submitted or dismissed.
DialogPosts(c) == {<<kind, Answer(c, TRUE, FALSE)>> : kind \in Kinds}

\* The user presses the button, and the command in the tab comes to its request.
Press(c) ==
    /\ button
    /\ At(c, "idle")
    /\ \E post \in CASE Runs("ceremony") -> {"value"} \X CeremonyPosts(c)
                     [] Runs("passphrase") -> DialogPosts(c)
                     [] OTHER -> {<<"value", None>>} :
          Become(c, [Idle EXCEPT !.pc = "post", !.kind = post[1], !.value = post[2]])
    /\ history' = [history EXCEPT !.clicks = @ \cup {c}]
    /\ UNCHANGED <<backend, staged, endless, serving, button, command>>

\* The handlers are synchronous: the server runs one at a time.
Free == serving = None

Serve(c) ==
    /\ At(c, "post")
    /\ Free
    /\ serving' = c
    /\ Become(c, IF Outward THEN Collect(task[c], c)
                 ELSE Stage(task[c], c, task[c].kind, task[c].value))
    /\ UNCHANGED <<backend, staged, endless, button, command, history>>

\* 204.
Acknowledge(c) ==
    /\ serving = c
    /\ At(c, "back")
    /\ ~Outward
    /\ serving' = None
    /\ Go(c, "done")
    /\ history' = [history EXCEPT !.answered = @ \/
          /\ task[c].kind = "value"
          /\ task[Cli].pc \in {"asked", "wait", "marker"}
          /\ Home(Cli) = "key" \/ Home(c) = "file"]
    /\ UNCHANGED <<backend, staged, endless, button, command>>

\* A failed request: `runPasskey` posts the failure, once; the other commands end.
AfterFailure(c) ==
    IF Runs("ceremony") /\ ~task[c].value.caught
    THEN [task[c] EXCEPT !.pc = "post", !.value.ok = FALSE, !.value.caught = TRUE]
    ELSE [task[c] EXCEPT !.pc = "done"]

\* 500.
Refuse(c) ==
    /\ serving = c
    /\ At(c, "raised")
    /\ serving' = None
    /\ Become(c, AfterFailure(c))
    /\ UNCHANGED <<backend, staged, endless, button, command, history>>

\* The secret or the image for the page, or 404, or no image.
HandOver(c) ==
    /\ serving = c
    /\ At(c, "back")
    /\ Outward
    /\ serving' = None
    /\ \/ /\ task[c].value = None
          /\ Go(c, "done")
          /\ UNCHANGED history
       \/ /\ task[c].value # None
          /\ Go(c, IF Runs("show") THEN "delivered" ELSE "holding")
          /\ history' = [history EXCEPT !.got = @ \cup {c}]
       \/ /\ task[c].value # None
          /\ Runs("show") /\ "render" \in Faults
          /\ Go(c, "done")
          /\ history' = [history EXCEPT !.lost = TRUE]
    /\ UNCHANGED <<backend, staged, endless, button, command>>

\* The clipboard takes the secret: at once, in a retry, or after a click on the offer.
Write(c) ==
    /\ task[c].pc \in {"holding", "offered"}
    /\ Go(c, "delivered")
    /\ UNCHANGED <<backend, staged, endless, serving, button, command, history>>

\* Mutant: the secret is dropped.
DropAfterRetries == "done"

\* The retries are over: the user is offered a click that writes. A refused offer is
\* made again.
AfterRetries == "offered"

WriteRefused(c) ==
    /\ "clipboard" \in Faults
    /\ At(c, "holding")
    /\ Go(c, AfterRetries)
    /\ UNCHANGED <<backend, staged, endless, serving, button, command, history>>

Close(c) ==
    /\ "close" \in Faults
    /\ task[c].pc \in {"holding", "offered"}
    /\ Go(c, "done")
    /\ history' = [history EXCEPT !.lost = TRUE]
    /\ UNCHANGED <<backend, staged, endless, serving, button, command>>

\* The server comes back, perhaps as another version that takes the other home.
Restart(home) ==
    /\ "restart" \in Faults
    /\ backend' = [backend EXCEPT !.server = home]
    /\ serving' = None
    /\ IF serving = None
       THEN UNCHANGED <<task, history>>
       ELSE /\ Become(serving, AfterFailure(serving))
            /\ history' = [history EXCEPT !.lost = TRUE,
                                          !.cut = @ \/ At(serving, "end")]
    /\ UNCHANGED <<staged, endless, button, command>>

\* Mutant: it has the time of any other.
OutlivesNothing(kind) == TRUE

\* A secret that is waited on outlives the wait.
Outlives(kind) == Runs("block") => task[Cli].pc \in {"unwind", "done", "dead"}

KeyEnds(kind) ==
    /\ "ends" \in Faults
    /\ staged["key"][kind] # None
    /\ kind \notin endless
    /\ Outlives(kind)
    /\ staged' = [staged EXCEPT !["key"][kind] = None]
    /\ history' = [history EXCEPT !.lost = TRUE]
    /\ UNCHANGED <<backend, endless, serving, button, command, task>>

-----------------------------------------------------------------------------

Init ==
    /\ backend \in [command : Homes, server : Homes]
    /\ staged = [home \in Homes |-> [kind \in Kinds |-> None]]
    /\ endless = {}
    /\ serving = None
    /\ button = FALSE
    /\ command = [name |-> None, over |-> FALSE, result |-> None, reference |-> None]
    /\ task = [a \in Actors |-> Idle]
    /\ history = [put |-> {}, answered |-> FALSE, clicks |-> {}, got |-> {},
                  consumed |-> FALSE, lost |-> FALSE, cut |-> FALSE]

RelayStep(a) ==
    \/ StageClear(a) \/ StageAdd(a) \/ StageEnd(a) \/ StageEndRefused(a)
    \/ StageWrite(a) \/ StageRefused(a)
    \/ CollectRead(a) \/ CollectNothing(a) \/ CollectRefused(a) \/ CollectUnlink(a)

\* What the command does by itself.
CommandStep ==
    \/ RelayStep(Cli)
    \/ StageReturns \/ Trigger \/ Triggered
    \/ SeeAnswer \/ LookForMarker \/ ReadMarker \/ SeeGone \/ Timeout
    \/ CollectReturns \/ PrintReference \/ Unwind

PageStep(c) ==
    \/ RelayStep(c)
    \/ Press(c) \/ Serve(c) \/ Acknowledge(c) \/ Refuse(c) \/ HandOver(c)
    \/ Write(c) \/ WriteRefused(c) \/ Close(c)

Next ==
    \/ \E name \in Names : Start(name)
    \/ CommandStep
    \/ TriggerFails
    \/ TimeUp \/ Stop \/ Kill
    \/ \E c \in Clicks : PageStep(c)
    \/ \E home \in Homes : Restart(home)
    \/ \E kind \in Kinds : KeyEnds(kind)

Spec == Init /\ [][Next]_vars

\* A process that runs goes on, and its time passes.
FairSpec == Spec /\ WF_vars(CommandStep) /\ WF_vars(TimeUp)

-----------------------------------------------------------------------------
(* Properties.                                                             *)

\* The state has its types; a request that runs is that of the click served.
TypeOK ==
    /\ backend \in [command : Homes, server : Homes]
    /\ staged \in [Homes -> [Kinds -> Value \cup {None}]]
    /\ endless \subseteq Kinds
    /\ serving \in Clicks \cup {None}
    /\ button \in BOOLEAN
    /\ command \in Command
    /\ task \in [Actors -> Task]
    /\ history \in History
    /\ \A c \in Clicks :
         task[c].pc \in {"clear", "add", "end", "write", "read", "unlink", "back", "raised"}
           => serving = c

\* A secret is given to one click at most (the `secret` and `render` handlers, and the
\* destroying read of `collect`), whatever is pressed again, times out or is restarted.
CollectedOnce == \A c, d \in history.got : c = d

\* What a command says is so. `copy --block` says that the secret has gone only when the
\* server took it: it has not run out and has not been removed by the command itself. The
\* reference that `passphrase` prints names a home where the passphrase was put, also when
\* the server's is not the command's (`reference`).
SaysWhatIsSo ==
    /\ Runs("block") /\ command.result = "posted" => history.consumed
    /\ command.result = "reference" => command.reference \in history.put

\* What a command can remove.
Reached == IF Home(Cli) = "key" THEN Homes ELSE {"file"}

ResultLeft ==
    /\ Runs("ceremony")
    /\ \E home \in Reached : staged[home]["value"] # None /\ ~staged[home]["value"].late

\* What a command that ends leaves in the relay. When `copy` or `show` fails, nothing stays
\* for a later press to collect: not after a refused trigger, nor after one whose answer
\* was lost, nor after a wait. A ceremony's result, with its PRF, is not left where the
\* command could have removed it, however the wait ends (`_run`); one staged later is.
NothingIsLeft ==
    At(Cli, "done") =>
        /\ Outward /\ command.result \in {"unasked", "failed", "timeout"}
           => \A home \in Homes : staged[home]["value"] = None
        /\ command.result # "unasked" => ~ResultLeft

\* Every key has an end, except while its writer is about to give it one or was killed
\* there: no other failure leaves a secret in the keyring until the user logs out.
KeysHaveEnds ==
    history.cut \/ \A kind \in endless : \E a \in Actors : At(a, "end") /\ task[a].kind = kind

\* A wait does not end unanswered when the page was told that its answer is staged, in a
\* home the command looks into: the last look finds it. A key that ran out, a restart or
\* another press, which clears the key before it adds one, can take it away.
AnswerIsSeen ==
    /\ ~Outward
    /\ command.result = "timeout"
    /\ history.answered
    => history.lost \/ \E c, d \in history.clicks : c # d

\* From the trigger to the end of a command that has not failed, its secret is in the
\* relay, on its way to one page, or there; it goes with a time that is over, a server
\* or a tab that ends, or an image that fails, and with nothing else.
SecretIsKept ==
    /\ Outward
    /\ button
    /\ command.result \notin {"unasked", "failed", "timeout"}
    => \/ history.lost
       \/ \E home \in Homes : staged[home]["value"] # None
       \/ \E c \in Clicks :
             /\ task[c].pc \in {"unlink", "back", "holding", "offered", "delivered"}
             /\ task[c].value # None

\* A command with a finite `--timeout` ends.
CommandEnds == ~At(Cli, "idle") ~> Ended

=============================================================================
