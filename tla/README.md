# TLA+ for jupyterlab_passkey_extension

A JupyterLab extension that keeps a password vault opened by passkeys, and that hands
secrets between a browser tab, the Jupyter server and command-line processes. This
directory holds its specifications: TLA+ modules translated from the source, TLC
configurations that check them on small instances, and proofs checked by TLAPS.

    tlc -workers 2 -config vault_one_server.cfg MCVaultKeys.tla
    tlapm VaultKeys_proofs.tla

`PROJECT.json` lists the components, the runs, a mutant for each property, the source
lines each definition stands for, the hazards of the code and the theorems.

## The system

| Part | Code | State | Operations |
|---|---|---|---|
| Vault file | `vault/store.py` | one JSON file: slots that each wrap the root key, the data key sealed under the root, the entries, the app's secret and the pair's public key sealed under the data key | each change is load, check, rewrite under a `flock`, and rename |
| Vault service | `vault/service.py` | memory of one server: whose key it held, wrong codes, the last code's time step, the live challenge | one method per REST action; synchronous, so one server serves one request at a time |
| Vault routes | `vault/handlers.py` | none | tables from actions to service methods, exceptions to answers |
| Key holders | `vault/holders.py` | the held root and data key, with an expiry: kernel keyring, a gpg-agent, or the server's memory | put, get, clear, remaining |
| Passkey check | `vault/webauthn.py` | none (fido2) | verify a registration or an assertion over a challenge |
| App codes | `vault/totp.py` | none | the time step a code belongs to |
| Python client | `vault/client.py` | `unlock-wait.json` in the relay directory, shared by the processes of a user | claim, share, end, drop a pending notification |
| Vault command line | `vault/cli.py`, `gitcred.py`, `awscred.py` | none | flows over the client; credential helpers |
| Relay | `relay.py` | one-shot values with a time to live, in the kernel keyring or in a directory | stage, collect, exists, unstage |
| Command line | `cli.py` | a nonce per command | trigger a notification, wait, collect |
| Relay routes | `routes.py` | none | stage the page's answer, collect what a command staged |
| Browser commands | `src/copy.ts`, `passkey.ts`, `passphrase.ts`, `show.ts` | one flow each | collect once, write the clipboard, offer recovery |
| Panel | `src/vault/panel.ts`, `dialogs.ts` | the status shown, busy, refresh in flight | actions and refreshes |
| Page's vault client | `src/vault/api.ts`, `webauthn.ts`, `plugin.ts` | the proven window, the unlock in flight, notifications | prove, unlock once for many callers, register |

How they meet:

- A command-line process asks the server to show a notification, the page acts and answers
  through the server, and the process reads the relay or the vault's status. The page posts
  a passkey's PRF straight to the server.
- Every server of a user works on one vault file. A server reads the file, derives keys,
  and later writes the file or puts a key into the holder: the file's lock covers one
  read-modify-write and nothing more.
- The holder outlives a server when it is the kernel's or the agent's, and ends a key by
  itself at the unlock duration.
- The processes of a user share one record of a pending unlock, which any server removes
  on any unlock.

What is hard here: requests of two servers interleaved between the lock's holds; a step
that fails after an earlier one was durable (a rename, an app written, a key dropped); the
loss of a server's memory while the holder keeps the key; time limits that race an answer;
one-shot values with two possible homes; a waiting process whose notifier dies.

## What makes each part correct

- **File**: whoever opens any slot reads everything; a slot wraps this vault's root and no
  other; no acknowledged entry, slot or passphrase is lost to another request; a data key
  that was left never returns.
- **Held key**: it reads the entries, or there is none.
- **Codes and challenges**: each is good once; wrong codes are bounded on all paths
  together; an assertion counts for the newest challenge, in its time.
- **Holder**: a key is handed out for its own vault only, never after its end; a timer of an
  old key leaves a new one alone; a key that is held is shown as held.
- **git**: a migrate loses no credential and git gets the answers it got; what a command
  takes out of git's config has a way back; no helper writes a removed file again.
- **Shared unlock**: at most one notification of an operation while its process lives, and
  every waiting process ends.
- **Relay**: a value is collected at most once, by its nonce, within its time; a miss is
  never a wrong value.
- **Browser**: a collected secret is copied, offered again or dropped in sight of the user;
  the panel comes to show the vault as it is; a notification lasts as long as its reason; a
  passkey the vault may have is not removed; nothing is revealed without a proof in the
  window.

## Modules

### VaultKeys

The vault file, the holder entry and the requests of any number of servers
(`vault/store.py`, `vault/service.py`).

- `file` is the document. What is sealed is represented by the key it is sealed under:
  `entriesKey`, `appKey` and `pairKey` name a root (version 1) or a data key, `dataKey` is
  what `data_key` opens to, and a slot is the root it wraps, the secret that opens it and
  whether an old KDF made it. A root is named by its vault, because `create` draws both
  once and no code redraws a root.
- `held` is the holder entry of each vault id, shared by the servers (the kernel's and the
  agent's are; with the in-memory holder the instance with one server is the real one).
- `task` is the request each server is serving. `pc` marks the places where the handler
  has released the file's lock or left the holder, so another server can step in between:

  | `pc` | next in the code |
  |---|---|
  | `open` | `init` loads the file it created |
  | `adopt` | `adopt_data_key` |
  | `adopted` | reload and `_drop_old_key` |
  | `upgrade` | `_upgrade_slot` |
  | `rotate` | `rotate_data_key` |
  | `rotated` | `_drop_old_key` |
  | `write` | a store function that adds or removes a slot, or `update_entries` |
  | `hold` | `_hold` |

- `lastHeld` is `_held`. `spent`, `known` and `kept` are histories the properties use.
- `held[v].left` is a history too: the drop of this key did not reach the agent. `clear` of the
  agent's holder passes over an `OSError`, so that `_drop_old_key`, a lock and the undo of a
  refused put return as if they had been served (fault `clear`: `ClearIsLost`, and in `Lock` and
  `HoldFails`).

An action is one access: `Rotate` is everything `rotate_data_key` does under the lock, with
the three ways `_write` can end (`ok`, `write`: it raised before the rename, `late`: it
raised after it). A request is sent with the right secret; one with a wrong secret changes
nothing here. `edit`, `import_entries` and the last-use stamp are `update_entries` with
another change of the same list, and are represented by `add` and `delete`.

### VaultProofs

What a server demands before it acts, with its memory (`vault/service.py`,
`vault/webauthn.py`, `vault/totp.py`): `memory` is `_wrong_codes`, `_last_step` and
`_challenge`. One step per request, because a handler is synchronous and this memory is of
one server. A code is a secret and a time step, accepted one step around the clock. An
assertion is a challenge and a sign count, which may be any count: authenticators are
restored and copied. A restart clears the memory and not what the holder keeps, as in
the code. `uses`, `served`, `guesses` and `newest` are histories. The page draws a new
secret for each app (`newSetupKey`), which `CanAddMfa` takes from it. The clock does not
go back.

VaultProofs and VaultKeys share the service's methods and look at different state of them:
VaultKeys at what a request reads and writes outside its server, VaultProofs at what the
server remembers. Neither restricts the other: in VaultKeys a proof is a slot that exists
or a held key.

### UnlockShare

The processes of a user that share one pending unlock, or one pending set-up
(`vault/client.py`, with `_wait` of `cli.py`, `end_unlock_wait` of `relay.py` and `_hold`
and `init` of the service).

- `record` is `unlock-wait.json`; `NoRecord` is a record that is missing, does not parse or
  has run out. `WaitRecord` is what `_wait_record` reads.
- `vault` is what a status says, `serving` how far the server is: it creates a file, holds a
  key, and removes the record, in three steps, without the lock the processes take.
- `task` is the call of each process. `pc` marks where others can step in between:

  | `pc` | next in the code |
  |---|---|
  | `refusal` | `_refuse_after_no_answer` |
  | `check` | the status at the head of `unlock` |
  | `claim`, `claiming` | `_claim_unlock`: its read, its write, under the lock |
  | `share`, `look` | `_share_unlock`: the record, then the status |
  | `notify`, `wait`, `last` | `browser_step`: the trigger, a round of `_wait`, the last look |
  | `end` | `_end_unlock` |
  | `drop` | `_drop_claim` |

- A line (`why`) is the operation whose end it tells. Time is what has run out: `over` for a
  process's deadline, `RecordEnds` for an end on record.

A process makes one call. Taken from outside the module: a process id is not used again
while a record names it, the clock is not set back, and a claim's time (the wait and the
trigger's limit on top) is enough for its process. A relay directory that cannot be used,
where each process asks by itself, is left out. After a press the vault may be locked again
before the process that asked reads the status, and another asks too, with the first's
notification spent; `share_one_operation`, which checks `OneNotification`, has no lock.

### Relay

One command of the bridge and the relay of its nonce (`cli.py`, `relay.py`, `routes.py`,
and the page's `passkey.ts`, `passphrase.ts`, `copy.ts`, `show.ts`). A nonce is random and
its command's own, so two commands are two instances.

- `staged` is what each home has under the nonce, by kind: `value` is `json`, `pass`,
  `secret` or `code`, by the command. The homes are the kernel's keyring (`key`) and the
  relay directory (`file`). `endless` are the keys without a time.
- `backend` is what `backend()` says in the command and in the server. All four pairs are
  initial states: the two probe by themselves, and a server may be of an older version.
- `task` is the step of the process and of each click, and its call of the relay. `stage`
  and `collect` are the same actions for whoever calls them:

  | `pc` | next in the code |
  |---|---|
  | `clear`, `add`, `end` | `_keyctl_stage`: its unlink, `padd`, `timeout` |
  | `write` | `write_relay` |
  | `read`, `unlink` | `_keyctl_collect`, then `_shm_collect` where it found nothing |
  | `back`, `raised` | the caller, after a return or an `OSError` |
  | `trigger`, `asked` | `_trigger`: before its POST, and before its answer |
  | `wait`, `marker` | a round of `_wait` or `_wait_gone`; its look for a cancel |
  | `refer`, `unwind` | `reference` and the print; the `finally` or `except` that unstages |
  | `post` | the page's request is on its way |
  | `holding`, `offered`, `delivered` | `runCopy` with the value; the offer; the clipboard or the image |

- `serving` is the click whose request the server runs. The handlers are synchronous, so
  one runs at a time; a command reads and removes between any two of its calls to the
  kernel.
- `command` is the process's own state, `history` what the properties ask about.

A click is one run of the notification's command: its button stays live, in every tab. A
search and the unlink or the read that follows it are one step, because what comes between
can only take the key away, as it could before.

### KeyHolder, Holders

`KeyHolder` is what the service counts on from a holder, whichever it has: a key is kept from a
put until its end, and goes before it only by a call on its own vault, a restart of what keeps
it, a put with another duration than the one an agent has for all, or the next key of a holder
of one. A clear of the agent may be lost (`Miss`). `Holders` is the three classes of
`vault/holders.py`, and `Abstract!Spec` is a property of it: the refinement maps `held` and
`ends` to what `get` returns (`HeldKeys`, `HeldEnds`), `call` to what each caller asks for and
whether it has had its effect (`CallsMade`, `Done`), `duration` to `gpg-agent.conf.loaded`, and
the history `steady` to itself.

- `kind` is what `select` chose. `entry` is what is stored for each vault, the key and its
  expiry: two keys of the keyring with their serial numbers, two cache entries of the agent,
  or the page of memory. The kernel and the agent end an entry by themselves (`Tick`).
- `agent` is `gpg-agent.conf`, the record of the config last loaded, and what the agent runs.
- `timer` and `late` are the timer of the in-memory holder and the ones that have fired and
  wait for its lock: a cancel does not reach those.
- `task` is the call of each caller, one step per access:

  | `pc` | next in the code |
  |---|---|
  | `dropKey`, `dropExpiry` | `KeyctlHolder.clear`, also at the head of its `put` and where that fails |
  | `addKey`, `endKey`, `addExpiry`, `endExpiry` | `KeyctlHolder._add`: `padd`, then `timeout`, for each of the two |
  | `conf`, `reload`, `record` | `GpgAgentHolder.put`: the config, `RELOADAGENT`, the record |
  | `presetKey`, `presetExpiry` | its two `_preset` |
  | `clearBoth` | `GpgAgentHolder.clear`, one conversation: the agent has it (`ClearBoth`) or not (`ClearMissed`) |
  | `locked` | a method of `MemoryHolder`, under its lock |

- `promised` is a history: the end the last put of a vault promised, and `None` where two calls
  on one vault crossed, one was cut, or the undo of a put did not reach the agent.
  `HeldAsPromised` is about the rest: of two crossing puts the keyring can have one's key with
  the other's end. A clear that is lost takes nothing from what was promised before it.
- `steady` is a history: the agent's setting changed only while no put was under way and the
  last one had put its reload on record (`Settled`). The setting itself changes at any time
  (`ChangeSetting`). Where it changed beside a put, the agent may run another duration than the
  one on record, and `HeldAsPromised` says nothing of an agent's ends from then on;
  `EndsAsPromised` would, and fails.

Two puts of the agent's holder that both find a reload to be made, before either has it on
record, cross only with the fault `crossed`, which `holders_crossed.cfg` has and `holders.cfg`
has not: `KeyHolder`'s `Flush` is for a put with another duration than the one on record, as
`holders.py:263-266` say, and a second reload is not one.

Left out: a server that is killed between a `padd` and its `timeout` leaves a key without an end
(`KeyHolder` has `Never` for it). An unlink of the kernel's holder is served: `clear` does not
look at its result. A keyring entry that a session could not search, and so stored twice, is one
entry here.

### GitCred, GitHelper

`GitCred` is the algorithms: `select` and `_lookup` of `vault/gitcred.py`, git's own `store`
helper (external, from what the comments and tests say of it), and `_same_account` and
`_sort_lines` of `vault/cli.py`. A url is what it decodes to. What a comprehension or a loop of the
code makes of a list is `Picked` and `Those` (the elements of a list at some places, or of a
set), and `SortLines` (`SortLine` for each line in turn), recursive functions of the prefix.

`GitHelper` is `git install`, `git uninstall` and `git migrate` over them.

- `config` is git's config files, each with the values of `credential.helper` and of one
  url-scoped key, in order. A value (`HelperValues`) is `store`, `file` (a store with `--file`),
  `ours`, any other, or `""` (`Reset`), which empties git's list. The global scope is two files.
- `disk` is the store files, `vault` the entries. `task` is the command: what it has read, the
  writes it is about to make (`plan`), and what it took out (`gone`).
- `said` is the values whose way back was printed. `dropped`, `retired` and `kept` are
  histories: values taken out, files removed, credentials to keep.

Of the constants `GitAssumption` says what the code makes so. A migrate acts on the global
config, as `cmd_git_migrate` does. A line is a url, so that it has a scheme when it has a host.
`Span` is the time from one command to the next, of any length, and the entries of the vault
have any dates. The dates of a migrate step back a second a line, so that they can reach past an
entry made a moment before, and that entry answers in place of a line: `AnswersAsBefore` is
about the entries of this migrate's lines and those older than every one of them
(`AddedOrOlder`).

One action is one new list of values for a key of a file (`_set_helpers`), one read of the
stores, one request, one removed file. A list of several values is a `--replace-all` and an
`--add` for each further one: `WriteCut` is such a write that fails, or whose command is killed
or interrupted, with the first of its values written. A failure ends the command at `cut`;
nothing is printed of the values this key lost, because `_remove_helpers` adds them to `done`
after the write. Beside the command git stores credentials with whatever helper it runs
(`GitStores`), the user adds entries, and the command fails or is killed at any step. Left out:
a dry run, quoting and `--file` spellings (`_store_files` takes a value apart; here a value
names its file), an empty value under a url, and what git stores between two values of one
write.

### VaultPage

One tab: `refresh`, `_tick` and `_act` of `vault/panel.ts`, `watch` and `dismissStale` of
`vault/plugin.ts`, `registerPasskey` and `stored` of `vault/webauthn.ts`.

- `vault` is what the server has. `wire` is the requests and answers under way: the server
  answers at one moment and the page takes the answer at a later one.
- `task` is one run of an async function, one step from an `await` to the next. A reader is a
  `refresh` or a `_tick`; `act` is the action behind `_act`, which excludes another.
- `view` is `_status`, `_entries` and `_readError`; `drawn` is what the body was drawn from.
- `note` is the unlock notification, `passkey` what became of a new passkey.

The state is whether the vault is unlocked and the change it stands at, which stands for all
that `shape` compares. `Faults = {"late"}` lets answers overtake each other, as concurrent
requests can. Left out: hiding the panel, the message line, dialogs, a notification whose time
is over; the window of a proof and the shared unlock are RevealWindow's.

### RevealWindow

What one tab has proved: `proven`, `_status` and `_proving` of `vault/api.ts`, the entry popup
of `vault/dialogs.ts`, `shareUnlock` of `vault/webauthn.ts`, and the commands of
`vault/plugin.ts` and actions of `vault/panel.ts` that prove.

- `api` is `_provenAt` and `_revealMs`, `now` the clock they are compared with, which can be set
  back. `server` is whether the vault is open and the `reveal_seconds` setting.
- `task` is one run of an async function: a popup's eye, the panel's action, a command, a poll.
  `prompt` is all that asks the person something, `asked` and `answered` a request before and
  after the server took it, `joined` a wait for the unlock of another (`unlocking`).
- `popup` is what is seen of an entry: the row for a typed proof, the eye that waits
  (`_pending`), the password. A popup that is closed leaves its request under way.
- `past` is history: whether what opened the window was asked before or after the tab's last
  lock, and how long it has been open.

Answers overtake each other freely. Left out: requests with no proof (edits, deletions), the
entries beside a status, the local countdown, which row a proof is typed in, and what is pressed
behind a command's dialog, which the model allows and the browser does not.

### VaultKeys_proofs, UnlockShare_proofs, VaultProofs_proofs, Holders_proofs, Relay_proofs, RevealWindow_proofs, VaultPage_proofs, GitHelper_proofs

The theorems, of each component in a module of its own.

## Runs

| Run | Instance | Checks |
|---|---|---|
| `vault_one_server` | 1 server, 3 data keys, every request, failed writes, refused holds, lost clears | `HeldKeyReads` |
| `vault_two_servers_keys` | 2 servers, 2 vaults, 2 passphrases, the file removed and created again, late failures | `SlotsWrapRoot`, `RecoveryOpens`, `DataKeysAreFresh` |
| `vault_two_servers_writes` | 2 servers, unlocks beside added pairs and entries, crashes | `SealedTogether`, `EntriesKept`, `WritesOneSlot` |
| `vault_stale_hold` | 2 servers, no failures | `HeldKeyReads` fails |
| `proofs` | 1 app, 2 challenges, 3 clock steps, 2 wrong codes, counts 0 to 2, restarts, failed writes | `CodeTakenOnce`, `GuessesAreBounded`, `ChallengeServesOnce`, `SignCountRises` |
| `share_one_operation` | 3 processes, unlocks; kills, interruptions, failed triggers, pages and statuses, deadlines | `OneNotification`, `ClaimIsHeld`, `TakesOverLost` |
| `share_ends` | 2 processes, one with no deadline, both operations; every failure but a trigger's, locks, the file removed | `OwnLine`, `EveryCallEnds`, `OnePressForAll`, `AskedAgain` |
| `relay_commands` | 5 commands, 2 clicks, 2 homes on each side, every failure | `CollectedOnce`, `SaysWhatIsSo`, `NothingIsLeft`, `KeysHaveEnds`, `AnswerIsSeen`, `SecretIsKept`, `CommandEnds` |
| `holders` | 3 holders, 2 callers, 2 vaults, 2 durations, 3 calls, 3 times, every failure but crossed reloads | `HeldAsPromised`, `MemoryIsWiped`, `ImplementsKeyHolder` |
| `git` | 12 configs, 4 store states, 4 lines, 2 commands of 6, one credential stored by git, every failure, writes cut between two values | `NothingLost`, `RemovedStaysRemoved`, `OursComesFirst`, `WayBackIsTold`, `AnswersAsBefore`, `OthersAreKept` |
| `page` | 1 reader and 1 action, unlocks and a registration, 2 changes, 1 failure, answers in order | `KeepsStoredPasskey`, `NoteStaysUntilReached`, `PanelSettles`, `NoteGoes` |
| `reveal_window` | 1 popup, the panel's actions and lock, and a command; 2 tasks at a time; settings 0 and 1; 3 steps of time; one trouble: the clock set back, a change elsewhere or a loss | `WindowIsBounded`, `ZeroAlwaysAsks` |

Six more configurations are counterexamples to keep beside the code, and not among the runs of
`PROJECT.json`. Each violates the property it names:

| Configuration | Module | Instance | Violates |
|---|---|---|---|
| `page_overtaken` | `MCVaultPage` | 1 reader, unlocks, 2 changes, no failure, answers that overtake | `LockedIsDrawn` |
| `reveal_crossed` | `MCRevealWindow` | as `reveal_window`, with no time and no trouble | `LockEndsWindow` |
| `vault_lost_drop` | `MCVaultKeys` | 1 server, refused holds, lost clears | `AlwaysReads` |
| `holders_crossed` | `MCHolders` | as `holders`, with 4 calls and puts that both reload | `ImplementsKeyHolder` |
| `holders_unsettled` | `MCHolders` | as `holders`, with 4 calls | `EndsAsPromised` |
| `git_cut` | `MCGitHelper` | as `git`, with 1 command and failing writes alone | `WayBackIsToldOfACut` |

Bounds. Two servers are enough to put any step of one between any two of another; what a
third could add is what a second request of one of them adds, and the proofs have no such
bound. Two data keys allow an adoption or creation and then a rotation; three allow a
second rotation. Two vaults and two phrases are a thing and its replacement. Three clock
steps let a code leave the window of three while the next ones come; `MaxWrong` is 5 in the
code and 2 here, which keeps the last allowed code and the first refused one apart. Two
challenges are one and its replacement. Symmetry is over model values no definition tells
apart; every symmetric run checks safety only. The system may stop (nobody sends a
request, or the keys to draw are used up), so no run checks deadlock.

Three processes are one that asks and two that wait and race for its claim; two are enough
for what one owes the other. In `share_ends` one of them has no deadline (`--timeout inf`):
a deadline ends every wait by itself, which would make `AskedAgain` empty.

Two clicks are a collector and its rival, or an answer and the one that stages over it; a
third meets what the second left. `relay_commands` needs no symmetry.

Three calls in `holders` are a put, one that crosses or undoes it (or a change of the setting
beside it), and one that finds what they left; three times are a put, its end and one after; one
key value is enough, because a key is told apart by its vault. In `git`, two commands are a
migrate and what repairs or repeats it; the configs have a store in each scope and file, a reset
before and after others, and a url-scoped value. In `page`, two changes are a lock and an
unlock, or an action and what somebody else does; a second reader would only be another answer
under way.

In `reveal_window` a setting of 1 is a window of one step of the clock: three steps are the
window, its end, and one after the clock was set back. `MaxTasks` is two because what can go wrong
here is one request answered while another goes on; one popup is enough, because a request left
by a closed popup keeps that popup from opening again and no other waits for it. The proofs have
neither bound, and are about every combination of troubles.

Fairness is in three runs. `share_ends` has `WF(Step(p))`, because the system runs every process that
has not been killed and a poll that can see the vault open comes to see it, and
`WF(TimeOut(p))`, because time passes. Nothing is assumed of the user, the page or the
server: nobody has to press. The two properties of a wait without a deadline are under
`ReadsStatus`, that the reads of the status do not fail for ever; `EveryCallEnds` is not.
`relay_commands` has `WF(CommandStep)` and `WF(TimeUp)` for the same two reasons, and nothing
of the page or the server. `page` has weak fairness of the answer to each request
and of its arrival, of the poll (`setInterval` fires), and of the two steps of a registration
the user has begun, and nothing of the user or of what others do. A hidden tab polls nothing
until it is shown, and that is not modelled: the tab is visible.

### What the runs show

- With one server and no failure after a rename, an open vault reads its entries: the old key is
  dropped in the moment after the file took a new one, so that a holder which refuses leaves a
  locked vault. That needs the drop to be served.
- **A drop the agent does not get** (`vault_lost_drop`): `_drop_old_key` calls a `clear` which
  passes over its failure (`holders.py:394-399`). The hold that follows is refused by the same
  agent, and the old key stays held over entries sealed under the new one, with one server and
  no crash: what `service.py:269-271` say the drop is there to prevent. `HeldKeyReads` leaves
  out that key, and no other, until one is held in its place.
- **Two servers** (`vault_stale_hold`): an unlock reads the file's data key, another
  server's unlock rotates it and drops the old key from the holder, and the first then puts
  the old key back. The vault is open and its entries do not decrypt, until a lock or
  another unlock. `_hold` takes no lock and checks nothing.
  A write that raises after its rename (`late`) has the same end with one server, which is
  why `vault_one_server` has none: `_write` syncs the directory after `os.replace`, and
  `_finish_unlock` reads its failure as "not written" and holds the old key.
- **An overtaken poll** (`page_overtaken`): `_tick` compares the state it reads with the one
  before its own request. When its answer "locked" arrives after an unlock made in the panel,
  the body lists entries while `_status` is locked; if the vault is locked before the next poll,
  no later poll finds a change, and the entry names stay on the screen under "Locked". With
  answers in order the panel always comes to show the vault (`PanelSettles`).
- **A lock crossed by a proof** (`reveal_crossed`): a proof is on its way (a reveal whose popup
  was closed, a command's registration), the person presses the lock, which forgets the last
  proof, and the proof's answer then sets it anew. The tab of a locked vault has a reveal window:
  an unlock made elsewhere within it shows passwords in this tab without a proof.
- The reveal window is otherwise what the docs say: with a setting of 0 there is none, though
  the tab starts with 60 s of its own, and a clock set back adds at most one window.
- **Two reloads that cross** (`holders_crossed`): two puts of the gpg-agent holder read
  `gpg-agent.conf.loaded` before either has its reload on record. Both reload, and the second
  drops the key the first has stored and returned for, although two vaults of one agent "keep
  each other's keys" (`holders.py:265-266`).
- **A setting that changes beside a put** (`holders_unsettled`): a put of the old duration and
  one of the new one write one `gpg-agent.conf`, and the agent reads what is there. It can run a
  duration that is not the one on record, and the next put finds no reload to be made: a key
  outlives the end its put promised.
- **A write that is cut** (`git_cut`): an install takes a store value out of a key that has
  other values; the `--replace-all` succeeds and an `--add` fails. The store value is out, the
  other values after it are lost, and no way back is printed, because `done` does not have this
  key yet (`cli.py:617-627`).
- Each of the three holders is otherwise the holder the service counts on, wherever two callers
  meet, and a timer that comes late wipes nothing but its own key. A `clear` that the agent does
  not get returns as one it got, so that a lock can succeed with the key in the agent, where it
  ends as it was promised; a refused put can leave its key, which reads as locked and opens.
- A migrate loses no credential, and no way back of a write that is whole, whatever fails, with
  the exceptions below.

What they do not cover, met while modelling, and left out of a run by its bounds:

- `add_mfa` records the code as used after its hold: a hold that raises skips that line with
  the app already in the file, and the code is good once more. `proofs` has no refused hold.
- A process that finds the claim of the other operation asks without one of its own, so two
  set-ups beside a pending unlock both ask. `share_one_operation` has unlocks alone.
- A trigger whose answer is lost after the notification was raised ends `_run` outside its
  `try`, and a result the user's press stages meanwhile stays: 300 s on the keyring, in a file
  until it is removed. `copy` and `show` undo the same failure (`NothingIsLeft`).
- A credential that git stores between a migrate's read of a file and its removal, which waits
  for the user's answer, is lost with the file (`Between`): `kept` has no such credential.
- An entry the vault had of a line keeps its older date, so that a later line of the same host
  answers in its place. An entry made within as many seconds before a migrate as it adds lines
  answers before the later of these (`AddedOrOlder`).
- With overtaking answers an old entry list can stand beside the newer revision until the
  next change. The toast that tells of an unlock is not modelled.
- A second press of a ceremony's button stages over the first's result: the key is gone
  until it is added again, and a wait that ends there is unanswered. `AnswerIsSeen` says
  so in its last line.

Everything else the runs ask holds.

## What is proved

`VaultKeys_proofs` proves, for any number of servers, vaults, keys, passkeys, names and any
set of requests and failures, from `ConstantsAssumption` alone:

| Theorem | Property |
|---|---|
| `Invariance` | `[]IInv` |
| `Typed` | `[]TypeOK` |
| `SlotsAlwaysWrapRoot` | `[]SlotsWrapRoot` |
| `AlwaysSealedTogether` | `[]SealedTogether` |
| `RecoveryAlwaysOpens` | `[]RecoveryOpens` |
| `EntriesAlwaysKept` | `[]EntriesKept` |
| `DataKeysAlwaysFresh` | `DataKeysAreFresh` |
| `OneSlotIsWritten` | `WritesOneSlot` |

The argument. None of the properties is inductive: a write is right because of what its
request had in hand when it began, and of what the file can have become since. `IInv` adds
two things. `FileOK` says a file is either of version 1, with one key for everything, or of
version 2 with a data key everything is sealed under, and that all its slots wrap its
root. `TaskOK` says what a request has in hand: its document is such a file, the root it
carries is that document's, and its step has the fields it needs. A step that has lost the
race is stopped by `CheckRoot`, `CheckDek` or `CanRotate`, which by `FileOK` hold only for
the file's own root and data key: this is how a check that decrypts the entries protects
the slots. For `RecoveryOpens` the upgrade is the one write of a recovery slot with a
passphrase that was read earlier. `OldSecrets` carries the reason it is safe: a slot an
old KDF made has never been replaced, so while one is there its secret is the one every
unlock of that file read.

Each action has a lemma that it keeps `IInv`, one level down a step per part of it; the
lemmas on file operations (`WithSlotOK`, `ResealedOK`, ...) say that each keeps `FileOK`.
The two action properties rest on `NextIsFileStep`: every step of the system changes one
slot, or the data key with one never drawn before, or neither.

Its last part proves `OneServersHeldKeyReads` (`[]HeldKeyReads`) for one server (`OneServer`)
and no write that fails after its rename and no crash (`FailuresAreAnswered`), for any number of
vaults, keys, passkeys and names, every request and every other failure, lost clears among them.
The property excepts a key whose own drop was lost (`left`), as it has to (`vault_lost_drop`).
`vault_stale_hold` shows the first hypothesis is needed. A `late` failure or a crash leaves a
new data key on disk and the old one held, so the second is needed too. The argument: beside
`IInv`, the request under way has its own file in hand. What it is going to hold (`WillHold`) is
the key the entries are sealed under now, and the document whose key it is going to drop
(`WillDrop`) is of the vault on disk; `DrawnVaults` adds that a new vault finds no key held
under its id, because a held key's id was drawn. A step then either seals nothing new
(`RequestStep`, `QuietStep`), or is the one that changes the key, and drops or replaces the held
one before the next request.

`UnlockShare_proofs` proves, for any number of processes, patient or not:

| Theorem | Property | For |
|---|---|---|
| `Typed` | `[]TypeOK` | both operations, every failure |
| `ClaimAlwaysHeld` | `[]ClaimIsHeld` | both operations, every failure |
| `LinesAlwaysOwn` | `[]OwnLine` | both operations, every failure |
| `OneIsRaised` | `[]OneNotification` | unlocks alone, no lock, no removed file (`OneOperation`) |
| `OnlyLostIsTakenOver` | `TakesOverLost` | both operations, no lock, no removed file (`StaysOpen`) |

The argument. `IInv` says that a record's line is of the command on record, that a round of
the shared wait has a record of its own operation or none in hand, and that the process of
a claim asks, ends its call or was killed. Only the last conjunct makes `ClaimIsHeld` go
through: a process leaves the steps that hold a claim by `DropClaim` alone, and where that
leaves the record alone it is not this process's. For `OneIsRaised`, `NInv` adds that a
process which asks while the vault is not open has the claim. A claim is written only by
the process in the lock, where it read none, and what it read stays true: another process
cannot write, and the server removes the record only after the vault opened. `OneOperation`
is needed for the two reasons above: what a second operation does, and a lock after the
press.

`OnlyLostIsTakenOver` needs one thing more, `LookInv`. A process takes over
on two reads of two things, the record first and the status after it. The server holds the
key before it removes the record, so a process that read the record gone because of an unlock
finds the vault reached at its look; `quiet` is the history that says no unlock was under way
or done at the first read. `StaysOpen` keeps a lock from coming between the two.

`VaultProofs_proofs` proves, for any number of secrets and challenges, any clock and any bound
on wrong codes:

| Theorem | Property | For |
|---|---|---|
| `Typed` | `[]TypeOK` | every failure |
| `CodesAreTakenOnce` | `[]CodeTakenOnce` | no refused hold (`HoldsSucceed`) |
| `GuessesStayBounded` | `[]GuessesAreBounded` | every failure |
| `ChallengesServeOnce` | `ChallengeServesOnce` | every failure |
| `CountsRise` | `SignCountRises` | every failure |

The argument. `CodesInv` says of a taken code that its secret was drawn, so no new app has it,
and that it is not after the last code on record while its app is there: each new one is
after it. `CountInv` keeps the history below the server's own count, which is reset only by
what ends the history too; an old vault with a password and no app is the case it has to say
apart, because that unlock resets the count without a code. `ChallengeInv` says that the
challenge the server has is the newest and has not served; every path that accepts an
assertion takes it in the same step. Each request has a lemma that it keeps the three
(`Safe`). `HoldsSucceed` is needed: after a refused hold `add_mfa` leaves its code unused.

`Relay_proofs` proves, for any number of clicks and any set of commands and failures:

| Theorem | Property |
|---|---|
| `Invariance` | `[]IInv` |
| `Typed` | `[]TypeOK` |
| `AlwaysCollectedOnce` | `[]CollectedOnce` |
| `KeysAlwaysEnd` | `[]KeysHaveEnds` |
| `AllInvariant` | `[]RelayInv` |
| `SecretAlwaysKept` | `[]SecretIsKept` |
| `AlwaysSaysWhatIsSo` | `[]SaysWhatIsSo` |
| `NothingEverLeft` | `[]NothingIsLeft` |
| `AnswerAlwaysSeen` | `[]AnswerIsSeen` |

The argument. A click that has the secret in its answer has nothing against it in its own step:
another could still find the value. `OnceInv` says where the value is instead: in one home at
most; while it is staged nobody has it or was given it; and a click between its read and its
unlink holds the only copy that can still be read, so the unlink ends it. Its first part, that the command stages
before the button is raised and never again (`OnceBefore`), makes it so, and `ServesOne`, one
handler at a time, keeps a second click out of the read. `KeysInv` says that a key without an
end is still the one its writer added and is about to give an end: where `timeout` is refused
the writer removes that key, and where it is not the writer's any more it has an end or a
writer of its own. `NoneIsNoValue` says only that "nothing there" is no value, and that no
result yet is none of the results.

The other four need to know what the command has done when it says something. `Course` says
where it is by what it runs and has said: a command stages only to hand out, it raises its
button after that, and once it has a result nothing is left to it but its `finally`. `Outgoing`
says that what is staged is the command's own, in the home it looks into: it finds it gone only
when it is gone, and removes all there is when it gives up. What was taken out somebody has, or
a failure lost it (`Excused`). `Remains` says that a home with something in it was put into,
that a file stays until the command removes it, and that a value put after the command's end is
marked `late`. `Answers` says that a click told so has ended. So it takes another click to
remove or overwrite what it put, and `AnswerIsSeen` speaks of the only click.

`Holders_proofs` proves, for whichever holder was chosen, any finite number of callers and
vaults, any keys, durations and changes of the setting, and every failure, from
`HoldersAssumption` and `NoneIsNothing` ("nothing is stored" and "no call" are not a thing that
is stored, or a call):

| Theorem | Property | For |
|---|---|---|
| `Invariance` | `[]IInv` | every failure |
| `Typed` | `[]TypeOK` | every failure |
| `MemoryAlwaysWiped` | `[]MemoryIsWiped` | every failure |
| `AlwaysHeldAsPromised` | `[]HeldAsPromised` | every failure |
| `HoldersImplementKeyHolder` | `ImplementsKeyHolder` | no crossed reloads (`"crossed" \notin Faults`) |

The argument. `Fits` says at which steps a call can be in which holder. `Memory` says that the
memory has one key, that its end has a timer, and that a timer which waits for the lock is over:
so the one that comes late wipes a key that is over too, or none. `Records` says that an agent
which has a reload on record runs a duration, and, while the setting is `steady`, that it runs
the config on record and that a call which presets has the setting's duration there: the
entries' ends are the agent's, and only so are they those of the put. `Ones` says that a vault
with a call has no promise, and that a call which is alone on its vault has no other beside it;
then `Promises` can speak of that call's own course: until it touches something what was
promised before it is so, then the old key is gone, then its own ends in time. A clear that is
lost leaves what was promised before it, and the undo of a put that is lost leaves no promise. A
vault's key ends no later than its expiry, so that a status shows a key as long as there is one:
that is what `Good` carries and `HeldAsPromised` does not say. The numbers of callers and vaults
are finite only for a key number that is free (`FreeId`).

The refinement goes by the same invariant, one lemma per action (`MapAdd`, `MapReload`, ...).
Most steps of a call are a step of `KeyHolder` or, where the entry they touch is the expiry or a
file, none. `Records` makes the end of a preset key the one its put asked for, while the setting
is steady, and one of the durations after; `Memory` makes a late timer, and a read that wipes, a
stutter: what they wipe was held no more. A call that is no longer alone is to `KeyHolder` the
call it was. `OneReload` is beside `IInv`: of puts that do not cross, one at most is between
finding a reload to be made and putting it on record, so that each reload finds another duration
on record (`Flush`). It is not so with the fault `crossed`, and then the refinement does not
hold (`holders_crossed`).

`RevealWindow_proofs` proves, for any number of popups, any settings, every loss and any number
of clocks set back, from `WindowAssumption`:

| Theorem | Property |
|---|---|
| `Invariance` | `[]IInv` |
| `Typed` | `[]TypeOK` |
| `ZeroAlwaysHolds` | `[]ZeroAlwaysAsks` |
| `WindowAlwaysBounded` | `[]WindowIsBounded` |

The argument. The tab starts with a length that is not the setting's. `ReadFirst` says that with
a setting that was always 0 the length is 0 as soon as anything has proved or may come to: a
popup or an action needs a state the panel has read, a command goes on only from a read that
succeeded, and every such answer carries the 0. For the bound, `Counted` is inductive: since the
window was opened it has been open no longer than the clock has moved past the proof, and a
whole window for each time it was set back; that a clock before the proof counts for nothing
(`since >= 0`) is what keeps the second to one window.

`VaultPage_proofs` proves, for any number of readers, changes and failures, and whether or not
requests overtake each other (`late`), which only `page_overtaken.cfg` lets them:

| Theorem | Property |
|---|---|
| `Invariance` | `[]IInv` |
| `Typed` | `[]TypeOK` |
| `StoredPasskeyIsKept` | `[]KeepsStoredPasskey` |
| `NoteStaysUntilAnUnlock` | `NoteStaysUntilReached` |

The argument. `Shape` says that each task has at most one message on the wire, and one that fits
the step it is at. `Registered` is the ceremony from the browser's side and the vault's at
once: nothing is stored before the request is sent, nor while it is unserved or served with a
refusal, so the one answer that makes the page forget its passkey, a refusal, stands for
nothing stored. `Reached` carries what is known of an unlock while the notification is there:
by the vault as it is now, and by each answer on the wire to a read begun after the
notification came. That is what makes an old answer harmless: it is dropped by the time its
read began, however late it arrives.

`GitHelper_proofs` proves, for any lines, accounts and helper values, any contents of the config
and store files, any commands, bounds and failures, from `GitAssumption`:

| Theorem | Property |
|---|---|
| `GitHelperTypes` | `[](TypeOK /\ StepOK /\ OutOK)` |
| `OtherHelpersAreKept` | `OthersAreKept` |
| `NoFileComesBack` | `[]RemovedStaysRemoved` |
| `NoCredentialIsLost` | `[]NothingLost` |
| `OursIsFirst` | `[]OursComesFirst` |
| `TheWayBackIsTold` | `[]WayBackIsTold` |
| `HelperAnswersAsBefore` | `[]AnswersAsBefore` |

The argument has two halves. The first is about lists, and needs induction over them. The library's
induction theorems take an operator, which the provers cannot use, but its `WFMin` (a set has a
minimal element) does not: from it come induction with a set for the predicate (`Induction`,
`SeqInduction`), that a recursion step by step has a value (`Recursion`), and what `Those`,
`Unique` and `SortLines` give for every list. On these rest two statements about a whole plan of
writes: `RemovePlanIs`, that it writes each file and key with a value to remove once and with all
its other values, and `InstallPlanIs`, that its last write puts ours after the last reset and
before all that git runs, in the file of the helper that comes next.

The second half is an inductive invariant for each property, over `Typed` (`TypeOK`, what a task
has at each step, and that what is out of the config is what its writes took):

- `FilesInv`: the writes still to make keep the others and name no file that is not named now
  (`PlanOK`), and of one that is cut the first values do (`CutKeeps`: the others of the first
  values are the first of the others, by induction); a removed file, and one about to go, is
  named in no scope (`RetiredOK`, `RemovalOK`). Git writes only files it has a helper for, so
  none comes back.
- `LinesInv`: until a file is removed, what it has to keep was read from it (`ReadOK`); each line
  read is in the vault or among those to add (`SortedOK`), and in the vault before the removal
  (`ImportedOK`), unless the lines were not all imported (`blocked`).
- `InstallOK`: what is left of an install's plan clears every store value and every other copy of
  ours (`Clears`), and its last write places ours (`PlacesOurs`).
- `WayBackInv`: a migrate's writes clear the global values of every path it looked at
  (`DroppedOK`), and take out no other store value (`GoneOK`). Once its files are removed, each of
  those paths has no file, is named by the repository, or has nothing to keep with nothing named
  at all (`SettledOK`).
- `DatesInv`: after the import every line to add is an entry with its date (`AddedOK`), and the
  lines are dated in the order of the files (`FreshOK`, for every set of lines: the first one of
  the set that the files have is the first one of it to be added). Of the entries of these lines
  and the older ones, the newest that matches is then the first line that did.

`TypeOK` is proved of each of the eight components. It is not among the runs'
properties, which are left to what a request or an interleaving could really break.

Checked by TLC only: the liveness properties, `EveryCallEnds`, `OnePressForAll` and `AskedAgain`
of UnlockShare, `CommandEnds` of Relay, `PanelSettles` and `NoteGoes` of VaultPage, because the
prover reasons about neither fairness nor `ENABLED`. Every other property of a passing run is a
theorem.

## Not modelled, and the plan

Modelled by what it does and no further: key derivation and sealing (a key opens what it
sealed), the signature of an assertion, the digits of a code. Not modelled: the texts,
settings, log lines, layout, rendering of captchas and codes.

In order of what matters:

1. *done* VaultKeys and its proofs.
2. *done* VaultProofs.
3. *done* UnlockShare. Left: an abstract specification (callers wait, one asks, all are
   released) that it implements for one operation.
4. *done* Relay. Left: an abstract one-shot store that it implements.
5. *done* KeyHolder and Holders, with the refinement as a theorem. Left: an unlink the kernel
   refuses.
6. *partly* VaultPage and RevealWindow. Left: hiding the panel, the forms; liveness of the eye and
   of the shared unlock.
7. *partly* GitCred and GitHelper. Left: `matching_step` over a clock near zero, the choice of a
   server.
8. *done* Proofs of all eight components. Left: the abstract specifications of 3 and 4, with
   their refinements.
