----------------------------- MODULE GitHelper -----------------------------
(***************************************************************************)
(* `vault git install`, `uninstall` and `migrate` (vault/cli.py) beside    *)
(* git: the helpers in git's config, git's plaintext store files, and the  *)
(* vault's entries.  An action is one access: a write of git's config, a   *)
(* read of the store, a request to the server, the removal of a file.      *)
(***************************************************************************)
EXTENDS GitCred

CONSTANTS
    Lines,          \* the credentials a store file may have
    Accounts,       \* entries the vault may have before
    HelperValues,   \* the values of a helper key: "store", "file", "ours", Reset and any others
    Configs,        \* the helpers each scope may begin with
    Stores,         \* what the store files may begin with
    Commands,       \* the commands that are given: records [cmd, local, source, install]
    Span,           \* the seconds between two commands
    MaxCommands,    \* bound: commands in a behaviour
    MaxWrites,      \* bound: credentials git stores by itself
    Faults          \* what fails, of "config", "remove", "unlock", "kill"

VARIABLES
    config,     \* config file -> "all" | "url" -> the values of that key, in order
    disk,       \* store file -> its lines, or None where there is no file
    vault,      \* the entries
    task,       \* the command that runs
    said,       \* the store values whose way back the command printed
    dropped,    \* history: the store values the command took out of the config
    retired,    \* history: the files a migrate removed
    kept,       \* history: the credentials to keep, which git has not replaced
    calls, writes   \* bounds

Reset == ""     \* the value that empties git's list
ConfigFiles == {"xdg", "home", "repository"}
Keys == {"all", "url"}
Files == {"store", "file"}

\* A migrate acts on the global config; a line is a url, with a scheme when it has a host.
GitAssumption ==
    /\ {Reset, "store", "file", "ours"} \subseteq HelperValues
    /\ Configs \subseteq [ConfigFiles -> [Keys -> Seq(HelperValues)]]
    /\ Stores \subseteq [Files -> Seq(Lines) \cup {None}]
    /\ Commands \subseteq [cmd : {"install", "uninstall", "migrate"}, local : BOOLEAN,
                           source : BOOLEAN, install : BOOLEAN]
    /\ \A c \in Commands : c.cmd = "migrate" => ~c.local
    /\ None \notin Seq(Lines)
    /\ \A l \in Lines \cup Accounts : l.path \in Seq(Range(l.path))
    /\ \A l \in Lines : l.host # None => l.scheme # None
    /\ \A e \in Accounts : {"name", "path", "updated"} \subseteq DOMAIN e /\ e.updated \in Int
    /\ Span \in Nat
    /\ MaxCommands \in Nat /\ MaxWrites \in Nat
ASSUME GitAssumption

vars == <<config, disk, vault, task, said, dropped, retired, kept, calls, writes>>

Idle == [pc |-> "idle"]

-----------------------------------------------------------------------------
(* git's config *)

\* `_store_files`: the file a value makes git's store read.  "store" is a bare value and
\* its default file, "file" is one with --file; "ours" is the vault's.
StoreFiles(value) == IF value \in Files THEN {value} ELSE {}
IsStore(value) == StoreFiles(value) # {}

\* `_listing`: every value with its file and key, in the order git reads them.
OfKey(file, key) ==
    [i \in DOMAIN config[file][key] |-> [file |-> file, key |-> key, value |-> config[file][key][i]]]
Listed(file) == OfKey(file, "all") \o OfKey(file, "url")

InScope(local) == IF local THEN Listed("repository") ELSE Listed("xdg") \o Listed("home")
Helpers == InScope(FALSE) \o InScope(TRUE)

\* What git runs: the values after the last reset.
Effective ==
    LET values == [i \in DOMAIN Helpers |-> Helpers[i].value]
        after  == {i \in DOMAIN values : \A j \in i..Len(values) : values[j] # Reset}
    IN {values[i] : i \in after}

\* `_store_paths`: the files the values name, and the default unless a value for every url
\* names others.
Values(helpers) == [i \in DOMAIN helpers |-> helpers[i].value]
Unique(list) == Picked(list, {i \in DOMAIN list : \A j \in 1..(i - 1) : list[j] # list[i]})
StoresOf(helpers) == {h \in helpers : IsStore(h.value)}
StorePaths ==
    LET named == Those(Helpers, StoresOf(Range(Helpers))) IN
    Unique(Values(named) \o (IF \E h \in Range(named) : h.key = "all" THEN <<>> ELSE <<"store">>))

Write(file, key, values, drops) == [file |-> file, key |-> key, values |-> values, drops |-> drops]

Place(h) == [file |-> h.file, key |-> h.key]

\* Mutant: the key goes with all its values.
KeptNone(helpers, place, removed) == <<>>

\* What a file and key has left without the removed values.
KeptThere(helpers, place, removed) ==
    Values(Those(helpers, {h \in Range(helpers) : Place(h) = place /\ h \notin removed}))

\* `_remove_helpers`: one write for each file and key that has a value to remove.
RemovePlan(helpers, removed) ==
    LET WriteAt(place) ==
            Write(place.file, place.key, KeptThere(helpers, place, removed),
                  {h \in removed : Place(h) = place})
        gone   == Those(helpers, removed)
        places == Unique([i \in DOMAIN gone |-> Place(gone[i])])
    IN [i \in DOMAIN places |-> WriteAt(places[i])]

\* Mutant: ours is the first value there is.
FirstOfAll(others) == 0

\* How many helpers ours must come after: those up to the last reset.
AfterReset(others) == Max({0} \cup {i \in DOMAIN others : others[i].value = Reset})

\* `_install_helper`: the store values go, and ours comes first, but after the last reset,
\* in the file of the value it must run before.
InstallPlan(helpers, local) ==
    LET IsOurs(h) == h.key = "all" /\ h.value = "ours"
        ours   == {h \in Range(helpers) : IsOurs(h)}
        stores == StoresOf(Range(helpers))
        others == Those(helpers, {h \in Range(helpers) \ (stores \cup ours) : h.key = "all"})
        after  == AfterReset(others)
        file   == IF others # <<>> THEN others[Min({after + 1, Len(others)})].file
                  ELSE IF ours # {} THEN Those(helpers, ours)[1].file
                  ELSE IF local THEN "repository" ELSE "home"
        InFile(hs) == Values(Those(hs, {h \in Range(hs) : h.file = file}))
        before == InFile(SubSeq(others, 1, after))
    IN Append(RemovePlan(helpers, stores \cup {h \in ours : h.file # file}),
              Write(file, "all",
                    before \o <<"ours">> \o InFile(SubSeq(others, after + 1, Len(others))), {}))

-----------------------------------------------------------------------------
(* Commands *)

OneOfEachName(entries) == \A e, f \in entries : e.name = f.name => e = f

OnDisk(line) == \E f \in DOMAIN disk : disk[f] # None /\ line \in Range(disk[f])

Init ==
    /\ config \in Configs
    /\ disk \in Stores
    /\ vault \in {v \in SUBSET Accounts : OneOfEachName(v)}
    /\ task = Idle
    /\ said = {} /\ dropped = {} /\ retired = {}
    /\ kept = {l \in Lines : OnDisk(l)}
    /\ calls = 0 /\ writes = 0

Goto(pc) == task' = [task EXCEPT !.pc = pc]
Stops(result) == task' = [pc |-> result]

Start(c) ==
    /\ task.pc \in {"idle", "ok", "failed", "cut", "killed"} /\ calls < MaxCommands
    /\ task' = [pc |-> CASE c.cmd = "install"   -> "install"
                         [] c.cmd = "uninstall" -> "uninstall"
                         [] OTHER               -> "read",
                command |-> c, plan |-> <<>>, then |-> None, out |-> {}, gone |-> {},
                paths |-> <<>>, found |-> <<>>, items |-> <<>>, fresh |-> <<>>,
                blocked |-> FALSE, removed |-> FALSE]
    /\ said' = {} /\ dropped' = {}
    /\ calls' = calls + 1
    /\ UNCHANGED <<config, disk, vault, retired, kept, writes>>

\* The writes a command is about to make, and what it does after them.
Planned(plan, then) ==
    task' = IF plan = <<>> THEN [task EXCEPT !.pc = then]
            ELSE [task EXCEPT !.pc = "write", !.plan = plan, !.then = then]

PlanInstall ==
    /\ task.pc = "install"
    /\ Planned(InstallPlan(InScope(task.command.local), task.command.local), "end")
    /\ UNCHANGED <<config, disk, vault, said, dropped, retired, kept, calls, writes>>

Uninstall ==
    /\ task.pc = "uninstall"
    /\ LET helpers == InScope(task.command.local)
           ours    == {h \in Range(helpers) : h.key = "all" /\ h.value = "ours"}
       IN Planned(RemovePlan(helpers, ours), "end")
    /\ UNCHANGED <<config, disk, vault, said, dropped, retired, kept, calls, writes>>

\* `_set_helpers`, all of it: one key of one file takes its new values.
WriteConfig ==
    /\ task.pc = "write"
    /\ LET write == Head(task.plan)
           out == task.out \cup StoresOf(write.drops)
       IN /\ config' = [config EXCEPT ![write.file][write.key] = write.values]
          /\ dropped' = dropped \cup StoresOf(write.drops)
          /\ task' = IF Len(task.plan) = 1
                     THEN [task EXCEPT !.pc = task.then, !.plan = <<>>, !.then = None,
                                       !.gone = @ \cup out, !.out = {}]
                     ELSE [task EXCEPT !.plan = Tail(@), !.out = out]
    /\ UNCHANGED <<disk, vault, said, retired, kept, calls, writes>>

\* `_say_restore`: a write fails, and the store values that are out get their way back: the
\* ones of the writes before, and of a migrate those it dropped before, with their file there.
SayRestore == said' = said \cup task.out \cup (IF task.removed THEN {} ELSE task.gone)

\* The first access of a write fails, and nothing is written.
WriteFails ==
    /\ task.pc = "write" /\ "config" \in Faults
    /\ SayRestore
    /\ Stops("failed")
    /\ UNCHANGED <<config, disk, vault, dropped, retired, kept, calls, writes>>

\* `--replace-all` writes the first value and each `--add` one more: a later one fails, or the
\* command is killed before it, and the key is left with the values that were written.
WriteCut ==
    /\ task.pc = "write"
    /\ LET write == Head(task.plan) IN
       \E n \in 1..(Len(write.values) - 1) :
          LET left == SubSeq(write.values, 1, n)
              out  == {h \in Range(OfKey(write.file, write.key)) : h.value \notin Range(left)}
          IN /\ config' = [config EXCEPT ![write.file][write.key] = left]
             /\ dropped' = dropped \cup StoresOf(out)
    /\ \/ "config" \in Faults /\ SayRestore /\ Stops("cut")
       \/ "kill" \in Faults /\ Stops("killed") /\ UNCHANGED said
    /\ UNCHANGED <<disk, vault, retired, kept, calls, writes>>

\* Mutant: only a bare value has a way back.
WayBackOfBare(gone, deleted) ==
    {h \in gone : h.value # "file" /\ StoreFiles(h.value) \ deleted # {}}

\* `_say_way_back`: of the values that are out, those with a file that nothing reads now.
WayBack(gone, deleted) ==
    {h \in gone : /\ StoreFiles(h.value) \ deleted # {}
                  /\ \/ h.value = "file"
                     \/ \E f \in StoreFiles(h.value) : disk[f] # None /\ f \notin Range(StorePaths)}

End ==
    /\ task.pc = "end"
    /\ said' = said \cup WayBack(task.gone, IF task.removed THEN Range(task.found) ELSE {})
    /\ task' = [pc |-> "ok", command |-> task.command, items |-> task.items,
                fresh |-> task.fresh, removed |-> task.removed]
    /\ UNCHANGED <<config, disk, vault, dropped, retired, kept, calls, writes>>

-----------------------------------------------------------------------------
(* `git migrate` *)

ReadStores ==
    /\ task.pc = "read"
    /\ LET found == Those(StorePaths, {f \in DOMAIN disk : disk[f] # None}) IN
       task' = IF found = <<>> THEN [pc |-> "failed"]
               ELSE [task EXCEPT !.pc = "sort", !.paths = StorePaths, !.found = found,
                                 !.items = FlattenSeq([i \in DOMAIN found |-> disk[found[i]]])]
    /\ UNCHANGED <<config, disk, vault, said, dropped, retired, kept, calls, writes>>

\* A client certificate's passphrase is read, and not imported.
IsCert(line) == line.host = None
Imported(items) == Those(items, {l \in Range(items) : ~IsCert(l)})

CompareLines ==
    /\ task.pc = "sort"
    /\ LET sorted == SortLines(vault, Imported(task.items)) IN
       task' = [task EXCEPT !.pc = "import", !.fresh = sorted.fresh, !.blocked = sorted.differ # {}]
    /\ UNCHANGED <<config, disk, vault, said, dropped, retired, kept, calls, writes>>

\* A list, a value or the import needs the vault open, or the command ends.
UnlockFails ==
    /\ task.pc \in {"sort", "import", "ask"} /\ "unlock" \in Faults
    /\ Stops("failed")
    /\ UNCHANGED <<config, disk, vault, said, dropped, retired, kept, calls, writes>>

\* Mutant: the dates step forward a line.
StampedForward(line, i) ==
    [name |-> line.name, scheme |-> line.scheme, host |-> line.host, path |-> line.path,
     user |-> line.user, value |-> line.value, updated |-> Span * (calls - 1) + 2 + i]

\* The dates step back a line, so that the first line is the newest entry.
Stamped(line, i) ==
    [name |-> line.name, scheme |-> line.scheme, host |-> line.host, path |-> line.path,
     user |-> line.user, value |-> line.value, updated |-> Span * calls - i]

\* The lines with a name of their own.
Adds(fresh) ==
    {i \in DOMAIN fresh : /\ fresh[i].name \notin {e.name : e \in vault}
                          /\ \A j \in 1..(i - 1) : fresh[j].name # fresh[i].name}

\* `import_entries`: a name that is there by now is skipped.
Import ==
    /\ task.pc = "import"
    /\ LET new == Adds(task.fresh) IN
          /\ vault' = vault \cup {Stamped(task.fresh[i], i) : i \in new}
          /\ task' = [task EXCEPT !.pc = "ask", !.blocked = @ \/ new # DOMAIN task.fresh]
    /\ UNCHANGED <<config, disk, said, dropped, retired, kept, calls, writes>>

Certs == \E l \in Range(task.items) : IsCert(l)

\* Mutant: the question is asked whatever was skipped.
MayAlwaysRemove == task.command.source /\ ~Certs

MayRemove == task.command.source /\ ~task.blocked /\ ~Certs
AfterRemoval == IF task.command.install THEN "install" ELSE "end"

\* The user says no, or there is no terminal, or the lines were not all imported.
KeepSource ==
    /\ task.pc = "ask"
    /\ Goto(AfterRemoval)
    /\ UNCHANGED <<config, disk, vault, said, dropped, retired, kept, calls, writes>>

\* `_drop_store_helpers`: the global values that read one of the files.
DropStoreHelpers ==
    /\ task.pc = "ask" /\ MayRemove
    /\ LET helpers == InScope(FALSE)
           readers == {h \in Range(helpers) : StoreFiles(h.value) \cap Range(task.paths) # {}}
       IN Planned(RemovePlan(helpers, readers), "check")
    /\ UNCHANGED <<config, disk, vault, said, dropped, retired, kept, calls, writes>>

\* Mutant: it looks at the scope it has changed.
ReadInGlobal(files) == \E h \in Range(InScope(FALSE)) : StoreFiles(h.value) \cap files # {}

StillRead(files) == \E h \in Range(Helpers) : StoreFiles(h.value) \cap files # {}

\* A value of another scope that still reads a file keeps the files.
CheckReaders ==
    /\ task.pc = "check"
    /\ Goto(IF StillRead(Range(task.found))
            THEN AfterRemoval ELSE "remove")
    /\ UNCHANGED <<config, disk, vault, said, dropped, retired, kept, calls, writes>>

RemoveFile ==
    /\ task.pc = "remove"
    /\ LET left == Those(task.found, {f \in DOMAIN disk : disk[f] # None}) IN
       IF left = <<>>
       THEN /\ task' = [task EXCEPT !.pc = AfterRemoval, !.removed = TRUE]
            /\ UNCHANGED <<disk, retired>>
       ELSE /\ disk' = [disk EXCEPT ![Head(left)] = None]
            /\ retired' = retired \cup {Head(left)}
            /\ UNCHANGED task
    /\ UNCHANGED <<config, vault, said, dropped, kept, calls, writes>>

RemoveFails ==
    /\ task.pc = "remove" /\ "remove" \in Faults
    /\ said' = said \cup WayBack(task.gone, {f \in Range(task.found) : disk[f] = None})
    /\ Stops("failed")
    /\ UNCHANGED <<config, disk, vault, dropped, retired, kept, calls, writes>>

Kill ==
    /\ "kill" \in Faults /\ task.pc \notin {"idle", "ok", "failed", "cut", "killed"}
    /\ Stops("killed")
    /\ UNCHANGED <<config, disk, vault, said, dropped, retired, kept, calls, writes>>

-----------------------------------------------------------------------------
(* Others *)

\* The user adds an entry, in the panel or by another command.
AddEntry(e) ==
    /\ task.pc \in {"sort", "import"}
    /\ e.name \notin {f.name : f \in vault}
    /\ vault' = vault \cup {[e EXCEPT !.updated = Span * calls + 1]}
    /\ UNCHANGED <<config, disk, task, said, dropped, retired, kept, calls, writes>>

SameLogin(l, m) == <<l.scheme, l.host, l.path, l.user>> = <<m.scheme, m.host, m.path, m.user>>

\* A migrate has read the files, and has not come to their removal.
Between ==
    task.pc \in {"sort", "import", "ask", "check", "remove"}
    \/ (task.pc = "write" /\ task.then = "check")

\* git hands a credential it used to every helper it runs: the store writes it into its
\* file.  What it writes between a migrate's read and its removal is not kept.
GitStores(line) ==
    LET files == {f \in DOMAIN disk : f \in Effective}
        Put(lines) == <<line>> \o (IF lines = None THEN <<>> ELSE
                                     Those(lines, {l \in Range(lines) : ~SameLogin(l, line)}))
    IN
    /\ writes < MaxWrites /\ ~IsCert(line) /\ files # {}
    /\ disk' = [f \in DOMAIN disk |-> IF f \in files THEN Put(disk[f]) ELSE disk[f]]
    /\ kept' = {l \in kept : ~SameLogin(l, line)} \cup (IF Between THEN {} ELSE {line})
    /\ writes' = writes + 1
    /\ UNCHANGED <<config, vault, task, said, dropped, retired, calls>>

Next ==
    \/ \E c \in Commands : Start(c)
    \/ PlanInstall \/ Uninstall \/ WriteConfig \/ WriteFails \/ WriteCut \/ End
    \/ ReadStores \/ CompareLines \/ UnlockFails \/ Import \/ KeepSource \/ DropStoreHelpers
    \/ CheckReaders \/ RemoveFile \/ RemoveFails \/ Kill
    \/ \E e \in Accounts : AddEntry(e)
    \/ \E l \in Lines : GitStores(l)

Spec == Init /\ [][Next]_vars

-----------------------------------------------------------------------------
(* Properties *)

Ended == task.pc \in {"ok", "failed"}
InstallsHelper == task.command.cmd = "install" \/ (task.command.cmd = "migrate" /\ task.command.install)

Helper == [file : ConfigFiles, key : Keys, value : HelperValues]
ConfigWrite == [file : ConfigFiles, key : Keys, values : Seq(HelperValues), drops : SUBSET Helper]
Running == {"install", "uninstall", "write", "end",
            "read", "sort", "import", "ask", "check", "remove"}
Task == [pc : Running, command : Commands, plan : Seq(ConfigWrite), then : {None, "end", "check"},
         out : SUBSET Helper, gone : SUBSET Helper, paths : Seq(Files), found : Seq(Files),
         items : Seq(Lines), fresh : Seq(Lines), blocked : BOOLEAN, removed : BOOLEAN]

\* Types: a task has its fields while it runs, and writes to make at no other step than
\* "write"; the vault has one entry of a name.
TypeOK ==
    /\ config \in [ConfigFiles -> [Keys -> Seq(HelperValues)]]
    /\ disk \in [Files -> Seq(Lines) \cup {None}]
    /\ \/ task.pc \in {"idle", "failed", "cut", "killed"}
       \/ task \in [pc : {"ok"}, command : Commands, items : Seq(Lines), fresh : Seq(Lines),
                    removed : BOOLEAN]
       \/ task \in Task /\ (task.pc = "write" <=> task.plan # <<>>)
    /\ said \cup dropped \subseteq {h \in Helper : IsStore(h.value)}
    /\ retired \subseteq Files /\ kept \subseteq Lines
    /\ OneOfEachName(vault)
    /\ calls \in 0..MaxCommands /\ writes \in 0..MaxWrites

\* A migrate removes no credential that the vault does not have with its value, and no
\* certificate's passphrase, at whatever step it fails or is killed.
NothingLost ==
    \A l \in kept :
        \/ OnDisk(l)
        \/ \E e \in vault : e.value = l.value /\ e.user = l.user

\* A file that a migrate removed does not come back: no helper git runs writes it, in no
\* scope and for no url.
RemovedStaysRemoved == \A f \in retired : disk[f] = None

\* After an install git runs ours, once, before every other helper of the scope that it
\* runs at all, and no store helper of the scope is left.
OursComesFirst ==
    task.pc = "ok" /\ InstallsHelper =>
        LET scope  == InScope(task.command.local)
            values == Values(Those(scope, {h \in Range(scope) : h.key = "all"}))
            ours   == {i \in DOMAIN values : values[i] = "ours"}
        IN /\ \A h \in Range(scope) : ~IsStore(h.value)
           /\ \E i \in DOMAIN values :
                 /\ ours = {i}
                 /\ \A j \in i..Len(values) : values[j] # Reset
                 /\ i = 1 \/ values[i - 1] = Reset

\* The credentials git would get from a file it does not read any more are named to the
\* user: by the command that restores the value, or they are what the next migrate reads.
ToldOf(lines) ==
    \A h \in dropped : \A f \in StoreFiles(h.value) :
        disk[f] # None /\ Range(disk[f]) \cap lines # {} => h \in said \/ f \in Range(StorePaths)

\* A command that ends, or that fails at an access that leaves each key as it was or with all
\* its new values, names the way back to the credentials it took from git.
WayBackIsTold == Ended => ToldOf(kept)

\* Not kept by the code: one whose write is cut between two values of a key says nothing of the
\* store values that are out of that key, although `_say_restore` is to name each of them.
WayBackIsToldOfACut == task.pc \in {"ok", "failed", "cut"} => ToldOf(kept)

Requests ==
    UNION {[scheme : {l.scheme}, host : {l.host}, user : {None, l.user},
            path : {NoPath} \cup ({l.path} \ {<<>>})] : l \in Lines}

\* The entries of this migrate's lines, and those that are older than each of them: the dates
\* step back a second a line, and an entry changed in those seconds is not of either.
AddedOrOlder ==
    {e \in vault : \/ \E i \in DOMAIN task.fresh : e = Stamped(task.fresh[i], i)
                  \/ e.updated < Span * calls - Len(task.fresh)}

\* When the files are gone, the helper answers what git's store answered, for each request whose
\* line this migrate added: beside any older entry, but not beside one that is as new as its lines.
AnswersAsBefore ==
    task.pc = "ok" /\ task.removed =>
        \A r \in {r \in Requests : r.host # None} :
            LET lines == Those(Imported(task.items), {l \in Lines : StoreAnswers(l, r)}) IN
            lines # <<>> /\ lines[1] \in Range(task.fresh) /\ (lines[1].user # None \/ r.user # None)
            => HelperAnswer(AddedOrOlder, r) = lines[1].value

Others(values) == Those(values, {v \in Range(values) : ~IsStore(v) /\ v # "ours"})
OtherValues(c) == [f \in ConfigFiles |-> [key \in {"all", "url"} |-> Others(c[f][key])]]

\* No access changes another helper, or its order among the others of its file.  One that is
\* the last of a write cut short loses the others after a place, and no other one.
OthersAreKept ==
    [][\/ OtherValues(config') = OtherValues(config)
       \/ /\ task'.pc \in {"cut", "killed"}
          /\ \A f \in ConfigFiles : \A key \in Keys :
                IsPrefix(Others(config'[f][key]), Others(config[f][key]))]_vars
=============================================================================
