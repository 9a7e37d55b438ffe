----------------------------- MODULE Installation -----------------------------
(***************************************************************************)
(* installer/install.sh and the scripts it calls: a snapshot that is kept, *)
(* then a transaction that saves each path before its first change and     *)
(* brings it back when a step fails.  A step is one file operation; the    *)
(* machine may go down between two of them, and then nothing is rolled     *)
(* back.  Between runs a person edits files and restores snapshots.  Text  *)
(* is abstracted to what the installer owns of it and what decides a step. *)
(***************************************************************************)
EXTENDS Naturals, Sequences, FiniteSets

CONSTANTS
  Unit,          \* device_identity: model and serial, or bus and uid
  Devices,       \* the unit lists given on the command line
  Blank,         \* the placeholder unit of the template config/ace.cfg
  Legacy,        \* the ace_hardware.cfg of an older release, or Missing
  Found,         \* what a first run may find: files of the user's own, a layout
  Missing,       \* of a path: there is no file
  MaxRuns,       \* runs of the installer explored
  MaxEvents      \* edits of a person and power losses explored

Topologies == Seq([unit : Unit, physical : BOOLEAN])

ASSUME InstallationAssumption ==
  /\ Devices \subseteq Seq(Unit) \ {<<>>}
  /\ Blank \in Unit /\ \A units \in Devices : \A i \in DOMAIN units : units[i] # Blank
  /\ Legacy \in Topologies \cup {Missing}
  /\ Found \subseteq [own : BOOLEAN, layout : {"new", "split", "pre-release"}]
  /\ Missing \notin [topology : Topologies, macros : BOOLEAN]
  /\ {MaxRuns, MaxEvents} \subseteq Nat

Template == <<[unit |-> Blank, physical |-> FALSE]>>

\* Links: the driver package, which nothing else may own, and a page of Fluidd,
\* which may replace a file of the user.
Links  == {"package", "page"}
\* Files of the user in which we own a marked block; "fluidd" stands for the
\* patched sources of one Fluidd tree, the one the page is in.
Marked == {"fluidd", "printer.cfg", "moonraker.conf"}
\* The state directory.
State  == {"manifest", "backups", "fluidd-source.path", "legacy"}
Configs == {"ace.cfg", "ace_hardware.cfg", "ace_machine.cfg", "ace_machine.cfg.legacy"}
Paths  == Links \cup Marked \cup State \cup Configs
\* --fluidd-source: that tree, another one, or none.
Sources == {"this", "other", "none"}

VARIABLES
  files,      \* path -> what it holds
  op,         \* the script that runs
  todo,       \* its steps to come
  log,        \* TXN_LOG: what was saved, in order
  half,       \* what the rollback removed and has not copied back
  source,     \* FLUIDD_SOURCE
  generated,  \* GENERATED_CFG
  snapshot,   \* one of the snapshots that are kept, or Missing
  before,     \* the files when the run began, while somebody may ask
  outcome,    \* how the last run ended, until something else happens
  since,      \* more than the snapshot's own install happened after it
  astray,     \* a run was killed, or an old snapshot restored, and nothing undid it
  torn,       \* a restore did not finish, or a rollback lost ace.cfg, or what
              \* either left was restored
  elsewhere,  \* the last run that was given a tree was given another one
  original,   \* link -> what was there before it was recorded
  trusted,    \* units a person allowed physical actions
  runs, events

ghosts == <<since, astray, original, trusted, events>>
vars   == <<files, op, todo, log, half, source, generated, snapshot, before, outcome,
            torn, elsewhere, ghosts, runs>>

Trusted(topology) == {topology[i].unit : i \in {j \in DOMAIN topology : topology[j].physical}}

\* A path that is not there, as it is before anything is installed.
Gone(p) ==
  CASE p \in Links -> "none"
    [] p \in Marked -> [own |-> FALSE, block |-> FALSE]
    [] p = "manifest" -> [l \in Links |-> "no"]
    [] p = "backups" -> [l \in Links |-> "none"]
    [] p = "fluidd-source.path" -> "none"
    [] p = "legacy" -> {}
    [] OTHER -> Missing

\* Layouts: nothing of an older release; the split one, whose ace.cfg includes the
\* two other files; the one before it, without ace.cfg.
At(found, p) ==
  CASE found.own /\ p = "page" -> "own"
    [] found.own /\ p = "printer.cfg" -> [own |-> TRUE, block |-> FALSE]
    [] found.layout = "split" /\ p = "ace.cfg" -> [topology |-> <<>>, macros |-> FALSE]
    [] found.layout # "new" /\ p = "ace_hardware.cfg" -> Legacy
    [] found.layout # "new" /\ p = "ace_machine.cfg" -> "macros"
    [] OTHER -> Gone(p)

Init ==
  /\ \E found \in Found : files = [p \in Paths |-> At(found, p)]
  /\ op = "none" /\ todo = <<>> /\ log = <<>> /\ half = {}
  /\ source = "none" /\ generated = <<>>
  /\ snapshot = Missing /\ before = Missing /\ outcome = "none"
  /\ since = FALSE /\ astray = FALSE /\ torn = FALSE /\ elsewhere = FALSE
  /\ original = [l \in Links |-> files[l]]
  /\ trusted = IF files["ace_hardware.cfg"] = Missing THEN {} ELSE Trusted(Legacy)
  /\ runs = 0 /\ events = 0

-----------------------------------------------------------------------------
(***************************************************************************)
(* Before the transaction: checks, generate_hardware, the snapshot.        *)
(***************************************************************************)
Embedded == files["ace.cfg"] # Missing /\ files["ace.cfg"].topology # <<>>

\* What makes every run refuse before it begins: validate_targets and
\* generate_hardware.
LockedOut ==
  \/ files["package"] = "ours" /\ files["manifest"]["package"] = "no"
  \/ files["ace_hardware.cfg"] # Missing /\ Embedded

\* Mutant: settings stay with the place, not the unit.
PreserveByPlace(units, old) ==
  [i \in DOMAIN units |->
     [unit |-> units[i], physical |-> i \in DOMAIN old /\ old[i].physical]]

\* preserve_device_settings; a unit that is not found again is not allowed to move.
Preserve(units, old) ==
  [i \in DOMAIN units |->
     [unit |-> units[i],
      physical |-> \E j \in DOMAIN old : old[j].unit = units[i] /\ old[j].physical]]

Configured ==
  CASE files["ace_hardware.cfg"] # Missing -> files["ace_hardware.cfg"]
    [] Embedded -> files["ace.cfg"].topology
    [] OTHER -> <<>>

\* Mutant: the archive of ace_machine.cfg is forgotten.
TargetsWithoutArchive(tree) ==
  Paths \ ({"ace_machine.cfg.legacy"} \cup (IF tree = "this" THEN {} ELSE {"page", "fluidd"}))

\* collect_snapshot_targets
Targets(tree) == IF tree = "this" THEN Paths ELSE Paths \ {"page", "fluidd"}

\* create_snapshot: complete, or the run does not begin
Snapshot(tree) ==
  [files |-> files, targets |-> Targets(tree), astray |-> astray, torn |-> torn,
   elsewhere |-> elsewhere]

\* install_overlay; what it does in another tree is left out, the note is not
OverlaySteps(tree) ==
  CASE tree = "this" -> << <<"check", "fluidd">>, <<"install_link", "page">>,
                           <<"apply", "fluidd">>, <<"note", "fluidd">> >>
    [] tree = "other" -> << <<"note", "fluidd">> >>
    [] OTHER -> <<>>

\* Mutant: ace_machine.cfg is archived before it is merged.
InstallStepsArchiveFirst(tree) ==
  << <<"install_link", "package">> >> \o OverlaySteps(tree)
  \o << <<"create", "ace.cfg">>, <<"archive", "ace_machine.cfg">>, <<"upgrade", "ace.cfg">>,
        <<"merge", "ace.cfg">>, <<"archive", "ace_hardware.cfg">>,
        <<"ensure", "printer.cfg">>, <<"ensure", "moonraker.conf">> >>

\* do_install
InstallSteps(tree) ==
  << <<"install_link", "package">> >> \o OverlaySteps(tree)
  \o << <<"create", "ace.cfg">>, <<"upgrade", "ace.cfg">>, <<"archive", "ace_machine.cfg">>,
        <<"merge", "ace.cfg">>, <<"archive", "ace_hardware.cfg">>,
        <<"ensure", "printer.cfg">>, <<"ensure", "moonraker.conf">> >>

\* do_uninstall
UninstallSteps ==
  << <<"unpatch", "fluidd">>, <<"unlink", "page">>, <<"unlink", "package">>,
     <<"remove", "printer.cfg">>, <<"remove", "moonraker.conf">>,
     <<"clean", "manifest">>, <<"clean", "fluidd-source.path">>, <<"clean", "backups">> >>

Begin(name, steps) ==
  /\ op = "none" /\ runs < MaxRuns /\ runs' = runs + 1
  /\ op' = name /\ todo' = steps /\ log' = <<>>
  /\ before' = files /\ outcome' = "none"
  /\ UNCHANGED <<files, half>>

\* tree: --fluidd-source, if its version is one we know.
Install(units, tree) ==
  /\ ~LockedOut
  /\ Begin("install", InstallSteps(tree)) /\ source' = tree
  /\ generated' = Preserve(units, Configured)
  /\ \/ snapshot' = Snapshot(tree) /\ since' = FALSE
     \/ snapshot # Missing /\ since' = TRUE /\ UNCHANGED snapshot
  /\ original' = [l \in Links |-> IF files["manifest"][l] = "no" THEN files[l] ELSE original[l]]
  /\ UNCHANGED <<astray, torn, elsewhere, trusted, events>>

Uninstall(tree) ==
  /\ Begin("uninstall", UninstallSteps) /\ source' = tree
  /\ since' = TRUE
  /\ UNCHANGED <<generated, snapshot, astray, torn, elsewhere, original, trusted, events>>

-----------------------------------------------------------------------------
(***************************************************************************)
(* The transaction.                                                        *)
(***************************************************************************)
Saved(entries, S) ==
  IF \E i \in DOMAIN entries : entries[i].paths = S THEN entries
  ELSE Append(entries, [paths |-> S, files |-> [p \in S |-> files[p]]])

\* prepare_target, for each set of paths it is called with
Prepare(S) == log' = Saved(log, S)

Then(more) == todo' = more \o Tail(todo)

Step(name, path) == op \in {"install", "uninstall"} /\ todo # <<>> /\ Head(todo) = <<name, path>>

Put(path, content) == files' = [files EXCEPT ![path] = content]

\* install_link.  A link that is there is not recorded again.
InstallLink(l) ==
  /\ Step("install_link", l)
  /\ CASE files[l] = "ours" -> Then(<<>>) /\ UNCHANGED <<files, log>>
       [] files[l] = "none" -> Then(<< <<"link", l>>, <<"record", l>> >>) /\ UNCHANGED <<files, log>>
       [] OTHER ->
            /\ l = "page"
            /\ Prepare(State)
            /\ files' = IF files["backups"][l] = "none"
                        THEN [files EXCEPT !["backups"][l] = files[l]] ELSE files
            /\ Then(<< <<"link", l>>, <<"record_backup", l>> >>)

Link(l) == Step("link", l) /\ Prepare({l}) /\ Put(l, "ours") /\ Then(<<>>)

\* Mutant: only a link that replaced a file is recorded.
RecordBackups(l) ==
  \E kind \in {"record", "record_backup"} :
    /\ Step(kind, l) /\ Then(<<>>)
    /\ Prepare(State)
    /\ files' = IF files["manifest"][l] = "no" /\ kind = "record_backup"
                THEN [files EXCEPT !["manifest"][l] = "kept"] ELSE files

\* record_link
Record(l) ==
  \E kind \in {"record", "record_backup"} :
    /\ Step(kind, l) /\ Then(<<>>)
    /\ Prepare(State)
    /\ files' = IF files["manifest"][l] = "no"
                THEN [files EXCEPT !["manifest"][l] = IF kind = "record" THEN "-" ELSE "kept"]
                ELSE files

\* install_overlay.  Sources that have a page of the user's own are not touched.
Check ==
  /\ Step("check", "fluidd") /\ Then(<<>>)
  /\ ~files["fluidd"].own /\ UNCHANGED <<files, log>>

Apply ==
  /\ Step("apply", "fluidd") /\ Then(<<>>)
  /\ Prepare({"fluidd"}) /\ Put("fluidd", [files["fluidd"] EXCEPT !.block = TRUE])

Note ==
  /\ Step("note", "fluidd") /\ Then(<<>>)
  /\ Prepare({"fluidd-source.path"}) /\ Put("fluidd-source.path", source)

Create ==
  /\ Step("create", "ace.cfg") /\ Then(<<>>)
  /\ IF files["ace.cfg"] # Missing THEN UNCHANGED <<files, log>>
     ELSE Prepare({"ace.cfg"}) /\ Put("ace.cfg", [topology |-> Template, macros |-> FALSE])

\* config_upgrade.py, "merged": the template, with the topology that was there
\* and the macros of ace_machine.cfg.
Upgrade ==
  /\ Step("upgrade", "ace.cfg") /\ Then(<<>>)
  /\ Prepare({"ace.cfg"})
  /\ Put("ace.cfg", [topology |-> IF Embedded THEN files["ace.cfg"].topology ELSE Template,
                     macros |-> files["ace.cfg"].macros \/ files["ace_machine.cfg"] # Missing])

\* archive_legacy_machine_config; it stops when there is an archive already.
ArchiveMachine ==
  /\ Step("archive", "ace_machine.cfg") /\ Then(<<>>)
  /\ IF files["ace_machine.cfg"] = Missing THEN UNCHANGED <<files, log>>
     ELSE /\ files["ace_machine.cfg.legacy"] = Missing
          /\ log' = Saved(Saved(log, {"ace_machine.cfg"}), {"ace_machine.cfg.legacy"})
          /\ files' = [files EXCEPT !["ace_machine.cfg"] = Missing,
                                    !["ace_machine.cfg.legacy"] = files["ace_machine.cfg"]]

Merge ==
  /\ Step("merge", "ace.cfg") /\ Then(<<>>)
  /\ Prepare({"ace.cfg"}) /\ files' = [files EXCEPT !["ace.cfg"].topology = generated]

\* Mutant: the archive directory is not saved.
ArchiveHardwareUnsaved ==
  /\ Step("archive", "ace_hardware.cfg") /\ Then(<<>>)
  /\ IF files["ace_hardware.cfg"] = Missing THEN UNCHANGED <<files, log>>
     ELSE /\ Prepare({"ace_hardware.cfg"})
          /\ files' = [files EXCEPT !["ace_hardware.cfg"] = Missing,
                                    !["legacy"] = @ \cup {files["ace_hardware.cfg"]}]

\* archive_legacy_hardware_config, under a name that is free
ArchiveHardware ==
  /\ Step("archive", "ace_hardware.cfg") /\ Then(<<>>)
  /\ IF files["ace_hardware.cfg"] = Missing THEN UNCHANGED <<files, log>>
     ELSE /\ log' = Saved(Saved(log, {"ace_hardware.cfg"}), {"legacy"})
          /\ files' = [files EXCEPT !["ace_hardware.cfg"] = Missing,
                                    !["legacy"] = @ \cup {files["ace_hardware.cfg"]}]

\* ensure_block and managed_block.py: a line of the user's own becomes the block,
\* except a component nobody marked.
Ensure(c) ==
  /\ Step("ensure", c) /\ Then(<<>>)
  /\ c = "moonraker.conf" /\ files[c].own => files[c].block
  /\ Prepare({c}) /\ Put(c, [own |-> FALSE, block |-> TRUE])

\* Mutant: the tree that was noted is not looked up.
UnpatchGiven ==
  /\ Step("unpatch", "fluidd") /\ Then(<<>>)
  /\ IF source = "this"
     THEN Prepare({"fluidd"}) /\ Put("fluidd", [files["fluidd"] EXCEPT !.block = FALSE])
     ELSE UNCHANGED <<files, log>>

\* remove_overlay_patch: the tree that is given counts, and else the one noted.
Unpatch ==
  /\ Step("unpatch", "fluidd") /\ Then(<<>>)
  /\ IF "this" = IF source # "none" THEN source ELSE files["fluidd-source.path"]
     THEN Prepare({"fluidd"}) /\ Put("fluidd", [files["fluidd"] EXCEPT !.block = FALSE])
     ELSE UNCHANGED <<files, log>>

\* do_uninstall: a link that is not ours any more stays.
Unlink(l) ==
  /\ Step("unlink", l)
  /\ IF files["manifest"][l] # "no" /\ files[l] = "ours"
     THEN /\ Prepare({l}) /\ Put(l, "none")
          /\ Then(IF files["manifest"][l] = "kept" THEN << <<"give_back", l>> >> ELSE <<>>)
     ELSE Then(<<>>) /\ UNCHANGED <<files, log>>

GiveBack(l) ==
  /\ Step("give_back", l) /\ Then(<<>>)
  /\ Put(l, files["backups"][l]) /\ UNCHANGED log

RemoveBlock(c) ==
  /\ Step("remove", c) /\ Then(<<>>)
  /\ Prepare({c}) /\ Put(c, [files[c] EXCEPT !.block = FALSE])

\* cleanup_installer_state; the archives stay
Clean ==
  \E p \in State \ {"legacy"} :
    /\ Step("clean", p) /\ Then(<<>>)
    /\ Prepare({p})
    /\ Put(p, Gone(p))

Change ==
  /\ \/ \E l \in Links : InstallLink(l) \/ Link(l) \/ Record(l) \/ Unlink(l) \/ GiveBack(l)
     \/ Check \/ Apply \/ Note \/ Create \/ Upgrade \/ ArchiveMachine \/ Merge \/ ArchiveHardware
     \/ \E c \in Marked : Ensure(c) \/ RemoveBlock(c)
     \/ Unpatch \/ Clean
  /\ UNCHANGED <<op, half, source, generated, snapshot, before, outcome, torn, elsewhere,
                 ghosts, runs>>

-----------------------------------------------------------------------------
(***************************************************************************)
(* How a run ends.                                                         *)
(***************************************************************************)
Finish(how) ==
  /\ op' = "none" /\ todo' = <<>> /\ log' = <<>> /\ half' = {}
  /\ source' = "none" /\ generated' = <<>>
  /\ outcome' = how
  /\ before' = IF how \in {"failed", "uninstalled"} THEN before ELSE Missing

Ended == IF op = "install" THEN "installed" ELSE "uninstalled"

\* Mutant: the log outlives the transaction.
CommitKeepingLog ==
  /\ op \in {"install", "uninstall"} /\ todo = <<>>
  /\ op' = "none" /\ outcome' = Ended
  /\ UNCHANGED <<files, todo, log, half, source, generated, snapshot, before, torn, elsewhere,
                 ghosts, runs>>

\* commit_transaction
Commit ==
  /\ op \in {"install", "uninstall"} /\ todo = <<>>
  /\ Finish(Ended)
  /\ elsewhere' = IF source = "none" THEN elsewhere ELSE source = "other"
  /\ UNCHANGED <<files, snapshot, torn, ghosts, runs>>

\* A command fails, die, or the preflight at the end: on_exit starts to roll back.
Fail ==
  /\ op \in {"install", "uninstall"}
  /\ op' = "rollback" /\ todo' = <<>>
  /\ UNCHANGED <<files, log, half, source, generated, snapshot, before, outcome, torn,
                 elsewhere, ghosts, runs>>

Last == log[Len(log)]

\* rollback, from the last entry to the first: what is at the target is removed,
\* and then what was saved is copied there.
RollbackRemove ==
  /\ op = "rollback" /\ log # <<>> /\ half = {}
  /\ files' = [p \in Paths |-> IF p \in Last.paths THEN Gone(p) ELSE files[p]]
  /\ half' = Last.paths
  /\ UNCHANGED <<op, todo, log, source, generated, snapshot, before, outcome, torn,
                 elsewhere, ghosts, runs>>

RollbackCopy ==
  /\ op = "rollback" /\ half # {}
  /\ files' = [p \in Paths |-> IF p \in half THEN Last.files[p] ELSE files[p]]
  /\ log' = SubSeq(log, 1, Len(log) - 1) /\ half' = {}
  /\ UNCHANGED <<op, todo, source, generated, snapshot, before, outcome, torn,
                 elsewhere, ghosts, runs>>

RolledBack ==
  /\ op = "rollback" /\ log = <<>>
  /\ Finish("failed")
  /\ UNCHANGED <<files, snapshot, torn, elsewhere, ghosts, runs>>

\* Power is lost, or the rollback itself fails, between a removal and its copy too.
Kill ==
  /\ op \in {"install", "uninstall", "rollback"}
  /\ Finish("killed") /\ astray' = TRUE
  /\ torn' = (torn \/ "ace.cfg" \in half)
  /\ events < MaxEvents /\ events' = events + 1
  /\ UNCHANGED <<files, snapshot, since, elsewhere, original, trusted, runs>>

-----------------------------------------------------------------------------
(***************************************************************************)
(* restore_snapshot: target after target, and again from the start when it *)
(* did not finish.                                                         *)
(***************************************************************************)
BeginRestore ==
  /\ snapshot # Missing
  /\ Begin("restore", <<>>)
  /\ torn' = TRUE
  /\ UNCHANGED <<source, generated, snapshot, since, astray, elsewhere, original, trusted,
                 events>>

\* The order of collect_snapshot_targets.
Order == <<State, {"package"}, {"ace.cfg"}, {"ace_hardware.cfg"}, {"ace_machine.cfg"},
           {"ace_machine.cfg.legacy"}, {"printer.cfg"}, {"moonraker.conf"}, {"page"}, {"fluidd"}>>

Differs(S) == S \subseteq snapshot.targets /\ \E p \in S : files[p] # snapshot.files[p]

RestoreNext ==
  /\ op = "restore"
  /\ \E i \in DOMAIN Order :
       /\ Differs(Order[i]) /\ \A j \in 1..(i - 1) : ~Differs(Order[j])
       /\ files' = [p \in Paths |-> IF p \in Order[i] THEN snapshot.files[p] ELSE files[p]]
  /\ UNCHANGED <<op, todo, log, half, source, generated, snapshot, before, outcome, torn,
                 elsewhere, ghosts, runs>>

Restored ==
  /\ op = "restore" /\ \A i \in DOMAIN Order : ~Differs(Order[i])
  /\ Finish("restored")
  /\ torn' = snapshot.torn /\ astray' = (since \/ snapshot.astray)
  /\ elsewhere' = snapshot.elsewhere
  /\ UNCHANGED <<files, snapshot, since, original, trusted, events, runs>>

RestoreStops ==
  /\ op = "restore"
  /\ Finish("killed") /\ astray' = TRUE
  /\ events < MaxEvents /\ events' = events + 1
  /\ UNCHANGED <<files, snapshot, since, torn, elsewhere, original, trusted, runs>>

-----------------------------------------------------------------------------
(***************************************************************************)
(* A person, between runs.                                                 *)
(***************************************************************************)
Edit ==
  /\ op = "none" /\ events < MaxEvents /\ events' = events + 1
  /\ since' = TRUE /\ outcome' = "none" /\ before' = Missing
  /\ UNCHANGED <<op, todo, log, half, source, generated, snapshot, astray, torn, elsewhere,
                 original, runs>>

\* An upgrade of Fluidd, or somebody, puts another file at the place of a link, or none.
ReplaceLink(l, content) == Edit /\ Put(l, content) /\ UNCHANGED trusted

\* A line of the user's own with the same meaning; fresh Fluidd sources.
EditMarked(c) ==
  /\ Edit /\ UNCHANGED trusted
  /\ \/ Put(c, [files[c] EXCEPT !.own = ~@])
     \/ c = "fluidd" /\ Put(c, [own |-> FALSE, block |-> FALSE])

\* physical_actions_enabled is set by hand.
Allow(i) ==
  /\ Edit
  /\ files["ace.cfg"] # Missing /\ i \in DOMAIN files["ace.cfg"].topology
  /\ files' = [files EXCEPT !["ace.cfg"].topology[i].physical = ~@]
  /\ trusted' = trusted \cup {files["ace.cfg"].topology[i].unit}

Person ==
  \/ \E l \in Links, content \in {"none", "newer"} : ReplaceLink(l, content)
  \/ \E c \in Marked : EditMarked(c)
  \/ \E i \in 1..Cardinality(Unit) : Allow(i)

Next ==
  \/ \E tree \in Sources : Uninstall(tree) \/ \E units \in Devices : Install(units, tree)
  \/ Change \/ Commit \/ Fail \/ RollbackRemove \/ RollbackCopy \/ RolledBack \/ Kill
  \/ BeginRestore \/ RestoreNext
  \/ Restored \/ RestoreStops
  \/ Person

Spec == Init /\ [][Next]_vars

-----------------------------------------------------------------------------
(* Properties *)

\* Every variable has its type, and a transaction leaves nothing open.
TypeOK ==
  /\ DOMAIN files = Paths
  /\ \A l \in Links : files[l] \in {"none", "own", "newer", "ours"}
  /\ \A c \in Marked : files[c] \in [own : BOOLEAN, block : BOOLEAN]
  /\ files["manifest"] \in [Links -> {"no", "-", "kept"}]
  /\ files["backups"] \in [Links -> {"none", "own", "newer"}]
  /\ files["fluidd-source.path"] \in Sources /\ files["legacy"] \subseteq {Legacy}
  /\ files["ace.cfg"] # Missing => files["ace.cfg"] \in [topology : Topologies, macros : BOOLEAN]
  /\ op \in {"none", "install", "uninstall", "rollback", "restore"}
  /\ op = "none" => todo = <<>> /\ log = <<>> /\ half = {}
  /\ half # {} => op = "rollback" /\ log # <<>> /\ half = Last.paths
  /\ trusted \subseteq Unit

\* A run that fails at any step, and is not killed, leaves every file as it was
\* when it began.
FailureChangesNothing == outcome = "failed" => files = before

\* However an installation ended, killed or not, restoring the snapshot it made
\* gives back every file, also when the restore had to be started again.
RestoreUndoesInstall ==
  outcome = "restored" /\ ~since => files = snapshot.files

\* Uninstalling leaves nothing of ours: the blocks are gone, in the Fluidd
\* sources unless the last tree named to the installer was another one; a link of
\* ours becomes again what was there before it was first installed, whatever was
\* put there and replaced in between; what is not our link is kept, and so are the
\* archives.
UninstallIsClean ==
  outcome = "uninstalled" /\ ~astray =>
    /\ \A c \in Marked : files[c].block => c = "fluidd" /\ elsewhere
    /\ \A l \in Links :
         /\ files[l] # "ours"
         /\ files[l] = IF before[l] = "ours" THEN original[l] ELSE before[l]
    /\ files["legacy"] = before["legacy"]

\* After any runs that were not killed, the installer does not refuse because of
\* what it left itself.
NeverLockedOut == op = "none" /\ ~astray => ~LockedOut

Archives == {"ace_machine.cfg.legacy", "legacy"}
ArchivedFrom(q) == IF q = "legacy" THEN "ace_hardware.cfg" ELSE "ace_machine.cfg"
Holds(f, q) == f[q] # Gone(q)
\* ace.cfg, as f has it, says what the archived file said.
Says(f, q) ==
  /\ f["ace.cfg"] # Missing
  /\ IF q = "legacy" THEN \E i \in DOMAIN f["ace.cfg"].topology :
                            f["ace.cfg"].topology[i].unit # Blank
     ELSE f["ace.cfg"].macros

\* An old configuration is put away only when ace.cfg has what it said, even if
\* the machine goes down between the two; while ace.cfg itself is being rolled
\* back, its saved copy has it.  Where a cut rollback or restore leaves no
\* ace.cfg, the snapshot of the last installation still has what each archive
\* holds, in ace.cfg or in the file that was archived.
NothingRetiredTooEarly ==
  \A q \in Archives : Holds(files, q) =>
    /\ ~torn => Says(IF "ace.cfg" \in half THEN Last.files ELSE files, q)
    /\ snapshot # Missing /\ ~since /\ ~snapshot.torn =>
         Says(snapshot.files, q) \/ Holds(snapshot.files, ArchivedFrom(q))

\* No unit may act that a person did not allow to, whatever is exchanged,
\* moved, rolled back or restored.
TrustsOnlyThePerson ==
  files["ace.cfg"] # Missing => Trusted(files["ace.cfg"].topology) \subseteq trusted
=============================================================================
