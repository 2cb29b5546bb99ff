------------------------------- MODULE Yostar -------------------------------
(***************************************************************************)
(* An install of the YoStar backend over its life: install, update and     *)
(* repair materialize the files of a release from reuse roots and two CDN  *)
(* roots, update removes what the old release owned, manifest.json and     *)
(* then game-launcher-config.json name the installed release, and the      *)
(* change marker of InstallChange stands from before the first write until *)
(* after the last. Commands run one at a time; each can fail or be killed  *)
(* between any two steps, the server publishes releases meanwhile, and the *)
(* user changes files between commands.                                    *)
(*                                                                         *)
(* An operator with an underscore in its name is a faulty variant of the   *)
(* definition after it and in no specification.                            *)
(***************************************************************************)
EXTENDS FileTree, SequencesExt

CONSTANTS
  Releases,              \* the server serves release 1 .. Releases
  File,                  \* File[r]: path -> content, the manifest of a release
  Version,               \* Version[r]; two releases of one version differ in their basis
  Foreign,               \* contents the user can write
  Roots,                 \* number of CDN roots
  MaxCrashes, MaxFaults, MaxEdits    \* bounds: crashes, files no source delivers, edits

ASSUME YostarAssumption ==
  /\ {Releases, Roots} \subseteq Nat \ {0} /\ {MaxCrashes, MaxFaults, MaxEdits} \subseteq Nat
  /\ \A r \in 1 .. Releases : /\ DOMAIN File[r] \subseteq Path
                              /\ \A p \in DOMAIN File[r] : File[r][p] \in Content
                              /\ Version[r] \in Nat \ {0}
  /\ Foreign \subseteq Content

VARIABLES
  tree,                  \* the files and directories of the install root
  manifest, config,      \* the release the two metadata files were written for, or 0
  marker,                \* .griffr/state.json
  server,                \* the latest release
  job,                   \* the running command
  damaged,               \* paths the user changed since Griffr last wrote them
  dropped,               \* a marker went without its change being finished
  crashes, faults, edits

bounds == <<crashes, faults, edits>>
ghosts == <<damaged, dropped>>
vars == <<tree, manifest, config, marker, server, job, ghosts, bounds>>

Idle == [pc |-> "idle"]

-----------------------------------------------------------------------------
(* The change marker, as change_state fills it and install_change judges it. *)

NoMarker == [kind |-> "none", from |-> 0, to |-> 0, basis |-> 0]

\* change_state: basis is stored as game_files_path; no digest, payload or resource identity.
Change(kind, from, r) == [kind |-> kind, from |-> from, to |-> Version[r], basis |-> r]

CanAdvance(m, ch) ==
  \/ m.kind = "install" /\ ch.kind = "install"
  \/ m.kind = ch.kind /\ m.from = ch.from /\ m.to = ch.to
  \/ ch.kind = "update" /\ m.to # ch.to /\ ch.from \in {m.to, m.from}

\* start_install_change: a new change, the same one, or one the pending change can advance to.
MayStart(ch) == marker = NoMarker \/ marker = ch \/ CanAdvance(marker, ch)

-----------------------------------------------------------------------------
(* Local metadata. *)

\* detect_local_install and read_yostar_metadata: both files, of one version.
Detected == config # 0 /\ manifest # 0 /\ Version[config] = Version[manifest]

\* directory_has_entries; the marker lies in the directory too.
HasEntries == marker # NoMarker \/ {config, manifest} # {0} \/ \E p \in Path : tree[p] # "none"

-----------------------------------------------------------------------------
(* Start of a command: everything before the first file changes. *)

\* provider_attempt_roots: the primary root once more after its backup.
Attempts == IF Roots > 1 THEN Roots + 1 ELSE 1

NewJob(cmd, cur, to, pc, skip) ==
  [cmd |-> cmd, cur |-> cur, to |-> to, pc |-> pc, skip |-> skip, todo |-> {}, dirs |-> {},
   attempt |-> 0, failed |-> FALSE]

Enter(j, pc, todo) == [j EXCEPT !.pc = pc, !.todo = todo, !.dirs = {}, !.failed = FALSE]

\* One batch of file tasks over every entry of the target.
Batch(j) == [Enter(j, "ensure", DOMAIN File[j.to]) EXCEPT !.attempt = @ + 1]

Blocks(j, p) == \E t \in DOMAIN File[j.to] : p \in Ancestors(t) \/ t \in Ancestors(p)

Obsolete(j) == DOMAIN File[j.cur] \ DOMAIN File[j.to]

Blocking(j) == {p \in Obsolete(j) : Blocks(j, p)}

Begin(ch, j) ==
  /\ job = Idle /\ MayStart(ch)
  /\ marker' = ch /\ job' = j
  /\ UNCHANGED <<tree, manifest, config, server, ghosts, bounds>>

Install(force) ==
  /\ HasEntries => force \/ marker.kind = "install"
  /\ Begin(Change("install", 0, server),
           Batch(NewJob("install", 0, server, "ensure", ~HasEntries)))

\* The canonical manifest of the installed release may be unavailable; then cur is 0, every file is
\* checked by content and nothing is deleted.
Update(cur) ==
  /\ Detected /\ cur \in {0, manifest}
  /\ Begin(Change("update", Version[config], server),
           LET j == NewJob("update", cur, server, "blocking", FALSE)
           IN  IF cur = 0 THEN Batch(j) ELSE Enter(j, "blocking", Blocking(j)))

\* verify --repair; without --repair the command only reads.
Repair ==
  /\ Detected
  /\ Begin(Change("repair", Version[config], manifest),
           Batch(NewJob("repair", 0, manifest, "ensure", FALSE)))

-----------------------------------------------------------------------------
(* cleanup_yostar_obsolete_files, before the files with blocking_only and after them without. *)

Cleaning == job.pc \in {"blocking", "cleanup"}

\* Deletes whatever has the entry's size.
CleanEntry_BySize(p) ==
  /\ Cleaning /\ p \in job.todo
  /\ tree' = IF SameSize(tree, p, File[job.cur][p]) THEN RemoveFile(tree, p) ELSE tree
  /\ job' = [job EXCEPT !.todo = @ \ {p}]
  /\ UNCHANGED <<manifest, config, marker, server, ghosts, bounds>>

\* build_issue: an entry that matches goes, a missing one is passed over, and a changed one stops
\* the blocking pass and is kept by the other.
CleanEntry(p) ==
  /\ Cleaning /\ p \in job.todo
  /\ LET owned == Matches(tree, p, File[job.cur][p])
     IN  /\ tree' = IF owned THEN RemoveFile(tree, p) ELSE tree
         /\ job' = IF owned THEN [job EXCEPT !.todo = @ \ {p},
                                             !.dirs = @ \cup (IF Len(p) > 1 THEN {Front(p)} ELSE {})]
                   ELSE IF Missing(tree, p) \/ job.pc = "cleanup" THEN [job EXCEPT !.todo = @ \ {p}]
                   ELSE Idle
  /\ UNCHANGED <<manifest, config, marker, server, ghosts, bounds>>

\* Parents of deleted files, the deepest first; a failure to remove one is ignored.
CleanDir(d) ==
  /\ Cleaning /\ job.todo = {}
  /\ d \in job.dirs /\ \A x \in job.dirs : Len(x) <= Len(d)
  /\ tree' = IF CanRemoveDir(tree, d) THEN RemoveEmptyDir(tree, d) ELSE tree
  /\ job' = [job EXCEPT !.dirs = @ \ {d}]
  /\ UNCHANGED <<manifest, config, marker, server, ghosts, bounds>>

CleanDone ==
  /\ Cleaning /\ job.todo = {} /\ job.dirs = {}
  /\ job' = IF job.pc = "blocking" THEN Batch(job) ELSE Enter(job, "manifest", {})
  /\ UNCHANGED <<tree, manifest, config, marker, server, ghosts, bounds>>

-----------------------------------------------------------------------------
(* ensure_yostar_files_with_pool; FileTransfer shows how one file is brought to its content. *)

MetadataOnly(p) == job.cur # 0 /\ p \in DOMAIN File[job.cur] /\ File[job.cur][p] = File[job.to][p]

Intact(p) == /\ ~job.skip
             /\ IF MetadataOnly(p) THEN SameSize(tree, p, File[job.to][p])
                                   ELSE Matches(tree, p, File[job.to][p])

EnsureFile(p) ==
  /\ job.pc = "ensure" /\ p \in job.todo
  /\ Intact(p) \/ CanWrite(tree, p)
  /\ tree' = IF Intact(p) THEN tree ELSE WriteFile(tree, p, File[job.to][p])
  /\ damaged' = IF Intact(p) THEN damaged ELSE damaged \ {p}
  /\ job' = [job EXCEPT !.todo = @ \ {p}]
  /\ UNCHANGED <<manifest, config, marker, server, dropped, bounds>>

FileFails(p) ==
  /\ job.pc = "ensure" /\ p \in job.todo /\ ~Intact(p)
  /\ CanWrite(tree, p) => faults < MaxFaults
  /\ faults' = IF CanWrite(tree, p) THEN faults + 1 ELSE faults
  /\ job' = [job EXCEPT !.todo = @ \ {p}, !.failed = TRUE]
  /\ UNCHANGED <<tree, manifest, config, marker, server, ghosts, crashes, edits>>

\* Leaves the rest of the cleanup to the pass before the files.
After_NoCleanup(j) == IF j.cmd = "repair" THEN Enter(j, "finish", {}) ELSE Enter(j, "manifest", {})

After(j) == IF j.cmd = "repair" THEN Enter(j, "finish", {})
            ELSE IF j.cur # 0 THEN Enter(j, "cleanup", Obsolete(j) \ Blocking(j))
            ELSE Enter(j, "manifest", {})

\* The last provider phase is taken for a success.
BatchDone_LastWins ==
  /\ job.pc = "ensure" /\ job.todo = {}
  /\ job' = IF job.failed /\ job.attempt < Attempts THEN Batch(job) ELSE After(job)
  /\ UNCHANGED <<tree, manifest, config, marker, server, ghosts, bounds>>

\* summarize_result: any failed or cancelled node fails the phase; after the last phase the error
\* ends the command.
BatchDone ==
  /\ job.pc = "ensure" /\ job.todo = {}
  /\ job' = IF ~job.failed THEN After(job)
            ELSE IF job.attempt < Attempts THEN Batch(job)
            ELSE Idle
  /\ UNCHANGED <<tree, manifest, config, marker, server, ghosts, bounds>>

-----------------------------------------------------------------------------
(* Commit. *)

WriteManifest ==
  /\ job.pc = "manifest"
  /\ manifest' = job.to /\ job' = [job EXCEPT !.pc = "config"]
  /\ UNCHANGED <<tree, config, marker, server, ghosts, bounds>>

WriteConfig ==
  /\ job.pc = "config"
  /\ config' = job.to /\ job' = [job EXCEPT !.pc = "finish"]
  /\ UNCHANGED <<tree, manifest, marker, server, ghosts, bounds>>

\* finish_install_change
Finish ==
  /\ job.pc = "finish"
  /\ marker' = NoMarker /\ job' = Idle
  /\ dropped' = (dropped /\ job.cur # 0)
  /\ UNCHANGED <<tree, manifest, config, server, damaged, bounds>>

-----------------------------------------------------------------------------
(* uninstall and uninstall --detach. *)

\* validate_uninstall_root: launcher metadata or Griffr's private directory, which holds the marker.
Uninstallable == job = Idle /\ (marker # NoMarker \/ 0 \notin {config, manifest})

\* detach_install forgets Griffr's state, an unfinished change included.
Detach ==
  /\ Uninstallable
  /\ marker' = NoMarker /\ dropped' = (dropped \/ marker # NoMarker)
  /\ UNCHANGED <<tree, manifest, config, server, job, damaged, bounds>>

Uninstall ==
  /\ Uninstallable
  /\ tree' = [p \in Path |-> "none"] /\ manifest' = 0 /\ config' = 0 /\ marker' = NoMarker
  /\ damaged' = {} /\ dropped' = FALSE
  /\ UNCHANGED <<server, job, bounds>>

\* remove_dir_all stops half-way: some of the entries are gone, in no particular order.
UninstallCut ==
  /\ Uninstallable /\ crashes < MaxCrashes /\ crashes' = crashes + 1
  /\ \E kept \in SUBSET {p \in Path : HoldsFile(tree, p)} :
       tree' = [p \in Path |-> IF HoldsFile(tree, p) /\ p \notin kept THEN "none" ELSE tree[p]]
  /\ manifest' \in {0, manifest} /\ config' \in {0, config} /\ marker' \in {NoMarker, marker}
  /\ dropped' = TRUE
  /\ UNCHANGED <<server, job, damaged, faults, edits>>

-----------------------------------------------------------------------------
(* The environment. *)

Crash ==
  /\ job # Idle /\ crashes < MaxCrashes
  /\ crashes' = crashes + 1 /\ job' = Idle
  /\ UNCHANGED <<tree, manifest, config, marker, server, ghosts, faults, edits>>

Publish ==
  /\ server < Releases /\ server' = server + 1
  /\ UNCHANGED <<tree, manifest, config, marker, job, ghosts, bounds>>

Edit(p) ==
  /\ job = Idle /\ edits < MaxEdits /\ edits' = edits + 1
  /\ \/ HoldsFile(tree, p) /\ tree' = RemoveFile(tree, p)
     \/ CanWrite(tree, p) /\ \E c \in Foreign : tree' = WriteFile(tree, p, c)
  /\ damaged' = damaged \cup {p}
  /\ UNCHANGED <<manifest, config, marker, server, job, dropped, crashes, faults>>

Init ==
  /\ tree = [p \in Path |-> "none"] /\ manifest = 0 /\ config = 0 /\ marker = NoMarker
  /\ server = 1 /\ job = Idle /\ damaged = {} /\ dropped = FALSE
  /\ crashes = 0 /\ faults = 0 /\ edits = 0

Command == Repair \/ (\E force \in BOOLEAN : Install(force)) \/ \E cur \in 0 .. Releases : Update(cur)

Step ==
  \/ CleanDone \/ BatchDone \/ WriteManifest \/ WriteConfig \/ Finish
  \/ \E p \in Path : CleanEntry(p) \/ CleanDir(p) \/ EnsureFile(p) \/ FileFails(p)

Next == Command \/ Step \/ Detach \/ Uninstall \/ UninstallCut \/ Crash \/ Publish \/ \E p \in Path : Edit(p)

Spec == Init /\ [][Next]_vars

\* A started command goes on, and the user, told that a change is unfinished, repeats each command
\* that would be accepted.
FairSpec ==
  /\ Spec /\ WF_vars(Step) /\ SF_vars(Repair) /\ SF_vars(Install(TRUE))
  /\ SF_vars(\E cur \in 0 .. Releases : Update(cur))

-----------------------------------------------------------------------------
(* Properties. *)

\* Types; every file hangs below directories.
TypeOK ==
  /\ tree \in [Path -> Node] /\ IsTree(tree)
  /\ {manifest, config} \subseteq 0 .. Releases /\ server \in 1 .. Releases
  /\ marker.from \in Nat /\ marker.basis \in 0 .. Releases
  /\ job = Idle \/ (job.to \in 1 .. Releases /\ job.todo \subseteq Path)
  /\ damaged \subseteq Path /\ dropped \in BOOLEAN
  /\ crashes \in 0 .. MaxCrashes /\ faults \in 0 .. MaxFaults /\ edits \in 0 .. MaxEdits

\* What launch accepts is a whole release: without a marker, the two metadata files agree on the
\* version and each file of the manifest is in place unless the user changed it since Griffr wrote
\* it, after any sequence of interrupted, repeated and superseded commands. Only detach and an
\* interrupted uninstall drop a marker, until a command that checks every file by content finishes.
\* It holds for releases whose contents differ in size: update trusts an entry both manifests
\* agree on by its size, and no pass by content follows.
LaunchWhole ==
  marker = NoMarker /\ config # 0 /\ ~dropped =>
    /\ Detected
    /\ \A p \in DOMAIN File[manifest] : Matches(tree, p, File[manifest][p]) \/ p \in damaged

\* A command deletes a file only when the server's manifest of the installed release owns it with
\* exactly that content, and overwrites one only where the target manifest lists it.
ProvenOnly ==
  [][job # Idle => \A p \in Path : HoldsFile(tree, p) /\ tree'[p] # tree[p] =>
       \/ p \in DOMAIN File[job.to] /\ tree'[p] = File[job.to][p]
       \/ job.cur # 0 /\ p \in Obsolete(job) /\ tree[p] = File[job.cur][p]]_vars

\* An update that names its release in manifest.json has removed every unmodified file of the
\* release before it, whichever pass the file fell to.
OldRemoved ==
  [][job # Idle /\ manifest' # manifest /\ job.cur # 0 =>
       \A p \in Obsolete(job) : tree[p] # File[job.cur][p]]_vars

=============================================================================
