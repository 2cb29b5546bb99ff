--------------------------- MODULE ManagedResources ---------------------------
(***************************************************************************)
(* The resource files Griffr manages under one root: Persistent, filled by *)
(* setup_persistent_vfs from the preference manifests, or StreamingAssets, *)
(* filled by download_vfs_resources and finish_vfs_plan from the index     *)
(* manifests. A run plans from the manifests, records its intent, brings   *)
(* every file to its content, publishes manifests, prunes what the last    *)
(* finished run managed, and records the result. The server moves on, the  *)
(* game and the user change files, and a run can stop between any two      *)
(* steps. Bringing one file to its content is what FileTransfer shows; it  *)
(* is one step here.                                                       *)
(*                                                                         *)
(* An operator with an underscore in its name is a faulty variant of the   *)
(* definition after it and in no specification.                            *)
(***************************************************************************)
EXTENDS Naturals, FiniteSets, Functions

CONSTANTS
  Resource, Group,
  Releases,                \* the server serves release 1 .. Releases
  Doc,                     \* Doc[r][g]: path -> content, the manifest of a group in a release
  Unversioned,             \* the <<r, g>> whose document has an empty version field
  Kinds,                   \* the roots modelled
  Selections,              \* the file sets a run can be asked for
  MaxChanges, MaxFaults, MaxCrashes   \* bounds: game and user, failing tasks, crashes

None == [rel |-> 0]
NoDoc == 0

ASSUME ManagedAssumption ==
  /\ Releases \in Nat \ {0} /\ {MaxChanges, MaxFaults, MaxCrashes} \subseteq Nat
  /\ \A r \in 1 .. Releases, g \in Group : DOMAIN Doc[r][g] \subseteq Resource
  /\ Unversioned \subseteq (1 .. Releases) \X Group
  /\ Kinds \subseteq {"persistent", "assets"}
  /\ Selections \subseteq SUBSET Group

VARIABLES
  kind, server,            \* the root; the release the server serves
  disk, manifest,          \* files of the root; the release of each manifest on disk
  record, pending,         \* persistent-vfs.json or resource-baseline.json, and its .pending
  command,                 \* the command: pc, plan and what is left of the current step
  changed,                 \* paths the game or the user changed since Griffr last verified them
  forgot,                  \* an unpruned run finished, or a pending marker was removed by hand
  changes, faults, crashes

files == <<disk, manifest, record, pending>>
ghosts == <<changed, forgot>>
bounds == <<changes, faults, crashes>>
rootVars == <<kind, server, files, command, ghosts, bounds>>

NoCommand == [pc |-> "idle"]
Contents == UNION {Range(Doc[r][g]) : r \in 1 .. Releases, g \in Group}
ASSUME ContentsAssumption == Contents \cap {"absent", "user"} = {}
Managed(state) == IF state = None THEN {} ELSE DOMAIN state.files

-----------------------------------------------------------------------------
(* Planning. *)

\* file_set_includes_group; StreamingAssets always takes every group.
Selected(sel) == IF kind = "persistent" THEN sel ELSE Group

\* plan_persistent_vfs_tasks: a local preference manifest is the game's choice and is used as it
\* is; plan_vfs_tasks always fetches.
UsesLocal(g) == kind = "persistent" /\ manifest[g] # NoDoc
DocRelease(g) == IF UsesLocal(g) THEN manifest[g] ELSE server

\* is_compatible_res_index_version.
Compatible(r, g) == <<r, g>> \in Unversioned \/ Doc[r][g] = Doc[server][g]

\* register_resource_claim: two manifests may claim a path only with the same content.
Agree(groups) ==
  \A g, h \in groups : \A p \in DOMAIN Doc[DocRelease(g)][g] \cap DOMAIN Doc[DocRelease(h)][h] :
    Doc[DocRelease(g)][g][p] = Doc[DocRelease(h)][h][p]

Plan(groups) ==
  LET claims == [g \in groups |-> Doc[DocRelease(g)][g]]
  IN  [rel |-> server, docs |-> [g \in groups |-> DocRelease(g)],
       files |-> [p \in UNION {DOMAIN claims[g] : g \in groups} |->
                    LET g == CHOOSE g \in groups : p \in DOMAIN claims[g] IN claims[g][p]]]

Planned(groups) ==
  /\ groups # {}
  /\ \A g \in groups : Compatible(DocRelease(g), g)
  /\ Agree(groups)

\* A plan that is refused changes nothing. Persistent records its intent before the first file,
\* StreamingAssets after the last one.
StartCommand(sel, prune) ==
  /\ command = NoCommand /\ Planned(Selected(sel))
  /\ \E plan \in {Plan(Selected(sel))} :
       command' = [pc |-> IF kind = "persistent" THEN "intent" ELSE "tasks", plan |-> plan,
               prune |-> prune \/ kind = "assets", todo |-> DOMAIN plan.files,
               commits |-> {g \in Selected(sel) : ~UsesLocal(g)}]
  /\ UNCHANGED <<kind, server, files, ghosts, bounds>>

-----------------------------------------------------------------------------
(* The steps of a run. *)

At(pc) == command.pc = pc
Goto(pc, todo) == command' = [command EXCEPT !.pc = pc, !.todo = todo]

\* The pending marker: a run with another selection is refused, the same one goes on.
Intent_Replaces ==
  /\ At("intent")
  /\ pending' = command.plan
  /\ IF kind = "persistent" THEN Goto("tasks", command.todo) ELSE Goto("commit", command.commits)
  /\ UNCHANGED <<kind, server, disk, manifest, record, ghosts, bounds>>
Intent ==
  /\ At("intent")
  /\ IF pending \notin {None, command.plan} THEN command' = NoCommand /\ UNCHANGED pending
     ELSE /\ pending' = command.plan
          /\ IF kind = "persistent" THEN Goto("tasks", command.todo)
             ELSE Goto("commit", command.commits)
  /\ UNCHANGED <<kind, server, disk, manifest, record, ghosts, bounds>>

\* A file task of the batch, in any order: it leaves the expected content ...
EnsureResource(p) ==
  /\ At("tasks") /\ p \in command.todo
  /\ disk' = [disk EXCEPT ![p] = command.plan.files[p]]
  /\ changed' = changed \ {p}
  /\ command' = [command EXCEPT !.todo = @ \ {p}]
  /\ UNCHANGED <<kind, server, manifest, record, pending, forgot, bounds>>
\* ... or fails. The other tasks run to their end, so a failed batch stops after any of them.
TasksFail ==
  /\ At("tasks") /\ command.todo # {} /\ faults < MaxFaults
  /\ faults' = faults + 1
  /\ command' = NoCommand
  /\ UNCHANGED <<kind, server, files, ghosts, changes, crashes>>
BatchDone_Unmarked ==
  /\ At("tasks") /\ command.todo = {}
  /\ IF kind = "persistent" THEN Goto("commit", command.commits) ELSE Goto("intent", {})
  /\ pending' = None
  /\ UNCHANGED <<kind, server, disk, manifest, record, ghosts, bounds>>
BatchDone ==
  /\ At("tasks") /\ command.todo = {}
  /\ IF kind = "persistent" THEN Goto("commit", command.commits) ELSE Goto("intent", {})
  /\ UNCHANGED <<kind, server, files, ghosts, bounds>>

\* commit_vfs_manifests, sorted by name; the order makes no difference here.
CommitManifest(g) ==
  /\ At("commit") /\ g \in command.todo
  /\ manifest' = [manifest EXCEPT ![g] = command.plan.docs[g]]
  /\ command' = [command EXCEPT !.todo = @ \ {g}]
  /\ UNCHANGED <<kind, server, disk, record, pending, changed, forgot, bounds>>
CommitDone ==
  /\ At("commit") /\ command.todo = {}
  /\ Goto("prune", IF command.prune THEN Managed(record) \ DOMAIN command.plan.files ELSE {})
  /\ UNCHANGED <<kind, server, files, ghosts, bounds>>

\* prune_previous_managed_files, prune_previous_files: only content the record names is removed.
PruneFile(p) ==
  /\ At("prune") /\ p \in command.todo
  /\ disk' = [disk EXCEPT ![p] = IF @ = record.files[p] THEN "absent" ELSE @]
  /\ command' = [command EXCEPT !.todo = @ \ {p}]
  /\ UNCHANGED <<kind, server, manifest, record, pending, ghosts, bounds>>

\* The new record, then the pending marker goes.
WriteState ==
  /\ At("prune") /\ command.todo = {}
  /\ record' = command.plan
  /\ forgot' = (forgot \/ (~command.prune
                           /\ ~(Managed(record) \subseteq DOMAIN command.plan.files)))
  /\ Goto("clear", {})
  /\ UNCHANGED <<kind, server, disk, manifest, pending, changed, bounds>>
RemovePending_Kept ==
  /\ At("clear")
  /\ command' = NoCommand
  /\ UNCHANGED <<kind, server, files, ghosts, bounds>>
RemovePending ==
  /\ At("clear")
  /\ pending' = None
  /\ command' = NoCommand
  /\ UNCHANGED <<kind, server, disk, manifest, record, ghosts, bounds>>

-----------------------------------------------------------------------------
(* The world. *)

CommandDies ==
  /\ command # NoCommand /\ crashes < MaxCrashes
  /\ crashes' = crashes + 1
  /\ command' = NoCommand
  /\ UNCHANGED <<kind, server, files, ghosts, changes, faults>>
Change == changes < MaxChanges /\ changes' = changes + 1
ServerMoves ==
  /\ server < Releases
  /\ server' = server + 1
  /\ UNCHANGED <<kind, files, command, ghosts, bounds>>
\* The game or the user writes or deletes a file, at any time.
FileChanges(p) ==
  /\ Change
  /\ \E c \in {"user", "absent"} \ {disk[p]} : disk' = [disk EXCEPT ![p] = c]
  /\ changed' = changed \cup {p}
  /\ UNCHANGED <<kind, server, manifest, record, pending, command, forgot, faults, crashes>>
\* The game selects the resources of the current release; no command runs beside it.
GameSelects(g) ==
  /\ command = NoCommand /\ kind = "persistent" /\ manifest[g] # server
  /\ manifest' = [manifest EXCEPT ![g] = server]
  /\ UNCHANGED <<kind, server, disk, record, pending, command, changed, forgot, bounds>>
\* The pending marker of a change no selection finishes any more; the user removes it.
Unfinishable ==
  pending # None /\ \A sel \in Selections : Planned(Selected(sel)) => pending # Plan(Selected(sel))
DropPending ==
  /\ command = NoCommand /\ Unfinishable
  /\ pending' = None
  /\ changed' = Resource /\ forgot' = TRUE
  /\ UNCHANGED <<kind, server, disk, manifest, record, command, bounds>>

RootInit ==
  /\ kind \in Kinds /\ server = 1
  /\ disk \in [Resource -> {"absent", "user"}]
  /\ manifest = [g \in Group |-> NoDoc]
  /\ record = None /\ pending = None /\ command = NoCommand
  /\ changed = {} /\ forgot = FALSE
  /\ changes = 0 /\ faults = 0 /\ crashes = 0

Step ==
  \/ Intent \/ BatchDone \/ CommitDone \/ WriteState \/ RemovePending
  \/ \E p \in Resource : EnsureResource(p) \/ PruneFile(p)
  \/ \E g \in Group : CommitManifest(g)
StartSome == \E sel \in Selections, prune \in BOOLEAN : StartCommand(sel, prune)
World ==
  \/ TasksFail \/ CommandDies \/ ServerMoves \/ DropPending
  \/ \E p \in Resource : FileChanges(p)
  \/ \E g \in Group : GameSelects(g)
RootNext == Step \/ StartSome \/ World

RootSpec == RootInit /\ [][RootNext]_rootVars
\* A command runs on, and the same command is started again after a failure or a crash.
RootFairSpec ==
  RootSpec /\ WF_rootVars(Step) /\ \A sel \in Selections : SF_rootVars(StartCommand(sel, TRUE))

-----------------------------------------------------------------------------
(* Properties. *)

State == {None} \cup [rel : 1 .. Releases,
                      docs : UNION {[gs -> 1 .. Releases] : gs \in SUBSET Group},
                      files : UNION {[ps -> Contents] : ps \in SUBSET Resource}]
\* Types; Griffr's own files are always one of its states, whole.
RootTypeOK ==
  /\ kind \in Kinds /\ server \in 1 .. Releases
  /\ disk \in [Resource -> Contents \cup {"absent", "user"}]
  /\ manifest \in [Group -> 0 .. Releases]
  /\ record \in State /\ pending \in State
  /\ changed \subseteq Resource

\* Without a pending change, Persistent holds every file of the record unless the game or the user
\* changed it since: the marker is there before the first file is replaced and goes after the
\* record (setup_persistent_vfs), across crashes, failed batches and a server that moved on.
RecordTrue ==
  kind = "persistent" /\ pending = None /\ record # None =>
    \A p \in Managed(record) : disk[p] = record.files[p] \/ p \in changed

\* Nothing Griffr wrote to Persistent is orphaned: outside a run and a pending change, a file with
\* content only Griffr writes belongs to the record, unless a run was asked not to prune or a marker
\* was removed by hand. It needs the record to be replaced after the last file is pruned.
NoOrphans ==
  kind = "persistent" /\ command = NoCommand /\ pending = None /\ ~forgot =>
    \A p \in Resource : disk[p] \in Contents => p \in Managed(record)

\* Commands that are repeated end with the record of the release the server serves last and no
\* pending change, or are refused for good for a reason their error names: a pending change of
\* another selection, or a local manifest of another release.
Refused == \A sel \in Selections : ~Planned(Selected(sel))
Converges == <>[](Unfinishable \/ Refused) \/ []<>(record.rel = server /\ pending = None)
=============================================================================
