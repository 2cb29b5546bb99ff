------------------------------ MODULE PatchApply ------------------------------
(***************************************************************************)
(* One patch archive applied to one install: the sources chosen for its    *)
(* entries, the plan saved before anything changes, the payloads extracted *)
(* to staging, the asset tree moved to an external root, the entries       *)
(* applied as a graph or, after a crash, one by one, the deletes, the      *)
(* deferred config.ini and the cleanup; and what recovery makes of every   *)
(* state a crash or a failed run can leave.                                *)
(*                                                                         *)
(* Files are the paths below the VFS root. inst is what the install holds  *)
(* under each, ext what the external root holds; once the install's folder *)
(* is a link, the install shows ext. Every write to a destination is a     *)
(* verified temporary file renamed over it.                                *)
(*                                                                         *)
(* An operator with an underscore in its name is a faulty variant of the   *)
(* definition after it and in no specification.                            *)
(***************************************************************************)
EXTENDS Integers, Sequences, FiniteSets, SequencesExt, FiniteSetsExt

CONSTANTS
  File,             \* paths below the VFS root
  Entry,            \* the patch's entries, in manifest order, as a sequence of files
  LocalEntry,       \* entries with a complete payload
  Diffs,            \* the base files of the other entries' diffs, in order
  Deleted,          \* delete_files.txt
  MayLack,          \* deleted files an install may do without
  OldSize, NewSize, \* sizes of a file before and after the patch (0: no such file)
  PayloadSize,      \* size of an entry's payload
  MaxCrashes, MaxFaults   \* bounds: crashes, runs that fail

Entries == ToSet(Entry)
Volume == {"install", "external", "work"}
\* No plan.json: a plan has a base field, even for a patch without entries.
NoPlan == [kind |-> [e \in {} |-> "none"]]

ASSUME PatchAssumption ==
  /\ IsFiniteSet(File)
  /\ Entry \in Seq(File) /\ IsInjective(Entry) /\ LocalEntry \subseteq Entries /\ "config" \notin File
  /\ Diffs \in [Entries \ LocalEntry -> Seq(File)]
  /\ MayLack \subseteq Deleted /\ Deleted \subseteq File
  /\ {OldSize, NewSize, PayloadSize} \subseteq [File -> Nat]
  /\ MaxCrashes \in Nat /\ MaxFaults \in Nat

VARIABLES
  external, work, hasConfig,   \* --external-asset-root, --work-dir; the archive has config.ini
  inst, ext, link, layout,     \* the asset tree, its link and .griffr-storage.json with its owner
  config,                      \* config.ini of the install
  plan, deferredDir, deferred, \* plan.json; the deferred directory and config.ini in it
  staged,                      \* what the staging directory holds
  mode, step,                  \* what runs, and where it is
  todo,                        \* what is left to extract or to move
  temps, made, done, released, \* entries in work, renamed, applied; bases released
  check,                       \* the tree the last plan's space check saw
  crashes, faults

tree == <<inst, ext, link, layout>>
private == <<plan, deferredDir, deferred, staged>>
options == <<external, work, hasConfig>>
progress == <<todo, done, temps, made, released>>
vars == <<options, tree, config, private, mode, step, progress, check, crashes, faults>>

-----------------------------------------------------------------------------
(* Dependencies between entries. *)

\* entry_dependency_indices: the writer of a path waits for every other entry that needs the path
\* as its base.
DependsOn_Unordered(p) == [w \in Entries |-> {}]

DependsOn(p) == [w \in Entries |-> {c \in Entries \ {w} : p.kind[c] = "hdiff" /\ p.base[c] = w}]

\* entry_wave_indices and validate_acyclic: count down the unmet dependencies wave by wave.
WaveStep(deps, acc) ==
  LET indegree == [w \in DOMAIN deps |-> acc.indegree[w] - Cardinality(deps[w] \cap acc.ready)]
      hit == {w \in DOMAIN deps : deps[w] \cap acc.ready # {}}
  IN  IF acc.ready = {} THEN acc
      ELSE [indegree |-> indegree,
            ready |-> {w \in hit : indegree[w] = 0},
            waves |-> Append(acc.waves, acc.ready)]

Waves(deps) ==
  FoldLeft(LAMBDA acc, i : WaveStep(deps, acc),
           [indegree |-> [w \in DOMAIN deps |-> Cardinality(deps[w])],
            ready |-> {w \in DOMAIN deps : deps[w] = {}}, waves |-> <<>>],
           [i \in 1 .. Cardinality(DOMAIN deps) |-> i]).waves
Acyclic(deps) == FoldLeft(LAMBDA n, w : n + Cardinality(w), 0, Waves(deps)) = Cardinality(DOMAIN deps)

-----------------------------------------------------------------------------
(* The plan. *)

Logical(f) == IF link THEN ext[f] ELSE inst[f]
Destination(f) == IF external THEN ext[f] ELSE inst[f]

\* The first diff whose base is valid; build_patch_plan_with_probe_cache picks one source per entry.
ValidBases(e) == {i \in DOMAIN Diffs[e] : Logical(Diffs[e][i]) = "old"}
Kind(e) ==
  CASE Logical(e) = "new"                              -> "present"
    [] Logical(e) # "new" /\ e \in LocalEntry          -> "local"
    [] Logical(e) # "new" /\ e \notin LocalEntry       -> IF ValidBases(e) = {} THEN "missing" ELSE "hdiff"
Planned ==
  [kind |-> [e \in Entries |-> Kind(e)],
   base |-> [e \in Entries |-> IF Kind(e) = "hdiff" THEN Diffs[e][Min(ValidBases(e))] ELSE "none"]]
Bases(p) == {p.base[e] : e \in {x \in Entries : p.kind[x] = "hdiff"}}
Consumers(p, f) == {e \in Entries : p.kind[e] = "hdiff" /\ p.base[e] = f}
Payloads(p) == {e \in Entries : p.kind[e] \in {"local", "hdiff"}}

\* What makes the check refuse the patch: an external root that holds something else, an entry
\* without a source, a deleted output, a cycle.
ForeignRoot == external /\ ~link /\ \E f \in File : ext[f] # "absent"
Plannable ==
  /\ ~ForeignRoot
  /\ \A e \in Entries : Kind(e) # "missing"
  /\ Deleted \cap Entries = {}
  /\ Acyclic(DependsOn(Planned))

-----------------------------------------------------------------------------
(* Space: simulate_space_peaks and what the run really uses. *)

SizeOf(f, content) == CASE content = "old" -> OldSize[f] [] content = "new" -> NewSize[f] [] OTHER -> 0
SumOver(S, size) == MapThenSumSet(LAMBDA f : size[f], S)
StageVolume == IF work THEN "work" ELSE "install"
VfsVolume == IF external THEN "external" ELSE "install"

\* VolumeSpaceLedger: the changes in order, and the highest level of each volume.
Change(v, bytes) == [volume |-> v, bytes |-> bytes]
Level(ledger, v) == FoldLeft(LAMBDA sum, c : IF c.volume = v THEN sum + c.bytes ELSE sum, 0, ledger)
Peak(ledger, v) == Max({0} \cup {Level(SubSeq(ledger, 1, i), v) : i \in DOMAIN ledger})

\* reserve_wave_outputs: the temporary outputs of the whole wave exist at once; with a work
\* directory an HDiff output exists there and, copied, at the destination.
ReserveWave_Replaced(p, t, wave) ==
  <<Change(VfsVolume,
           SumOver({e \in wave : p.kind[e] = "hdiff"}, [e \in Entries |-> NewSize[e] - t[e]]))>>

ReserveWave(p, t, wave) ==
  LET local == SumOver({e \in wave : p.kind[e] = "local"},
                       [e \in Entries |-> IF StageVolume # VfsVolume THEN NewSize[e]
                                          ELSE Max({0, NewSize[e] - PayloadSize[e]})])
      output == SumOver({e \in wave : p.kind[e] = "hdiff"}, NewSize)
  IN  <<Change(VfsVolume, local), Change(IF work THEN "work" ELSE VfsVolume, output)>>
        \o IF work THEN <<Change(VfsVolume, output), Change("work", -output)>> ELSE <<>>

\* commit_wave_outputs and release_last_deleted_base.
CommitWave(p, t, wave, before) ==
  LET writes == {e \in wave : p.kind[e] \in {"local", "hdiff"}}
      staging == SumOver(writes, [e \in Entries |->
                   IF p.kind[e] = "hdiff" \/ StageVolume # VfsVolume THEN PayloadSize[e]
                   ELSE Max({0, PayloadSize[e] - NewSize[e]})])
      replaced == SumOver(writes, t)
      free == {f \in (Bases(p) \cap Deleted) \ Entries :
                 Consumers(p, f) \subseteq before \cup wave /\ ~(Consumers(p, f) \subseteq before)}
  IN  <<Change(StageVolume, -staging),
        Change(VfsVolume, -(replaced + SumOver(free, t)))>>

\* simulate_space_peaks for file sizes t.
Peaks(p, t, linked) ==
  LET waves == Waves(DependsOn(p))
      moving == IF external /\ ~linked THEN SumOver(File, t) ELSE 0
      early == SumOver(Deleted \ (Bases(p) \cup Entries), t)
      start == <<Change(StageVolume, SumOver(Payloads(p), PayloadSize)),
                 Change("external", moving), Change("install", -moving), Change(VfsVolume, -early)>>
      ledger == start \o FlattenSeq([i \in DOMAIN waves |->
                  ReserveWave(p, t, waves[i]) \o CommitWave(p, t, waves[i], UNION {waves[j] : j \in 1 .. i - 1})])
  IN  [v \in Volume |-> Peak(ledger, v)]

\* The bytes of the temporary files of an entry in work, and of everything on a volume.
TempBytes(e, v) ==
  CASE plan.kind[e] = "hdiff" -> (IF v = VfsVolume THEN NewSize[e] ELSE 0)
                                   + (IF work /\ v = "work" THEN NewSize[e] ELSE 0)
    [] OTHER -> IF v = VfsVolume /\ StageVolume # VfsVolume THEN NewSize[e] ELSE 0
Held(i, e, v) == SumOver(File, [f \in File |-> CASE v = "install" -> SizeOf(f, i[f])
                                                 [] v = "external" -> SizeOf(f, e[f])
                                                 [] OTHER -> 0])
Used(v) ==
  Held(inst, ext, v) + SumOver(temps, [e \in Entries |-> TempBytes(e, v)])
  + (IF v = StageVolume THEN SumOver(staged \cap Entries, PayloadSize) ELSE 0)

-----------------------------------------------------------------------------
(* Init and recovery. *)

Init ==
  /\ external \in BOOLEAN /\ work \in BOOLEAN /\ hasConfig \in BOOLEAN
  /\ inst \in [File -> {"absent", "old", "new"}]
  /\ \A f \in File : /\ inst[f] = "old" => OldSize[f] > 0
                     /\ inst[f] = "new" => f \in Entries
                     /\ inst[f] = "absent" => OldSize[f] = 0 \/ f \in MayLack
  /\ ext = [f \in File |-> "absent"] /\ link = FALSE /\ layout = "none"
  /\ config = "old"
  /\ plan = NoPlan /\ deferredDir = FALSE /\ deferred = FALSE /\ staged = {}
  /\ mode = "idle" /\ step = "none"
  /\ todo = {} /\ done = {} /\ temps = {} /\ made = {} /\ released = {}
  /\ check = tree
  /\ crashes = 0 /\ faults = 0
  /\ Plannable

\* get_patch_recovery_state for a saved plan: every entry is finished or has its source, and the
\* deferred file is in one of its two places.
EntryRecoverable(e) ==
  \/ Destination(e) = "new"
  \/ plan.kind[e] = "local" /\ e \in staged
  \/ plan.kind[e] = "hdiff" /\ e \in staged /\ Destination(plan.base[e]) = "old"
Ready_PlanOnly == plan # NoPlan
Ready == /\ plan # NoPlan
         /\ \A e \in Entries : EntryRecoverable(e)
         /\ hasConfig => "config" \in staged \/ deferred

Begin(m, s) == mode' = m /\ step' = s /\ temps' = {} /\ made' = {} /\ done' = {} /\ released' = {}

\* update with an archive and no saved plan: the probes and SavePatchPlan.
SavePatchPlan ==
  /\ mode = "idle" /\ plan = NoPlan /\ ~deferredDir /\ Plannable
  /\ plan' = Planned
  /\ check' = tree
  /\ Begin("graph", "extract")
  /\ todo' = Payloads(Planned) \cup (IF hasConfig THEN {"config"} ELSE {})
  /\ UNCHANGED <<options, tree, config, deferredDir, deferred, staged, crashes, faults>>

\* update with a complete plan: resume_patch_apply. The plan's paths are used as they are.
Resume ==
  /\ mode = "idle" /\ Ready
  /\ Begin("serial", "relocate")
  /\ todo' = {f \in File : external /\ ~link /\ inst[f] # "absent"}
  /\ UNCHANGED <<options, tree, config, private, check, crashes, faults>>

\* discard_incomplete_patch_apply: the staging directory first, then the patch directory.
Discard ==
  /\ mode = "idle" /\ plan # NoPlan /\ ~Ready
  /\ staged' = {}
  /\ Begin("discard", "state")
  /\ UNCHANGED <<options, tree, config, plan, deferredDir, deferred, todo, check, crashes, faults>>

\* remove_dir_all of the patch directory takes its two entries in either order.
RemovePlanFile ==
  /\ step = "state" /\ plan # NoPlan
  /\ plan' = NoPlan
  /\ UNCHANGED <<options, tree, config, deferredDir, deferred, staged, mode, step, progress, check,
                 crashes, faults>>
RemoveDeferredDir ==
  /\ step = "state" /\ deferredDir
  /\ deferredDir' = FALSE /\ deferred' = FALSE
  /\ UNCHANGED <<options, tree, config, plan, staged, mode, step, progress, check, crashes, faults>>
PatchDirGone ==
  /\ step = "state" /\ plan = NoPlan /\ ~deferredDir
  /\ Begin(IF mode = "discard" THEN "idle" ELSE "finished", "none")
  /\ UNCHANGED <<options, tree, config, private, todo, check, crashes, faults>>

-----------------------------------------------------------------------------
(* Extraction and preparation. *)

Going(s) == mode \in {"graph", "serial"} /\ step = s
Goto(s) == step' = s /\ UNCHANGED <<mode, done, temps, made, released>>

\* The selected payloads and config.ini are extracted in any order.
Extract(x) ==
  /\ Going("extract") /\ x \in todo
  /\ staged' = staged \cup {x} /\ todo' = todo \ {x}
  /\ UNCHANGED <<options, tree, config, plan, deferredDir, deferred, mode, step, done, temps, made,
                 released, check, crashes, faults>>
Extracted ==
  /\ Going("extract") /\ todo = {}
  /\ Goto("relocate")
  /\ todo' = {f \in File : external /\ ~link /\ inst[f] # "absent"}
  /\ UNCHANGED <<options, tree, config, private, check, crashes, faults>>

\* move_directory_contents: a file is copied to the external root and renamed there ...
RelocateCopy(f) ==
  /\ Going("relocate") /\ f \in todo /\ ext[f] = "absent"
  /\ ext' = [ext EXCEPT ![f] = inst[f]]
  /\ UNCHANGED <<options, inst, link, layout, config, private, mode, step, progress, check,
                 crashes, faults>>
RelocateRemove_Uncopied(f) ==
  /\ Going("relocate") /\ f \in todo
  /\ inst' = [inst EXCEPT ![f] = "absent"] /\ todo' = todo \ {f}
  /\ UNCHANGED <<options, ext, link, layout, config, private, mode, step, done, temps, made, released,
                 check, crashes, faults>>
\* ... and its source removed; an equal copy of an earlier run counts as moved.
RelocateRemove(f) ==
  /\ Going("relocate") /\ f \in todo /\ ext[f] = inst[f]
  /\ inst' = [inst EXCEPT ![f] = "absent"] /\ todo' = todo \ {f}
  /\ UNCHANGED <<options, ext, link, layout, config, private, mode, step, done, temps, made, released,
                 check, crashes, faults>>
\* prepare_external_asset_root: the folder becomes a link, then the owner and the layout are saved.
LinkRoot ==
  /\ Going("relocate") /\ todo = {}
  /\ link' = external
  /\ Goto(IF external THEN "owner" ELSE "top")
  /\ UNCHANGED <<options, inst, ext, layout, config, private, todo, check, crashes, faults>>
WriteOwner ==
  /\ Going("owner")
  /\ layout' = IF layout = "both" THEN "both" ELSE "owner"
  /\ Goto("layout")
  /\ UNCHANGED <<options, inst, ext, link, config, private, todo, check, crashes, faults>>
WriteLayout ==
  /\ Going("layout")
  /\ layout' = "both"
  /\ Goto("top")
  /\ UNCHANGED <<options, inst, ext, link, config, private, todo, check, crashes, faults>>

\* commit_top_level_files: config.ini goes to the private deferred directory.
CommitTopLevel ==
  /\ Going("top")
  /\ IF "config" \in staged
     THEN staged' = staged \ {"config"} /\ deferredDir' = TRUE /\ deferred' = TRUE
     ELSE UNCHANGED <<staged, deferredDir, deferred>>
  /\ Goto("early")
  /\ UNCHANGED <<options, tree, config, plan, todo, check, crashes, faults>>

RemoveFiles(files) ==
  /\ inst' = [f \in File |-> IF f \in files /\ ~external THEN "absent" ELSE inst[f]]
  /\ ext' = [f \in File |-> IF f \in files /\ external THEN "absent" ELSE ext[f]]
  /\ UNCHANGED <<link, layout>>
\* delete_unreferenced_paths_before_patch.
EarlyDeletes_All ==
  /\ Going("early")
  /\ RemoveFiles(Deleted)
  /\ Goto("entries")
  /\ UNCHANGED <<options, config, private, todo, check, crashes, faults>>

EarlyDeletes ==
  /\ Going("early")
  /\ RemoveFiles(Deleted \ (Bases(plan) \cup Entries))
  /\ Goto("entries")
  /\ UNCHANGED <<options, config, private, todo, check, crashes, faults>>

-----------------------------------------------------------------------------
(* Entries. *)

\* As a graph an entry waits for its dependencies; a resumed plan goes through the waves.
Position(e) == CHOOSE i \in DOMAIN Entry : Entry[i] = e
SerialTurn(e) ==
  \E waves \in {Waves(DependsOn(plan))} : \E i \in DOMAIN waves :
    /\ e \in waves[i]
    /\ UNION {waves[j] : j \in 1 .. i - 1} \subseteq done
    /\ {x \in waves[i] : Position(x) < Position(e)} \subseteq done
EntryReady(e) ==
  /\ Going("entries") /\ e \in Entries \ (done \cup temps \cup made)
  /\ IF mode = "graph" THEN DependsOn(plan)[e] \subseteq done
     ELSE /\ temps \cup made = {} /\ SerialTurn(e)
          /\ \A f \in Bases(plan) \ released : ~(Consumers(plan, f) \subseteq done)

\* apply_planned_entry: an output that is there is kept ...
EntryPresent(e) ==
  /\ EntryReady(e) /\ Destination(e) = "new"
  /\ done' = done \cup {e}
  /\ UNCHANGED <<options, tree, config, private, mode, step, todo, temps, made, released, check, crashes,
                 faults>>
Sourced(e) ==
  \/ plan.kind[e] = "local" /\ e \in staged
  \/ plan.kind[e] = "hdiff" /\ e \in staged /\ Destination(plan.base[e]) = "old"
\* ... else its base and its payload are checked and the output is made beside it. An entry without
\* its source fails the run.
EntryBegin(e) ==
  /\ EntryReady(e) /\ Destination(e) # "new"
  /\ IF Sourced(e)
     THEN temps' = temps \cup {e} /\ UNCHANGED <<mode, step, done, made, released>>
     ELSE Begin("idle", "none")
  /\ UNCHANGED <<options, tree, config, private, todo, check, crashes, faults>>
\* The output is renamed over the destination. A local payload is moved, an HDiff one is removed then.
EntryCommit(e) ==
  /\ Going("entries") /\ e \in temps
  /\ inst' = IF external THEN inst ELSE [inst EXCEPT ![e] = "new"]
  /\ ext' = IF external THEN [ext EXCEPT ![e] = "new"] ELSE ext
  /\ temps' = temps \ {e}
  /\ IF plan.kind[e] = "local"
     THEN staged' = staged \ {e} /\ done' = done \cup {e} /\ UNCHANGED made
     ELSE made' = made \cup {e} /\ UNCHANGED <<staged, done>>
  /\ UNCHANGED <<options, link, layout, config, plan, deferredDir, deferred, mode, step, todo,
                 released, check, crashes, faults>>
EntryCleanPayload(e) ==
  /\ Going("entries") /\ e \in made
  /\ staged' = staged \ {e} /\ made' = made \ {e} /\ done' = done \cup {e}
  /\ UNCHANGED <<options, tree, config, plan, deferredDir, deferred, mode, step, todo, temps,
                 released, check, crashes, faults>>

\* release_patch_base, release_base_if_unused: a base that is deleted and no output goes when its
\* last consumer is done.
ReleaseBase(f) ==
  /\ Going("entries") /\ f \in Bases(plan) \ released /\ Consumers(plan, f) \subseteq done
  /\ RemoveFiles(({f} \cap Deleted) \ Entries)
  /\ released' = released \cup {f}
  /\ UNCHANGED <<options, config, private, mode, step, todo, done, temps, made, check, crashes, faults>>

-----------------------------------------------------------------------------
(* The end of the patch. *)

ApplyDeletes_Early ==
  /\ Going("entries") /\ done # {}
  /\ RemoveFiles(Deleted \ Entries)
  /\ Goto("deferred")
  /\ UNCHANGED <<options, config, private, todo, check, crashes, faults>>

ApplyDeletes ==
  /\ Going("entries") /\ done = Entries /\ Bases(plan) \subseteq released
  /\ RemoveFiles(Deleted \ Entries)
  /\ Goto("deferred")
  /\ UNCHANGED <<options, config, private, todo, check, crashes, faults>>

\* commit_deferred_files: without the deferred file the run fails.
CommitDeferred ==
  /\ Going("deferred")
  /\ IF hasConfig /\ ~deferred
     THEN Begin("idle", "none") /\ UNCHANGED <<config, deferred>>
     ELSE /\ config' = IF hasConfig THEN "new" ELSE config
          /\ deferred' = FALSE
          /\ Goto("stage")
  /\ UNCHANGED <<options, tree, plan, deferredDir, staged, todo, check, crashes, faults>>

CleanStage ==
  /\ Going("stage")
  /\ staged' = {}
  /\ Goto("state")
  /\ UNCHANGED <<options, tree, config, plan, deferredDir, deferred, todo, check, crashes, faults>>

-----------------------------------------------------------------------------
(* Failures. *)

\* An I/O error ends the run. When ArchiveWork is dropped its staging directory goes; a resumed run
\* has none to drop.
RunFails ==
  /\ mode \in {"graph", "serial"} /\ step \notin {"state"} /\ faults < MaxFaults
  /\ faults' = faults + 1
  /\ staged' = IF mode = "graph" THEN {} ELSE staged
  /\ Begin("idle", "none") /\ todo' = {} /\ check' = <<>>
  /\ UNCHANGED <<options, tree, config, plan, deferredDir, deferred, crashes>>
Crash ==
  /\ mode \notin {"idle", "finished"} /\ crashes < MaxCrashes
  /\ crashes' = crashes + 1
  /\ Begin("idle", "none") /\ todo' = {} /\ check' = <<>>
  /\ UNCHANGED <<options, tree, config, private, faults>>

\* What an update refuses: a deferred directory without a plan, or an external root that holds
\* something and is not the link's target.
Refused == mode = "idle" /\ plan = NoPlan /\ (deferredDir \/ ~Plannable)
Stop == (Refused \/ mode = "finished") /\ UNCHANGED vars

Run ==
  \/ SavePatchPlan \/ Resume \/ Discard \/ RemovePlanFile \/ RemoveDeferredDir \/ PatchDirGone
  \/ (\E x \in File \cup {"config"} : Extract(x)) \/ Extracted
  \/ (\E f \in File : RelocateCopy(f) \/ RelocateRemove(f))
  \/ LinkRoot \/ WriteOwner \/ WriteLayout \/ CommitTopLevel \/ EarlyDeletes
  \/ (\E e \in Entries : \/ EntryPresent(e) \/ EntryBegin(e) \/ EntryCommit(e)
                         \/ EntryCleanPayload(e))
  \/ (\E f \in File : ReleaseBase(f))
  \/ ApplyDeletes \/ CommitDeferred \/ CleanStage
Next == Run \/ RunFails \/ Crash \/ Stop

Spec == Init /\ [][Next]_vars
\* The scheduler, and a user who runs update again.
FairSpec == Spec /\ WF_vars(Run)

-----------------------------------------------------------------------------
(* Properties. *)

\* Types. The flag of an entry renamed but not cleaned (EntryCommit, EntryCleanPayload) and the
\* staged set stay within the plan's entries.
TypeOK ==
  /\ {external, work, hasConfig, link, deferredDir, deferred} \subseteq BOOLEAN
  /\ {inst, ext} \subseteq [File -> {"absent", "old", "new"}]
  /\ layout \in {"none", "owner", "both"} /\ config \in {"old", "new"}
  /\ plan = NoPlan \/ (DOMAIN plan.kind = Entries /\ \A e \in Entries : plan.kind[e] # "missing")
  /\ staged \subseteq Entries \cup {"config"}
  /\ mode \in {"idle", "graph", "serial", "discard", "finished"}
  /\ todo \subseteq File \cup {"config"}
  /\ temps \cup made \cup done \subseteq Entries /\ released \subseteq File
  /\ temps \cap made = {} /\ (temps \cup made) \cap done = {}
  /\ plan # NoPlan => staged \cap Entries \subseteq Payloads(plan)

\* Whatever was applied, deleted, released or resumed before, an entry whose turn has come finds its
\* base and its payload (apply_planned_entry), and the commit finds the deferred config.ini.
NothingMissing ==
  /\ \A e \in Entries : EntryReady(e) /\ Destination(e) # "new" => Sourced(e)
  /\ Going("deferred") /\ hasConfig => deferred

\* The new config.ini, the install's version, shows only when every output is in place and every
\* deleted path is gone, after any number of crashes (commit_deferred_files runs last).
DeferredLast ==
  config = "new" => /\ \A e \in Entries : Destination(e) = "new"
                    /\ \A f \in Deleted \ Entries : Destination(f) = "absent"

\* entry_wave_indices on every dependency graph over the entries: an entry is in the first wave all
\* its dependencies come before, no wave is empty, and validate_acyclic refuses exactly the graphs
\* with a set of entries that all wait for one another.
WavesExact ==
  \A deps \in [Entries -> SUBSET Entries] :
    LET waves == Waves(deps)
        before(i) == UNION {waves[j] : j \in 1 .. i - 1}
    IN  /\ \A i \in DOMAIN waves :
             /\ waves[i] # {}
             /\ waves[i] = {w \in Entries : deps[w] \subseteq before(i)} \ before(i)
        /\ Acyclic(deps) <=> \A S \in (SUBSET Entries) \ {{}} : \E w \in S : deps[w] \cap S = {}

InWave(p, e) == CHOOSE i \in DOMAIN Waves(DependsOn(p)) : e \in Waves(DependsOn(p))[i]

\* The waves are exact, and while no entry runs ahead of its wave no volume holds more than
\* simulate_space_peaks computed.
PeakCoversWaves ==
  LET inWork == temps \cup made \cup done
      wave(e) == InWave(plan, e)
      synchronised == \A e \in inWork, x \in Entries : wave(x) < wave(e) =>
                        x \in done /\ (plan.kind[x] = "hdiff" /\ Consumers(plan, plan.base[x]) \subseteq done
                                        => plan.base[x] \in released)
      sizes == [f \in File |-> SizeOf(f, IF check[3] THEN check[2][f] ELSE check[1][f])]
      peaks == Peaks(plan, sizes, check[3])
  IN  /\ (mode = "idle" /\ check = tree /\ ~external /\ ~work /\ ~hasConfig) => WavesExact
      /\ (/\ mode = "graph" /\ step \in {"extract", "relocate", "entries"}
          /\ crashes = 0 /\ faults = 0 /\ synchronised)
         => \A v \in Volume : Used(v) - Held(check[1], check[2], v) <= peaks[v]

Present(f) == {inst[f], ext[f]} \ {"absent"}

\* Moving the tree to the external root and replacing files never loses one that the patch does not
\* delete, and never brings an old file back.
AssetsKept ==
  [][\A f \in File : /\ Present(f) # {} /\ f \notin Deleted => Present(f)' # {}
                     /\ "new" \in Present(f) => "new" \in Present(f)']_vars

\* A user who runs update again ends with the patch applied: no crash or failed run leaves an entry
\* without a source or in a cycle. Only the two torn states the code knows are refused.
Recovers == <>(mode = "finished" \/ (Refused /\ (deferredDir \/ ForeignRoot)))
=============================================================================
