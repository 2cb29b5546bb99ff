----------------------------- MODULE InstallChange -----------------------------
(***************************************************************************)
(* The change protocol of one Hypergryph install: the marker               *)
(* .griffr/state.json (install_change), the commands that write files      *)
(* under it (install, update, verify --repair, patch resume), the private  *)
(* resource baseline (files/vfs/state.rs) and the launcher metadata that   *)
(* says which version is installed.                                        *)
(*                                                                         *)
(* One command runs at a time.  It plans against the release the API       *)
(* serves, writes the marker, and then goes through its steps; between any *)
(* two of them the process may be killed, the service may publish the next *)
(* release, or a step may fail, which all leave what is on disk.  Reads,   *)
(* downloads and reuse are left out: a file that is written gets the       *)
(* content it should have.  A file keeps its size in every release, which  *)
(* is the case an existence and size check cannot tell from an intact one. *)
(*                                                                         *)
(* An operator with an underscore in its name is a faulty variant of the   *)
(* definition after it and in no specification.                            *)
(***************************************************************************)
EXTENDS Integers, Sequences, FiniteSets

CONSTANTS
  Core,         \* game files outside the resource baseline
  Resource,     \* files under StreamingAssets/VFS
  Manifest,     \* content of each file in a game_files manifest, 0 if not listed
  Index,        \* content of each file in a resource index, 0 if not listed
  Releases,     \* what the API serves: version, manifest and resource index, 0
                \* for a target without one
  Patches,      \* releases <<from, to>> with an official patch
  Hdiff,        \* resource files a patch sends as a difference to the old file
  PatchConfig,  \* patch archives carry config.ini
  Scopes,       \* --scope values, "default" for none
  Policies,     \* --resources: TRUE with the resource index, FALSE package-only
  MayDefer,     \* --defer-verification is used
  MaxFaults,    \* bound on crashes and on files the user damages
  Bad,          \* content of a damaged file
  NoChange      \* no marker, no patch plan, no running command

File == Core \cup Resource
ReleaseId == 1 .. Len(Releases)
V(r) == Releases[r].version
M(r) == Releases[r].manifest
R(r) == Releases[r].resources

ASSUME InstallAssumption ==
  /\ Core \cap Resource = {} /\ Hdiff \subseteq Resource /\ "config.ini" \notin File
  /\ Manifest \in Seq([File -> Nat])
  /\ Index \in Seq({listed \in [File -> Nat] : \A f \in Core : listed[f] = 0})
  /\ Releases # <<>>
  /\ Releases \in Seq([version : Nat \ {0}, manifest : DOMAIN Manifest,
                       resources : {0} \cup DOMAIN Index])
  /\ Patches \subseteq ReleaseId \X ReleaseId
  /\ PatchConfig \in BOOLEAN /\ MayDefer \in BOOLEAN /\ MaxFaults \in Nat
  /\ Scopes \subseteq {"default", "all", "core", "resources"} /\ Policies \subseteq BOOLEAN
  /\ Bad \notin Nat

VARIABLES
  live,       \* the release the API serves
  files,      \* content of a file on disk, 0 if absent
  config,     \* version in config.ini, 0 if absent
  gameFiles,  \* manifest stored in game_files, 0 if absent
  marker,     \* state.json
  baseline,   \* resource-baseline.json
  pending,    \* resource-baseline.pending.json
  patch,      \* .griffr/patch: plan.json, staged payloads
  cmd,        \* the running command
  faults,     \* crashes and damaged files so far
  damaged,    \* history: files the user damaged and nothing rewrote since
  owed        \* history: damaged files a repair was started for

disk == <<files, config, gameFiles, marker, baseline, pending, patch>>
vars == <<live, disk, cmd, faults, damaged, owed>>

-----------------------------------------------------------------------------
\* The content plan of a release with the resource plan i, 0 for none: a path
\* the index claims belongs to it, any other to game_files.
Claimed(i) == IF i = 0 THEN {} ELSE {f \in Resource : Index[i][f] # 0}

Goal(r, i) == [f \in File |-> IF f \in Claimed(i) THEN Index[i][f] ELSE Manifest[M(r)][f]]

Wanted(r, i) == {f \in File : Goal(r, i)[f] # 0}

\* Core files with the same entry in two manifests.
Unchanged(m, n) == {f \in Core : Manifest[m][f] = Manifest[n][f] /\ Manifest[n][f] # 0}

\* The marker.
Change(kind, source, from, r, sync, i) ==
  [kind |-> kind, source |-> source, from |-> from, to |-> V(r), manifest |-> M(r),
   sync |-> sync, resources |-> i]

Changes ==
  [kind : {"Install", "Update", "Repair"},
   source : {"FullArchive", "PatchArchive", "Manifest", "Repair"},
   from : Nat, to : Nat, manifest : DOMAIN Manifest, sync : BOOLEAN,
   resources : {0} \cup DOMAIN Index]

\* InstallChangeState::can_advance_to.
CanAdvance(a, b) ==
  /\ a.to = b.to => a.sync = b.sync /\ a.resources = b.resources
  /\ \/ a.kind = "Install" /\ b.kind = "Install" /\ (a.to # b.to \/ a.manifest = b.manifest)
     \/ a.kind = b.kind /\ a.kind # "Install" /\ a.from = b.from /\ a.to = b.to
     \/ b.kind = "Update" /\ a.to # b.to /\ (b.from = a.to \/ b.from = a.from)

\* start_install_change: writes the marker, or refuses a conflicting change.
MayStart(c) == marker # NoChange => marker = c \/ CanAdvance(marker, c)

\* The saved release is still served, or a newer one is.
MatchesRelease(c) == c.to = V(live) => c.manifest = M(live)

-----------------------------------------------------------------------------
\* The patch plan.  Its direct entries are core files, the entries of patch.json
\* resource files; an entry that was already present has no payload.
From(p) == Manifest[M(p.from)]
To(p)   == Manifest[M(p.to)]
Differs(p) == {f \in File : From(p)[f] # To(p)[f] /\ To(p)[f] # 0}
Entries(p) == Differs(p) \cap Resource
Direct(p)  == Differs(p) \cap Core
Deleted(p) == {f \in File : From(p)[f] # 0 /\ To(p)[f] = 0}

\* The base a difference needs is there.
BaseFits(p, f) == f \in Hdiff => files[f] = From(p)[f]

\* get_patch_recovery_state finds everything it looks for: the direct entries
\* are not among it.
PatchReady(p) ==
  /\ \A f \in Entries(p) : files[f] # To(p)[f] => f \in p.staged /\ BaseFits(p, f)
  /\ PatchConfig => "config.ini" \in p.staged

-----------------------------------------------------------------------------
\* A command.  todo are the files of its current step, check those its closing
\* integrity pass reads; weak ones get an existence and size check only.
Job(op, r, i) ==
  [op |-> op, step |-> "check", release |-> r, resources |-> i, todo |-> {}, weak |-> {},
   check |-> Wanted(r, i), obsolete |-> NoChange, vfs |-> TRUE, close |-> "metadata"]

Idle == cmd = NoChange
At(step) == cmd # NoChange /\ cmd.step = step
Go(step, todo) == cmd' = [cmd EXCEPT !.step = step, !.todo = todo]

Init ==
  /\ live = 1
  /\ files = [f \in File |-> 0]
  /\ config = 0 /\ gameFiles = 0
  /\ marker = NoChange /\ baseline = 0 /\ pending = 0
  /\ patch = NoChange /\ cmd = NoChange
  /\ faults = 0 /\ damaged = {} /\ owed = {}

Started(c, job) ==
  /\ MayStart(c)
  /\ marker' = c
  /\ cmd' = job

\* An install that resumes the same change checks everything instead of
\* delivering it again.
Install(sync, keep) ==
  LET i == IF sync THEN R(live) ELSE 0
      c == Change("Install", IF keep THEN "FullArchive" ELSE "Manifest", 0, live, sync, i)
      job == Job("install", live, i)
  IN /\ Idle
     /\ Started(c, IF marker = c
                   THEN [job EXCEPT !.todo = job.check]
                   ELSE [job EXCEPT !.step = "deliver",
                           !.todo = IF keep THEN job.check ELSE job.check \ Claimed(i)])
     /\ UNCHANGED <<live, files, config, gameFiles, baseline, pending, patch, faults,
                    damaged, owed>>

\* update first takes care of a patch plan: it resumes a complete one under an
\* update marker and discards any other.
ResumePatch ==
  /\ Idle
  /\ patch # NoChange /\ marker # NoChange
  /\ PatchReady(patch)
  /\ marker.kind = "Update"
  /\ cmd' = [Job("resume", patch.to, 0) EXCEPT !.step = "prepare"]
  /\ UNCHANGED <<live, disk, faults, damaged, owed>>

DiscardPatch ==
  /\ Idle
  /\ config # 0
  /\ patch # NoChange
  /\ marker = NoChange \/ ~PatchReady(patch)
  /\ patch' = NoChange
  /\ UNCHANGED <<live, files, config, gameFiles, marker, baseline, pending, cmd,
                 faults, damaged, owed>>

\* What update asks of the install before it plans.
Updatable ==
  /\ Idle
  /\ config # 0
  /\ patch = NoChange
  /\ marker # NoChange => marker.kind # "Repair" /\ MatchesRelease(marker)

\* The target was reached and only the end of the change is missing.
FinishUpdate ==
  LET i == IF marker.sync THEN R(live) ELSE 0
      job == Job("update", live, i)
  IN /\ Updatable
     /\ marker # NoChange
     /\ marker.to = config /\ config = V(live)
     /\ marker.sync => i = marker.resources
     /\ cmd' = [job EXCEPT !.todo = job.check]
     /\ UNCHANGED <<live, disk, faults, damaged, owed>>

\* An unfinished change was superseded while config.ini still has the version
\* before it: no patch base and no manifest entry can be trusted.
Mixed == marker # NoChange /\ config # marker.to /\ V(live) # marker.to

\* The releases a patch to release r starts from on this install.
PatchBases(r) == {from \in ReleaseId : <<from, r>> \in Patches /\ V(from) = config}

\* The deliveries an update may choose; sizes decide between the last two.
Deliveries(full) ==
  IF full \/ Mixed THEN {"FullArchive"}
  ELSE IF PatchBases(live) = {} THEN {"Manifest"} ELSE {"Manifest", "PatchArchive"}

Update(sync, full, defer, delivery) ==
  LET i == IF sync THEN R(live) ELSE 0
      c == Change("Update", delivery, config, live, sync, i)
      job == [Job("update", live, i) EXCEPT !.close = IF defer THEN "deferred" ELSE "metadata"]
  IN /\ Updatable
     /\ config # V(live)
     /\ gameFiles # 0
     /\ delivery \in Deliveries(full)
     /\ Started(c,
          CASE delivery = "FullArchive" ->
                 [job EXCEPT !.step = "deliver", !.todo = job.check]
            [] delivery = "PatchArchive" ->
                 [job EXCEPT !.step = "plan"]
            [] delivery = "Manifest" ->
                 [job EXCEPT !.step = "deliver", !.todo = job.check \ Claimed(i),
                    !.weak = Unchanged(gameFiles, M(live)), !.check = Claimed(i),
                    !.obsolete = gameFiles])
     /\ UNCHANGED <<live, files, config, gameFiles, baseline, pending, patch, faults,
                    damaged, owed>>

\* verify --repair.  Without a marker it starts a repair of the installed
\* version; under one it continues the change, or moves it to the release that
\* superseded its target.
Superseded == marker # NoChange /\ marker.to # V(live)

EffectiveScope(scope, sync) ==
  IF scope = "default" THEN IF sync THEN "all" ELSE "core"
  ELSE IF scope = "core" /\ marker # NoChange /\ sync THEN "all" ELSE scope

SyncOf(scope) ==
  IF marker = NoChange \/ (Superseded /\ scope # "default") THEN scope # "core"
  ELSE marker.sync

Verify(scope) ==
  LET eff == EffectiveScope(scope, SyncOf(scope))
      i   == IF eff = "core" THEN 0 ELSE R(live)
      c   == IF marker = NoChange
             THEN [Change("Repair", "Repair", config, live, SyncOf(scope), i) EXCEPT !.to = config]
             ELSE IF Superseded THEN Change("Update", "Repair", marker.to, live, SyncOf(scope), i)
             ELSE marker
      read == CASE eff = "all"       -> Wanted(live, i)
                [] eff = "core"      -> Wanted(live, i) \cap Core
                [] eff = "resources" -> Wanted(live, i) \cap Resource
      job == [Job("verify", live, i) EXCEPT
                !.check = read, !.todo = read, !.vfs = (eff # "core"),
                !.close = IF eff = "resources" THEN "resources" ELSE "metadata"]
  IN /\ Idle
     /\ config # 0
     /\ marker # NoChange => /\ MatchesRelease(marker)
                             /\ (~Superseded /\ marker.sync) => i = marker.resources
     /\ IF marker = NoChange /\ eff = "resources"
        THEN marker' = marker /\ cmd' = job
        ELSE Started(c, job)
     /\ owed' = IF eff = "resources" THEN owed ELSE owed \cup (damaged \cap read)
     /\ UNCHANGED <<live, files, config, gameFiles, baseline, pending, patch, faults, damaged>>

-----------------------------------------------------------------------------
\* Steps.  A file that is written has its planned content and is no longer
\* damaged.
Write(f, content) ==
  /\ files' = [files EXCEPT ![f] = content]
  /\ damaged' = damaged \ {f}
  /\ owed' = owed \ {f}

\* The check that lets a file stay as it is.
Intact(f) == IF f \in cmd.weak THEN files[f] # 0 ELSE files[f] = Goal(cmd.release, cmd.resources)[f]

Ensure(f) ==
  /\ At("deliver") \/ At("check")
  /\ f \in cmd.todo
  /\ cmd' = [cmd EXCEPT !.todo = @ \ {f}]
  /\ IF Intact(f) THEN UNCHANGED <<files, damaged, owed>>
     ELSE Write(f, Goal(cmd.release, cmd.resources)[f])
  /\ UNCHANGED <<live, config, gameFiles, marker, baseline, pending, patch, faults>>

\* The obsolete files of a manifest update: those of the old manifest that still
\* have its content.
Obsolete_Modified(f) == Manifest[cmd.obsolete][f] # 0 /\ Goal(cmd.release, 0)[f] = 0

Obsolete(f) == /\ Manifest[cmd.obsolete][f] # 0 /\ Goal(cmd.release, 0)[f] = 0
               /\ files[f] = Manifest[cmd.obsolete][f]

\* The end of the delivery.  The closing pass needs fresh delivery addresses of
\* the planned release; a deferred one runs the resource tasks only.
Delivered ==
  /\ At("deliver")
  /\ cmd.todo = {}
  /\ files' = [f \in File |-> IF cmd.obsolete # NoChange /\ f \in Core /\ Obsolete(f)
                              THEN 0 ELSE files[f]]
  /\ cmd' = IF live # cmd.release THEN NoChange
            ELSE [cmd EXCEPT !.step = "check", !.weak = {},
                    !.todo = IF cmd.close = "deferred" THEN Claimed(cmd.resources)
                             ELSE cmd.check]
  /\ UNCHANGED <<live, config, gameFiles, marker, baseline, pending, patch, faults,
                 damaged, owed>>

\* Every resource entry needs a source: the content it should have, a payload
\* or a valid base.
NewEntries(p) == {f \in Entries(p) : files[f] # To(p)[f]}
Plan(from) == [from |-> from, to |-> cmd.release, staged |-> {}]
Plannable(from) == \A f \in NewEntries(Plan(from)) : BaseFits(Plan(from), f)

PlanPatch ==
  /\ At("plan")
  /\ \E from \in PatchBases(cmd.release) :
       LET p == Plan(from)
       IN /\ Plannable(from)
          /\ patch' = p
          /\ cmd' = [cmd EXCEPT !.step = "extract",
                       !.check = Differs(p) \cup Claimed(cmd.resources),
                       !.todo = Direct(p) \cup NewEntries(p)
                                \cup IF PatchConfig THEN {"config.ini"} ELSE {}]
  /\ UNCHANGED <<live, files, config, gameFiles, marker, baseline, pending, faults,
                 damaged, owed>>

\* Direct entries are committed while others are staged.
Extract(x) ==
  /\ At("extract")
  /\ x \in cmd.todo
  /\ cmd' = [cmd EXCEPT !.todo = @ \ {x}]
  /\ IF x \in Core THEN Write(x, To(patch)[x]) /\ UNCHANGED patch
     ELSE patch' = [patch EXCEPT !.staged = @ \cup {x}] /\ UNCHANGED <<files, damaged, owed>>
  /\ UNCHANGED <<live, config, gameFiles, marker, baseline, pending, faults>>

Extracted ==
  /\ At("extract")
  /\ cmd.todo = {}
  /\ Go("prepare", {})
  /\ UNCHANGED <<live, disk, faults, damaged, owed>>

\* Files of the delete list.  A base is the old file of its own entry, so no
\* deleted path is a base or an output, and the preparation removes them all.
RemoveDeleted ==
  /\ files' = [f \in File |-> IF f \in Deleted(patch) THEN 0 ELSE files[f]]
  /\ damaged' = damaged \ Deleted(patch)
  /\ owed' = owed \ Deleted(patch)

PreparePatch ==
  /\ At("prepare")
  /\ RemoveDeleted
  /\ Go("apply", Entries(patch))
  /\ UNCHANGED <<live, config, gameFiles, marker, baseline, pending, patch, faults>>

ApplyEntry(f) ==
  /\ At("apply")
  /\ f \in cmd.todo
  /\ IF files[f] = To(patch)[f] THEN UNCHANGED <<files, damaged, owed, patch>>
     ELSE /\ f \in patch.staged /\ BaseFits(patch, f)
          /\ Write(f, To(patch)[f])
          /\ patch' = [patch EXCEPT !.staged = @ \ {f}]
  /\ cmd' = [cmd EXCEPT !.todo = @ \ {f}]
  /\ UNCHANGED <<live, config, gameFiles, marker, baseline, pending, faults>>

ApplyDeletes ==
  /\ At("apply")
  /\ cmd.todo = {}
  /\ RemoveDeleted
  /\ Go("deferred", {})
  /\ UNCHANGED <<live, config, gameFiles, marker, baseline, pending, patch, faults>>

CommitDeferred ==
  /\ At("deferred")
  /\ IF PatchConfig
     THEN /\ "config.ini" \in patch.staged
          /\ config' = V(patch.to)
          /\ patch' = [patch EXCEPT !.staged = @ \ {"config.ini"}]
     ELSE UNCHANGED <<config, patch>>
  /\ Go("clean", {})
  /\ UNCHANGED <<live, files, gameFiles, marker, baseline, pending, faults, damaged, owed>>

CleanPatch ==
  /\ At("clean")
  /\ patch' = NoChange
  /\ IF cmd.op = "resume" THEN cmd' = NoChange
     ELSE Go("deliver", {})
  /\ UNCHANGED <<live, files, config, gameFiles, marker, baseline, pending, faults,
                 damaged, owed>>

\* Where a command goes when finish_vfs_plan is done or not called.
AfterBaseline == IF cmd.close = "metadata" THEN Go("metadata", {}) ELSE cmd' = NoChange

Checked_WithIssues ==
  /\ At("check")
  /\ IF cmd.vfs THEN Go("baseline", {}) ELSE AfterBaseline
  /\ UNCHANGED <<live, disk, faults, damaged, owed>>

Checked ==
  /\ At("check")
  /\ cmd.todo = {}
  /\ IF cmd.vfs THEN Go("baseline", {}) ELSE AfterBaseline
  /\ UNCHANGED <<live, disk, faults, damaged, owed>>

\* finish_vfs_plan: without a resource plan the old baseline is revoked, else the
\* plan is made pending, obsolete files go and the plan becomes the baseline.
PendingConflict_Any == cmd.resources # 0 /\ pending # 0

PendingConflict == cmd.resources # 0 /\ pending \notin {0, cmd.resources}

Revoke_PendingOnly ==
  /\ At("baseline")
  /\ cmd.resources = 0
  /\ Go("unpend", {})
  /\ UNCHANGED <<live, disk, faults, damaged, owed>>

Revoke ==
  /\ At("baseline")
  /\ cmd.resources = 0
  /\ baseline' = 0
  /\ Go("unpend", {})
  /\ UNCHANGED <<live, files, config, gameFiles, marker, pending, patch, faults, damaged, owed>>

MakePending ==
  /\ At("baseline")
  /\ cmd.resources # 0
  /\ ~PendingConflict
  /\ pending' = cmd.resources
  /\ Go("prune", {})
  /\ UNCHANGED <<live, files, config, gameFiles, marker, baseline, patch, faults, damaged, owed>>

Prunable(f) == /\ f \in Claimed(baseline) \ Claimed(cmd.resources)
               /\ files[f] = Index[baseline][f]

Prune ==
  /\ At("prune")
  /\ files' = [f \in File |-> IF Prunable(f) THEN 0 ELSE files[f]]
  /\ Go("publish", {})
  /\ UNCHANGED <<live, config, gameFiles, marker, baseline, pending, patch, faults, damaged, owed>>

Publish ==
  /\ At("publish")
  /\ baseline' = cmd.resources
  /\ Go("unpend", {})
  /\ UNCHANGED <<live, files, config, gameFiles, marker, pending, patch, faults, damaged, owed>>

RemovePending ==
  /\ At("unpend")
  /\ pending' = 0
  /\ AfterBaseline
  /\ UNCHANGED <<live, files, config, gameFiles, marker, baseline, patch, faults, damaged, owed>>

\* sync_launcher_metadata: game_files, then config.ini.
SyncGameFiles ==
  /\ At("metadata")
  /\ live = cmd.release
  /\ gameFiles' = M(cmd.release)
  /\ Go("config", {})
  /\ UNCHANGED <<live, files, config, marker, baseline, pending, patch, faults, damaged, owed>>

SyncConfig ==
  /\ At("config")
  /\ config' = V(cmd.release)
  /\ Go("finish", {})
  /\ UNCHANGED <<live, files, gameFiles, marker, baseline, pending, patch, faults, damaged, owed>>

FinishChange ==
  /\ At("finish")
  /\ marker' = NoChange
  /\ cmd' = NoChange
  /\ UNCHANGED <<live, files, config, gameFiles, baseline, pending, patch, faults, damaged, owed>>

\* A step the code refuses ends the command with an error.
Refused ==
  \/ At("plan") /\ \A from \in PatchBases(cmd.release) : ~Plannable(from)
  \/ At("baseline") /\ PendingConflict
  \/ At("metadata") /\ live # cmd.release

Fail ==
  /\ Refused
  /\ cmd' = NoChange
  /\ UNCHANGED <<live, disk, faults, damaged, owed>>

-----------------------------------------------------------------------------
\* The environment.
Crash ==
  /\ ~Idle
  /\ faults < MaxFaults
  /\ faults' = faults + 1
  /\ cmd' = NoChange
  /\ UNCHANGED <<live, disk, damaged, owed>>

Damage(f, content) ==
  /\ Idle
  /\ config # 0
  /\ faults < MaxFaults
  /\ files[f] \notin {0, Bad}
  /\ faults' = faults + 1
  /\ files' = [files EXCEPT ![f] = content]
  /\ damaged' = damaged \cup {f}
  /\ UNCHANGED <<live, config, gameFiles, marker, baseline, pending, patch, cmd, owed>>

PublishRelease ==
  /\ live < Len(Releases)
  /\ live' = live + 1
  /\ UNCHANGED <<disk, cmd, faults, damaged, owed>>

Step ==
  \/ \E f \in File : Ensure(f) \/ ApplyEntry(f)
  \/ \E x \in File \cup {"config.ini"} : Extract(x)
  \/ Delivered \/ PlanPatch \/ Extracted
  \/ PreparePatch \/ ApplyDeletes \/ CommitDeferred \/ CleanPatch
  \/ Checked \/ Revoke \/ MakePending \/ Prune \/ Publish \/ RemovePending
  \/ SyncGameFiles \/ SyncConfig \/ FinishChange \/ Fail

Command ==
  \/ \E sync \in Policies, keep \in BOOLEAN : Install(sync, keep)
  \/ \E sync \in Policies, full \in BOOLEAN, defer \in {d \in BOOLEAN : d => MayDefer},
        delivery \in {"FullArchive", "PatchArchive", "Manifest"} :
        Update(sync, full, defer, delivery)
  \/ FinishUpdate \/ ResumePatch \/ DiscardPatch
  \/ \E scope \in Scopes : Verify(scope)

Environment ==
  \/ Crash
  \/ \E f \in File, content \in {0, Bad} : Damage(f, content)
  \/ PublishRelease

Next == Step \/ Command \/ Environment

Spec == Init /\ [][Next]_vars

\* The process makes progress while it runs, and the user runs verify --repair
\* whenever it can be run; the bound on faults and releases ends disturbances.
FairSpec ==
  /\ Spec
  /\ WF_vars(Step)
  /\ SF_vars(Verify("default"))

-----------------------------------------------------------------------------
Jobs ==
  [op : {"install", "update", "verify", "resume"},
   step : {"deliver", "plan", "extract", "prepare", "apply", "deferred", "clean",
           "check", "baseline", "unpend", "prune", "publish", "metadata", "config", "finish"},
   release : ReleaseId, resources : {0} \cup DOMAIN Index,
   todo : SUBSET (File \cup {"config.ini"}), weak : SUBSET File, check : SUBSET File,
   obsolete : DOMAIN Manifest \cup {NoChange}, vfs : BOOLEAN,
   close : {"metadata", "deferred", "resources"}]

PatchPlans ==
  [from : ReleaseId, to : ReleaseId, staged : SUBSET (File \cup {"config.ini"})]

\* NoChange is none of the records it stands beside.
ASSUME NoChangeAssumption == NoChange \notin Changes \cup Jobs \cup PatchPlans

\* The variables have their types, and only an existing patch plan is extracted
\* or applied.
TypeOK ==
  /\ live \in ReleaseId
  /\ files \in [File -> Nat \cup {Bad}]
  /\ config \in Nat /\ gameFiles \in {0} \cup DOMAIN Manifest
  /\ marker = NoChange \/ marker \in Changes
  /\ {baseline, pending} \subseteq {0} \cup DOMAIN Index
  /\ patch = NoChange \/ patch \in PatchPlans
  /\ cmd = NoChange \/ cmd \in Jobs
  /\ faults \in 0 .. MaxFaults
  /\ damaged \subseteq File /\ owed \subseteq damaged
  /\ At("extract") \/ At("prepare") \/ At("apply") \/ At("deferred") => patch # NoChange

\* The content a finished install promises: what the resource baseline owns has
\* the content of the index, anything else what the stored game_files lists.
Promised(f) ==
  IF f \in Claimed(baseline) THEN Index[baseline][f] ELSE Manifest[gameFiles][f]

Launchable == marker = NoChange /\ config # 0

\* A game that may be launched (ensure_install_ready finds no marker) is whole:
\* game_files is the manifest of the version config.ini reports, and every file it
\* or the resource baseline promises has that content, unless the user damaged it.
LaunchComplete ==
  Launchable =>
    /\ \E r \in ReleaseId : V(r) = config /\ M(r) = gameFiles
    /\ \A f \in File \ damaged : Promised(f) # 0 => files[f] = Promised(f)

\* No command removes a file the user or the game modified; only the delete list
\* of an official patch may.
ModifiedKept ==
  [][\A f \in damaged : files[f] # 0 /\ files'[f] = 0 => At("prepare") \/ At("apply")]_vars

\* A repair that was started for a damaged file is not forgotten: the marker is
\* not removed before the file has been rewritten, if the game still has it.
RepairKept == Launchable => \A f \in owed : Promised(f) = 0

\* A crash left the pending resource baseline of a release that has been superseded; only the plan
\* of that release would remove it.
PendingStale == pending # 0 /\ R(live) \notin {0, pending}

\* Repeated verify --repair finishes any unfinished change of an installed game, whatever
\* interrupted it and however many releases came since, but for a stale pending baseline.
VerifyCloses == (marker # NoChange /\ config # 0) ~> (marker = NoChange \/ PendingStale)
=============================================================================
