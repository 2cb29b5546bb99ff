-------------------------- MODULE InstallChangeProofs --------------------------
(***************************************************************************)
(* Theorems about InstallChange for any files, contents, releases, patches *)
(* and number of faults.                                                   *)
(***************************************************************************)
EXTENDS InstallChange, TLAPS

\* A damaged file is missing or holds no content of a release.
DamagedGone == \A f \in damaged : files[f] \in {0, Bad}

IInv == TypeOK /\ DamagedGone

\* A command checks and delivers only files its release lists, and a patch extracts in place only
\* those that differ.
Planned ==
  cmd # NoChange =>
    /\ cmd.check \subseteq Wanted(cmd.release, cmd.resources)
    /\ cmd.step \in {"deliver", "check"} => cmd.todo \subseteq Wanted(cmd.release, cmd.resources)
    /\ cmd.step = "extract" => cmd.todo \cap Core \subseteq Direct(patch)

\* One release is served, and a repair of everything is never closed by one of the core files.
RepairScopes ==
  /\ Len(Releases) = 1
  /\ "all" \in Scopes => "core" \notin Scopes /\ FALSE \notin Policies

\* The files a change has to check before it may end.
Covered == IF marker.sync THEN Wanted(1, R(1)) ELSE Wanted(1, 0) \cap Core

\* With one release there is no update, and every marker asks for the same files.
OneTarget ==
  /\ live = 1 /\ config \in {0, V(1)} /\ patch = NoChange
  /\ marker # NoChange =>
       /\ marker.to = V(1) /\ marker.resources = IF marker.sync THEN R(1) ELSE 0
       /\ "all" \in Scopes => marker.sync
  /\ cmd # NoChange => cmd.release = 1

\* A change does not end before every owed file was rewritten.
OwedCovered ==
  /\ IF marker = NoChange THEN owed = {} ELSE owed \subseteq Covered
  /\ cmd # NoChange =>
       /\ cmd.step \in {"deliver", "check", "baseline", "unpend", "prune", "publish",
                        "metadata", "config", "finish"}
       /\ cmd.weak = {} /\ cmd.close \in {"metadata", "resources"}
       /\ cmd.step \in {"metadata", "config", "finish"} => cmd.close = "metadata"
       /\ cmd.close = "metadata" =>
            /\ marker # NoChange
            /\ cmd.step = "deliver" => owed \subseteq cmd.check
            /\ cmd.step = "check" => owed \subseteq cmd.todo
            /\ cmd.step \notin {"deliver", "check"} => owed = {}

\* Releases without patches, installed with the resource index and checked as a whole; no core file
\* returns to the content of an earlier release, and no path moves unchanged from an index to
\* game_files.
Forward ==
  /\ Patches = {} /\ Policies \subseteq {TRUE} /\ Scopes \subseteq {"default", "all"}
  /\ \A q, r, s \in ReleaseId, f \in Core :
       /\ q <= r /\ r <= s
       /\ Manifest[M(q)][f] # 0 /\ Manifest[M(q)][f] = Manifest[M(s)][f]
       => Manifest[M(r)][f] = Manifest[M(s)][f]
  /\ \A q, r \in ReleaseId : q <= r /\ R(r) # 0 =>
       \A f \in Claimed(R(q)) \ Claimed(R(r)) : Manifest[M(r)][f] # Index[R(q)][f]

\* The newest release a file may come from.
Top == IF cmd = NoChange THEN live ELSE cmd.release

\* A command runs under a marker, for a release and its index.
Modes ==
  /\ patch = NoChange
  /\ marker # NoChange => marker.sync
  /\ cmd # NoChange =>
       /\ marker # NoChange
       /\ cmd.release <= live /\ cmd.resources = R(cmd.release) /\ cmd.vfs
       /\ cmd.step \in {"deliver", "check", "baseline", "unpend", "prune", "publish",
                        "metadata", "config", "finish"}
       /\ cmd.close \in {"metadata", "deferred"}
       /\ cmd.step \in {"metadata", "config", "finish"} => cmd.close = "metadata"
       /\ cmd.step = "prune" => cmd.resources # 0

\* A core file of the stored manifest that nobody damaged has the content it had there or in a
\* later release.
Between(g) ==
  \A f \in Core \ damaged : Manifest[gameFiles][f] # 0 /\ files[f] # 0 =>
    \E k \in ReleaseId : g <= k /\ k <= Top /\ files[f] = Manifest[M(k)][f]

Stored ==
  /\ gameFiles # 0 => \E g \in ReleaseId : g <= Top /\ gameFiles = M(g) /\ Between(g)
  /\ baseline # 0 => \E q \in ReleaseId : q <= Top /\ baseline = R(q)

Done(f) == f \in damaged \/ files[f] = Goal(cmd.release, cmd.resources)[f]

\* What a command has checked so far.
Progress ==
  cmd # NoChange =>
    LET wanted == Wanted(cmd.release, cmd.resources)
    IN /\ cmd.weak # {} => gameFiles # 0 /\ cmd.step = "deliver"
                             /\ cmd.weak \subseteq Unchanged(gameFiles, M(cmd.release))
       /\ cmd.step = "deliver" => \A f \in wanted \ (cmd.todo \cup cmd.check) : Done(f)
       /\ cmd.close = "metadata" =>
            /\ cmd.step = "check" => \A f \in wanted \ cmd.todo : Done(f)
            /\ cmd.step \notin {"deliver", "check"} => \A f \in wanted : Done(f)
       /\ cmd.step \in {"unpend", "metadata", "config", "finish"} => baseline = cmd.resources
       /\ cmd.step \in {"config", "finish"} => gameFiles = M(cmd.release)
       /\ cmd.step = "finish" => config = V(cmd.release)

\* Without a marker the install is that of one release.
Finished ==
  Launchable =>
    \E r \in ReleaseId :
      /\ V(r) = config /\ M(r) = gameFiles /\ R(r) = baseline
      /\ \A f \in Wanted(r, R(r)) \ damaged : files[f] = Goal(r, R(r))[f]

Steps == {"deliver", "plan", "extract", "prepare", "apply", "deferred", "clean",
          "check", "baseline", "unpend", "prune", "publish", "metadata", "config", "finish"}

-----------------------------------------------------------------------------
(* Releases, plans and commands. *)

\* A release has a version, a manifest and perhaps a resource index.
LEMMA ReleaseFacts ==
  /\ 1 \in ReleaseId /\ ReleaseId \subseteq Nat
  /\ \A r \in ReleaseId : V(r) \in Nat \ {0} /\ M(r) \in DOMAIN Manifest
                          /\ R(r) \in {0} \cup DOMAIN Index
  /\ \A m \in DOMAIN Manifest : Manifest[m] \in [File -> Nat]
  /\ \A i \in DOMAIN Index : Index[i] \in [File -> Nat] /\ \A f \in Core : Index[i][f] = 0
  /\ DOMAIN Manifest \subseteq Nat /\ DOMAIN Index \subseteq Nat \ {0}
  <1>1. Len(Releases) \in Nat /\ Len(Releases) >= 1 /\ DOMAIN Releases = 1 .. Len(Releases)
    BY InstallAssumption
  <1>2. ASSUME NEW r \in ReleaseId
        PROVE  V(r) \in Nat \ {0} /\ M(r) \in DOMAIN Manifest /\ R(r) \in {0} \cup DOMAIN Index
    <2>1. Releases[r] \in [version : Nat \ {0}, manifest : DOMAIN Manifest,
                           resources : {0} \cup DOMAIN Index]
      <3>1. ASSUME NEW S, Releases \in Seq(S) PROVE Releases[r] \in S
        BY <1>1, <3>1 DEF ReleaseId
      <3>2. QED
        BY <3>1, InstallAssumption
    <2>2. QED
      BY <2>1 DEF V, M, R
  <1>3. ASSUME NEW m \in DOMAIN Manifest
        PROVE  Manifest[m] \in [File -> Nat]
    BY InstallAssumption
  <1>4. ASSUME NEW i \in DOMAIN Index
        PROVE  Index[i] \in {listed \in [File -> Nat] : \A f \in Core : listed[f] = 0}
    BY InstallAssumption
  <1>5. DOMAIN Manifest \subseteq Nat /\ DOMAIN Index \subseteq Nat \ {0}
    <2>1. DOMAIN Manifest = 1 .. Len(Manifest) /\ Len(Manifest) \in Nat
      BY InstallAssumption
    <2>2. DOMAIN Index = 1 .. Len(Index) /\ Len(Index) \in Nat
      BY InstallAssumption
    <2>3. QED
      BY <2>1, <2>2
  <1>6. QED
    BY <1>1, <1>2, <1>3, <1>4, <1>5 DEF ReleaseId

\* The content plan of a release lists files and gives each a content.
LEMMA PlanFacts ==
  ASSUME NEW r \in ReleaseId, NEW i \in {0} \cup DOMAIN Index
  PROVE  /\ Claimed(i) \subseteq Resource
         /\ Goal(r, i) \in [File -> Nat]
         /\ Wanted(r, i) \subseteq File
  <1>1. Claimed(i) \subseteq Resource
    BY DEF Claimed
  <1>2. ASSUME NEW f \in File
        PROVE  (IF f \in Claimed(i) THEN Index[i][f] ELSE Manifest[M(r)][f]) \in Nat
    BY ReleaseFacts DEF Claimed
  <1>3. Goal(r, i) \in [File -> Nat]
    BY <1>2 DEF Goal
  <1>4. QED
    BY <1>1, <1>3 DEF Wanted

\* A new command is one.
LEMMA JobType ==
  ASSUME NEW op \in {"install", "update", "verify", "resume"}, NEW r \in ReleaseId,
         NEW i \in {0} \cup DOMAIN Index
  PROVE  Job(op, r, i) \in Jobs
  BY PlanFacts DEF Job, Jobs

\* A command that goes to another step is one.
LEMMA GoType ==
  ASSUME cmd \in Jobs, NEW s \in Steps, NEW T, T \subseteq File \cup {"config.ini"}, Go(s, T)
  PROVE  cmd' \in Jobs /\ cmd'.step = s /\ cmd'.todo = T
  BY DEF Go, Jobs, Steps

\* A marker is one.
LEMMA ChangeType ==
  ASSUME NEW kind \in {"Install", "Update", "Repair"},
         NEW source \in {"FullArchive", "PatchArchive", "Manifest", "Repair"},
         NEW from \in Nat, NEW r \in ReleaseId, NEW sync \in BOOLEAN,
         NEW i \in {0} \cup DOMAIN Index
  PROVE  Change(kind, source, from, r, sync, i) \in Changes
  BY ReleaseFacts DEF Change, Changes

-----------------------------------------------------------------------------
(* What the user damaged is never a content of a release. *)

LEMMA InitHolds == Init => IInv
  BY InstallAssumption, ReleaseFacts DEF Init, IInv, TypeOK, DamagedGone, At

\* Nothing on disk or about damaged files changes while a command takes another step.
LEMMA CommandMoves ==
  ASSUME IInv, cmd' = NoChange \/ cmd' \in Jobs,
         At("extract")' \/ At("prepare")' \/ At("apply")' \/ At("deferred")' => patch # NoChange,
         UNCHANGED <<live, disk, faults, damaged, owed>>
  PROVE  IInv'
  BY DEF IInv, TypeOK, DamagedGone, disk

\* A file a step writes has the content of a release and is not damaged.
LEMMA WriteHolds ==
  ASSUME IInv, NEW f \in File, NEW content \in Nat, Write(f, content)
  PROVE  /\ files' \in [File -> Nat \cup {Bad}]
         /\ damaged' \subseteq File /\ owed' \subseteq damaged'
         /\ DamagedGone'
  BY DEF IInv, TypeOK, DamagedGone, Write

LEMMA InstallHolds ==
  ASSUME IInv, NEW sync \in Policies, NEW keep \in BOOLEAN, Install(sync, keep)
  PROVE  IInv'
  <1> DEFINE i == IF sync THEN R(live) ELSE 0
             c == Change("Install", IF keep THEN "FullArchive" ELSE "Manifest", 0, live, sync, i)
             job == Job("install", live, i)
             T == IF keep THEN job.check ELSE job.check \ Claimed(i)
  <1>1. live \in ReleaseId /\ sync \in BOOLEAN /\ i \in {0} \cup DOMAIN Index
    BY InstallAssumption, ReleaseFacts DEF IInv, TypeOK
  <1>2. c \in Changes
    <2>1. (IF keep THEN "FullArchive" ELSE "Manifest")
             \in {"FullArchive", "PatchArchive", "Manifest", "Repair"}
      OBVIOUS
    <2> HIDE DEF i
    <2>2. QED
      BY <1>1, <2>1, ChangeType
  <1>3. job \in Jobs /\ job.check \subseteq File /\ T \subseteq File
    <2> HIDE DEF i
    <2>1. QED
      BY <1>1, JobType DEF Jobs
  <1>4. [job EXCEPT !.todo = job.check] \in Jobs /\ [job EXCEPT !.step = "deliver", !.todo = T] \in Jobs
    <2> HIDE DEF job, T
    <2>1. QED
      BY <1>3 DEF Jobs
  <1>5. job.step = "check"
    BY DEF Job
  <1>6. marker' = c /\ cmd' \in {[job EXCEPT !.todo = job.check],
                                [job EXCEPT !.step = "deliver", !.todo = T]}
    BY DEF Install, Started
  <1>7. UNCHANGED <<live, files, config, gameFiles, baseline, pending, patch, faults, damaged, owed>>
    BY DEF Install
  <1>8. cmd' \in Jobs /\ cmd'.step \in {"check", "deliver"}
    <2> HIDE DEF job, T
    <2>1. QED
      BY <1>3, <1>4, <1>5, <1>6 DEF Jobs
  <1> HIDE DEF i, c, job, T
  <1>9. QED
    BY <1>2, <1>6, <1>7, <1>8 DEF IInv, TypeOK, DamagedGone, At

LEMMA PatchCommandsHold == IInv /\ (ResumePatch \/ DiscardPatch) => IInv'
  <1> SUFFICES ASSUME IInv, ResumePatch \/ DiscardPatch PROVE IInv'
    OBVIOUS
  <1>1. CASE ResumePatch
    <2>1. patch # NoChange /\ patch.to \in ReleaseId
      BY <1>1 DEF ResumePatch, IInv, TypeOK, PatchPlans
    <2>2. Job("resume", patch.to, 0) \in Jobs
      BY <2>1, JobType
    <2>3. cmd' \in Jobs
      BY <1>1, <2>2 DEF ResumePatch, Jobs
    <2>4. QED
      BY <1>1, <2>1, <2>3, CommandMoves DEF ResumePatch, At
  <1>2. CASE DiscardPatch
    BY <1>2 DEF DiscardPatch, IInv, TypeOK, DamagedGone, At, Idle
  <1>3. QED
    BY <1>1, <1>2

LEMMA FinishUpdateHolds == IInv /\ FinishUpdate => IInv'
  <1> SUFFICES ASSUME IInv, FinishUpdate PROVE IInv'
    OBVIOUS
  <1> DEFINE i == IF marker.sync THEN R(live) ELSE 0
             job == Job("update", live, i)
  <1>1. i \in {0} \cup DOMAIN Index /\ live \in ReleaseId
    BY ReleaseFacts DEF IInv, TypeOK
  <1>2. job \in Jobs /\ job.check \subseteq File /\ job.step = "check"
    <2> HIDE DEF i
    <2>1. QED
      BY <1>1, JobType DEF Jobs, Job
  <1>3. cmd' = [job EXCEPT !.todo = job.check]
        /\ UNCHANGED <<live, disk, faults, damaged, owed>>
    BY DEF FinishUpdate
  <1> HIDE DEF job
  <1>4. cmd' \in Jobs /\ cmd'.step = "check"
    BY <1>2, <1>3 DEF Jobs
  <1>5. QED
    BY <1>3, <1>4, CommandMoves DEF At

LEMMA UpdateHolds ==
  ASSUME IInv, NEW sync \in Policies, NEW full \in BOOLEAN, NEW defer \in BOOLEAN,
         NEW delivery \in {"FullArchive", "PatchArchive", "Manifest"},
         Update(sync, full, defer, delivery)
  PROVE  IInv'
  <1> DEFINE i == IF sync THEN R(live) ELSE 0
             c == Change("Update", delivery, config, live, sync, i)
             close == IF defer THEN "deferred" ELSE "metadata"
             job == [Job("update", live, i) EXCEPT !.close = close]
             whole == [job EXCEPT !.step = "deliver", !.todo = job.check]
             patched == [job EXCEPT !.step = "plan"]
             listed == [job EXCEPT !.step = "deliver", !.todo = job.check \ Claimed(i),
                             !.weak = Unchanged(gameFiles, M(live)), !.check = Claimed(i),
                             !.obsolete = gameFiles]
  <1>1. live \in ReleaseId /\ sync \in BOOLEAN /\ i \in {0} \cup DOMAIN Index
        /\ gameFiles \in DOMAIN Manifest /\ config \in Nat
    BY InstallAssumption, ReleaseFacts DEF IInv, TypeOK, Update
  <1>2. close \in {"metadata", "deferred", "resources"}
    OBVIOUS
  <1>3. c \in Changes
    <2> HIDE DEF i
    <2>1. QED
      BY <1>1, ChangeType
  <1>4. Job("update", live, i) \in Jobs
    <2> HIDE DEF i
    <2>1. QED
      BY <1>1, JobType
  <1>5. job \in Jobs /\ job.check \subseteq File
    <2> HIDE DEF i, close
    <2>1. QED
      BY <1>2, <1>4 DEF Jobs
  <1>6. Claimed(i) \subseteq File /\ Unchanged(gameFiles, M(live)) \subseteq File
    <2> HIDE DEF i
    <2>1. QED
      BY <1>1, PlanFacts DEF Unchanged, File
  <1>7. {whole, patched, listed} \subseteq Jobs
        /\ whole.step = "deliver" /\ patched.step = "plan" /\ listed.step = "deliver"
    <2> HIDE DEF i, job
    <2>1. whole \in Jobs /\ whole.step = "deliver"
      BY <1>5 DEF Jobs
    <2>2. patched \in Jobs /\ patched.step = "plan"
      BY <1>5 DEF Jobs
    <2>3. listed \in Jobs /\ listed.step = "deliver"
      BY <1>1, <1>5, <1>6 DEF Jobs
    <2> HIDE DEF whole, patched, listed
    <2>4. QED
      BY <2>1, <2>2, <2>3
  <1>8. marker' = c /\ cmd' \in {whole, patched, listed}
    BY DEF Update, Started
  <1>9. UNCHANGED <<live, files, config, gameFiles, baseline, pending, patch, faults, damaged, owed>>
    BY DEF Update
  <1> HIDE DEF i, c, job, whole, patched, listed
  <1>10. QED
    BY <1>3, <1>7, <1>8, <1>9 DEF IInv, TypeOK, DamagedGone, At

LEMMA VerifyHolds ==
  ASSUME IInv, NEW scope \in Scopes, Verify(scope)
  PROVE  IInv'
  <1> DEFINE sync == SyncOf(scope)
             eff == EffectiveScope(scope, sync)
             i == IF eff = "core" THEN 0 ELSE R(live)
             repair == [Change("Repair", "Repair", config, live, sync, i) EXCEPT !.to = config]
             moved == Change("Update", "Repair", marker.to, live, sync, i)
             c == IF marker = NoChange THEN repair ELSE IF Superseded THEN moved ELSE marker
             read == CASE eff = "all"       -> Wanted(live, i)
                       [] eff = "core"      -> Wanted(live, i) \cap Core
                       [] eff = "resources" -> Wanted(live, i) \cap Resource
             job == [Job("verify", live, i) EXCEPT
                       !.check = read, !.todo = read, !.vfs = (eff # "core"),
                       !.close = IF eff = "resources" THEN "resources" ELSE "metadata"]
  <1>1. live \in ReleaseId /\ sync \in BOOLEAN /\ i \in {0} \cup DOMAIN Index /\ config \in Nat
    <2>1. sync \in BOOLEAN
      BY DEF SyncOf, IInv, TypeOK, Changes
    <2>2. QED
      BY <2>1, ReleaseFacts DEF IInv, TypeOK
  <1>2. eff \in {"all", "core", "resources"}
    BY InstallAssumption DEF EffectiveScope
  <1>3. c \in Changes \/ marker = NoChange
    <2>1. marker # NoChange => marker \in Changes /\ marker.to \in Nat
      BY DEF IInv, TypeOK, Changes
    <2> HIDE DEF i, sync
    <2>2. CASE marker # NoChange
      <3>1. moved \in Changes
        BY <1>1, <2>1, <2>2, ChangeType
      <3>2. QED
        BY <2>1, <2>2, <3>1
    <2>3. QED
      BY <2>2
  <1>4. repair \in Changes
    <2> HIDE DEF i, sync
    <2>1. Change("Repair", "Repair", config, live, sync, i) \in Changes
      BY <1>1, ChangeType
    <2>2. QED
      BY <1>1, <2>1 DEF Changes
  <1>5. read \subseteq File
    <2> HIDE DEF i, eff
    <2>1. Wanted(live, i) \subseteq File
      BY <1>1, PlanFacts
    <2>2. QED
      BY <1>2, <2>1
  <1>6. job \in Jobs /\ job.step = "check"
    <2> HIDE DEF i, eff, read
    <2>1. Job("verify", live, i) \in Jobs /\ Job("verify", live, i).step = "check"
      BY <1>1, JobType DEF Job
    <2>2. (eff # "core") \in BOOLEAN
          /\ (IF eff = "resources" THEN "resources" ELSE "metadata")
                \in {"metadata", "deferred", "resources"}
      OBVIOUS
    <2>3. QED
      BY <1>5, <2>1, <2>2 DEF Jobs
  <1>7. cmd' = job /\ marker' \in {marker, c}
    BY DEF Verify, Started
  <1>8. owed' \subseteq damaged /\ UNCHANGED <<live, files, config, gameFiles, baseline,
                                             pending, patch, faults, damaged>>
    <2>1. owed' \in {owed, owed \cup (damaged \cap read)}
      BY DEF Verify
    <2>2. owed \subseteq damaged
      BY DEF IInv, TypeOK
    <2> HIDE DEF read
    <2>3. QED
      BY <2>1, <2>2 DEF Verify
  <1>9. c \in Changes
    BY <1>3, <1>4
  <1> HIDE DEF c, job
  <1>10. QED
    BY <1>6, <1>7, <1>8, <1>9 DEF IInv, TypeOK, DamagedGone, At

LEMMA EnsureHolds ==
  ASSUME IInv, NEW f \in File, Ensure(f)
  PROVE  IInv'
  <1>1. cmd \in Jobs /\ cmd.todo \ {f} \subseteq File \cup {"config.ini"}
    BY DEF Ensure, At, IInv, TypeOK, Jobs
  <1>2. cmd' \in Jobs /\ cmd'.step = cmd.step
    BY <1>1 DEF Ensure, Jobs
  <1>3. Goal(cmd.release, cmd.resources)[f] \in Nat
    <2>1. cmd.release \in ReleaseId /\ cmd.resources \in {0} \cup DOMAIN Index
      BY <1>1 DEF Jobs
    <2>2. QED
      BY <2>1, PlanFacts
  <1>4. /\ files' \in [File -> Nat \cup {Bad}]
        /\ damaged' \subseteq File /\ owed' \subseteq damaged'
        /\ DamagedGone'
    <2>1. CASE Intact(f)
      BY <2>1 DEF Ensure, IInv, TypeOK, DamagedGone
    <2>2. CASE ~Intact(f)
      BY <1>3, <2>2, WriteHolds DEF Ensure
    <2>3. QED
      BY <2>1, <2>2
  <1>5. QED
    BY <1>2, <1>4 DEF Ensure, IInv, TypeOK, At

\* A file of the old manifest that is unmodified is not damaged.
LEMMA DeliveredHolds == IInv /\ Delivered => IInv' /\ \A f \in damaged : files'[f] = files[f]
  <1> SUFFICES ASSUME IInv, Delivered
               PROVE  IInv' /\ \A f \in damaged : files'[f] = files[f]
    OBVIOUS
  <1>1. cmd \in Jobs /\ cmd.obsolete \in DOMAIN Manifest \cup {NoChange}
        /\ Claimed(cmd.resources) \subseteq File /\ cmd.check \subseteq File
    <2>1. cmd \in Jobs
      BY DEF Delivered, At, IInv, TypeOK
    <2>2. QED
      BY <2>1, PlanFacts, ReleaseFacts DEF Jobs, Claimed, File
  <1>2. cmd' = NoChange \/ (cmd' \in Jobs /\ cmd'.step = "check")
    <2>1. (IF cmd.close = "deferred" THEN Claimed(cmd.resources) ELSE cmd.check) \subseteq File
      BY <1>1
    <2>2. cmd' = NoChange \/ cmd' = [cmd EXCEPT !.step = "check", !.weak = {},
                       !.todo = IF cmd.close = "deferred" THEN Claimed(cmd.resources)
                                ELSE cmd.check]
      BY DEF Delivered
    <2>3. QED
      BY <1>1, <2>1, <2>2, ZenonT(40) DEF Jobs
  <1>3. files' \in [File -> Nat \cup {Bad}]
    BY DEF Delivered, IInv, TypeOK
  <1>4. \A f \in damaged : files'[f] = files[f]
    <2> SUFFICES ASSUME NEW f \in damaged, cmd.obsolete # NoChange, Obsolete(f)
                 PROVE  FALSE
      BY DEF Delivered, IInv, TypeOK
    <2>1. f \in File /\ files[f] \in {0, Bad}
      BY DEF IInv, TypeOK, DamagedGone
    <2>2. Manifest[cmd.obsolete][f] \in Nat
      BY <1>1, <2>1, ReleaseFacts
    <2>3. QED
      BY <2>1, <2>2, InstallAssumption DEF Obsolete
  <1>5. QED
    BY <1>2, <1>3, <1>4 DEF Delivered, IInv, TypeOK, DamagedGone, At

\* A patch differs in game files only, and lists the content of its target.
LEMMA PatchFacts ==
  ASSUME NEW p \in PatchPlans
  PROVE  /\ p.from \in ReleaseId /\ p.to \in ReleaseId
         /\ From(p) \in [File -> Nat] /\ To(p) \in [File -> Nat]
         /\ Differs(p) \subseteq File /\ Entries(p) \subseteq File /\ NewEntries(p) \subseteq File
         /\ Direct(p) \subseteq File /\ Deleted(p) \subseteq File
  BY ReleaseFacts DEF PatchPlans, From, To, Differs, Entries, NewEntries, Direct, Deleted

LEMMA PlanPatchHolds == IInv /\ PlanPatch => IInv'
  <1> SUFFICES ASSUME IInv, PlanPatch PROVE IInv'
    OBVIOUS
  <1>1. cmd \in Jobs /\ cmd.release \in ReleaseId /\ Claimed(cmd.resources) \subseteq File
    BY DEF PlanPatch, At, IInv, TypeOK, Jobs, Claimed, File
  <1>2. PICK from \in PatchBases(cmd.release) :
          /\ patch' = Plan(from)
          /\ cmd' = [cmd EXCEPT !.step = "extract",
                       !.check = Differs(Plan(from)) \cup Claimed(cmd.resources),
                       !.todo = Direct(Plan(from)) \cup NewEntries(Plan(from))
                                \cup IF PatchConfig THEN {"config.ini"} ELSE {}]
    BY DEF PlanPatch
  <1>3. Plan(from) \in PatchPlans /\ Plan(from) # NoChange
    BY <1>1, NoChangeAssumption DEF Plan, PatchPlans, PatchBases
  <1> DEFINE p == Plan(from)
             C == Differs(p) \cup Claimed(cmd.resources)
             T == Direct(p) \cup NewEntries(p) \cup IF PatchConfig THEN {"config.ini"} ELSE {}
  <1> HIDE DEF p
  <1>4. C \subseteq File /\ T \subseteq File \cup {"config.ini"}
    BY <1>1, <1>3, PatchFacts DEF p
  <1>5. cmd' = [cmd EXCEPT !.step = "extract", !.check = C, !.todo = T]
    BY <1>2 DEF p
  <1> HIDE DEF C, T
  <1>6. cmd' \in Jobs /\ cmd'.step = "extract"
    BY <1>1, <1>4, <1>5 DEF Jobs
  <1>7. QED
    BY <1>2, <1>3, <1>6 DEF PlanPatch, IInv, TypeOK, DamagedGone

LEMMA ExtractHolds ==
  ASSUME IInv, NEW x \in File \cup {"config.ini"}, Extract(x)
  PROVE  IInv'
  <1>1. cmd \in Jobs /\ cmd.step = "extract" /\ patch # NoChange /\ patch \in PatchPlans
    BY DEF Extract, At, IInv, TypeOK
  <1>2. cmd' \in Jobs /\ cmd'.step = "extract"
    BY <1>1 DEF Extract, Jobs
  <1>3. CASE x \in Core
    <2>1. x \in File /\ To(patch)[x] \in Nat
      BY <1>1, <1>3, PatchFacts DEF File
    <2>2. Write(x, To(patch)[x]) /\ UNCHANGED patch
      BY <1>3 DEF Extract
    <2>3. QED
      BY <1>1, <1>2, <2>1, <2>2, WriteHolds DEF Extract, IInv, TypeOK
  <1>4. CASE x \notin Core
    <2>1. patch' = [patch EXCEPT !.staged = @ \cup {x}] /\ UNCHANGED <<files, damaged, owed>>
      BY <1>4 DEF Extract
    <2>2. patch' \in PatchPlans /\ patch' # NoChange
      BY <1>1, <2>1, NoChangeAssumption DEF PatchPlans
    <2>3. QED
      BY <1>2, <2>1, <2>2 DEF Extract, IInv, TypeOK, DamagedGone
  <1>5. QED
    BY <1>3, <1>4

LEMMA RemoveDeletedHolds ==
  ASSUME IInv, patch # NoChange, RemoveDeleted
  PROVE  /\ files' \in [File -> Nat \cup {Bad}]
         /\ damaged' \subseteq File /\ owed' \subseteq damaged'
         /\ DamagedGone'
  BY DEF IInv, TypeOK, DamagedGone, RemoveDeleted

LEMMA PatchStepsHold ==
  IInv /\ (Extracted \/ PreparePatch \/ ApplyDeletes \/ CommitDeferred \/ CleanPatch) => IInv'
  <1> SUFFICES ASSUME IInv,
                      Extracted \/ PreparePatch \/ ApplyDeletes \/ CommitDeferred \/ CleanPatch
               PROVE  IInv'
    OBVIOUS
  <1>1. cmd \in Jobs
    BY DEF Extracted, PreparePatch, ApplyDeletes, CommitDeferred, CleanPatch, At, IInv, TypeOK
  <1>2. At("extract") \/ At("prepare") \/ At("apply") \/ At("deferred")
        => patch # NoChange /\ patch \in PatchPlans
    BY DEF IInv, TypeOK
  <1>3. CASE Extracted
    <2>1. cmd' \in Jobs /\ cmd'.step = "prepare"
      BY <1>1, <1>3, GoType DEF Extracted, Steps
    <2>2. QED
      BY <1>2, <1>3, <2>1, CommandMoves DEF Extracted, At
  <1>4. CASE PreparePatch
    <2>1. Entries(patch) \subseteq File
      BY <1>2, <1>4, PatchFacts DEF PreparePatch
    <2>2. cmd' \in Jobs /\ cmd'.step = "apply"
      BY <1>1, <1>4, <2>1, GoType DEF PreparePatch, Steps
    <2>3. QED
      BY <1>2, <1>4, <2>2, RemoveDeletedHolds DEF PreparePatch, IInv, TypeOK
  <1>5. CASE ApplyDeletes
    <2>1. cmd' \in Jobs /\ cmd'.step = "deferred"
      BY <1>1, <1>5, GoType DEF ApplyDeletes, Steps
    <2>2. QED
      BY <1>2, <1>5, <2>1, RemoveDeletedHolds DEF ApplyDeletes, IInv, TypeOK
  <1>6. CASE CommitDeferred
    <2>1. cmd' \in Jobs /\ cmd'.step = "clean"
      BY <1>1, <1>6, GoType DEF CommitDeferred, Steps
    <2>2. config' \in Nat /\ (patch' = NoChange \/ patch' \in PatchPlans)
      <3>1. patch # NoChange /\ patch \in PatchPlans /\ V(patch.to) \in Nat
        BY <1>2, <1>6, ReleaseFacts DEF CommitDeferred, PatchPlans
      <3>2. [patch EXCEPT !.staged = @ \ {"config.ini"}] \in PatchPlans
        BY <3>1 DEF PatchPlans
      <3>3. QED
        BY <1>6, <3>1, <3>2 DEF CommitDeferred, IInv, TypeOK
    <2>3. QED
      BY <1>6, <2>1, <2>2 DEF CommitDeferred, IInv, TypeOK, DamagedGone, At
  <1>7. CASE CleanPatch
    <2>1. cmd' = NoChange \/ (cmd' \in Jobs /\ cmd'.step = "deliver")
      BY <1>1, <1>7, GoType DEF CleanPatch, Steps
    <2>2. QED
      BY <1>7, <2>1 DEF CleanPatch, IInv, TypeOK, DamagedGone, At
  <1>8. QED
    BY <1>3, <1>4, <1>5, <1>6, <1>7

LEMMA ApplyEntryHolds ==
  ASSUME IInv, NEW f \in File, ApplyEntry(f)
  PROVE  IInv'
  <1>1. cmd \in Jobs /\ cmd.step = "apply" /\ patch # NoChange /\ patch \in PatchPlans
    BY DEF ApplyEntry, At, IInv, TypeOK
  <1>2. cmd' \in Jobs /\ cmd'.step = "apply"
    BY <1>1 DEF ApplyEntry, Jobs
  <1>3. CASE files[f] = To(patch)[f]
    BY <1>1, <1>2, <1>3 DEF ApplyEntry, IInv, TypeOK, DamagedGone
  <1>4. CASE files[f] # To(patch)[f]
    <2>1. To(patch)[f] \in Nat
      BY <1>1, PatchFacts
    <2>2. Write(f, To(patch)[f]) /\ patch' = [patch EXCEPT !.staged = @ \ {f}]
      BY <1>4 DEF ApplyEntry
    <2>3. patch' \in PatchPlans /\ patch' # NoChange
      BY <1>1, <2>2, NoChangeAssumption DEF PatchPlans
    <2>4. QED
      BY <1>2, <2>1, <2>2, <2>3, WriteHolds DEF ApplyEntry, IInv, TypeOK
  <1>5. QED
    BY <1>3, <1>4

\* The steps after the check, which change no file.
LEMMA ClosingStepsHold ==
  IInv /\ (Checked \/ Revoke \/ MakePending \/ Publish \/ RemovePending \/ SyncGameFiles
           \/ SyncConfig \/ FinishChange \/ Fail \/ Crash) => IInv'
  <1> SUFFICES ASSUME IInv, Checked \/ Revoke \/ MakePending \/ Publish \/ RemovePending
                            \/ SyncGameFiles \/ SyncConfig \/ FinishChange \/ Fail \/ Crash
               PROVE  IInv'
    OBVIOUS
  <1>1. cmd = NoChange \/ (cmd \in Jobs /\ cmd.release \in ReleaseId
                            /\ cmd.resources \in {0} \cup DOMAIN Index)
    BY DEF IInv, TypeOK, Jobs
  <1>2. ASSUME NEW s \in Steps, s \notin {"extract", "prepare", "apply", "deferred"}, Go(s, {}),
               cmd # NoChange
        PROVE  cmd' \in Jobs /\ cmd'.step = s /\ ~(At("extract") \/ At("prepare") \/ At("apply")
                                                  \/ At("deferred"))'
    <2>1. cmd' \in Jobs /\ cmd'.step = s
      BY <1>1, <1>2, GoType
    <2>2. QED
      BY <1>2, <2>1 DEF At
  <1>3. AfterBaseline /\ cmd # NoChange =>
          /\ cmd' = NoChange \/ cmd' \in Jobs
          /\ ~(At("extract") \/ At("prepare") \/ At("apply") \/ At("deferred"))'
    <2>1. CASE cmd' = NoChange
      BY <2>1 DEF At
    <2>2. CASE cmd' # NoChange
      BY <1>2, <2>2 DEF AfterBaseline, Steps
    <2>3. QED
      BY <2>1, <2>2
  <1>4. CASE Checked
    <2>1. CASE cmd.vfs
      BY <1>2, <1>4, <2>1, CommandMoves DEF Checked, At, Steps
    <2>2. CASE ~cmd.vfs
      BY <1>3, <1>4, <2>2, CommandMoves DEF Checked, At
    <2>3. QED
      BY <2>1, <2>2
  <1>5. CASE Revoke
    BY <1>2, <1>5 DEF Revoke, At, Steps, IInv, TypeOK, DamagedGone
  <1>6. CASE MakePending
    BY <1>1, <1>2, <1>6 DEF MakePending, At, Steps, IInv, TypeOK, DamagedGone
  <1>7. CASE Publish
    BY <1>1, <1>2, <1>7 DEF Publish, At, Steps, IInv, TypeOK, DamagedGone
  <1>8. CASE RemovePending
    BY <1>3, <1>8 DEF RemovePending, At, IInv, TypeOK, DamagedGone
  <1>9. CASE SyncGameFiles
    BY <1>1, <1>2, <1>9, ReleaseFacts DEF SyncGameFiles, At, Steps, IInv, TypeOK, DamagedGone
  <1>10. CASE SyncConfig
    BY <1>1, <1>2, <1>10, ReleaseFacts DEF SyncConfig, At, Steps, IInv, TypeOK, DamagedGone
  <1>11. CASE FinishChange
    BY <1>11 DEF FinishChange, At, IInv, TypeOK, DamagedGone
  <1>12. CASE Fail
    BY <1>12, CommandMoves DEF Fail, At
  <1>13. CASE Crash
    BY <1>13, InstallAssumption DEF Crash, At, disk, IInv, TypeOK, DamagedGone
  <1>14. QED
    BY <1>4, <1>5, <1>6, <1>7, <1>8, <1>9, <1>10, <1>11, <1>12, <1>13

\* A file of the old baseline that is unmodified is not damaged.
LEMMA PruneHolds == IInv /\ Prune => IInv' /\ \A f \in damaged : files'[f] = files[f]
  <1> SUFFICES ASSUME IInv, Prune
               PROVE  IInv' /\ \A f \in damaged : files'[f] = files[f]
    OBVIOUS
  <1>1. cmd' \in Jobs /\ cmd'.step = "publish"
    <2>1. cmd \in Jobs /\ Go("publish", {})
      BY DEF Prune, At, IInv, TypeOK
    <2>2. QED
      BY <2>1, GoType DEF Steps
  <1>2. files' \in [File -> Nat \cup {Bad}]
    BY DEF Prune, IInv, TypeOK
  <1>3. \A f \in damaged : files'[f] = files[f]
    <2> SUFFICES ASSUME NEW f \in damaged, Prunable(f)
                 PROVE  FALSE
      BY DEF Prune, IInv, TypeOK
    <2>1. f \in File /\ files[f] \in {0, Bad}
      BY DEF IInv, TypeOK, DamagedGone
    <2>2. baseline # 0 /\ baseline \in DOMAIN Index /\ Index[baseline][f] # 0
      BY DEF Prunable, Claimed, IInv, TypeOK
    <2>3. Index[baseline][f] \in Nat
      BY <2>1, <2>2, ReleaseFacts
    <2>4. QED
      BY <2>1, <2>2, <2>3, InstallAssumption DEF Prunable
  <1>4. QED
    BY <1>1, <1>2, <1>3 DEF Prune, IInv, TypeOK, DamagedGone, At

LEMMA EnvironmentHolds ==
  IInv /\ ((\E f \in File, content \in {0, Bad} : Damage(f, content)) \/ PublishRelease) => IInv'
  <1> SUFFICES ASSUME IInv, (\E f \in File, content \in {0, Bad} : Damage(f, content))
                            \/ PublishRelease
               PROVE  IInv'
    OBVIOUS
  <1>1. ASSUME NEW f \in File, NEW content \in {0, Bad}, Damage(f, content)
        PROVE  IInv'
    BY <1>1, InstallAssumption DEF Damage, IInv, TypeOK, DamagedGone, At, Idle
  <1>2. CASE PublishRelease
    <2>1. live' \in ReleaseId
      BY <1>2, InstallAssumption DEF PublishRelease, IInv, TypeOK, ReleaseId
    <2>2. QED
      BY <1>2, <2>1 DEF PublishRelease, disk, IInv, TypeOK, DamagedGone, At
  <1>3. QED
    BY <1>1, <1>2

LEMMA NextHolds == IInv /\ [Next]_vars => IInv'
  <1> SUFFICES ASSUME IInv, [Next]_vars PROVE IInv'
    OBVIOUS
  <1>1. CASE Step
    BY <1>1, EnsureHolds, ApplyEntryHolds, ExtractHolds, DeliveredHolds, PlanPatchHolds,
       PatchStepsHold, ClosingStepsHold, PruneHolds DEF Step
  <1>2. CASE Command
    BY <1>2, InstallHolds, UpdateHolds, FinishUpdateHolds, PatchCommandsHold, VerifyHolds DEF Command
  <1>3. CASE Environment
    BY <1>3, ClosingStepsHold, EnvironmentHolds DEF Environment
  <1>4. CASE UNCHANGED vars
    BY <1>4 DEF vars, disk, IInv, TypeOK, DamagedGone, At
  <1>5. QED
    BY <1>1, <1>2, <1>3, <1>4 DEF Next

-----------------------------------------------------------------------------
(* A command writes what its release lists. *)

\* What a plan lists, the files a resource index claims and those a patch sends among it.
LEMMA ListedFacts ==
  ASSUME NEW r \in ReleaseId, NEW i \in {0} \cup DOMAIN Index
  PROVE  /\ Claimed(i) \subseteq Wanted(r, i)
         /\ \A p \in PatchPlans : p.to = r => Differs(p) \subseteq Wanted(r, i)
         /\ \A f \in Wanted(r, i) : Goal(r, i)[f] \in Nat \ {0}
  <1>1. \A f \in File : Goal(r, i)[f] = IF f \in Claimed(i) THEN Index[i][f] ELSE Manifest[M(r)][f]
    BY DEF Goal
  <1>2. \A f \in Claimed(i) : f \in File /\ Index[i][f] # 0
    BY DEF Claimed, File
  <1>3. ASSUME NEW p \in PatchPlans, p.to = r, NEW f \in Differs(p)
        PROVE  f \in Wanted(r, i)
    BY <1>1, <1>2, <1>3 DEF Differs, To, Wanted
  <1>4. QED
    BY <1>1, <1>2, <1>3, PlanFacts DEF Wanted

\* A command that does not go on to deliver, check or extract.
LEMMA PlannedOnward ==
  ASSUME IInv, Planned,
         cmd' = NoChange
           \/ /\ cmd # NoChange
              /\ cmd'.step \in Steps \ {"deliver", "check", "extract"}
              /\ cmd'.release = cmd.release /\ cmd'.resources = cmd.resources
              /\ cmd'.check = cmd.check
  PROVE  Planned'
  BY DEF Planned, Steps

\* Neither does anything else that leaves the command alone.
LEMMA PlannedIdle ==
  ASSUME IInv, Planned, cmd' = cmd, patch' = patch \/ cmd = NoChange
  PROVE  Planned'
  BY DEF Planned, Direct, Differs, From, To

\* What a command starts with.
LEMMA InstallStarts ==
  ASSUME NEW sync, NEW keep, Install(sync, keep)
  PROVE  LET i == IF sync THEN R(live) ELSE 0
         IN /\ cmd'.release = live /\ cmd'.resources = i /\ cmd'.check = Wanted(live, i)
            /\ \/ cmd'.step = "check" /\ cmd'.todo = Wanted(live, i)
               \/ cmd'.step = "deliver" /\ cmd'.todo \subseteq Wanted(live, i)
            /\ cmd'.weak = {} /\ cmd'.obsolete = NoChange /\ cmd'.vfs /\ cmd'.close = "metadata"
            /\ marker' = Change("Install", IF keep THEN "FullArchive" ELSE "Manifest", 0, live,
                                sync, i)
  <1> DEFINE i == IF sync THEN R(live) ELSE 0
             job == Job("install", live, i)
             T == IF keep THEN job.check ELSE job.check \ Claimed(i)
  <1>1. cmd' \in {[job EXCEPT !.todo = job.check], [job EXCEPT !.step = "deliver", !.todo = T]}
        /\ marker' = Change("Install", IF keep THEN "FullArchive" ELSE "Manifest", 0, live, sync, i)
    BY DEF Install, Started
  <1>2. T \subseteq job.check
    OBVIOUS
  <1> HIDE DEF i, T
  <1>3. CASE cmd' = [job EXCEPT !.todo = job.check]
    BY <1>1, <1>3 DEF Job, i
  <1>4. CASE cmd' = [job EXCEPT !.step = "deliver", !.todo = T]
    BY <1>1, <1>2, <1>4 DEF Job, i
  <1>5. QED
    BY <1>1, <1>3, <1>4

LEMMA FinishUpdateStarts ==
  ASSUME FinishUpdate
  PROVE  LET i == IF marker.sync THEN R(live) ELSE 0
         IN /\ cmd'.release = live /\ cmd'.resources = i /\ cmd'.check = Wanted(live, i)
            /\ cmd'.step = "check" /\ cmd'.todo = Wanted(live, i)
            /\ cmd'.weak = {} /\ cmd'.obsolete = NoChange /\ cmd'.vfs /\ cmd'.close = "metadata"
  <1> DEFINE i == IF marker.sync THEN R(live) ELSE 0
             job == Job("update", live, i)
  <1>1. cmd' = [job EXCEPT !.todo = job.check]
    BY DEF FinishUpdate
  <1> HIDE DEF i
  <1>2. QED
    BY <1>1 DEF Job, i

LEMMA UpdateStarts ==
  ASSUME NEW sync, NEW full, NEW defer \in BOOLEAN,
         NEW delivery \in {"FullArchive", "PatchArchive", "Manifest"},
         Update(sync, full, defer, delivery)
  PROVE  LET i == IF sync THEN R(live) ELSE 0
         IN /\ cmd'.release = live /\ cmd'.resources = i /\ cmd'.vfs
            /\ cmd'.close \in {"metadata", "deferred"}
            /\ \/ /\ delivery = "FullArchive"
                  /\ cmd'.step = "deliver" /\ cmd'.check = Wanted(live, i)
                  /\ cmd'.todo = cmd'.check /\ cmd'.weak = {} /\ cmd'.obsolete = NoChange
               \/ /\ delivery = "PatchArchive"
                  /\ cmd'.step = "plan" /\ cmd'.check = Wanted(live, i)
                  /\ cmd'.todo = {} /\ cmd'.weak = {} /\ cmd'.obsolete = NoChange
               \/ /\ delivery = "Manifest"
                  /\ cmd'.step = "deliver" /\ cmd'.check = Claimed(i)
                  /\ cmd'.todo = Wanted(live, i) \ Claimed(i)
                  /\ cmd'.weak = Unchanged(gameFiles, M(live)) /\ cmd'.obsolete = gameFiles
            /\ marker' = Change("Update", delivery, config, live, sync, i)
  <1> DEFINE i == IF sync THEN R(live) ELSE 0
             close == IF defer THEN "deferred" ELSE "metadata"
             job == [Job("update", live, i) EXCEPT !.close = close]
             listed == [job EXCEPT !.step = "deliver", !.todo = job.check \ Claimed(i),
                          !.weak = Unchanged(gameFiles, M(live)), !.check = Claimed(i),
                          !.obsolete = gameFiles]
  <1>1. /\ delivery = "FullArchive" => cmd' = [job EXCEPT !.step = "deliver", !.todo = job.check]
        /\ delivery = "PatchArchive" => cmd' = [job EXCEPT !.step = "plan"]
        /\ delivery = "Manifest" => cmd' = listed
        /\ marker' = Change("Update", delivery, config, live, sync, i)
    BY DEF Update, Started
  <1>2. close \in {"metadata", "deferred"}
    OBVIOUS
  <1> HIDE DEF i, close
  <1>3. job.check = Wanted(live, i)
    BY DEF Job
  <1>4. CASE delivery = "FullArchive"
    <2> DEFINE all == job.check
    <2>1. cmd' = [job EXCEPT !.step = "deliver", !.todo = all] /\ all = Wanted(live, i)
      BY <1>1, <1>3, <1>4
    <2> HIDE DEF all
    <2>2. QED
      BY <1>1, <1>2, <1>4, <2>1 DEF Job, i
  <1>5. CASE delivery = "PatchArchive"
    BY <1>1, <1>2, <1>5 DEF Job, i
  <1>6. CASE delivery = "Manifest"
    <2> DEFINE rest == job.check \ Claimed(i)
    <2>1. cmd' = listed /\ rest = Wanted(live, i) \ Claimed(i)
      BY <1>1, <1>3, <1>6
    <2> HIDE DEF rest
    <2>2. QED
      BY <1>1, <1>2, <1>6, <2>1 DEF Job, i
  <1>7. QED
    BY <1>4, <1>5, <1>6

LEMMA VerifyStarts ==
  ASSUME NEW scope \in Scopes, Verify(scope)
  PROVE  LET eff == EffectiveScope(scope, SyncOf(scope))
             i   == IF eff = "core" THEN 0 ELSE R(live)
         IN /\ eff \in {"all", "core", "resources"}
            /\ cmd'.release = live /\ cmd'.resources = i
            /\ cmd'.check = CASE eff = "all"       -> Wanted(live, i)
                              [] eff = "core"      -> Wanted(live, i) \cap Core
                              [] eff = "resources" -> Wanted(live, i) \cap Resource
            /\ cmd'.step = "check" /\ cmd'.todo = cmd'.check
            /\ cmd'.weak = {} /\ cmd'.obsolete = NoChange /\ cmd'.vfs = (eff # "core")
            /\ cmd'.close = IF eff = "resources" THEN "resources" ELSE "metadata"
            /\ owed' = IF eff = "resources" THEN owed ELSE owed \cup (damaged \cap cmd'.check)
            /\ IF marker = NoChange /\ eff = "resources" THEN marker' = NoChange
               ELSE marker' =
                 IF marker = NoChange
                 THEN [Change("Repair", "Repair", config, live, SyncOf(scope), i)
                         EXCEPT !.to = config]
                 ELSE IF Superseded
                 THEN Change("Update", "Repair", marker.to, live, SyncOf(scope), i)
                 ELSE marker
  <1> DEFINE eff == EffectiveScope(scope, SyncOf(scope))
             i == IF eff = "core" THEN 0 ELSE R(live)
             read == CASE eff = "all"       -> Wanted(live, i)
                       [] eff = "core"      -> Wanted(live, i) \cap Core
                       [] eff = "resources" -> Wanted(live, i) \cap Resource
             close == IF eff = "resources" THEN "resources" ELSE "metadata"
             c == IF marker = NoChange
                  THEN [Change("Repair", "Repair", config, live, SyncOf(scope), i)
                          EXCEPT !.to = config]
                  ELSE IF Superseded
                  THEN Change("Update", "Repair", marker.to, live, SyncOf(scope), i)
                  ELSE marker
  <1>1. /\ cmd' = [Job("verify", live, i) EXCEPT !.check = read, !.todo = read,
                     !.vfs = (eff # "core"), !.close = close]
        /\ owed' = IF eff = "resources" THEN owed ELSE owed \cup (damaged \cap read)
        /\ IF marker = NoChange /\ eff = "resources" THEN marker' = NoChange ELSE marker' = c
    BY DEF Verify, Started
  <1>2. eff \in {"all", "core", "resources"}
    BY InstallAssumption DEF EffectiveScope
  <1> HIDE DEF eff, i, read, close, c
  <1>3. /\ cmd'.release = live /\ cmd'.resources = i /\ cmd'.check = read
        /\ cmd'.step = "check" /\ cmd'.todo = cmd'.check
        /\ cmd'.weak = {} /\ cmd'.obsolete = NoChange /\ cmd'.vfs = (eff # "core")
        /\ cmd'.close = close
    BY <1>1 DEF Job
  <1>4. QED
    BY <1>1, <1>2, <1>3 DEF eff, i, read, close, c

LEMMA CommandsPlanned == IInv /\ Command => Planned'
  <1> SUFFICES ASSUME IInv, Command PROVE Planned'
    OBVIOUS
  <1>1. live \in ReleaseId
    BY DEF IInv, TypeOK
  <1>2. ASSUME NEW i, NEW r,
               cmd'.release = r, cmd'.resources = i, cmd'.check \subseteq Wanted(r, i),
               cmd'.todo \subseteq Wanted(r, i), cmd'.step # "extract"
        PROVE  Planned'
    BY <1>2 DEF Planned
  <1>3. ASSUME NEW sync \in Policies, NEW keep \in BOOLEAN, Install(sync, keep)
        PROVE  Planned'
    <2> DEFINE i == IF sync THEN R(live) ELSE 0
    <2>1. /\ cmd'.release = live /\ cmd'.resources = i /\ cmd'.check = Wanted(live, i)
          /\ cmd'.todo \subseteq Wanted(live, i) /\ cmd'.step \in {"check", "deliver"}
      BY <1>3, InstallStarts
    <2> HIDE DEF i
    <2>2. QED
      BY <1>2, <2>1
  <1>4. ASSUME NEW sync \in Policies, NEW full \in BOOLEAN, NEW defer \in BOOLEAN,
               NEW delivery \in {"FullArchive", "PatchArchive", "Manifest"},
               Update(sync, full, defer, delivery)
        PROVE  Planned'
    <2> DEFINE i == IF sync THEN R(live) ELSE 0
    <2>1. /\ cmd'.release = live /\ cmd'.resources = i
          /\ cmd'.check \in {Wanted(live, i), Claimed(i)}
          /\ cmd'.todo \subseteq Wanted(live, i) /\ cmd'.step \in {"plan", "deliver"}
      BY <1>4, UpdateStarts
    <2>2. Claimed(i) \subseteq Wanted(live, i)
      BY <1>1, ReleaseFacts, ListedFacts
    <2> HIDE DEF i
    <2>3. QED
      BY <1>2, <2>1, <2>2
  <1>5. CASE FinishUpdate
    <2> DEFINE i == IF marker.sync THEN R(live) ELSE 0
    <2>1. /\ cmd'.release = live /\ cmd'.resources = i /\ cmd'.check = Wanted(live, i)
          /\ cmd'.todo = Wanted(live, i) /\ cmd'.step = "check"
      BY <1>5, FinishUpdateStarts
    <2> HIDE DEF i
    <2>2. QED
      BY <1>2, <2>1
  <1>6. CASE ResumePatch
    <2>1. cmd' = [Job("resume", patch.to, 0) EXCEPT !.step = "prepare"]
      BY <1>6 DEF ResumePatch
    <2>2. QED
      BY <1>2, <2>1 DEF Job
  <1>7. CASE DiscardPatch
    BY <1>7 DEF DiscardPatch, Idle, Planned
  <1>8. ASSUME NEW scope \in Scopes, Verify(scope)
        PROVE  Planned'
    <2> DEFINE eff == EffectiveScope(scope, SyncOf(scope))
               i == IF eff = "core" THEN 0 ELSE R(live)
    <2>1. /\ cmd'.release = live /\ cmd'.resources = i
          /\ cmd'.check \subseteq Wanted(live, i)
          /\ cmd'.todo = cmd'.check /\ cmd'.step = "check"
      BY <1>8, VerifyStarts
    <2> HIDE DEF i
    <2>2. QED
      BY <1>2, <2>1
  <1>9. QED
    BY <1>3, <1>4, <1>5, <1>6, <1>7, <1>8 DEF Command

LEMMA StepsPlanned == IInv /\ Planned /\ Step => Planned'
  <1> SUFFICES ASSUME IInv, Planned, Step PROVE Planned'
    OBVIOUS
  <1>1. cmd = NoChange \/ /\ cmd \in Jobs /\ cmd.release \in ReleaseId
                          /\ cmd.resources \in {0} \cup DOMAIN Index
    BY DEF IInv, TypeOK, Jobs
  <1>2. ASSUME NEW s \in Steps \ {"deliver", "check", "extract"}, cmd # NoChange, Go(s, {})
        PROVE  Planned'
    <2>1. /\ cmd'.step = s /\ cmd'.release = cmd.release /\ cmd'.resources = cmd.resources
          /\ cmd'.check = cmd.check
      BY <1>1, <1>2 DEF Go, Jobs
    <2>2. QED
      BY <1>2, <2>1, PlannedOnward
  <1>3. ASSUME NEW x, cmd # NoChange, cmd' = [cmd EXCEPT !.todo = @ \ {x}],
               patch' = patch \/ cmd.step # "extract"
        PROVE  Planned'
    <2>1. /\ cmd'.step = cmd.step /\ cmd'.release = cmd.release /\ cmd'.resources = cmd.resources
          /\ cmd'.check = cmd.check /\ cmd'.todo \subseteq cmd.todo
      BY <1>1, <1>3 DEF Jobs
    <2>2. Direct(patch)' = Direct(patch) \/ cmd.step # "extract"
      BY <1>3 DEF Direct, Differs, From, To
    <2>3. QED
      BY <1>3, <2>1, <2>2 DEF Planned
  <1>4. ASSUME NEW f \in File, Ensure(f) \/ ApplyEntry(f)
        PROVE  Planned'
    BY <1>3, <1>4 DEF Ensure, ApplyEntry, At
  <1>5. ASSUME NEW x \in File \cup {"config.ini"}, Extract(x)
        PROVE  Planned'
    <2>1. cmd # NoChange /\ cmd.step = "extract" /\ patch \in PatchPlans
      BY <1>5 DEF Extract, At, IInv, TypeOK
    <2>2. cmd' = [cmd EXCEPT !.todo = @ \ {x}]
      BY <1>5 DEF Extract
    <2>3. /\ cmd'.step = "extract" /\ cmd'.release = cmd.release
          /\ cmd'.resources = cmd.resources
          /\ cmd'.check = cmd.check /\ cmd'.todo \subseteq cmd.todo
      BY <1>1, <2>1, <2>2 DEF Jobs
    <2>4. patch'.from = patch.from /\ patch'.to = patch.to
      BY <1>5, <2>1 DEF Extract, PatchPlans
    <2>5. Direct(patch)' = Direct(patch)
      BY <2>4 DEF Direct, Differs, From, To
    <2>6. QED
      BY <2>1, <2>3, <2>5 DEF Planned
  <1>6. CASE Delivered
    <2>1. /\ cmd # NoChange
          /\ cmd' = IF live # cmd.release THEN NoChange
                    ELSE [cmd EXCEPT !.step = "check", !.weak = {},
                            !.todo = IF cmd.close = "deferred" THEN Claimed(cmd.resources)
                                     ELSE cmd.check]
      BY <1>6 DEF Delivered, At
    <2> DEFINE T == IF cmd.close = "deferred" THEN Claimed(cmd.resources) ELSE cmd.check
    <2>2. T \subseteq Wanted(cmd.release, cmd.resources)
      BY <1>1, <2>1, ListedFacts DEF Planned
    <2> HIDE DEF T
    <2>3. CASE live = cmd.release
      <3>1. cmd' = [cmd EXCEPT !.step = "check", !.weak = {}, !.todo = T]
        BY <2>1, <2>3 DEF T
      <3>2. /\ cmd'.step = "check" /\ cmd'.release = cmd.release
            /\ cmd'.resources = cmd.resources /\ cmd'.check = cmd.check /\ cmd'.todo = T
        BY <1>1, <2>1, <3>1 DEF Jobs
      <3>3. QED
        BY <2>1, <2>2, <3>2 DEF Planned
    <2>4. QED
      BY <2>1, <2>3, PlannedOnward
  <1>7. CASE PlanPatch
    <2>1. PICK from \in PatchBases(cmd.release) :
            /\ patch' = Plan(from)
            /\ cmd' = [cmd EXCEPT !.step = "extract",
                         !.check = Differs(Plan(from)) \cup Claimed(cmd.resources),
                         !.todo = Direct(Plan(from)) \cup NewEntries(Plan(from))
                                  \cup IF PatchConfig THEN {"config.ini"} ELSE {}]
      BY <1>7 DEF PlanPatch
    <2> DEFINE p == Plan(from)
               T == Direct(p) \cup NewEntries(p) \cup IF PatchConfig THEN {"config.ini"} ELSE {}
    <2>2. cmd # NoChange /\ p \in PatchPlans /\ p.to = cmd.release
      BY <1>1, <1>7 DEF PlanPatch, At, Plan, PatchPlans, PatchBases
    <2> HIDE DEF p
    <2>3. Differs(p) \cup Claimed(cmd.resources) \subseteq Wanted(cmd.release, cmd.resources)
      BY <1>1, <2>2, ListedFacts
    <2>4. T \cap Core \subseteq Direct(p)
      BY InstallAssumption DEF NewEntries, Entries, File
    <2> HIDE DEF T
    <2>5. /\ cmd'.step = "extract" /\ cmd'.release = cmd.release
          /\ cmd'.resources = cmd.resources
          /\ cmd'.check = Differs(p) \cup Claimed(cmd.resources) /\ cmd'.todo = T
      BY <1>1, <2>1, <2>2 DEF Jobs, p, T
    <2>6. Direct(patch)' = Direct(p)
      BY <2>1 DEF Direct, Differs, From, To, p
    <2>7. QED
      BY <2>3, <2>4, <2>5, <2>6 DEF Planned
  <1>8. CASE PreparePatch
    <2>1. /\ cmd # NoChange /\ cmd'.step = "apply" /\ cmd'.release = cmd.release
          /\ cmd'.resources = cmd.resources /\ cmd'.check = cmd.check
      BY <1>1, <1>8 DEF PreparePatch, At, Go, Jobs
    <2>2. QED
      BY <2>1, PlannedOnward DEF Steps
  <1>9. CASE CleanPatch
    <2>1. cmd # NoChange /\ (cmd' = NoChange \/ Go("deliver", {}))
      BY <1>9 DEF CleanPatch, At
    <2>2. CASE Go("deliver", {})
      <3>1. /\ cmd'.step = "deliver" /\ cmd'.release = cmd.release
            /\ cmd'.resources = cmd.resources /\ cmd'.check = cmd.check /\ cmd'.todo = {}
        BY <1>1, <2>1, <2>2 DEF Go, Jobs
      <3>2. QED
        BY <2>1, <3>1 DEF Planned
    <2>3. QED
      BY <2>1, <2>2, PlannedOnward
  <1>10. CASE Checked \/ RemovePending
    <2>1. cmd # NoChange /\ (cmd' = NoChange \/ Go("baseline", {}) \/ Go("metadata", {}))
      BY <1>10 DEF Checked, RemovePending, AfterBaseline, At
    <2>2. QED
      BY <1>2, <2>1, PlannedOnward DEF Steps
  <1>11. CASE Extracted \/ ApplyDeletes \/ CommitDeferred \/ Revoke \/ MakePending \/ Prune
              \/ Publish \/ SyncGameFiles \/ SyncConfig
    <2>1. cmd # NoChange
          /\ \E s \in Steps \ {"deliver", "check", "extract"} : Go(s, {})
      BY <1>11 DEF Extracted, ApplyDeletes, CommitDeferred, Revoke, MakePending, Prune, Publish,
                  SyncGameFiles, SyncConfig, At, Steps
    <2>2. QED
      BY <1>2, <2>1
  <1>12. CASE FinishChange \/ Fail
    BY <1>12 DEF FinishChange, Fail, Planned
  <1>13. QED
    BY <1>4, <1>5, <1>6, <1>7, <1>8, <1>9, <1>10, <1>11, <1>12 DEF Step

LEMMA NextPlanned == IInv /\ Planned /\ [Next]_vars => Planned'
  <1> SUFFICES ASSUME IInv, Planned, [Next]_vars PROVE Planned'
    OBVIOUS
  <1>1. CASE Environment
    <2>1. cmd' = NoChange \/ (cmd' = cmd /\ patch' = patch)
      BY <1>1 DEF Environment, Crash, Damage, PublishRelease, disk
    <2>2. QED
      BY <2>1, PlannedIdle, PlannedOnward
  <1>2. CASE UNCHANGED vars
    BY <1>2, PlannedIdle DEF vars, disk
  <1>3. QED
    BY <1>1, <1>2, StepsPlanned, CommandsPlanned DEF Next

LEMMA SpecInvariant == Spec => [](IInv /\ Planned)
  <1>1. Init => IInv /\ Planned
    BY InitHolds DEF Init, Planned
  <1>2. QED
    BY <1>1, NextHolds, NextPlanned, PTL DEF Spec

\* Only the delete list of a patch removes a file the user modified.
LEMMA DamagedStays ==
  IInv /\ Planned /\ [Next]_vars =>
    \A f \in damaged : files[f] # 0 /\ files'[f] = 0 => At("prepare") \/ At("apply")
  <1> SUFFICES ASSUME IInv, Planned, [Next]_vars, NEW f \in damaged, files[f] # 0, files'[f] = 0,
                      ~At("prepare"), ~At("apply")
               PROVE  FALSE
    OBVIOUS
  <1>1. f \in File /\ files[f] = Bad /\ files \in [File -> Nat \cup {Bad}]
    BY DEF IInv, TypeOK, DamagedGone
  <1>2. ASSUME NEW g \in File, NEW content \in Nat \ {0}, Write(g, content)
        PROVE  FALSE
    BY <1>1, <1>2 DEF Write
  <1>3. ASSUME NEW g \in File, Ensure(g)
        PROVE  FALSE
    <2>1. Write(g, Goal(cmd.release, cmd.resources)[g])
      BY <1>3 DEF Ensure
    <2>2. g \in Wanted(cmd.release, cmd.resources)
      BY <1>3 DEF Ensure, At, Planned
    <2>3. cmd.release \in ReleaseId /\ cmd.resources \in {0} \cup DOMAIN Index
      BY <1>3 DEF Ensure, At, IInv, TypeOK, Jobs
    <2>4. QED
      BY <1>2, <2>1, <2>2, <2>3, ListedFacts
  <1>4. ASSUME NEW x \in File \cup {"config.ini"}, Extract(x)
        PROVE  FALSE
    <2>1. x \in Core /\ Write(x, To(patch)[x])
      BY <1>4 DEF Extract
    <2>2. x \in Direct(patch) /\ patch \in PatchPlans
      BY <1>4, <2>1 DEF Extract, At, Planned, IInv, TypeOK
    <2>3. To(patch)[x] \in Nat \ {0} /\ x \in File
      BY <2>2, PatchFacts DEF Direct, Differs
    <2>4. QED
      BY <1>2, <2>1, <2>3
  <1>5. CASE Delivered \/ Prune
    BY <1>5, DeliveredHolds, PruneHolds
  <1>6. ASSUME NEW g \in File, NEW content \in {0, Bad}, Damage(g, content)
        PROVE  FALSE
    BY <1>1, <1>6 DEF Damage
  <1>7. CASE \E sync \in Policies, keep \in BOOLEAN : Install(sync, keep)
    BY <1>7 DEF Install
  <1>8. CASE \E sync \in Policies, full \in BOOLEAN, defer \in {d \in BOOLEAN : d => MayDefer},
               delivery \in {"FullArchive", "PatchArchive", "Manifest"} :
               Update(sync, full, defer, delivery)
    BY <1>8 DEF Update
  <1>9. CASE \E scope \in Scopes : Verify(scope)
    BY <1>9 DEF Verify
  <1>10. ASSUME NEW g \in File, ApplyEntry(g)
         PROVE  FALSE
    BY <1>10 DEF ApplyEntry
  <1>11. CASE UNCHANGED files
    BY <1>11
  <1>12. CASE Step
    BY <1>3, <1>4, <1>5, <1>10, <1>11, <1>12
       DEF Step, PlanPatch, Extracted, PreparePatch, ApplyDeletes, CommitDeferred, CleanPatch,
           Checked, Revoke, MakePending, Publish, RemovePending, SyncGameFiles, SyncConfig,
           FinishChange, Fail, disk
  <1>13. CASE Command
    BY <1>7, <1>8, <1>9, <1>11, <1>13 DEF Command, FinishUpdate, ResumePatch, DiscardPatch, disk
  <1>14. CASE Environment
    BY <1>6, <1>11, <1>14 DEF Environment, Crash, PublishRelease, disk
  <1>15. QED
    BY <1>11, <1>12, <1>13, <1>14 DEF Next, vars, disk

-----------------------------------------------------------------------------
(* A repair is not forgotten. *)

\* One release is all there is.
LEMMA OnlyRelease ==
  ASSUME RepairScopes, IInv, OneTarget
  PROVE  /\ ReleaseId = {1} /\ live = 1
         /\ V(1) \in Nat \ {0} /\ R(1) \in {0} \cup DOMAIN Index
         /\ config # 0 => config = V(live)
         /\ ~Superseded
  <1>1. ReleaseId = {1}
    BY DEF RepairScopes, ReleaseId
  <1>2. QED
    BY <1>1, ReleaseFacts DEF OneTarget, Superseded

LEMMA RepairInstall ==
  ASSUME RepairScopes, IInv, OneTarget, OwedCovered,
         NEW sync \in Policies, NEW keep \in BOOLEAN, Install(sync, keep)
  PROVE  OneTarget' /\ OwedCovered'
  <1> DEFINE i == IF sync THEN R(1) ELSE 0
             kind == IF keep THEN "FullArchive" ELSE "Manifest"
             c == Change("Install", kind, 0, 1, sync, i)
  <1>1. live = 1 /\ sync \in BOOLEAN /\ UNCHANGED <<live, config, patch, owed>> /\ MayStart(c)
    BY InstallAssumption, OnlyRelease DEF Install, Started
  <1>2. /\ cmd'.release = 1 /\ cmd'.check = Wanted(1, i)
        /\ \/ cmd'.step = "check" /\ cmd'.todo = Wanted(1, i)
           \/ cmd'.step = "deliver"
        /\ cmd'.weak = {} /\ cmd'.close = "metadata" /\ marker' = c
    BY <1>1, InstallStarts
  <1>3. kind \in {"FullArchive", "PatchArchive", "Manifest", "Repair"}
        /\ i \in {0} \cup DOMAIN Index /\ 1 \in ReleaseId
    BY ReleaseFacts
  <1> HIDE DEF kind
  <1>4. c.to = V(1) /\ c.sync = sync /\ c.resources = i
    BY DEF Change
  <1>5. c # NoChange
    <2> HIDE DEF i
    <2>1. c \in Changes
      BY <1>1, <1>3, ChangeType
    <2>2. QED
      BY <2>1, NoChangeAssumption
  <1>6. "all" \in Scopes => sync
    BY <1>1 DEF RepairScopes
  <1> HIDE DEF c
  <1>7. marker # NoChange => marker.sync = sync
    BY <1>1, <1>4 DEF MayStart, CanAdvance, OneTarget
  <1>8. owed' \subseteq Covered' /\ Covered' \subseteq Wanted(1, i)
    <2>1. Covered' = IF sync THEN Wanted(1, R(1)) ELSE Wanted(1, 0) \cap Core
      BY <1>2, <1>4 DEF Covered
    <2>2. owed \subseteq Covered' \/ owed = {}
      BY <1>7, <2>1 DEF OwedCovered, Covered
    <2>3. QED
      BY <1>1, <2>1, <2>2
  <1>9. OneTarget'
    BY <1>1, <1>2, <1>4, <1>6 DEF OneTarget
  <1> HIDE DEF i
  <1>10. OwedCovered'
    BY <1>2, <1>5, <1>8 DEF OwedCovered
  <1>11. QED
    BY <1>9, <1>10

LEMMA RepairFinishUpdate ==
  ASSUME RepairScopes, IInv, OneTarget, OwedCovered, FinishUpdate
  PROVE  OneTarget' /\ OwedCovered'
  <1> DEFINE i == IF marker.sync THEN R(1) ELSE 0
  <1>1. live = 1 /\ marker # NoChange /\ UNCHANGED <<live, config, patch, owed, marker>>
    BY OnlyRelease DEF FinishUpdate, disk
  <1>2. /\ cmd'.release = 1 /\ cmd'.check = Wanted(1, i)
        /\ cmd'.step = "check" /\ cmd'.todo = Wanted(1, i)
        /\ cmd'.weak = {} /\ cmd'.close = "metadata"
    BY <1>1, FinishUpdateStarts
  <1>3. Covered' = Covered /\ Covered \subseteq Wanted(1, i)
    BY <1>1 DEF Covered
  <1> HIDE DEF i
  <1>4. QED
    BY <1>1, <1>2, <1>3 DEF OneTarget, OwedCovered

LEMMA RepairVerify ==
  ASSUME RepairScopes, IInv, OneTarget, OwedCovered, NEW scope \in Scopes, Verify(scope)
  PROVE  OneTarget' /\ OwedCovered'
  <1> DEFINE sync == SyncOf(scope)
             eff == EffectiveScope(scope, sync)
             i == IF eff = "core" THEN 0 ELSE R(1)
             c == [Change("Repair", "Repair", config, 1, sync, i) EXCEPT !.to = config]
             read == CASE eff = "all"       -> Wanted(1, i)
                       [] eff = "core"      -> Wanted(1, i) \cap Core
                       [] eff = "resources" -> Wanted(1, i) \cap Resource
  <1>1. /\ live = 1 /\ config = V(1) /\ ~Superseded /\ UNCHANGED <<live, config, patch>>
        /\ V(1) \in Nat
    BY OnlyRelease DEF Verify
  <1>2. /\ eff \in {"all", "core", "resources"}
        /\ cmd'.release = 1 /\ cmd'.check = read /\ cmd'.step = "check" /\ cmd'.todo = cmd'.check
        /\ cmd'.weak = {} /\ cmd'.close = IF eff = "resources" THEN "resources" ELSE "metadata"
        /\ owed' = IF eff = "resources" THEN owed ELSE owed \cup (damaged \cap cmd'.check)
        /\ marker' = IF marker # NoChange THEN marker
                     ELSE IF eff = "resources" THEN NoChange ELSE c
    BY <1>1, VerifyStarts
  <1>3. scope \in {"default", "all", "core", "resources"}
    BY InstallAssumption
  <1>4. eff = "all" => sync
    <2>1. CASE marker = NoChange
      BY <1>2, <1>3, <2>1 DEF SyncOf, EffectiveScope
    <2>2. CASE marker # NoChange
      BY <1>1, <1>2, <1>3, <2>2 DEF SyncOf, EffectiveScope, OneTarget
    <2>3. QED
      BY <2>1, <2>2
  <1>5. eff = "core" => ~sync
    <2>1. CASE marker = NoChange
      BY <1>2, <1>3, <2>1 DEF SyncOf, EffectiveScope
    <2>2. CASE marker # NoChange
      BY <1>1, <1>2, <1>3, <2>2 DEF SyncOf, EffectiveScope
    <2>3. QED
      BY <2>1, <2>2
  <1>6. /\ c.to = config /\ c.sync = sync /\ c.resources = i
        /\ c \in Changes /\ c # NoChange
    <2>1. config \in Nat /\ sync \in BOOLEAN /\ i \in {0} \cup DOMAIN Index
      BY <1>1, ReleaseFacts DEF SyncOf, IInv, TypeOK, Changes
    <2> HIDE DEF i, sync
    <2>2. Change("Repair", "Repair", config, 1, sync, i) \in Changes
      BY <2>1, ReleaseFacts, ChangeType
    <2>3. c \in Changes
      BY <2>1, <2>2 DEF Changes
    <2>4. c.to = config /\ c.sync = sync /\ c.resources = i
      BY DEF Change
    <2>5. QED
      BY <2>3, <2>4, NoChangeAssumption
  <1>7. marker # NoChange => marker.sync = sync
    BY <1>1 DEF SyncOf
  <1>8. marker = NoChange /\ eff # "resources" => ("all" \in Scopes => sync)
    BY <1>2, <1>3 DEF RepairScopes, SyncOf
  <1>9. eff # "resources" =>
          /\ read = IF sync THEN Wanted(1, R(1)) ELSE Wanted(1, 0) \cap Core
          /\ i = IF sync THEN R(1) ELSE 0
    BY <1>2, <1>4, <1>5
  <1> HIDE DEF sync, eff, i, c, read
  <1>10. OneTarget'
    BY <1>1, <1>2, <1>6, <1>8, <1>9 DEF OneTarget
  <1>11. CASE eff = "resources"
    <2>1. marker' = marker /\ owed' = owed /\ cmd'.close = "resources"
      BY <1>2, <1>11
    <2>2. Covered' = Covered
      BY <2>1 DEF Covered
    <2>3. QED
      BY <1>2, <1>10, <2>1, <2>2 DEF OwedCovered
  <1>12. CASE eff # "resources"
    <2>1. marker'.sync = sync /\ marker' # NoChange /\ owed' = owed \cup (damaged \cap read)
          /\ cmd'.close = "metadata"
      BY <1>2, <1>6, <1>7, <1>12
    <2>2. Covered' = read
      BY <1>9, <1>12, <2>1 DEF Covered
    <2>3. owed \subseteq read
      BY <1>7, <1>9, <1>12 DEF OwedCovered, Covered
    <2>4. QED
      BY <1>2, <1>10, <2>1, <2>2, <2>3 DEF OwedCovered
  <1>13. QED
    BY <1>11, <1>12

LEMMA RepairEnsure ==
  ASSUME RepairScopes, IInv, Planned, OneTarget, OwedCovered, NEW f \in File, Ensure(f)
  PROVE  OneTarget' /\ OwedCovered'
  <1>1. /\ cmd \in Jobs /\ cmd # NoChange /\ cmd.step \in {"deliver", "check"} /\ f \in cmd.todo
        /\ UNCHANGED <<live, config, gameFiles, marker, patch>>
        /\ cmd' = [cmd EXCEPT !.todo = @ \ {f}]
    BY DEF Ensure, At, IInv, TypeOK
  <1>2. /\ cmd'.step = cmd.step /\ cmd'.release = cmd.release /\ cmd'.check = cmd.check
        /\ cmd'.weak = cmd.weak /\ cmd'.close = cmd.close /\ cmd'.todo = cmd.todo \ {f}
    BY <1>1 DEF Jobs
  <1>3. owed' \subseteq owed \ {f}
    <2>1. CASE Intact(f)
      <3>1. files[f] = Goal(cmd.release, cmd.resources)[f]
        BY <1>1, <2>1 DEF Intact, OwedCovered
      <3>2. files[f] \in Nat \ {0}
        <4>1. cmd.release \in ReleaseId /\ cmd.resources \in {0} \cup DOMAIN Index
          BY <1>1 DEF Jobs
        <4>2. f \in Wanted(cmd.release, cmd.resources)
          BY <1>1 DEF Planned
        <4>3. QED
          BY <3>1, <4>1, <4>2, ListedFacts
      <3>3. f \notin damaged
        BY <3>2, InstallAssumption DEF IInv, DamagedGone
      <3>4. QED
        BY <2>1, <3>3 DEF Ensure, IInv, TypeOK
    <2>2. CASE ~Intact(f)
      BY <2>2 DEF Ensure, Write
    <2>3. QED
      BY <2>1, <2>2
  <1>4. Covered' = Covered
    BY <1>1 DEF Covered
  <1>5. OneTarget'
    BY <1>1, <1>2 DEF OneTarget
  <1>6. OwedCovered'
    BY <1>1, <1>2, <1>3, <1>4 DEF OwedCovered
  <1>7. QED
    BY <1>5, <1>6

LEMMA RepairSteps ==
  ASSUME RepairScopes, IInv, Planned, OneTarget, OwedCovered, Step
  PROVE  OneTarget' /\ OwedCovered'
  <1>1. cmd = NoChange \/ cmd \in Jobs
    BY DEF IInv, TypeOK
  <1>2. ASSUME NEW f \in File, ApplyEntry(f)
        PROVE  FALSE
    BY <1>2 DEF ApplyEntry, At, OwedCovered
  <1>3. ASSUME NEW x, Extract(x)
        PROVE  FALSE
    BY <1>3 DEF Extract, At, OwedCovered
  <1>4. ~(PlanPatch \/ Extracted \/ PreparePatch \/ ApplyDeletes \/ CommitDeferred \/ CleanPatch)
    BY DEF PlanPatch, Extracted, PreparePatch, ApplyDeletes, CommitDeferred, CleanPatch, At,
           OwedCovered
  <1>5. ASSUME UNCHANGED <<live, config, marker, patch, owed>>, cmd # NoChange,
               \/ cmd' = NoChange
               \/ \E s \in {"baseline", "unpend", "prune", "publish"} :
                     Go(s, {}) /\ (cmd.close = "metadata" => owed = {})
               \/ \E s \in {"metadata", "config"} :
                     Go(s, {}) /\ cmd.close = "metadata" /\ owed = {}
        PROVE  OneTarget' /\ OwedCovered'
    <2>1. Covered' = Covered
      BY <1>5 DEF Covered
    <2>2. CASE cmd' = NoChange
      BY <1>5, <2>1, <2>2 DEF OneTarget, OwedCovered
    <2>3. ASSUME NEW s, Go(s, {})
          PROVE  /\ cmd'.step = s /\ cmd'.release = cmd.release /\ cmd'.check = cmd.check
                 /\ cmd'.weak = cmd.weak /\ cmd'.close = cmd.close
      BY <1>1, <1>5, <2>3 DEF Go, Jobs
    <2>4. CASE \E s \in {"baseline", "unpend", "prune", "publish"} :
                 Go(s, {}) /\ (cmd.close = "metadata" => owed = {})
      BY <1>5, <2>1, <2>3, <2>4 DEF OneTarget, OwedCovered
    <2>5. CASE \E s \in {"metadata", "config"} :
                 Go(s, {}) /\ cmd.close = "metadata" /\ owed = {}
      BY <1>5, <2>1, <2>3, <2>5 DEF OneTarget, OwedCovered
    <2>6. QED
      BY <1>5, <2>2, <2>4, <2>5
  <1>6. CASE Delivered
    <2>1. UNCHANGED <<live, config, marker, patch, owed>> /\ cmd # NoChange /\ cmd.step = "deliver"
      BY <1>6 DEF Delivered, At
    <2>2. cmd' = NoChange
          \/ cmd' = [cmd EXCEPT !.step = "check", !.weak = {}, !.todo = cmd.check]
      BY <1>6, <2>1 DEF Delivered, OwedCovered
    <2>3. CASE cmd' = [cmd EXCEPT !.step = "check", !.weak = {}, !.todo = cmd.check]
      <3>1. /\ cmd'.step = "check" /\ cmd'.release = cmd.release /\ cmd'.check = cmd.check
            /\ cmd'.weak = {} /\ cmd'.close = cmd.close /\ cmd'.todo = cmd.check
        BY <1>1, <2>1, <2>3 DEF Jobs
      <3>2. Covered' = Covered
        BY <2>1 DEF Covered
      <3>3. QED
        BY <2>1, <3>1, <3>2 DEF OneTarget, OwedCovered
    <2>4. QED
      BY <1>5, <2>1, <2>2, <2>3
  <1>7. CASE Checked
    <2>1. cmd # NoChange /\ cmd.step = "check" /\ cmd.todo = {}
          /\ UNCHANGED <<live, config, marker, patch, owed>>
      BY <1>7 DEF Checked, At, disk
    <2>2. cmd.close = "metadata" => owed = {}
      BY <2>1 DEF OwedCovered
    <2>3. Go("baseline", {}) \/ (cmd.close = "metadata" /\ Go("metadata", {})) \/ cmd' = NoChange
      BY <1>7 DEF Checked, AfterBaseline
    <2>4. QED
      BY <1>5, <2>1, <2>2, <2>3
  <1>8. CASE Revoke \/ MakePending \/ Prune \/ Publish
    <2>1. /\ cmd # NoChange /\ cmd.step \notin {"deliver", "check"}
          /\ UNCHANGED <<live, config, marker, patch, owed>>
          /\ \E s \in {"baseline", "unpend", "prune", "publish"} : Go(s, {})
      BY <1>8 DEF Revoke, MakePending, Prune, Publish, At
    <2>2. cmd.close = "metadata" => owed = {}
      BY <2>1 DEF OwedCovered
    <2>3. QED
      BY <1>5, <2>1, <2>2
  <1>9. CASE RemovePending
    <2>1. /\ cmd # NoChange /\ cmd.step = "unpend"
          /\ UNCHANGED <<live, config, marker, patch, owed>>
          /\ (cmd.close = "metadata" /\ Go("metadata", {})) \/ cmd' = NoChange
      BY <1>9 DEF RemovePending, AfterBaseline, At
    <2>2. cmd.close = "metadata" => owed = {}
      BY <2>1 DEF OwedCovered
    <2>3. QED
      BY <1>5, <2>1, <2>2
  <1>10. CASE SyncGameFiles
    <2>1. /\ cmd # NoChange /\ cmd.step = "metadata" /\ Go("config", {})
          /\ UNCHANGED <<live, config, marker, patch, owed>>
      BY <1>10 DEF SyncGameFiles, At
    <2>2. cmd.close = "metadata" /\ owed = {}
      BY <2>1 DEF OwedCovered
    <2>3. QED
      BY <1>5, <2>1, <2>2
  <1>11. CASE SyncConfig
    <2>1. /\ cmd # NoChange /\ cmd.step = "config" /\ Go("finish", {}) /\ config' = V(cmd.release)
          /\ UNCHANGED <<live, marker, patch, owed>>
      BY <1>11 DEF SyncConfig, At
    <2>2. cmd.close = "metadata" /\ owed = {} /\ cmd.release = 1
      BY <2>1 DEF OwedCovered, OneTarget
    <2>3. /\ cmd'.step = "finish" /\ cmd'.release = 1 /\ cmd'.weak = cmd.weak
          /\ cmd'.close = cmd.close
      BY <1>1, <2>1, <2>2 DEF Go, Jobs
    <2>4. Covered' = Covered
      BY <2>1 DEF Covered
    <2>5. QED
      BY <2>1, <2>2, <2>3, <2>4 DEF OneTarget, OwedCovered
  <1>12. CASE FinishChange
    <2>1. /\ cmd # NoChange /\ cmd.step = "finish" /\ cmd' = NoChange /\ marker' = NoChange
          /\ UNCHANGED <<live, config, patch, owed>>
      BY <1>12 DEF FinishChange, At
    <2>2. owed = {}
      BY <2>1 DEF OwedCovered
    <2>3. QED
      BY <2>1, <2>2 DEF OneTarget, OwedCovered
  <1>13. CASE Fail
    <2>1. cmd # NoChange /\ cmd' = NoChange /\ UNCHANGED <<live, config, marker, patch, owed>>
      BY <1>13 DEF Fail, Refused, At, disk
    <2>2. QED
      BY <1>5, <2>1
  <1>14. QED
    BY <1>2, <1>3, <1>4, <1>6, <1>7, <1>8, <1>9, <1>10, <1>11, <1>12, <1>13, RepairEnsure DEF Step

LEMMA RepairNext ==
  RepairScopes => (IInv /\ Planned /\ OneTarget /\ OwedCovered /\ [Next]_vars
                   => OneTarget' /\ OwedCovered')
  <1> SUFFICES ASSUME RepairScopes, IInv, Planned, OneTarget, OwedCovered, [Next]_vars
               PROVE  OneTarget' /\ OwedCovered'
    OBVIOUS
  <1>1. ASSUME NEW sync, NEW full, NEW defer, NEW delivery, Update(sync, full, defer, delivery)
        PROVE  FALSE
    BY <1>1, OnlyRelease DEF Update, Updatable
  <1>2. ~ResumePatch /\ ~DiscardPatch
    BY DEF ResumePatch, DiscardPatch, OneTarget
  <1>3. ASSUME UNCHANGED <<live, config, marker, patch, owed>>, cmd' \in {cmd, NoChange}
        PROVE  OneTarget' /\ OwedCovered'
    <2>1. Covered' = Covered
      BY <1>3 DEF Covered
    <2>2. QED
      BY <1>3, <2>1 DEF OneTarget, OwedCovered
  <1>4. CASE Environment
    <2>1. ~PublishRelease
      BY DEF PublishRelease, RepairScopes, OneTarget
    <2>2. UNCHANGED <<live, config, marker, patch, owed>> /\ cmd' \in {cmd, NoChange}
      BY <1>4, <2>1 DEF Environment, Crash, Damage, disk
    <2>3. QED
      BY <1>3, <2>2
  <1>5. CASE UNCHANGED vars
    BY <1>3, <1>5 DEF vars, disk
  <1>6. CASE Command
    BY <1>1, <1>2, <1>6, RepairInstall, RepairFinishUpdate, RepairVerify DEF Command
  <1>7. QED
    BY <1>4, <1>5, <1>6, RepairSteps DEF Next

-----------------------------------------------------------------------------
(* What is launched is whole. *)

\* A core file is planned by game_files alone.
LEMMA CorePlanned ==
  ASSUME NEW r \in ReleaseId, NEW i \in {0} \cup DOMAIN Index, NEW f \in Core
  PROVE  f \in File /\ f \notin Claimed(i) /\ Goal(r, i)[f] = Manifest[M(r)][f]
  <1>1. f \in File /\ f \notin Claimed(i)
    BY InstallAssumption DEF File, Claimed
  <1>2. QED
    BY <1>1 DEF Goal

\* What runs, for which release.
LEMMA RunningFacts ==
  ASSUME IInv, Modes, cmd # NoChange
  PROVE  /\ cmd \in Jobs /\ cmd.release \in ReleaseId /\ cmd.release \in Nat
         /\ cmd.resources \in {0} \cup DOMAIN Index /\ cmd.resources = R(cmd.release)
         /\ live \in Nat /\ cmd.release <= live /\ Top = cmd.release
         /\ marker # NoChange
  BY ReleaseFacts DEF IInv, TypeOK, Jobs, Modes, Top

\* Every command is for the live release with its index and under a marker; it checks or delivers
\* all of it, or trusts the size of what both manifests list.
LEMMA ForwardStarts ==
  ASSUME Forward, IInv, Modes, Command
  PROVE  /\ cmd = NoChange
         /\ UNCHANGED <<live, files, config, gameFiles, baseline, patch, damaged>>
         /\ marker' # NoChange /\ marker'.sync
         /\ cmd'.release = live /\ cmd'.resources = R(live) /\ cmd'.vfs
         /\ cmd'.close \in {"metadata", "deferred"}
         /\ \/ /\ cmd'.step = "check" /\ cmd'.todo = Wanted(live, R(live))
               /\ cmd'.weak = {}
            \/ /\ cmd'.step = "deliver" /\ cmd'.check = Wanted(live, R(live))
               /\ cmd'.weak = {}
            \/ /\ cmd'.step = "deliver" /\ cmd'.check = Claimed(R(live))
               /\ cmd'.todo = Wanted(live, R(live)) \ Claimed(R(live))
               /\ cmd'.weak = Unchanged(gameFiles, M(live)) /\ gameFiles # 0
  <1>1. live \in ReleaseId /\ R(live) \in {0} \cup DOMAIN Index /\ config \in Nat
        /\ (marker # NoChange => marker \in Changes /\ marker.to \in Nat /\ marker.sync)
    BY ReleaseFacts DEF IInv, TypeOK, Changes, Modes
  <1>2. Jobs \cap {NoChange} = {} /\ Changes \cap {NoChange} = {}
    BY NoChangeAssumption
  <1>3. \A sync \in Policies : sync = TRUE
    BY DEF Forward
  <1>4. ASSUME NEW sync \in Policies, NEW keep \in BOOLEAN, Install(sync, keep)
        PROVE  /\ cmd = NoChange
               /\ UNCHANGED <<live, files, config, gameFiles, baseline, patch, damaged>>
               /\ marker' \in Changes /\ marker'.sync
               /\ cmd'.release = live /\ cmd'.resources = R(live) /\ cmd'.vfs
               /\ cmd'.close = "metadata" /\ cmd'.weak = {}
               /\ cmd'.check = Wanted(live, R(live))
               /\ \/ cmd'.step = "check" /\ cmd'.todo = Wanted(live, R(live))
                  \/ cmd'.step = "deliver"
    <2>1. sync = TRUE
      BY <1>3
    <2> DEFINE source == IF keep THEN "FullArchive" ELSE "Manifest"
    <2>2. source \in {"FullArchive", "PatchArchive", "Manifest", "Repair"}
      OBVIOUS
    <2>3. marker' = Change("Install", source, 0, live, TRUE, R(live))
      BY <1>4, <2>1, InstallStarts
    <2> HIDE DEF source
    <2>4. marker' \in Changes /\ marker'.sync
      <3>1. Change("Install", source, 0, live, TRUE, R(live)) \in Changes
        BY <1>1, <2>2, ChangeType
      <3>2. QED
        BY <2>3, <3>1 DEF Change
    <2>5. QED
      BY <1>4, <2>1, <2>4, InstallStarts DEF Install, Idle
  <1>5. ASSUME NEW sync \in Policies, NEW full \in BOOLEAN, NEW defer \in BOOLEAN,
               NEW delivery \in {"FullArchive", "PatchArchive", "Manifest"},
               Update(sync, full, defer, delivery)
        PROVE  /\ cmd = NoChange /\ gameFiles # 0
               /\ UNCHANGED <<live, files, config, gameFiles, baseline, patch, damaged>>
               /\ marker' \in Changes /\ marker'.sync
               /\ cmd'.release = live /\ cmd'.resources = R(live) /\ cmd'.vfs
               /\ cmd'.close \in {"metadata", "deferred"} /\ cmd'.step = "deliver"
               /\ \/ cmd'.check = Wanted(live, R(live)) /\ cmd'.weak = {}
                  \/ /\ cmd'.check = Claimed(R(live))
                     /\ cmd'.todo = Wanted(live, R(live)) \ Claimed(R(live))
                     /\ cmd'.weak = Unchanged(gameFiles, M(live))
    <2>1. sync = TRUE
      BY <1>3
    <2>2. delivery # "PatchArchive"
      <3>1. PatchBases(live) = {} /\ delivery \in Deliveries(full)
        BY <1>5 DEF Update, PatchBases, Forward
      <3>2. QED
        BY <3>1 DEF Deliveries
    <2>3. marker' \in Changes /\ marker'.sync
      <3>1. Change("Update", delivery, config, live, TRUE, R(live)) \in Changes
        BY <1>1, ChangeType
      <3>2. marker' = Change("Update", delivery, config, live, TRUE, R(live))
        BY <1>5, <2>1, UpdateStarts, ZenonT(40)
      <3>3. QED
        BY <3>1, <3>2 DEF Change
    <2>4. /\ cmd'.release = live /\ cmd'.resources = R(live) /\ cmd'.vfs
          /\ cmd'.close \in {"metadata", "deferred"} /\ cmd'.step = "deliver"
          /\ \/ cmd'.check = Wanted(live, R(live)) /\ cmd'.weak = {}
             \/ /\ cmd'.check = Claimed(R(live))
                /\ cmd'.todo = Wanted(live, R(live)) \ Claimed(R(live))
                /\ cmd'.weak = Unchanged(gameFiles, M(live))
      BY <1>5, <2>1, <2>2, UpdateStarts, ZenonT(40)
    <2>5. QED
      BY <1>5, <2>3, <2>4 DEF Update, Updatable, Idle
  <1>6. CASE FinishUpdate
    <2>1. marker # NoChange /\ marker.sync
      BY <1>1, <1>6 DEF FinishUpdate
    <2>2. /\ cmd'.release = live /\ cmd'.resources = R(live) /\ cmd'.step = "check"
          /\ cmd'.todo = Wanted(live, R(live))
          /\ cmd'.weak = {} /\ cmd'.vfs /\ cmd'.close = "metadata"
      BY <1>6, <2>1, FinishUpdateStarts
    <2>3. QED
      BY <1>6, <2>1, <2>2 DEF FinishUpdate, Updatable, Idle, disk
  <1>7. ~ResumePatch /\ ~DiscardPatch
    BY DEF ResumePatch, DiscardPatch, Modes
  <1>8. ASSUME NEW scope \in Scopes, Verify(scope)
        PROVE  /\ cmd = NoChange
               /\ UNCHANGED <<live, files, config, gameFiles, baseline, patch, damaged>>
               /\ marker' # NoChange /\ marker'.sync
               /\ cmd'.release = live /\ cmd'.resources = R(live) /\ cmd'.vfs
               /\ cmd'.close = "metadata" /\ cmd'.step = "check"
               /\ cmd'.todo = Wanted(live, R(live)) /\ cmd'.weak = {}
    <2>1. scope \in {"default", "all"}
      BY DEF Forward
    <2>2. SyncOf(scope) = TRUE
      BY <1>1, <2>1 DEF SyncOf
    <2>3. EffectiveScope(scope, SyncOf(scope)) = "all"
      BY <2>1, <2>2 DEF EffectiveScope
    <2> DEFINE c == [Change("Repair", "Repair", config, live, TRUE, R(live)) EXCEPT !.to = config]
               d == Change("Update", "Repair", marker.to, live, TRUE, R(live))
    <2>4. /\ cmd'.release = live /\ cmd'.resources = R(live) /\ cmd'.vfs
          /\ cmd'.close = "metadata" /\ cmd'.step = "check"
          /\ cmd'.todo = Wanted(live, R(live)) /\ cmd'.weak = {}
          /\ marker' = IF marker = NoChange THEN c ELSE IF Superseded THEN d ELSE marker
      BY <1>8, <2>2, <2>3, VerifyStarts
    <2>5. c \in Changes /\ c.sync
      <3>1. Change("Repair", "Repair", config, live, TRUE, R(live)) \in Changes
        BY <1>1, ChangeType
      <3>2. QED
        BY <1>1, <3>1 DEF Changes, Change
    <2>6. marker # NoChange => d \in Changes /\ d.sync
      <3>1. marker # NoChange => d \in Changes
        BY <1>1, ChangeType
      <3>2. QED
        BY <3>1 DEF Change
    <2> HIDE DEF c, d
    <2>7. marker' # NoChange /\ marker'.sync
      BY <1>1, <1>2, <2>4, <2>5, <2>6
    <2>8. QED
      BY <1>8, <2>4, <2>7 DEF Verify, Idle
  <1>9. QED
    BY <1>2, <1>4, <1>5, <1>6, <1>7, <1>8 DEF Command

LEMMA ForwardCommands ==
  ASSUME Forward, IInv, Modes, Stored, Progress, Finished, Command
  PROVE  Modes' /\ Stored' /\ Progress' /\ Finished'
  <1> DEFINE wanted == Wanted(live, R(live))
  <1>1. /\ cmd = NoChange
        /\ UNCHANGED <<live, files, config, gameFiles, baseline, patch, damaged>>
        /\ marker' # NoChange /\ marker'.sync
        /\ cmd'.release = live /\ cmd'.resources = R(live) /\ cmd'.vfs
        /\ cmd'.close \in {"metadata", "deferred"}
        /\ cmd'.step \in {"check", "deliver"}
        /\ \/ cmd'.step = "check" /\ cmd'.todo = wanted /\ cmd'.weak = {}
           \/ cmd'.step = "deliver" /\ cmd'.check = wanted /\ cmd'.weak = {}
           \/ /\ cmd'.step = "deliver"
              /\ cmd'.check = Claimed(R(live)) /\ cmd'.todo = wanted \ Claimed(R(live))
              /\ cmd'.weak = Unchanged(gameFiles, M(live)) /\ gameFiles # 0
    BY ForwardStarts
  <1>2. live \in Nat
    BY ReleaseFacts DEF IInv, TypeOK
  <1>3. Top = live /\ Top' = live
    BY <1>1 DEF Top
  <1>4. Modes'
    BY <1>1, <1>2 DEF Modes
  <1>5. Stored'
    BY <1>1, <1>3 DEF Stored, Between
  <1>6. Progress'
    <2>1. Wanted(cmd'.release, cmd'.resources) = wanted
      BY <1>1
    <2> HIDE DEF wanted
    <2>2. QED
      BY <1>1, <2>1 DEF Progress
  <1>7. Finished'
    BY <1>1 DEF Finished, Launchable
  <1>8. QED
    BY <1>4, <1>5, <1>6, <1>7

\* Older contents stay allowed when the newest release a file may come from moves on.
LEMMA StoredLater ==
  ASSUME IInv, Modes, Stored, UNCHANGED <<files, gameFiles, baseline, damaged>>,
         Top' \in Nat, Top <= Top'
  PROVE  Stored'
  <1>1. Top \in Nat
    BY ReleaseFacts DEF IInv, TypeOK, Jobs, Top
  <1>2. ASSUME NEW q \in ReleaseId, q <= Top
        PROVE  q <= Top'
    BY <1>1, <1>2, ReleaseFacts
  <1>3. ASSUME NEW g \in ReleaseId, Between(g)
        PROVE  Between(g)'
    BY <1>2, <1>3 DEF Between
  <1>4. QED
    BY <1>2, <1>3 DEF Stored

\* A command that ends before its change is finished.
LEMMA ForwardStops ==
  ASSUME Forward, IInv, Modes, Stored, Progress, Finished, cmd # NoChange, cmd' = NoChange,
         UNCHANGED <<live, files, gameFiles, baseline, patch, marker, damaged>>
  PROVE  Modes' /\ Stored' /\ Progress' /\ Finished'
  <1>1. Top <= Top' /\ Top' \in Nat /\ marker # NoChange
    BY RunningFacts DEF Top
  <1>2. Modes' /\ Progress'
    BY DEF Modes, Progress
  <1>3. Finished'
    BY <1>1 DEF Finished, Launchable
  <1>4. QED
    BY <1>1, <1>2, <1>3, StoredLater

\* What a step that only goes on leaves alone.
LEMMA GoesOn ==
  ASSUME IInv, Modes, cmd # NoChange, NEW s, Go(s, {})
  PROVE  /\ cmd' # NoChange => cmd'.step = s
         /\ cmd'.step = s /\ cmd'.todo = {} /\ cmd'.release = cmd.release
         /\ cmd'.resources = cmd.resources /\ cmd'.check = cmd.check /\ cmd'.weak = cmd.weak
         /\ cmd'.close = cmd.close /\ cmd'.vfs = cmd.vfs
  BY RunningFacts DEF Go, Jobs

\* The last steps change no file and keep what was checked.
LEMMA ForwardGoes ==
  ASSUME Forward, IInv, Modes, Stored, Progress, Finished, cmd # NoChange,
         cmd.step # "deliver",
         cmd.close = "metadata" => \A f \in Wanted(cmd.release, cmd.resources) : Done(f),
         UNCHANGED <<live, files, patch, marker, damaged>>,
         NEW s \in {"baseline", "unpend", "prune", "publish", "metadata", "config", "finish"},
         Go(s, {}),
         s \in {"metadata", "config", "finish"} => cmd.close = "metadata",
         s = "prune" => cmd.resources # 0,
         s \in {"unpend", "metadata", "config", "finish"} => baseline' = cmd.resources,
         s \in {"config", "finish"} => gameFiles' = M(cmd.release),
         s = "finish" => config' = V(cmd.release),
         Stored'
  PROVE  Modes' /\ Stored' /\ Progress' /\ Finished'
  <1>1. /\ cmd'.step = s /\ cmd'.todo = {} /\ cmd'.release = cmd.release
        /\ cmd'.resources = cmd.resources /\ cmd'.check = cmd.check /\ cmd'.weak = cmd.weak
        /\ cmd'.close = cmd.close /\ cmd'.vfs = cmd.vfs
    BY GoesOn
  <1>2. Modes'
    BY <1>1 DEF Modes
  <1>3. cmd.weak = {}
    BY DEF Progress
  <1>4. \A f : Done(f)' <=> Done(f)
    BY <1>1 DEF Done
  <1>5. Progress'
    BY <1>1, <1>3, <1>4 DEF Progress
  <1>6. Finished'
    BY RunningFacts DEF Finished, Launchable
  <1>7. QED
    BY <1>2, <1>5, <1>6

\* A file both manifests list alike, if it is there, is what the release lists.
LEMMA WeakEnough ==
  ASSUME Forward, IInv, Modes, Stored, Progress, cmd # NoChange,
         NEW f \in cmd.weak, files[f] # 0
  PROVE  Done(f)
  <1>1. /\ gameFiles # 0 /\ f \in Core
        /\ Manifest[gameFiles][f] = Manifest[M(cmd.release)][f]
        /\ Manifest[M(cmd.release)][f] # 0
    BY DEF Progress, Unchanged
  <1>2. PICK g \in ReleaseId : g <= Top /\ gameFiles = M(g) /\ Between(g)
    BY <1>1 DEF Stored
  <1>3. /\ cmd.release \in ReleaseId /\ Top = cmd.release
        /\ Goal(cmd.release, cmd.resources)[f] = Manifest[M(cmd.release)][f]
    BY <1>1, RunningFacts, CorePlanned
  <1>4. CASE f \notin damaged
    <2>1. PICK k \in ReleaseId : g <= k /\ k <= Top /\ files[f] = Manifest[M(k)][f]
      BY <1>1, <1>2, <1>4 DEF Between
    <2>2. Manifest[M(k)][f] = Manifest[M(cmd.release)][f]
      BY <1>1, <1>2, <1>3, <2>1 DEF Forward
    <2>3. QED
      BY <1>3, <2>1, <2>2 DEF Done
  <1>5. QED
    BY <1>4 DEF Done

LEMMA ForwardEnsure ==
  ASSUME Forward, IInv, Planned, Modes, Stored, Progress, Finished, NEW f \in File, Ensure(f)
  PROVE  Modes' /\ Stored' /\ Progress' /\ Finished'
  <1> DEFINE goal == Goal(cmd.release, cmd.resources)
             wanted == Wanted(cmd.release, cmd.resources)
  <1>1. /\ cmd # NoChange /\ cmd.step \in {"deliver", "check"} /\ f \in cmd.todo
        /\ UNCHANGED <<live, config, gameFiles, marker, baseline, patch>>
        /\ cmd' = [cmd EXCEPT !.todo = @ \ {f}]
    BY DEF Ensure, At
  <1>2. /\ cmd'.step = cmd.step /\ cmd'.release = cmd.release /\ cmd'.resources = cmd.resources
        /\ cmd'.check = cmd.check /\ cmd'.weak = cmd.weak /\ cmd'.close = cmd.close
        /\ cmd'.todo = cmd.todo \ {f} /\ cmd'.vfs = cmd.vfs
    BY <1>1, RunningFacts DEF Jobs
  <1>3. files \in [File -> Nat \cup {Bad}] /\ f \in wanted
    BY <1>1 DEF IInv, TypeOK, Planned
  <1>4. \/ files' = files /\ damaged' = damaged /\ Done(f)
        \/ files' = [files EXCEPT ![f] = goal[f]] /\ damaged' = damaged \ {f}
    <2>1. CASE Intact(f)
      <3>1. Done(f)
        <4>1. CASE f \in cmd.weak
          BY <1>1, <2>1, <4>1, WeakEnough DEF Intact
        <4>2. CASE f \notin cmd.weak
          BY <2>1, <4>2 DEF Intact, Done
        <4>3. QED
          BY <4>1, <4>2
      <3>2. QED
        BY <2>1, <3>1 DEF Ensure
    <2>2. CASE ~Intact(f)
      BY <2>2 DEF Ensure, Write
    <2>3. QED
      BY <2>1, <2>2
  <1>5. Done(f)'
    BY <1>2, <1>3, <1>4 DEF Done
  <1>6. \A x \in File : Done(x) => Done(x)'
    <2> SUFFICES ASSUME NEW x \in File, Done(x), x # f PROVE Done(x)'
      BY <1>5
    <2>1. files'[x] = files[x] /\ (x \in damaged => x \in damaged')
      BY <1>3, <1>4
    <2>2. QED
      BY <1>2, <2>1 DEF Done
  <1>7. Modes'
    BY <1>1, <1>2 DEF Modes
  <1>8. Stored'
    <2>1. Top = cmd.release /\ Top \in ReleaseId /\ (cmd' # NoChange => Top' = Top)
          /\ (cmd' = NoChange => Top' = live) /\ Top <= live /\ live \in Nat
      BY <1>1, <1>2, RunningFacts DEF Top
    <2>2. Top <= Top' /\ Top \in Nat /\ Top' \in Nat /\ ReleaseId \subseteq Nat
      BY <2>1, ReleaseFacts
    <2>3. ASSUME NEW g \in ReleaseId, g <= Top, Between(g)
          PROVE  Between(g)'
      <3> SUFFICES ASSUME NEW x \in Core \ damaged', Manifest[gameFiles][x] # 0, files'[x] # 0
                   PROVE  \E k \in ReleaseId : g <= k /\ k <= Top' /\ files'[x] = Manifest[M(k)][x]
        BY <1>1 DEF Between
      <3>1. CASE x = f /\ files' = [files EXCEPT ![f] = goal[f]]
        <4>1. files'[x] = Manifest[M(Top)][x]
          BY <1>1, <1>3, <2>1, <3>1, RunningFacts, CorePlanned
        <4>2. QED
          BY <2>1, <2>2, <2>3, <4>1
      <3>2. CASE ~(x = f /\ files' = [files EXCEPT ![f] = goal[f]])
        <4>1. x \in File /\ files'[x] = files[x] /\ x \notin damaged
          BY <1>3, <1>4, <3>2 DEF File
        <4>2. PICK k \in ReleaseId : g <= k /\ k <= Top /\ files[x] = Manifest[M(k)][x]
          BY <2>3, <4>1 DEF Between
        <4>3. k <= Top'
          BY <2>2, <4>2
        <4>4. QED
          BY <4>1, <4>2, <4>3
      <3>3. QED
        BY <3>1, <3>2
    <2>4. \A q \in ReleaseId : q <= Top => q <= Top'
      BY <2>2
    <2>5. QED
      BY <1>1, <2>3, <2>4 DEF Stored
  <1>9. Progress'
    <2>1. Wanted(cmd'.release, cmd'.resources) = wanted /\ wanted \subseteq File
      BY <1>1, <1>2, RunningFacts, PlanFacts
    <2> HIDE DEF wanted
    <2>2. /\ cmd.weak # {} => gameFiles # 0 /\ cmd.step = "deliver"
                              /\ cmd.weak \subseteq Unchanged(gameFiles, M(cmd.release))
          /\ cmd.step = "deliver" => \A x \in wanted \ (cmd.todo \cup cmd.check) : Done(x)
          /\ cmd.close = "metadata" /\ cmd.step = "check" => \A x \in wanted \ cmd.todo : Done(x)
      BY <1>1 DEF Progress, wanted
    <2>3. cmd.step = "deliver" => \A x \in wanted \ (cmd'.todo \cup cmd.check) : Done(x)'
      BY <1>2, <1>5, <1>6, <2>1, <2>2
    <2>4. cmd.close = "metadata" /\ cmd.step = "check" => \A x \in wanted \ cmd'.todo : Done(x)'
      BY <1>2, <1>5, <1>6, <2>1, <2>2
    <2>5. QED
      BY <1>1, <1>2, <2>1, <2>2, <2>3, <2>4 DEF Progress
  <1>10. Finished'
    BY <1>1, RunningFacts DEF Finished, Launchable
  <1>11. QED
    BY <1>7, <1>8, <1>9, <1>10

\* What a step that removes files may remove without harm.
LEMMA StoredRemoves ==
  ASSUME IInv, Modes, Stored, UNCHANGED <<gameFiles, baseline, damaged>>,
         \A f \in Core : files'[f] \in {files[f], 0},
         Top' \in Nat, Top <= Top'
  PROVE  Stored'
  <1>1. Top \in Nat
    BY ReleaseFacts DEF IInv, TypeOK, Jobs, Top
  <1>2. ASSUME NEW q \in ReleaseId, q <= Top
        PROVE  q <= Top'
    BY <1>1, <1>2, ReleaseFacts
  <1>3. ASSUME NEW g \in ReleaseId, Between(g)
        PROVE  Between(g)'
    BY <1>2, <1>3 DEF Between
  <1>4. QED
    BY <1>2, <1>3 DEF Stored

LEMMA ForwardDelivered ==
  ASSUME Forward, IInv, Planned, Modes, Stored, Progress, Finished, Delivered
  PROVE  Modes' /\ Stored' /\ Progress' /\ Finished'
  <1> DEFINE wanted == Wanted(cmd.release, cmd.resources)
  <1>1. /\ cmd # NoChange /\ cmd.step = "deliver" /\ cmd.todo = {}
        /\ UNCHANGED <<live, config, gameFiles, marker, baseline, patch, damaged>>
    BY DEF Delivered, At
  <1>2. \/ cmd' = NoChange
        \/ /\ cmd'.step = "check" /\ cmd'.release = cmd.release
           /\ cmd'.resources = cmd.resources /\ cmd'.weak = {} /\ cmd'.check = cmd.check
           /\ cmd'.close = cmd.close /\ cmd'.vfs = cmd.vfs
           /\ cmd.close = "metadata" => cmd'.todo = cmd.check
    <2> DEFINE T == IF cmd.close = "deferred" THEN Claimed(cmd.resources) ELSE cmd.check
    <2>1. cmd' = NoChange \/ cmd' = [cmd EXCEPT !.step = "check", !.weak = {}, !.todo = T]
      BY DEF Delivered
    <2>2. cmd.close = "metadata" => T = cmd.check
      OBVIOUS
    <2> HIDE DEF T
    <2>3. QED
      BY <1>1, <2>1, <2>2, RunningFacts DEF Jobs
  <1>3. files \in [File -> Nat \cup {Bad}] /\ wanted \subseteq File
    BY <1>1, RunningFacts, PlanFacts DEF IInv, TypeOK
  <1>4. \A f \in wanted : files'[f] = files[f]
    <2> SUFFICES ASSUME NEW f \in wanted, f \in Core, Obsolete(f)
                 PROVE  FALSE
      BY <1>3 DEF Delivered
    <2>1. Goal(cmd.release, 0)[f] = Goal(cmd.release, cmd.resources)[f]
      BY <1>1, RunningFacts, CorePlanned, ZenonT(40)
    <2>2. QED
      BY <2>1 DEF Obsolete, Wanted
  <1>5. \A f \in Core : files'[f] \in {files[f], 0}
    BY DEF Delivered, File
  <1>6. Top <= Top' /\ Top' \in Nat
    BY <1>1, <1>2, RunningFacts DEF Top
  <1>7. Stored'
    BY <1>1, <1>5, <1>6, StoredRemoves
  <1>8. Modes'
    BY <1>1, <1>2 DEF Modes
  <1>9. Progress'
    <2>1. \A x \in wanted \ cmd.check : Done(x)
      BY <1>1 DEF Progress
    <2> HIDE DEF wanted
    <2>2. cmd' # NoChange => \A x \in wanted : Done(x) => Done(x)'
      BY <1>1, <1>2, <1>4 DEF Done
    <2>3. cmd' # NoChange => Wanted(cmd'.release, cmd'.resources) = wanted
      BY <1>2 DEF wanted
    <2>4. QED
      BY <1>1, <1>2, <2>1, <2>2, <2>3 DEF Progress
  <1>10. Finished'
    BY <1>1, RunningFacts DEF Finished, Launchable
  <1>11. QED
    BY <1>7, <1>8, <1>9, <1>10

LEMMA ForwardPrune ==
  ASSUME Forward, IInv, Planned, Modes, Stored, Progress, Finished, Prune
  PROVE  Modes' /\ Stored' /\ Progress' /\ Finished'
  <1> DEFINE wanted == Wanted(cmd.release, cmd.resources)
  <1>1. /\ cmd # NoChange /\ cmd.step = "prune" /\ Go("publish", {})
        /\ UNCHANGED <<live, config, gameFiles, marker, baseline, patch, damaged>>
    BY DEF Prune, At
  <1>2. /\ cmd'.step = "publish" /\ cmd'.release = cmd.release
        /\ cmd'.resources = cmd.resources /\ cmd'.weak = cmd.weak
        /\ cmd'.close = cmd.close /\ cmd'.vfs = cmd.vfs
    BY <1>1, GoesOn
  <1>3. files \in [File -> Nat \cup {Bad}] /\ wanted \subseteq File
    BY <1>1, RunningFacts, PlanFacts DEF IInv, TypeOK
  <1>4. \A f \in Core : files'[f] = files[f]
    BY <1>3, InstallAssumption DEF Prune, Prunable, Claimed, File
  <1>5. Top <= Top' /\ Top' \in Nat
    BY <1>1, <1>2, RunningFacts DEF Top
  <1>6. Stored'
    BY <1>1, <1>4, <1>5, StoredRemoves
  <1>7. Modes'
    BY <1>1, <1>2 DEF Modes
  <1>8. ASSUME NEW f \in wanted, Done(f), Prunable(f), f \notin damaged
        PROVE  FALSE
    <2>1. f \in Claimed(baseline) /\ f \notin Claimed(cmd.resources)
          /\ files[f] = Index[baseline][f]
      BY <1>8 DEF Prunable
    <2>2. PICK q \in ReleaseId : q <= Top /\ baseline = R(q)
      BY <2>1 DEF Stored, Claimed
    <2>3. /\ cmd.release \in ReleaseId /\ Top = cmd.release
          /\ cmd.resources = R(cmd.release)
      BY <1>1, RunningFacts
    <2>4. files[f] = Manifest[M(cmd.release)][f]
      BY <1>3, <1>8, <2>1 DEF Done, Goal
    <2>5. R(cmd.release) # 0
      BY <1>1, <2>3 DEF Modes
    <2>6. QED
      BY <2>1, <2>2, <2>3, <2>4, <2>5 DEF Forward
  <1>9. Progress'
    <2>1. /\ cmd.weak = {}
          /\ cmd.close = "metadata" => \A x \in wanted : Done(x)
      BY <1>1 DEF Progress
    <2>2. \A x \in wanted : Done(x) => Done(x)'
      BY <1>1, <1>2, <1>3, <1>8 DEF Prune, Done
    <2> HIDE DEF wanted
    <2>3. Wanted(cmd'.release, cmd'.resources) = wanted
      BY <1>2 DEF wanted
    <2>4. QED
      BY <1>1, <1>2, <2>1, <2>2, <2>3 DEF Progress
  <1>10. Finished'
    BY <1>1, RunningFacts DEF Finished, Launchable
  <1>11. QED
    BY <1>6, <1>7, <1>9, <1>10

LEMMA ForwardSteps ==
  ASSUME Forward, IInv, Planned, Modes, Stored, Progress, Finished, Step
  PROVE  Modes' /\ Stored' /\ Progress' /\ Finished'
  <1> DEFINE wanted == Wanted(cmd.release, cmd.resources)
             checked == cmd.close = "metadata" => \A f \in wanted : Done(f)
             kept == UNCHANGED <<live, files, patch, marker, damaged>>
  <1>1. ~(PlanPatch \/ Extracted \/ PreparePatch \/ ApplyDeletes \/ CommitDeferred \/ CleanPatch)
    BY DEF PlanPatch, Extracted, PreparePatch, ApplyDeletes, CommitDeferred, CleanPatch, At, Modes
  <1>2. ASSUME NEW f \in File, ApplyEntry(f)
        PROVE  FALSE
    BY <1>2 DEF ApplyEntry, At, Modes
  <1>3. ASSUME NEW x, Extract(x)
        PROVE  FALSE
    BY <1>3 DEF Extract, At, Modes
  <1>4. ASSUME cmd # NoChange, cmd' = NoChange \/ \E s : Go(s, {}),
               UNCHANGED <<live, files, gameFiles, baseline, damaged>>
        PROVE  Stored'
    <2>1. Top <= Top' /\ Top' \in Nat
      <3>1. cmd' = NoChange \/ cmd'.release = cmd.release
        BY <1>4, GoesOn
      <3>2. QED
        BY <1>4, <3>1, RunningFacts DEF Top
    <2>2. QED
      BY <1>4, <2>1, StoredLater
  <1>5. cmd # NoChange /\ cmd.step \notin {"deliver", "check"} => checked
    BY DEF Progress
  <1>6. CASE Checked
    <2>1. cmd # NoChange /\ cmd.step = "check" /\ cmd.todo = {} /\ Go("baseline", {}) /\ kept
          /\ UNCHANGED <<gameFiles, baseline>>
      BY <1>6 DEF Checked, At, disk, Modes
    <2>2. checked
      BY <2>1 DEF Progress
    <2>3. Stored'
      BY <1>4, <2>1
    <2> HIDE DEF checked
    <2>4. QED
      BY <2>1, <2>2, <2>3, ForwardGoes DEF checked
  <1>7. CASE Revoke
    <2>1. /\ cmd # NoChange /\ cmd.step = "baseline" /\ Go("unpend", {}) /\ kept
          /\ gameFiles' = gameFiles /\ baseline' = 0 /\ cmd.resources = 0
      BY <1>7 DEF Revoke, At
    <2>2. Stored'
      <3>1. cmd'.release = cmd.release
        BY <2>1, GoesOn
      <3>2. Top' \in Nat /\ Top <= Top' /\ Top \in Nat
        BY <2>1, <3>1, RunningFacts DEF Top
      <3>3. ASSUME NEW g \in ReleaseId, g <= Top, Between(g)
            PROVE  g <= Top' /\ Between(g)'
        BY <2>1, <3>2, <3>3, ReleaseFacts DEF Between
      <3>4. QED
        BY <2>1, <3>3 DEF Stored
    <2>3. QED
      BY <1>5, <2>1, <2>2, ForwardGoes
  <1>8. CASE MakePending
    <2>1. /\ cmd # NoChange /\ cmd.step = "baseline" /\ Go("prune", {}) /\ kept
          /\ UNCHANGED <<gameFiles, baseline>> /\ cmd.resources # 0
      BY <1>8 DEF MakePending, At
    <2>2. Stored'
      BY <1>4, <2>1
    <2>3. QED
      BY <1>5, <2>1, <2>2, ForwardGoes
  <1>9. CASE Publish
    <2>1. /\ cmd # NoChange /\ cmd.step = "publish" /\ Go("unpend", {}) /\ kept
          /\ gameFiles' = gameFiles /\ baseline' = cmd.resources
      BY <1>9 DEF Publish, At
    <2>2. Stored'
      <3>1. cmd'.release = cmd.release
        BY <2>1, GoesOn
      <3>2. Top' \in Nat /\ Top <= Top' /\ Top \in Nat /\ Top = cmd.release
            /\ cmd.release \in ReleaseId /\ cmd.resources = R(cmd.release)
        BY <2>1, <3>1, RunningFacts DEF Top
      <3>3. ASSUME NEW g \in ReleaseId, g <= Top, Between(g)
            PROVE  g <= Top' /\ Between(g)'
        BY <2>1, <3>2, <3>3, ReleaseFacts DEF Between
      <3>4. QED
        BY <2>1, <3>2, <3>3 DEF Stored
    <2>3. QED
      BY <1>5, <2>1, <2>2, ForwardGoes
  <1>10. CASE RemovePending
    <2>1. /\ cmd # NoChange /\ cmd.step = "unpend" /\ kept /\ UNCHANGED <<gameFiles, baseline>>
          /\ (cmd.close = "metadata" /\ Go("metadata", {})) \/ cmd' = NoChange
      BY <1>10 DEF RemovePending, AfterBaseline, At
    <2>2. Stored' /\ baseline = cmd.resources
      BY <1>4, <2>1 DEF Progress
    <2>3. CASE cmd.close = "metadata" /\ Go("metadata", {})
      BY <1>5, <2>1, <2>2, <2>3, ForwardGoes
    <2>4. CASE cmd' = NoChange
      BY <2>1, <2>4, ForwardStops
    <2>5. QED
      BY <2>1, <2>3, <2>4
  <1>11. CASE SyncGameFiles
    <2>1. /\ cmd # NoChange /\ cmd.step = "metadata" /\ Go("config", {}) /\ kept
          /\ gameFiles' = M(cmd.release) /\ UNCHANGED baseline
      BY <1>11 DEF SyncGameFiles, At
    <2>2. /\ cmd.close = "metadata" /\ \A f \in wanted : Done(f)
      BY <2>1 DEF Progress, Modes
    <2>3. baseline = cmd.resources
      BY <2>1 DEF Progress
    <2>4. Stored'
      <3>1. cmd'.release = cmd.release
        BY <2>1, GoesOn
      <3>2. Top' \in Nat /\ Top <= Top' /\ Top \in Nat /\ Top = cmd.release
            /\ cmd.release \in ReleaseId
        BY <2>1, <3>1, RunningFacts DEF Top
      <3>3. ASSUME NEW g \in ReleaseId, g = cmd.release
            PROVE  Between(g)'
        <4> SUFFICES ASSUME NEW f \in Core \ damaged, Manifest[M(cmd.release)][f] # 0
                     PROVE  files[f] = Manifest[M(cmd.release)][f]
          BY <2>1, <3>1, <3>2, <3>3 DEF Between
        <4>1. f \in wanted /\ Goal(cmd.release, cmd.resources)[f] = Manifest[M(cmd.release)][f]
          BY <2>1, RunningFacts, CorePlanned DEF Wanted
        <4>2. QED
          BY <2>2, <4>1 DEF Done
      <3>4. baseline' # 0 => \E q \in ReleaseId : q <= Top' /\ baseline' = R(q)
        BY <2>1, <3>2, ReleaseFacts DEF Stored
      <3>5. QED
        BY <2>1, <3>2, <3>3, <3>4 DEF Stored
    <2>5. QED
      BY <2>1, <2>2, <2>3, <2>4, ForwardGoes
  <1>12. CASE SyncConfig
    <2>1. /\ cmd # NoChange /\ cmd.step = "config" /\ Go("finish", {}) /\ kept
          /\ config' = V(cmd.release) /\ UNCHANGED <<gameFiles, baseline>>
      BY <1>12 DEF SyncConfig, At
    <2>2. /\ cmd.close = "metadata" /\ \A f \in wanted : Done(f)
          /\ baseline = cmd.resources /\ gameFiles = M(cmd.release)
      BY <2>1 DEF Progress, Modes
    <2>3. Stored'
      BY <1>4, <2>1
    <2>4. QED
      BY <2>1, <2>2, <2>3, ForwardGoes
  <1>13. CASE FinishChange
    <2>1. /\ cmd # NoChange /\ cmd.step = "finish" /\ cmd' = NoChange /\ marker' = NoChange
          /\ UNCHANGED <<live, files, config, gameFiles, baseline, patch, damaged>>
      BY <1>13 DEF FinishChange, At
    <2>2. /\ cmd.close = "metadata" /\ \A f \in wanted : Done(f)
          /\ baseline = cmd.resources /\ gameFiles = M(cmd.release) /\ config = V(cmd.release)
      BY <2>1 DEF Progress, Modes
    <2>3. Stored'
      BY <1>4, <2>1
    <2>4. cmd.release \in ReleaseId /\ cmd.resources = R(cmd.release)
      BY <2>1, RunningFacts
    <2>5. \A f \in Wanted(cmd.release, R(cmd.release)) \ damaged :
            files[f] = Goal(cmd.release, R(cmd.release))[f]
      BY <2>2, <2>4 DEF Done
    <2>6. Finished'
      BY <2>1, <2>2, <2>4, <2>5 DEF Finished
    <2>7. Modes' /\ Progress'
      BY <2>1 DEF Modes, Progress
    <2>8. QED
      BY <2>3, <2>6, <2>7
  <1>14. CASE Fail
    <2>1. cmd # NoChange /\ cmd' = NoChange /\ kept /\ UNCHANGED <<gameFiles, baseline>>
      BY <1>14 DEF Fail, Refused, At, disk
    <2>2. QED
      BY <2>1, ForwardStops
  <1>15. QED
    BY <1>1, <1>2, <1>3, <1>6, <1>7, <1>8, <1>9, <1>10, <1>11, <1>12, <1>13, <1>14,
       ForwardEnsure, ForwardDelivered, ForwardPrune DEF Step

LEMMA ForwardNext ==
  ASSUME Forward, IInv, Planned, Modes, Stored, Progress, Finished, [Next]_vars
  PROVE  Modes' /\ Stored' /\ Progress' /\ Finished'
  <1>1. CASE Crash
    <2>1. cmd # NoChange /\ cmd' = NoChange
          /\ UNCHANGED <<live, files, gameFiles, baseline, patch, marker, damaged>>
      BY <1>1 DEF Crash, Idle, disk
    <2>2. QED
      BY <2>1, ForwardStops
  <1>2. ASSUME NEW x \in File, NEW content \in {0, Bad}, Damage(x, content)
        PROVE  Modes' /\ Stored' /\ Progress' /\ Finished'
    <2>1. /\ cmd = NoChange /\ files' = [files EXCEPT ![x] = content] /\ damaged' = damaged \cup {x}
          /\ UNCHANGED <<live, config, gameFiles, marker, baseline, pending, patch, cmd>>
      BY <1>2 DEF Damage, Idle
    <2>2. \A f \in File \ damaged' : f \notin damaged /\ files'[f] = files[f]
      BY <2>1 DEF IInv, TypeOK
    <2>3. Top' = Top
      BY <2>1 DEF Top
    <2>4. \A g \in ReleaseId : Between(g) => Between(g)'
      BY <2>1, <2>2, <2>3 DEF Between, File
    <2>5. Stored'
      BY <2>1, <2>3, <2>4 DEF Stored
    <2>6. \A r \in ReleaseId : Wanted(r, R(r)) \subseteq File
      BY DEF Wanted
    <2>7. Finished'
      BY <2>1, <2>2, <2>6 DEF Finished, Launchable
    <2>8. QED
      BY <2>1, <2>5, <2>7 DEF Modes, Progress
  <1>3. CASE PublishRelease
    <2>1. live' = live + 1 /\ live \in Nat
          /\ UNCHANGED <<files, config, gameFiles, marker, baseline, patch, cmd, damaged>>
      BY <1>3, ReleaseFacts DEF PublishRelease, disk, IInv, TypeOK
    <2>2. Top <= Top' /\ Top' \in Nat
      BY <2>1, RunningFacts DEF Top
    <2>3. Stored'
      BY <2>1, <2>2, StoredLater
    <2>4. Modes'
      BY <2>1, RunningFacts DEF Modes
    <2>5. Progress'
      BY <2>1 DEF Progress, Done
    <2>6. Finished'
      BY <2>1 DEF Finished, Launchable
    <2>7. QED
      BY <2>3, <2>4, <2>5, <2>6
  <1>4. CASE UNCHANGED vars
    BY <1>4 DEF vars, disk, Modes, Stored, Between, Top, Progress, Done, Finished, Launchable
  <1>5. QED
    BY <1>1, <1>2, <1>3, <1>4, ForwardSteps, ForwardCommands DEF Next, Environment

\* Without a marker the files are those of the release the metadata names.
LEMMA FinishedWhole == ASSUME IInv, Finished PROVE LaunchComplete
  <1> SUFFICES ASSUME Launchable PROVE LaunchComplete
    BY DEF LaunchComplete
  <1>1. PICK r \in ReleaseId :
          /\ V(r) = config /\ M(r) = gameFiles /\ R(r) = baseline
          /\ \A f \in Wanted(r, R(r)) \ damaged : files[f] = Goal(r, R(r))[f]
    BY DEF Finished
  <1>2. ASSUME NEW f \in File \ damaged, Promised(f) # 0
        PROVE  files[f] = Promised(f)
    <2>1. Promised(f) = Goal(r, R(r))[f]
      BY <1>1 DEF Promised, Goal
    <2>2. QED
      BY <1>1, <1>2, <2>1 DEF Wanted
  <1>3. QED
    BY <1>1, <1>2 DEF LaunchComplete

-----------------------------------------------------------------------------
(* Theorems. *)

\* state.json and every other record keeps its type, and a patch is extracted or applied only while
\* its plan exists, whatever stops a command between two steps.
THEOREM InstallTypes == Spec => []TypeOK
  <1>1. IInv => TypeOK
    BY DEF IInv
  <1>2. QED
    BY <1>1, SpecInvariant, PTL

\* The obsolete files of an update and the files a resource baseline drops go only while they have
\* the recorded content: what the user modified is removed by the delete list of a patch or not at
\* all.
THEOREM ModifiedIsKept == Spec => ModifiedKept
  <1>1. IInv /\ Planned /\ [Next]_vars =>
          [\A f \in damaged : files[f] # 0 /\ files'[f] = 0 => At("prepare") \/ At("apply")]_vars
    BY DamagedStays
  <1>2. QED
    BY <1>1, SpecInvariant, PTL DEF Spec, ModifiedKept

\* Under a marker an interrupted verify --repair is continued, by itself or by install, and
\* finish_install_change comes only after every file it was started for was rewritten.
THEOREM RepairIsKept == ASSUME RepairScopes PROVE Spec => []RepairKept
  <1>1. Init => OneTarget /\ OwedCovered
    BY ReleaseFacts DEF Init, OneTarget, OwedCovered
  <1>2. IInv /\ Planned /\ OneTarget /\ OwedCovered /\ [Next]_vars => OneTarget' /\ OwedCovered'
    BY RepairNext
  <1>3. OwedCovered => RepairKept
    BY DEF OwedCovered, RepairKept, Launchable
  <1>4. QED
    BY <1>1, <1>2, <1>3, SpecInvariant, PTL DEF Spec

\* ensure_install_ready: a game without a marker is whole, whatever was interrupted, deferred or
\* superseded before, and unless its user damaged it since.
THEOREM LaunchIsWhole == ASSUME Forward PROVE Spec => []LaunchComplete
  <1>1. Init => Modes /\ Stored /\ Progress /\ Finished
    BY DEF Init, Modes, Stored, Progress, Finished, Launchable
  <1>2. IInv /\ Planned /\ Modes /\ Stored /\ Progress /\ Finished /\ [Next]_vars
        => Modes' /\ Stored' /\ Progress' /\ Finished'
    BY ForwardNext
  <1>3. IInv /\ Finished => LaunchComplete
    BY FinishedWhole
  <1>4. QED
    BY <1>1, <1>2, <1>3, SpecInvariant, PTL DEF Spec
=============================================================================
