----------------------------- MODULE FileTransfer -----------------------------
(***************************************************************************)
(* The tasks that bring one final file to its expected content: the check  *)
(* of the destination, the search for a reuse source over several volumes  *)
(* side by side, hard link or copy, the resumable download with its        *)
(* retries, and the repair from archive ranges. The file has Size units;   *)
(* contents are told apart by what the checks can see.                     *)
(*                                                                         *)
(* An operator with an underscore in its name is a faulty variant of the   *)
(* definition after it and in no specification.                            *)
(***************************************************************************)
EXTENDS Integers, Sequences, FiniteSets

CONSTANTS
  Source, SrcVolume, DestVolume,  \* reuse candidates and the volumes
  Size,                           \* units of the file
  ArchiveUnits,                   \* units an archive repair has to fetch
  Options,                        \* the options of the runs
  Starts,                         \* the destination and the partial download found at first
  MaxRetries, QueueDepth,         \* max_retries; chunks between the stream and the writer
  MaxFaults, MaxCrashes           \* bounds

Content == {"absent", "short", "wrong", "good"}
NoPart == [len |-> 0, ok |-> TRUE]
Option == [check : {"hash", "metadata", "none"}, prefer : BOOLEAN, copyOnly : BOOLEAN,
           copyFallback : BOOLEAN, url : BOOLEAN, archive : BOOLEAN]

ASSUME TransferAssumption ==
  /\ IsFiniteSet(Source) /\ SrcVolume \in [Source -> STRING] /\ DestVolume \in STRING
  /\ Size \in Nat \ {0} /\ ArchiveUnits \in Nat
  /\ Options \subseteq Option
  /\ Starts \subseteq [dest : Content, part : [len : 0 .. Size + 1, ok : BOOLEAN]]
  /\ {MaxRetries, MaxFaults, MaxCrashes} \subseteq Nat /\ QueueDepth \in Nat \ {0}

VARIABLES
  opt,               \* FileEnsureTask
  dest, part, src,   \* the file, its partial download, the reuse sources
  tasks, groups,     \* the live tasks; the ReuseCandidateGroups they share
  session, cached,   \* ArchiveRepairSession and whether the ranges it needs are cached
  commits, failed,   \* committed events; a task failed
  report, tampered, faults, crashes

disk == <<dest, part, src>>
shared == <<groups, session, cached>>
bounds == <<report, tampered, faults, crashes>>
vars == <<opt, disk, tasks, shared, commits, failed, bounds>>

-----------------------------------------------------------------------------
(* Tasks. *)

Repair(cands, force) == [k |-> "repair", cands |-> cands, force |-> force]
Download(retry, archive) == [k |-> "prepare", retry |-> retry, archive |-> archive]

\* ensure_file, ensure_file_metadata, materialize_file.
Root ==
  IF opt.prefer \/ opt.check = "none" THEN Repair(Source, opt.copyOnly)
  ELSE [k |-> "verify", how |-> opt.check, onFail |-> {Repair(Source, opt.copyOnly)}]

\* destination_or_repair_tasks: in relink mode the destination is checked before the network.
DirectDownload == IF opt.url THEN {Download(0, opt.archive)} ELSE {}
Fallback == IF opt.prefer THEN {[k |-> "verify", how |-> "hash", onFail |-> DirectDownload]}
            ELSE DirectDownload

\* start_archive_repair_index: the first caller starts the archive index.
IndexTask(wanted) == IF wanted /\ session = "idle" THEN {[k |-> "index"]} ELSE {}
IndexStarted(wanted) == session' = IF wanted /\ session = "idle" THEN "pending" ELSE session

Continue(t, next) == t \in tasks /\ tasks' = (tasks \ {t}) \cup next
\* task_list_run: no task to go on with is a failure.
ContinueOrFail(t, next) == Continue(t, next) /\ failed' = (failed \/ next = {})
Fault == faults < MaxFaults /\ faults' = faults + 1

Committed(t) == Continue(t, {}) /\ commits' = commits + 1 /\ UNCHANGED failed

\* retry_or_fail_download.
RetryOrFail(t, archive) ==
  ContinueOrFail(t, IF t.retry < MaxRetries THEN {Download(t.retry + 1, archive)} ELSE {})

-----------------------------------------------------------------------------
(* Checks of the destination. *)

\* run_verify, run_md5_verify_batch, run_metadata_verify: the metadata check sees the size only.
Accepted(how) == IF how = "metadata" THEN {"good", "wrong"} ELSE {"good"}

Verify(t) ==
  /\ t.k = "verify"
  /\ IF dest \in Accepted(t.how) THEN Continue(t, {}) /\ UNCHANGED failed
     ELSE ContinueOrFail(t, t.onFail)
  /\ UNCHANGED <<opt, disk, shared, commits, bounds>>

-----------------------------------------------------------------------------
(* Reuse. *)

\* run_repair_file: hard links on the destination's volume, copies from others if allowed, one
\* task per volume; copies wait until no volume has a source to link.
Linkable(c, force) == {s \in c : ~force /\ SrcVolume[s] = DestVolume}
Copyable(c, force) == IF force \/ opt.copyFallback THEN c \ Linkable(c, force) ELSE {}
ByVolume(c) == {{s \in c : SrcVolume[s] = v} : v \in {SrcVolume[s] : s \in c}}
Group(n, later, all) == [remaining |-> n, resolved |-> FALSE, later |-> later, all |-> all]
VolumeTasks(sets, copy, g) == {[k |-> "volume", cands |-> c, copy |-> copy, group |-> g] : c \in sets}

RepairFile(t) ==
  /\ t.k = "repair"
  /\ LET link == ByVolume(Linkable(t.cands, t.force))
         copy == ByVolume(Copyable(t.cands, t.force))
         index == IndexTask(opt.archive /\ ~opt.prefer)
     IN  \/ /\ link \cup copy = {}
            /\ ContinueOrFail(t, IF Fallback = {} THEN {} ELSE Fallback \cup index)
            /\ UNCHANGED groups
         \/ /\ link \cup copy # {}
            /\ LET first == IF link = {} THEN copy ELSE link
               IN  /\ groups' = Append(groups, Group(Cardinality(first), IF link = {} THEN {} ELSE copy,
                                                     UNION (link \cup copy)))
                   /\ Continue(t, VolumeTasks(first, link = {}, Len(groups) + 1) \cup index)
            /\ UNCHANGED failed
  /\ IndexStarted(opt.archive /\ ~opt.prefer)
  /\ UNCHANGED <<opt, disk, cached, commits, bounds>>

\* run_verify_reuse_volume: a volume's candidates are hashed until one is valid or another volume
\* has won ...
VolumeResolved(t) ==
  /\ t.k = "volume" /\ groups[t.group].resolved
  /\ Continue(t, {})
  /\ UNCHANGED <<opt, disk, shared, commits, failed, bounds>>
VolumeFind(t) ==
  /\ t.k = "volume"
  /\ LET valid == {s \in t.cands : src[s] = "good"}
         found(f) == [k |-> "found", cands |-> t.cands, copy |-> t.copy, group |-> t.group, found |-> f]
     IN  \/ valid # {} /\ \E s \in valid : Continue(t, {found({s})})
         \/ (valid = {} \/ groups[t.group].resolved) /\ Continue(t, {found({})})
  /\ UNCHANGED <<opt, disk, shared, commits, failed, bounds>>

\* ... finish_volume: the first source wins,
Reuse(t, s) == [k |-> "reuse", src |-> s, copy |-> t.copy, rest |-> groups[t.group].all \ {s}]
VolumeWins_Unclaimed(t) ==
  /\ t.k = "found" /\ t.found # {}
  /\ \E s \in t.found : Continue(t, {Reuse(t, s)})
  /\ groups' = [groups EXCEPT ![t.group].resolved = TRUE]
  /\ UNCHANGED <<opt, disk, session, cached, commits, failed, bounds>>
VolumeWins(t) ==
  /\ t.k = "found" /\ t.found # {}
  /\ \E s \in t.found : Continue(t, IF groups[t.group].resolved THEN {} ELSE {Reuse(t, s)})
  /\ groups' = [groups EXCEPT ![t.group].resolved = TRUE]
  /\ UNCHANGED <<opt, disk, session, cached, commits, failed, bounds>>
\* a volume without one is counted down,
VolumeEmpty(t) ==
  /\ t.k = "found" /\ t.found = {}
  /\ groups' = [groups EXCEPT ![t.group].remaining = @ - 1]
  /\ Continue(t, IF groups[t.group].remaining = 1 THEN {[k |-> "last", group |-> t.group]} ELSE {})
  /\ UNCHANGED <<opt, disk, session, cached, commits, failed, bounds>>
\* and the last one claims the group for the copies or the fallback.
VolumeLast(t) ==
  /\ t.k = "last"
  /\ LET g == groups[t.group]
         claimed == [groups EXCEPT ![t.group].resolved = TRUE, ![t.group].later = {}]
     IN  CASE g.resolved -> Continue(t, {}) /\ UNCHANGED <<groups, failed>>
           [] ~g.resolved /\ g.later # {} ->
                /\ groups' = Append(claimed, Group(Cardinality(g.later), {}, g.all))
                /\ Continue(t, VolumeTasks(g.later, TRUE, Len(groups) + 1)) /\ UNCHANGED failed
           [] ~g.resolved /\ g.later = {} -> groups' = claimed /\ ContinueOrFail(t, Fallback)
  /\ UNCHANGED <<opt, disk, session, cached, commits, bounds>>

\* finish_reuse_file after an error: the copy, the other candidates, the fallback.
AfterReuse(t) ==
  CASE ~t.copy /\ opt.copyFallback -> {[t EXCEPT !.k = "reuse", !.copy = TRUE]}
    [] (t.copy \/ ~opt.copyFallback) /\ t.rest # {} -> {Repair(t.rest, t.copy)}
    [] OTHER -> Fallback

\* create_hardlink: a link beside the destination renamed over it ...
HardLink(t) ==
  /\ t.k = "reuse" /\ ~t.copy /\ src[t.src] # "absent"
  /\ dest' = src[t.src]
  /\ Continue(t, {[t EXCEPT !.k = "linked"]})
  /\ UNCHANGED <<opt, part, src, shared, commits, failed, bounds>>
\* ... and the destination verified.
HardLinkVerify(t) ==
  /\ t.k = "linked"
  /\ IF dest = "good" THEN Committed(t) ELSE ContinueOrFail(t, AfterReuse(t)) /\ UNCHANGED commits
  /\ UNCHANGED <<opt, disk, shared, bounds>>
HardLinkError(t) ==
  /\ t.k = "reuse" /\ ~t.copy /\ Fault
  /\ ContinueOrFail(t, AfterReuse(t))
  /\ UNCHANGED <<opt, disk, shared, commits, report, tampered, crashes>>
\* copy_verified_file_async: only a copy with the right hash is renamed.
CopyFile(t) ==
  /\ t.k = "reuse" /\ t.copy
  /\ IF src[t.src] = "good" THEN dest' = "good" /\ Committed(t)
     ELSE ContinueOrFail(t, AfterReuse(t)) /\ UNCHANGED <<dest, commits>>
  /\ UNCHANGED <<opt, part, src, shared, bounds>>

-----------------------------------------------------------------------------
(* Download. *)

Transfer(t, p) == [k |-> "transfer", retry |-> t.retry, archive |-> t.archive, offset |-> p.len, ok |-> p.ok]
PrepareStarts(t, next) == Continue(t, next \cup IndexTask(t.archive)) /\ IndexStarted(t.archive)

\* prepare_download: a complete partial download is committed or removed, a longer one removed, and
\* the hash of a shorter one taken.
Complete == part.len = Size /\ part.ok
PrepareCommits(t) ==
  /\ Complete
  /\ dest' = "good" /\ part' = NoPart
  /\ Committed(t) /\ UNCHANGED session
PrepareClears(t) ==
  /\ part.len >= Size /\ ~Complete
  /\ part' = NoPart
  /\ PrepareStarts(t, {Transfer(t, NoPart)}) /\ UNCHANGED <<dest, commits, failed>>
PrepareResumes(t) ==
  /\ part.len < Size
  /\ PrepareStarts(t, {Transfer(t, part)}) /\ UNCHANGED <<dest, part, commits, failed>>
PrepareRetries_Wrong(t) ==
  /\ part.len = Size /\ ~part.ok
  /\ RetryOrFail(t, t.archive) /\ UNCHANGED <<dest, part, commits, session>>
Prepare_KeepsWrong(t) ==
  /\ t.k = "prepare"
  /\ \/ PrepareCommits(t) \/ PrepareRetries_Wrong(t) \/ PrepareResumes(t)
     \/ part.len > Size /\ PrepareClears(t)
  /\ UNCHANGED <<opt, src, groups, cached, bounds>>
Prepare(t) ==
  /\ t.k = "prepare"
  /\ PrepareCommits(t) \/ PrepareClears(t) \/ PrepareResumes(t)
  /\ UNCHANGED <<opt, src, groups, cached, bounds>>
PrepareError(t) ==
  /\ t.k = "prepare" /\ Fault
  /\ RetryOrFail(t, t.archive)
  /\ UNCHANGED <<opt, disk, shared, commits, report, tampered, crashes>>

\* select_file: a ready archive whose missing ranges are shorter than the rest of the download.
Selected(t) == t.archive /\ session = "ready" /\ (IF cached THEN 0 ELSE ArchiveUnits) < Size - t.offset
SelectArchive(t) ==
  /\ t.k = "transfer" /\ Selected(t)
  /\ Continue(t, {[k |-> "fetch", retry |-> t.retry]})
  /\ UNCHANGED <<opt, disk, shared, commits, failed, bounds>>

\* do_prepared_download: the answer. A server that ignores or rejects the range (HTTP 416) makes
\* the download start at zero, with an empty file and a new hash.
Body(t, got, ok) == [k |-> "body", retry |-> t.retry, got |-> got, ok |-> ok, bad |-> {}]
RespondRange(t) ==
  /\ t.k = "transfer" /\ ~Selected(t) /\ t.offset > 0
  /\ Continue(t, {Body(t, t.offset, t.ok)})
  /\ UNCHANGED <<opt, disk, shared, commits, failed, bounds>>
RespondFull_Resumed(t) ==
  /\ t.k = "transfer" /\ ~Selected(t)
  /\ IF t.offset > 0 THEN Fault ELSE UNCHANGED faults
  /\ Continue(t, {Body(t, 0, TRUE)})
  /\ UNCHANGED <<opt, disk, shared, commits, failed, report, tampered, crashes>>
RespondFull(t) ==
  /\ t.k = "transfer" /\ ~Selected(t)
  /\ IF t.offset > 0 THEN Fault ELSE UNCHANGED faults
  /\ part' = NoPart
  /\ Continue(t, {Body(t, 0, TRUE)})
  /\ UNCHANGED <<opt, dest, src, shared, commits, failed, report, tampered, crashes>>
\* An error, also of the second request after the partial file of a rejected range was removed.
RespondError(t) ==
  /\ t.k = "transfer" /\ ~Selected(t) /\ Fault
  /\ part' \in IF t.offset > 0 THEN {part, NoPart} ELSE {part}
  /\ RetryOrFail(t, FALSE)
  /\ UNCHANGED <<opt, dest, src, shared, commits, report, tampered, crashes>>

\* write_http_body: a chunk is hashed when it arrives and written behind a bounded queue. A chunk
\* may be wrong or too many.
Receive(t) ==
  /\ t.k = "body" /\ t.got <= Size /\ t.got - part.len < QueueDepth
  /\ \E good \in BOOLEAN :
       /\ IF good /\ t.got < Size THEN UNCHANGED faults ELSE Fault
       /\ Continue(t, {[t EXCEPT !.got = @ + 1, !.ok = @ /\ good, !.bad = IF good THEN @ ELSE @ \cup {t.got + 1}]})
  /\ UNCHANGED <<opt, disk, shared, commits, failed, report, tampered, crashes>>
WriteChunk(t) ==
  /\ t.k = "body" /\ t \in tasks /\ part.len < t.got
  /\ part' = [len |-> part.len + 1, ok |-> part.ok /\ part.len + 1 \notin t.bad]
  /\ UNCHANGED <<opt, dest, src, tasks, shared, commits, failed, bounds>>
\* The stream ends: size and hash decide. A stream that ends early is a fault.
BodyEnd_SizeOnly(t) ==
  /\ t.k = "body" /\ part.len = t.got
  /\ IF t.got < Size THEN Fault ELSE UNCHANGED faults
  /\ IF t.got = Size
     THEN dest' = (IF part.ok THEN "good" ELSE "wrong") /\ part' = NoPart /\ Committed(t)
     ELSE RetryOrFail(t, FALSE) /\ UNCHANGED <<dest, part, commits>>
  /\ UNCHANGED <<opt, src, shared, report, tampered, crashes>>
BodyEnd(t) ==
  /\ t.k = "body" /\ part.len = t.got
  /\ IF t.got < Size THEN Fault ELSE UNCHANGED faults
  /\ IF t.got = Size /\ t.ok
     THEN dest' = (IF part.ok THEN "good" ELSE "wrong") /\ part' = NoPart /\ Committed(t)
     ELSE RetryOrFail(t, FALSE) /\ UNCHANGED <<dest, part, commits>>
  /\ UNCHANGED <<opt, src, shared, report, tampered, crashes>>
\* A timeout, a broken connection or a write error drops what is in the queue.
BodyAborts(t) ==
  /\ t.k = "body" /\ Fault
  /\ RetryOrFail(t, FALSE)
  /\ UNCHANGED <<opt, disk, shared, commits, report, tampered, crashes>>

-----------------------------------------------------------------------------
(* Repair from archive ranges. *)

\* The directory and index tasks of ArchiveRun: ready, or failed without failing the run.
IndexDone(t) ==
  /\ t.k = "index"
  /\ \/ session' = "ready" /\ UNCHANGED faults
     \/ session' = "failed" /\ Fault
  /\ Continue(t, {})
  /\ UNCHANGED <<opt, disk, groups, cached, commits, failed, report, tampered, crashes>>
\* run_fetch_archive_repair_file, run_extract_archive_repair_file; an error drops the ranges and
\* goes back to the direct download, without the archive. A partial download that cannot be
\* removed is left.
DirectFallback(t) == cached' = FALSE /\ Continue(t, {Download(t.retry, FALSE)}) /\ Fault
FetchRepair(t) ==
  /\ t.k = "fetch"
  /\ \/ cached' = TRUE /\ Continue(t, {[t EXCEPT !.k = "extract"]}) /\ UNCHANGED faults
     \/ DirectFallback(t)
  /\ UNCHANGED <<opt, disk, groups, session, commits, failed, report, tampered, crashes>>
ExtractRepair(t) ==
  /\ t.k = "extract"
  /\ \/ dest' = "good" /\ part' \in {NoPart, part} /\ Committed(t) /\ UNCHANGED <<cached, faults>>
     \/ DirectFallback(t) /\ UNCHANGED <<dest, part, commits, failed>>
  /\ UNCHANGED <<opt, src, groups, session, report, tampered, crashes>>

-----------------------------------------------------------------------------
(* Runs. *)

Begin ==
  /\ tasks' = {Root} /\ groups' = <<>> /\ session' = "idle" /\ cached' = FALSE
  /\ commits' = 0 /\ failed' = FALSE /\ report' = "none"
Init ==
  /\ opt \in Options
  /\ \E s \in Starts : dest = s.dest /\ part = s.part
  /\ src \in [Source -> {"wrong", "good"}]
  /\ tasks = {Root} /\ groups = <<>> /\ session = "idle" /\ cached = FALSE
  /\ commits = 0 /\ failed = FALSE
  /\ report = "none" /\ tampered = FALSE /\ faults = 0 /\ crashes = 0

\* The batch ends with its last task: a failed one fails it.
Finish ==
  /\ tasks = {} /\ report = "none"
  /\ report' = IF failed THEN "failed" ELSE "ok"
  /\ UNCHANGED <<opt, disk, tasks, shared, commits, failed, tampered, faults, crashes>>
\* The user runs the command again.
Rerun ==
  /\ report = "failed" /\ opt.url
  /\ Begin
  /\ UNCHANGED <<opt, disk, tampered, faults, crashes>>
Crash ==
  /\ report = "none" /\ crashes < MaxCrashes
  /\ crashes' = crashes + 1
  /\ Begin
  /\ UNCHANGED <<opt, disk, tampered, faults>>
\* Somebody else changes a reuse source while the run goes on.
SourceChanges(s) ==
  /\ report = "none" /\ src[s] = "good" /\ Fault
  /\ src' = [src EXCEPT ![s] = "wrong"] /\ tampered' = TRUE
  /\ UNCHANGED <<opt, dest, part, tasks, shared, commits, failed, report, crashes>>

Step(t) ==
  \/ Verify(t) \/ RepairFile(t) \/ VolumeResolved(t) \/ VolumeFind(t) \/ VolumeWins(t)
  \/ VolumeEmpty(t) \/ VolumeLast(t) \/ HardLink(t) \/ HardLinkVerify(t) \/ CopyFile(t)
  \/ Prepare(t) \/ SelectArchive(t) \/ RespondRange(t) \/ RespondFull(t) \/ Receive(t)
  \/ WriteChunk(t) \/ BodyEnd(t) \/ IndexDone(t) \/ FetchRepair(t) \/ ExtractRepair(t)
Failure(t) == HardLinkError(t) \/ PrepareError(t) \/ RespondError(t) \/ BodyAborts(t)
Run == (\E t \in tasks : Step(t)) \/ Finish \/ Rerun
Stop == (report = "ok" \/ (report = "failed" /\ ~opt.url)) /\ UNCHANGED vars
Next == Run \/ (\E t \in tasks : Failure(t)) \/ Crash \/ (\E s \in Source : SourceChanges(s)) \/ Stop

Spec == Init /\ [][Next]_vars
\* The scheduler runs every live task; the network and the disk fail a bounded number of times.
FairSpec == Spec /\ WF_vars(Run)

-----------------------------------------------------------------------------
(* Properties. *)

\* Types; a group's counter never wraps below zero.
TypeOK ==
  /\ opt \in Options /\ dest \in Content
  /\ part \in [len : 0 .. Size + 1, ok : BOOLEAN] /\ src \in [Source -> Content]
  /\ \A i \in DOMAIN groups : groups[i].remaining >= 0
  /\ session \in {"idle", "pending", "ready", "failed"} /\ cached \in BOOLEAN
  /\ report \in {"none", "ok", "failed"}

\* However many volumes find a source, give up or hand over to the copies at the same time, one
\* task at most goes on to write the file (compare_exchange in finish_volume), and the run
\* reports one commit.
Writing == {"repair", "verify", "reuse", "linked", "prepare", "transfer", "body", "fetch", "extract"}
OneWriter ==
  /\ Cardinality({t \in tasks : t.k \in Writing}) <= 1
  /\ commits <= 1
  /\ commits = 1 => \A t \in tasks : t.k \notin Writing

\* The incremental hash stands for the bytes in the partial file, through resumes, ignored or
\* rejected ranges and chunks still in the queue.
HashIsOfFile ==
  \A t \in tasks : t.k = "body" =>
    /\ part.len <= t.got
    /\ t.ok <=> part.ok /\ \A i \in part.len + 1 .. t.got : i \notin t.bad

\* The tasks implement EnsureFile: the destination changes to its expected content or not at all
\* unless a source was changed under the run, a run that reports success leaves an accepted file
\* however the tasks interleaved, and no task is left to touch it.
Ensure == INSTANCE EnsureFile WITH accepts <- Accepted(opt.check)
ImplementsEnsureFile == Ensure!Spec

\* With a download address, running again ends with success: no partial download, failed archive
\* or used-up retry is carried from run to run.
Recovers == opt.url => <>(report = "ok")
=============================================================================
