------------------------------ MODULE ArchiveRun ------------------------------
(***************************************************************************)
(* One full-package archive from OpenArchive to CleanupArchive: the byte   *)
(* ranges fetched into the range cache, the directory and the index read   *)
(* from them, the extraction shards that run in parallel and commit their  *)
(* entries, the volumes that are rebuilt when the archive is kept, and     *)
(* what a crash or a failed run leaves on disk for the next one.           *)
(*                                                                         *)
(* Bytes are units 0 .. Total - 1 of the concatenated volumes; a range is  *)
(* lo .. hi - 1. A fetched range may hold wrong bytes (good = FALSE): the  *)
(* server answered 206 with the right length, nothing else is checked      *)
(* when it is fetched. The task graph's order is the readiness of each     *)
(* task below: a task starts when what it depends on has succeeded, and is *)
(* skipped when that failed.                                               *)
(*                                                                         *)
(* An operator with an underscore in its name is a faulty variant of the   *)
(* definition after it and in no specification.                            *)
(***************************************************************************)
EXTENDS Integers, Sequences, FiniteSets, SequencesExt

CONSTANTS
  VolumeEnd,       \* end of each volume in the concatenated stream
  Start,           \* local header offset of each entry, in index order
  Packed,          \* header plus compressed bytes of each entry
  CentralStart,    \* where the central directory starts
  TailSearch,      \* units the end record is searched in
  Controls,        \* entries that are control files
  Excluded,        \* entries excluded_commit_paths keeps out
  TargetShards,    \* extract_shards
  ShardBytes,      \* MAX_STREAMING_SHARD_SOURCE_BYTES
  ShardEntries,    \* MAX_STREAMING_SHARD_ENTRIES
  MaxRetries,      \* max_retries of a range download
  MaxFaults,       \* bound: wrong bytes and ranges given up
  MaxCrashes       \* bound: crashes

Volume == DOMAIN VolumeEnd
Entry == DOMAIN Start
Total == VolumeEnd[Len(VolumeEnd)]
Unit == 0 .. Total - 1

ASSUME ArchiveAssumption ==
  /\ VolumeEnd \in Seq(Nat \ {0}) /\ VolumeEnd # <<>>
  /\ \A v \in Volume : v > 1 => VolumeEnd[v - 1] < VolumeEnd[v]
  /\ Start \in Seq(Nat) /\ Packed \in [Entry -> Nat \ {0}]
  /\ CentralStart \in Nat /\ CentralStart <= Total /\ TailSearch \in Nat
  /\ Controls \subseteq Entry /\ Excluded \subseteq Entry \ Controls
  /\ {MaxRetries, MaxFaults, MaxCrashes} \subseteq Nat
  /\ TargetShards \in Nat /\ ShardBytes \in Nat \ {0} /\ ShardEntries \in Nat \ {0}

VARIABLES
  remote, keep,     \* ArchiveSource::Remote, retention.keeps_full_volumes()
  vol, temp,        \* each volume's file and its .griffr-volume.part, on disk
  cache,            \* the .range files, on disk and in layout.ranges
  registered,       \* volumes whose full file is in layout.ranges
  phase,            \* the task of the archive chain that runs next
  fetches, broken,  \* FetchArchiveRange tasks; tasks one of whose fetches failed
  plan,             \* the extraction shards
  pc, todo, snap,   \* a shard's step, the entries it has left, ranges it saw needed
  active, failed, reported,   \* ArchiveShardRunState
  slots,            \* ArchiveRangeReleaseState.remaining: shards not finished
  prepared, staging,          \* work.prepared; the staging directory exists
  retain, saved, snapV,       \* a RetainArchiveVolume's step; saved_volumes
  invalid,          \* cache_invalid
  installed,        \* what the install root holds for each entry
  faults, crashes

disk == <<vol, temp, cache, staging, installed>>
shardVars == <<pc, todo, snap, active, failed, reported, slots>>
retainVars == <<retain, saved, snapV>>
vars == <<remote, keep, disk, registered, phase, fetches, broken, plan, shardVars, prepared,
          retainVars, invalid, faults, crashes>>

-----------------------------------------------------------------------------
(* Ranges: the layout's arithmetic. *)

VolumeStart(v) == IF v = 1 THEN 0 ELSE VolumeEnd[v - 1]
VolumeOf == [u \in Unit |-> CHOOSE v \in Volume : VolumeStart(v) <= u /\ u < VolumeEnd[v]]
Units(r) == r.lo .. r.hi - 1
Before(a, b) == a.lo < b.lo \/ (a.lo = b.lo /\ (a.hi < b.hi \/ (a.hi = b.hi /\ ~a.full /\ b.full)))
Smaller(a, b) == IF a < b THEN a ELSE b
Larger(a, b) == IF a > b THEN a ELSE b

\* The elements of a set in an order: each one's place is how many come before it.
InOrder(S, before(_, _)) ==
  LET place == [x \in S |-> Cardinality({y \in S : before(y, x)}) + 1]
  IN  [i \in 1 .. Cardinality(S) |-> CHOOSE x \in S : place[x] = i]

\* insert_cached_range: what layout.ranges holds of a volume, in its order. A volume file counts
\* as one range; only its length is looked at, so a wrong one has wrong bytes.
Ranges(v) ==
  {r \in cache : r.vol = v} \cup
  {[vol |-> v, lo |-> VolumeStart(v), hi |-> VolumeEnd[v],
    good |-> vol[v] = "full", full |-> TRUE] : w \in registered \cap {v}}
Cached(v) == InOrder(Ranges(v), Before)

\* Mutant: a range behind a gap still moves the cursor.
CoverStep_NoGap(acc, r) ==
  IF acc.found # "open" \/ r.hi <= acc.cursor THEN acc
  ELSE [cursor |-> r.hi, end |-> acc.end, found |-> IF r.hi >= acc.end THEN "covered" ELSE "open"]

\* range_covered: one pass over the sorted ranges with a cursor.
CoverStep(acc, r) ==
  IF acc.found # "open" \/ r.hi <= acc.cursor THEN acc
  ELSE IF r.lo > acc.cursor THEN [cursor |-> acc.cursor, end |-> acc.end, found |-> "gap"]
  ELSE [cursor |-> r.hi, end |-> acc.end, found |-> IF r.hi >= acc.end THEN "covered" ELSE "open"]

RangeCovered(v, lo, hi) ==
  lo >= hi \/ FoldLeft(CoverStep, [cursor |-> lo, end |-> hi, found |-> "open"],
                       Cached(v)).found = "covered"

\* volume_index_bounds and the clipping of a range to each volume it touches.
Clipped(r, v) == [lo |-> Larger(r.lo, VolumeStart(v)), hi |-> Smaller(r.hi, VolumeEnd[v])]
Touches(r, v) == r.lo < r.hi /\ VolumeStart(v) < r.hi /\ r.lo < VolumeEnd[v]

\* range_is_available.
Available(r) ==
  \A v \in Volume : Touches(r, v) => RangeCovered(v, Clipped(r, v).lo, Clipped(r, v).hi)

\* missing_range_requests first merges the requested ranges of a volume.
MergeStep(merged, r) ==
  IF merged # <<>> /\ r.lo <= Last(merged).hi
  THEN [merged EXCEPT ![Len(merged)] = [lo |-> @.lo, hi |-> Larger(@.hi, r.hi)]]
  ELSE Append(merged, r)

Merged(ranges, v) ==
  FoldLeft(MergeStep, <<>>,
           InOrder({Clipped(r, v) : r \in {x \in ranges : Touches(x, v)}},
                   LAMBDA a, b : a.lo < b.lo \/ (a.lo = b.lo /\ a.hi < b.hi)))

\* subtract_cached: the gaps the cursor steps over, and what is left behind the last range.
SubtractStep(acc, r) ==
  IF acc.cursor >= acc.end \/ r.hi <= acc.cursor \/ r.lo >= acc.end THEN acc
  ELSE [cursor |-> Larger(acc.cursor, r.hi), end |-> acc.end,
        missing |-> acc.missing \cup
                      (IF r.lo > acc.cursor
                       THEN {[lo |-> acc.cursor, hi |-> Smaller(r.lo, acc.end)]} ELSE {})]

Subtract(req, v) ==
  LET acc == FoldLeft(SubtractStep, [cursor |-> req.lo, end |-> req.hi, missing |-> {}], Cached(v))
  IN  acc.missing \cup (IF acc.cursor < req.hi THEN {[lo |-> acc.cursor, hi |-> req.hi]} ELSE {})

\* missing_range_requests.
Requests(ranges) ==
  UNION {UNION {{[vol |-> v, lo |-> m.lo, hi |-> m.hi] : m \in Subtract(req, v)} :
                req \in ToSet(Merged(ranges, v))} : v \in Volume}

\* Mutant: only a range that lies inside what is cached keeps it.
Prunable_Inside(needed) ==
  {r \in cache : ~\E n \in needed : n.lo >= r.lo /\ n.hi <= r.hi}

\* prune_range_cache: a cached range no needed range overlaps is removed; a volume file never is.
\* stuck are the files the system refuses to remove because they are still open.
Prunable(needed) ==
  {r \in cache : ~\E n \in needed : n.lo < r.hi /\ n.hi > r.lo}
Pruned(needed, stuck) == cache \ (Prunable(needed) \ stuck)

\* select_segment: the last range in order that holds the unit.
Segments(u) == {r \in Ranges(VolumeOf[u]) : u \in Units(r)}
Segment(u) == CHOOSE r \in Segments(u) : \A o \in Segments(u) : o = r \/ Before(o, r)
Reads(r) ==
  CASE \E u \in Units(r) : Segments(u) = {}     -> "missing"
    [] \E u \in Units(r) : ~Segment(u).good     -> "wrong"
    [] OTHER                                    -> "good"

-----------------------------------------------------------------------------
(* The index: where the entries' bytes are. *)

TailProbe == [lo |-> Larger(0, Total - TailSearch), hi |-> Total]
Directory == [lo |-> CentralStart, hi |-> Total]

\* The checks read_archive_index makes on the offsets before it accepts the archive.
OffsetsValid ==
  /\ \A e \in Entry : Start[e] < CentralStart
  /\ \A e, f \in Entry : e # f => Start[e] # Start[f]

\* An entry's source range runs to the next local header, or to the central directory.
Source == [e \in Entry |->
  [lo |-> Start[e],
   hi |-> LET after == {Start[f] : f \in Entry} \cap (Start[e] + 1 .. CentralStart)
          IN  IF after = {} THEN CentralStart ELSE CHOOSE s \in after : \A t \in after : s <= t]]
SourcesValid == OffsetsValid /\ \A e \in Entry : Start[e] + Packed[e] <= Source[e].hi
Sources(entries) == {Source[e] : e \in entries}
VolumesOf == [e \in Entry |-> {v \in Volume : Touches(Source[e], v)}]

-----------------------------------------------------------------------------
(* Shards: extraction_shards_for_indices. *)

Cost(e) == Packed[e] + 1
TotalCost(entries) == FoldLeft(LAMBDA sum, e : sum + Cost(e), 0, entries)
DivCeil(a, b) == (a + b - 1) \div b

\* Entries are bucketed by the last volume they need, in source order within a bucket.
ReleaseVolume(e) == CHOOSE v \in VolumesOf[e] : \A w \in VolumesOf[e] : w <= v
Bucket(entries, v) ==
  InOrder({e \in entries : ReleaseVolume(e) = v}, LAMBDA a, b : Start[a] < Start[b])

\* partition_entries_by_limits.
LimitStep(groups, e) ==
  LET last == Last(groups)
      bytes == FoldLeft(LAMBDA sum, x : sum + (Source[x].hi - Source[x].lo), 0, last)
  IN  IF groups # <<>> /\ bytes + (Source[e].hi - Source[e].lo) <= ShardBytes
                       /\ Len(last) < ShardEntries
      THEN [groups EXCEPT ![Len(groups)] = Append(@, e)]
      ELSE Append(groups, <<e>>)

BaseGroups(entries) ==
  FlattenSeq([v \in Volume |-> FoldLeft(LimitStep, <<>>, Bucket(entries, v))])

\* Spare shards go, one at a time, to the group whose shards would still be the most expensive.
AllocateStep(groups, alloc) ==
  LET open == {i \in DOMAIN groups : Len(groups[i]) > alloc[i]}
      share(i) == DivCeil(TotalCost(groups[i]), alloc[i] + 1)
      best == CHOOSE i \in open : \A j \in open :
                share(j) < share(i) \/ (share(j) = share(i) /\ j <= i)
  IN  IF open = {} THEN alloc ELSE [alloc EXCEPT ![best] = @ + 1]

Allocations(groups, spare) ==
  FoldLeft(LAMBDA alloc, i : AllocateStep(groups, alloc), [i \in DOMAIN groups |-> 1],
           [i \in 1 .. spare |-> i])

\* partition_entries: a group is closed when it has its share of the cost, or when as many entries
\* as groups are left.
PartitionStep(acc, e) ==
  LET cur == Append(acc.cur, e)
      leftEntries == acc.left - 1
      leftGroups == acc.parts - (Len(acc.groups) + 1)
      close == leftGroups > 0 /\ leftEntries >= leftGroups
                 /\ (TotalCost(cur) >= acc.target \/ leftEntries = leftGroups)
  IN  [groups |-> IF close THEN Append(acc.groups, cur) ELSE acc.groups,
       cur |-> IF close THEN <<>> ELSE cur,
       left |-> leftEntries, parts |-> acc.parts, target |-> acc.target]

Partition(entries, requested) ==
  LET parts == Smaller(Larger(requested, 1), Len(entries))
      acc == FoldLeft(PartitionStep,
                      [groups |-> <<>>, cur |-> <<>>, left |-> Len(entries), parts |-> parts,
                       target |-> Larger(DivCeil(TotalCost(entries), parts), 1)], entries)
  IN  IF parts = 1 THEN <<entries>>
      ELSE IF acc.cur = <<>> THEN acc.groups ELSE Append(acc.groups, acc.cur)

Shards(entries, target) ==
  LET n == Cardinality(entries)
      base == BaseGroups(entries)
      want == Smaller(Larger(Smaller(Larger(target, 1), n), Len(base)), n)
      alloc == Allocations(base, want - Len(base))
  IN  IF n = 0 THEN <<>>
      ELSE FlattenSeq([i \in DOMAIN base |-> Partition(base[i], alloc[i])])

-----------------------------------------------------------------------------
(* The run. *)

FinalPc == {"ok", "failed", "silent", "cancelled"}
PcValues == {"blocked", "peeked", "adding", "recheck", "extracting", "pruning", "failing",
             "leaveOk", "leaveErr", "leaveLoud", "lastOk", "lastErr", "lastLoud"} \cup FinalPc
Shard == DOMAIN plan
\* Which task waits for a fetch: the chain's next one, a shard or a volume's saver.
Chain == <<"chain", 0>>
ShardOwner(s) == <<"shard", s>>
VolumeOwner(v) == <<"volume", v>>
Fetched(owner) == \A f \in fetches : f.owner # owner
Readers(v) == {s \in Shard : \E e \in ToSet(plan[s].entries) : v \in VolumesOf[e]}
Saves == keep /\ remote                                    \* should_save_full_volumes

Init ==
  /\ remote \in BOOLEAN /\ keep \in BOOLEAN
  /\ vol \in [Volume -> IF remote THEN {"absent", "wrong", "full"} ELSE {"wrong", "full"}]
  /\ temp = [v \in Volume |-> "absent"]
  /\ cache = {} /\ registered = {}
  /\ phase = "open"
  /\ fetches = {} /\ broken = {} /\ plan = <<>>
  /\ pc = <<>> /\ todo = <<>> /\ snap = <<>>
  /\ active = 0 /\ failed = FALSE /\ reported = FALSE /\ slots = {}
  /\ prepared = FALSE /\ staging = FALSE
  /\ retain = [v \in Volume |-> "wait"] /\ saved = {} /\ snapV = [v \in Volume |-> {}]
  /\ invalid = FALSE
  /\ installed = [e \in Entry |-> "old"]
  /\ faults = 0 /\ crashes = 0

\* prepare_trusted_archive_files: a volume is kept only when its MD5 matches; a complete partial
\* is promoted; everything else of the volume is removed.
Trusted(v) == IF vol[v] = "full" \/ temp[v] = "ready" THEN "full" ELSE "absent"

\* run_open_archive: the layout is built from what the disk holds; a local archive is taken as
\* it is and a remote one loads the cached ranges of an earlier run.
OpenArchive ==
  /\ phase \in {"open", "failed"}
  /\ IF remote
     THEN /\ vol' = [v \in Volume |-> Trusted(v)]
          /\ temp' = [v \in Volume |-> "absent"]
          /\ registered' = {v \in Volume : vol'[v] = "full"}
     ELSE registered' = Volume /\ UNCHANGED <<vol, temp>>
  /\ phase' = "discover"
  /\ UNCHANGED <<remote, keep, cache, staging, installed, fetches, broken, plan, shardVars,
                 prepared, retainVars, invalid, faults, crashes>>

\* fail_archive_work: the archive fails and, when it is remote, its range cache is not trusted.
FailArchive ==
  /\ phase' = "failing"
  /\ invalid' = remote
  /\ UNCHANGED <<remote, keep, disk, registered, fetches, broken, plan, shardVars, prepared,
                 retainVars, faults, crashes>>

\* fetch_ranges_then: the missing ranges are fetched before the next task of the chain runs.
FetchFor(owner, ranges) ==
  /\ fetches' = fetches \cup {[range |-> r, owner |-> owner, tries |-> 0] : r \in Requests(ranges)}
  /\ UNCHANGED <<remote, keep, disk, registered, phase, broken, plan, shardVars, prepared,
                 retainVars, invalid, faults, crashes>>

ChainAt(here) == phase = here /\ Fetched(Chain) /\ Chain \notin broken
ChainTo(next) ==
  /\ phase' = next
  /\ UNCHANGED <<remote, keep, disk, registered, fetches, broken, plan, shardVars, prepared,
                 retainVars, invalid, faults, crashes>>

\* run_discover_archive_directory: the end record is searched in the tail of the stream.
Discover ==
  /\ ChainAt("discover")
  /\ IF ~Available(TailProbe) THEN FetchFor(Chain, {TailProbe})
     ELSE IF Reads(TailProbe) = "good" THEN ChainTo("index") ELSE FailArchive

\* InspectArchiveIndex, once the directory's ranges are there: run_read_archive_index.
ReadIndex ==
  /\ ChainAt("index")
  /\ IF ~Available(Directory) THEN FetchFor(Chain, {Directory})
     ELSE IF Reads(Directory) = "good" /\ SourcesValid THEN ChainTo("controls") ELSE FailArchive

\* full_archive_entry_groups: the direct entries are spread over the shards, the control files
\* are one deferred shard whose files stay in the staging directory.
Planned ==
  LET grouped(groups, direct) == [i \in DOMAIN groups |-> [entries |-> groups[i], direct |-> direct]]
  IN  grouped(Shards(Entry \ (Controls \cup Excluded), TargetShards), TRUE) \o
      grouped(Shards(Controls, 1), FALSE)

\* ReadArchiveControls and, in the same task, run_plan_archive_extraction, which makes the staging
\* directory and expands the extraction. Every shard waits for the ranges that are missing now.
PlanExtraction ==
  /\ ChainAt("controls")
  /\ IF Requests(Sources(Controls)) # {} THEN FetchFor(Chain, Sources(Controls))
     ELSE IF \E e \in Controls : Reads(Source[e]) # "good" THEN FailArchive
     ELSE /\ plan' = Planned
          /\ pc' = [s \in DOMAIN plan' |-> "blocked"] /\ snap' = [s \in DOMAIN plan' |-> {}]
          /\ todo' = [s \in DOMAIN plan' |-> plan'[s].entries]
          /\ slots' = IF remote /\ ~keep THEN DOMAIN plan' ELSE {}
          /\ fetches' = UNION {{[range |-> r, owner |-> ShardOwner(s), tries |-> 0] :
                          r \in Requests(Sources(ToSet(plan'[s].entries)))} : s \in DOMAIN plan'}
          /\ prepared' = TRUE /\ staging' = TRUE
          /\ phase' = "extract"
          /\ UNCHANGED <<remote, keep, vol, temp, cache, installed, registered, broken,
                         active, failed, reported, retainVars, invalid, faults, crashes>>

-----------------------------------------------------------------------------
(* FetchArchiveRange. *)

\* run_fetch_archive_range: the range is fetched (or is already there) and registered.
FetchDone(f, good) ==
  /\ cache' = IF Available(f.range) THEN cache
              ELSE cache \cup {[vol |-> f.range.vol, lo |-> f.range.lo, hi |-> f.range.hi,
                                good |-> good, full |-> FALSE]}
  /\ fetches' = fetches \ {f}
  /\ faults' = faults + (IF good THEN 0 ELSE 1)
  /\ UNCHANGED <<remote, keep, vol, temp, staging, installed, registered, phase, broken, plan,
                 shardVars, prepared, retainVars, invalid, crashes>>
Fetch(f) == FetchDone(f, TRUE)
FetchWrongBytes(f) == faults < MaxFaults /\ ~Available(f.range) /\ FetchDone(f, FALSE)

\* A failed attempt is retried as a continuation of the task, then gives the range up. The part
\* that was written stays on disk, and so does the rest of the cache.
FetchRetry(f) ==
  /\ f.tries < MaxRetries
  /\ fetches' = (fetches \ {f}) \cup {[range |-> f.range, owner |-> f.owner, tries |-> f.tries + 1]}
  /\ UNCHANGED <<remote, keep, disk, registered, phase, broken, plan, shardVars, prepared,
                 retainVars, invalid, faults, crashes>>
FetchGiveUp(f) ==
  /\ f.tries = MaxRetries /\ faults < MaxFaults
  /\ fetches' = fetches \ {f}
  /\ broken' = broken \cup {f.owner}
  /\ faults' = faults + 1
  /\ UNCHANGED <<remote, keep, disk, registered, phase, plan, shardVars, prepared, retainVars,
                 invalid, crashes>>

-----------------------------------------------------------------------------
(* ExtractArchiveShard. The steps of ArchiveShardRunState are its atomic    *)
(* operations, so that other shards run between them.                       *)

ShardStep(s, from, to) ==
  /\ phase = "extract" /\ pc[s] = from
  /\ pc' = [pc EXCEPT ![s] = to]
  /\ UNCHANGED <<remote, keep, vol, temp, registered, phase, fetches, broken, plan, retainVars,
                 faults, crashes>>

\* cleanup_prepared takes the prepared state and removes its staging directory.
CleanupPrepared(when) ==
  IF when THEN prepared' = FALSE /\ staging' = (staging /\ ~prepared)
          ELSE UNCHANGED <<prepared, staging>>

\* try_begin, first load: an earlier failure cancels the shard.
TryBegin(s) ==
  /\ Fetched(ShardOwner(s)) /\ ShardOwner(s) \notin broken
  /\ ShardStep(s, "blocked", IF failed THEN "peeked" ELSE "adding")
  /\ UNCHANGED <<todo, snap, active, failed, reported, slots, cache, staging, prepared, installed,
                 invalid>>
\* ... and removes the staging directory if no shard is active.
Peek(s) ==
  /\ ShardStep(s, "peeked", "cancelled")
  /\ CleanupPrepared(active = 0)
  /\ UNCHANGED <<todo, snap, active, failed, reported, slots, cache, installed, invalid>>
CountIn(s) ==
  /\ ShardStep(s, "adding", "recheck")
  /\ active' = active + 1
  /\ UNCHANGED <<todo, snap, failed, reported, slots, cache, staging, prepared, installed, invalid>>
\* try_begin, second load: a failure that came in between takes the shard out again.
Recheck(s) ==
  /\ ShardStep(s, "recheck", IF failed THEN "cancelled" ELSE "extracting")
  /\ active' = IF failed THEN active - 1 ELSE active
  /\ CleanupPrepared(failed /\ active = 1)
  /\ UNCHANGED <<todo, snap, failed, reported, slots, cache, installed, invalid>>

\* extract_entries_with_progress_and_file: the next entry is read, checked and, in a direct shard,
\* moved into the install root. Missing parent directories are made again, the staging directory
\* included.
ExtractEntry(s) ==
  /\ ShardStep(s, "extracting", "extracting")
  /\ todo[s] # <<>> /\ Reads(Source[Head(todo[s])]) = "good"
  /\ todo' = [todo EXCEPT ![s] = Tail(@)]
  /\ staging' = TRUE
  /\ installed' = IF plan[s].direct THEN [installed EXCEPT ![Head(todo[s])] = "new"] ELSE installed
  /\ UNCHANGED <<snap, active, failed, reported, slots, cache, prepared, invalid>>
\* A wrong or missing range fails the shard and the range cache is not trusted any more.
ExtractError(s) ==
  /\ ShardStep(s, "extracting", "failing")
  /\ todo[s] # <<>> /\ Reads(Source[Head(todo[s])]) # "good"
  /\ invalid' = remote
  /\ UNCHANGED <<todo, snap, active, failed, reported, slots, cache, staging, prepared, installed>>

\* finish_shard, under the lock: the shard gives its slot up and notes what the others still need.
ExtractDone(s) ==
  /\ ShardStep(s, "extracting", IF s \in slots THEN "pruning" ELSE "leaveOk")
  /\ todo[s] = <<>>
  /\ slots' = slots \ {s}
  /\ snap' = [snap EXCEPT ![s] = UNION {Sources(ToSet(plan[t].entries)) : t \in slots \ {s}}]
  /\ UNCHANGED <<todo, active, failed, reported, cache, staging, prepared, installed, invalid>>
\* ... and prunes the cache with that note after the lock is released.
PruneRanges(s) ==
  /\ ShardStep(s, "pruning", "leaveOk")
  /\ \E stuck \in {{}, Prunable(snap[s])} : cache' = Pruned(snap[s], stuck)
  /\ snap' = [snap EXCEPT ![s] = {}]
  /\ UNCHANGED <<todo, active, failed, reported, slots, staging, prepared, installed, invalid>>

\* finish: the failure is stored and only its first reporter is loud.
StoreFailure(s) ==
  /\ ShardStep(s, "failing", IF reported THEN "leaveErr" ELSE "leaveLoud")
  /\ failed' = TRUE /\ reported' = TRUE
  /\ UNCHANGED <<todo, snap, active, slots, cache, staging, prepared, installed, invalid>>
\* ... the shard is counted out, and the last one looks at the failure again.
Outcome == [leaveOk |-> "ok", leaveErr |-> "silent", leaveLoud |-> "failed",
            lastOk |-> "ok", lastErr |-> "silent", lastLoud |-> "failed"]
LastOut == [leaveOk |-> "lastOk", leaveErr |-> "lastErr", leaveLoud |-> "lastLoud"]
CountOut(s) ==
  /\ pc[s] \in DOMAIN LastOut
  /\ ShardStep(s, pc[s], IF active = 1 THEN LastOut[pc[s]] ELSE Outcome[pc[s]])
  /\ active' = active - 1
  /\ UNCHANGED <<todo, snap, failed, reported, slots, cache, staging, prepared, installed, invalid>>
\* Mutant: the last shard out always removes the staging directory.
LeaveLast_Always(s) ==
  /\ pc[s] \in {"lastOk", "lastErr", "lastLoud"}
  /\ ShardStep(s, pc[s], Outcome[pc[s]])
  /\ CleanupPrepared(TRUE)
  /\ UNCHANGED <<todo, snap, active, failed, reported, slots, cache, installed, invalid>>
LeaveLast(s) ==
  /\ pc[s] \in {"lastOk", "lastErr", "lastLoud"}
  /\ ShardStep(s, pc[s], Outcome[pc[s]])
  /\ CleanupPrepared(failed)
  /\ UNCHANGED <<todo, snap, active, failed, reported, slots, cache, installed, invalid>>

-----------------------------------------------------------------------------
(* RetainArchiveVolume: a kept archive's volumes are rebuilt from ranges.   *)

RetainReady(v) ==
  /\ phase = "extract" /\ Saves
  /\ Fetched(VolumeOwner(v)) /\ VolumeOwner(v) \notin broken
  /\ \A s \in Readers(v) : pc[s] = "ok"
RetainStep(v, from, to) ==
  /\ RetainReady(v) /\ retain[v] = from
  /\ retain' = [retain EXCEPT ![v] = to]
  /\ UNCHANGED <<remote, keep, cache, staging, installed, phase, fetches, broken, plan, shardVars,
                 prepared, saved, snapV, faults, crashes>>
WholeVolume(v) == [lo |-> VolumeStart(v), hi |-> VolumeEnd[v]]

\* run_retain_archive_volume: what is missing of the volume is fetched first.
RetainFetch(v) ==
  /\ RetainReady(v) /\ retain[v] = "wait"
  /\ Requests({WholeVolume(v)}) # {}
  /\ FetchFor(VolumeOwner(v), {WholeVolume(v)})
\* save_archive_volume: nothing is written when the volume's file is there.
RetainPresent(v) ==
  /\ Requests({WholeVolume(v)}) = {} /\ vol[v] = "full"
  /\ RetainStep(v, "wait", "written")
  /\ UNCHANGED <<vol, temp, registered, invalid>>
\* write_archive_volume: the temporary file is written, synced and hashed on the way.
RetainWrite(v) ==
  /\ Requests({WholeVolume(v)}) = {} /\ vol[v] # "full"
  /\ RetainStep(v, "wait", "writing")
  /\ temp' = [temp EXCEPT ![v] = "torn"]
  /\ UNCHANGED <<vol, registered, invalid>>
RetainSync(v) ==
  /\ Reads(WholeVolume(v)) = "good"
  /\ RetainStep(v, "writing", "synced")
  /\ temp' = [temp EXCEPT ![v] = "ready"]
  /\ UNCHANGED <<vol, registered, invalid>>
\* A wrong hash removes the temporary file; the range cache is not trusted any more.
RetainWrong(v) ==
  /\ Reads(WholeVolume(v)) # "good"
  /\ RetainStep(v, "writing", "failed")
  /\ temp' = [temp EXCEPT ![v] = "absent"]
  /\ invalid' = TRUE
  /\ UNCHANGED <<vol, registered>>
RetainCommit(v) ==
  /\ RetainStep(v, "synced", "written")
  /\ vol' = [vol EXCEPT ![v] = "full"] /\ temp' = [temp EXCEPT ![v] = "absent"]
  /\ UNCHANGED <<registered, invalid>>
\* register_full_volume, then mark_volume_saved under its lock.
RetainMark(v) ==
  /\ RetainReady(v) /\ retain[v] = "written"
  /\ registered' = registered \cup {v}
  /\ saved' = saved \cup {v}
  /\ snapV' = [snapV EXCEPT ![v] = {WholeVolume(w) : w \in Volume \ saved'}]
  /\ retain' = [retain EXCEPT ![v] = "marked"]
  /\ UNCHANGED <<remote, keep, disk, phase, fetches, broken, plan, shardVars, prepared, invalid,
                 faults, crashes>>
\* ... and the prune that follows it without the lock.
RetainPrune(v) ==
  /\ RetainReady(v) /\ retain[v] = "marked"
  /\ \E stuck \in {{}, Prunable(snapV[v])} : cache' = Pruned(snapV[v], stuck)
  /\ snapV' = [snapV EXCEPT ![v] = {}]
  /\ retain' = [retain EXCEPT ![v] = "ok"]
  /\ UNCHANGED <<remote, keep, vol, temp, staging, installed, registered, phase, fetches, broken,
                 plan, shardVars, prepared, saved, invalid, faults, crashes>>

-----------------------------------------------------------------------------
(* FinishArchive, CleanupArchive and the end of a run. *)

\* Mutant: FinishArchive waits for one shard only.
FinishReady_One ==
  /\ phase = "extract" /\ fetches = {} /\ broken = {}
  /\ IF Saves THEN \A v \in Volume : retain[v] = "ok" ELSE \E s \in Shard : pc[s] = "ok"
FinishReady ==
  /\ phase = "extract" /\ fetches = {} /\ broken = {}
  /\ IF Saves THEN \A v \in Volume : retain[v] = "ok" ELSE \A s \in Shard : pc[s] = "ok"

\* finish_archive: the deferred control files are committed and the staging directory removed.
FinishArchive ==
  /\ FinishReady
  /\ IF prepared
     THEN /\ installed' = [e \in Entry |-> IF e \in Controls THEN "new" ELSE installed[e]]
          /\ staging' = FALSE /\ prepared' = FALSE /\ phase' = "cleanup"
     ELSE phase' = "failing" /\ UNCHANGED <<installed, staging, prepared>>
  /\ UNCHANGED <<remote, keep, vol, temp, cache, registered, fetches, broken, plan, shardVars,
                 retainVars, invalid, faults, crashes>>

\* run_clean_archive: the range cache goes, and the volumes too unless they are kept.
CleanArchive ==
  /\ phase = "cleanup"
  /\ cache' = IF remote THEN {} ELSE cache
  /\ vol' = IF keep THEN vol ELSE [v \in Volume |-> "absent"]
  /\ phase' = "done"
  /\ UNCHANGED <<remote, keep, temp, staging, installed, registered, fetches, broken, plan,
                 shardVars, prepared, retainVars, invalid, faults, crashes>>

\* No task of the archive is left to run and it has not finished.
ShardOver(s) == pc[s] \in FinalPc \/ (ShardOwner(s) \in broken /\ Fetched(ShardOwner(s)))
RetainOver(v) == retain[v] \in {"ok", "failed"} \/ (Fetched(VolumeOwner(v)) /\ ~RetainReady(v))
Exhausted ==
  \/ phase = "failing"
  \/ fetches = {} /\ Chain \in broken
  \/ /\ phase = "extract" /\ fetches = {} /\ ~FinishReady
     /\ \A s \in Shard : ShardOver(s)
     /\ \A v \in Volume : RetainOver(v)

ForgetRun ==
  /\ registered' = {} /\ fetches' = {} /\ broken' = {} /\ plan' = <<>>
  /\ pc' = <<>> /\ todo' = <<>> /\ snap' = <<>>
  /\ active' = 0 /\ failed' = FALSE /\ reported' = FALSE /\ slots' = {}
  /\ prepared' = FALSE
  /\ retain' = [v \in Volume |-> "wait"] /\ saved' = {} /\ snapV' = [v \in Volume |-> {}]
  /\ invalid' = FALSE


\* The batch returns a failure; ArchiveWork is dropped with its last task.
RunFails ==
  /\ Exhausted
  /\ staging' = (staging /\ ~prepared)
  /\ cache' = IF invalid THEN {} ELSE cache
  /\ ForgetRun
  /\ phase' = "failed"
  /\ UNCHANGED <<remote, keep, vol, temp, installed, faults, crashes>>

\* The process dies: the disk keeps what it has, the staging directory included, whose name no
\* later run uses.
Crash ==
  /\ phase \notin {"open", "failed", "done"} /\ crashes < MaxCrashes
  /\ crashes' = crashes + 1
  /\ ForgetRun
  /\ staging' = FALSE
  /\ phase' = "failed"
  /\ UNCHANGED <<remote, keep, vol, temp, cache, installed, faults>>

Done == phase = "done" /\ UNCHANGED vars

FetchStep ==
  \E f \in fetches : Fetch(f) \/ FetchWrongBytes(f) \/ FetchRetry(f) \/ FetchGiveUp(f)
ShardRun ==
  \E s \in Shard : \/ TryBegin(s) \/ Peek(s) \/ CountIn(s) \/ Recheck(s) \/ ExtractEntry(s)
                   \/ ExtractError(s) \/ ExtractDone(s) \/ PruneRanges(s) \/ StoreFailure(s)
                   \/ CountOut(s) \/ LeaveLast(s)
RetainRun ==
  \E v \in Volume : \/ RetainFetch(v) \/ RetainPresent(v) \/ RetainWrite(v) \/ RetainSync(v)
                    \/ RetainWrong(v) \/ RetainCommit(v) \/ RetainMark(v) \/ RetainPrune(v)
Run == \/ OpenArchive \/ Discover \/ ReadIndex \/ PlanExtraction \/ FetchStep \/ ShardRun
       \/ RetainRun \/ FinishArchive \/ CleanArchive \/ RunFails
Next == Run \/ Crash \/ Done

Spec == Init /\ [][Next]_vars
\* The scheduler runs what is ready; OpenArchive after a failure is the command run again.
FairSpec == Spec /\ WF_vars(Run)

-----------------------------------------------------------------------------
(* Properties. *)

RangeFile == [vol : Volume, lo : Unit, hi : 1 .. Total, good : BOOLEAN, full : {FALSE}]
TypeOK ==
  /\ vol \in [Volume -> {"absent", "wrong", "full"}]
  /\ temp \in [Volume -> {"absent", "torn", "ready"}]
  /\ cache \subseteq RangeFile
  /\ registered \subseteq Volume /\ saved \subseteq Volume
  /\ pc \in [Shard -> PcValues] /\ active \in 0 .. Cardinality(Shard)
  /\ retain \in [Volume -> {"wait", "writing", "synced", "written", "marked", "ok", "failed"}]
  /\ installed \in [Entry -> {"old", "new"}]
  /\ faults \in 0 .. MaxFaults /\ crashes \in 0 .. MaxCrashes

CachedUnits(v) == UNION {Units(r) : r \in Ranges(v)}

\* The cursor passes of range_covered, subtract_cached and missing_range_requests agree with the
\* set of cached bytes for every requested range.
RangesExact ==
  \A v \in Volume : \A lo \in VolumeStart(v) .. VolumeEnd[v] : \A hi \in lo .. VolumeEnd[v] :
    LET want == lo .. hi - 1
        reqs == Requests({[lo |-> lo, hi |-> hi]})
    IN  /\ RangeCovered(v, lo, hi) <=> want \subseteq CachedUnits(v)
        /\ UNION {Units(r) : r \in reqs} = want \ CachedUnits(v)
        /\ \A a, b \in reqs : a # b => Units(a) \cap Units(b) = {}

\* For every selection of entries and every shard target, the shards hold each entry exactly once,
\* none is empty, there are as many as asked for (or as the limits force), no shard that the limits
\* closed is over them, and no shard mixes entries of two release volumes.
ShardsExact ==
  \A chosen \in SUBSET Entry, target \in 0 .. 3 :
    LET shards == Shards(chosen, target)
        flat == FlattenSeq(shards)
    IN  /\ Len(flat) = Cardinality(chosen) /\ ToSet(flat) = chosen
        /\ Len(shards) = Smaller(Cardinality(chosen),
                                 Larger(Larger(target, 1), Len(BaseGroups(chosen))))
        /\ \A i \in DOMAIN shards :
             /\ shards[i] # <<>> /\ Len(shards[i]) <= ShardEntries
             /\ \A e, f \in ToSet(shards[i]) : ReleaseVolume(e) = ReleaseVolume(f)

\* The archive's plan is exact whatever an earlier run left in the cache: nothing cached is fetched
\* again, nothing missing is taken for cached, no byte is requested twice, and the shards divide the
\* entries.
PlanExact == RangesExact /\ (phase = "controls" => ShardsExact)

\* A shard that still has to read an entry finds its bytes: each one is cached, or one of the
\* shard's own fetches brings it. No other shard's prune, no saved volume and no late fetch takes
\* a range away from it.
ReadersKeepRanges ==
  phase = "extract" =>
    \A s \in Shard : ShardOwner(s) \notin broken /\ pc[s] \in {"blocked", "adding", "recheck", "extracting"} =>
      \A e \in ToSet(todo[s]) : \A u \in Units(Source[e]) :
        \/ Segments(u) # {}
        \/ \E f \in fetches : f.owner = ShardOwner(s) /\ u \in Units(f.range)

\* While no shard has failed, an extracting shard's staging directory is there: nobody else's
\* bookkeeping removes it.
StagingWhileExtracting ==
  \A s \in Shard : pc[s] = "extracting" /\ ~failed => prepared /\ staging

\* The control files (delete_files.txt acts on the install) are committed only when every entry of
\* the package that is not excluded is in the install root.
ControlsLast ==
  \A c \in Controls : installed[c] = "new" =>
    \A e \in Entry \ (Controls \cup Excluded) : installed[e] = "new"

\* A finished archive leaves what its retention asks for: every volume of a kept archive is there
\* and verified, nothing of an ephemeral one, and no range file or temporary file of either.
Delivered ==
  /\ phase = "done" /\ cache = {} /\ ~staging
  /\ \A v \in Volume : temp[v] = "absent"
  /\ \A v \in Volume : vol[v] = IF keep THEN "full" ELSE "absent"

\* Wrong bytes in the range cache, ranges given up and crashes never make a remote archive
\* impossible to install: run again often enough, it finishes and leaves nothing else behind.
Recovers == remote ~> Delivered
=============================================================================
