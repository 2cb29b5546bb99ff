------------------------------ MODULE Admission ------------------------------
(***************************************************************************)
(* The admission queue of the task scheduler (SchedulerQueue and           *)
(* ResourceState) and the dispatch loop of run_graph that drives it.       *)
(*                                                                         *)
(* A routed task waits in one of two queues.  In a dispatch pass the       *)
(* coordinator pops tasks whose resource request can be granted; a popped  *)
(* task holds its permits until the coordinator receives its finish.  An   *)
(* MD5 task takes followers with it, which borrow the class AsyncIo; when  *)
(* the blocking pool rejects the group it goes back to the front of the    *)
(* continuation queue.  What a pass needs of the whole queue is cached     *)
(* and kept up to date as tasks are removed.                               *)
(*                                                                         *)
(* Time is a coarse clock: the age of a task is 0 while it is fresh, 1     *)
(* once it is past volume_write_reservation_delay and 2 once it is past    *)
(* the five-second age bucket.  A mutation path is the sequence of its     *)
(* components.  An operator with an underscore in its name is a faulty     *)
(* variant of the definition after it and in no specification.             *)
(***************************************************************************)
EXTENDS Integers, Sequences, FiniteSets, FiniteSetsExt, SequencesExt

CONSTANTS
  Task,               \* graph nodes that are routed into the queue
  Volume,             \* physical volumes
  Path,               \* mutation paths
  Req,                \* the routed ResourceRequest of a task
  Dynamic,            \* nodes of dynamic expansions
  Again,              \* tasks that come back to the queue after they finished
  Policy,             \* VolumeIoPolicy of a volume
  SlotLimit,          \* cpu_slots, blocking_slots, ... , reuse_queue_limit
  ContinuationBurst,  \* CONTINUATION_BURST
  Lookahead,          \* PRIORITY_LOOKAHEAD
  BatchCapacity,      \* md5_verify_batch_capacity
  DiskSize,           \* free bytes of a volume at the start
  Unprobed,           \* volumes whose free space the platform does not report
  NoCache             \* the admission cache is invalid

RunClass == {"AsyncIo", "Cpu", "Blocking"}
Network  == {"General", "Vfs", "Archive", "ArchiveBackground"}
Priority == {"Continuation", "Bulk"}
Slot     == {"cpu", "blocking", "network", "extract", "reuse"}
Streaming == {"read", "write", "metadata"}
Kind     == Streaming \cup {"save", "archive"}

\* A routed request.  archive volumes that are also in crossing are committed
\* to from another volume.
Request ==
  [run : RunClass, network : Network \cup {"None"},
   extract : BOOLEAN, probe : BOOLEAN, commit : BOOLEAN, md5 : BOOLEAN,
   vol : [Kind -> SUBSET Volume], crossing : SUBSET Volume,
   paths : SUBSET Path, store : [Volume -> Nat], bytes : Nat]

ASSUME RequestAssumption ==
  /\ IsFiniteSet(Task)
  /\ Path \subseteq Seq(STRING)
  /\ Req \in [Task -> Request]
  /\ \A t \in Task : /\ Req[t].vol["metadata"] \cap Req[t].vol["write"] = {}
                     /\ ~(Req[t].probe /\ Req[t].commit)
                     /\ Req[t].md5 => Req[t].run = "Cpu"

ASSUME ConfigAssumption ==
  /\ Policy \in [Volume -> [mode : {"Exclusive", "Mixed"}, read : Nat \ {0},
                            write : Nat \ {0}, metadata : Nat \ {0}, pressure : Nat \ {0}]]
  /\ SlotLimit \in [Slot -> Nat \ {0}]
  /\ ContinuationBurst \in Nat \ {0}
  /\ Lookahead \in Nat
  /\ BatchCapacity \in Nat \ {0}
  /\ DiskSize \in [Volume -> Nat]
  /\ Unprobed \subseteq Volume /\ Dynamic \subseteq Task /\ Again \subseteq Task

RunSchedule == <<"AsyncIo", "Cpu", "Blocking", "AsyncIo">>
NetworkSchedule == <<"General", "General", "General", "General",
                     "Archive", "Archive", "Vfs", "ArchiveBackground">>

VARIABLES
  queue,       \* continuation and bulk
  age,         \* age of a waiting task since enqueued_at
  held,        \* tasks that hold permits: popped and not yet released
  borrowed,    \* held tasks that were popped as followers of an MD5 batch
  done,        \* finished tasks
  slots,       \* cpu_in_use, blocking_in_use, network_in_use, ...
  onVolume,    \* volume_reads, volume_writes, ..., archive_commits
  reserved,    \* storage_reserved_bytes
  mutating,    \* mutation_paths
  cache,       \* admission_cache
  streak,      \* continuation_streak
  runCursor, networkCursor,
  pass,        \* the dispatch loop: "idle", "popping" or "deadlocked"
  blockingOk,  \* blocking_dispatch_available
  round,       \* the tasks popped and not yet dispatched
  free,        \* environment: free bytes on a volume
  allocated    \* environment: running tasks that preallocated their files

queueVars    == <<queue, age, held, borrowed, done>>
resourceVars == <<slots, onVolume, reserved, mutating>>
cursorVars   == <<streak, runCursor, networkCursor>>
passVars     == <<pass, blockingOk, round>>
diskVars     == <<free, allocated>>
vars == <<queueVars, resourceVars, cache, cursorVars, passVars, diskVars>>

One(p) == IF p THEN 1 ELSE 0
Minus(a, b) == IF a <= b THEN 0 ELSE a - b      \* saturating_sub
\* What the requests r of the tasks S need on a volume together.
Bytes(r, S, v) == MapThenSumSet(LAMBDA t : r[t].store[v], S)
Queued == ToSet(queue["Continuation"]) \cup ToSet(queue["Bulk"])

-----------------------------------------------------------------------------
\* Resources of a request.
Takes(r, s) ==
  CASE s = "cpu"      -> r.run = "Cpu"
    [] s = "blocking" -> r.run = "Blocking"
    [] s = "network"  -> r.network # "None"
    [] s = "extract"  -> r.extract
    [] s = "reuse"    -> r.commit

AsFollower(r) == [r EXCEPT !.run = "AsyncIo"]

HeldRequest_Canonical(t) == Req[t]

HeldRequest(t) == IF t \in borrowed THEN AsFollower(Req[t]) ELSE Req[t]

Conflict_SamePath(p, q) == p = q

Conflict(p, q) == IsPrefix(p, q) \/ IsPrefix(q, p)

MutationConflict(r) == \E p \in r.paths, q \in mutating : Conflict(p, q)

Acquire(r) ==
  /\ slots' = [s \in Slot |-> slots[s] + One(Takes(r, s))]
  /\ onVolume' = [k \in Kind |-> [v \in Volume |-> onVolume[k][v] + One(v \in r.vol[k])]]
  /\ reserved' = [v \in Volume |-> reserved[v] + r.store[v]]
  /\ mutating' = mutating \cup r.paths

PathsAfter(rs) == mutating \ UNION {rs[t].paths : t \in DOMAIN rs}

\* Takes the permits of the requests back, one request after the other.
ReleaseAll(rs) ==
  /\ slots' = [s \in Slot |-> Minus(slots[s], Cardinality({t \in DOMAIN rs : Takes(rs[t], s)}))]
  /\ onVolume' = [k \in Kind |-> [v \in Volume |->
        Minus(onVolume[k][v], Cardinality({t \in DOMAIN rs : v \in rs[t].vol[k]}))]]
  /\ reserved' = [v \in Volume |-> Minus(reserved[v], Bytes(rs, DOMAIN rs, v))]
  /\ mutating' = PathsAfter(rs)

-----------------------------------------------------------------------------
\* The admission cache.
Probe(v) == IF v \in Unprobed THEN -1 ELSE free[v]

\* A writer that waits for a volume only: nothing else keeps it out.
Eligible(t) ==
  /\ ~(Req[t].run = "Cpu" /\ slots["cpu"] >= SlotLimit["cpu"])
  /\ ~(Req[t].run = "Blocking" /\ slots["blocking"] >= SlotLimit["blocking"])
  /\ ~(Req[t].extract /\ slots["extract"] >= SlotLimit["extract"])
  /\ ~MutationConflict(Req[t])
  /\ Req[t].vol["write"] # {}

WaitingWriters == {t \in Queued : Eligible(t) /\ age[t] >= 1}

QueueCounts(p) ==
  LET q == queue[p] IN
  [runs  |-> [c \in RunClass |-> Cardinality({i \in DOMAIN q : Req[q[i]].run = c})],
   nets  |-> [n \in Network |-> Cardinality({i \in DOMAIN q : Req[q[i]].network = n})],
   depth |-> [v \in Volume |->
                Cardinality({x \in (DOMAIN q) \X Streaming : v \in Req[q[x[1]]].vol[x[2]]})]]

\* What ensure_admission_cache computes from the queue.
Rebuilt ==
  [counts  |-> [p \in Priority |-> QueueCounts(p)],
   commits |-> Cardinality({t \in Queued : Req[t].commit}),
   waiting |-> WaitingWriters,
   writers |-> [v \in Volume |-> Cardinality({t \in WaitingWriters : v \in Req[t].vol["write"]})],
   free    |-> [v \in Volume |-> IF reserved[v] > 0 /\ \E t \in Queued : Req[t].store[v] > 0
                                 THEN Probe(v) ELSE -1],
   pending |-> \E t \in Queued : Eligible(t) /\ age[t] = 0]

Current == IF cache = NoCache THEN Rebuilt ELSE cache

Uncounted(n, r) ==
  [runs  |-> [n.runs EXCEPT ![r.run] = Minus(@, 1)],
   nets  |-> [c \in Network |-> Minus(n.nets[c], One(r.network = c))],
   depth |-> [v \in Volume |->
                Minus(n.depth[v], Cardinality({k \in Streaming : v \in r.vol[k]}))]]

\* The cache a after t was taken from queue p.
Without(a, p, t) ==
  [a EXCEPT
    !.counts[p] = Uncounted(@, Req[t]),
    !.commits   = Minus(@, One(Req[t].commit)),
    !.waiting   = @ \ {t},
    !.writers   = [v \in Volume |->
        Minus(@[v], One(t \in a.waiting /\ v \in Req[t].vol["write"]))],
    !.free      = [v \in Volume |->
        IF Req[t].store[v] > 0 /\ @[v] = -1 THEN Probe(v) ELSE @[v]]]

-----------------------------------------------------------------------------
\* ResourceState::can_acquire with the snapshot a.

\* The unit of pressure that is kept for a writer waiting for v.
Kept(r, v, a, wanted) ==
  One(/\ a.writers[v] > 0 /\ wanted > 0 /\ v \notin r.vol["write"]
      /\ onVolume["write"][v] < Policy[v].write)

VolumeFits(r, v, a) ==
  LET p        == Policy[v]
      reading  == v \in r.vol["read"]
      writing  == v \in r.vol["write"]
      changing == v \in r.vol["metadata"]
      reads    == onVolume["read"][v]
      writes   == onVolume["write"][v]
      metadata == onVolume["metadata"][v]
      excl     == p.mode = "Exclusive"
      pressure == IF excl THEN IF reads >= writes THEN reads ELSE writes ELSE reads + writes
      wanted   == IF excl THEN One(reading \/ writing) ELSE One(reading) + One(writing)
  IN /\ reads + One(reading) <= p.read
     /\ writes + One(writing) <= p.write
     /\ metadata + One(changing) <= p.metadata
     /\ excl => /\ ~(reading /\ writes > 0)
                /\ ~(writing /\ reads > 0)
                /\ ~(changing /\ (reads > 0 \/ writes > 0))
                /\ ~((reading \/ writing) /\ metadata > 0)
                /\ ~(a.writers[v] > 0 /\ ~writing /\ changing)
     /\ pressure + wanted + Kept(r, v, a, wanted) <= p.pressure

StorageFits(r, a) ==
  \A v \in Volume :
     (r.store[v] > 0 /\ reserved[v] > 0 /\ a.free[v] # -1)
        => reserved[v] + r.store[v] <= a.free[v]

VolumesOf(r) == UNION {r.vol[k] : k \in Streaming}

CanAcquire(r, a) ==
  /\ \A s \in {"cpu", "blocking", "network", "extract"} :
        Takes(r, s) => slots[s] < SlotLimit[s]
  /\ r.probe => slots["reuse"] + a.commits < SlotLimit["reuse"]
  /\ \A v \in r.vol["save"] : onVolume["save"][v] = 0
  /\ \A v \in r.vol["archive"] :
        onVolume["archive"][v] < IF v \in r.crossing THEN 3 ELSE 1
  /\ ~MutationConflict(r)
  /\ StorageFits(r, a)
  /\ \A v \in VolumesOf(r) : VolumeFits(r, v, a)

-----------------------------------------------------------------------------
\* Selection.
Runnable(p, c, a) ==
  IF a.counts[p].runs[c] = 0 THEN {}
  ELSE {i \in DOMAIN queue[p] : /\ Req[queue[p][i]].run = c
                                /\ CanAcquire(Req[queue[p][i]], a)}

\* The smallest key goes first: age bucket, waiting writer, metadata, backlog
\* of the volumes, bytes, position.
Key(p, i, a) ==
  LET r == Req[queue[p][i]]
      backlog(k) == MapThenSumSet(LAMBDA v : a.counts[p].depth[v], r.vol[k])
  IN << -One(age[queue[p][i]] = 2),
        One(\A v \in r.vol["write"] : a.writers[v] = 0),
        One(r.vol["metadata"] = {}),
        -(backlog("read") + backlog("write") + backlog("metadata")),
        r.bytes, i >>

Before(x, y) ==
  \E n \in DOMAIN x : x[n] < y[n] /\ \A m \in 1 .. n - 1 : x[m] = y[m]

\* The first of some indices, as a set of one.
First(S) == {i \in S : \A j \in S : i <= j}

\* The best candidate among the first Lookahead tasks, else the first one, as a set of one.
Best(p, S, a) ==
  LET near == S \cap 1 .. Lookahead
  IN IF near = {} THEN First(S)
     ELSE {i \in near : \A j \in near \ {i} : Before(Key(p, i, a), Key(p, j, a))}

\* A task of the preferred network class if the queue has one that can run.
Picked(p, c, net, a) ==
  LET preferred == {i \in Runnable(p, c, a) : Req[queue[p][i]].network = net}
  IN Best(p, IF preferred # {} THEN preferred ELSE Runnable(p, c, a), a)

\* The classes are tried in the order of RunSchedule from the cursor.
ClassAt(k) == RunSchedule[((runCursor + k) % 4) + 1]

Tried == {k \in 0 .. 3 : blockingOk \/ ClassAt(k) = "AsyncIo"}

CanPop(a) == {k \in Tried : \E p \in Priority : Runnable(p, ClassAt(k), a) # {}}

\* Every attempt at an AsyncIo task moves the network cursor.
NetworkMoves(K) == Cardinality({k \in Tried \cap K : ClassAt(k) = "AsyncIo"})

ForceBulk(c) == streak[c] >= ContinuationBurst

Source(c, a) ==
  IF Runnable("Continuation", c, a) # {} /\ (~ForceBulk(c) \/ Runnable("Bulk", c, a) = {})
  THEN "Continuation" ELSE "Bulk"

-----------------------------------------------------------------------------
Init ==
  /\ queue = [p \in Priority |-> << >>]
  /\ age = [t \in Task |-> 0]
  /\ held = {} /\ borrowed = {} /\ done = {}
  /\ slots = [s \in Slot |-> 0]
  /\ onVolume = [k \in Kind |-> [v \in Volume |-> 0]]
  /\ reserved = [v \in Volume |-> 0]
  /\ mutating = {}
  /\ cache = NoCache
  /\ streak = [c \in RunClass |-> 0]
  /\ runCursor = 0 /\ networkCursor = 0
  /\ pass = "idle" /\ blockingOk = TRUE /\ round = << >>
  /\ free = DiskSize /\ allocated = {}

\* The coordinator routes a ready task; a node of the built graph is bulk until
\* it comes back.
Push(t) ==
  /\ pass = "idle"
  /\ t \notin Queued \cup held
  /\ t \in done => t \in Again
  /\ queue' = [queue EXCEPT ![IF t \in Dynamic \cup done THEN "Continuation" ELSE "Bulk"]
                             = Append(@, t)]
  /\ age' = [age EXCEPT ![t] = 0]
  /\ done' = done \ {t}
  /\ cache' = NoCache
  /\ UNCHANGED <<held, borrowed, resourceVars, cursorVars, passVars, diskVars>>

BeginPass_StillBusy ==
  /\ pass = "idle"
  /\ Queued # {}
  /\ pass' = "popping"
  /\ UNCHANGED <<queueVars, resourceVars, cache, cursorVars, blockingOk, round, diskVars>>

BeginPass ==
  /\ pass = "idle"
  /\ Queued # {}
  /\ pass' = "popping"
  /\ blockingOk' = TRUE
  /\ UNCHANGED <<queueVars, resourceVars, cache, cursorVars, round, diskVars>>

\* Takes the task at index i of queue p, found at offset k of the schedule.
Pop(a, k, p, i) ==
  LET t == queue[p][i]
      c == ClassAt(k)
  IN /\ queue' = [queue EXCEPT ![p] = RemoveAt(@, i)]
     /\ held' = held \cup {t}
     /\ round' = <<t>>
     /\ Acquire(Req[t])
     /\ cache' = Without(a, p, t)
     /\ streak' = [streak EXCEPT ![c] = IF p = "Bulk" THEN 0
                                        ELSE IF ForceBulk(c) THEN 1 ELSE @ + 1]
     /\ runCursor' = (runCursor + k + 1) % 4
     /\ networkCursor' = (networkCursor + NetworkMoves(0 .. k)) % 8
     /\ UNCHANGED <<age, borrowed, done, pass, blockingOk, diskVars>>

\* The network class that is preferred at offset k.
Preferred(k) ==
  IF ClassAt(k) = "AsyncIo"
  THEN NetworkSchedule[((networkCursor + NetworkMoves(0 .. k - 1)) % 8) + 1] ELSE "None"

PopNext ==
  /\ pass = "popping" /\ round = << >>
  /\ CanPop(Current) # {}
  /\ \E a \in {Current} : \E k \in First(CanPop(a)) : \E p \in {Source(ClassAt(k), a)} :
       \E i \in Picked(p, ClassAt(k), Preferred(k), a) : Pop(a, k, p, i)

\* MD5 tasks that may join the one just popped, first continuation then bulk.
BatchIndices(p, a) ==
  {i \in DOMAIN queue[p] : /\ Req[queue[p][i]].md5
                           /\ CanAcquire(AsFollower(Req[queue[p][i]]), a)}

WantsFollower(a) ==
  /\ round # << >>
  /\ Req[round[1]].md5
  /\ Len(round) < BatchCapacity
  /\ \E p \in Priority : BatchIndices(p, a) # {}

BatchSource(a) == IF BatchIndices("Continuation", a) # {} THEN "Continuation" ELSE "Bulk"

JoinBatch(a, p, i) ==
  LET t == queue[p][i]
  IN /\ queue' = [queue EXCEPT ![p] = RemoveAt(@, i)]
     /\ held' = held \cup {t}
     /\ borrowed' = borrowed \cup {t}
     /\ round' = Append(round, t)
     /\ Acquire(AsFollower(Req[t]))
     /\ cache' = Without(a, p, t)
     /\ UNCHANGED <<age, done, cursorVars, pass, blockingOk, diskVars>>

PopFollower ==
  /\ WantsFollower(Current)
  /\ \E a \in {Current} : \E p \in {BatchSource(a)} :
       \E i \in First(BatchIndices(p, a)) : JoinBatch(a, p, i)

\* The cache once no follower can be added: looking for one has rebuilt it.
Looked == IF Req[round[1]].md5 /\ Len(round) < BatchCapacity THEN Current ELSE cache

\* The dispatcher takes the popped tasks.
Submit ==
  /\ round # << >> /\ ~WantsFollower(Current)
  /\ round' = << >>
  /\ cache' = Looked
  /\ age' = [t \in Task |-> IF t \in ToSet(round) THEN 0 ELSE age[t]]
  /\ UNCHANGED <<queue, held, borrowed, done, resourceVars, cursorVars, pass,
                 blockingOk, diskVars>>

\* The blocking pool is full: the popped tasks go back in their order, whatever
\* queue they came from, and the rest of the pass is for AsyncIo tasks.
Busy ==
  /\ round # << >> /\ ~WantsFollower(Current)
  /\ Req[round[1]].run # "AsyncIo"
  /\ queue' = [queue EXCEPT !["Continuation"] = round \o @]
  /\ held' = held \ ToSet(round)
  /\ borrowed' = borrowed \ ToSet(round)
  /\ ReleaseAll([t \in ToSet(round) |-> HeldRequest(t)])
  /\ cache' = NoCache
  /\ round' = << >>
  /\ blockingOk' = FALSE
  /\ UNCHANGED <<age, done, cursorVars, pass, diskVars>>

\* Nothing can be popped.  With nothing in flight and the blocking pool not to
\* blame this is the error "task graph admission deadlock".
EndPass ==
  /\ pass = "popping" /\ round = << >>
  /\ CanPop(Current) = {}
  /\ pass' = IF held = {} /\ blockingOk /\ Queued # {} THEN "deadlocked" ELSE "idle"
  /\ cache' = Current
  /\ networkCursor' = (networkCursor + NetworkMoves(0 .. 3)) % 8
  /\ UNCHANGED <<queueVars, resourceVars, streak, runCursor,
                 blockingOk, round, diskVars>>

CacheAfterRelease_Kept == cache

CacheAfterRelease == NoCache

\* The coordinator receives the finish of a running task.  What the task wrote
\* stays on the volume (kept), or it replaced or removed as much.
Release(t, kept) ==
  /\ pass = "idle"
  /\ t \in held
  /\ t \notin allocated => kept
  /\ ReleaseAll([x \in {t} |-> HeldRequest(x)])
  /\ held' = held \ {t}
  /\ borrowed' = borrowed \ {t}
  /\ done' = done \cup {t}
  /\ cache' = CacheAfterRelease
  /\ allocated' = allocated \ {t}
  /\ free' = [v \in Volume |->
        IF t \in allocated /\ ~kept THEN free[v] + Req[t].store[v] ELSE free[v]]
  /\ UNCHANGED <<queue, age, cursorVars, passVars>>

\* A running task preallocates its files; a task whose files do not fit fails.
Allocate(t) ==
  /\ t \in held \ (ToSet(round) \cup allocated)
  /\ \E v \in Volume : Req[t].store[v] > 0
  /\ \A v \in Volume : Req[t].store[v] <= free[v]
  /\ free' = [v \in Volume |-> free[v] - Req[t].store[v]]
  /\ allocated' = allocated \cup {t}
  /\ UNCHANGED <<queueVars, resourceVars, cache, cursorVars, passVars>>

Expired_Never == FALSE

Expired == cache # NoCache /\ cache.pending

\* Time passes.  A cache with a writer that was still fresh has expired.
Tick ==
  /\ \E t \in Queued : age[t] < 2
  /\ age' = [t \in Task |-> IF t \in Queued \cup ToSet(round) /\ age[t] < 2
                            THEN age[t] + 1 ELSE age[t]]
  /\ cache' = IF Expired THEN NoCache ELSE cache
  /\ UNCHANGED <<queue, held, borrowed, done, resourceVars, cursorVars, passVars, diskVars>>

\* Every task has run. A batch that ends with the deadlock error stays for ever in a
\* state without successor, which TLC reports.
Over == done = Task /\ UNCHANGED vars

Next ==
  \/ \E t \in Task : Push(t)
  \/ BeginPass
  \/ PopNext
  \/ PopFollower
  \/ Submit
  \/ Busy
  \/ EndPass
  \/ \E t \in Task, kept \in BOOLEAN : Release(t, kept)
  \/ \E t \in Task : Allocate(t)
  \/ Tick
  \/ Over

Spec == Init /\ [][Next]_vars

\* The coordinator keeps making passes over the queue, every submitted task
\* finishes, and the blocking pool is not full every time it is asked.
Fairness ==
  /\ WF_vars(BeginPass)
  /\ WF_vars(PopNext \/ PopFollower \/ EndPass)
  /\ SF_vars(Submit)
  /\ \A t \in Task : SF_vars(\E kept \in BOOLEAN : Release(t, kept))

FairSpec == Spec /\ Fairness

-----------------------------------------------------------------------------
\* Every variable keeps its type.
TypeOK ==
  /\ queue \in [Priority -> Seq(Task)]
  /\ age \in [Task -> 0 .. 2]
  /\ held \subseteq Task /\ borrowed \subseteq held /\ done \subseteq Task
  /\ slots \in [Slot -> Nat]
  /\ onVolume \in [Kind -> [Volume -> Nat]]
  /\ reserved \in [Volume -> Nat]
  /\ mutating \subseteq Path
  /\ streak \in [RunClass -> 0 .. ContinuationBurst]
  /\ runCursor \in 0 .. 3 /\ networkCursor \in 0 .. 7
  /\ pass \in {"idle", "popping", "deadlocked"}
  /\ blockingOk \in BOOLEAN
  /\ round \in Seq(Task) /\ ToSet(round) \subseteq held
  /\ free \in [Volume -> Nat] /\ allocated \subseteq held

Holders(k, v) == {t \in held : v \in Req[t].vol[k]}

\* The slots, streams and paths in use are those of the tasks that hold permits.
PermitsExact ==
  /\ \A s \in Slot : slots[s] = Cardinality({t \in held : Takes(HeldRequest(t), s)})
  /\ \A k \in Kind, v \in Volume : onVolume[k][v] = Cardinality(Holders(k, v))
  /\ mutating = UNION {Req[t].paths : t \in held}
\* The bytes that are reserved are theirs.
StorageExact ==
  \A v \in Volume : reserved[v] = Bytes(Req, held, v)

\* The permits in use are those of the tasks that hold some: a follower gives
\* back what it borrowed, a rejected batch what it took, nothing twice.
Accounting == PermitsExact /\ StorageExact

\* Tasks that hold permits do not disturb each other, whatever classes, queues and
\* volumes they were routed to: no two change the same path or one below the other;
\* the tasks at work on a volume obey its policy, on an Exclusive volume readers,
\* writers and metadata changes of different tasks never meet, and at most one task
\* saves an archive part to a volume.
WorkIsolated ==
  /\ \A t, u \in held : t # u =>
       \A p \in Req[t].paths, q \in Req[u].paths : ~IsPrefix(p, q)
  /\ \A v \in Volume :
       LET p == Policy[v]
           R == Holders("read", v)
           W == Holders("write", v)
           M == Holders("metadata", v)
       IN /\ Cardinality(R) <= p.read /\ Cardinality(W) <= p.write
          /\ Cardinality(M) <= p.metadata
          /\ p.mode = "Mixed" => Cardinality(R) + Cardinality(W) <= p.pressure
          /\ p.mode = "Exclusive" => /\ \A t \in R, u \in W : t = u
                                     /\ \A t \in M, u \in R \cup W : t = u
          /\ Cardinality(Holders("save", v)) <= 1

\* When several tasks that need space on a volume are at work, what they have not
\* preallocated yet fits beside each other in what is free now, although free
\* space is probed once for many admissions and tasks preallocate in between.
NoOvercommit ==
  \A v \in Volume \ Unprobed :
    Cardinality({t \in held : Req[t].store[v] > 0}) > 1 =>
      Bytes(Req, held \ allocated, v) <= free[v]

\* A cache that is still used agrees with the queue: the counts kept up to date
\* while tasks are removed hide no runnable task from the selection, and it knows
\* every writer that has waited long enough, though it was built before they had.
CacheExact ==
  cache # NoCache =>
    /\ \A p \in Priority : cache.counts[p] = QueueCounts(p)
    /\ cache.commits = Cardinality({t \in Queued : Req[t].commit})
    /\ WaitingWriters \subseteq cache.waiting /\ cache.waiting \subseteq Queued
    /\ \A v \in Volume :
         cache.writers[v] = Cardinality({t \in cache.waiting : v \in Req[t].vol["write"]})

\* Every routed task is dispatched in the end.
EveryTaskRuns == \A t \in Task : (t \in Queued) ~> (t \in done)
=============================================================================
