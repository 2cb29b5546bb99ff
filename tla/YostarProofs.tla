----------------------------- MODULE YostarProofs -----------------------------
(***************************************************************************)
(* Theorems about Yostar for every number of releases, any manifests, any  *)
(* contents of the user's and every number of crashes, failures and edits. *)
(*                                                                         *)
(* The inductive invariant IInv follows the running command: what of the   *)
(* target is in place, what of the old release is still there, and what    *)
(* the two metadata files name. That what launch accepts is whole needs    *)
(* one more assumption, SizesTell, as update trusts an entry both          *)
(* manifests agree on by its size.                                         *)
(***************************************************************************)
EXTENDS Yostar, TLAPS

-----------------------------------------------------------------------------
(* Paths and trees. *)

\* Every ancestor of a path is a path, ancestors of ancestors are ancestors, and no path is its own.
LEMMA AncestorFacts ==
  ASSUME NEW p \in Path
  PROVE  /\ Ancestors(p) \subseteq Path
         /\ \A a \in Ancestors(p) : Ancestors(a) \subseteq Ancestors(p)
         /\ p \notin Ancestors(p)
  <1>1. p \in Seq(STRING) /\ Len(p) \in Nat
    BY TreeAssumption
  <1>2. ASSUME NEW n \in 1 .. Len(p) - 1
        PROVE  /\ SubSeq(p, 1, n) \in Path
               /\ Len(SubSeq(p, 1, n)) = n
               /\ \A m \in 1 .. n - 1 : SubSeq(SubSeq(p, 1, n), 1, m) = SubSeq(p, 1, m)
    <2>1. SubSeq(p, 1, n) \in Path
      BY <1>1, TreeAssumption
    <2>2. SubSeq(p, 1, n) \in Seq(STRING) /\ Len(SubSeq(p, 1, n)) = n
      BY <1>1
    <2>3. ASSUME NEW m \in 1 .. n - 1
          PROVE  SubSeq(SubSeq(p, 1, n), 1, m) = SubSeq(p, 1, m)
      BY <1>1, <2>2
    <2>4. QED
      BY <2>1, <2>2, <2>3
  <1>3. Ancestors(p) \subseteq Path
    BY <1>2 DEF Ancestors
  <1>4. ASSUME NEW a \in Ancestors(p)
        PROVE  Ancestors(a) \subseteq Ancestors(p)
    <2>1. PICK n \in 1 .. Len(p) - 1 : a = SubSeq(p, 1, n)
      BY DEF Ancestors
    <2>2. Len(a) = n /\ \A m \in 1 .. n - 1 : SubSeq(a, 1, m) = SubSeq(p, 1, m)
      BY <1>2, <2>1
    <2>3. \A m \in 1 .. n - 1 : m \in 1 .. Len(p) - 1
      BY <1>1
    <2>4. QED
      BY <2>2, <2>3 DEF Ancestors
  <1>5. p \notin Ancestors(p)
    BY <1>1, <1>2 DEF Ancestors
  <1>6. QED
    BY <1>3, <1>4, <1>5

\* A content is neither a directory nor nothing.
LEMMA ContentIsFile ==
  ASSUME NEW c \in Content
  PROVE  c \in Node /\ c \notin {"none", "dir", "link"}
  BY TreeAssumption DEF Node

\* A file written where it can be hangs below directories, and so does everything else.
LEMMA WriteKeepsTree ==
  ASSUME NEW t \in [Path -> Node], IsTree(t),
         NEW p \in Path, NEW c \in Content, CanWrite(t, p)
  PROVE  /\ WriteFile(t, p, c) \in [Path -> Node]
         /\ IsTree(WriteFile(t, p, c))
  <1> DEFINE u == WriteFile(t, p, c)
  <1>1. u \in [Path -> Node]
    BY ContentIsFile DEF WriteFile, Node
  <1>2. ASSUME NEW q \in Path, u[q] # "none", NEW a \in Ancestors(q)
        PROVE  u[a] \in Directory
    <2>1. a \in Path /\ Ancestors(a) \subseteq Ancestors(q)
      BY <1>2, AncestorFacts
    <2>2. CASE q = p \/ q \in Ancestors(p)
      <3>1. a \in Ancestors(p) /\ a # p
        BY <1>2, <2>2, AncestorFacts
      <3>2. t[a] \in Node \ Content
        BY <2>1, <3>1 DEF CanWrite, HoldsFile
      <3>3. QED
        BY <2>1, <3>1, <3>2 DEF WriteFile, Node, Directory
    <2>3. CASE q # p /\ q \notin Ancestors(p)
      <3>1. t[q] # "none"
        BY <1>2, <2>3 DEF WriteFile
      <3>2. t[a] \in Directory
        BY <1>2, <3>1 DEF IsTree
      <3>3. a # p
        BY <3>2 DEF CanWrite
      <3>4. QED
        BY <2>1, <3>2, <3>3 DEF WriteFile, Directory
    <2>4. QED
      BY <2>2, <2>3
  <1>3. QED
    BY <1>1, <1>2 DEF IsTree

\* What has nothing below it can be taken away.
LEMMA RemoveKeepsTree ==
  ASSUME NEW t \in [Path -> Node], IsTree(t), NEW p \in Path,
         \/ t[p] \notin Directory
         \/ \A q \in Below(p) : t[q] = "none"
  PROVE  /\ RemoveFile(t, p) \in [Path -> Node]
         /\ IsTree(RemoveFile(t, p))
  <1> DEFINE u == RemoveFile(t, p)
  <1>1. u \in [Path -> Node]
    BY DEF RemoveFile, Node
  <1>2. ASSUME NEW q \in Path, u[q] # "none", NEW a \in Ancestors(q)
        PROVE  u[a] \in Directory
    <2>1. a \in Path
      BY <1>2, AncestorFacts
    <2>2. q # p /\ t[q] # "none"
      BY <1>2 DEF RemoveFile
    <2>3. t[a] \in Directory
      BY <1>2, <2>2 DEF IsTree
    <2>4. a # p
      BY <1>2, <2>2, <2>3 DEF Below
    <2>5. QED
      BY <2>1, <2>3, <2>4 DEF RemoveFile
  <1>3. QED
    BY <1>1, <1>2 DEF IsTree

\* A write changes no other entry but makes missing parents directories.
LEMMA WriteEffect ==
  ASSUME NEW t \in [Path -> Node], NEW p \in Path, NEW c \in Content
  PROVE  /\ WriteFile(t, p, c)[p] = c
         /\ \A q \in Path \ {p} : \/ WriteFile(t, p, c)[q] = t[q]
                                  \/ t[q] = "none" /\ WriteFile(t, p, c)[q] = "dir"
  BY DEF WriteFile

\* Taking an empty directory away leaves files alone.
LEMMA RemoveDirEffect ==
  ASSUME NEW t \in [Path -> Node], IsTree(t), NEW p \in Path, CanRemoveDir(t, p)
  PROVE  /\ RemoveEmptyDir(t, p) \in [Path -> Node]
         /\ IsTree(RemoveEmptyDir(t, p))
         /\ \A q \in Path : \/ RemoveEmptyDir(t, p)[q] = t[q]
                            \/ t[q] = "dir" /\ RemoveEmptyDir(t, p)[q] = "none"
  <1>1. CASE t[p] = "dir"
    <2>1. \A q \in Below(p) : t[q] = "none"
      BY <1>1 DEF CanRemoveDir
    <2>2. RemoveEmptyDir(t, p) = RemoveFile(t, p)
      BY <1>1 DEF RemoveEmptyDir, RemoveFile
    <2>3. \A q \in Path : \/ RemoveFile(t, p)[q] = t[q]
                          \/ t[q] = "dir" /\ RemoveFile(t, p)[q] = "none"
      BY <1>1 DEF RemoveFile
    <2>4. QED
      BY <2>1, <2>2, <2>3, RemoveKeepsTree
  <1>2. CASE t[p] # "dir"
    BY <1>2 DEF RemoveEmptyDir
  <1>3. QED
    BY <1>1, <1>2

-----------------------------------------------------------------------------
(* The invariant. *)

Release == 1 .. Releases

\* At one path, releases that differ have files of different sizes.
SizesTell ==
  \A r, s \in Release : \A p \in DOMAIN File[r] \cap DOMAIN File[s] :
    Size[File[r][p]] = Size[File[s][p]] => File[r][p] = File[s][p]

Good(r, p) == tree[p] = File[r][p] \/ p \in damaged

Job ==
  [cmd : {"install", "update", "repair"}, cur : 0 .. Releases, to : Release,
   pc : {"blocking", "ensure", "cleanup", "manifest", "config", "finish"}, skip : BOOLEAN,
   todo : SUBSET Path, dirs : SUBSET Path, attempt : Nat, failed : BOOLEAN]

\* What a command is at each step.
JobShape ==
  \/ job = Idle
  \/ /\ job \in Job
     /\ marker # NoMarker
     /\ Cleaning => job.cur # 0 /\ job.cmd # "repair"
     /\ Cleaning => job.todo \subseteq Obsolete(job)
     /\ job.pc = "ensure" => job.todo \subseteq DOMAIN File[job.to]
     /\ job.cmd = "repair" => job.cur = 0 /\ job.pc \in {"ensure", "finish"}

\* What the metadata files name while a command runs.
Named ==
  /\ job # Idle /\ job.cmd = "repair" => Detected /\ job.to = manifest
  /\ job.pc = "config" => manifest = job.to
  /\ job.pc = "finish" => Detected /\ manifest = job.to

\* A file the user did not touch is one of some release.
Origin ==
  \A p \in Path \ damaged : HoldsFile(tree, p) =>
    \E r \in Release : p \in DOMAIN File[r] /\ tree[p] = File[r][p]

\* What the batch has done so far; what follows undoes none of it.
Placed ==
  /\ job.pc = "ensure" /\ ~job.failed =>
       \A p \in DOMAIN File[job.to] \ job.todo : Good(job.to, p)
  /\ job.pc \in {"cleanup", "manifest", "config", "finish"} =>
       \A p \in DOMAIN File[job.to] : Good(job.to, p)

\* The unmodified files of the old release a command still has to remove.
Left(p) ==
  \/ job.pc = "blocking" /\ (p \in job.todo \/ ~Blocks(job, p))
  \/ job.pc = "ensure" /\ ~Blocks(job, p)
  \/ job.pc = "cleanup" /\ p \in job.todo

Swept ==
  job # Idle /\ job.cur # 0 =>
    \A p \in Obsolete(job) : tree[p] = File[job.cur][p] => Left(p)

IInv ==
  /\ TypeOK
  /\ JobShape
  /\ Named
  /\ Origin
  /\ SizesTell => Placed /\ LaunchWhole
  /\ Swept

-----------------------------------------------------------------------------
LEMMA ReleaseFacts ==
  ASSUME NEW r \in Release
  PROVE  /\ DOMAIN File[r] \subseteq Path
         /\ \A p \in DOMAIN File[r] : File[r][p] \in Content /\ File[r][p] # "none"
                                      /\ File[r][p] \notin Directory
         /\ Version[r] \in Nat \ {0}
  BY YostarAssumption, TreeAssumption DEF Release, Directory

LEMMA IdleShape == Idle.pc = "idle"
  BY DEF Idle

LEMMA InitHolds == Init => IInv
  <1> SUFFICES ASSUME Init PROVE IInv
    OBVIOUS
  <1>1. TypeOK
    <2>1. tree \in [Path -> Node] /\ IsTree(tree)
      BY DEF Init, Node, IsTree
    <2> QED
      <3>1. Releases \in Nat \ {0} /\ {MaxCrashes, MaxFaults, MaxEdits} \subseteq Nat
        BY YostarAssumption
      <3>2. MaxCrashes \in Nat /\ MaxFaults \in Nat /\ MaxEdits \in Nat
        BY <3>1
      <3>3. 0 \in 0 .. Releases /\ 1 \in 1 .. Releases
        BY <3>1
      <3>4. 0 \in 0 .. MaxCrashes /\ 0 \in 0 .. MaxFaults /\ 0 \in 0 .. MaxEdits
        BY <3>2
      <3> QED
        BY <2>1, <3>3, <3>4 DEF Init, TypeOK, NoMarker
  <1>2. job = Idle /\ job.pc = "idle" /\ config = 0
    BY IdleShape DEF Init
  <1>3. Origin
    BY TreeAssumption DEF Init, Origin, HoldsFile
  <1> QED
    BY <1>1, <1>2, <1>3 DEF IInv, JobShape, Named, Placed, LaunchWhole, Swept

\* Nothing is expected of a command that is over, and a pending marker bars launch.
LEMMA StopHolds ==
  ASSUME IInv, TypeOK', job' = Idle, Origin', marker' # NoMarker \/ dropped' \/ config' = 0
  PROVE  IInv'
  <1>1. job'.pc = "idle"
    BY IdleShape
  <1> QED
    BY <1>1 DEF IInv, JobShape, Named, Placed, LaunchWhole, Swept, Cleaning

LEMMA OriginKept ==
  ASSUME IInv, damaged \subseteq damaged',
         \A p \in Path : HoldsFile(tree, p)' => tree'[p] = tree[p] \/ p \in damaged'
  PROVE  Origin'
  BY DEF IInv, Origin, HoldsFile

-----------------------------------------------------------------------------
(* The start of a command. *)

LEMMA BeginHolds ==
  ASSUME IInv, NEW ch, NEW j, Begin(ch, j),
         ch.from \in Nat, ch.basis \in 0 .. Releases, ch # NoMarker,
         j \in Job, j.pc \in {"blocking", "ensure"},
         j.pc = "blocking" => j.cur # 0 /\ j.cmd = "update" /\ j.todo = Blocking(j),
         j.pc = "ensure" => j.cur = 0 /\ j.todo = DOMAIN File[j.to],
         j.cmd = "repair" => j.pc = "ensure" /\ Detected /\ j.to = manifest
  PROVE  IInv'
  <1>1. /\ job' = j /\ marker' = ch
        /\ UNCHANGED <<tree, manifest, config, server, damaged, dropped, crashes, faults, edits>>
    BY DEF Begin, ghosts, bounds
  <1>2. TypeOK'
    BY <1>1 DEF IInv, TypeOK, Release, Job
  <1>3. JobShape'
    BY <1>1 DEF JobShape, Cleaning, Blocking
  <1>4. Named'
    BY <1>1 DEF Named, Detected
  <1>5. Origin'
    BY <1>1 DEF IInv, Origin, HoldsFile
  <1>6. Placed' /\ LaunchWhole'
    BY <1>1 DEF Placed, LaunchWhole
  <1>7. Swept'
    BY <1>1 DEF Swept, Left, Blocking, Blocks, Obsolete
  <1> QED
    BY <1>2, <1>3, <1>4, <1>5, <1>6, <1>7 DEF IInv

\* The fields of a job that enters a step.
LEMMA EnterFields ==
  ASSUME NEW j \in Job, NEW todo \in SUBSET Path,
         NEW pc \in {"blocking", "ensure", "cleanup", "manifest", "config", "finish"}
  PROVE  LET k == Enter(j, pc, todo)
         IN  /\ k \in Job /\ k.pc = pc /\ k.todo = todo /\ ~k.failed
             /\ k.cmd = j.cmd /\ k.cur = j.cur /\ k.to = j.to
  BY DEF Job, Enter

LEMMA BatchFields ==
  ASSUME NEW j \in Job
  PROVE  /\ Batch(j) \in Job /\ Batch(j).pc = "ensure" /\ Batch(j).todo = DOMAIN File[j.to]
         /\ ~Batch(j).failed /\ Batch(j).cmd = j.cmd /\ Batch(j).cur = j.cur /\ Batch(j).to = j.to
  <1>1. DOMAIN File[j.to] \in SUBSET Path
    BY ReleaseFacts DEF Job
  <1> DEFINE k == Enter(j, "ensure", DOMAIN File[j.to])
  <1>2. /\ k \in Job /\ k.pc = "ensure" /\ k.todo = DOMAIN File[j.to] /\ ~k.failed
        /\ k.cmd = j.cmd /\ k.cur = j.cur /\ k.to = j.to
    BY <1>1, EnterFields
  <1>3. Batch(j) = [k EXCEPT !.attempt = @ + 1]
    BY DEF Batch
  <1> HIDE DEF k
  <1> QED
    BY <1>2, <1>3 DEF Job

LEMMA CommandHolds == IInv /\ Command => IInv'
  <1> SUFFICES ASSUME IInv, Command PROVE IInv'
    OBVIOUS
  <1>1. /\ server \in Release /\ config \in 0 .. Releases /\ manifest \in 0 .. Releases
        /\ Releases \in Nat
    BY YostarAssumption DEF IInv, TypeOK, Release
  <1>2. ASSUME NEW force \in BOOLEAN, Install(force) PROVE IInv'
    <2> DEFINE j == NewJob("install", 0, server, "ensure", ~HasEntries)
               ch == Change("install", 0, server)
    <2>1. Begin(ch, Batch(j))
      BY <1>2 DEF Install
    <2>2. ch.from \in Nat /\ ch.basis \in 0 .. Releases /\ ch # NoMarker
      BY <1>1 DEF Change, NoMarker, Release
    <2>3. j \in Job /\ j.cmd = "install" /\ j.cur = 0 /\ j.to = server
      BY <1>1 DEF NewJob, Job, HasEntries
    <2> HIDE DEF j, ch
    <2> QED
      BY <2>1, <2>2, <2>3, BatchFields, BeginHolds
  <1>3. ASSUME NEW cur \in 0 .. Releases, Update(cur) PROVE IInv'
    <2> DEFINE j == NewJob("update", cur, server, "blocking", FALSE)
               ch == Change("update", Version[config], server)
               k == IF cur = 0 THEN Batch(j) ELSE Enter(j, "blocking", Blocking(j))
    <2>1. Begin(ch, k)
      BY <1>3 DEF Update
    <2>2. config \in Release
      BY <1>1, <1>3 DEF Update, Detected, Release
    <2>3. ch.from \in Nat /\ ch.basis \in 0 .. Releases /\ ch # NoMarker
      BY <1>1, <2>2, ReleaseFacts DEF Change, NoMarker, Release
    <2>4. j \in Job /\ j.cmd = "update" /\ j.cur = cur /\ j.to = server
      BY <1>1 DEF NewJob, Job
    <2> HIDE DEF j, ch
    <2>5. CASE cur = 0
      BY <2>1, <2>3, <2>4, <2>5, BatchFields, BeginHolds
    <2>6. CASE cur # 0
      <3>1. cur \in Release
        BY <1>1, <2>6 DEF Release
      <3>2. Blocking(j) \in SUBSET Path
        BY <2>4, <3>1, ReleaseFacts DEF Blocking, Obsolete
      <3>3. /\ k \in Job /\ k.pc = "blocking" /\ k.todo = Blocking(j)
            /\ k.cmd = "update" /\ k.cur = cur /\ k.to = server
        BY <2>4, <2>6, <3>2, EnterFields
      <3>4. Blocking(k) = Blocking(j)
        BY <2>4, <3>3 DEF Blocking, Blocks, Obsolete
      <3> HIDE DEF k
      <3> QED
        BY <2>1, <2>3, <2>6, <3>3, <3>4, BeginHolds
    <2> QED
      BY <2>5, <2>6
  <1>4. ASSUME Repair PROVE IInv'
    <2> DEFINE j == NewJob("repair", 0, manifest, "ensure", FALSE)
               ch == Change("repair", Version[config], manifest)
    <2>1. Begin(ch, Batch(j)) /\ Detected
      BY <1>4 DEF Repair
    <2>2. config \in Release /\ manifest \in Release
      BY <1>1, <2>1 DEF Detected, Release
    <2>3. ch.from \in Nat /\ ch.basis \in 0 .. Releases /\ ch # NoMarker
      BY <1>1, <2>2, ReleaseFacts DEF Change, NoMarker, Release
    <2>4. j \in Job /\ j.cmd = "repair" /\ j.cur = 0 /\ j.to = manifest
      BY <1>1, <2>2 DEF NewJob, Job
    <2> HIDE DEF j, ch
    <2> QED
      BY <2>1, <2>3, <2>4, BatchFields, BeginHolds
  <1> QED
    BY <1>2, <1>3, <1>4 DEF Command
-----------------------------------------------------------------------------
(* The steps of a command. *)

LEMMA RunningJob ==
  ASSUME IInv, job.pc # "idle"
  PROVE  /\ job # Idle /\ job \in Job /\ marker # NoMarker
         /\ job.to \in Release /\ DOMAIN File[job.to] \subseteq Path
         /\ \A p \in DOMAIN File[job.to] : File[job.to][p] \in Content
         /\ job.cur # 0 => /\ job.cur \in Release /\ Obsolete(job) \subseteq Path
                           /\ Obsolete(job) \cap DOMAIN File[job.to] = {}
                           /\ \A p \in Obsolete(job) : File[job.cur][p] \in Content
  <1>1. job # Idle /\ job \in Job /\ marker # NoMarker
    BY IdleShape DEF IInv, JobShape
  <1>2. job.to \in Release /\ (job.cur # 0 => job.cur \in Release)
    BY <1>1, YostarAssumption DEF Job, Release
  <1> QED
    BY <1>1, <1>2, ReleaseFacts DEF Obsolete

\* A command that goes on has its marker, so nothing is said of launch.
LEMMA PendingHolds ==
  ASSUME IInv, job.pc # "idle", UNCHANGED <<marker, server, crashes, edits>>,
         tree' \in [Path -> Node], IsTree(tree'), damaged' \subseteq damaged,
         \A p \in Path : HoldsFile(tree, p)' =>
           \/ tree'[p] = tree[p] /\ (p \in damaged => p \in damaged')
           \/ p \in DOMAIN File[job.to] /\ tree'[p] = File[job.to][p],
         manifest' \in 0 .. Releases, config' \in 0 .. Releases,
         dropped' = dropped, faults' \in 0 .. MaxFaults,
         JobShape', job' # Idle => job' \in Job,
         Named', Swept', SizesTell => Placed'
  PROVE  IInv'
  <1>1. TypeOK'
    BY DEF IInv, TypeOK, Job, Release
  <1>2. Origin'
    <2> SUFFICES ASSUME NEW p \in Path \ damaged', HoldsFile(tree, p)'
                 PROVE  \E r \in Release : p \in DOMAIN File[r] /\ tree'[p] = File[r][p]
      BY DEF Origin
    <2>1. CASE tree'[p] = tree[p] /\ (p \in damaged => p \in damaged')
      BY <2>1 DEF IInv, Origin, HoldsFile
    <2>2. CASE p \in DOMAIN File[job.to] /\ tree'[p] = File[job.to][p]
      BY <2>2, RunningJob
    <2> QED
      BY <2>1, <2>2
  <1>3. LaunchWhole'
    BY RunningJob DEF LaunchWhole
  <1> QED
    BY <1>1, <1>2, <1>3 DEF IInv

LEMMA CleanEntryHolds ==
  ASSUME IInv, NEW p \in Path, CleanEntry(p)
  PROVE  IInv'
  <1> DEFINE owned == Matches(tree, p, File[job.cur][p])
  <1>1. /\ Cleaning /\ p \in job.todo /\ job.pc \in {"blocking", "cleanup"}
        /\ tree' = IF owned THEN RemoveFile(tree, p) ELSE tree
        /\ UNCHANGED <<manifest, config, marker, server, damaged, dropped, crashes, faults, edits>>
    BY DEF CleanEntry, Cleaning, ghosts, bounds
  <1>2. /\ job # Idle /\ job \in Job /\ marker # NoMarker /\ job.cur # 0 /\ job.cmd # "repair"
        /\ job.todo \subseteq Obsolete(job) /\ Obsolete(job) \subseteq Path
        /\ Obsolete(job) \cap DOMAIN File[job.to] = {}
        /\ \A q \in Obsolete(job) : File[job.cur][q] \in Content
        /\ DOMAIN File[job.to] \subseteq Path
    BY <1>1, RunningJob DEF IInv, JobShape
  <1>3. \/ /\ owned \/ Missing(tree, p) \/ job.pc = "cleanup"
           /\ job' \in Job /\ job'.pc = job.pc /\ job'.todo = job.todo \ {p}
           /\ job'.cmd = job.cmd /\ job'.cur = job.cur /\ job'.to = job.to
        \/ job' = Idle
    <2>1. CASE owned
      <3>1. job' = [job EXCEPT !.todo = @ \ {p},
                               !.dirs = @ \cup (IF Len(p) > 1 THEN {Front(p)} ELSE {})]
        BY <2>1 DEF CleanEntry
      <3>2. Len(p) > 1 => Front(p) \in Path
        BY TreeAssumption DEF Front
      <3> QED
        BY <1>2, <2>1, <3>1, <3>2 DEF Job
    <2>2. CASE ~owned /\ (Missing(tree, p) \/ job.pc = "cleanup")
      <3>1. job' = [job EXCEPT !.todo = @ \ {p}]
        BY <2>2 DEF CleanEntry
      <3> QED
        BY <1>2, <2>2, <3>1 DEF Job
    <2>3. CASE ~owned /\ ~Missing(tree, p) /\ job.pc # "cleanup"
      BY <2>3 DEF CleanEntry
    <2> QED
      BY <2>1, <2>2, <2>3
  <1>4. /\ tree \in [Path -> Node] /\ tree' \in [Path -> Node] /\ IsTree(tree')
        /\ \A q \in Path : tree'[q] = tree[q] \/ (q = p /\ owned /\ tree'[q] = "none")
    <2>1. owned => tree[p] \notin Directory
      BY <1>1, <1>2, TreeAssumption DEF Matches, Directory
    <2>2. tree \in [Path -> Node] /\ IsTree(tree)
      BY DEF IInv, TypeOK
    <2>3. owned => RemoveFile(tree, p) \in [Path -> Node] /\ IsTree(RemoveFile(tree, p))
      BY <2>1, <2>2, RemoveKeepsTree
    <2> QED
      BY <1>1, <2>2, <2>3 DEF RemoveFile
  <1>5. \A q \in Path : HoldsFile(tree, q)' => tree'[q] = tree[q]
    BY <1>4, TreeAssumption DEF HoldsFile
  <1> HIDE DEF owned
  <1>6. CASE job' = Idle
    <2>1. TypeOK'
      BY <1>1, <1>4, <1>6 DEF IInv, TypeOK
    <2>2. Origin'
      BY <1>1, <1>5, OriginKept
    <2> QED
      BY <1>1, <1>2, <1>6, <2>1, <2>2, StopHolds
  <1>7. CASE job' # Idle
    <2>1. /\ owned \/ Missing(tree, p) \/ job.pc = "cleanup"
          /\ job' \in Job /\ job'.pc = job.pc /\ job'.todo = job.todo \ {p}
          /\ job'.cmd = job.cmd /\ job'.cur = job.cur /\ job'.to = job.to
      BY <1>3, <1>7
    <2>2. Obsolete(job') = Obsolete(job) /\ \A q : Blocks(job', q) <=> Blocks(job, q)
      BY <2>1 DEF Obsolete, Blocks
    <2>3. JobShape'
      BY <1>1, <1>2, <2>1, <2>2 DEF JobShape, Cleaning
    <2>4. Named'
      BY <1>1, <1>2, <2>1 DEF Named
    <2>5. SizesTell => Placed'
      <3> SUFFICES ASSUME SizesTell PROVE Placed'
        OBVIOUS
      <3>1. ASSUME job.pc = "cleanup", NEW q \in DOMAIN File[job.to]
            PROVE  tree'[q] = File[job.to][q] \/ q \in damaged'
        <4>1. Good(job.to, q) /\ q \in Path /\ q # p
          BY <1>1, <1>2, <3>1 DEF IInv, Placed
        <4>2. tree'[q] = tree[q]
          BY <1>4, <4>1
        <4> QED
          BY <1>1, <4>1, <4>2 DEF Good
      <3> QED
        BY <1>1, <2>1, <3>1 DEF Placed, Good
    <2>6. Swept'
      <3> SUFFICES ASSUME NEW q \in Obsolete(job), tree'[q] = File[job.cur][q]
                   PROVE  Left(q)'
        BY <2>1, <2>2 DEF Swept
      <3>1. tree[q] = File[job.cur][q] /\ tree'[q] # "none" /\ q \in Path
        BY <1>2, <1>4, TreeAssumption
      <3>2. Left(q)
        BY <1>2, <3>1 DEF IInv, Swept
      <3>3. q # p
        <4>1. ASSUME q = p PROVE FALSE
          <5>1. owned
            BY <3>1, <4>1 DEF owned, Matches
          <5>2. tree'[p] = "none"
            BY <1>1, <1>4, <5>1 DEF RemoveFile
          <5> QED
            BY <3>1, <4>1, <5>2
        <4> QED
          BY <4>1
      <3> QED
        BY <2>1, <2>2, <3>2, <3>3 DEF Left, Blocks
    <2>7. manifest' \in 0 .. Releases /\ config' \in 0 .. Releases /\ faults' \in 0 .. MaxFaults
      BY <1>1 DEF IInv, TypeOK
    <2> QED
      BY <1>1, <1>4, <1>5, <2>1, <2>3, <2>4, <2>5, <2>6, <2>7, PendingHolds
  <1> QED
    BY <1>6, <1>7

LEMMA CleanDirHolds ==
  ASSUME IInv, NEW d \in Path, CleanDir(d)
  PROVE  IInv'
  <1>1. /\ Cleaning /\ job.todo = {} /\ job.pc \in {"blocking", "cleanup"}
        /\ tree' = IF CanRemoveDir(tree, d) THEN RemoveEmptyDir(tree, d) ELSE tree
        /\ job' = [job EXCEPT !.dirs = @ \ {d}]
        /\ UNCHANGED <<manifest, config, marker, server, damaged, dropped, crashes, faults, edits>>
    BY DEF CleanDir, Cleaning, ghosts, bounds
  <1>2. /\ job # Idle /\ job \in Job /\ marker # NoMarker /\ job.cur # 0 /\ job.cmd # "repair"
        /\ Obsolete(job) \subseteq Path /\ DOMAIN File[job.to] \subseteq Path
        /\ \A q \in Obsolete(job) : File[job.cur][q] \in Content
        /\ \A q \in DOMAIN File[job.to] : File[job.to][q] \in Content
    BY <1>1, RunningJob DEF IInv, JobShape
  <1>3. /\ job' \in Job /\ job'.pc = job.pc /\ job'.todo = job.todo
        /\ job'.cmd = job.cmd /\ job'.cur = job.cur /\ job'.to = job.to
    BY <1>1, <1>2 DEF Job
  <1>4. /\ tree' \in [Path -> Node] /\ IsTree(tree')
        /\ \A q \in Path : tree'[q] = tree[q] \/ (tree[q] = "dir" /\ tree'[q] = "none")
    <2>1. tree \in [Path -> Node] /\ IsTree(tree)
      BY DEF IInv, TypeOK
    <2> QED
      BY <1>1, <2>1, RemoveDirEffect
  <1>5. \A q \in Path : \A c \in Content : tree'[q] = c <=> tree[q] = c
    BY <1>4, TreeAssumption
  <1>6. \A q \in Path : HoldsFile(tree, q)' => tree'[q] = tree[q]
    BY <1>4, TreeAssumption DEF HoldsFile
  <1>7. Obsolete(job') = Obsolete(job) /\ \A q : Blocks(job', q) <=> Blocks(job, q)
    BY <1>3 DEF Obsolete, Blocks
  <1>8. JobShape' /\ Named'
    BY <1>1, <1>2, <1>3, <1>7 DEF IInv, JobShape, Cleaning, Named
  <1>9. SizesTell => Placed'
    BY <1>1, <1>2, <1>3, <1>5 DEF IInv, Placed, Good
  <1>10. Swept'
    <2> SUFFICES ASSUME NEW q \in Obsolete(job), tree'[q] = File[job.cur][q]
                 PROVE  Left(q)'
      BY <1>2, <1>3, <1>7 DEF Swept
    <2>1. q \in Path /\ File[job.cur][q] \in Content
      BY <1>2
    <2>2. Left(q)
      BY <1>2, <1>5, <2>1 DEF IInv, Swept
    <2> QED
      BY <1>3, <1>7, <2>2 DEF Left
  <1>11. manifest' \in 0 .. Releases /\ config' \in 0 .. Releases /\ faults' \in 0 .. MaxFaults
    BY <1>1 DEF IInv, TypeOK
  <1> QED
    BY <1>1, <1>2, <1>3, <1>4, <1>6, <1>8, <1>9, <1>10, <1>11, PendingHolds

\* A step that leaves every file as it is.
LEMMA QuietHolds ==
  ASSUME IInv, job.pc # "idle", UNCHANGED <<tree, marker, server, damaged, dropped, crashes, edits>>,
         manifest' \in 0 .. Releases, config' \in 0 .. Releases, faults' \in 0 .. MaxFaults,
         JobShape', job' # Idle => job' \in Job, Named', Swept', SizesTell => Placed'
  PROVE  IInv'
  <1>1. /\ tree' \in [Path -> Node] /\ IsTree(tree')
        /\ \A p \in Path : HoldsFile(tree, p)' => tree'[p] = tree[p]
    BY DEF IInv, TypeOK
  <1> QED
    BY <1>1, PendingHolds

LEMMA CleanDoneHolds == IInv /\ CleanDone => IInv'
  <1> SUFFICES ASSUME IInv, CleanDone PROVE IInv'
    OBVIOUS
  <1>1. /\ Cleaning /\ job.todo = {} /\ job.pc \in {"blocking", "cleanup"}
        /\ job' = IF job.pc = "blocking" THEN Batch(job) ELSE Enter(job, "manifest", {})
        /\ UNCHANGED <<tree, manifest, config, marker, server, damaged, dropped, crashes, faults, edits>>
    BY DEF CleanDone, Cleaning, ghosts, bounds
  <1>2. /\ job # Idle /\ job \in Job /\ marker # NoMarker /\ job.cur # 0 /\ job.cmd # "repair"
    BY <1>1, RunningJob DEF IInv, JobShape
  <1>3. /\ job' \in Job /\ job'.cmd = job.cmd /\ job'.cur = job.cur /\ job'.to = job.to
        /\ job.pc = "blocking" => /\ job'.pc = "ensure" /\ ~job'.failed
                                  /\ job'.todo = DOMAIN File[job.to]
        /\ job.pc = "cleanup" => job'.pc = "manifest"
    BY <1>1, <1>2, BatchFields, EnterFields
  <1>4. Obsolete(job') = Obsolete(job) /\ \A q : Blocks(job', q) <=> Blocks(job, q)
    BY <1>3 DEF Obsolete, Blocks
  <1>5. JobShape' /\ Named'
    BY <1>1, <1>2, <1>3 DEF IInv, JobShape, Cleaning, Named
  <1>6. SizesTell => Placed'
    BY <1>1, <1>2, <1>3 DEF IInv, Placed, Good
  <1>7. Swept'
    BY <1>1, <1>2, <1>3, <1>4 DEF IInv, Swept, Left
  <1> QED
    BY <1>1, <1>2, <1>3, <1>5, <1>6, <1>7, QuietHolds DEF IInv, TypeOK

\* A file that passes its check holds what the target lists, if sizes tell releases apart.
LEMMA IntactIsGood ==
  ASSUME IInv, SizesTell, job.pc = "ensure", NEW p \in DOMAIN File[job.to], Intact(p)
  PROVE  Good(job.to, p)
  <1>1. /\ job.to \in Release /\ p \in Path
        /\ job.cur # 0 => job.cur \in Release
    BY RunningJob
  <1>2. CASE MetadataOnly(p)
    <2>1. HoldsFile(tree, p) /\ Size[tree[p]] = Size[File[job.to][p]]
      BY <1>2 DEF Intact, SameSize
    <2>2. CASE p \notin damaged
      <3>1. PICK r \in Release : p \in DOMAIN File[r] /\ tree[p] = File[r][p]
        BY <1>1, <2>1, <2>2 DEF IInv, Origin
      <3> QED
        BY <1>1, <2>1, <3>1 DEF SizesTell, Good
    <2> QED
      BY <2>2 DEF Good
  <1>3. CASE ~MetadataOnly(p)
    BY <1>3 DEF Intact, Matches, Good
  <1> QED
    BY <1>2, <1>3

LEMMA EnsureHolds ==
  ASSUME IInv, NEW p \in Path, EnsureFile(p)
  PROVE  IInv'
  <1> DEFINE c == File[job.to][p]
  <1>1. /\ job.pc = "ensure" /\ p \in job.todo /\ (Intact(p) \/ CanWrite(tree, p))
        /\ tree' = IF Intact(p) THEN tree ELSE WriteFile(tree, p, c)
        /\ damaged' = IF Intact(p) THEN damaged ELSE damaged \ {p}
        /\ job' = [job EXCEPT !.todo = @ \ {p}]
        /\ UNCHANGED <<manifest, config, marker, server, dropped, crashes, faults, edits>>
    BY DEF EnsureFile, bounds
  <1>2. /\ job # Idle /\ job \in Job /\ marker # NoMarker
        /\ job.to \in Release /\ DOMAIN File[job.to] \subseteq Path
        /\ p \in DOMAIN File[job.to] /\ c \in Content
        /\ \A q \in DOMAIN File[job.to] : File[job.to][q] \in Content
        /\ job.cur # 0 => /\ Obsolete(job) \subseteq Path
                          /\ Obsolete(job) \cap DOMAIN File[job.to] = {}
                          /\ \A q \in Obsolete(job) : File[job.cur][q] \in Content
    BY <1>1, RunningJob DEF IInv, JobShape
  <1>3. /\ job' \in Job /\ job'.pc = job.pc /\ job'.todo = job.todo \ {p}
        /\ job'.cmd = job.cmd /\ job'.cur = job.cur /\ job'.to = job.to
        /\ job'.failed = job.failed
    BY <1>1, <1>2 DEF Job
  <1>4. /\ tree \in [Path -> Node] /\ IsTree(tree) /\ damaged \subseteq Path
    BY DEF IInv, TypeOK
  <1> HIDE DEF c
  <1>5. /\ tree' \in [Path -> Node] /\ IsTree(tree')
        /\ \A q \in Path \ {p} : tree'[q] = tree[q] \/ (tree[q] = "none" /\ tree'[q] = "dir")
        /\ ~Intact(p) => tree'[p] = c
        /\ Intact(p) => tree' = tree
    <2>1. CASE Intact(p)
      BY <1>1, <1>4, <2>1
    <2>2. CASE ~Intact(p)
      BY <1>1, <1>2, <1>4, <2>2, WriteKeepsTree, WriteEffect
    <2> QED
      BY <2>1, <2>2
  <1>6. \A q \in Path \ {p} : \A x \in Content : tree'[q] = x <=> tree[q] = x
    BY <1>5, TreeAssumption
  <1>7. /\ damaged' \subseteq damaged
        /\ \A q \in Path : HoldsFile(tree, q)' =>
             \/ tree'[q] = tree[q] /\ (q \in damaged => q \in damaged')
             \/ q \in DOMAIN File[job.to] /\ tree'[q] = File[job.to][q]
    BY <1>1, <1>2, <1>5, TreeAssumption DEF HoldsFile, c
  <1>8. Obsolete(job') = Obsolete(job) /\ \A q : Blocks(job', q) <=> Blocks(job, q)
    BY <1>3 DEF Obsolete, Blocks
  <1>9. JobShape' /\ Named'
    BY <1>1, <1>2, <1>3, <1>8 DEF IInv, JobShape, Cleaning, Named, Detected
  <1>10. SizesTell => Placed'
    <2> SUFFICES ASSUME SizesTell, ~job.failed, NEW q \in DOMAIN File[job.to] \ job'.todo
                 PROVE  tree'[q] = File[job.to][q] \/ q \in damaged'
      BY <1>1, <1>3 DEF Placed, Good
    <2>1. CASE q = p
      <3>1. CASE Intact(p)
        BY <1>1, <1>2, <1>5, <2>1, <3>1, IntactIsGood DEF Good
      <3>2. CASE ~Intact(p)
        BY <1>5, <2>1, <3>2 DEF c
      <3> QED
        BY <3>1, <3>2
    <2>2. CASE q # p
      <3>1. Good(job.to, q) /\ q \in Path /\ File[job.to][q] \in Content
        BY <1>1, <1>2, <1>3, <2>2 DEF IInv, Placed
      <3> QED
        BY <1>1, <1>6, <2>2, <3>1 DEF Good
    <2> QED
      BY <2>1, <2>2
  <1>11. Swept'
    <2> SUFFICES ASSUME job.cur # 0, NEW q \in Obsolete(job), tree'[q] = File[job.cur][q]
                 PROVE  Left(q)'
      BY <1>3, <1>8 DEF Swept
    <2>1. q # p /\ q \in Path /\ File[job.cur][q] \in Content
      BY <1>2
    <2>2. Left(q)
      BY <1>2, <1>6, <2>1 DEF IInv, Swept
    <2> QED
      BY <1>1, <1>3, <1>8, <2>2 DEF Left
  <1>12. manifest' \in 0 .. Releases /\ config' \in 0 .. Releases /\ faults' \in 0 .. MaxFaults
    BY <1>1 DEF IInv, TypeOK
  <1> QED
    BY <1>1, <1>3, <1>5, <1>7, <1>9, <1>10, <1>11, <1>12, PendingHolds

LEMMA FileFailsHolds ==
  ASSUME IInv, NEW p \in Path, FileFails(p)
  PROVE  IInv'
  <1>1. /\ job.pc = "ensure" /\ job' = [job EXCEPT !.todo = @ \ {p}, !.failed = TRUE]
        /\ UNCHANGED <<tree, manifest, config, marker, server, damaged, dropped, crashes, edits>>
        /\ CanWrite(tree, p) => faults < MaxFaults
        /\ faults' = IF CanWrite(tree, p) THEN faults + 1 ELSE faults
    BY DEF FileFails, ghosts
  <1>2. job # Idle /\ job \in Job /\ marker # NoMarker
    BY <1>1, RunningJob
  <1>3. /\ job' \in Job /\ job'.pc = job.pc /\ job'.todo = job.todo \ {p} /\ job'.failed
        /\ job'.cmd = job.cmd /\ job'.cur = job.cur /\ job'.to = job.to
    BY <1>1, <1>2 DEF Job
  <1>4. faults' \in 0 .. MaxFaults
    BY <1>1, YostarAssumption DEF IInv, TypeOK
  <1>5. Obsolete(job') = Obsolete(job) /\ \A q : Blocks(job', q) <=> Blocks(job, q)
    BY <1>3 DEF Obsolete, Blocks
  <1>6. JobShape' /\ Named'
    BY <1>1, <1>2, <1>3 DEF IInv, JobShape, Cleaning, Named, Detected
  <1>7. Placed'
    BY <1>1, <1>3 DEF Placed
  <1>8. Swept'
    BY <1>1, <1>2, <1>3, <1>5 DEF IInv, Swept, Left
  <1> QED
    BY <1>1, <1>3, <1>4, <1>6, <1>7, <1>8, QuietHolds DEF IInv, TypeOK

LEMMA BatchDoneHolds == IInv /\ BatchDone => IInv'
  <1> SUFFICES ASSUME IInv, BatchDone PROVE IInv'
    OBVIOUS
  <1>1. /\ job.pc = "ensure" /\ job.todo = {}
        /\ job' = IF ~job.failed THEN After(job)
                  ELSE IF job.attempt < Attempts THEN Batch(job)
                  ELSE Idle
        /\ UNCHANGED <<tree, manifest, config, marker, server, damaged, dropped, crashes, faults, edits>>
    BY DEF BatchDone, ghosts, bounds
  <1>2. /\ job # Idle /\ job \in Job /\ marker # NoMarker
        /\ job.cur # 0 => Obsolete(job) \subseteq Path
    BY <1>1, RunningJob
  <1>3. CASE job' = Idle
    <2>1. TypeOK' /\ Origin'
      BY <1>1, <1>3 DEF IInv, TypeOK, Origin, HoldsFile
    <2> QED
      BY <1>1, <1>2, <1>3, <2>1, StopHolds
  <1>4. CASE ~job.failed
    <2>1. job' = After(job)
      BY <1>1, <1>4
    <2>2. /\ job' \in Job /\ job'.cmd = job.cmd /\ job'.cur = job.cur /\ job'.to = job.to
          /\ \/ job.cmd = "repair" /\ job'.pc = "finish"
             \/ /\ job.cmd # "repair" /\ job.cur # 0
                /\ job'.pc = "cleanup" /\ job'.todo = Obsolete(job) \ Blocking(job)
             \/ job.cmd # "repair" /\ job.cur = 0 /\ job'.pc = "manifest"
      <3>1. CASE job.cmd = "repair"
        BY <1>2, <2>1, <3>1, EnterFields DEF After
      <3>2. CASE job.cmd # "repair" /\ job.cur # 0
        <4>1. Obsolete(job) \ Blocking(job) \in SUBSET Path
          BY <1>2, <3>2
        <4> QED
          BY <1>2, <2>1, <3>2, <4>1, EnterFields DEF After
      <3>3. CASE job.cmd # "repair" /\ job.cur = 0
        BY <1>2, <2>1, <3>3, EnterFields DEF After
      <3> QED
        BY <3>1, <3>2, <3>3
    <2>3. Obsolete(job') = Obsolete(job) /\ \A q : Blocks(job', q) <=> Blocks(job, q)
      BY <2>2 DEF Obsolete, Blocks
    <2>4. JobShape'
      BY <1>1, <1>2, <2>2, <2>3 DEF IInv, JobShape, Cleaning
    <2>5. Named'
      BY <1>1, <1>2, <2>2 DEF IInv, Named, Detected
    <2>6. SizesTell => Placed'
      BY <1>1, <1>4, <2>2 DEF IInv, Placed, Good
    <2>7. Swept'
      <3> SUFFICES ASSUME job.cur # 0, NEW q \in Obsolete(job), tree[q] = File[job.cur][q]
                   PROVE  Left(q)'
        BY <1>1, <2>2, <2>3 DEF Swept
      <3>1. job.cmd # "repair"
        BY <1>2 DEF IInv, JobShape
      <3>2. ~Blocks(job, q)
        BY <1>1, <1>2 DEF IInv, Swept, Left
      <3> QED
        BY <2>2, <3>1, <3>2 DEF Left, Blocking
    <2> QED
      BY <1>1, <2>2, <2>4, <2>5, <2>6, <2>7, QuietHolds DEF IInv, TypeOK
  <1>5. CASE job.failed /\ job.attempt < Attempts
    <2>1. job' = Batch(job)
      BY <1>1, <1>5
    <2>2. /\ job' \in Job /\ job'.cmd = job.cmd /\ job'.cur = job.cur /\ job'.to = job.to
          /\ job'.pc = "ensure" /\ ~job'.failed /\ job'.todo = DOMAIN File[job.to]
      BY <1>2, <2>1, BatchFields
    <2>3. Obsolete(job') = Obsolete(job) /\ \A q : Blocks(job', q) <=> Blocks(job, q)
      BY <2>2 DEF Obsolete, Blocks
    <2>4. JobShape' /\ Named'
      BY <1>1, <1>2, <2>2 DEF IInv, JobShape, Cleaning, Named, Detected
    <2>5. Placed'
      BY <2>2 DEF Placed
    <2>6. Swept'
      BY <1>1, <1>2, <2>2, <2>3 DEF IInv, Swept, Left
    <2> QED
      BY <1>1, <2>2, <2>4, <2>5, <2>6, QuietHolds DEF IInv, TypeOK
  <1> QED
    BY <1>1, <1>3, <1>4, <1>5

LEMMA WriteManifestHolds == IInv /\ WriteManifest => IInv'
  <1> SUFFICES ASSUME IInv, WriteManifest PROVE IInv'
    OBVIOUS
  <1>1. /\ job.pc = "manifest" /\ manifest' = job.to /\ job' = [job EXCEPT !.pc = "config"]
        /\ UNCHANGED <<tree, config, marker, server, damaged, dropped, crashes, faults, edits>>
    BY DEF WriteManifest, ghosts, bounds
  <1>2. job # Idle /\ job \in Job /\ marker # NoMarker /\ job.to \in 1 .. Releases
    BY <1>1, RunningJob DEF Release
  <1>3. /\ job' \in Job /\ job'.pc = "config" /\ job'.cmd = job.cmd /\ job'.cur = job.cur
        /\ job'.to = job.to
    BY <1>1, <1>2 DEF Job
  <1>4. Obsolete(job') = Obsolete(job) /\ job.cmd # "repair"
    BY <1>1, <1>2, <1>3 DEF IInv, JobShape, Obsolete
  <1>5. JobShape' /\ Named'
    BY <1>1, <1>2, <1>3, <1>4 DEF JobShape, Cleaning, Named
  <1>6. SizesTell => Placed'
    BY <1>1, <1>3 DEF IInv, Placed, Good
  <1>7. Swept'
    BY <1>1, <1>2, <1>3, <1>4 DEF IInv, Swept, Left
  <1>8. manifest' \in 0 .. Releases /\ config' \in 0 .. Releases /\ faults' \in 0 .. MaxFaults
    BY <1>1, <1>2 DEF IInv, TypeOK
  <1> QED
    BY <1>1, <1>3, <1>5, <1>6, <1>7, <1>8, QuietHolds

LEMMA WriteConfigHolds == IInv /\ WriteConfig => IInv'
  <1> SUFFICES ASSUME IInv, WriteConfig PROVE IInv'
    OBVIOUS
  <1>1. /\ job.pc = "config" /\ config' = job.to /\ job' = [job EXCEPT !.pc = "finish"]
        /\ UNCHANGED <<tree, manifest, marker, server, damaged, dropped, crashes, faults, edits>>
    BY DEF WriteConfig, ghosts, bounds
  <1>2. job # Idle /\ job \in Job /\ marker # NoMarker /\ job.to \in 1 .. Releases
    BY <1>1, RunningJob DEF Release
  <1>3. /\ job' \in Job /\ job'.pc = "finish" /\ job'.cmd = job.cmd /\ job'.cur = job.cur
        /\ job'.to = job.to
    BY <1>1, <1>2 DEF Job
  <1>4. Obsolete(job') = Obsolete(job) /\ job.cmd # "repair" /\ manifest = job.to
    BY <1>1, <1>2, <1>3 DEF IInv, JobShape, Obsolete, Named
  <1>5. Detected'
    BY <1>1, <1>2, <1>4, YostarAssumption DEF Detected
  <1>6. JobShape' /\ Named'
    BY <1>1, <1>2, <1>3, <1>4, <1>5 DEF JobShape, Cleaning, Named
  <1>7. SizesTell => Placed'
    BY <1>1, <1>3 DEF IInv, Placed, Good
  <1>8. Swept'
    BY <1>1, <1>2, <1>3, <1>4 DEF IInv, Swept, Left
  <1>9. manifest' \in 0 .. Releases /\ config' \in 0 .. Releases /\ faults' \in 0 .. MaxFaults
    BY <1>1, <1>2 DEF IInv, TypeOK
  <1> QED
    BY <1>1, <1>3, <1>6, <1>7, <1>8, <1>9, QuietHolds

\* The marker goes when every file of the release the metadata name is in place.
LEMMA FinishHolds == IInv /\ Finish => IInv'
  <1> SUFFICES ASSUME IInv, Finish PROVE IInv'
    OBVIOUS
  <1>1. /\ job.pc = "finish" /\ marker' = NoMarker /\ job' = Idle /\ job'.pc = "idle"
        /\ dropped' = (dropped /\ job.cur # 0)
        /\ UNCHANGED <<tree, manifest, config, server, damaged, crashes, faults, edits>>
    BY IdleShape DEF Finish, bounds
  <1>2. TypeOK'
    <2>1. dropped' \in BOOLEAN
      BY <1>1 DEF IInv, TypeOK
    <2>2. marker'.from \in Nat /\ marker'.basis \in 0 .. Releases
      BY <1>1, YostarAssumption DEF NoMarker
    <2> QED
      BY <1>1, <2>1, <2>2 DEF IInv, TypeOK
  <1>3. Origin'
    BY <1>1 DEF IInv, Origin, HoldsFile
  <1>4. SizesTell => LaunchWhole'
    <2> SUFFICES ASSUME SizesTell PROVE LaunchWhole'
      OBVIOUS
    <2>1. Detected /\ manifest = job.to
      BY <1>1 DEF IInv, Named
    <2>2. \A p \in DOMAIN File[manifest] : Good(manifest, p)
      BY <1>1, <2>1 DEF IInv, Placed
    <2> QED
      BY <1>1, <2>1, <2>2 DEF LaunchWhole, Detected, Good, Matches
  <1> QED
    BY <1>1, <1>2, <1>3, <1>4 DEF IInv, JobShape, Named, Placed, Swept, Cleaning

-----------------------------------------------------------------------------
(* Uninstall and the environment. *)

\* No command runs, before and after, and what launch accepts is judged as before.
LEMMA RestHolds ==
  ASSUME IInv, job = Idle, job' = Idle, TypeOK', Origin',
         LaunchWhole => LaunchWhole'
  PROVE  IInv'
  <1>1. job'.pc = "idle"
    BY IdleShape
  <1> QED
    BY <1>1 DEF IInv, JobShape, Named, Placed, Swept, Cleaning

LEMMA DetachHolds == IInv /\ Detach => IInv'
  <1> SUFFICES ASSUME IInv, Detach PROVE IInv'
    OBVIOUS
  <1>1. /\ job = Idle /\ marker' = NoMarker /\ dropped' = (dropped \/ marker # NoMarker)
        /\ UNCHANGED <<tree, manifest, config, server, job, damaged, crashes, faults, edits>>
    BY DEF Detach, Uninstallable, bounds
  <1>2. TypeOK'
    <2>1. dropped' \in BOOLEAN
      BY <1>1 DEF IInv, TypeOK
    <2>2. marker'.from \in Nat /\ marker'.basis \in 0 .. Releases
      BY <1>1, YostarAssumption DEF NoMarker
    <2> QED
      BY <1>1, <2>1, <2>2 DEF IInv, TypeOK
  <1>3. Origin'
    BY <1>1 DEF IInv, Origin, HoldsFile
  <1>4. LaunchWhole => LaunchWhole'
    BY <1>1 DEF LaunchWhole, Detected
  <1> QED
    BY <1>1, <1>2, <1>3, <1>4, RestHolds

LEMMA UninstallHolds == IInv /\ Uninstall => IInv'
  <1> SUFFICES ASSUME IInv, Uninstall PROVE IInv'
    OBVIOUS
  <1>1. /\ job = Idle /\ tree' = [p \in Path |-> "none"] /\ manifest' = 0 /\ config' = 0
        /\ marker' = NoMarker /\ damaged' = {} /\ dropped' = FALSE
        /\ UNCHANGED <<server, job, crashes, faults, edits>>
    BY DEF Uninstall, Uninstallable, bounds
  <1>2. TypeOK'
    <2>1. tree' \in [Path -> Node] /\ IsTree(tree')
      BY <1>1 DEF Node, IsTree
    <2>2. /\ marker'.from \in Nat /\ marker'.basis \in 0 .. Releases
          /\ {manifest', config'} \subseteq 0 .. Releases
      BY <1>1, YostarAssumption DEF NoMarker
    <2> QED
      BY <1>1, <2>1, <2>2 DEF IInv, TypeOK
  <1>3. Origin'
    BY <1>1, TreeAssumption DEF Origin, HoldsFile
  <1> QED
    BY <1>1, <1>2, <1>3, StopHolds

LEMMA UninstallCutHolds == IInv /\ UninstallCut => IInv'
  <1> SUFFICES ASSUME IInv, UninstallCut PROVE IInv'
    OBVIOUS
  <1>1. PICK kept \in SUBSET {p \in Path : HoldsFile(tree, p)} :
          tree' = [p \in Path |-> IF HoldsFile(tree, p) /\ p \notin kept THEN "none" ELSE tree[p]]
    BY DEF UninstallCut
  <1>2. /\ job = Idle /\ crashes < MaxCrashes /\ crashes' = crashes + 1 /\ dropped' = TRUE
        /\ manifest' \in {0, manifest} /\ config' \in {0, config} /\ marker' \in {NoMarker, marker}
        /\ UNCHANGED <<server, job, damaged, faults, edits>>
    BY DEF UninstallCut, Uninstallable
  <1>3. TypeOK'
    <2>1. tree \in [Path -> Node] /\ IsTree(tree)
      BY DEF IInv, TypeOK
    <2>2. tree' \in [Path -> Node]
      BY <1>1, <2>1 DEF Node
    <2>3. IsTree(tree')
      <3> SUFFICES ASSUME NEW p \in Path, tree'[p] # "none", NEW a \in Ancestors(p)
                   PROVE  tree'[a] \in Directory
        BY DEF IsTree
      <3>1. a \in Path
        BY AncestorFacts
      <3>2. tree[a] \in Directory
        BY <1>1, <2>1 DEF IsTree
      <3> QED
        BY <1>1, <3>1, <3>2, TreeAssumption DEF Directory, HoldsFile
    <2>4. crashes' \in 0 .. MaxCrashes
      BY <1>2, YostarAssumption DEF IInv, TypeOK
    <2>5. /\ marker'.from \in Nat /\ marker'.basis \in 0 .. Releases
          /\ {manifest', config'} \subseteq 0 .. Releases
      BY <1>2, YostarAssumption DEF IInv, TypeOK, NoMarker
    <2> QED
      BY <1>2, <2>2, <2>3, <2>4, <2>5 DEF IInv, TypeOK
  <1>4. Origin'
    BY <1>1, <1>2, TreeAssumption DEF IInv, Origin, HoldsFile
  <1> QED
    BY <1>2, <1>3, <1>4, StopHolds

LEMMA EnvironmentHolds == IInv /\ (Crash \/ Publish) => IInv'
  <1> SUFFICES ASSUME IInv, Crash \/ Publish PROVE IInv'
    OBVIOUS
  <1>1. CASE Crash
    <2>1. /\ job # Idle /\ crashes < MaxCrashes /\ crashes' = crashes + 1 /\ job' = Idle
          /\ UNCHANGED <<tree, manifest, config, marker, server, damaged, dropped, faults, edits>>
      BY <1>1 DEF Crash, ghosts
    <2>2. marker # NoMarker
      BY <2>1 DEF IInv, JobShape
    <2>3. crashes' \in 0 .. MaxCrashes
      BY <2>1, YostarAssumption DEF IInv, TypeOK
    <2>4. TypeOK' /\ Origin'
      BY <2>1, <2>3 DEF IInv, TypeOK, Origin, HoldsFile
    <2> QED
      BY <2>1, <2>2, <2>4, StopHolds
  <1>2. CASE Publish
    <2>1. /\ server < Releases /\ server' = server + 1
          /\ UNCHANGED <<tree, manifest, config, marker, job, damaged, dropped, crashes, faults, edits>>
      BY <1>2 DEF Publish, ghosts, bounds
    <2>2. TypeOK'
      BY <2>1, YostarAssumption DEF IInv, TypeOK
    <2>3. JobShape' /\ Named' /\ Origin' /\ Swept' /\ (SizesTell => Placed' /\ LaunchWhole')
      BY <2>1 DEF IInv, JobShape, Cleaning, Obsolete, Named, Detected, Origin, HoldsFile, Swept, Left,
                  Blocks, Placed, Good, LaunchWhole, Matches
    <2> QED
      BY <2>2, <2>3 DEF IInv
  <1> QED
    BY <1>1, <1>2

\* What the user does to a file is known of it.
LEMMA EditHolds ==
  ASSUME IInv, NEW p \in Path, Edit(p)
  PROVE  IInv'
  <1>1. /\ job = Idle /\ edits < MaxEdits /\ edits' = edits + 1 /\ damaged' = damaged \cup {p}
        /\ UNCHANGED <<manifest, config, marker, server, job, dropped, crashes, faults>>
    BY DEF Edit
  <1>2. tree \in [Path -> Node] /\ IsTree(tree)
    BY DEF IInv, TypeOK
  <1>3. /\ tree' \in [Path -> Node] /\ IsTree(tree')
        /\ \A q \in Path \ {p} : tree'[q] = tree[q] \/ (tree[q] = "none" /\ tree'[q] = "dir")
    <2>1. CASE HoldsFile(tree, p) /\ tree' = RemoveFile(tree, p)
      <3>1. tree[p] \notin Directory
        BY <2>1, TreeAssumption DEF HoldsFile, Directory
      <3> QED
        BY <1>2, <2>1, <3>1, RemoveKeepsTree DEF RemoveFile
    <2>2. CASE CanWrite(tree, p) /\ \E c \in Foreign : tree' = WriteFile(tree, p, c)
      <3>1. PICK c \in Content : tree' = WriteFile(tree, p, c)
        BY <2>2, YostarAssumption
      <3> QED
        BY <1>2, <2>2, <3>1, WriteKeepsTree, WriteEffect
    <2> QED
      BY <2>1, <2>2 DEF Edit
  <1>4. TypeOK'
    <2>1. edits' \in 0 .. MaxEdits
      BY <1>1, YostarAssumption DEF IInv, TypeOK
    <2> QED
      BY <1>1, <1>3, <2>1 DEF IInv, TypeOK
  <1>5. Origin'
    <2>1. \A q \in Path : HoldsFile(tree, q)' => tree'[q] = tree[q] \/ q \in damaged'
      BY <1>1, <1>3, TreeAssumption DEF HoldsFile
    <2> QED
      BY <1>1, <2>1, OriginKept
  <1>6. LaunchWhole => LaunchWhole'
    <2> SUFFICES ASSUME LaunchWhole, marker = NoMarker, config # 0, ~dropped
                 PROVE  /\ Detected'
                        /\ \A q \in DOMAIN File[manifest] :
                             tree'[q] = File[manifest][q] \/ q \in damaged'
      BY <1>1 DEF LaunchWhole, Matches
    <2>1. Detected /\ manifest \in Release
      BY YostarAssumption DEF LaunchWhole, Detected, IInv, TypeOK, Release
    <2>2. Detected'
      BY <1>1, <2>1 DEF Detected
    <2>3. ASSUME NEW q \in DOMAIN File[manifest]
          PROVE  tree'[q] = File[manifest][q] \/ q \in damaged'
      <3>1. q \in Path /\ File[manifest][q] # "none"
        BY <2>1, ReleaseFacts
      <3>2. tree[q] = File[manifest][q] \/ q \in damaged
        BY DEF LaunchWhole, Matches
      <3> QED
        BY <1>1, <1>3, <3>1, <3>2
    <2> QED
      BY <2>2, <2>3
  <1> QED
    BY <1>1, <1>4, <1>5, <1>6, RestHolds

LEMMA NextHolds == IInv /\ [Next]_vars => IInv'
  <1> SUFFICES ASSUME IInv, [Next]_vars PROVE IInv'
    OBVIOUS
  <1>1. CASE Step
    BY <1>1, CleanDoneHolds, BatchDoneHolds, WriteManifestHolds, WriteConfigHolds, FinishHolds,
       CleanEntryHolds, CleanDirHolds, EnsureHolds, FileFailsHolds DEF Step
  <1>2. CASE UNCHANGED vars
    BY <1>2 DEF vars, ghosts, bounds, IInv, TypeOK, JobShape, Cleaning, Obsolete, Named, Detected,
                Origin, HoldsFile, Swept, Left, Blocks, Placed, Good, LaunchWhole, Matches
  <1> QED
    BY <1>1, <1>2, CommandHolds, DetachHolds, UninstallHolds, UninstallCutHolds, EnvironmentHolds,
       EditHolds DEF Next

\* The progress of the running command agrees with the tree and the metadata files, whatever
\* failed, was killed or was edited before.
THEOREM YostarInvariant == Spec => []IInv
  <1> QED
    BY InitHolds, NextHolds, PTL DEF Spec

\* Every file hangs below directories, and no counter leaves its bound, for every input.
THEOREM YostarTypes == Spec => []TypeOK
  <1>1. IInv => TypeOK
    BY DEF IInv
  <1> QED
    BY <1>1, YostarInvariant, PTL

\* What launch accepts is a whole release, as far as the size of a file tells its release.
THEOREM YostarLaunchWhole ==
  ASSUME SizesTell
  PROVE  Spec => []LaunchWhole
  <1>1. IInv => LaunchWhole
    BY DEF IInv
  <1> QED
    BY <1>1, YostarInvariant, PTL

-----------------------------------------------------------------------------
(* What a step of a command may do to files. *)

\* A command deletes only what the installed release owns unchanged and overwrites only what the
\* target lists.
THEOREM YostarProvenOnly == Spec => ProvenOnly
  <1> DEFINE Proven ==
        job # Idle => \A p \in Path : HoldsFile(tree, p) /\ tree'[p] # tree[p] =>
          \/ p \in DOMAIN File[job.to] /\ tree'[p] = File[job.to][p]
          \/ job.cur # 0 /\ p \in Obsolete(job) /\ tree[p] = File[job.cur][p]
  <1>1. IInv /\ [Next]_vars => [Proven]_vars
    <2> SUFFICES ASSUME IInv, Next, job # Idle, NEW p \in Path, HoldsFile(tree, p), tree'[p] # tree[p]
                 PROVE  \/ p \in DOMAIN File[job.to] /\ tree'[p] = File[job.to][p]
                        \/ job.cur # 0 /\ p \in Obsolete(job) /\ tree[p] = File[job.cur][p]
      OBVIOUS
    <2>1. tree \in [Path -> Node] /\ IsTree(tree) /\ tree[p] \notin {"none", "dir", "link"}
      BY TreeAssumption DEF IInv, TypeOK, HoldsFile
    <2>2. PICK q \in Path : CleanEntry(q) \/ CleanDir(q) \/ EnsureFile(q)
      BY DEF Next, Command, Repair, Install, Update, Begin, Step, CleanDone, BatchDone, WriteManifest,
             WriteConfig, Finish, FileFails, Detach, Uninstall, UninstallCut, Uninstallable, Crash,
             Publish, Edit
    <2>3. CASE CleanEntry(q)
      <3>1. /\ Cleaning /\ q \in job.todo
            /\ tree' = IF tree[q] = File[job.cur][q] THEN RemoveFile(tree, q) ELSE tree
        BY <2>3 DEF CleanEntry, Matches
      <3>2. p = q /\ tree[q] = File[job.cur][q]
        BY <2>1, <3>1 DEF RemoveFile
      <3> QED
        BY <3>1, <3>2 DEF IInv, JobShape
    <2>4. CASE CleanDir(q)
      <3>1. tree' = IF CanRemoveDir(tree, q) THEN RemoveEmptyDir(tree, q) ELSE tree
        BY <2>4 DEF CleanDir
      <3> QED
        BY <2>1, <3>1, RemoveDirEffect
    <2>5. CASE EnsureFile(q)
      <3>1. /\ job.pc = "ensure" /\ q \in job.todo
            /\ tree' = IF Intact(q) THEN tree ELSE WriteFile(tree, q, File[job.to][q])
        BY <2>5 DEF EnsureFile
      <3>2. q \in DOMAIN File[job.to] /\ File[job.to][q] \in Content
        BY <3>1, RunningJob DEF IInv, JobShape
      <3>3. tree' = WriteFile(tree, q, File[job.to][q])
        BY <3>1
      <3>4. p = q
        BY <2>1, <3>2, <3>3, WriteEffect
      <3> QED
        BY <2>1, <3>2, <3>3, <3>4, WriteEffect
    <2> QED
      BY <2>2, <2>3, <2>4, <2>5
  <1> QED
    BY <1>1, YostarInvariant, PTL DEF Spec, ProvenOnly

\* When manifest.json comes to name the target, no unmodified file of the old release is left.
THEOREM YostarOldRemoved == Spec => OldRemoved
  <1> DEFINE Removed ==
        job # Idle /\ manifest' # manifest /\ job.cur # 0 =>
          \A p \in Obsolete(job) : tree[p] # File[job.cur][p]
  <1>1. IInv /\ [Next]_vars => [Removed]_vars
    <2> SUFFICES ASSUME IInv, Next, job # Idle, manifest' # manifest, job.cur # 0,
                        NEW p \in Obsolete(job)
                 PROVE  tree[p] # File[job.cur][p]
      OBVIOUS
    <2>1. job.pc = "manifest"
      BY DEF Next, Command, Repair, Install, Update, Begin, Step, CleanDone, BatchDone, WriteManifest,
             WriteConfig, Finish, FileFails, Detach, Uninstall, UninstallCut, Uninstallable, Crash,
             Publish, Edit, CleanEntry, CleanDir, EnsureFile
    <2> QED
      BY <2>1 DEF IInv, Swept, Left
  <1> QED
    BY <1>1, YostarInvariant, PTL DEF Spec, OldRemoved
=============================================================================
