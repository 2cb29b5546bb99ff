-------------------------- MODULE ManagedFilesProofs --------------------------
(***************************************************************************)
(* Theorems about the two components that keep the files of a root in step *)
(* with what a manifest lists: ManifestUpdate, the normal update of an     *)
(* install, for every set of paths and manifests and every tree of the     *)
(* user's files, directories and links; and ManagedResources, the resource *)
(* roots, for every set of releases, groups, documents, resources and      *)
(* selections; both for any number of crashes. The components share no     *)
(* state and no theorem is about both.                                     *)
(*                                                                         *)
(* The inductive invariant IInv of ManifestUpdate follows the command:     *)
(* what a pass still has to remove is unmodified and lies inside the       *)
(* install root, and what it no longer lists is out of the way, in place   *)
(* or gone.                                                                *)
(*                                                                         *)
(* The inductive invariant RootInv of ManagedResources says that from the  *)
(* first file a run of Persistent writes, the pending marker holds its     *)
(* plan (Intended), what of the plan is in place (ResourcesPlaced), and    *)
(* that a file outside the pending plan with content of a manifest is one  *)
(* the record names (Attributed).                                          *)
(***************************************************************************)
EXTENDS ManifestUpdate, ManagedResources, TLAPS

-----------------------------------------------------------------------------
(* ManifestUpdate. *)

-----------------------------------------------------------------------------
(* Paths and trees. *)

\* Every ancestor of a path is a path, ancestors of ancestors are ancestors, and no path is its own.
LEMMA AncestorFacts ==
  ASSUME NEW p \in Path
  PROVE  /\ Ancestors(p) \subseteq Path
         /\ \A a \in Ancestors(p) : Ancestors(a) \subseteq Ancestors(p)
         /\ p \notin Ancestors(p)
  <1>1. p \in Seq(STRING) /\ Len(p) \in Nat
    BY TreeAssumption
  <1>2. ASSUME NEW n \in 1 .. Len(p) - 1
        PROVE  /\ SubSeq(p, 1, n) \in Path
               /\ Len(SubSeq(p, 1, n)) = n
               /\ \A m \in 1 .. n - 1 : SubSeq(SubSeq(p, 1, n), 1, m) = SubSeq(p, 1, m)
    <2>1. SubSeq(p, 1, n) \in Path
      BY <1>1, TreeAssumption
    <2>2. SubSeq(p, 1, n) \in Seq(STRING) /\ Len(SubSeq(p, 1, n)) = n
      BY <1>1
    <2>3. ASSUME NEW m \in 1 .. n - 1
          PROVE  SubSeq(SubSeq(p, 1, n), 1, m) = SubSeq(p, 1, m)
      BY <1>1, <2>2
    <2>4. QED
      BY <2>1, <2>2, <2>3
  <1>3. Ancestors(p) \subseteq Path
    BY <1>2 DEF Ancestors
  <1>4. ASSUME NEW a \in Ancestors(p)
        PROVE  Ancestors(a) \subseteq Ancestors(p)
    <2>1. PICK n \in 1 .. Len(p) - 1 : a = SubSeq(p, 1, n)
      BY DEF Ancestors
    <2>2. Len(a) = n /\ \A m \in 1 .. n - 1 : SubSeq(a, 1, m) = SubSeq(p, 1, m)
      BY <1>2, <2>1
    <2>3. \A m \in 1 .. n - 1 : m \in 1 .. Len(p) - 1
      BY <1>1
    <2>4. QED
      BY <2>2, <2>3 DEF Ancestors
  <1>5. p \notin Ancestors(p)
    BY <1>1, <1>2 DEF Ancestors
  <1>6. QED
    BY <1>3, <1>4, <1>5

\* A content is neither a directory nor nothing.
LEMMA ContentIsFile ==
  ASSUME NEW c \in Content
  PROVE  c \in Node /\ c \notin {"none", "dir", "link"}
  BY TreeAssumption DEF Node

\* A file written where it can be hangs below directories, and so does everything else.
LEMMA WriteKeepsTree ==
  ASSUME NEW t \in [Path -> Node], IsTree(t),
         NEW p \in Path, NEW c \in Content, CanWrite(t, p)
  PROVE  /\ WriteFile(t, p, c) \in [Path -> Node]
         /\ IsTree(WriteFile(t, p, c))
  <1> DEFINE u == WriteFile(t, p, c)
  <1>1. u \in [Path -> Node]
    BY ContentIsFile DEF WriteFile, Node
  <1>2. ASSUME NEW q \in Path, u[q] # "none", NEW a \in Ancestors(q)
        PROVE  u[a] \in Directory
    <2>1. a \in Path /\ Ancestors(a) \subseteq Ancestors(q)
      BY <1>2, AncestorFacts
    <2>2. CASE q = p \/ q \in Ancestors(p)
      <3>1. a \in Ancestors(p) /\ a # p
        BY <1>2, <2>2, AncestorFacts
      <3>2. t[a] \in Node \ Content
        BY <2>1, <3>1 DEF CanWrite, HoldsFile
      <3>3. QED
        BY <2>1, <3>1, <3>2 DEF WriteFile, Node, Directory
    <2>3. CASE q # p /\ q \notin Ancestors(p)
      <3>1. t[q] # "none"
        BY <1>2, <2>3 DEF WriteFile
      <3>2. t[a] \in Directory
        BY <1>2, <3>1 DEF IsTree
      <3>3. a # p
        BY <3>2 DEF CanWrite
      <3>4. QED
        BY <2>1, <3>2, <3>3 DEF WriteFile, Directory
    <2>4. QED
      BY <2>2, <2>3
  <1>3. QED
    BY <1>1, <1>2 DEF IsTree

\* What has nothing below it can be taken away.
LEMMA RemoveKeepsTree ==
  ASSUME NEW t \in [Path -> Node], IsTree(t), NEW p \in Path,
         \/ t[p] \notin Directory
         \/ \A q \in Below(p) : t[q] = "none"
  PROVE  /\ RemoveFile(t, p) \in [Path -> Node]
         /\ IsTree(RemoveFile(t, p))
  <1> DEFINE u == RemoveFile(t, p)
  <1>1. u \in [Path -> Node]
    BY DEF RemoveFile, Node
  <1>2. ASSUME NEW q \in Path, u[q] # "none", NEW a \in Ancestors(q)
        PROVE  u[a] \in Directory
    <2>1. a \in Path
      BY <1>2, AncestorFacts
    <2>2. q # p /\ t[q] # "none"
      BY <1>2 DEF RemoveFile
    <2>3. t[a] \in Directory
      BY <1>2, <2>2 DEF IsTree
    <2>4. a # p
      BY <1>2, <2>2, <2>3 DEF Below
    <2>5. QED
      BY <2>1, <2>3, <2>4 DEF RemoveFile
  <1>3. QED
    BY <1>1, <1>2 DEF IsTree

-----------------------------------------------------------------------------
(* The invariant. *)

Running == {"blocking", "ensure", "cleanup"}

\* What each step of the command still has to do.
RunShape ==
  \/ run \in [pc : {"idle", "invalid", "refused", "conflict", "done"}]
  \/ run \in [pc : {"blocking"}, files : SUBSET Blocking, dirs : SUBSET OwnedDirs,
              targets : SUBSET TargetDirs]
  \/ run \in [pc : {"ensure"}, files : SUBSET DOMAIN target]
  \/ run \in [pc : {"cleanup"}, files : SUBSET Obsolete]

\* A file that is about to go is the current manifest's, and no link leads to it.
Owned ==
  run.pc \in {"blocking", "cleanup"} =>
    \A p \in run.files : tree[p] = current[p] /\ \A a \in Ancestors(p) : tree[a] # "link"

\* What the removal of blockers has done so far.
Unblocking ==
  run.pc = "blocking" => /\ \A p \in Blocking \ run.files : tree[p] = "none"
                         /\ \A t \in TargetDirs \ run.targets : tree[t] \notin Directory

\* What the batch has done so far; cleaning up undoes none of it.
Placed ==
  /\ run.pc \in Running \cup {"done"} => ValidTarget
  /\ run.pc = "ensure" => \A p \in DOMAIN target \ run.files : Intact(p)
  /\ run.pc \in {"cleanup", "done"} => \A p \in DOMAIN target : Intact(p)

\* What the last pass has done so far.
Swept ==
  /\ run.pc = "cleanup" => \A p \in Obsolete \ run.files : tree[p] # current[p]
  /\ run.pc = "done" => \A p \in Obsolete : tree[p] # current[p]

IInv ==
  /\ TypeOK
  /\ RunShape
  /\ Owned
  /\ Unblocking
  /\ TransitionsReady
  /\ Placed
  /\ Swept

-----------------------------------------------------------------------------
\* What the manifests list are files at paths; obsolete ones are no targets.
LEMMA ManifestFacts ==
  ASSUME TypeOK
  PROVE  /\ DOMAIN current \subseteq Path /\ DOMAIN target \subseteq Path
         /\ \A p \in DOMAIN current : current[p] \in Content
         /\ \A p \in DOMAIN target : target[p] \in Content
         /\ Obsolete \subseteq DOMAIN current /\ Obsolete \cap DOMAIN target = {}
         /\ Blocking \subseteq Obsolete
         /\ TargetDirs \subseteq DOMAIN target
  BY UpdateAssumption DEF TypeOK, Obsolete, Blocking, TargetDirs

LEMMA SameManifests ==
  ASSUME UNCHANGED consts
  PROVE  /\ current' = current /\ target' = target /\ unix' = unix
         /\ Obsolete' = Obsolete /\ Blocking' = Blocking /\ TargetDirs' = TargetDirs
         /\ OwnedDirs' = OwnedDirs /\ ValidTarget' = ValidTarget
  <1>1. current' = current /\ target' = target /\ unix' = unix
    BY DEF consts
  <1>2. Obsolete' = Obsolete /\ ValidTarget' = ValidTarget
    BY <1>1 DEF Obsolete, ValidTarget
  <1>3. Blocking' = Blocking /\ TargetDirs' = TargetDirs
    BY <1>1, <1>2 DEF Blocking, TargetDirs, Blocks
  <1>4. QED
    BY <1>1, <1>2, <1>3 DEF OwnedDirs

-----------------------------------------------------------------------------
(* The inductive invariant. *)

LEMMA InitHolds == Init => IInv
  <1> SUFFICES ASSUME Init PROVE IInv
    OBVIOUS
  <1>1. TypeOK
    BY UpdateAssumption DEF Init, TypeOK, Idle
  <1>2. run.pc = "idle" /\ RunShape
    BY DEF Init, Idle, RunShape
  <1>3. QED
    BY <1>1, <1>2 DEF IInv, Owned, Unblocking, TransitionsReady, Placed, Swept, Running

\* A command that only reports or stops leaves nothing to do.
LEMMA StopHolds ==
  ASSUME IInv, UNCHANGED <<tree, consts>>, stops' \in 0 .. MaxStops,
         run' \in [pc : {"idle", "invalid", "refused", "conflict"}]
  PROVE  IInv'
  <1>1. TypeOK'
    BY DEF IInv, TypeOK, consts
  <1>2. RunShape'
    BY DEF RunShape
  <1>3. run'.pc \in {"idle", "invalid", "refused", "conflict"}
    OBVIOUS
  <1>4. QED
    BY <1>1, <1>2, <1>3 DEF IInv, Owned, Unblocking, TransitionsReady, Placed, Swept, Running

LEMMA StartHolds == IInv /\ Start => IInv'
  <1> SUFFICES ASSUME IInv, Start PROVE IInv'
    OBVIOUS
  <1>1. UNCHANGED <<tree, consts, stops>> /\ stops' \in 0 .. MaxStops
    BY DEF Start, IInv, TypeOK
  <1>2. CASE ~ValidTarget \/ (\E p \in Blocking : ~Contained(p)) \/ Refuses(Blocking)
    <2>1. run' \in [pc : {"idle", "invalid", "refused", "conflict"}]
      BY <1>2 DEF Start, Report
    <2>2. QED
      BY <1>1, <2>1, StopHolds
  <1>3. CASE /\ ValidTarget /\ \A p \in Blocking : Contained(p)
             /\ ~Refuses(Blocking)
    <2>1. run' = [pc |-> "blocking", files |-> Verified(Blocking),
                  dirs |-> OwnedDirs, targets |-> TargetDirs]
      BY <1>3 DEF Start
    <2>2. /\ current' = current /\ target' = target /\ unix' = unix
          /\ Obsolete' = Obsolete /\ Blocking' = Blocking /\ TargetDirs' = TargetDirs
          /\ OwnedDirs' = OwnedDirs /\ ValidTarget' = ValidTarget
      BY <1>1, SameManifests
    <2>3. TypeOK' /\ RunShape'
      BY <1>1, <2>1, <2>2 DEF IInv, TypeOK, RunShape, Verified
    <2>4. Owned'
      <3>1. ASSUME NEW p \in Verified(Blocking)
            PROVE  tree[p] = current[p] /\ \A a \in Ancestors(p) : tree[a] # "link"
        <4>1. p \in Blocking /\ tree[p] = current[p]
          BY DEF Verified, Matches
        <4>2. tree[p] # "none"
          BY <4>1, ManifestFacts, ContentIsFile DEF IInv
        <4>3. QED
          BY <1>3, <4>1, <4>2 DEF Contained
      <3>2. QED
        BY <1>1, <2>1, <2>2, <3>1 DEF Owned
    <2>5. Unblocking'
      <3>1. \A p \in Blocking \ Verified(Blocking) : tree[p] = "none"
        BY <1>3 DEF Refuses, Retained, Missing
      <3>2. QED
        BY <1>1, <2>1, <2>2, <3>1 DEF Unblocking
    <2>6. QED
      BY <1>3, <2>1, <2>2, <2>3, <2>4, <2>5
         DEF IInv, TransitionsReady, Placed, Swept, Running
  <1>4. QED
    BY <1>2, <1>3

\* A removal takes one obsolete file away, and what is checked about other paths stays.
LEMMA RemoveHolds ==
  ASSUME IInv, NEW p \in Path, Remove(p)
  PROVE  IInv'
  <1>1. UNCHANGED consts /\ stops' = stops /\ p \in run.files
    BY DEF Remove
  <1>2. /\ current' = current /\ target' = target /\ unix' = unix
        /\ Obsolete' = Obsolete /\ Blocking' = Blocking /\ TargetDirs' = TargetDirs
        /\ OwnedDirs' = OwnedDirs /\ ValidTarget' = ValidTarget
    BY <1>1, SameManifests
  <1>3. p \in Obsolete /\ tree[p] = current[p]
    BY <1>1, ManifestFacts DEF IInv, Remove, RunShape, Owned
  <1>4. tree[p] \in Content /\ tree[p] # "none" /\ tree[p] \notin Directory
    BY <1>3, ManifestFacts, ContentIsFile DEF IInv, Directory
  <1>5. tree' = [tree EXCEPT ![p] = "none"]
    BY DEF Remove, RemoveFile
  <1>6. TypeOK' /\ run'.pc = run.pc /\ run'.files = run.files \ {p} /\ RunShape'
    <2>1. tree' \in [Path -> Node] /\ IsTree(tree')
      BY <1>4, RemoveKeepsTree DEF IInv, TypeOK, Remove
    <2>2. run' = [run EXCEPT !.files = @ \ {p}]
      BY DEF Remove
    <2>3. run'.pc = run.pc /\ run'.files = run.files \ {p} /\ RunShape'
      BY <1>2, <2>2 DEF IInv, RunShape, Remove
    <2>4. QED
      BY <1>1, <1>2, <2>1, <2>3 DEF IInv, TypeOK
  <1>7. tree \in [Path -> Node]
    BY DEF IInv, TypeOK
  <1>8. Owned'
    <2>1. ASSUME run'.pc \in {"blocking", "cleanup"}, NEW q \in run'.files
          PROVE  tree'[q] = current[q] /\ \A a \in Ancestors(q) : tree'[a] # "link"
      <3>1. q \in Path /\ q # p /\ q \in run.files
        BY <1>6, <2>1, ManifestFacts DEF IInv, RunShape
      <3>2. tree[q] = current[q] /\ \A a \in Ancestors(q) : tree[a] # "link"
        BY <1>6, <2>1, <3>1 DEF IInv, Owned
      <3>3. QED
        BY <1>5, <1>7, <3>1, <3>2, AncestorFacts
    <2>2. QED
      BY <1>2, <2>1 DEF Owned
  <1>9. Unblocking'
    <2>1. ASSUME run.pc = "blocking"
          PROVE  /\ run'.targets = run.targets
                 /\ \A q \in Blocking \ run'.files : tree'[q] = "none"
                 /\ \A t \in TargetDirs \ run'.targets : tree'[t] \notin Directory
      <3>1. run' = [run EXCEPT !.files = @ \ {p}]
        BY DEF Remove
      <3>2. run'.targets = run.targets
        BY <2>1, <3>1 DEF IInv, RunShape
      <3>3. /\ \A q \in Blocking \ run.files : tree[q] = "none"
            /\ \A t \in TargetDirs \ run.targets : tree[t] \notin Directory
            /\ Blocking \subseteq Path /\ TargetDirs \subseteq Path
        BY <2>1, ManifestFacts DEF IInv, Unblocking
      <3>4. QED
        BY <1>5, <1>6, <1>7, <3>2, <3>3 DEF Directory
    <2>2. QED
      BY <1>2, <1>6, <2>1 DEF Unblocking
  <1>10. Placed'
    <2>1. ASSUME run.pc = "cleanup", NEW q \in DOMAIN target
          PROVE  Intact(q)'
      <3>1. q \in Path /\ q # p /\ Intact(q)
        BY <1>3, <2>1, ManifestFacts DEF IInv, Placed
      <3>2. tree'[q] = tree[q]
        BY <1>5, <1>7, <3>1
      <3>3. QED
        BY <1>2, <3>1, <3>2 DEF Intact, MetadataOnly, Matches, SameSize, HoldsFile
    <2>2. run.pc \in {"blocking", "cleanup"} /\ ValidTarget
      BY DEF IInv, Placed, Remove, Running
    <2>3. QED
      BY <1>2, <1>6, <2>1, <2>2 DEF Placed
  <1>11. Swept'
    <2>1. ASSUME run.pc = "cleanup", NEW q \in Obsolete \ run'.files
          PROVE  tree'[q] # current[q]
      <3>1. q \in Path /\ current[q] \in Content
        BY ManifestFacts DEF IInv
      <3>2. CASE q = p
        BY <1>5, <1>7, <3>1, <3>2, ContentIsFile
      <3>3. CASE q # p
        BY <1>5, <1>6, <1>7, <2>1, <3>1, <3>3 DEF IInv, Swept
      <3>4. QED
        BY <3>2, <3>3
    <2>2. run.pc \in {"blocking", "cleanup"}
      BY DEF Remove
    <2>3. QED
      BY <1>2, <1>6, <2>1, <2>2 DEF Swept
  <1>12. QED
    <2>1. run'.pc # "ensure"
      BY <1>6 DEF Remove
    <2>2. QED
      BY <1>6, <1>8, <1>9, <1>10, <1>11, <2>1 DEF IInv, TransitionsReady

\* The removal of a directory empties one path, or ends the command.
LEMMA RemoveDirHolds ==
  ASSUME IInv, NEW d \in Path, RemoveDir(d)
  PROVE  IInv'
  <1>1. UNCHANGED consts /\ stops' = stops /\ stops \in 0 .. MaxStops
    BY DEF RemoveDir, IInv, TypeOK
  <1>2. /\ current' = current /\ target' = target /\ unix' = unix
        /\ Obsolete' = Obsolete /\ Blocking' = Blocking /\ TargetDirs' = TargetDirs
        /\ OwnedDirs' = OwnedDirs /\ ValidTarget' = ValidTarget
    BY <1>1, SameManifests
  <1>3. CASE ~(CanRemoveDir(tree, d) /\ (unix => ~BelowFile(d)))
    <2>1. tree' = tree /\ run' \in [pc : {"idle", "invalid", "refused", "conflict"}]
      BY <1>3 DEF RemoveDir, Report
    <2>2. QED
      BY <1>1, <2>1, StopHolds
  <1>4. CASE CanRemoveDir(tree, d) /\ (unix => ~BelowFile(d))
    <2> DEFINE left == IF run.dirs # {} THEN [run EXCEPT !.dirs = @ \ {d}]
                                        ELSE [run EXCEPT !.targets = @ \ {d}]
    <2>1. /\ tree \in [Path -> Node] /\ IsTree(tree)
          /\ tree' = RemoveEmptyDir(tree, d) /\ run' = left
          /\ run.pc = "blocking" /\ run.files = {}
      BY <1>4 DEF RemoveDir, IInv, TypeOK
    <2>2. /\ tree' \in [Path -> Node] /\ IsTree(tree')
          /\ \A q \in Path : tree'[q] = tree[q] \/ tree'[q] = "none"
          /\ tree'[d] \notin Directory
      <3>1. CASE tree[d] = "dir"
        <4>1. tree' = RemoveFile(tree, d) /\ \A q \in Below(d) : tree[q] = "none"
          BY <1>4, <2>1, <3>1 DEF CanRemoveDir, RemoveEmptyDir, RemoveFile
        <4>2. tree' \in [Path -> Node] /\ IsTree(tree')
          BY <2>1, <4>1, RemoveKeepsTree
        <4>3. QED
          BY <2>1, <4>1, <4>2 DEF RemoveFile, Directory
      <3>2. CASE tree[d] # "dir"
        BY <1>4, <2>1, <3>2 DEF CanRemoveDir, RemoveEmptyDir, Directory
      <3>3. QED
        BY <3>1, <3>2
    <2>3. /\ run' \in [pc : {"blocking"}, files : SUBSET Blocking, dirs : SUBSET OwnedDirs,
                       targets : SUBSET TargetDirs]
          /\ run'.pc = "blocking" /\ run'.files = {}
          /\ run'.targets = run.targets \/ run'.targets = run.targets \ {d}
      BY <2>1 DEF IInv, RunShape
    <2>4. TypeOK' /\ RunShape'
      BY <1>1, <1>2, <2>2, <2>3 DEF IInv, TypeOK, RunShape
    <2>5. Unblocking'
      <3>1. Blocking \subseteq Path /\ TargetDirs \subseteq Path
        BY ManifestFacts DEF IInv
      <3>2. /\ \A q \in Blocking : tree[q] = "none"
            /\ \A t \in TargetDirs \ run.targets : tree[t] \notin Directory
        BY <2>1 DEF IInv, Unblocking
      <3>3. /\ \A q \in Blocking : tree'[q] = "none"
            /\ \A t \in TargetDirs \ run'.targets : tree'[t] \notin Directory
        BY <2>2, <2>3, <3>1, <3>2 DEF Directory
      <3>4. QED
        BY <1>2, <3>3 DEF Unblocking
    <2>6. ValidTarget
      BY <2>1 DEF IInv, Placed, Running
    <2>7. QED
      BY <1>2, <2>3, <2>4, <2>5, <2>6
         DEF IInv, Owned, TransitionsReady, Placed, Swept, Running
  <1>5. QED
    BY <1>3, <1>4

\* When nothing blocks any more, no target is barred.
LEMMA UnblockedHolds ==
  ASSUME IInv, Unblocked
  PROVE  IInv'
  <1>1. UNCHANGED <<tree, consts>> /\ stops' = stops
    BY DEF Unblocked
  <1>2. /\ current' = current /\ target' = target /\ unix' = unix
        /\ Obsolete' = Obsolete /\ Blocking' = Blocking /\ TargetDirs' = TargetDirs
        /\ OwnedDirs' = OwnedDirs /\ ValidTarget' = ValidTarget
    BY <1>1, SameManifests
  <1>3. run' = [pc |-> "ensure", files |-> DOMAIN target]
    BY DEF Unblocked
  <1>4. TypeOK' /\ RunShape'
    BY <1>1, <1>2, <1>3 DEF IInv, TypeOK, RunShape
  <1>5. ValidTarget
    BY DEF IInv, Placed, Running, Unblocked
  <1>6. ASSUME NEW t \in DOMAIN target, NEW p \in Obsolete
        PROVE  /\ p \in Ancestors(t) => ~HoldsFile(tree, p)
               /\ t \in Ancestors(p) => tree[t] \notin Directory
    <2>1. /\ \A q \in Blocking : tree[q] = "none"
          /\ \A q \in TargetDirs : tree[q] \notin Directory
      BY DEF IInv, Unblocking, Unblocked
    <2>2. t \in Path /\ p \in Path
      BY ManifestFacts DEF IInv
    <2>3. ASSUME p \in Ancestors(t) PROVE ~HoldsFile(tree, p)
      <3>1. t \in Below(p) /\ p \in Blocking
        BY <2>2, <2>3 DEF Below, Blocking, Blocks
      <3>2. QED
        BY <2>1, <3>1, TreeAssumption DEF HoldsFile
    <2>4. ASSUME t \in Ancestors(p) PROVE tree[t] \notin Directory
      BY <2>1, <2>4 DEF TargetDirs
    <2>5. QED
      BY <2>3, <2>4
  <1>7. TransitionsReady'
    BY <1>1, <1>2, <1>6 DEF TransitionsReady, HoldsFile
  <1>8. QED
    BY <1>2, <1>3, <1>4, <1>5, <1>7 DEF IInv, Owned, Unblocking, Placed, Swept, Running

\* A target file that is written changes its own path and makes directories where nothing was.
LEMMA EnsureHolds ==
  ASSUME IInv, NEW p \in Path, EnsureFile(p)
  PROVE  IInv'
  <1>1. /\ UNCHANGED consts /\ stops' = stops
        /\ run.pc = "ensure" /\ p \in run.files /\ run' = [run EXCEPT !.files = @ \ {p}]
    BY DEF EnsureFile
  <1>2. /\ current' = current /\ target' = target /\ unix' = unix
        /\ Obsolete' = Obsolete /\ Blocking' = Blocking /\ TargetDirs' = TargetDirs
        /\ OwnedDirs' = OwnedDirs /\ ValidTarget' = ValidTarget
    BY <1>1, SameManifests
  <1>3. /\ run' \in [pc : {"ensure"}, files : SUBSET DOMAIN target]
        /\ run'.pc = "ensure" /\ run'.files = run.files \ {p} /\ p \in DOMAIN target
    BY <1>1 DEF IInv, RunShape
  <1>4. ValidTarget /\ target[p] \in Content /\ tree \in [Path -> Node] /\ IsTree(tree)
    BY <1>1, <1>3, ManifestFacts DEF IInv, TypeOK, Placed, Running
  <1>5. /\ tree' \in [Path -> Node] /\ IsTree(tree')
        /\ \A q \in Path \ {p} : tree'[q] = tree[q]
                                \/ (q \in Ancestors(p) /\ tree[q] = "none" /\ tree'[q] = "dir")
        /\ Intact(p)'
    <2>1. CASE Intact(p)
      <3>1. tree' = tree
        BY <2>1 DEF EnsureFile
      <3>2. QED
        BY <1>2, <1>4, <2>1, <3>1 DEF Intact, MetadataOnly, Matches, SameSize, HoldsFile
    <2>2. CASE ~Intact(p)
      <3>1. CanWrite(tree, p) /\ tree' = WriteFile(tree, p, target[p])
        BY <2>2 DEF EnsureFile
      <3>2. tree' \in [Path -> Node] /\ IsTree(tree')
        BY <1>4, <3>1, WriteKeepsTree
      <3>3. tree'[p] = target[p]
        BY <3>1 DEF WriteFile
      <3>4. Intact(p)'
        BY <1>2, <1>4, <3>3 DEF Intact, MetadataOnly, Matches, SameSize, HoldsFile
      <3>5. \A q \in Path \ {p} : tree'[q] = tree[q]
                              \/ (q \in Ancestors(p) /\ tree[q] = "none" /\ tree'[q] = "dir")
        BY <3>1 DEF WriteFile
      <3>6. QED
        BY <3>2, <3>4, <3>5
    <2>3. QED
      BY <2>1, <2>2
  <1>6. TypeOK' /\ RunShape'
    BY <1>1, <1>2, <1>3, <1>5 DEF IInv, TypeOK, RunShape
  <1>7. TransitionsReady'
    <2>1. ASSUME NEW t \in DOMAIN target, NEW q \in Obsolete
          PROVE  /\ q \in Ancestors(t) => ~HoldsFile(tree', q)
                 /\ t \in Ancestors(q) => tree'[t] \notin Directory
      <3>1. /\ q \in Ancestors(t) => ~HoldsFile(tree, q)
            /\ t \in Ancestors(q) => tree[t] \notin Directory
        BY <1>1 DEF IInv, TransitionsReady
      <3>2. q \in Path /\ t \in Path /\ q # p /\ t \notin Ancestors(p)
        BY <1>3, <1>4, ManifestFacts DEF IInv, ValidTarget
      <3>3. tree'[q] = tree[q] \/ tree'[q] = "dir"
        BY <1>5, <3>2
      <3>4. t # p => tree'[t] = tree[t]
        BY <1>5, <3>2
      <3>5. t = p /\ t \in Ancestors(q) => tree'[t] \notin Directory
        <4>1. t = p => tree'[t] = tree[t] \/ tree'[t] = target[p]
          BY DEF EnsureFile, WriteFile
        <4>2. QED
          BY <1>4, <3>1, <4>1, ContentIsFile DEF Directory
      <3>6. QED
        BY <3>1, <3>3, <3>4, <3>5, TreeAssumption DEF HoldsFile
    <2>2. QED
      BY <1>2, <2>1 DEF TransitionsReady, HoldsFile
  <1>8. Placed'
    <2>1. ASSUME NEW q \in DOMAIN target \ run'.files
          PROVE  Intact(q)'
      <3>1. CASE q = p
        BY <1>5, <3>1
      <3>2. CASE q # p
        <4>1. q \in Path /\ q \notin Ancestors(p)
          BY <1>3, <1>4, ManifestFacts DEF IInv, ValidTarget
        <4>2. tree'[q] = tree[q]
          BY <1>5, <3>2, <4>1
        <4>3. Intact(q)
          BY <1>1, <1>3, <2>1, <3>2 DEF IInv, Placed
        <4>4. QED
          BY <1>2, <4>2, <4>3 DEF Intact, MetadataOnly, Matches, SameSize, HoldsFile
      <3>3. QED
        BY <3>1, <3>2
    <2>2. QED
      BY <1>2, <1>3, <1>4, <2>1 DEF Placed
  <1>9. QED
    BY <1>3, <1>6, <1>7, <1>8 DEF IInv, Owned, Unblocking, Swept

\* The last pass lists what is unmodified; everything else obsolete is not the current manifest's.
LEMMA StartCleanupHolds ==
  ASSUME IInv, StartCleanup
  PROVE  IInv'
  <1>1. /\ UNCHANGED <<tree, consts>> /\ stops' = stops /\ stops \in 0 .. MaxStops
        /\ run.pc = "ensure" /\ run.files = {}
    BY DEF StartCleanup, IInv, TypeOK
  <1>2. CASE \E p \in Obsolete : ~Contained(p)
    <2>1. run' \in [pc : {"idle", "invalid", "refused", "conflict"}]
      BY <1>2 DEF StartCleanup, Report
    <2>2. QED
      BY <1>1, <2>1, StopHolds
  <1>3. CASE \A p \in Obsolete : Contained(p)
    <2>1. run' = [pc |-> "cleanup", files |-> Verified(Obsolete)]
      BY <1>3 DEF StartCleanup
    <2>2. /\ current' = current /\ target' = target /\ unix' = unix
          /\ Obsolete' = Obsolete /\ Blocking' = Blocking /\ TargetDirs' = TargetDirs
          /\ OwnedDirs' = OwnedDirs /\ ValidTarget' = ValidTarget
      BY <1>1, SameManifests
    <2>3. TypeOK' /\ RunShape'
      BY <1>1, <2>1, <2>2 DEF IInv, TypeOK, RunShape, Verified
    <2>4. ASSUME NEW p \in Verified(Obsolete)
          PROVE  tree[p] = current[p] /\ \A a \in Ancestors(p) : tree[a] # "link"
      <3>1. p \in Obsolete /\ tree[p] = current[p]
        BY DEF Verified, Matches
      <3>2. tree[p] # "none"
        BY <3>1, ManifestFacts, ContentIsFile DEF IInv
      <3>3. QED
        BY <1>3, <3>1, <3>2 DEF Contained
    <2>5. Owned'
      BY <1>1, <2>1, <2>2, <2>4 DEF Owned
    <2>6. ValidTarget /\ \A p \in DOMAIN target : Intact(p)
      BY <1>1 DEF IInv, Placed, Running
    <2>7. Placed'
      <3>1. \A p \in DOMAIN target : Intact(p)'
        BY <1>1, <2>2, <2>6 DEF Intact, MetadataOnly, Matches, SameSize, HoldsFile
      <3>2. QED
        BY <2>1, <2>2, <2>6, <3>1 DEF Placed
    <2>8. Swept'
      <3>1. \A p \in Obsolete \ Verified(Obsolete) : tree[p] # current[p]
        BY DEF Verified, Matches
      <3>2. QED
        BY <1>1, <2>1, <2>2, <3>1 DEF Swept
    <2>9. QED
      BY <2>1, <2>3, <2>5, <2>7, <2>8 DEF IInv, Unblocking, TransitionsReady
  <1>4. QED
    BY <1>2, <1>3

LEMMA FinishHolds ==
  ASSUME IInv, Finish
  PROVE  IInv'
  <1>1. /\ UNCHANGED <<tree, consts>> /\ stops' = stops
        /\ run.pc = "cleanup" /\ run.files = {} /\ run' = [pc |-> "done"]
    BY DEF Finish, Report
  <1>2. /\ current' = current /\ target' = target /\ unix' = unix
        /\ Obsolete' = Obsolete /\ Blocking' = Blocking /\ TargetDirs' = TargetDirs
        /\ OwnedDirs' = OwnedDirs /\ ValidTarget' = ValidTarget
    BY <1>1, SameManifests
  <1>3. TypeOK' /\ RunShape'
    BY <1>1, <1>2 DEF IInv, TypeOK, RunShape
  <1>4. Placed'
    <2>1. ValidTarget /\ \A p \in DOMAIN target : Intact(p)
      BY <1>1 DEF IInv, Placed, Running
    <2>2. \A p \in DOMAIN target : Intact(p)'
      BY <1>1, <1>2, <2>1 DEF Intact, MetadataOnly, Matches, SameSize, HoldsFile
    <2>3. QED
      BY <1>1, <1>2, <2>1, <2>2 DEF Placed
  <1>5. Swept'
    BY <1>1, <1>2 DEF IInv, Swept
  <1>6. QED
    BY <1>1, <1>3, <1>4, <1>5 DEF IInv, Owned, Unblocking, TransitionsReady

LEMMA NextHolds == IInv /\ [Next]_vars => IInv'
  <1> SUFFICES ASSUME IInv, [Next]_vars PROVE IInv'
    OBVIOUS
  <1>1. CASE Start
    BY <1>1, StartHolds
  <1>2. CASE Unblocked
    BY <1>2, UnblockedHolds
  <1>3. CASE BatchFails
    <2>1. UNCHANGED <<tree, consts>> /\ stops' \in 0 .. MaxStops
      BY <1>3, UpdateAssumption DEF BatchFails, IInv, TypeOK
    <2>2. run' \in [pc : {"idle", "invalid", "refused", "conflict"}]
      BY <1>3 DEF BatchFails, Report, Idle
    <2>3. QED
      BY <2>1, <2>2, StopHolds
  <1>4. CASE StartCleanup
    BY <1>4, StartCleanupHolds
  <1>5. CASE Finish
    BY <1>5, FinishHolds
  <1>6. CASE Crash
    <2>1. UNCHANGED <<tree, consts>> /\ stops' \in 0 .. MaxStops
      BY <1>6, UpdateAssumption DEF Crash, IInv, TypeOK
    <2>2. run' \in [pc : {"idle", "invalid", "refused", "conflict"}]
      BY <1>6 DEF Crash, Idle
    <2>3. QED
      BY <2>1, <2>2, StopHolds
  <1>7. CASE \E p \in Path : Remove(p) \/ RemoveDir(p) \/ EnsureFile(p)
    BY <1>7, RemoveHolds, RemoveDirHolds, EnsureHolds
  <1>8. CASE Ended \/ UNCHANGED vars
    <2>1. /\ tree' = tree /\ current' = current /\ target' = target
          /\ run' = run /\ stops' = stops /\ unix' = unix
      BY <1>8 DEF Ended, vars, consts
    <2>2. /\ Obsolete' = Obsolete /\ Blocking' = Blocking /\ TargetDirs' = TargetDirs
          /\ OwnedDirs' = OwnedDirs /\ ValidTarget' = ValidTarget
      BY <2>1, SameManifests DEF consts
    <2>3. TypeOK' /\ RunShape'
      BY <2>1, <2>2 DEF IInv, TypeOK, RunShape
    <2>4. Owned' /\ Unblocking' /\ TransitionsReady' /\ Swept'
      BY <2>1, <2>2 DEF IInv, Owned, Unblocking, TransitionsReady, Swept, HoldsFile
    <2>5. Placed'
      <3>1. ASSUME NEW p \in DOMAIN target, Intact(p) PROVE Intact(p)'
        BY <2>1, <3>1 DEF Intact, MetadataOnly, Matches, SameSize, HoldsFile
      <3>2. QED
        BY <2>1, <2>2, <3>1 DEF IInv, Placed
    <2>6. QED
      BY <2>3, <2>4, <2>5 DEF IInv
  <1>9. QED
    BY <1>1, <1>2, <1>3, <1>4, <1>5, <1>6, <1>7, <1>8 DEF Next

-----------------------------------------------------------------------------
(* Theorems. *)

\* Through every removal, write and interruption the command is in one of its steps with the work
\* that is left, and what it did so far is on disk.
THEOREM UpdateInvariant == Spec => []IInv
  BY InitHolds, NextHolds, PTL DEF Spec

\* The install root stays a tree: no file is written below a file, and no directory is taken from
\* what is below it (write and remove_empty_dir).
THEOREM UpdateTypes == Spec => []TypeOK
  <1>1. IInv => TypeOK
    BY DEF IInv
  <1>2. QED
    BY <1>1, UpdateInvariant, PTL

\* When target files are ensured, nothing of the old release bars one of them
\* (remove_blocking_obsolete_game_files), whatever the manifests turn into what.
THEOREM TransitionsPrepared == Spec => []TransitionsReady
  <1>1. IInv => TransitionsReady
    BY DEF IInv
  <1>2. QED
    BY <1>1, UpdateInvariant, PTL

\* A finished update has every target file and no unmodified obsolete one.
THEOREM UpdateComplete == Spec => []Complete
  <1>1. IInv => Complete
    BY DEF IInv, Placed, Swept, Complete, Intact
  <1>2. QED
    BY <1>1, UpdateInvariant, PTL

\* No step of an update takes a file the launcher does not own, or one behind a link
\* (ensure_cleanup_path_is_contained is checked for all files before the first is removed).
THEOREM DeletesOwnedOnly == Spec => OwnedOnly
  <1> DEFINE Safe == \A p \in Path : tree[p] # "none" /\ tree'[p] # tree[p] =>
                       \/ p \in DOMAIN target /\ tree'[p] = target[p]
                       \/ tree[p] = "dir"
                       \/ /\ p \in Obsolete /\ tree[p] = current[p] /\ tree'[p] = "none"
                          /\ \A a \in Ancestors(p) : tree[a] # "link"
  <1>1. IInv /\ [Next]_vars => Safe
    <2> SUFFICES ASSUME IInv, [Next]_vars, NEW q \in Path, tree[q] # "none", tree'[q] # tree[q]
                 PROVE  \/ q \in DOMAIN target /\ tree'[q] = target[q]
                        \/ tree[q] = "dir"
                        \/ /\ q \in Obsolete /\ tree[q] = current[q] /\ tree'[q] = "none"
                           /\ \A a \in Ancestors(q) : tree[a] # "link"
      OBVIOUS
    <2>1. PICK p \in Path : Remove(p) \/ RemoveDir(p) \/ EnsureFile(p)
      BY DEF Next, Start, Unblocked, BatchFails, StartCleanup, Finish, Crash, Ended, vars
    <2>2. tree \in [Path -> Node]
      BY DEF IInv, TypeOK
    <2>3. CASE Remove(p)
      <3>1. tree' = [tree EXCEPT ![p] = "none"] /\ q = p
        BY <2>2, <2>3 DEF Remove, RemoveFile
      <3>2. /\ p \in Obsolete /\ tree[p] = current[p]
            /\ \A a \in Ancestors(p) : tree[a] # "link"
        BY <2>3, ManifestFacts DEF IInv, RunShape, Owned, Remove
      <3>3. QED
        BY <2>2, <3>1, <3>2
    <2>4. CASE RemoveDir(p)
      BY <2>2, <2>4 DEF RemoveDir, RemoveEmptyDir
    <2>5. CASE EnsureFile(p)
      <3>1. p \in DOMAIN target
        BY <2>5 DEF IInv, RunShape, EnsureFile
      <3>2. tree' = WriteFile(tree, p, target[p])
        BY <2>5 DEF EnsureFile
      <3>3. QED
        BY <3>1, <3>2 DEF WriteFile
    <2>6. QED
      BY <2>1, <2>3, <2>4, <2>5
  <1>2. QED
    BY <1>1, UpdateInvariant, PTL DEF Spec, OwnedOnly

-----------------------------------------------------------------------------
(* ManagedResources: the invariant. *)

Plans == [rel : 1 .. Releases,
          docs : UNION {[gs -> 1 .. Releases] : gs \in SUBSET Group},
          files : UNION {[ps -> Contents] : ps \in SUBSET Resource}]

Steps == {"intent", "tasks", "commit", "prune", "clear"}
Runs == [pc : Steps, plan : Plans, prune : BOOLEAN, todo : SUBSET (Resource \cup Group),
         commits : SUBSET Group]

\* The command: what is left of the current step is a part of its plan or of the record.
CommandShape ==
  \/ command = NoCommand
  \/ /\ command \in Runs
     /\ command.commits \subseteq DOMAIN command.plan.docs
     /\ command.pc = "intent" => command.todo \subseteq DOMAIN command.plan.files
     /\ command.pc = "tasks" => command.todo \subseteq DOMAIN command.plan.files
     /\ command.pc = "commit" => command.todo \subseteq command.commits
     /\ command.pc = "prune" => command.todo \subseteq Managed(record) \ DOMAIN command.plan.files

Persistent == kind = "persistent"

\* A run that may have written is on record before it writes; at the end its plan is the record.
Intended ==
  Persistent => /\ command.pc \in Steps \ {"intent"} => pending = command.plan
                /\ command.pc = "clear" => record = command.plan

Holds(p) == disk[p] = command.plan.files[p] \/ p \in changed

\* The batch brings each file of the plan to its content, and nothing later takes it away.
ResourcesPlaced ==
  Persistent =>
    /\ command.pc = "intent" => command.todo = DOMAIN command.plan.files
    /\ command.pc = "tasks" => \A p \in DOMAIN command.plan.files \ command.todo : Holds(p)
    /\ command.pc \in {"commit", "prune", "clear"} => \A p \in DOMAIN command.plan.files : Holds(p)

\* Content of a manifest is on disk only where the pending plan or the record has put it.
Attributed ==
  Persistent /\ ~forgot =>
    /\ \A p \in changed : disk[p] \notin Contents
    /\ \A p \in Resource \ Managed(pending) :
         disk[p] \in Contents => p \in Managed(record) /\ disk[p] = record.files[p]

\* A pruning run leaves none of the old record's files outside its plan.
Pruned ==
  Persistent /\ ~forgot /\ command.pc = "prune" /\ command.prune =>
    \A p \in Managed(record) \ (DOMAIN command.plan.files \cup command.todo) : disk[p] \notin Contents

RootInv ==
  /\ RootTypeOK
  /\ CommandShape
  /\ RecordTrue
  /\ Intended
  /\ ResourcesPlaced
  /\ Attributed
  /\ Pruned

-----------------------------------------------------------------------------
LEMMA States == State = {None} \cup Plans /\ None \notin Plans
  BY ManagedAssumption DEF State, Plans, None

LEMMA ManagedFacts ==
  ASSUME NEW s \in State
  PROVE  /\ Managed(s) \subseteq Resource
         /\ s \in Plans => Managed(s) = DOMAIN s.files /\ s # None
         /\ \A p \in Managed(s) : s.files[p] \in Contents
  <1>1. s = None \/ s \in Plans
    BY States
  <1>2. CASE s = None
    BY <1>2, States DEF Managed
  <1>3. CASE s \in Plans
    <2>1. s # None
      BY <1>3, States
    <2>2. PICK ps \in SUBSET Resource : s.files \in [ps -> Contents]
      BY <1>3 DEF Plans
    <2>3. QED
      BY <2>1, <2>2 DEF Managed
  <1>4. QED
    BY <1>1, <1>2, <1>3

LEMMA DocContents ==
  ASSUME NEW r \in 1 .. Releases, NEW g \in Group, NEW p \in DOMAIN Doc[r][g]
  PROVE  Doc[r][g][p] \in Contents
  <1> DEFINE all == {Range(Doc[s][h]) : s \in 1 .. Releases, h \in Group}
  <1>1. Range(Doc[r][g]) \in all
    OBVIOUS
  <1>2. Doc[r][g][p] \in Range(Doc[r][g])
    BY DEF Range
  <1>3. Contents = UNION all
    BY DEF Contents
  <1> HIDE DEF all
  <1>4. QED
    BY <1>1, <1>2, <1>3

\* What a run plans is a state Griffr can record.
LEMMA PlanType ==
  ASSUME RootTypeOK, NEW groups \in SUBSET Group
  PROVE  /\ Plan(groups) \in Plans
         /\ DOMAIN Plan(groups).docs = groups
  <1> DEFINE claims == [g \in groups |-> Doc[DocRelease(g)][g]]
             ps == UNION {DOMAIN claims[g] : g \in groups}
             owner(p) == CHOOSE g \in groups : p \in DOMAIN claims[g]
             fs == [p \in ps |-> LET g == CHOOSE g \in groups : p \in DOMAIN claims[g]
                                 IN  claims[g][p]]
             ds == [g \in groups |-> DocRelease(g)]
  <1>1. \A g \in groups : DocRelease(g) \in 1 .. Releases
    BY DEF DocRelease, UsesLocal, NoDoc, RootTypeOK
  <1>2. ps \subseteq Resource
    BY <1>1, ManagedAssumption
  <1>3. ASSUME NEW p \in ps PROVE fs[p] \in Contents
    <2>1. owner(p) \in groups /\ p \in DOMAIN claims[owner(p)]
      BY <1>3
    <2>2. PICK g \in groups : g = owner(p) /\ p \in DOMAIN Doc[DocRelease(g)][g]
      BY <2>1
    <2>3. PICK r \in 1 .. Releases : r = DocRelease(g)
      BY <1>1, <2>2
    <2>4. fs[p] = Doc[r][g][p]
      BY <2>2, <2>3
    <2>5. QED
      BY <2>2, <2>3, <2>4, DocContents
  <1>4. fs \in [ps -> Contents] /\ ds \in [groups -> 1 .. Releases]
    BY <1>1, <1>3
  <1>5. Plan(groups) = [rel |-> server, docs |-> ds, files |-> fs]
    BY DEF Plan
  <1>6. server \in 1 .. Releases
    BY DEF RootTypeOK
  <1> HIDE DEF fs, ds, ps, claims
  <1>7. fs \in UNION {[qs -> Contents] : qs \in SUBSET Resource}
    BY <1>2, <1>4
  <1>8. ds \in UNION {[gs -> 1 .. Releases] : gs \in SUBSET Group}
    BY <1>4
  <1>9. DOMAIN ds = groups
    BY <1>4
  <1>10. QED
    BY <1>5, <1>6, <1>7, <1>8, <1>9 DEF Plans

\* What the plan of a running command names.
LEMMA RunFacts ==
  ASSUME CommandShape, command # NoCommand
  PROVE  /\ command \in Runs /\ command.plan \in Plans /\ command.plan \in State /\ command.plan # None
         /\ Managed(command.plan) = DOMAIN command.plan.files
         /\ DOMAIN command.plan.files \subseteq Resource
         /\ \A p \in DOMAIN command.plan.files : command.plan.files[p] \in Contents
         /\ DOMAIN command.plan.docs \subseteq Group
         /\ \A g \in DOMAIN command.plan.docs : command.plan.docs[g] \in 1 .. Releases
  <1>1. command \in Runs
    BY DEF CommandShape
  <1>2. command.plan \in Plans /\ command.plan \in State
    BY <1>1, States DEF Runs
  <1>3. PICK gs \in SUBSET Group : command.plan.docs \in [gs -> 1 .. Releases]
    BY <1>2 DEF Plans
  <1>4. QED
    BY <1>1, <1>2, <1>3, ManagedFacts

\* A command is at one of its steps.
LEMMA Busy ==
  ASSUME CommandShape, NEW pc \in Steps, At(pc)
  PROVE  command # NoCommand
  BY DEF At, NoCommand, Steps

-----------------------------------------------------------------------------
(* Each action preserves the invariant. *)

LEMMA RootInitHolds == RootInit => RootInv
  <1> SUFFICES ASSUME RootInit PROVE RootInv
    OBVIOUS
  <1>1. RootTypeOK
    BY ManagedAssumption, States DEF RootInit, RootTypeOK, NoDoc
  <1>2. \A p \in Resource : disk[p] \notin Contents
    BY ContentsAssumption DEF RootInit
  <1>3. command.pc = "idle"
    BY DEF RootInit, NoCommand
  <1>4. QED
    BY <1>1, <1>2, <1>3 DEF RootInit, RootInv, CommandShape, RecordTrue, Intended, ResourcesPlaced,
                            Attributed, Pruned,
       Steps, Managed

\* A command that ends between two steps leaves only what the files say.
LEMMA CommandStopHolds ==
  ASSUME RootInv, command' = NoCommand, UNCHANGED <<kind, server, files, ghosts>>
  PROVE  RootInv'
  <1>1. command'.pc \notin Steps
    BY DEF NoCommand, Steps
  <1>2. RootTypeOK' /\ RecordTrue' /\ Attributed'
    BY DEF RootInv, RootTypeOK, State, RecordTrue, Attributed, Persistent, Managed, files,
       ghosts
  <1>3. CommandShape'
    BY DEF CommandShape, NoCommand
  <1>4. Intended' /\ ResourcesPlaced' /\ Pruned'
    BY <1>1 DEF Intended, ResourcesPlaced, Pruned, Steps
  <1>5. QED
    BY <1>2, <1>3, <1>4 DEF RootInv

LEMMA StartCommandHolds ==
  ASSUME RootInv, NEW sel \in Selections, NEW prune \in BOOLEAN, StartCommand(sel, prune)
  PROVE  RootInv'
  <1> DEFINE groups == Selected(sel)
             plan == Plan(groups)
  <1>1. groups \in SUBSET Group
    BY ManagedAssumption DEF Selected
  <1>2. /\ plan \in Plans /\ DOMAIN plan.docs = groups
        /\ plan \in State /\ Managed(plan) = DOMAIN plan.files
    BY <1>1, PlanType, ManagedFacts, States DEF RootInv
  <1>3. DOMAIN plan.files \subseteq Resource
    BY <1>2, ManagedFacts
  <1>4. command' = [pc |-> IF kind = "persistent" THEN "intent" ELSE "tasks", plan |-> plan,
                prune |-> prune \/ kind = "assets", todo |-> DOMAIN plan.files,
                commits |-> {g \in groups : ~UsesLocal(g)}]
    BY DEF StartCommand
  <1> HIDE DEF plan, groups
  <1>5. (prune \/ kind = "assets") \in BOOLEAN
    OBVIOUS
  <1>6. command' \in Runs
    BY <1>1, <1>2, <1>3, <1>4, <1>5 DEF Runs, Steps
  <1>7. CommandShape'
    BY <1>2, <1>4, <1>6 DEF CommandShape
  <1>8. RootTypeOK' /\ RecordTrue' /\ Attributed'
    BY DEF StartCommand, RootInv, RootTypeOK, State, RecordTrue, Attributed, Persistent, Managed,
           files,
       ghosts
  <1>9. Persistent' => command'.pc = "intent"
    BY <1>4 DEF StartCommand, Persistent
  <1>10. Intended' /\ ResourcesPlaced' /\ Pruned'
    BY <1>4, <1>9 DEF Intended, ResourcesPlaced, Pruned, Steps
  <1>11. QED
    BY <1>7, <1>8, <1>10 DEF RootInv

LEMMA IntentHolds ==
  ASSUME RootInv, Intent
  PROVE  RootInv'
  <1>1. CASE pending \notin {None, command.plan}
    BY <1>1, CommandStopHolds DEF Intent, files, ghosts
  <1>2. CASE pending \in {None, command.plan}
    <2>1. command # NoCommand /\ command.pc = "intent"
      BY Busy DEF Intent, RootInv, At, Steps
    <2>2. /\ command' = [command EXCEPT !.pc = IF kind = "persistent" THEN "tasks" ELSE "commit",
                                !.todo = IF kind = "persistent" THEN command.todo ELSE command.commits]
          /\ pending' = command.plan
          /\ UNCHANGED <<kind, server, disk, manifest, record, changed, forgot>>
      BY <1>2 DEF Intent, Goto, ghosts
    <2>3. /\ command \in Runs /\ command.plan \in State /\ command.plan # None
          /\ command.commits \subseteq DOMAIN command.plan.docs
          /\ command.todo \subseteq DOMAIN command.plan.files
      BY <2>1, RunFacts DEF RootInv, CommandShape
    <2>4. /\ command' \in Runs /\ command'.plan = command.plan /\ command'.commits = command.commits
          /\ command'.pc = IF kind = "persistent" THEN "tasks" ELSE "commit"
          /\ command'.todo = IF kind = "persistent" THEN command.todo ELSE command.commits
      BY <2>2, <2>3 DEF Runs, Steps
    <2>5. CommandShape'
      BY <2>3, <2>4 DEF CommandShape
    <2>6. RootTypeOK'
      BY <2>2, <2>3 DEF RootInv, RootTypeOK, State
    <2>7. RecordTrue'
      BY <2>2, <2>3 DEF RecordTrue
    <2>8. Intended' /\ Pruned'
      BY <2>2, <2>4 DEF Intended, Pruned, Persistent
    <2>9. ResourcesPlaced'
      <3>1. Persistent' => command'.pc = "tasks" /\ command'.todo = command.todo
        BY <2>2, <2>4 DEF Persistent
      <3>2. Persistent' => command.todo = DOMAIN command'.plan.files
        BY <2>1, <2>2, <2>4 DEF RootInv, ResourcesPlaced, Persistent
      <3>3. QED
        BY <3>1, <3>2 DEF ResourcesPlaced
    <2>10. Attributed'
      <3>1. Managed(pending) = {} \/ Managed(pending) = Managed(pending')
        BY <1>2, <2>2 DEF Managed
      <3>2. QED
        BY <2>2, <3>1 DEF RootInv, Attributed, Persistent
    <2>11. QED
      BY <2>5, <2>6, <2>7, <2>8, <2>9, <2>10 DEF RootInv
  <1>3. QED
    BY <1>1, <1>2

\* What a step leaves of the command.
LEMMA Moves ==
  ASSUME CommandShape, command # NoCommand,
         NEW pc \in Steps, NEW todo \in SUBSET (Resource \cup Group), Goto(pc, todo)
  PROVE  /\ command' \in Runs /\ command'.pc = pc /\ command'.todo = todo
         /\ command'.plan = command.plan /\ command'.prune = command.prune
         /\ command'.commits = command.commits
  BY RunFacts DEF Goto, Runs

LEMMA EnsureFileHolds ==
  ASSUME RootInv, NEW p \in Resource, EnsureResource(p)
  PROVE  RootInv'
  <1>1. command # NoCommand /\ command.pc = "tasks" /\ p \in command.todo
    BY Busy DEF EnsureResource, RootInv, At, Steps
  <1>2. /\ command \in Runs /\ command.plan # None
        /\ command.commits \subseteq DOMAIN command.plan.docs
        /\ command.todo \subseteq DOMAIN command.plan.files
        /\ Managed(command.plan) = DOMAIN command.plan.files
        /\ command.plan.files[p] \in Contents
    BY <1>1, RunFacts DEF RootInv, CommandShape
  <1>3. /\ command' \in Runs /\ command'.pc = "tasks" /\ command'.plan = command.plan
        /\ command'.commits = command.commits /\ command'.todo = command.todo \ {p}
    BY <1>1, <1>2 DEF EnsureResource, Runs
  <1>4. /\ disk' = [disk EXCEPT ![p] = command.plan.files[p]]
        /\ changed' = changed \ {p}
        /\ UNCHANGED <<kind, server, manifest, record, pending, forgot>>
    BY DEF EnsureResource
  <1>5. disk \in [Resource -> Contents \cup {"absent", "user"}]
    BY DEF RootInv, RootTypeOK
  <1>6. RootTypeOK'
    BY <1>2, <1>4 DEF RootInv, RootTypeOK, State
  <1>7. CommandShape'
    BY <1>2, <1>3 DEF CommandShape
  <1>8. Persistent => pending = command.plan
    BY <1>1 DEF RootInv, Intended, Steps
  <1>9. RecordTrue'
    BY <1>2, <1>4, <1>8 DEF RecordTrue, Persistent
  <1>10. Intended' /\ Pruned'
    BY <1>3, <1>4, <1>8 DEF Intended, Pruned, Persistent
  <1>11. ResourcesPlaced'
    <2>1. ASSUME Persistent, NEW q \in DOMAIN command.plan.files \ (command.todo \ {p})
          PROVE  disk'[q] = command.plan.files[q] \/ q \in changed'
      <3>1. CASE q = p
        BY <1>4, <1>5, <3>1
      <3>2. CASE q # p
        <4>1. disk[q] = command.plan.files[q] \/ q \in changed
          BY <1>1, <2>1, <3>2 DEF RootInv, ResourcesPlaced, Holds
        <4>2. q \in Resource
          BY <1>1, <2>1, RunFacts DEF RootInv
        <4>3. QED
          BY <1>4, <1>5, <3>2, <4>1, <4>2
      <3>3. QED
        BY <3>1, <3>2
    <2>2. QED
      BY <1>3, <1>4, <2>1 DEF ResourcesPlaced, Holds, Persistent
  <1>12. Attributed'
    <2>1. Persistent => p \in Managed(pending)
      BY <1>1, <1>2, <1>8
    <2>2. QED
      BY <1>4, <1>5, <2>1 DEF RootInv, RootTypeOK, Attributed, Persistent, Managed
  <1>13. QED
    BY <1>6, <1>7, <1>9, <1>10, <1>11, <1>12 DEF RootInv

LEMMA BatchDoneHolds ==
  ASSUME RootInv, BatchDone
  PROVE  RootInv'
  <1>1. command # NoCommand /\ command.pc = "tasks" /\ command.todo = {}
    BY Busy DEF BatchDone, RootInv, At, Steps
  <1>2. /\ command \in Runs /\ command.commits \subseteq DOMAIN command.plan.docs
        /\ command.commits \subseteq Group
    BY <1>1, RunFacts DEF RootInv, CommandShape
  <1> DEFINE pc == IF kind = "persistent" THEN "commit" ELSE "intent"
             todo == IF kind = "persistent" THEN command.commits ELSE {}
  <1>3. pc \in Steps /\ todo \in SUBSET (Resource \cup Group) /\ Goto(pc, todo)
    BY <1>2 DEF BatchDone, Steps
  <1>4. /\ command' \in Runs /\ command'.pc = pc /\ command'.todo = todo
        /\ command'.plan = command.plan /\ command'.prune = command.prune
        /\ command'.commits = command.commits
    <2> HIDE DEF pc, todo
    <2>1. QED
      BY <1>1, <1>3, Moves DEF RootInv
  <1>5. UNCHANGED <<kind, server, files, ghosts>>
    BY DEF BatchDone
  <1>6. RootTypeOK' /\ RecordTrue' /\ Attributed'
    BY <1>5 DEF RootInv, RootTypeOK, State, RecordTrue, Attributed, Persistent, Managed, files, ghosts
  <1>7. CommandShape'
    BY <1>2, <1>4 DEF CommandShape
  <1>8. Persistent' => Persistent /\ command'.pc = "commit"
    BY <1>4, <1>5 DEF Persistent
  <1>9. Intended'
    BY <1>1, <1>4, <1>5, <1>8 DEF RootInv, Intended, Steps, files
  <1>10. ResourcesPlaced' /\ Pruned'
    BY <1>1, <1>4, <1>5, <1>8 DEF RootInv, ResourcesPlaced, Pruned, Holds, files, ghosts
  <1>11. QED
    BY <1>6, <1>7, <1>9, <1>10 DEF RootInv

LEMMA CommitManifestHolds ==
  ASSUME RootInv, NEW g \in Group, CommitManifest(g)
  PROVE  RootInv'
  <1>1. command # NoCommand /\ command.pc = "commit" /\ g \in command.todo
    BY Busy DEF CommitManifest, RootInv, At, Steps
  <1>2. /\ command \in Runs /\ command.commits \subseteq DOMAIN command.plan.docs
        /\ command.todo \subseteq command.commits /\ command.plan.docs[g] \in 1 .. Releases
    BY <1>1, RunFacts DEF RootInv, CommandShape
  <1>3. /\ command' \in Runs /\ command'.pc = "commit" /\ command'.plan = command.plan
        /\ command'.commits = command.commits /\ command'.todo = command.todo \ {g}
    BY <1>1, <1>2 DEF CommitManifest, Runs
  <1>4. /\ manifest' = [manifest EXCEPT ![g] = command.plan.docs[g]]
        /\ UNCHANGED <<kind, server, disk, record, pending, changed, forgot>>
    BY DEF CommitManifest
  <1>5. RootTypeOK'
    BY <1>2, <1>4 DEF RootInv, RootTypeOK, State
  <1>6. CommandShape'
    BY <1>2, <1>3 DEF CommandShape
  <1>7. RecordTrue' /\ Attributed'
    BY <1>4 DEF RootInv, RecordTrue, Attributed, Persistent, Managed
  <1>8. Intended' /\ ResourcesPlaced' /\ Pruned'
    BY <1>1, <1>3, <1>4 DEF RootInv, Intended, ResourcesPlaced, Pruned, Holds, Persistent, Steps
  <1>9. QED
    BY <1>5, <1>6, <1>7, <1>8 DEF RootInv

LEMMA CommitDoneHolds ==
  ASSUME RootInv, CommitDone
  PROVE  RootInv'
  <1>1. command # NoCommand /\ command.pc = "commit"
    BY Busy DEF CommitDone, RootInv, At, Steps
  <1>2. /\ command \in Runs /\ command.commits \subseteq DOMAIN command.plan.docs
        /\ Managed(record) \subseteq Resource
    BY <1>1, RunFacts, ManagedFacts DEF RootInv, CommandShape, RootTypeOK
  <1> DEFINE todo == IF command.prune THEN Managed(record) \ DOMAIN command.plan.files ELSE {}
  <1>3. todo \in SUBSET (Resource \cup Group) /\ Goto("prune", todo)
    BY <1>2 DEF CommitDone
  <1>4. /\ command' \in Runs /\ command'.pc = "prune" /\ command'.todo = todo
        /\ command'.plan = command.plan /\ command'.prune = command.prune
        /\ command'.commits = command.commits
    <2> HIDE DEF todo
    <2>1. QED
      BY <1>1, <1>3, Moves DEF RootInv, Steps
  <1>5. UNCHANGED <<kind, server, files, ghosts>>
    BY DEF CommitDone
  <1>6. RootTypeOK' /\ RecordTrue' /\ Attributed'
    BY <1>5 DEF RootInv, RootTypeOK, State, RecordTrue, Attributed, Persistent, Managed, files, ghosts
  <1>7. CommandShape'
    BY <1>2, <1>4, <1>5 DEF CommandShape, Managed, files
  <1>8. Intended' /\ ResourcesPlaced'
    BY <1>1, <1>4, <1>5 DEF RootInv, Intended, ResourcesPlaced, Holds, Persistent, Steps, files, ghosts
  <1>9. Pruned'
    BY <1>4, <1>5 DEF Pruned, Managed, files
  <1>10. QED
    BY <1>6, <1>7, <1>8, <1>9 DEF RootInv

LEMMA PruneFileHolds ==
  ASSUME RootInv, NEW p \in Resource, PruneFile(p)
  PROVE  RootInv'
  <1>1. command # NoCommand /\ command.pc = "prune" /\ p \in command.todo
    BY Busy DEF PruneFile, RootInv, At, Steps
  <1>2. /\ command \in Runs /\ command.plan # None
        /\ command.commits \subseteq DOMAIN command.plan.docs
        /\ command.todo \subseteq Managed(record) \ DOMAIN command.plan.files
        /\ Managed(command.plan) = DOMAIN command.plan.files
    BY <1>1, RunFacts DEF RootInv, CommandShape
  <1>3. /\ command' \in Runs /\ command'.pc = "prune" /\ command'.plan = command.plan
        /\ command'.prune = command.prune
        /\ command'.commits = command.commits /\ command'.todo = command.todo \ {p}
    BY <1>1, <1>2 DEF PruneFile, Runs
  <1>4. /\ disk' = [disk EXCEPT ![p] = IF disk[p] = record.files[p] THEN "absent" ELSE disk[p]]
        /\ UNCHANGED <<kind, server, manifest, record, pending, changed, forgot>>
    BY DEF PruneFile, ghosts
  <1>5. /\ disk \in [Resource -> Contents \cup {"absent", "user"}]
        /\ disk' \in [Resource -> Contents \cup {"absent", "user"}]
    BY <1>4 DEF RootInv, RootTypeOK
  <1>6. \A q \in Resource : disk'[q] \in Contents => disk'[q] = disk[q]
    BY <1>4, <1>5, ContentsAssumption
  <1>7. \A q \in Resource \ {p} : disk'[q] = disk[q]
    BY <1>4, <1>5
  <1>8. RootTypeOK'
    BY <1>4, <1>5 DEF RootInv, RootTypeOK, State
  <1>9. CommandShape'
    BY <1>2, <1>3, <1>4 DEF CommandShape, Managed
  <1>10. Persistent => pending = command.plan
    BY <1>1 DEF RootInv, Intended, Steps
  <1>11. RecordTrue'
    BY <1>2, <1>4, <1>10 DEF RecordTrue, Persistent
  <1>12. Intended'
    BY <1>3, <1>4, <1>10 DEF Intended, Persistent
  <1>13. ResourcesPlaced'
    <2>1. \A q \in DOMAIN command.plan.files : q \in Resource /\ q # p
      BY <1>1, <1>2, RunFacts DEF RootInv
    <2>2. QED
      BY <1>1, <1>3, <1>4, <1>7, <2>1 DEF RootInv, ResourcesPlaced, Holds, Persistent
  <1>14. Attributed'
    <2>1. changed \subseteq Resource
      BY DEF RootInv, RootTypeOK
    <2>2. QED
      BY <1>4, <1>6, <2>1 DEF RootInv, Attributed, Persistent, Managed
  <1>15. Pruned'
    <2>1. ASSUME Persistent, ~forgot, command.prune,
                 NEW q \in Managed(record) \ (DOMAIN command.plan.files \cup (command.todo \ {p}))
          PROVE  disk'[q] \notin Contents
      <3>1. q \in Resource
        BY <2>1, ManagedFacts DEF RootInv, RootTypeOK
      <3>2. CASE q = p
        <4>1. q \notin Managed(pending)
          BY <1>2, <1>10, <2>1
        <4>2. disk[q] \in Contents => disk[q] = record.files[q]
          BY <2>1, <3>1, <4>1 DEF RootInv, Attributed
        <4>3. disk[q] = record.files[q] => disk'[q] = "absent"
          BY <1>4, <1>5, <3>1, <3>2
        <4>4. QED
          BY <1>6, <3>1, <4>2, <4>3, ContentsAssumption
      <3>3. CASE q # p
        <4>1. disk[q] \notin Contents
          BY <1>1, <2>1, <3>3 DEF RootInv, Pruned
        <4>2. QED
          BY <1>7, <3>1, <3>3, <4>1
      <3>4. QED
        BY <3>2, <3>3
    <2>2. QED
      BY <1>3, <1>4, <2>1 DEF Pruned, Persistent, Managed
  <1>16. QED
    BY <1>8, <1>9, <1>11, <1>12, <1>13, <1>14, <1>15 DEF RootInv

LEMMA WriteStateHolds ==
  ASSUME RootInv, WriteState
  PROVE  RootInv'
  <1>1. command # NoCommand /\ command.pc = "prune" /\ command.todo = {}
    BY Busy DEF WriteState, RootInv, At, Steps
  <1>2. /\ command \in Runs /\ command.plan # None /\ command.plan \in State
        /\ command.commits \subseteq DOMAIN command.plan.docs
        /\ Managed(command.plan) = DOMAIN command.plan.files
    BY <1>1, RunFacts DEF RootInv, CommandShape
  <1>3. /\ command' \in Runs /\ command'.pc = "clear" /\ command'.plan = command.plan
        /\ command'.commits = command.commits /\ command'.todo = {}
    <2>1. Goto("clear", {})
      BY DEF WriteState
    <2>2. QED
      BY <1>1, <2>1, Moves DEF RootInv, Steps
  <1>4. /\ record' = command.plan
        /\ forgot' = (forgot \/ (~command.prune
                                 /\ ~(Managed(record) \subseteq DOMAIN command.plan.files)))
        /\ UNCHANGED <<kind, server, disk, manifest, pending, changed>>
    BY DEF WriteState
  <1>5. RootTypeOK'
    BY <1>2, <1>4 DEF RootInv, RootTypeOK, State
  <1>6. CommandShape'
    BY <1>2, <1>3 DEF CommandShape
  <1>7. Persistent => pending = command.plan
    BY <1>1 DEF RootInv, Intended, Steps
  <1>8. RecordTrue'
    BY <1>2, <1>4, <1>7 DEF RecordTrue, Persistent
  <1>9. Intended' /\ ResourcesPlaced' /\ Pruned'
    BY <1>1, <1>3, <1>4, <1>7 DEF RootInv, Intended, ResourcesPlaced, Pruned, Holds, Persistent
  <1>10. Attributed'
    <2>1. ASSUME Persistent, ~forgot', NEW p \in Resource \ Managed(pending)
          PROVE  disk[p] \notin Contents
      <3>1. p \notin DOMAIN command.plan.files /\ ~forgot
        BY <1>2, <1>4, <1>7, <2>1
      <3>2. disk[p] \in Contents => p \in Managed(record)
        BY <2>1, <3>1 DEF RootInv, Attributed
      <3>3. p \in Managed(record) => command.prune
        BY <1>4, <2>1, <3>1
      <3>4. p \in Managed(record) /\ command.prune => disk[p] \notin Contents
        BY <1>1, <2>1, <3>1 DEF RootInv, Pruned
      <3>5. QED
        BY <3>2, <3>3, <3>4
    <2>2. Persistent /\ ~forgot' => \A p \in changed : disk[p] \notin Contents
      BY <1>4 DEF RootInv, Attributed
    <2>3. QED
      BY <1>4, <2>1, <2>2 DEF Attributed, Persistent, Managed
  <1>11. QED
    BY <1>5, <1>6, <1>8, <1>9, <1>10 DEF RootInv

LEMMA RemovePendingHolds ==
  ASSUME RootInv, RemovePending
  PROVE  RootInv'
  <1>1. command # NoCommand /\ command.pc = "clear"
    BY Busy DEF RemovePending, RootInv, At, Steps
  <1>2. /\ command' = NoCommand /\ pending' = None
        /\ UNCHANGED <<kind, server, disk, manifest, record, changed, forgot>>
    BY DEF RemovePending, ghosts
  <1>3. Persistent => /\ pending = command.plan /\ record = command.plan
                      /\ \A p \in DOMAIN command.plan.files : Holds(p)
    BY <1>1 DEF RootInv, Intended, ResourcesPlaced, Steps
  <1>4. Managed(command.plan) = DOMAIN command.plan.files
    BY <1>1, RunFacts DEF RootInv
  <1>5. RootTypeOK' /\ CommandShape'
    BY <1>2, States DEF RootInv, RootTypeOK, State, CommandShape
  <1>6. RecordTrue'
    BY <1>2, <1>3, <1>4 DEF RecordTrue, Holds, Persistent, Managed
  <1>7. command'.pc \notin Steps
    BY <1>2 DEF NoCommand, Steps
  <1>8. Intended' /\ ResourcesPlaced' /\ Pruned'
    BY <1>7 DEF Intended, ResourcesPlaced, Pruned, Steps
  <1>9. Attributed'
    <2>1. ASSUME Persistent, ~forgot, NEW p \in Resource, disk[p] \in Contents
          PROVE  p \in Managed(record) /\ disk[p] = record.files[p]
      <3>1. CASE p \in Managed(pending)
        BY <1>3, <1>4, <2>1, <3>1 DEF RootInv, Attributed, Holds
      <3>2. CASE p \notin Managed(pending)
        BY <2>1, <3>2 DEF RootInv, Attributed
      <3>3. QED
        BY <3>1, <3>2
    <2>2. QED
      BY <1>2, <2>1 DEF RootInv, Attributed, Persistent, Managed
  <1>10. QED
    BY <1>5, <1>6, <1>8, <1>9 DEF RootInv

\* What the server and the game do to the server's release and the manifests disturbs nothing else.
LEMMA OthersHold ==
  ASSUME RootInv, UNCHANGED <<kind, disk, record, pending, command, ghosts>>,
         server' \in 1 .. Releases, manifest' \in [Group -> 0 .. Releases]
  PROVE  RootInv'
  <1>1. RootTypeOK' /\ CommandShape'
    BY DEF RootInv, RootTypeOK, State, CommandShape, Managed, ghosts
  <1>2. RecordTrue' /\ Attributed' /\ Pruned'
    BY DEF RootInv, RecordTrue, Attributed, Pruned, Persistent, Managed, ghosts
  <1>3. Intended' /\ ResourcesPlaced'
    BY DEF RootInv, Intended, ResourcesPlaced, Holds, Persistent, ghosts
  <1>4. QED
    BY <1>1, <1>2, <1>3 DEF RootInv

LEMMA FileChangesHolds ==
  ASSUME RootInv, NEW p \in Resource, FileChanges(p)
  PROVE  RootInv'
  <1>1. PICK c \in {"user", "absent"} : disk' = [disk EXCEPT ![p] = c]
    BY DEF FileChanges
  <1>2. /\ changed' = changed \cup {p}
        /\ UNCHANGED <<kind, server, manifest, record, pending, command, forgot>>
    BY DEF FileChanges
  <1>3. /\ disk \in [Resource -> Contents \cup {"absent", "user"}]
        /\ disk' \in [Resource -> Contents \cup {"absent", "user"}]
        /\ changed \subseteq Resource
    BY <1>1 DEF RootInv, RootTypeOK
  <1>4. \A q \in Resource : disk'[q] \in Contents => q # p /\ disk'[q] = disk[q]
    BY <1>1, <1>3, ContentsAssumption
  <1>5. \A q \in Resource : disk'[q] = disk[q] \/ q \in changed'
    BY <1>1, <1>2, <1>3
  <1>6. RootTypeOK' /\ CommandShape'
    BY <1>2, <1>3 DEF RootInv, RootTypeOK, State, CommandShape, Managed
  <1>7. RecordTrue'
    <2>1. Managed(record) \subseteq Resource
      BY ManagedFacts DEF RootInv, RootTypeOK
    <2>2. QED
      BY <1>2, <1>5, <2>1 DEF RootInv, RecordTrue, Managed
  <1>8. Intended'
    BY <1>2 DEF RootInv, Intended, Persistent
  <1>9. ResourcesPlaced'
    <2>1. command.pc \in Steps => DOMAIN command.plan.files \subseteq Resource
      BY RunFacts DEF RootInv, NoCommand, Steps
    <2>2. QED
      BY <1>2, <1>5, <2>1 DEF RootInv, ResourcesPlaced, Holds, Persistent, Steps
  <1>10. Attributed'
    BY <1>2, <1>3, <1>4 DEF RootInv, Attributed, Persistent, Managed
  <1>11. Pruned'
    <2>1. Managed(record) \subseteq Resource
      BY ManagedFacts DEF RootInv, RootTypeOK
    <2>2. QED
      BY <1>2, <1>4, <2>1 DEF RootInv, Pruned, Persistent, Managed
  <1>12. QED
    BY <1>6, <1>7, <1>8, <1>9, <1>10, <1>11 DEF RootInv

LEMMA DropPendingHolds ==
  ASSUME RootInv, DropPending
  PROVE  RootInv'
  <1>1. /\ command = NoCommand /\ pending' = None /\ changed' = Resource /\ forgot' = TRUE
        /\ UNCHANGED <<kind, server, disk, manifest, record, command>>
    BY DEF DropPending
  <1>2. RootTypeOK' /\ CommandShape'
    BY <1>1, States DEF RootInv, RootTypeOK, State, CommandShape, NoCommand
  <1>3. RecordTrue'
    <2>1. Managed(record) \subseteq Resource
      BY ManagedFacts DEF RootInv, RootTypeOK
    <2>2. QED
      BY <1>1, <2>1 DEF RecordTrue, Managed
  <1>4. command'.pc \notin Steps
    BY <1>1 DEF NoCommand, Steps
  <1>5. Intended' /\ ResourcesPlaced' /\ Pruned' /\ Attributed'
    BY <1>1, <1>4 DEF Intended, ResourcesPlaced, Pruned, Attributed, Steps
  <1>6. QED
    BY <1>2, <1>3, <1>5 DEF RootInv

LEMMA RootNextHolds == RootInv /\ [RootNext]_rootVars => RootInv'
  <1> SUFFICES ASSUME RootInv, [RootNext]_rootVars PROVE RootInv'
    OBVIOUS
  <1>1. CASE Step
    BY <1>1, IntentHolds, BatchDoneHolds, CommitDoneHolds, WriteStateHolds, RemovePendingHolds,
       EnsureFileHolds, PruneFileHolds, CommitManifestHolds DEF Step
  <1>2. CASE StartSome
    BY <1>2, StartCommandHolds DEF StartSome
  <1>3. CASE World
    <2>1. CASE TasksFail \/ CommandDies
      BY <2>1, CommandStopHolds DEF TasksFail, CommandDies
    <2>2. CASE ServerMoves
      BY <2>2, OthersHold, ManagedAssumption DEF ServerMoves, files, RootInv, RootTypeOK
    <2>3. CASE DropPending
      BY <2>3, DropPendingHolds
    <2>4. CASE \E p \in Resource : FileChanges(p)
      BY <2>4, FileChangesHolds
    <2>5. ASSUME NEW g \in Group, GameSelects(g)
          PROVE  RootInv'
      BY <2>5, OthersHold DEF GameSelects, ghosts, RootInv, RootTypeOK
    <2>6. QED
      BY <1>3, <2>1, <2>2, <2>3, <2>4, <2>5 DEF World
  <1>4. CASE UNCHANGED rootVars
    BY <1>4, OthersHold DEF rootVars, files, ghosts, RootInv, RootTypeOK
  <1>5. QED
    BY <1>1, <1>2, <1>3, <1>4 DEF RootNext

-----------------------------------------------------------------------------
(* Theorems. *)

\* The invariant above holds in every state of a root that Griffr, the game, the user and the server
\* share, whatever stops a command between two steps.
THEOREM RootInvariant == RootSpec => []RootInv
  BY RootInitHolds, RootNextHolds, PTL DEF RootSpec

\* persistent-vfs.json, resource-baseline.json and their .pending files are always whole states over
\* the documents the server has served.
THEOREM RootTypes == RootSpec => []RootTypeOK
  <1>1. RootInv => RootTypeOK
    BY DEF RootInv
  <1>2. QED
    BY <1>1, RootInvariant, PTL

\* setup_persistent_vfs: with no pending marker, what the record names is what Persistent holds,
\* unless the game or the user changed it since, across crashes, failed batches and a new release.
THEOREM RecordIsTrue == RootSpec => []RecordTrue
  <1>1. RootInv => RecordTrue
    BY DEF RootInv
  <1>2. QED
    BY <1>1, RootInvariant, PTL

\* prune_previous_managed_files before the new record: no file Griffr wrote to Persistent is left
\* unnamed once a change has ended.
THEOREM NothingOrphaned == RootSpec => []NoOrphans
  <1>1. RootInv => NoOrphans
    BY DEF RootInv, Attributed, NoOrphans, Persistent, Managed
  <1>2. QED
    BY <1>1, RootInvariant, PTL
=============================================================================
