-------------------------- MODULE FileTransferProofs --------------------------
(***************************************************************************)
(* Theorems about FileTransfer for every set of reuse sources, volumes,    *)
(* options and file sizes, and any number of faults, retries and crashes:  *)
(* one task writes at a time, the incremental hash is that of the file,    *)
(* and the tasks implement EnsureFile.                                     *)
(*                                                                         *)
(* The inductive invariant IInv says what each task knows (Fits), and that *)
(* the work is always in one place: one task that writes, one group of     *)
(* volumes that still search (Searches), or a result (Settles).            *)
(***************************************************************************)
EXTENDS FileTransfer, FiniteSetTheorems, TLAPS

Index == [k |-> "index"]
Last(i) == [k |-> "last", group |-> i]
Writers == {t \in tasks : t.k \in Writing}
Members(i) == {t \in tasks : t.k \in {"volume", "found"} /\ t.group = i}

Repairs == [k : {"repair"}, cands : SUBSET Source, force : BOOLEAN]
Downloads == [k : {"prepare"}, retry : Nat, archive : BOOLEAN]
Verifies == [k : {"verify"}, how : {"hash", "metadata"},
             onFail : {{}} \cup {{u} : u \in Repairs \cup Downloads}]
Reuses == [k : {"reuse", "linked"}, src : Source, copy : BOOLEAN, rest : SUBSET Source]
Transfers == [k : {"transfer"}, retry : Nat, archive : BOOLEAN, offset : Nat, ok : BOOLEAN]
Bodies == [k : {"body"}, retry : Nat, got : 0 .. Size + 1, ok : BOOLEAN, bad : SUBSET Nat]
Repairing == [k : {"fetch", "extract"}, retry : Nat]
Volumes == [k : {"volume"}, cands : SUBSET Source, copy : BOOLEAN, group : Nat]
Founds == [k : {"found"}, cands : SUBSET Source, copy : BOOLEAN, group : Nat,
           found : SUBSET Source]
Groups == [remaining : Nat, resolved : BOOLEAN, later : SUBSET SUBSET Source, all : SUBSET Source]

Unspoiled(s) == tampered \/ src[s] = "good"

\* What a task carries, and what it may rely on.
Fits(t) ==
  /\ t.k \in Writing \cup {"volume", "found", "last", "index"}
  /\ t.k = "repair" => t \in Repairs
  /\ t.k = "prepare" => t \in Downloads
  /\ t.k = "verify" => t \in Verifies /\ t.how \in {"hash", opt.check}
  /\ t.k \in {"reuse", "linked"} => t \in Reuses /\ Unspoiled(t.src)
  /\ t.k = "transfer" => t \in Transfers /\ t.offset = part.len /\ t.ok = part.ok
  /\ t.k = "body" =>
       /\ t \in Bodies /\ t.bad \subseteq 0 .. t.got /\ part.len <= t.got
       /\ t.ok <=> part.ok /\ \A i \in part.len + 1 .. t.got : i \notin t.bad
  /\ t.k \in {"fetch", "extract"} => t \in Repairing
  /\ t.k = "volume" => t \in Volumes /\ t.group \in DOMAIN groups
  /\ t.k = "found" => /\ t \in Founds /\ t.group \in DOMAIN groups
                      /\ \A s \in t.found : Unspoiled(s)
  /\ t.k = "last" => t.group \in DOMAIN groups /\ t = Last(t.group)
  /\ t.k = "index" => t = Index

Live == tasks # {} => report = "none"
Listed == IsFiniteSet(tasks) /\ groups \in Seq(Groups) /\ \A t \in tasks : Fits(t)
Alone == \A t, u \in Writers : t = u

\* A group counts its volumes while it is open; only the newest one can be, and nothing writes.
Searches ==
  \A i \in DOMAIN groups :
    /\ Cardinality(Members(i)) <= groups[i].remaining
    /\ \A t, u \in Members(i) : t.cands = u.cands => t = u
    /\ ~groups[i].resolved =>
         /\ i = Len(groups) /\ Writers = {} /\ commits = 0
         /\ Cardinality(Members(i)) = groups[i].remaining
         /\ groups[i].remaining = 0 <=> Last(i) \in tasks

\* With no writer and no open group, a task has failed or the file is accepted.
Settled == Writers = {} /\ \A i \in DOMAIN groups : groups[i].resolved
Settles ==
  /\ commits \in {0, 1}
  /\ commits = 1 => Writers = {}
  /\ Settled => failed \/ dest \in Accepted(opt.check)

IInv ==
  /\ TypeOK
  /\ Live
  /\ Listed
  /\ Alone
  /\ Searches
  /\ Settles

-----------------------------------------------------------------------------
(* Tasks that write. *)

\* The task t that writes is followed by at most one that writes, or by none and a result.
Moves(t, next, index) ==
  /\ t \in tasks /\ t.k \in Writing
  /\ tasks' = (tasks \ {t}) \cup (next \cup index)
  /\ index \subseteq {Index}
  /\ next = {} \/ \E u \in next : next = {u}
  /\ \A u \in next : u.k \in Writing /\ Fits(u)'
  /\ \/ next # {} /\ commits' = commits
     \/ /\ next = {} /\ commits' \in {commits, commits + 1}
        /\ failed' \/ dest' \in Accepted(opt.check)
  /\ UNCHANGED <<opt, src, groups, tampered, report>>

LEMMA FitsKinds ==
  ASSUME NEW t, Fits(t)
  PROVE  t.k \in Writing \/ t.k = "volume" \/ t.k = "found" \/ t.k = "last" \/ t.k = "index"
  BY DEF Fits

\* A task that does not write relies on nothing that tasks that write change.
LEMMA FitsKept ==
  ASSUME NEW t, Fits(t), t.k \notin Writing, UNCHANGED <<opt, src, tampered>>,
         DOMAIN groups \subseteq DOMAIN groups'
  PROVE  Fits(t)'
  BY DEF Fits, Unspoiled, Writing

LEMMA FitsStill ==
  ASSUME NEW t, Fits(t), UNCHANGED <<opt, src, part, tampered>>, DOMAIN groups \subseteq DOMAIN groups'
  PROVE  Fits(t)'
  BY DEF Fits, Unspoiled

LEMMA MovesHolds ==
  ASSUME IInv, NEW t, NEW next, NEW index, Moves(t, next, index), TypeOK'
  PROVE  IInv'
  <1>1. /\ t \in Writers /\ Writers = {t}
        /\ Index.k \notin Writing /\ Index.k \notin {"volume", "found"}
    BY DEF Moves, Writers, IInv, Alone, Index, Writing
  <1>2. (\A i \in DOMAIN groups : groups[i].resolved) /\ commits = 0
    BY <1>1 DEF IInv, Searches, Settles
  <1>3. Writers' = next
    BY <1>1 DEF Moves, Writers
  <1>4. \A i : Members(i)' = Members(i)
    BY <1>1 DEF Moves, Members, Writing
  <1>5. Live'
    BY DEF IInv, Live, Moves
  <1>6. Listed'
    <2>1. IsFiniteSet(next) /\ IsFiniteSet(index)
      BY FS_EmptySet, FS_Singleton, FS_Subset DEF Moves
    <2>2. IsFiniteSet(tasks')
      <3>1. IsFiniteSet(next \cup index)
        BY <2>1, FS_Union
      <3>2. IsFiniteSet(tasks \ {t})
        BY FS_RemoveElement DEF IInv, Listed
      <3>3. QED
        BY <3>1, <3>2, FS_Union DEF Moves
    <2>3. ASSUME NEW u \in tasks' PROVE Fits(u)'
      <3>1. CASE u \in next
        BY <3>1 DEF Moves
      <3>2. CASE u \in index
        BY <3>2 DEF Moves, Index, Fits, Writing
      <3>3. CASE u \in tasks \ {t}
        BY <1>1, <3>3, FitsKept DEF Moves, IInv, Listed, Writers
      <3>4. QED
        BY <3>1, <3>2, <3>3 DEF Moves
    <2>4. QED
      BY <2>2, <2>3 DEF Listed, IInv, Moves
  <1>7. Alone'
    BY <1>3 DEF Alone, Moves
  <1>8. Searches'
    BY <1>2, <1>4 DEF IInv, Searches, Moves
  <1>9. Settles'
    BY <1>2, <1>3 DEF Settles, Settled, Moves
  <1>10. QED
    BY <1>5, <1>6, <1>7, <1>8, <1>9 DEF IInv

\* What the options lead to when no source helps.
LEMMA FallbackShape ==
  ASSUME opt \in Option
  PROVE  /\ Fallback = {} \/ \E u \in Fallback : Fallback = {u}
         /\ DirectDownload \in {{}} \cup {{u} : u \in Repairs \cup Downloads}
         /\ \A u \in Fallback : \/ u \in Downloads
                                \/ u \in Verifies /\ u.how = "hash"
  <1>1. Download(0, opt.archive) \in Downloads
    BY DEF Option, Download, Downloads
  <1>2. DirectDownload = {} \/ DirectDownload = {Download(0, opt.archive)}
    BY DEF DirectDownload
  <1>3. DirectDownload \in {{}} \cup {{u} : u \in Repairs \cup Downloads}
    BY <1>1, <1>2
  <1>4. [k |-> "verify", how |-> "hash", onFail |-> DirectDownload] \in Verifies
    BY <1>3 DEF Verifies
  <1>5. QED
    BY <1>1, <1>2, <1>3, <1>4 DEF Fallback

\* Tasks that rely on nothing fit every state.
LEMMA Stateless ==
  ASSUME NEW u, \/ u \in Repairs \cup Downloads \cup Repairing
                \/ u \in Verifies /\ u.how = "hash"
  PROVE  u.k \in Writing /\ Fits(u) /\ Fits(u)'
  BY DEF Repairs, Downloads, Repairing, Verifies, Fits, Writing

\* The index task a step may start beside the next one.
LEMMA IndexTaskShape ==
  ASSUME NEW wanted
  PROVE  IndexTask(wanted) \subseteq {Index}
  BY DEF IndexTask, Index

LEMMA Writes ==
  ASSUME IInv, NEW t \in tasks
  PROVE  /\ Fits(t) /\ opt \in Option /\ report = "none"
         /\ t.k \in Writing => commits = 0
  BY TransferAssumption DEF IInv, Listed, TypeOK, Live, Settles, Writers

LEMMA RetryShape ==
  ASSUME NEW t, t.retry \in Nat, NEW archive \in BOOLEAN, RetryOrFail(t, archive)
  PROVE  \E next : /\ ContinueOrFail(t, next)
                   /\ next = {} \/ \E u \in next : next = {u}
                   /\ \A u \in next : u \in Downloads
  <1>1. CASE t.retry < MaxRetries
    BY <1>1 DEF RetryOrFail, Download, Downloads
  <1>2. CASE ~(t.retry < MaxRetries)
    BY <1>2 DEF RetryOrFail
  <1>3. QED
    BY <1>1, <1>2

\* Retrying after an error is a move, whatever became of the partial download.
LEMMA RetryHolds ==
  ASSUME IInv, NEW t \in tasks, t.k \in Writing, t.retry \in Nat,
         NEW archive \in BOOLEAN, RetryOrFail(t, archive), commits' = commits,
         UNCHANGED <<opt, src, groups, tampered, report>>, TypeOK'
  PROVE  IInv'
  <1>1. PICK next : /\ ContinueOrFail(t, next)
                    /\ next = {} \/ \E u \in next : next = {u}
                    /\ \A u \in next : u \in Downloads
    BY RetryShape
  <1>2. \A u \in next : u.k \in Writing /\ Fits(u)'
    BY <1>1, Stateless
  <1>3. Moves(t, next, {})
    BY <1>1, <1>2 DEF Moves, ContinueOrFail, Continue
  <1>4. QED
    BY <1>3, MovesHolds

LEMMA VerifyHolds ==
  ASSUME IInv, NEW t \in tasks, Verify(t)
  PROVE  IInv'
  <1>1. /\ t \in Verifies /\ t.how \in {"hash", opt.check} /\ t.k \in Writing
        /\ UNCHANGED <<opt, src, groups, tampered, report, commits, dest>>
    BY Writes DEF Verify, Fits, Writing, disk, shared, bounds
  <1>2. TypeOK'
    BY DEF Verify, IInv, TypeOK, disk, shared, bounds
  <1>3. CASE dest \in Accepted(t.how)
    <2>1. dest' \in Accepted(opt.check)
      BY <1>1, <1>3 DEF Accepted
    <2>2. Moves(t, {}, {})
      BY <1>1, <1>3, <2>1 DEF Moves, Verify, Continue
    <2>3. QED
      BY <1>2, <2>2, MovesHolds
  <1>4. CASE dest \notin Accepted(t.how)
    <2>1. /\ t.onFail = {} \/ \E u \in t.onFail : t.onFail = {u}
          /\ \A u \in t.onFail : u \in Repairs \cup Downloads
      BY <1>1 DEF Verifies
    <2>2. \A u \in t.onFail : u.k \in Writing /\ Fits(u)'
      BY <2>1, Stateless
    <2>3. Moves(t, t.onFail, {})
      BY <1>1, <1>4, <2>1, <2>2 DEF Moves, Verify, ContinueOrFail, Continue
    <2>4. QED
      BY <1>2, <2>3, MovesHolds
  <1>5. QED
    BY <1>3, <1>4

-----------------------------------------------------------------------------
(* Reuse by link or copy. *)

LEMMA AfterReuseShape ==
  ASSUME opt \in Option, NEW t \in Reuses, Unspoiled(t.src), UNCHANGED <<tampered, src>>
  PROVE  /\ AfterReuse(t) = {} \/ \E u \in AfterReuse(t) : AfterReuse(t) = {u}
         /\ \A u \in AfterReuse(t) : u.k \in Writing /\ Fits(u)'
  <1>1. CASE ~t.copy /\ opt.copyFallback
    <2> DEFINE u == [t EXCEPT !.k = "reuse", !.copy = TRUE]
    <2>1. AfterReuse(t) = {u}
      BY <1>1 DEF AfterReuse
    <2>2. u \in Reuses /\ u.k = "reuse" /\ u.src = t.src
      BY DEF Reuses
    <2> HIDE DEF u
    <2>3. u.k \in Writing /\ Fits(u)'
      BY <2>2 DEF Fits, Unspoiled, Writing
    <2>4. QED
      BY <2>1, <2>3
  <1>2. CASE (t.copy \/ ~opt.copyFallback) /\ t.rest # {}
    <2>1. AfterReuse(t) = {Repair(t.rest, t.copy)}
      BY <1>2 DEF AfterReuse
    <2>2. Repair(t.rest, t.copy) \in Repairs
      BY DEF Repair, Repairs, Reuses
    <2>3. QED
      BY <2>1, <2>2, Stateless
  <1>3. CASE (t.copy \/ ~opt.copyFallback) /\ t.rest = {}
    <2>1. AfterReuse(t) = Fallback
      BY <1>3 DEF AfterReuse
    <2>2. QED
      BY <2>1, FallbackShape, Stateless
  <1>4. QED
    BY <1>1, <1>2, <1>3

\* A source that fails hands over to what comes next.
LEMMA AfterReuseHolds ==
  ASSUME IInv, NEW t \in tasks, t.k \in {"reuse", "linked"},
         ContinueOrFail(t, AfterReuse(t)), commits' = commits,
         UNCHANGED <<opt, src, groups, tampered, report>>, TypeOK'
  PROVE  IInv'
  <1>1. opt \in Option /\ t \in Reuses /\ Unspoiled(t.src) /\ t.k \in Writing
    BY Writes DEF Fits, Writing
  <1> DEFINE next == AfterReuse(t)
  <1>2. /\ next = {} \/ \E u \in next : next = {u}
        /\ \A u \in next : u.k \in Writing /\ Fits(u)'
    BY <1>1, AfterReuseShape
  <1>3. /\ tasks' = (tasks \ {t}) \cup next
        /\ next = {} => failed'
    BY DEF ContinueOrFail, Continue
  <1> HIDE DEF next
  <1>4. Moves(t, next, {})
    BY <1>1, <1>2, <1>3 DEF Moves
  <1>5. QED
    BY <1>4, MovesHolds

\* The end of the work with the right file in place.
LEMMA CommitHolds ==
  ASSUME IInv, NEW t \in tasks, t.k \in Writing, Committed(t), dest' \in Accepted(opt.check),
         UNCHANGED <<opt, src, groups, tampered, report>>, TypeOK'
  PROVE  IInv'
  <1>1. Moves(t, {}, {})
    BY DEF Moves, Committed, Continue
  <1>2. QED
    BY <1>1, MovesHolds

LEMMA HardLinkHolds ==
  ASSUME IInv, NEW t \in tasks, HardLink(t)
  PROVE  IInv'
  <1> DEFINE u == [t EXCEPT !.k = "linked"]
  <1>1. /\ t \in Reuses /\ Unspoiled(t.src) /\ t.k \in Writing
        /\ UNCHANGED <<opt, src, groups, tampered, report, commits>>
    BY Writes DEF HardLink, Fits, Writing, shared, bounds
  <1>2. u \in Reuses /\ u.k = "linked" /\ u.src = t.src
    BY <1>1 DEF Reuses
  <1>3. tasks' = (tasks \ {t}) \cup {u}
    BY DEF HardLink, Continue
  <1>4. TypeOK'
    BY <1>1 DEF HardLink, IInv, TypeOK, Reuses, shared, bounds
  <1> HIDE DEF u
  <1>5. u.k \in Writing /\ Fits(u)'
    BY <1>1, <1>2 DEF Fits, Unspoiled, Writing
  <1>6. Moves(t, {u}, {})
    BY <1>1, <1>3, <1>5 DEF Moves
  <1>7. QED
    BY <1>4, <1>6, MovesHolds

LEMMA HardLinkVerifyHolds ==
  ASSUME IInv, NEW t \in tasks, HardLinkVerify(t)
  PROVE  IInv'
  <1>1. /\ t.k = "linked" /\ t.k \in Writing
        /\ UNCHANGED <<opt, src, groups, tampered, report, dest>>
    BY DEF HardLinkVerify, Writing, disk, shared, bounds
  <1>2. TypeOK'
    BY DEF HardLinkVerify, IInv, TypeOK, disk, shared, bounds
  <1>3. CASE dest = "good"
    BY <1>1, <1>2, <1>3, CommitHolds DEF HardLinkVerify, Accepted
  <1>4. CASE dest # "good"
    BY <1>1, <1>2, <1>4, AfterReuseHolds DEF HardLinkVerify
  <1>5. QED
    BY <1>3, <1>4

LEMMA HardLinkErrorHolds ==
  ASSUME IInv, NEW t \in tasks, HardLinkError(t)
  PROVE  IInv'
  <1>1. TypeOK'
    BY DEF HardLinkError, IInv, TypeOK, disk, shared
  <1>2. QED
    BY <1>1, AfterReuseHolds DEF HardLinkError, disk, shared

LEMMA CopyFileHolds ==
  ASSUME IInv, NEW t \in tasks, CopyFile(t)
  PROVE  IInv'
  <1>1. /\ t.k = "reuse" /\ t.k \in Writing
        /\ UNCHANGED <<opt, src, groups, tampered, report>>
    BY DEF CopyFile, Writing, shared, bounds
  <1>2. TypeOK'
    BY DEF CopyFile, IInv, TypeOK, Content, shared, bounds
  <1>3. CASE src[t.src] = "good"
    BY <1>1, <1>2, <1>3, CommitHolds DEF CopyFile, Accepted
  <1>4. CASE src[t.src] # "good"
    BY <1>1, <1>2, <1>4, AfterReuseHolds DEF CopyFile
  <1>5. QED
    BY <1>3, <1>4

-----------------------------------------------------------------------------
(* Download. *)

LEMMA PrepareHolds ==
  ASSUME IInv, NEW t \in tasks, Prepare(t)
  PROVE  IInv'
  <1>1. /\ t \in Downloads /\ t.k \in Writing
        /\ UNCHANGED <<opt, src, groups, cached, tampered, report>>
    BY Writes DEF Prepare, Fits, Writing, bounds
  <1>2. part \in [len : 0 .. Size + 1, ok : BOOLEAN] /\ Size \in Nat \ {0}
    BY TransferAssumption DEF IInv, TypeOK
  <1>3. NoPart \in [len : 0 .. Size + 1, ok : BOOLEAN] /\ NoPart.len = 0 /\ NoPart.ok = TRUE
    BY <1>2 DEF NoPart
  <1>4. CASE PrepareCommits(t)
    <2>1. /\ dest' = "good" /\ part' = NoPart /\ Committed(t) /\ UNCHANGED session
      BY <1>4 DEF PrepareCommits
    <2>2. TypeOK'
      BY <1>1, <1>3, <2>1 DEF IInv, TypeOK, Content
    <2>3. QED
      BY <1>1, <2>1, <2>2, CommitHolds DEF Accepted
  <1>5. ASSUME NEW p \in [len : 0 .. Size + 1, ok : BOOLEAN], p.len < Size, part' = p,
               PrepareStarts(t, {Transfer(t, p)}), UNCHANGED <<dest, commits, failed>>
        PROVE  IInv'
    <2> DEFINE u == Transfer(t, p)
               index == IndexTask(t.archive)
    <2>1. TypeOK'
      BY <1>1, <1>5 DEF IInv, TypeOK, PrepareStarts, IndexStarted
    <2>2. /\ u \in Transfers /\ u.k = "transfer" /\ u.offset = p.len /\ u.ok = p.ok
      BY <1>1, <1>2 DEF Transfer, Transfers, Downloads
    <2>3. index \subseteq {Index} /\ tasks' = (tasks \ {t}) \cup ({u} \cup index)
      BY <1>5, IndexTaskShape DEF PrepareStarts, Continue
    <2> HIDE DEF u, index
    <2>4. u.k \in Writing /\ Fits(u)'
      BY <1>5, <2>2 DEF Fits, Writing
    <2>5. Moves(t, {u}, index)
      BY <1>1, <1>5, <2>3, <2>4 DEF Moves
    <2>6. QED
      BY <2>1, <2>5, MovesHolds
  <1>6. CASE PrepareClears(t)
    BY <1>2, <1>3, <1>5, <1>6 DEF PrepareClears
  <1>7. CASE PrepareResumes(t)
    BY <1>2, <1>5, <1>7 DEF PrepareResumes
  <1>8. QED
    BY <1>4, <1>6, <1>7 DEF Prepare

LEMMA PrepareErrorHolds ==
  ASSUME IInv, NEW t \in tasks, PrepareError(t)
  PROVE  IInv'
  <1>1. t \in Downloads /\ t.k \in Writing
    BY Writes DEF PrepareError, Fits, Writing
  <1>2. t.retry \in Nat /\ t.archive \in BOOLEAN
    BY <1>1 DEF Downloads
  <1>3. /\ TypeOK'
        /\ RetryOrFail(t, t.archive) /\ commits' = commits
        /\ UNCHANGED <<opt, src, groups, tampered, report>>
    BY DEF PrepareError, IInv, TypeOK, disk, shared
  <1>4. QED
    BY <1>1, <1>2, <1>3, RetryHolds

\* The task for the answer, or for the archive, takes over from the transfer.
LEMMA TransferFacts ==
  ASSUME IInv, NEW t \in tasks, t.k = "transfer"
  PROVE  /\ t \in Transfers /\ t.retry \in Nat /\ t.ok \in BOOLEAN /\ t.k \in Writing
         /\ t.offset = part.len /\ t.ok = part.ok
         /\ part \in [len : 0 .. Size + 1, ok : BOOLEAN] /\ Size \in Nat \ {0}
  BY Writes, TransferAssumption DEF Fits, Writing, IInv, TypeOK, Transfers

LEMMA SelectArchiveHolds ==
  ASSUME IInv, NEW t \in tasks, SelectArchive(t)
  PROVE  IInv'
  <1> DEFINE u == [k |-> "fetch", retry |-> t.retry]
  <1>1. t.k \in Writing /\ u \in Repairing
    BY TransferFacts DEF SelectArchive, Repairing
  <1>2. /\ tasks' = (tasks \ {t}) \cup {u} /\ commits' = commits
        /\ UNCHANGED <<opt, src, groups, tampered, report>>
    BY DEF SelectArchive, Continue, disk, shared, bounds
  <1>3. TypeOK'
    BY DEF SelectArchive, IInv, TypeOK, disk, shared, bounds
  <1> HIDE DEF u
  <1>4. Moves(t, {u}, {})
    BY <1>1, <1>2, Stateless DEF Moves
  <1>5. QED
    BY <1>3, <1>4, MovesHolds

LEMMA RespondHolds ==
  ASSUME IInv, NEW t \in tasks, RespondRange(t) \/ RespondFull(t)
  PROVE  IInv'
  <1>1. /\ t \in Transfers /\ t.retry \in Nat /\ t.k \in Writing
        /\ t.offset = part.len /\ t.ok = part.ok
        /\ part \in [len : 0 .. Size + 1, ok : BOOLEAN] /\ Size \in Nat \ {0}
    BY TransferFacts DEF RespondRange, RespondFull
  <1>2. PICK p \in [len : 0 .. Size + 1, ok : BOOLEAN] :
          part' = p /\ Continue(t, {Body(t, p.len, p.ok)})
    <2>1. CASE RespondRange(t)
      BY <1>1, <2>1 DEF RespondRange, disk
    <2>2. CASE RespondFull(t)
      <3>1. NoPart \in [len : 0 .. Size + 1, ok : BOOLEAN] /\ NoPart.len = 0 /\ NoPart.ok = TRUE
        BY <1>1 DEF NoPart
      <3>2. QED
        BY <2>2, <3>1 DEF RespondFull
    <2>3. QED
      BY <2>1, <2>2
  <1> DEFINE u == Body(t, p.len, p.ok)
  <1>3. /\ u \in Bodies /\ u.k = "body" /\ u.got = p.len /\ u.ok = p.ok /\ u.bad = {}
    BY <1>1, <1>2 DEF Body, Bodies
  <1>4. /\ UNCHANGED <<opt, src, groups, tampered, report, commits>>
        /\ tasks' = (tasks \ {t}) \cup {u}
    BY <1>2 DEF RespondRange, RespondFull, Continue, disk, shared, bounds
  <1>5. TypeOK'
    BY <1>2 DEF RespondRange, RespondFull, IInv, TypeOK, disk, shared, bounds
  <1> HIDE DEF u
  <1>6. u.k \in Writing /\ Fits(u)'
    BY <1>1, <1>2, <1>3 DEF Fits, Writing
  <1>7. Moves(t, {u}, {})
    BY <1>1, <1>4, <1>6 DEF Moves
  <1>8. QED
    BY <1>5, <1>7, MovesHolds

LEMMA RespondErrorHolds ==
  ASSUME IInv, NEW t \in tasks, RespondError(t)
  PROVE  IInv'
  <1>1. /\ t.retry \in Nat /\ t.k \in Writing /\ Size \in Nat \ {0}
        /\ part \in [len : 0 .. Size + 1, ok : BOOLEAN]
    BY TransferFacts DEF RespondError
  <1>2. part' \in {part, NoPart}
    BY DEF RespondError
  <1>3. part' \in [len : 0 .. Size + 1, ok : BOOLEAN]
    <2>1. NoPart \in [len : 0 .. Size + 1, ok : BOOLEAN]
      BY <1>1 DEF NoPart
    <2>2. QED
      BY <1>1, <1>2, <2>1
  <1>4. TypeOK'
    BY <1>3 DEF RespondError, IInv, TypeOK, shared
  <1>5. /\ RetryOrFail(t, FALSE) /\ commits' = commits
        /\ UNCHANGED <<opt, src, groups, tampered, report>>
    BY DEF RespondError, shared
  <1>6. QED
    BY <1>1, <1>4, <1>5, RetryHolds

LEMMA BodyFacts ==
  ASSUME IInv, NEW t \in tasks, t.k = "body"
  PROVE  /\ t \in Bodies /\ t.k \in Writing /\ t.retry \in Nat
         /\ t.got \in 0 .. Size + 1 /\ t.ok \in BOOLEAN /\ t.bad \subseteq 0 .. t.got
         /\ part.len <= t.got
         /\ t.ok <=> part.ok /\ \A i \in part.len + 1 .. t.got : i \notin t.bad
         /\ part \in [len : 0 .. Size + 1, ok : BOOLEAN] /\ Size \in Nat \ {0}
  BY Writes, TransferAssumption DEF Fits, Writing, IInv, TypeOK, Bodies

LEMMA ReceiveHolds ==
  ASSUME IInv, NEW t \in tasks, Receive(t)
  PROVE  IInv'
  <1>1. /\ t \in Bodies /\ t.k = "body" /\ t.k \in Writing /\ t.retry \in Nat
        /\ t.got \in 0 .. Size + 1 /\ t.ok \in BOOLEAN /\ t.bad \subseteq 0 .. t.got
        /\ part.len <= t.got
        /\ t.ok <=> part.ok /\ \A i \in part.len + 1 .. t.got : i \notin t.bad
        /\ part \in [len : 0 .. Size + 1, ok : BOOLEAN] /\ Size \in Nat \ {0}
    BY BodyFacts DEF Receive
  <1>2. t.got <= Size /\ UNCHANGED <<opt, src, groups, tampered, report, commits, part>>
    BY DEF Receive, disk, shared
  <1>3. PICK good \in BOOLEAN :
          Continue(t, {[t EXCEPT !.got = @ + 1, !.ok = @ /\ good,
                                 !.bad = IF good THEN @ ELSE @ \cup {t.got + 1}]})
    BY DEF Receive
  <1> DEFINE u == [t EXCEPT !.got = @ + 1, !.ok = @ /\ good,
                            !.bad = IF good THEN @ ELSE @ \cup {t.got + 1}]
  <1>4. /\ u.k = "body" /\ u.got = t.got + 1 /\ u.ok = (t.ok /\ good)
        /\ u.bad = (IF good THEN t.bad ELSE t.bad \cup {t.got + 1}) /\ u.retry = t.retry
    BY <1>1 DEF Bodies
  <1>5. u \in Bodies
    <2>1. t.got + 1 \in 0 .. Size + 1 /\ (t.ok /\ good) \in BOOLEAN
      BY <1>1, <1>2
    <2>2. (IF good THEN t.bad ELSE t.bad \cup {t.got + 1}) \in SUBSET Nat
      BY <1>1
    <2>3. QED
      BY <1>1, <2>1, <2>2 DEF Bodies
  <1>6. tasks' = (tasks \ {t}) \cup {u}
    BY <1>3 DEF Continue
  <1> HIDE DEF u
  <1>7. u.bad \subseteq 0 .. u.got /\ part.len <= u.got
    BY <1>1, <1>4
  <1>8. u.ok <=> part.ok /\ \A i \in part.len + 1 .. u.got : i \notin u.bad
    <2>1. \A i \in part.len + 1 .. u.got : i \in part.len + 1 .. t.got \/ i = t.got + 1
      BY <1>1, <1>4
    <2>2. t.got + 1 \in part.len + 1 .. u.got /\ part.len + 1 .. t.got \subseteq part.len + 1 .. u.got
      BY <1>1, <1>4
    <2>3. t.got + 1 \notin t.bad /\ \A i \in part.len + 1 .. t.got : i # t.got + 1
      BY <1>1
    <2>4. QED
      BY <1>1, <1>4, <2>1, <2>2, <2>3
  <1>9. u.k \in Writing /\ Fits(u)'
    BY <1>2, <1>4, <1>5, <1>7, <1>8 DEF Fits, Writing
  <1>10. TypeOK'
    BY DEF Receive, IInv, TypeOK, disk, shared
  <1>11. Moves(t, {u}, {})
    BY <1>1, <1>2, <1>6, <1>9 DEF Moves
  <1>12. QED
    BY <1>10, <1>11, MovesHolds

\* The writer changes the partial file only; the task itself is the only one that looks at it.
LEMMA WriteChunkHolds ==
  ASSUME IInv, NEW t \in tasks, WriteChunk(t)
  PROVE  IInv'
  <1>1. /\ t \in Bodies /\ t.k = "body" /\ t.k \in Writing
        /\ t.got \in 0 .. Size + 1 /\ t.ok \in BOOLEAN /\ t.bad \subseteq 0 .. t.got
        /\ t.ok <=> part.ok /\ \A i \in part.len + 1 .. t.got : i \notin t.bad
        /\ part \in [len : 0 .. Size + 1, ok : BOOLEAN] /\ Size \in Nat \ {0}
    BY BodyFacts DEF WriteChunk
  <1>2. /\ part.len < t.got
        /\ part' = [len |-> part.len + 1, ok |-> part.ok /\ part.len + 1 \notin t.bad]
        /\ UNCHANGED <<opt, dest, src, tasks, groups, session, cached, commits, failed, report,
                       tampered>>
    BY DEF WriteChunk, shared, bounds
  <1>3. part'.len = part.len + 1 /\ part'.ok = (part.ok /\ part.len + 1 \notin t.bad)
    BY <1>2
  <1>4. TypeOK'
    <2>1. part.len + 1 \in 0 .. Size + 1 /\ (part.ok /\ part.len + 1 \notin t.bad) \in BOOLEAN
      BY <1>1, <1>2
    <2>2. QED
      BY <1>2, <2>1 DEF IInv, TypeOK
  <1>5. Fits(t)'
    <2>1. part'.len <= t.got
      BY <1>1, <1>2, <1>3
    <2>2. \A i \in part.len + 1 .. t.got : i = part.len + 1 \/ i \in part'.len + 1 .. t.got
      BY <1>1, <1>3
    <2>3. part.len + 1 \in part.len + 1 .. t.got
          /\ part'.len + 1 .. t.got \subseteq part.len + 1 .. t.got
      BY <1>1, <1>2, <1>3
    <2>4. t.ok <=> part'.ok /\ \A i \in part'.len + 1 .. t.got : i \notin t.bad
      BY <1>1, <1>3, <2>2, <2>3
    <2>5. QED
      BY <1>1, <2>1, <2>4 DEF Fits, Writing
  <1>6. ASSUME NEW u \in tasks, u # t PROVE Fits(u)'
    BY <1>1, <1>2, <1>6, FitsKept DEF IInv, Listed, Alone, Writers
  <1>7. Listed'
    BY <1>2, <1>5, <1>6 DEF IInv, Listed
  <1>8. Live' /\ Alone' /\ Settles'
    BY <1>2 DEF IInv, Live, Alone, Settles, Settled, Writers
  <1>9. Searches'
    BY <1>2 DEF IInv, Searches, Members, Writers
  <1>10. QED
    BY <1>4, <1>7, <1>8, <1>9 DEF IInv

LEMMA BodyEndHolds ==
  ASSUME IInv, NEW t \in tasks, BodyEnd(t)
  PROVE  IInv'
  <1>1. /\ t.k = "body" /\ t.k \in Writing /\ t.retry \in Nat
        /\ t.got \in 0 .. Size + 1 /\ t.ok \in BOOLEAN
        /\ t.ok <=> part.ok /\ \A i \in part.len + 1 .. t.got : i \notin t.bad
        /\ part \in [len : 0 .. Size + 1, ok : BOOLEAN] /\ Size \in Nat \ {0}
    BY BodyFacts DEF BodyEnd
  <1>2. UNCHANGED <<opt, src, groups, session, cached, report, tampered>>
    BY DEF BodyEnd, shared
  <1>3. CASE t.got = Size /\ t.ok
    <2>1. /\ dest' = (IF part.ok THEN "good" ELSE "wrong") /\ part' = NoPart /\ Committed(t)
      BY <1>3 DEF BodyEnd
    <2>2. dest' = "good"
      BY <1>1, <1>3, <2>1
    <2>3. NoPart \in [len : 0 .. Size + 1, ok : BOOLEAN]
      BY <1>1 DEF NoPart
    <2>4. TypeOK'
      BY <1>2, <2>1, <2>2, <2>3 DEF IInv, TypeOK, Content
    <2>5. QED
      BY <1>1, <1>2, <2>1, <2>2, <2>4, CommitHolds DEF Accepted
  <1>4. CASE ~(t.got = Size /\ t.ok)
    <2>1. RetryOrFail(t, FALSE) /\ UNCHANGED <<dest, part, commits>>
      BY <1>4 DEF BodyEnd
    <2>2. TypeOK'
      BY <1>2, <2>1 DEF IInv, TypeOK
    <2>3. QED
      BY <1>1, <1>2, <2>1, <2>2, RetryHolds
  <1>5. QED
    BY <1>3, <1>4

LEMMA BodyAbortsHolds ==
  ASSUME IInv, NEW t \in tasks, BodyAborts(t)
  PROVE  IInv'
  <1>1. t.k \in Writing /\ t.retry \in Nat
    BY BodyFacts DEF BodyAborts
  <1>2. TypeOK'
    BY DEF BodyAborts, IInv, TypeOK, disk, shared
  <1>3. /\ RetryOrFail(t, FALSE) /\ commits' = commits
        /\ UNCHANGED <<opt, src, groups, tampered, report>>
    BY DEF BodyAborts, disk, shared
  <1>4. QED
    BY <1>1, <1>2, <1>3, RetryHolds

-----------------------------------------------------------------------------
(* Repair from archive ranges. *)

LEMMA RepairingFacts ==
  ASSUME IInv, NEW t \in tasks, t.k \in {"fetch", "extract"}
  PROVE  t \in Repairing /\ t.k \in Writing /\ t.retry \in Nat
  BY Writes DEF Fits, Writing, Repairing

LEMMA DirectFallbackHolds ==
  ASSUME IInv, NEW t \in tasks, t.k \in {"fetch", "extract"}, DirectFallback(t),
         UNCHANGED <<opt, src, groups, tampered, report, commits>>, TypeOK'
  PROVE  IInv'
  <1> DEFINE u == Download(t.retry, FALSE)
  <1>1. t.k \in Writing /\ u \in Downloads
    BY RepairingFacts DEF Download, Downloads
  <1>2. tasks' = (tasks \ {t}) \cup {u}
    BY DEF DirectFallback, Continue
  <1> HIDE DEF u
  <1>3. Moves(t, {u}, {})
    BY <1>1, <1>2, Stateless DEF Moves
  <1>4. QED
    BY <1>3, MovesHolds

LEMMA FetchRepairHolds ==
  ASSUME IInv, NEW t \in tasks, FetchRepair(t)
  PROVE  IInv'
  <1>1. /\ t.k = "fetch" /\ t \in Repairing /\ t.k \in Writing
        /\ UNCHANGED <<opt, src, groups, tampered, report, commits>>
    BY RepairingFacts DEF FetchRepair, disk
  <1>2. TypeOK'
    BY DEF FetchRepair, DirectFallback, IInv, TypeOK, disk
  <1>3. CASE DirectFallback(t)
    BY <1>1, <1>2, <1>3, DirectFallbackHolds
  <1>4. CASE Continue(t, {[t EXCEPT !.k = "extract"]})
    <2> DEFINE u == [t EXCEPT !.k = "extract"]
    <2>1. u \in Repairing
      BY <1>1 DEF Repairing
    <2>2. tasks' = (tasks \ {t}) \cup {u}
      BY <1>4 DEF Continue
    <2> HIDE DEF u
    <2>3. Moves(t, {u}, {})
      BY <1>1, <2>1, <2>2, Stateless DEF Moves
    <2>4. QED
      BY <1>2, <2>3, MovesHolds
  <1>5. QED
    BY <1>3, <1>4 DEF FetchRepair

LEMMA ExtractRepairHolds ==
  ASSUME IInv, NEW t \in tasks, ExtractRepair(t)
  PROVE  IInv'
  <1>1. /\ t.k = "extract" /\ t.k \in Writing
        /\ UNCHANGED <<opt, src, groups, session, tampered, report>>
    BY DEF ExtractRepair, Writing
  <1>2. CASE dest' = "good" /\ part' \in {NoPart, part} /\ Committed(t) /\ UNCHANGED <<cached, faults>>
    <2>1. NoPart \in [len : 0 .. Size + 1, ok : BOOLEAN]
      BY TransferAssumption DEF NoPart
    <2>2. TypeOK'
      BY <1>1, <1>2, <2>1 DEF IInv, TypeOK, Content
    <2>3. QED
      BY <1>1, <1>2, <2>2, CommitHolds DEF Accepted
  <1>3. CASE DirectFallback(t) /\ UNCHANGED <<dest, part, commits, failed>>
    <2>1. TypeOK'
      BY <1>1, <1>3 DEF DirectFallback, IInv, TypeOK
    <2>2. QED
      BY <1>1, <1>3, <2>1, DirectFallbackHolds
  <1>4. QED
    BY <1>2, <1>3 DEF ExtractRepair

LEMMA IndexDoneHolds ==
  ASSUME IInv, NEW t \in tasks, IndexDone(t)
  PROVE  IInv'
  <1>1. /\ t.k = "index" /\ t.k \notin Writing /\ tasks' = tasks \ {t}
        /\ UNCHANGED <<opt, dest, part, src, groups, tampered, report, commits, failed>>
    BY DEF IndexDone, Continue, Writing, disk
  <1>2. TypeOK'
    BY DEF IndexDone, IInv, TypeOK, disk
  <1>3. Writers' = Writers /\ \A i : Members(i)' = Members(i) /\ (Last(i) \in tasks' <=> Last(i) \in tasks)
    BY <1>1 DEF Writers, Members, Last
  <1>4. \A u \in tasks' : Fits(u)'
    BY <1>1 DEF IInv, Listed, Fits, Unspoiled
  <1>5. IsFiniteSet(tasks')
    BY <1>1, FS_RemoveElement DEF IInv, Listed
  <1>6. Live' /\ Listed'
    BY <1>1, <1>4, <1>5 DEF IInv, Live, Listed
  <1>7. Alone' /\ Searches' /\ Settles'
    BY <1>1, <1>3 DEF IInv, Alone, Searches, Settles, Settled
  <1>8. QED
    BY <1>2, <1>6, <1>7 DEF IInv

-----------------------------------------------------------------------------
(* The search on several volumes. *)

LEMMA GroupFacts ==
  ASSUME IInv, NEW i \in DOMAIN groups
  PROVE  /\ groups[i] \in Groups /\ i \in Nat /\ i \in 1 .. Len(groups)
         /\ IsFiniteSet(Members(i)) /\ Cardinality(Members(i)) \in Nat
         /\ \A t \in Members(i) : /\ IsFiniteSet(Members(i) \ {t})
                                  /\ Cardinality(Members(i) \ {t}) = Cardinality(Members(i)) - 1
                                  /\ groups[i].remaining >= 1
  <1>1. groups[i] \in Groups /\ i \in 1 .. Len(groups) /\ i \in Nat
    BY DEF IInv, Listed
  <1>2. IsFiniteSet(Members(i))
    BY FS_Subset DEF IInv, Listed, Members
  <1>3. Cardinality(Members(i)) \in Nat
    BY <1>2, FS_CardinalityType
  <1>4. ASSUME NEW t \in Members(i)
        PROVE  /\ IsFiniteSet(Members(i) \ {t})
               /\ Cardinality(Members(i) \ {t}) = Cardinality(Members(i)) - 1
               /\ groups[i].remaining >= 1
    <2>1. /\ IsFiniteSet(Members(i) \ {t})
          /\ Cardinality(Members(i) \ {t}) = Cardinality(Members(i)) - 1
      BY <1>2, FS_RemoveElement
    <2>2. Cardinality(Members(i) \ {t}) \in Nat
      BY <2>1, FS_CardinalityType
    <2>3. groups[i].remaining \in Nat /\ Cardinality(Members(i)) <= groups[i].remaining
      BY <1>1 DEF IInv, Searches, Groups
    <2>4. QED
      BY <1>3, <2>1, <2>2, <2>3
  <1>5. QED
    BY <1>1, <1>2, <1>3, <1>4

LEMMA MemberFacts ==
  ASSUME IInv, NEW t \in tasks, t.k \in {"volume", "found"}
  PROVE  /\ t.group \in DOMAIN groups /\ t \in Members(t.group) /\ t.k \notin Writing
         /\ t.cands \in SUBSET Source /\ t.copy \in BOOLEAN /\ t.group \in Nat
         /\ t.k = "found" => t.found \in SUBSET Source /\ \A s \in t.found : Unspoiled(s)
  BY Writes DEF Fits, Members, Writing, Volumes, Founds

LEMMA VolumeResolvedHolds ==
  ASSUME IInv, NEW t \in tasks, VolumeResolved(t)
  PROVE  IInv'
  <1>1. /\ t.k = "volume" /\ t.k \notin Writing /\ tasks' = tasks \ {t}
        /\ groups[t.group].resolved
        /\ UNCHANGED <<opt, dest, part, src, groups, session, cached, tampered, report, commits,
                       failed>>
    BY DEF VolumeResolved, Continue, Writing, disk, shared, bounds
  <1>2. TypeOK'
    BY <1>1 DEF IInv, TypeOK
  <1>3. Writers' = Writers /\ \A i : (Last(i) \in tasks' <=> Last(i) \in tasks)
    BY <1>1 DEF Writers, Last
  <1>4. \A i : Members(i)' = Members(i) \ {t}
    BY <1>1 DEF Members
  <1>5. \A u \in tasks' : Fits(u)'
    BY <1>1 DEF IInv, Listed, Fits, Unspoiled
  <1>6. IsFiniteSet(tasks')
    BY <1>1, FS_RemoveElement DEF IInv, Listed
  <1>7. Live' /\ Listed'
    BY <1>1, <1>5, <1>6 DEF IInv, Live, Listed
  <1>8. Alone' /\ Settles'
    BY <1>1, <1>3 DEF IInv, Alone, Settles, Settled
  <1>9. Searches'
    <2>1. ASSUME NEW i \in DOMAIN groups
          PROVE  /\ Cardinality(Members(i)') <= groups[i].remaining
                 /\ ~groups[i].resolved => Members(i)' = Members(i)
      <3>1. CASE t \in Members(i)
        <4>1. i = t.group
          BY <3>1 DEF Members
        <4>2. /\ Cardinality(Members(i)') = Cardinality(Members(i)) - 1
              /\ Cardinality(Members(i)) \in Nat /\ Cardinality(Members(i)) <= groups[i].remaining
              /\ groups[i].remaining \in Nat
          BY <1>4, <3>1, GroupFacts DEF IInv, Searches, Groups
        <4>3. QED
          BY <1>1, <4>1, <4>2
      <3>2. CASE t \notin Members(i)
        BY <1>4, <3>2 DEF IInv, Searches
      <3>3. QED
        BY <3>1, <3>2
    <2>2. QED
      BY <1>1, <1>3, <1>4, <2>1 DEF IInv, Searches
  <1>10. QED
    BY <1>2, <1>7, <1>8, <1>9 DEF IInv

\* A volume's search ends with a source or without, and counts until it has reported.
LEMMA VolumeFindHolds ==
  ASSUME IInv, NEW t \in tasks, VolumeFind(t)
  PROVE  IInv'
  <1>1. /\ t.k = "volume" /\ t.k \notin Writing
        /\ UNCHANGED <<opt, dest, part, src, groups, session, cached, tampered, report, commits,
                       failed>>
    BY DEF VolumeFind, Writing, disk, shared, bounds
  <1>2. /\ t.group \in DOMAIN groups /\ t \in Members(t.group)
        /\ t.cands \in SUBSET Source /\ t.copy \in BOOLEAN /\ t.group \in Nat
    BY <1>1, MemberFacts
  <1>3. PICK found \in SUBSET t.cands :
          /\ \A s \in found : src[s] = "good"
          /\ Continue(t, {[k |-> "found", cands |-> t.cands, copy |-> t.copy, group |-> t.group,
                           found |-> found]})
    BY DEF VolumeFind
  <1> DEFINE f == [k |-> "found", cands |-> t.cands, copy |-> t.copy, group |-> t.group,
                   found |-> found]
  <1>4. /\ f \in Founds /\ f.k = "found" /\ f.group = t.group /\ f.cands = t.cands
        /\ f.found = found
    BY <1>2 DEF Founds
  <1>5. tasks' = (tasks \ {t}) \cup {f}
    BY <1>3 DEF Continue
  <1> HIDE DEF f
  <1>6. f.k \notin Writing /\ Fits(f)'
    BY <1>1, <1>2, <1>3, <1>4 DEF Fits, Unspoiled, Writing
  <1>7. TypeOK'
    BY <1>1 DEF IInv, TypeOK
  <1>8. Writers' = Writers /\ \A i : (Last(i) \in tasks' <=> Last(i) \in tasks)
    BY <1>1, <1>4, <1>5, <1>6 DEF Writers, Last
  <1>9. \A u \in tasks' : Fits(u)'
    BY <1>1, <1>5, <1>6 DEF IInv, Listed, Fits, Unspoiled
  <1>10. IsFiniteSet(tasks')
    BY <1>5, FS_RemoveElement, FS_AddElement DEF IInv, Listed
  <1>11. Live' /\ Listed'
    BY <1>1, <1>9, <1>10 DEF IInv, Live, Listed
  <1>12. Alone' /\ Settles'
    BY <1>1, <1>8 DEF IInv, Alone, Settles, Settled
  <1>13. /\ \A i : i # t.group => Members(i)' = Members(i)
         /\ Members(t.group)' = (Members(t.group) \ {t}) \cup {f}
    BY <1>1, <1>2, <1>4, <1>5 DEF Members
  <1>14. \A u \in Members(t.group) \ {t} : u.cands # f.cands
    BY <1>2, <1>4 DEF IInv, Searches
  <1>15. Cardinality(Members(t.group)') = Cardinality(Members(t.group))
    <2>1. f \notin Members(t.group) \ {t}
      BY <1>14
    <2>2. /\ IsFiniteSet(Members(t.group) \ {t}) /\ Cardinality(Members(t.group)) \in Nat
          /\ Cardinality(Members(t.group) \ {t}) = Cardinality(Members(t.group)) - 1
      BY <1>2, GroupFacts
    <2>3. QED
      BY <1>13, <2>1, <2>2, FS_AddElement
  <1>16. Searches'
    <2>1. ASSUME NEW i \in DOMAIN groups
          PROVE  /\ Cardinality(Members(i)') = Cardinality(Members(i))
                 /\ \A u, v \in Members(i)' : u.cands = v.cands => u = v
      BY <1>13, <1>14, <1>15 DEF IInv, Searches
    <2>2. QED
      BY <1>1, <1>8, <2>1 DEF IInv, Searches
  <1>17. QED
    BY <1>7, <1>11, <1>12, <1>16 DEF IInv

\* The first source found closes the group and hands it to the one task that uses it.
LEMMA VolumeWinsHolds ==
  ASSUME IInv, NEW t \in tasks, VolumeWins(t)
  PROVE  IInv'
  <1> DEFINE g == t.group
  <1>1. /\ t.k = "found" /\ t.k \notin Writing
        /\ groups' = [groups EXCEPT ![g].resolved = TRUE]
        /\ UNCHANGED <<opt, dest, part, src, session, cached, tampered, report, commits, failed>>
    BY DEF VolumeWins, Writing, disk, bounds
  <1>2. /\ g \in DOMAIN groups /\ t \in Members(g) /\ t.copy \in BOOLEAN
        /\ t.found \in SUBSET Source /\ \A s \in t.found : Unspoiled(s)
    BY <1>1, MemberFacts
  <1>3. PICK s \in t.found : Continue(t, IF groups[g].resolved THEN {} ELSE {Reuse(t, s)})
    BY DEF VolumeWins
  <1>4. /\ groups \in Seq(Groups) /\ groups[g] \in Groups
        /\ groups' \in Seq(Groups) /\ DOMAIN groups' = DOMAIN groups /\ Len(groups') = Len(groups)
        /\ \A i \in DOMAIN groups : groups'[i].remaining = groups[i].remaining
        /\ \A i \in DOMAIN groups : groups'[i].resolved <=> (groups[i].resolved \/ i = g)
    <2>1. groups \in Seq(Groups) /\ groups[g] \in Groups
      BY <1>2, GroupFacts DEF IInv, Listed
    <2>2. groups' = [groups EXCEPT ![g] = [groups[g] EXCEPT !.resolved = TRUE]]
      BY <1>1
    <2>3. /\ [groups[g] EXCEPT !.resolved = TRUE] \in Groups
          /\ [groups[g] EXCEPT !.resolved = TRUE].resolved = TRUE
          /\ [groups[g] EXCEPT !.resolved = TRUE].remaining = groups[g].remaining
      BY <2>1 DEF Groups
    <2>4. QED
      BY <1>2, <2>1, <2>2, <2>3
  <1>5. PICK u \in Reuses : u = Reuse(t, s) /\ u.k = "reuse" /\ u.src = s
    <2>1. Reuse(t, s) \in Reuses /\ Reuse(t, s).k = "reuse" /\ Reuse(t, s).src = s
      BY <1>2, <1>3, <1>4 DEF Reuse, Reuses, Groups
    <2>2. QED
      BY <2>1
  <1> DEFINE next == IF groups[g].resolved THEN {} ELSE {u}
  <1>6. tasks' = (tasks \ {t}) \cup next
    BY <1>3, <1>5 DEF Continue
  <1>7. u.k \in Writing /\ Fits(u)'
    <2>1. Unspoiled(u.src)'
      BY <1>1, <1>2, <1>3, <1>5 DEF Unspoiled
    <2>2. QED
      BY <1>5, <2>1 DEF Fits, Writing
  <1>8. Writers' = Writers \cup next
    BY <1>1, <1>6, <1>7 DEF Writers
  <1>9. ~groups[g].resolved => Writers = {} /\ commits = 0 /\ g = Len(groups)
    BY <1>2 DEF IInv, Searches
  <1>10. TypeOK'
    <2>1. \A i \in DOMAIN groups' : groups'[i].remaining >= 0
      BY <1>4 DEF IInv, TypeOK
    <2>2. QED
      BY <1>1, <2>1 DEF IInv, TypeOK
  <1>11. Live'
    BY <1>1 DEF IInv, Live
  <1>12. Listed'
    <2>1. ASSUME NEW v \in tasks' PROVE Fits(v)'
      BY <1>1, <1>4, <1>6, <1>7, FitsStill DEF IInv, Listed
    <2>2. IsFiniteSet(tasks')
      <3>1. IsFiniteSet(next)
        BY FS_EmptySet, FS_Singleton
      <3>2. QED
        BY <1>6, <3>1, FS_RemoveElement, FS_Union DEF IInv, Listed
    <2>3. QED
      BY <1>4, <2>1, <2>2 DEF Listed
  <1>13. Alone'
    BY <1>8, <1>9 DEF IInv, Alone
  <1>14. Searches'
    <2>1. \A i : Members(i)' = Members(i) \ {t} /\ (Last(i) \in tasks' <=> Last(i) \in tasks)
      BY <1>1, <1>6, <1>7 DEF Members, Last, Writing
    <2>2. ASSUME NEW i \in DOMAIN groups
          PROVE  /\ Cardinality(Members(i)') <= groups[i].remaining
                 /\ i # g => Members(i)' = Members(i)
      <3>1. CASE i = g
        <4>1. /\ Cardinality(Members(g) \ {t}) = Cardinality(Members(g)) - 1
              /\ Cardinality(Members(g)) \in Nat /\ Cardinality(Members(g)) <= groups[g].remaining
              /\ groups[g].remaining \in Nat
          BY <1>2, GroupFacts DEF IInv, Searches, Groups
        <4>2. Members(i)' = Members(g) \ {t}
          BY <2>1, <3>1
        <4>3. QED
          BY <3>1, <4>1, <4>2
      <3>2. CASE i # g
        <4>1. Members(i)' = Members(i)
          BY <2>1, <3>2 DEF Members
        <4>2. QED
          BY <3>2, <4>1 DEF IInv, Searches
      <3>3. QED
        BY <3>1, <3>2
    <2>3. \A i \in DOMAIN groups : ~groups'[i].resolved => next = {}
      <3>1. ASSUME NEW i \in DOMAIN groups, ~groups'[i].resolved, ~groups[g].resolved PROVE FALSE
        BY <1>2, <1>4, <3>1 DEF IInv, Searches
      <3>2. QED
        BY <3>1
    <2>4. QED
      BY <1>1, <1>4, <1>8, <2>1, <2>2, <2>3 DEF IInv, Searches
  <1>15. Settles'
    <2>1. Settled' => Settled
      BY <1>2, <1>4, <1>8 DEF Settled
    <2>2. QED
      BY <1>1, <1>8, <1>9, <2>1 DEF IInv, Settles
  <1>16. QED
    BY <1>10, <1>11, <1>12, <1>13, <1>14, <1>15 DEF IInv

\* A volume without a source is counted down, and the last one leaves the decision to one task.
LEMMA VolumeEmptyHolds ==
  ASSUME IInv, NEW t \in tasks, VolumeEmpty(t)
  PROVE  IInv'
  <1> DEFINE g == t.group
             next == IF groups[g].remaining = 1 THEN {Last(g)} ELSE {}
  <1>1. /\ t.k = "found" /\ t.k \notin Writing
        /\ groups' = [groups EXCEPT ![g].remaining = groups[g].remaining - 1]
        /\ tasks' = (tasks \ {t}) \cup next
        /\ UNCHANGED <<opt, dest, part, src, session, cached, tampered, report, commits, failed>>
    BY DEF VolumeEmpty, Continue, Last, Writing, disk, bounds
  <1>2. g \in DOMAIN groups /\ t \in Members(g)
    BY <1>1, MemberFacts
  <1>3. /\ Cardinality(Members(g) \ {t}) = Cardinality(Members(g)) - 1
        /\ Cardinality(Members(g)) \in Nat /\ Cardinality(Members(g)) <= groups[g].remaining
        /\ groups[g].remaining \in Nat /\ groups[g].remaining >= 1
    BY <1>2, GroupFacts DEF IInv, Searches, Groups
  <1>4. /\ groups \in Seq(Groups) /\ groups[g] \in Groups
        /\ groups' \in Seq(Groups) /\ DOMAIN groups' = DOMAIN groups /\ Len(groups') = Len(groups)
        /\ \A i \in DOMAIN groups : groups'[i].resolved <=> groups[i].resolved
        /\ \A i \in DOMAIN groups \ {g} : groups'[i].remaining = groups[i].remaining
        /\ groups'[g].remaining = groups[g].remaining - 1
    <2> DEFINE r == [groups[g] EXCEPT !.remaining = groups[g].remaining - 1]
    <2>1. groups \in Seq(Groups) /\ groups[g] \in Groups
      BY <1>2, GroupFacts DEF IInv, Listed
    <2>2. groups' = [groups EXCEPT ![g] = r]
      BY <1>1
    <2>3. groups[g].remaining - 1 \in Nat
      BY <1>3
    <2>4. r \in Groups /\ r.resolved = groups[g].resolved /\ r.remaining = groups[g].remaining - 1
      BY <2>1, <2>3 DEF Groups
    <2> HIDE DEF r
    <2>5. QED
      BY <1>2, <2>1, <2>2, <2>4
  <1>5. \A u \in next : u = Last(g) /\ u.k = "last" /\ u.k \notin Writing /\ u.group = g
    BY DEF Last, Writing
  <1>6. Writers' = Writers
    BY <1>1, <1>5 DEF Writers
  <1>7. TypeOK'
    <2>1. \A i \in DOMAIN groups' : groups'[i].remaining >= 0
      BY <1>3, <1>4 DEF IInv, TypeOK
    <2>2. QED
      BY <1>1, <2>1 DEF IInv, TypeOK
  <1>8. Live'
    BY <1>1 DEF IInv, Live
  <1>9. Listed'
    <2>1. \A u \in next : Fits(u)'
      BY <1>2, <1>4, <1>5 DEF Fits, Writing
    <2>2. ASSUME NEW u \in tasks' PROVE Fits(u)'
      BY <1>1, <1>4, <2>1, <2>2, FitsStill DEF IInv, Listed
    <2>3. IsFiniteSet(tasks')
      <3>1. IsFiniteSet(next)
        BY FS_EmptySet, FS_Singleton
      <3>2. QED
        BY <1>1, <3>1, FS_RemoveElement, FS_Union DEF IInv, Listed
    <2>4. QED
      BY <1>4, <2>2, <2>3 DEF Listed
  <1>10. Alone' /\ Settles'
    BY <1>1, <1>4, <1>6 DEF IInv, Alone, Settles, Settled
  <1>11. Searches'
    <2>1. /\ \A i \in DOMAIN groups \ {g} : /\ Members(i)' = Members(i)
                                            /\ Last(i) \in tasks' <=> Last(i) \in tasks
          /\ Members(g)' = Members(g) \ {t}
      BY <1>1, <1>2, <1>5 DEF Members, Last
    <2>2. ~groups[g].resolved => (Last(g) \in tasks' <=> groups'[g].remaining = 0)
      <3>1. ASSUME ~groups[g].resolved PROVE Last(g) \notin tasks
        BY <1>2, <1>3, <3>1 DEF IInv, Searches
      <3>2. QED
        BY <1>1, <1>3, <1>4, <1>5, <3>1
    <2>3. ASSUME NEW i \in DOMAIN groups, i # g
          PROVE  /\ Cardinality(Members(i)') <= groups'[i].remaining
                 /\ \A u, v \in Members(i)' : u.cands = v.cands => u = v
                 /\ ~groups'[i].resolved =>
                      /\ i = Len(groups)' /\ Writers' = {} /\ commits' = 0
                      /\ Cardinality(Members(i)') = groups'[i].remaining
                      /\ groups'[i].remaining = 0 <=> Last(i) \in tasks'
      BY <1>1, <1>4, <1>6, <2>1, <2>3 DEF IInv, Searches
    <2>4. /\ Cardinality(Members(g)') <= groups'[g].remaining
          /\ \A u, v \in Members(g)' : u.cands = v.cands => u = v
          /\ ~groups'[g].resolved =>
               /\ g = Len(groups)' /\ Writers' = {} /\ commits' = 0
               /\ Cardinality(Members(g)') = groups'[g].remaining
               /\ groups'[g].remaining = 0 <=> Last(g) \in tasks'
      <3>1. Cardinality(Members(g)') <= groups'[g].remaining
        BY <1>3, <1>4, <2>1
      <3>2. \A u, v \in Members(g)' : u.cands = v.cands => u = v
        BY <1>2, <2>1 DEF IInv, Searches
      <3>3. ASSUME ~groups'[g].resolved
            PROVE  /\ g = Len(groups)' /\ Writers' = {} /\ commits' = 0
                   /\ Cardinality(Members(g)) = groups[g].remaining
        BY <1>1, <1>2, <1>4, <1>6, <3>3 DEF IInv, Searches
      <3>4. QED
        BY <1>2, <1>3, <1>4, <2>1, <2>2, <3>1, <3>2, <3>3
    <2>5. QED
      BY <1>4, <2>3, <2>4 DEF Searches
  <1>12. QED
    BY <1>7, <1>8, <1>9, <1>10, <1>11 DEF IInv

\* One task for each volume.
LEMMA VolumeTasksShape ==
  ASSUME NEW sets \in SUBSET SUBSET Source, NEW copy \in BOOLEAN, NEW g \in Nat
  PROVE  /\ IsFiniteSet(sets) /\ Cardinality(sets) \in Nat
         /\ IsFiniteSet(VolumeTasks(sets, copy, g))
         /\ Cardinality(VolumeTasks(sets, copy, g)) = Cardinality(sets)
         /\ \A u \in VolumeTasks(sets, copy, g) :
              u \in Volumes /\ u.k = "volume" /\ u.group = g
         /\ \A u, v \in VolumeTasks(sets, copy, g) : u.cands = v.cands => u = v
  <1> DEFINE task(c) == [k |-> "volume", cands |-> c, copy |-> copy, group |-> g]
             f == [c \in sets |-> task(c)]
             vs == VolumeTasks(sets, copy, g)
  <1>1. IsFiniteSet(sets)
    BY TransferAssumption, FS_SUBSET, FS_Subset
  <1>2. Cardinality(sets) \in Nat
    BY <1>1, FS_CardinalityType
  <1>3. vs = {task(c) : c \in sets}
    BY DEF VolumeTasks
  <1>4. f \in Bijection(sets, vs)
    <2>1. f \in [sets -> vs] /\ \A u \in vs : \E c \in sets : f[c] = u
      BY <1>3
    <2>2. \A c, d \in sets : f[c] = f[d] => c = d
      <3>1. \A c \in sets : f[c].cands = c
        OBVIOUS
      <3>2. QED
        BY <3>1
    <2> HIDE DEF f, vs
    <2>3. QED
      BY <2>1, <2>2 DEF Bijection, Injection, Surjection, IsInjective
  <1>5. IsFiniteSet(vs) /\ Cardinality(vs) = Cardinality(sets)
    <2> HIDE DEF f, vs
    <2>1. ExistsBijection(sets, vs)
      BY <1>4 DEF ExistsBijection
    <2>2. QED
      BY <1>1, <2>1, FS_Bijection
  <1>6. \A u \in vs : u \in Volumes /\ u.k = "volume" /\ u.group = g
    BY <1>3 DEF Volumes
  <1>7. \A u, v \in vs : u.cands = v.cands => u = v
    BY <1>3
  <1>8. QED
    BY <1>1, <1>2, <1>5, <1>6, <1>7

\* With every group closed, and no task that writes but t, a new group takes over.
Opens(t, old, sets, copy, later, all, index) ==
  /\ t \in tasks /\ t.k \in Writing \cup {"last"} /\ Writers \subseteq {t}
  /\ commits = 0 /\ commits' = 0
  /\ old \in Seq(Groups) /\ Len(old) = Len(groups)
  /\ \A i \in DOMAIN groups : old[i].resolved /\ old[i].remaining = groups[i].remaining
  /\ groups' = Append(old, Group(Cardinality(sets), later, all))
  /\ tasks' = (tasks \ {t}) \cup (VolumeTasks(sets, copy, Len(groups) + 1) \cup index)
  /\ index \subseteq {Index}
  /\ UNCHANGED <<opt, src, part, tampered, report>>

LEMMA OpensHolds ==
  ASSUME IInv, TypeOK', NEW t, NEW old,
         NEW sets \in SUBSET SUBSET Source, sets # {}, NEW copy \in BOOLEAN,
         NEW later \in SUBSET SUBSET Source, NEW all \in SUBSET Source, NEW index,
         Opens(t, old, sets, copy, later, all, index)
  PROVE  IInv'
  <1>1. PICK n \in Nat : n = Len(groups) + 1 /\ n \in 1 .. n
    BY DEF IInv, Listed
  <1>2. groups \in Seq(Groups) /\ DOMAIN groups = 1 .. n - 1
    BY <1>1 DEF IInv, Listed
  <1>3. PICK vs : vs = VolumeTasks(sets, copy, n)
    OBVIOUS
  <1>4. /\ IsFiniteSet(sets) /\ Cardinality(sets) \in Nat
        /\ IsFiniteSet(vs) /\ Cardinality(vs) = Cardinality(sets)
        /\ \A u \in vs : u \in Volumes /\ u.k = "volume" /\ u.group = n
        /\ \A u, v \in vs : u.cands = v.cands => u = v
    BY <1>3, VolumeTasksShape
  <1>5. Cardinality(sets) # 0
    BY <1>4, FS_EmptySet
  <1>6. PICK new \in Groups : /\ new = Group(Cardinality(sets), later, all)
                              /\ new.remaining = Cardinality(sets) /\ new.resolved = FALSE
    <2> DEFINE new == Group(Cardinality(sets), later, all)
    <2>1. new \in Groups /\ new.remaining = Cardinality(sets) /\ new.resolved = FALSE
      BY <1>4 DEF Group, Groups
    <2> HIDE DEF new
    <2>2. QED
      BY <2>1 DEF new
  <1>7. /\ groups' = Append(old, new) /\ old \in Seq(Groups) /\ Len(old) = n - 1
        /\ tasks' = (tasks \ {t}) \cup (vs \cup index) /\ index \subseteq {Index}
    BY <1>1, <1>3, <1>6 DEF Opens
  <1>8. /\ groups' \in Seq(Groups) /\ DOMAIN groups' = 1 .. n /\ Len(groups') = n
        /\ groups'[n] = new /\ \A i \in 1 .. n - 1 : groups'[i] = old[i]
    BY <1>7
  <1>9. \A i \in 1 .. n - 1 : groups'[i].resolved /\ groups'[i].remaining = groups[i].remaining
    BY <1>2, <1>8 DEF Opens
  <1>10. \A u \in vs \cup index : u.k \in {"volume", "index"} /\ u.k \notin Writing
    BY <1>4, <1>7 DEF Index, Writing
  <1>11. Writers' = {}
    BY <1>7, <1>10 DEF Opens, Writers
  <1>12. ASSUME NEW u \in tasks' PROVE Fits(u)'
    <2>1. CASE u \in tasks
      <3>1. DOMAIN groups \subseteq DOMAIN groups'
        BY <1>2, <1>8
      <3>2. QED
        BY <2>1, <3>1, FitsStill DEF Opens, IInv, Listed
    <2>2. CASE u \in vs
      BY <1>1, <1>4, <1>8, <2>2 DEF Fits, Writing
    <2>3. CASE u \in index
      BY <1>7, <2>3 DEF Index, Fits, Writing
    <2>4. QED
      BY <1>7, <2>1, <2>2, <2>3
  <1>13. Listed'
    <2>1. IsFiniteSet(index)
      BY <1>7, FS_Singleton, FS_Subset
    <2>2. IsFiniteSet(vs \cup index)
      BY <1>4, <2>1, FS_Union
    <2>3. IsFiniteSet(tasks \ {t})
      BY FS_RemoveElement DEF IInv, Listed
    <2>4. IsFiniteSet(tasks')
      BY <1>7, <2>2, <2>3, FS_Union
    <2>5. QED
      BY <1>8, <1>12, <2>4 DEF Listed
  <1>14. /\ \A i \in 1 .. n - 1 : Members(i)' = Members(i)
         /\ Members(n)' = vs
    <2>1. t.k \notin {"volume", "found"}
      BY DEF Opens, Writing
    <2>2. \A u \in tasks : u.k \in {"volume", "found"} => u.group \in 1 .. n - 1
      BY <1>2, MemberFacts
    <2>3. QED
      BY <1>4, <1>7, <1>10, <2>1, <2>2 DEF Members, Index
  <1>15. Searches'
    <2>1. Last(n) \notin tasks'
      <3>1. Last(n) \notin tasks
        <4>1. ASSUME Last(n) \in tasks PROVE n \in DOMAIN groups
          BY <4>1, Writes DEF Fits, Last
        <4>2. QED
          BY <1>2, <4>1
      <3>2. QED
        BY <1>7, <1>10, <3>1 DEF Last
    <2>2. \A i \in 1 .. n - 1 : /\ Cardinality(Members(i)') <= groups'[i].remaining
                                /\ \A u, v \in Members(i)' : u.cands = v.cands => u = v
      BY <1>2, <1>9, <1>14 DEF IInv, Searches
    <2>3. /\ Cardinality(Members(n)') = groups'[n].remaining /\ groups'[n].remaining \in Nat
          /\ groups'[n].remaining # 0
          /\ \A u, v \in Members(n)' : u.cands = v.cands => u = v
      BY <1>4, <1>5, <1>6, <1>8, <1>14
    <2>4. \A i \in 1 .. n : i \in 1 .. n - 1 \/ i = n
      BY <1>1
    <2>5. QED
      BY <1>8, <1>9, <1>11, <2>1, <2>2, <2>3, <2>4 DEF Searches, Opens
  <1>16. Live' /\ Alone'
    BY <1>11 DEF Opens, IInv, Live, Alone
  <1>17. Settles'
    BY <1>6, <1>8, <1>11 DEF Settles, Settled, Opens
  <1>18. QED
    BY <1>13, <1>15, <1>16, <1>17 DEF IInv

LEMMA RepairFileHolds ==
  ASSUME IInv, NEW t \in tasks, RepairFile(t)
  PROVE  IInv'
  <1> DEFINE link == ByVolume(Linkable(t.cands, t.force))
             copy == ByVolume(Copyable(t.cands, t.force))
             index == IndexTask(opt.archive /\ ~opt.prefer)
             first == IF link = {} THEN copy ELSE link
             later == IF link = {} THEN {} ELSE copy
  <1>1. /\ t \in Repairs /\ t.k \in Writing /\ opt \in Option /\ commits = 0
        /\ UNCHANGED <<opt, dest, part, src, cached, tampered, report, commits>>
    <2>1. t.k = "repair" /\ UNCHANGED <<opt, disk, cached, commits, bounds>>
      BY DEF RepairFile
    <2>2. t \in Repairs /\ t.k \in Writing
      BY <2>1, Writes DEF Fits, Writing
    <2>3. opt \in Option /\ commits = 0
      BY <2>2, Writes
    <2>4. QED
      BY <2>1, <2>2, <2>3 DEF disk, bounds
  <1>2. link \in SUBSET SUBSET Source /\ copy \in SUBSET SUBSET Source
    BY <1>1 DEF Repairs, ByVolume, Linkable, Copyable
  <1>3. index \subseteq {Index}
    BY IndexTaskShape
  <1>4. Writers = {t} /\ \A i \in DOMAIN groups : groups[i].resolved
    BY <1>1 DEF IInv, Alone, Searches, Writers
  <1>5. session' \in {"idle", "pending", "ready", "failed"}
    BY DEF RepairFile, IndexStarted, IInv, TypeOK
  <1>6. CASE link \cup copy = {}
    <2> DEFINE next == IF Fallback = {} THEN {} ELSE Fallback \cup index
    <2>1. ContinueOrFail(t, next) /\ UNCHANGED groups
      BY <1>6 DEF RepairFile
    <2>2. TypeOK'
      BY <1>1, <1>5, <2>1 DEF IInv, TypeOK
    <2>3. PICK writes : /\ writes = Fallback
                        /\ writes = {} \/ \E u \in writes : writes = {u}
                        /\ \A u \in writes : u.k \in Writing /\ Fits(u)'
      BY <1>1, FallbackShape, Stateless
    <2>4. PICK started : /\ started = IF Fallback = {} THEN {} ELSE index
                         /\ started \subseteq {Index}
      BY <1>3
    <2>5. /\ tasks' = (tasks \ {t}) \cup (writes \cup started)
          /\ writes = {} => failed'
      BY <2>1, <2>3, <2>4 DEF ContinueOrFail, Continue
    <2>6. Moves(t, writes, started)
      BY <1>1, <2>1, <2>3, <2>4, <2>5 DEF Moves
    <2>7. QED
      BY <2>2, <2>6, MovesHolds
  <1>7. CASE link \cup copy # {}
    <2>1. /\ groups' = Append(groups, Group(Cardinality(first), later, UNION (link \cup copy)))
          /\ tasks' = (tasks \ {t})
                        \cup (VolumeTasks(first, link = {}, Len(groups) + 1) \cup index)
      BY <1>7 DEF RepairFile, Continue
    <2>2. /\ first \in SUBSET SUBSET Source /\ first # {} /\ later \in SUBSET SUBSET Source
          /\ UNION (link \cup copy) \in SUBSET Source /\ (link = {}) \in BOOLEAN
      BY <1>2, <1>7
    <2> HIDE DEF link, copy, index, first, later
    <2>3. groups \in Seq(Groups)
      BY DEF IInv, Listed
    <2>4. Opens(t, groups, first, link = {}, later, UNION (link \cup copy), index)
      BY <1>1, <1>3, <1>4, <2>1, <2>3 DEF Opens
    <2>5. TypeOK'
      <3>1. Cardinality(first) \in Nat
        BY <2>2, VolumeTasksShape
      <3>2. Group(Cardinality(first), later, UNION (link \cup copy)).remaining >= 0
        BY <3>1 DEF Group
      <3>3. \A i \in DOMAIN groups' : groups'[i].remaining >= 0
        BY <2>1, <2>3, <3>2 DEF IInv, TypeOK
      <3>4. QED
        BY <1>1, <1>5, <3>3 DEF IInv, TypeOK
    <2>6. QED
      BY <2>2, <2>4, <2>5, OpensHolds
  <1>8. QED
    BY <1>6, <1>7

\* The last volume without a source opens the copies, or goes on without reuse.
LEMMA VolumeLastHolds ==
  ASSUME IInv, NEW t \in tasks, VolumeLast(t)
  PROVE  IInv'
  <1>1. PICK i \in DOMAIN groups : i = t.group /\ t = Last(i)
    BY Writes DEF VolumeLast, Fits
  <1>2. /\ t.k = "last" /\ t.k \notin Writing
        /\ UNCHANGED <<opt, dest, part, src, session, cached, tampered, report, commits>>
    BY DEF VolumeLast, Writing, disk, bounds
  <1>3. groups \in Seq(Groups) /\ groups[i] \in Groups /\ opt \in Option
    BY GroupFacts, Writes DEF IInv, Listed
  <1>4. CASE groups[i].resolved
    <2>1. tasks' = tasks \ {t} /\ UNCHANGED <<groups, failed>>
      BY <1>1, <1>4 DEF VolumeLast, Continue
    <2>2. TypeOK'
      BY <1>2, <2>1 DEF IInv, TypeOK
    <2>3. /\ Writers' = Writers /\ \A j : Members(j)' = Members(j)
          /\ \A j : j # i => (Last(j) \in tasks' <=> Last(j) \in tasks)
      BY <1>1, <1>2, <2>1 DEF Writers, Members, Last
    <2>4. ASSUME NEW u \in tasks' PROVE Fits(u)'
      BY <1>2, <2>1, FitsStill DEF IInv, Listed
    <2>5. IsFiniteSet(tasks')
      BY <2>1, FS_RemoveElement DEF IInv, Listed
    <2>6. Live' /\ Listed'
      BY <1>2, <2>1, <2>4, <2>5 DEF IInv, Live, Listed
    <2>7. Alone' /\ Searches' /\ Settles'
      BY <1>2, <1>4, <2>1, <2>3 DEF IInv, Alone, Searches, Settles, Settled
    <2>8. QED
      BY <2>2, <2>6, <2>7 DEF IInv
  <1>5. CASE ~groups[i].resolved
    <2>1. /\ Writers = {} /\ commits = 0 /\ i = Len(groups)
          /\ groups[i].remaining = 0 /\ Cardinality(Members(i)) = 0
          /\ \A j \in DOMAIN groups \ {i} : groups[j].resolved
      BY <1>1, <1>5 DEF IInv, Searches
    <2>2. PICK old : old = [groups EXCEPT ![i].resolved = TRUE, ![i].later = {}]
      OBVIOUS
    <2>3. /\ old \in Seq(Groups) /\ Len(old) = Len(groups) /\ DOMAIN old = DOMAIN groups
          /\ \A j \in DOMAIN groups : old[j].resolved /\ old[j].remaining = groups[j].remaining
      <3> DEFINE r == [groups[i] EXCEPT !.resolved = TRUE, !.later = {}]
      <3>1. r \in Groups /\ r.resolved = TRUE /\ r.remaining = groups[i].remaining
        BY <1>3 DEF Groups
      <3>2. old = [groups EXCEPT ![i] = r]
        BY <1>3, <2>2 DEF Groups
      <3> HIDE DEF r
      <3>3. QED
        BY <1>3, <2>1, <3>1, <3>2
    <2>4. CASE groups[i].later # {}
      <3> DEFINE sets == groups[i].later
                 all == groups[i].all
      <3>1. /\ groups' = Append(old, Group(Cardinality(sets), {}, all))
            /\ tasks' = (tasks \ {t}) \cup VolumeTasks(sets, TRUE, Len(groups) + 1)
        BY <1>1, <1>5, <2>2, <2>4 DEF VolumeLast, Continue
      <3>2. sets \in SUBSET SUBSET Source /\ sets # {} /\ all \in SUBSET Source
        BY <1>3, <2>4 DEF Groups
      <3> HIDE DEF sets, all
      <3>3. Opens(t, old, sets, TRUE, {}, all, {})
        BY <1>2, <2>1, <2>3, <3>1 DEF Opens
      <3>4. TypeOK'
        <4>1. Cardinality(sets) \in Nat
          BY <3>2, VolumeTasksShape
        <4>2. Group(Cardinality(sets), {}, all).remaining >= 0
          BY <4>1 DEF Group
        <4>3. \A j \in DOMAIN groups' : groups'[j].remaining >= 0
          BY <2>3, <3>1, <4>2 DEF IInv, TypeOK
        <4>4. QED
          BY <1>2, <4>3 DEF VolumeLast, IInv, TypeOK
      <3>5. QED
        BY <3>2, <3>3, <3>4, OpensHolds
    <2>5. CASE groups[i].later = {}
      <3>1. groups' = old /\ ContinueOrFail(t, Fallback)
        BY <1>1, <1>5, <2>2, <2>5 DEF VolumeLast
      <3>2. PICK next : /\ next = Fallback
                        /\ next = {} \/ \E u \in next : next = {u}
                        /\ \A u \in next : u.k \in Writing /\ Fits(u)'
        BY <1>3, FallbackShape, Stateless
      <3>3. tasks' = (tasks \ {t}) \cup next /\ (next = {} => failed')
        BY <3>1, <3>2 DEF ContinueOrFail, Continue
      <3>4. Writers' = next
        BY <1>2, <2>1, <3>2, <3>3 DEF Writers
      <3>5. TypeOK'
        BY <1>2, <2>3, <3>1 DEF IInv, TypeOK
      <3>6. Listed'
        <4>1. ASSUME NEW u \in tasks' PROVE Fits(u)'
          BY <1>2, <2>3, <3>1, <3>2, <3>3, FitsStill DEF IInv, Listed
        <4>2. IsFiniteSet(next)
          <5>1. CASE next = {}
            BY <5>1, FS_EmptySet
          <5>2. CASE \E u \in next : next = {u}
            BY <5>2, FS_Singleton
          <5>3. QED
            BY <3>2, <5>1, <5>2
        <4>3. IsFiniteSet(tasks')
          BY <3>3, <4>2, FS_RemoveElement, FS_Union DEF IInv, Listed
        <4>4. QED
          BY <2>3, <3>1, <4>1, <4>3 DEF Listed
      <3>7. \A j \in DOMAIN groups : Members(j)' = Members(j)
        BY <1>2, <3>2, <3>3 DEF Members, Writing
      <3>8. Searches'
        BY <2>3, <3>1, <3>7 DEF IInv, Searches
      <3>9. Live' /\ Alone'
        BY <1>2, <3>2, <3>4 DEF IInv, Live, Alone
      <3>10. Settles'
        BY <1>2, <2>1, <3>3, <3>4 DEF Settles, Settled
      <3>11. QED
        BY <3>5, <3>6, <3>8, <3>9, <3>10 DEF IInv
    <2>6. QED
      BY <2>4, <2>5
  <1>6. QED
    BY <1>4, <1>5

-----------------------------------------------------------------------------
(* Runs. *)

\* Every run starts with one task, and it writes.
LEMMA RootShape ==
  ASSUME opt \in Option
  PROVE  \E u : /\ u = Root /\ u.k \in Writing /\ u.k \notin {"volume", "found"}
                /\ u \in Repairs \/ (u \in Verifies /\ u.how = opt.check)
  <1>1. Repair(Source, opt.copyOnly) \in Repairs
    BY DEF Option, Repair, Repairs
  <1>2. CASE opt.prefer \/ opt.check = "none"
    BY <1>1, <1>2 DEF Root, Repairs, Writing
  <1>3. CASE ~(opt.prefer \/ opt.check = "none")
    <2> DEFINE u == [k |-> "verify", how |-> opt.check, onFail |-> {Repair(Source, opt.copyOnly)}]
    <2>1. opt.check \in {"hash", "metadata"}
      BY <1>3 DEF Option
    <2>2. u \in Verifies /\ u.how = opt.check /\ u.k = "verify"
      BY <1>1, <2>1 DEF Verifies
    <2>3. Root = u
      BY <1>3 DEF Root
    <2> HIDE DEF u
    <2>4. QED
      BY <2>2, <2>3 DEF Writing
  <1>4. QED
    BY <1>2, <1>3

LEMMA RootFits ==
  ASSUME NEW u, u \in Repairs \/ (u \in Verifies /\ u.how = opt.check)
  PROVE  Fits(u)
  BY DEF Fits, Repairs, Verifies, Writing

LEMMA InitHolds == Init => IInv
  <1> SUFFICES ASSUME Init PROVE IInv
    OBVIOUS
  <1>1. opt \in Option
    BY TransferAssumption DEF Init
  <1>2. PICK u : /\ u = Root /\ u.k \in Writing /\ u.k \notin {"volume", "found"}
                 /\ u \in Repairs \/ (u \in Verifies /\ u.how = opt.check)
    BY <1>1, RootShape
  <1>3. TypeOK
    <2>1. groups = <<>> /\ \A i \in DOMAIN groups : groups[i].remaining >= 0
      BY DEF Init
    <2>2. /\ opt \in Options /\ dest \in Content /\ src \in [Source -> Content]
          /\ part \in [len : 0 .. Size + 1, ok : BOOLEAN]
      BY TransferAssumption DEF Init, Content
    <2>3. QED
      BY <2>1, <2>2 DEF Init, TypeOK
  <1>4. tasks = {u} /\ groups = <<>> /\ DOMAIN groups = {} /\ commits = 0 /\ report = "none"
    BY <1>2 DEF Init
  <1>5. Listed
    <2>1. IsFiniteSet(tasks)
      BY <1>4, FS_Singleton
    <2>2. Fits(u)
      BY <1>2, RootFits
    <2>3. QED
      BY <1>4, <2>1, <2>2 DEF Listed
  <1>6. Writers = {u}
    BY <1>2, <1>4 DEF Writers
  <1>7. QED
    BY <1>3, <1>4, <1>5, <1>6 DEF IInv, Live, Alone, Searches, Settles, Settled

\* A new run keeps what is on disk and nothing else.
LEMMA BeginHolds ==
  ASSUME IInv, Begin, UNCHANGED <<opt, disk, tampered>>
  PROVE  IInv'
  <1>1. opt \in Option /\ opt' = opt
    BY TransferAssumption DEF IInv, TypeOK
  <1>2. PICK u : /\ u = Root /\ u.k \in Writing /\ u.k \notin {"volume", "found"}
                 /\ u \in Repairs \/ (u \in Verifies /\ u.how = opt.check)
    BY <1>1, RootShape
  <1>3. TypeOK'
    <2>1. groups' = <<>> /\ \A i \in DOMAIN groups' : groups'[i].remaining >= 0
      BY DEF Begin
    <2>2. QED
      BY <2>1 DEF Begin, IInv, TypeOK, disk
  <1>4. tasks' = {u} /\ groups' = <<>> /\ DOMAIN groups' = {} /\ commits' = 0 /\ report' = "none"
    BY <1>2 DEF Begin
  <1>5. Fits(u)'
    BY <1>1, <1>2 DEF Fits, Repairs, Verifies, Writing
  <1>6. Listed'
    <2>1. IsFiniteSet(tasks')
      BY <1>4, FS_Singleton
    <2>2. QED
      BY <1>4, <1>5, <2>1 DEF Listed
  <1>7. Writers' = {u}
    BY <1>2, <1>4 DEF Writers
  <1>8. QED
    BY <1>3, <1>4, <1>6, <1>7 DEF IInv, Live, Alone, Searches, Settles, Settled

LEMMA FinishHolds ==
  ASSUME IInv, Finish
  PROVE  IInv'
  <1>1. /\ tasks' = {} /\ tasks = {} /\ report' \in {"failed", "ok"}
        /\ UNCHANGED <<opt, dest, part, src, groups, session, cached, commits, failed, tampered>>
    BY DEF Finish, disk, shared
  <1>2. TypeOK'
    BY <1>1 DEF IInv, TypeOK
  <1>3. Live' /\ Listed'
    BY <1>1 DEF IInv, Live, Listed
  <1>4. Alone' /\ Searches' /\ Settles'
    BY <1>1 DEF IInv, Alone, Searches, Settles, Settled, Writers, Members
  <1>5. QED
    BY <1>2, <1>3, <1>4 DEF IInv

LEMMA SourceChangesHolds ==
  ASSUME IInv, NEW s \in Source, SourceChanges(s)
  PROVE  IInv'
  <1>1. /\ src' = [src EXCEPT ![s] = "wrong"] /\ tampered' = TRUE
        /\ UNCHANGED <<opt, dest, part, tasks, groups, session, cached, commits, failed, report>>
    BY DEF SourceChanges, shared
  <1>2. TypeOK'
    BY <1>1 DEF IInv, TypeOK, Content
  <1>3. \A t \in tasks : Fits(t)'
    BY <1>1 DEF IInv, Listed, Fits, Unspoiled
  <1>4. Live' /\ Listed'
    BY <1>1, <1>3 DEF IInv, Live, Listed
  <1>5. Alone' /\ Searches' /\ Settles'
    BY <1>1 DEF IInv, Alone, Searches, Settles, Settled, Writers, Members
  <1>6. QED
    BY <1>2, <1>4, <1>5 DEF IInv

LEMMA NextHolds == IInv /\ [Next]_vars => IInv'
  <1> SUFFICES ASSUME IInv, [Next]_vars PROVE IInv'
    OBVIOUS
  <1>1. ASSUME NEW t \in tasks, Step(t) PROVE IInv'
    <2>1. CASE Verify(t) \/ RepairFile(t) \/ HardLink(t) \/ HardLinkVerify(t) \/ CopyFile(t)
      BY <2>1, VerifyHolds, RepairFileHolds, HardLinkHolds, HardLinkVerifyHolds, CopyFileHolds
    <2>2. CASE VolumeResolved(t) \/ VolumeFind(t) \/ VolumeWins(t) \/ VolumeEmpty(t) \/ VolumeLast(t)
      BY <2>2, VolumeResolvedHolds, VolumeFindHolds, VolumeWinsHolds, VolumeEmptyHolds,
         VolumeLastHolds
    <2>3. CASE \/ Prepare(t) \/ SelectArchive(t) \/ RespondRange(t) \/ RespondFull(t) \/ Receive(t)
               \/ WriteChunk(t) \/ BodyEnd(t)
      BY <2>3, PrepareHolds, SelectArchiveHolds, RespondHolds, ReceiveHolds, WriteChunkHolds,
         BodyEndHolds
    <2>4. CASE IndexDone(t) \/ FetchRepair(t) \/ ExtractRepair(t)
      BY <2>4, IndexDoneHolds, FetchRepairHolds, ExtractRepairHolds
    <2>5. QED
      BY <1>1, <2>1, <2>2, <2>3, <2>4 DEF Step
  <1>2. ASSUME NEW t \in tasks, Failure(t) PROVE IInv'
    BY <1>2, HardLinkErrorHolds, PrepareErrorHolds, RespondErrorHolds, BodyAbortsHolds DEF Failure
  <1>3. CASE Rerun \/ Crash
    BY <1>3, BeginHolds DEF Rerun, Crash
  <1>4. CASE UNCHANGED vars
    <2>1. UNCHANGED <<opt, dest, part, src, tasks, groups, session, cached, commits, failed, report,
                      tampered>>
      BY <1>4 DEF vars, disk, shared, bounds
    <2>2. TypeOK'
      BY <2>1 DEF IInv, TypeOK
    <2>3. Live' /\ Listed'
      BY <2>1, FitsStill DEF IInv, Live, Listed
    <2>4. Alone' /\ Searches' /\ Settles'
      BY <2>1 DEF IInv, Alone, Searches, Settles, Settled, Writers, Members
    <2>5. QED
      BY <2>2, <2>3, <2>4 DEF IInv
  <1>5. QED
    BY <1>1, <1>2, <1>3, <1>4, FinishHolds, SourceChangesHolds DEF Next, Run, Stop

-----------------------------------------------------------------------------
(* Theorems. *)

\* The invariant above holds whatever the network, the disk, the sources and the user do.
THEOREM TransferInvariant == Spec => []IInv
  BY InitHolds, NextHolds, PTL DEF Spec

\* The counters of ReuseCandidateGroup never wrap, and the partial file is never longer than one
\* unit past the expected size.
THEOREM TransferTypes == Spec => []TypeOK
  <1>1. IInv => TypeOK
    BY DEF IInv
  <1>2. QED
    BY <1>1, TransferInvariant, PTL

\* finish_volume: however many volumes report at the same time, one task at most goes on to write
\* the file, and a run reports one commit.
THEOREM WriterIsAlone == Spec => []OneWriter
  <1>1. ASSUME IInv PROVE OneWriter
    <2>1. Cardinality(Writers) <= 1
      <3>1. CASE Writers = {}
        BY <3>1, FS_EmptySet
      <3>2. CASE \E t \in Writers : Writers = {t}
        BY <3>2, FS_Singleton
      <3>3. QED
        BY <1>1, <3>1, <3>2 DEF IInv, Alone
    <2>2. commits <= 1 /\ (commits = 1 => \A t \in tasks : t.k \notin Writing)
      BY <1>1 DEF IInv, Settles, Writers
    <2>3. QED
      BY <2>1, <2>2 DEF OneWriter, Writers
  <1>2. QED
    BY <1>1, TransferInvariant, PTL

\* do_prepared_download, write_http_body: the hash a download is accepted by is that of the bytes in
\* the partial file and in the queue to it.
THEOREM HashIsExact == Spec => []HashIsOfFile
  <1>1. IInv => HashIsOfFile
    BY DEF IInv, Listed, Fits, HashIsOfFile
  <1>2. QED
    BY <1>1, TransferInvariant, PTL

\* A batch without tasks has its result.
LEMMA EndsSettled ==
  ASSUME IInv, tasks = {}
  PROVE  failed \/ dest \in Accepted(opt.check)
  <1>1. ASSUME NEW i \in DOMAIN groups PROVE groups[i].resolved
    <2>1. Members(i) = {} /\ Last(i) \notin tasks
      BY DEF Members
    <2>2. Cardinality(Members(i)) = 0
      BY <2>1, FS_EmptySet
    <2>3. QED
      BY <2>1, <2>2 DEF IInv, Searches
  <1>2. QED
    BY <1>1 DEF IInv, Settles, Settled, Writers

\* A step that replaces the file replaces it as EnsureFile allows.
LEMMA ReplacesAllowed ==
  ASSUME IInv, IInv', report = "none", dest' = "good" \/ tampered,
         UNCHANGED <<opt, tampered, report>>
  PROVE  Ensure!Replace
  BY DEF Ensure!Replace, IInv, TypeOK

LEMMA StepAllowed ==
  ASSUME IInv, IInv', NEW t \in tasks, Step(t) \/ Failure(t)
  PROVE  Ensure!Replace \/ UNCHANGED Ensure!vars
  <1>1. report = "none" /\ Fits(t)
    BY Writes
  <1>2. UNCHANGED <<opt, tampered, report>>
    BY DEF Step, Failure, Verify, RepairFile, VolumeResolved, VolumeFind, VolumeWins, VolumeEmpty,
       VolumeLast, HardLink, HardLinkVerify, CopyFile, Prepare, SelectArchive, RespondRange,
       RespondFull, Receive, WriteChunk, BodyEnd, IndexDone, FetchRepair, ExtractRepair,
       HardLinkError, PrepareError, RespondError, BodyAborts, disk, shared, bounds
  <1>3. CASE UNCHANGED dest
    BY <1>2, <1>3 DEF Ensure!vars
  <1>4. CASE dest' = "good" \/ tampered
    BY <1>1, <1>2, <1>4, ReplacesAllowed
  <1>5. UNCHANGED dest \/ dest' = "good" \/ tampered
    <2>1. CASE HardLink(t)
      BY <1>1, <2>1 DEF HardLink, Fits, Unspoiled
    <2>2. CASE CopyFile(t)
      BY <2>2 DEF CopyFile
    <2>3. CASE Prepare(t)
      BY <2>3 DEF Prepare, PrepareCommits, PrepareClears, PrepareResumes
    <2>4. CASE BodyEnd(t)
      <3>1. t.ok = TRUE /\ part.len = t.got => part.ok
        BY <1>1, <2>4, BodyFacts DEF BodyEnd
      <3>2. QED
        BY <2>4, <3>1 DEF BodyEnd
    <2>5. CASE ExtractRepair(t)
      BY <2>5 DEF ExtractRepair
    <2>6. CASE Failure(t)
      BY <2>6 DEF Failure, HardLinkError, PrepareError, RespondError, BodyAborts, disk
    <2>7. CASE /\ Step(t)
               /\ ~(HardLink(t) \/ CopyFile(t) \/ Prepare(t) \/ BodyEnd(t) \/ ExtractRepair(t))
      BY <2>7 DEF Step, Verify, RepairFile, VolumeResolved, VolumeFind, VolumeWins, VolumeEmpty,
         VolumeLast, HardLinkVerify, SelectArchive, RespondRange, RespondFull, Receive, WriteChunk,
         IndexDone, FetchRepair, disk
    <2>8. QED
      BY <2>1, <2>2, <2>3, <2>4, <2>5, <2>6, <2>7
  <1>6. QED
    BY <1>3, <1>4, <1>5

\* The tasks implement EnsureFile: until the run reports, the file changes to its expected content
\* only, unless a source was changed under the run, and a success is a file the check accepts.
THEOREM TasksImplementEnsureFile == Spec => ImplementsEnsureFile
  <1>1. Init => Ensure!Init
    BY TransferAssumption DEF Init, Ensure!Init, Accepted, Content
  <1>2. ASSUME IInv, IInv', [Next]_vars
        PROVE  [Ensure!Next]_Ensure!vars
    <2>1. ASSUME NEW t \in tasks, Step(t) \/ Failure(t)
          PROVE  [Ensure!Next]_Ensure!vars
      BY <1>2, <2>1, StepAllowed DEF Ensure!Next
    <2>2. CASE Finish
      <3>1. CASE failed
        BY <2>2, <3>1 DEF Finish, disk, Ensure!Next, Ensure!Fail
      <3>2. CASE ~failed
        <4>1. dest \in Accepted(opt.check)
          BY <1>2, <2>2, <3>2, EndsSettled DEF Finish
        <4>2. QED
          BY <2>2, <3>2, <4>1 DEF Finish, disk, Ensure!Next, Ensure!Succeed
      <3>3. QED
        BY <3>1, <3>2
    <2>3. CASE Rerun
      BY <2>3 DEF Rerun, Begin, disk, Ensure!Next, Ensure!Restart
    <2>4. CASE Crash
      BY <2>4 DEF Crash, Begin, disk, Ensure!vars
    <2>5. CASE \E s \in Source : SourceChanges(s)
      BY <2>5 DEF SourceChanges, Ensure!Next, Ensure!Tamper
    <2>6. CASE UNCHANGED vars
      BY <2>6 DEF vars, disk, bounds, Ensure!vars
    <2>7. QED
      BY <1>2, <2>1, <2>2, <2>3, <2>4, <2>5, <2>6 DEF Next, Run, Stop
  <1>3. QED
    BY <1>1, <1>2, TransferInvariant, PTL DEF Spec, ImplementsEnsureFile, Ensure!Spec
=============================================================================
