--------------------------- MODULE ArchiveRunProofs ---------------------------
(***************************************************************************)
(* Proofs about ArchiveRun for every layout of volumes and entries, every  *)
(* shard target and limit, and any number of retries, faults and crashes.  *)
(***************************************************************************)
EXTENDS ArchiveRun, FiniteSetTheorems, SequenceTheorems, WellFoundedInduction, TLAPS

SourceRange == [lo : Nat, hi : Nat]

\* Ranges that lie in one volume and are not empty: what is cached and what is fetched.
InVolume(r) == VolumeStart(r.vol) <= r.lo /\ r.lo < r.hi /\ r.hi <= VolumeEnd[r.vol]
Piece == {r \in [vol : Volume, lo : Unit, hi : 1 .. Total] : InVolume(r)}

\* A range is cached once.
CacheWellFormed ==
  /\ cache \subseteq RangeFile /\ IsFiniteSet(cache)
  /\ \A r \in cache : InVolume(r)
  /\ \A a, b \in cache : a.vol = b.vol /\ a.lo = b.lo /\ a.hi = b.hi => a = b

Counted == {s \in Shard : pc[s] \in {"recheck", "extracting", "pruning", "failing",
                                     "leaveOk", "leaveErr", "leaveLoud"}}

Types ==
  /\ remote \in BOOLEAN /\ keep \in BOOLEAN /\ failed \in BOOLEAN /\ reported \in BOOLEAN
  /\ prepared \in BOOLEAN /\ staging \in BOOLEAN
  /\ TypeOK
  /\ CacheWellFormed
  /\ phase \in {"open", "discover", "index", "controls", "extract", "cleanup", "done",
                "failing", "failed"}
  /\ \A f \in fetches : f.range \in Piece
  /\ todo \in [Shard -> Seq(Entry)]
  /\ snap \in [Shard -> SUBSET SourceRange] /\ snapV \in [Volume -> SUBSET SourceRange]
  /\ slots \subseteq Shard
  /\ active = Cardinality(Counted)

\* Which phase the plan belongs to.
Early == {"open", "failed", "discover", "index", "controls"}
Phases ==
  /\ phase \in Early => plan = <<>>
  /\ phase \in {"controls", "extract", "cleanup", "done"} => SourcesValid
  /\ plan \in {<<>>, Planned} /\ (plan # <<>> => SourcesValid)
  /\ phase \in {"extract", "cleanup", "done"} => plan = Planned
  /\ phase # "extract" => \A s \in Shard : pc[s] = "ok"

\* A shard that may still read holds its slot, and every note that a prune will use names what
\* the shards with a slot need.
Slots ==
  phase = "extract" =>
    /\ IF remote /\ ~keep
       THEN \A s \in Shard : pc[s] \in {"blocked", "adding", "recheck", "extracting"} => s \in slots
       ELSE slots = {} /\ \A s \in Shard : pc[s] # "pruning"
    /\ \A s \in Shard : pc[s] = "pruning" =>
         \A t \in slots : Sources(ToSet(plan[t].entries)) \subseteq snap[s]

\* A volume is touched when its readers are done, and every note that a volume's prune will use
\* names the volumes that are not saved.
SavedVolumes ==
  /\ phase \in Early => \A v \in Volume : retain[v] = "wait"
  /\ \A v \in Volume : retain[v] # "wait" => \A s \in Readers(v) : pc[s] = "ok"
  /\ \A v \in saved : retain[v] \in {"marked", "ok"}
  /\ \A v \in Volume : retain[v] = "marked" => \A w \in Volume \ saved : WholeVolume(w) \in snapV[v]

\* The staging directory goes only after a failure.
Staged ==
  /\ \A s \in Shard : pc[s] = "peeked" => failed
  /\ phase = "extract" /\ ~failed => prepared /\ staging

\* What a shard is done with is extracted.
Extracted ==
  /\ \A s \in Shard : pc[s] \in {"pruning", "leaveOk", "lastOk", "ok"} => todo[s] = <<>>
  /\ \A s \in Shard : /\ ToSet(todo[s]) \subseteq ToSet(plan[s].entries)
                      /\ plan[s].direct => \A e \in ToSet(plan[s].entries) :
                           e \in ToSet(todo[s]) \/ installed[e] = "new"

IInv == /\ Types /\ Phases /\ Slots /\ SavedVolumes /\ Staged /\ Extracted
        /\ ReadersKeepRanges /\ ControlsLast

-----------------------------------------------------------------------------
(* Numbers, orders and folds. *)

\* The first of some indices is one of them.
LEMMA MinIsIn ==
  ASSUME NEW S \in SUBSET Nat, S # {}
  PROVE  Min(S) \in S /\ \A m \in S : Min(S) <= m
  <1> DEFINE R == OpToRel(<, Nat)
  <1>1. PICK n \in S : \A m \in S : ~ (<<m, n>> \in R)
    <2>1. IsWellFoundedOn(R, Nat)
      BY NatLessThanWellFounded
    <2> HIDE DEF R
    <2>2. QED
      BY <2>1, WFMin
  <1>2. ASSUME NEW m \in S
        PROVE  n <= m
    <2>1. n \in Nat /\ m \in Nat
      OBVIOUS
    <2>2. m < n => <<m, n>> \in R
      BY <2>1 DEF OpToRel
    <2>3. ~ (<<m, n>> \in R)
      BY <1>1
    <2> HIDE DEF R
    <2>4. QED
      BY <2>1, <2>2, <2>3
  <1>3. QED
    BY <1>2 DEF Min

\* What holds of 0, and of n + 1 if of n, holds of every number.
LEMMA Numbers ==
  ASSUME NEW P \in SUBSET Nat, 0 \in P, \A n \in P : n + 1 \in P
  PROVE  P = Nat
  <1>1. SUFFICES ASSUME Nat \ P # {} PROVE FALSE
    OBVIOUS
  <1>2. PICK n \in Nat \ P : \A m \in Nat \ P : n <= m
    BY <1>1, MinIsIn
  <1>3. n # 0 /\ n - 1 \in Nat /\ ~ (n <= n - 1) /\ (n - 1) + 1 = n
    BY <1>2
  <1>4. n - 1 \in P
    BY <1>2, <1>3
  <1>5. QED
    BY <1>2, <1>3, <1>4

\* The last of some indices is one of them.
LEMMA MaxIsIn ==
  ASSUME NEW n \in Nat, NEW S \in SUBSET (1 .. n), S # {}
  PROVE  Max(S) \in S /\ \A m \in S : m <= Max(S)
  <1> DEFINE T == {n - m : m \in S}
  <1>1. T \in SUBSET Nat /\ T # {}
    <2>1. \A m \in S : n - m \in Nat
      OBVIOUS
    <2>2. QED
      BY <2>1
  <1>2. PICK m \in S : n - m = Min(T)
    <2> HIDE DEF T
    <2>1. Min(T) \in T
      BY <1>1, MinIsIn
    <2>2. QED
      BY <2>1 DEF T
  <1>3. ASSUME NEW k \in S
        PROVE  m >= k
    <2>1. n - k \in T
      OBVIOUS
    <2> HIDE DEF T
    <2>2. n - m <= n - k
      BY <1>1, <1>2, <2>1, MinIsIn
    <2>3. m \in Nat /\ k \in Nat
      OBVIOUS
    <2>4. QED
      BY <2>2, <2>3
  <1>4. QED
    BY <1>3 DEF Max

LEMMA MaxOfInterval ==
  ASSUME NEW m \in Nat
  PROVE  Max(1 .. m + 1) = m + 1 /\ (1 .. m + 1) \ {Max(1 .. m + 1)} = 1 .. m
  <1>1. Max(1 .. m + 1) = m + 1
    <2>1. /\ m + 1 \in 1 .. m + 1
          /\ \A x \in 1 .. m + 1 : (\A y \in 1 .. m + 1 : x >= y) <=> x = m + 1
      OBVIOUS
    <2>2. QED
      BY <2>1 DEF Max
  <1>2. QED
    BY <1>1

\* The elements before an element, counted, put a finite set in its order.
LEMMA Places ==
  ASSUME NEW S, IsFiniteSet(S), NEW R \in SUBSET (S \X S),
         \A x \in S : <<x, x>> \notin R,
         \A x, y, z \in S : <<x, y>> \in R /\ <<y, z>> \in R => <<x, z>> \in R,
         \A x, y \in S : x = y \/ <<x, y>> \in R \/ <<y, x>> \in R
  PROVE  LET n == Cardinality(S)
             place == [x \in S |-> Cardinality({y \in S : <<y, x>> \in R}) + 1]
             f == [i \in 1 .. n |-> CHOOSE x \in S : place[x] = i]
         IN  /\ n \in Nat /\ f \in [1 .. n -> S]
             /\ \A x \in S : \E i \in 1 .. n : f[i] = x
             /\ \A i, j \in 1 .. n : i < j => <<f[i], f[j]>> \in R
  <1> DEFINE n == Cardinality(S)
             before(x) == {y \in S : <<y, x>> \in R}
             place == [x \in S |-> Cardinality(before(x)) + 1]
             f == [i \in 1 .. n |-> CHOOSE x \in S : place[x] = i]
  <1>1. /\ n \in Nat
        /\ \A x \in S : IsFiniteSet(before(x)) /\ Cardinality(before(x)) \in Nat
    <2>1. \A x \in S : before(x) \in SUBSET S
      OBVIOUS
    <2>2. QED
      BY <2>1, FS_Subset, FS_CardinalityType
  <1>2. ASSUME NEW x \in S
        PROVE  place[x] \in 1 .. n
    <2>1. before(x) \in SUBSET (S \ {x})
      OBVIOUS
    <2>2. IsFiniteSet(S \ {x}) /\ Cardinality(S \ {x}) = n - 1
      BY FS_RemoveElement
    <2>3. Cardinality(before(x)) <= n - 1
      <3> HIDE DEF before, n
      <3>1. QED
        BY <2>1, <2>2, FS_Subset
    <2>4. place[x] = Cardinality(before(x)) + 1 /\ Cardinality(before(x)) \in Nat
      BY <1>1
    <2> HIDE DEF before, n, place
    <2>5. QED
      BY <1>1, <2>3, <2>4
  <1>3. ASSUME NEW x \in S, NEW y \in S, <<x, y>> \in R
        PROVE  place[x] < place[y]
    <2>1. before(x) \cup {x} \in SUBSET before(y) /\ x \notin before(x)
      BY <1>3
    <2>2. Cardinality(before(x) \cup {x}) = Cardinality(before(x)) + 1
      <3> HIDE DEF before
      <3>1. QED
        BY <1>1, <2>1, FS_AddElement
    <2>3. Cardinality(before(x) \cup {x}) <= Cardinality(before(y))
      <3> HIDE DEF before
      <3>1. QED
        BY <1>1, <2>1, FS_Subset
    <2>4. /\ place[x] = Cardinality(before(x)) + 1 /\ place[y] = Cardinality(before(y)) + 1
          /\ Cardinality(before(x)) \in Nat /\ Cardinality(before(y)) \in Nat
      BY <1>1
    <2> HIDE DEF before, place
    <2>5. QED
      BY <2>2, <2>3, <2>4
  <1>4. place \in [S -> 1 .. n]
    <2> HIDE DEF n, before
    <2>1. QED
      BY <1>2
  <1> HIDE DEF place, n, before
  <1>5. ASSUME NEW x \in S, NEW y \in S, place[x] = place[y]
        PROVE  x = y
    <2>1. place[x] \in Int /\ ~ (place[x] < place[y]) /\ ~ (place[y] < place[x])
      BY <1>1, <1>2, <1>5
    <2>2. QED
      BY <1>3, <2>1
  <1>6. \A i \in 1 .. n : \E x \in S : place[x] = i
    <2>1. place \in Injection(S, 1 .. n)
      BY <1>4, <1>5 DEF Injection, IsInjective
    <2>2. IsFiniteSet(1 .. n) /\ Cardinality(1 .. n) = n
      BY <1>1, FS_Interval
    <2>3. place \in Surjection(S, 1 .. n)
      BY <2>1, <2>2, FS_Injection DEF n
    <2>4. QED
      BY <2>3 DEF Surjection
  <1>7. \A i \in 1 .. n : f[i] \in S /\ place[f[i]] = i
    BY <1>6
  <1> HIDE DEF f
  <1>8. f \in [1 .. n -> S]
    BY <1>7 DEF f
  <1>9. ASSUME NEW x \in S
        PROVE  \E i \in 1 .. n : f[i] = x
    BY <1>2, <1>5, <1>7
  <1>10. ASSUME NEW i \in 1 .. n, NEW j \in 1 .. n, i < j
         PROVE  <<f[i], f[j]>> \in R
    <2>1. f[i] \in S /\ f[j] \in S /\ place[f[i]] = i /\ place[f[j]] = j
      BY <1>7
    <2>2. f[i] # f[j] /\ ~ (j < i)
      BY <1>10, <2>1
    <2>3. <<f[j], f[i]>> \in R => j < i
      BY <1>3, <2>1
    <2>4. QED
      BY <2>1, <2>2, <2>3
  <1>11. QED
    BY <1>1, <1>8, <1>9, <1>10 DEF f, place, before, n

\* f is a fold over 1 .. n that takes the largest index last; it is one wherever it stays in T; every
\* step keeps P, where P[m] is what is to hold after m steps.
IsFold(n, base, St, f) ==
  \A s \in SUBSET (1 .. n) : f[s] = IF s = {} THEN base ELSE St[<<f[s \ {Max(s)}], Max(s)>>]
IsFoldIn(n, T, base, St, f) ==
  /\ f[{}] = base
  /\ \A s \in SUBSET (1 .. n) : s # {} /\ f[s \ {Max(s)}] \in T =>
       f[s] = St[<<f[s \ {Max(s)}], Max(s)>>]
Keeps(n, T, St, P) ==
  \A m \in 0 .. n - 1 : \A a \in T : a \in P[m] => St[<<a, m + 1>>] \in P[m + 1]

\* The recursion of a fold has a solution.
LEMMA FoldExists ==
  ASSUME NEW n \in Nat, NEW T, NEW base \in T, NEW St \in [T \X (1 .. n) -> T]
  PROVE  \E f \in [SUBSET (1 .. n) -> T] : IsFold(n, base, St, f)
  <1> DEFINE D == SUBSET (1 .. n)
             Is(f, s) == f[s] = IF s = {} THEN base ELSE St[<<f[s \ {Max(s)}], Max(s)>>]
             Q == {k \in Nat : \E f \in [D -> T] : \A s \in D : Cardinality(s) <= k => Is(f, s)}
  <1>1. ASSUME NEW s \in D
        PROVE  /\ IsFiniteSet(s) /\ Cardinality(s) \in Nat /\ Cardinality(s) <= n
               /\ s # {} => /\ Max(s) \in s /\ Max(s) \in 1 .. n /\ s \ {Max(s)} \in D
                            /\ Cardinality(s \ {Max(s)}) = Cardinality(s) - 1
               /\ Cardinality(s) = 0 <=> s = {}
    <2>1. IsFiniteSet(1 .. n) /\ Cardinality(1 .. n) = n
      BY FS_Interval
    <2>2. IsFiniteSet(s) /\ Cardinality(s) <= Cardinality(1 .. n)
      BY <2>1, FS_Subset
    <2>3. Cardinality(s) \in Nat /\ Cardinality(s) <= n
      BY <2>1, <2>2, FS_CardinalityType
    <2>4. s # {} => Max(s) \in s
      BY MaxIsIn
    <2>5. QED
      BY <2>2, <2>3, <2>4, FS_RemoveElement, FS_EmptySet
  <1>2. 0 \in Q
    <2> DEFINE f == [s \in D |-> base]
    <2>1. f \in [D -> T]
      OBVIOUS
    <2>2. ASSUME NEW s \in D, Cardinality(s) <= 0
          PROVE  Is(f, s)
      <3>1. Cardinality(s) \in Nat /\ (Cardinality(s) = 0 <=> s = {})
        BY <1>1
      <3>2. s = {}
        BY <2>2, <3>1
      <3>3. QED
        BY <3>2
    <2> HIDE DEF f, Is
    <2>3. QED
      BY <2>1, <2>2
  <1>3. ASSUME NEW k \in Q
        PROVE  k + 1 \in Q
    <2>1. PICK f \in [D -> T] : \A s \in D : Cardinality(s) <= k => Is(f, s)
      OBVIOUS
    <2> DEFINE g == [s \in D |-> IF s = {} THEN base ELSE St[<<f[s \ {Max(s)}], Max(s)>>]]
    <2>2. g \in [D -> T]
      <3>1. ASSUME NEW s \in D, s # {}
            PROVE  St[<<f[s \ {Max(s)}], Max(s)>>] \in T
        <4>1. Max(s) \in 1 .. n /\ s \ {Max(s)} \in D
          BY <1>1, <3>1
        <4> HIDE DEF D
        <4>2. QED
          BY <4>1
      <3> HIDE DEF D
      <3>2. QED
        BY <3>1
    <2>3. ASSUME NEW s \in D, Cardinality(s) <= k + 1
          PROVE  Is(g, s)
      <3>1. CASE s = {}
        BY <3>1
      <3>2. CASE s # {}
        <4> DEFINE t == s \ {Max(s)}
        <4>1. t \in D /\ Cardinality(t) <= k
          <5>1. Cardinality(s) \in Nat /\ Cardinality(t) = Cardinality(s) - 1 /\ t \in D
            BY <1>1, <3>2
          <5>2. k \in Nat
            OBVIOUS
          <5> HIDE DEF t
          <5>3. QED
            BY <2>3, <5>1, <5>2
        <4>2. f[t] = g[t]
          <5> HIDE DEF t
          <5>1. QED
            BY <2>1, <4>1
        <4>3. g[s] = St[<<f[t], Max(s)>>]
          BY <3>2
        <4>4. QED
          BY <3>2, <4>2, <4>3
      <3>3. QED
        BY <3>1, <3>2
    <2> HIDE DEF g, Is
    <2>4. QED
      BY <2>2, <2>3
  <1>4. Q = Nat
    <2>1. Q \in SUBSET Nat /\ \A k \in Q : k + 1 \in Q
      BY <1>3
    <2> HIDE DEF Q
    <2>2. QED
      BY <1>2, <2>1, Numbers
  <1>5. PICK f \in [D -> T] : \A s \in D : Cardinality(s) <= n => Is(f, s)
    BY <1>4
  <1>6. ASSUME NEW s \in D
        PROVE  Cardinality(s) <= n
    BY <1>1
  <1>7. QED
    BY <1>5, <1>6 DEF IsFold

\* What holds of a fold's start and is kept by each of its steps holds of its result.
LEMMA FoldHolds ==
  ASSUME NEW n \in Nat, NEW T, NEW base \in T, NEW St \in [T \X (1 .. n) -> T], NEW it, IsFoldIn(n, T, base, St, it),
         NEW P, base \in P[0], Keeps(n, T, St, P)
  PROVE  it[1 .. n] \in T /\ it[1 .. n] \in P[n]
  <1> DEFINE Q == {m \in Nat : m <= n => it[1 .. m] \in T /\ it[1 .. m] \in P[m]}
  <1>1. 0 \in Q
    <2>1. 1 .. 0 = {}
      OBVIOUS
    <2>2. QED
      BY <2>1 DEF IsFoldIn
  <1>2. ASSUME NEW m \in Q
        PROVE  m + 1 \in Q
    <2>1. SUFFICES ASSUME m + 1 <= n
                   PROVE  it[1 .. m + 1] \in T /\ it[1 .. m + 1] \in P[m + 1]
      OBVIOUS
    <2>2. m \in 0 .. n - 1 /\ m <= n /\ m + 1 \in 1 .. n
      BY <2>1
    <2>3. it[1 .. m] \in T /\ it[1 .. m] \in P[m]
      BY <2>2
    <2>4. 1 .. m + 1 \in SUBSET (1 .. n) /\ 1 .. m + 1 # {}
      <3>1. m + 1 \in 1 .. m + 1 /\ \A i \in 1 .. m + 1 : i \in 1 .. n
        BY <2>2
      <3>2. QED
        BY <3>1
    <2>5. Max(1 .. m + 1) = m + 1 /\ (1 .. m + 1) \ {Max(1 .. m + 1)} = 1 .. m
      BY <2>2, MaxOfInterval
    <2>6. it[1 .. m + 1] = St[<<it[1 .. m], m + 1>>]
      BY <2>3, <2>4, <2>5 DEF IsFoldIn
    <2>7. QED
      BY <2>2, <2>3, <2>6 DEF Keeps
  <1>3. Q = Nat
    <2>1. Q \in SUBSET Nat /\ \A m \in Q : m + 1 \in Q
      BY <1>2
    <2> HIDE DEF Q
    <2>2. QED
      BY <1>1, <2>1, Numbers
  <1>4. QED
    BY <1>3

-----------------------------------------------------------------------------
(* The layout. *)

\* What layout.ranges holds.
LayoutRange == [vol : Volume, lo : Nat, hi : Nat, good : BOOLEAN, full : BOOLEAN]
Cover == [cursor : Int, end : Int, found : {"open", "gap", "covered"}]

LEMMA CoverStepIn ==
  ASSUME NEW a \in Cover, NEW r \in LayoutRange
  PROVE  CoverStep(a, r) \in Cover
  <1>1. r.lo \in Nat /\ r.hi \in Nat
    BY DEF LayoutRange
  <1>2. QED
    BY <1>1 DEF CoverStep, Cover

\* The pass of range_covered, one range after the other.
LEMMA CoverFold ==
  ASSUME NEW seq \in Seq(LayoutRange), NEW base \in Cover, NEW P, base \in P[0],
         \A m \in 0 .. Len(seq) - 1 : \A a \in Cover :
           a \in P[m] => CoverStep(a, seq[m + 1]) \in P[m + 1]
  PROVE  FoldLeft(CoverStep, base, seq) \in Cover /\ FoldLeft(CoverStep, base, seq) \in P[Len(seq)]
  <1> DEFINE n == Len(seq)
             D == DOMAIN seq
             Eq(f) == f = [s \in SUBSET D |->
                             IF s = {} THEN base ELSE CoverStep(f[s \ {Max(s)}], seq[Max(s)])]
             iter == CHOOSE f : Eq(f)
             St == [p \in Cover \X (1 .. n) |-> CoverStep(p[1], seq[p[2]])]
  <1>1. FoldLeft(CoverStep, base, seq) = iter[D]
    BY DEF FoldLeft, MapThenFoldSet
  <1>2. n \in Nat /\ D = 1 .. n /\ \A i \in D : seq[i] \in LayoutRange
    OBVIOUS
  <1>3. \A m \in 0 .. n - 1 : \A a \in Cover : a \in P[m] => CoverStep(a, seq[m + 1]) \in P[m + 1]
    OBVIOUS
  <1> HIDE DEF n, D
  <1>4. ASSUME NEW a \in Cover, NEW i \in 1 .. n
        PROVE  CoverStep(a, seq[i]) \in Cover
    BY <1>2, CoverStepIn
  <1>5. St \in [Cover \X (1 .. n) -> Cover]
    BY <1>4
  <1>6. PICK f \in [SUBSET D -> Cover] :
          \A s \in SUBSET D : f[s] = IF s = {} THEN base ELSE St[<<f[s \ {Max(s)}], Max(s)>>]
    <2> HIDE DEF St, iter, Eq
    <2>1. \E f \in [SUBSET (1 .. n) -> Cover] : IsFold(n, base, St, f)
      BY <1>2, <1>5, FoldExists, Zenon
    <2>2. QED
      BY <1>2, <2>1 DEF IsFold
  <1>7. Eq(f)
    <2>1. ASSUME NEW s \in SUBSET D, s # {}
          PROVE  f[s] = CoverStep(f[s \ {Max(s)}], seq[Max(s)])
      <3>1. Max(s) \in 1 .. n /\ s \ {Max(s)} \in SUBSET D
        BY <1>2, <2>1, MaxIsIn
      <3>2. QED
        BY <1>6, <2>1, <3>1
    <2>2. \A s \in SUBSET D : f[s] = IF s = {} THEN base
                                     ELSE CoverStep(f[s \ {Max(s)}], seq[Max(s)])
      BY <1>6, <2>1
    <2>3. f = [s \in SUBSET D |-> f[s]]
      OBVIOUS
    <2>4. QED
      BY <2>2, <2>3
  <1>8. Eq(iter)
    BY <1>7
  <1> HIDE DEF iter
  <1>9. \A s \in SUBSET D :
          iter[s] = IF s = {} THEN base ELSE CoverStep(iter[s \ {Max(s)}], seq[Max(s)])
    BY <1>8
  <1>10. ASSUME NEW s \in SUBSET D, s # {}, iter[s \ {Max(s)}] \in Cover
         PROVE  iter[s] = St[<<iter[s \ {Max(s)}], Max(s)>>]
    BY <1>2, <1>9, <1>10, MaxIsIn
  <1>11. \A m \in 0 .. n - 1 : \A a \in Cover : a \in P[m] => St[<<a, m + 1>>] \in P[m + 1]
    BY <1>2, <1>3
  <1>12. iter[1 .. n] \in Cover /\ iter[1 .. n] \in P[n]
    <2> HIDE DEF St, Eq
    <2>1. IsFoldIn(n, Cover, base, St, iter)
      BY <1>2, <1>9, <1>10 DEF IsFoldIn
    <2>2. Keeps(n, Cover, St, P)
      BY <1>11 DEF Keeps
    <2>3. QED
      BY <1>2, <1>5, <2>1, <2>2, FoldHolds, Zenon
  <1>13. QED
    BY <1>1, <1>2, <1>12 DEF n

LEMMA Layout ==
  /\ Len(VolumeEnd) \in Nat \ {0} /\ Volume = 1 .. Len(VolumeEnd)
  /\ \A v \in Volume : VolumeEnd[v] \in Nat \ {0} /\ VolumeStart(v) \in Nat
                       /\ VolumeStart(v) < VolumeEnd[v]
  /\ Len(VolumeEnd) \in Volume /\ Total \in Nat \ {0}
  <1>1. /\ Len(VolumeEnd) \in Nat \ {0} /\ Volume = 1 .. Len(VolumeEnd)
        /\ \A v \in Volume : VolumeEnd[v] \in Nat \ {0}
    BY ArchiveAssumption DEF Volume
  <1>2. Len(VolumeEnd) \in Volume
    BY <1>1
  <1>3. ASSUME NEW v \in Volume
        PROVE  VolumeStart(v) \in Nat /\ VolumeStart(v) < VolumeEnd[v]
    <2>1. CASE v = 1
      BY <1>1, <2>1 DEF VolumeStart
    <2>2. CASE v # 1
      <3>1. v > 1 /\ v - 1 \in Volume
        BY <1>1, <2>2
      <3>2. VolumeEnd[v - 1] < VolumeEnd[v]
        BY <3>1, ArchiveAssumption
      <3>3. QED
        BY <1>1, <2>2, <3>1, <3>2 DEF VolumeStart
    <2>3. QED
      BY <2>1, <2>2
  <1>4. QED
    BY <1>1, <1>2, <1>3 DEF Total

\* The volumes follow one another.
LEMMA VolumesFollow ==
  ASSUME NEW v \in Volume, NEW w \in Volume, v < w
  PROVE  VolumeEnd[v] <= VolumeStart(w)
  <1> DEFINE Q == {d \in Nat : \A x \in Volume : x + d + 1 \in Volume =>
                                  VolumeEnd[x] <= VolumeStart(x + d + 1)}
  <1>1. 0 \in Q
    <2>1. ASSUME NEW x \in Volume, x + 0 + 1 \in Volume
          PROVE  VolumeEnd[x] <= VolumeStart(x + 0 + 1)
      <3>1. x + 0 + 1 = x + 1 /\ x + 1 # 1 /\ (x + 1) - 1 = x /\ VolumeEnd[x] \in Nat
        BY Layout
      <3>2. QED
        BY <3>1 DEF VolumeStart
    <2>2. QED
      BY <2>1
  <1>2. ASSUME NEW d \in Q
        PROVE  d + 1 \in Q
    <2>1. ASSUME NEW x \in Volume, x + (d + 1) + 1 \in Volume
          PROVE  VolumeEnd[x] <= VolumeStart(x + (d + 1) + 1)
      <3> DEFINE y == x + d + 1
      <3>1. d \in Nat /\ y \in Volume /\ x + (d + 1) + 1 = y + 1 /\ y + 1 # 1 /\ (y + 1) - 1 = y
        BY <2>1, Layout
      <3>2. VolumeEnd[x] <= VolumeStart(y)
        BY <3>1
      <3>3. VolumeStart(y) < VolumeEnd[y] /\ VolumeStart(y + 1) = VolumeEnd[y]
        BY <3>1, Layout DEF VolumeStart
      <3>4. VolumeEnd[x] \in Nat /\ VolumeStart(y) \in Nat /\ VolumeEnd[y] \in Nat
        BY <3>1, Layout
      <3> HIDE DEF y
      <3>5. QED
        BY <3>1, <3>2, <3>3, <3>4
    <2>2. QED
      BY <2>1
  <1>3. Q = Nat
    <2>1. Q \in SUBSET Nat /\ \A d \in Q : d + 1 \in Q
      BY <1>2
    <2> HIDE DEF Q
    <2>2. QED
      BY <1>1, <2>1, Numbers
  <1>4. (w - v) - 1 \in Nat /\ v + ((w - v) - 1) + 1 = w
    BY Layout
  <1>5. QED
    BY <1>3, <1>4

\* A unit is in one volume.
LEMMA VolumeOfUnit ==
  ASSUME NEW u \in Unit
  PROVE  /\ VolumeOf[u] \in Volume
         /\ VolumeStart(VolumeOf[u]) <= u /\ u < VolumeEnd[VolumeOf[u]]
         /\ \A v \in Volume : VolumeStart(v) <= u /\ u < VolumeEnd[v] => v = VolumeOf[u]
  <1> DEFINE S == {v \in Volume : u < VolumeEnd[v]}
  <1>1. u \in Nat /\ u < Total
    BY Layout DEF Unit
  <1>2. S \in SUBSET Nat /\ S # {}
    <2>1. Len(VolumeEnd) \in S /\ S \subseteq Nat
      BY <1>1, Layout DEF Total
    <2>2. QED
      BY <2>1
  <1>3. PICK v \in S : \A w \in S : v <= w
    <2> HIDE DEF S
    <2>1. QED
      BY <1>2, MinIsIn
  <1>4. VolumeStart(v) <= u
    <2>1. CASE v = 1
      BY <1>1, <2>1 DEF VolumeStart
    <2>2. CASE v # 1
      <3>1. v - 1 \in Volume /\ ~ (v <= v - 1) /\ VolumeStart(v) = VolumeEnd[v - 1]
        BY <2>2, Layout DEF VolumeStart
      <3>2. v - 1 \notin S
        BY <1>3, <3>1
      <3>3. ~ (u < VolumeEnd[v - 1]) /\ VolumeEnd[v - 1] \in Nat
        BY <3>1, <3>2, Layout
      <3>4. QED
        BY <1>1, <3>1, <3>3
    <2>3. QED
      BY <2>1, <2>2
  <1>5. VolumeOf[u] \in Volume /\ VolumeStart(VolumeOf[u]) <= u /\ u < VolumeEnd[VolumeOf[u]]
    <2>1. \E x \in Volume : VolumeStart(x) <= u /\ u < VolumeEnd[x]
      BY <1>4
    <2>2. VolumeOf[u] = CHOOSE x \in Volume : VolumeStart(x) <= u /\ u < VolumeEnd[x]
      BY DEF VolumeOf
    <2>3. QED
      BY <2>1, <2>2
  <1>6. ASSUME NEW x \in Volume, NEW y \in Volume, x < y,
               VolumeStart(y) <= u, u < VolumeEnd[x]
        PROVE  FALSE
    <2>1. VolumeEnd[x] <= VolumeStart(y) /\ VolumeEnd[x] \in Nat /\ VolumeStart(y) \in Nat
      BY <1>6, VolumesFollow, Layout
    <2>2. QED
      BY <1>1, <1>6, <2>1
  <1>7. ASSUME NEW x \in Volume, VolumeStart(x) <= u, u < VolumeEnd[x]
        PROVE  x = VolumeOf[u]
    <2>1. x < VolumeOf[u] \/ VolumeOf[u] < x \/ x = VolumeOf[u]
      BY <1>5, Layout
    <2>2. QED
      BY <1>5, <1>6, <1>7, <2>1
  <1>8. QED
    BY <1>5, <1>7

LEMMA EndsAtTotal ==
  ASSUME NEW v \in Volume
  PROVE  VolumeEnd[v] <= Total /\ VolumeEnd[v] \in 1 .. Total
  <1> DEFINE last == Len(VolumeEnd)
  <1>1. v \in Nat /\ last \in Volume /\ last \in Nat /\ v <= last /\ VolumeEnd[v] \in Nat \ {0}
        /\ VolumeEnd[last] \in Nat /\ VolumeStart(last) \in Nat /\ VolumeStart(last) < VolumeEnd[last]
        /\ Total = VolumeEnd[last] /\ Total \in Nat
    BY Layout DEF Total
  <1> HIDE DEF last
  <1>2. CASE v = last
    BY <1>1, <1>2
  <1>3. CASE v # last
    <2>1. VolumeEnd[v] <= VolumeStart(last)
      BY <1>1, <1>3, VolumesFollow
    <2>2. QED
      BY <1>1, <2>1
  <1>4. QED
    BY <1>2, <1>3

\* What layout.ranges may hold of a volume: its files, each once, and the volume's own file.
Holding(v) == /\ v \in Volume /\ CacheWellFormed
              /\ vol \in [Volume -> {"absent", "wrong", "full"}]

LEMMA RangesOfVolume ==
  ASSUME NEW v, Holding(v)
  PROVE  /\ IsFiniteSet(Ranges(v)) /\ Ranges(v) \subseteq LayoutRange
         /\ \A r \in Ranges(v) : r.vol = v /\ InVolume(r)
         /\ \A a, b \in Ranges(v) : a.lo = b.lo /\ a.hi = b.hi /\ a.full = b.full => a = b
  <1> DEFINE C == {r \in cache : r.vol = v}
             F == [vol |-> v, lo |-> VolumeStart(v), hi |-> VolumeEnd[v],
                   good |-> vol[v] = "full", full |-> TRUE]
  <1>1. Ranges(v) = C \cup {F : w \in registered \cap {v}}
    BY DEF Ranges
  <1>2. Ranges(v) \subseteq C \cup {F} /\ C \subseteq Ranges(v)
    <2> HIDE DEF C, F
    <2>1. QED
      BY <1>1
  <1>3. v \in Volume /\ VolumeStart(v) \in Nat /\ VolumeEnd[v] \in Nat /\ VolumeStart(v) < VolumeEnd[v]
        /\ VolumeEnd[v] <= VolumeEnd[v]
    BY Layout DEF Holding
  <1>4. C \subseteq LayoutRange /\ \A r \in C : r.full = FALSE /\ r.vol = v /\ InVolume(r)
    <2>1. RangeFile \subseteq LayoutRange /\ \A r \in RangeFile : r.full = FALSE
      <3>1. Unit \subseteq Nat /\ 1 .. Total \subseteq Nat
        BY Layout DEF Unit
      <3>2. QED
        BY <3>1 DEF RangeFile, LayoutRange
    <2>2. C \subseteq cache
      OBVIOUS
    <2>3. QED
      BY <2>1, <2>2 DEF Holding, CacheWellFormed
  <1>5. /\ F \in LayoutRange /\ F.full = TRUE /\ F.vol = v
        /\ F.lo = VolumeStart(v) /\ F.hi = VolumeEnd[v]
    BY <1>3 DEF LayoutRange
  <1>6. InVolume(F)
    <2> HIDE DEF F
    <2>1. QED
      BY <1>3, <1>5 DEF InVolume
  <1>7. IsFiniteSet(Ranges(v))
    <2>1. IsFiniteSet(C)
      BY FS_Subset DEF Holding, CacheWellFormed
    <2> HIDE DEF C, F
    <2>2. IsFiniteSet(C \cup {F})
      BY <2>1, FS_AddElement
    <2>3. QED
      BY <1>2, <2>2, FS_Subset
  <1>8. ASSUME NEW a \in C \cup {F}, NEW b \in C \cup {F}, a.lo = b.lo, a.hi = b.hi, a.full = b.full
        PROVE  a = b
    <2>1. CASE a \in C /\ b \in C
      BY <1>4, <1>8, <2>1 DEF Holding, CacheWellFormed
    <2>2. CASE a = F /\ b = F
      BY <2>2
    <2> HIDE DEF F
    <2>3. CASE (a = F /\ b \in C) \/ (a \in C /\ b = F)
      BY <1>4, <1>5, <1>8, <2>3
    <2> HIDE DEF C
    <2>4. QED
      BY <2>1, <2>2, <2>3
  <1> HIDE DEF C, F
  <1>9. QED
    BY <1>2, <1>4, <1>5, <1>6, <1>7, <1>8

\* The cached ranges of a volume, in their order.
LEMMA CachedInOrder ==
  ASSUME NEW v, Holding(v)
  PROVE  /\ Cached(v) \in Seq(LayoutRange) /\ Len(Cached(v)) \in Nat
         /\ \A i \in 1 .. Len(Cached(v)) : Cached(v)[i] \in Ranges(v)
         /\ \A r \in Ranges(v) : \E i \in 1 .. Len(Cached(v)) : Cached(v)[i] = r
         /\ \A i, j \in 1 .. Len(Cached(v)) : i < j => Before(Cached(v)[i], Cached(v)[j])
  <1> DEFINE S == Ranges(v)
             R == {p \in S \X S : Before(p[1], p[2])}
             n == Cardinality(S)
             place == [x \in S |-> Cardinality({y \in S : <<y, x>> \in R}) + 1]
             f == [i \in 1 .. n |-> CHOOSE x \in S : place[x] = i]
  <1>1. /\ IsFiniteSet(S) /\ S \subseteq LayoutRange
        /\ \A a, b \in S : a.lo = b.lo /\ a.hi = b.hi /\ a.full = b.full => a = b
    BY RangesOfVolume
  <1>2. \A r \in S : r.lo \in Nat /\ r.hi \in Nat /\ r.full \in BOOLEAN
    BY <1>1 DEF LayoutRange
  <1>3. \A x, y \in S : <<x, y>> \in R <=> Before(x, y)
    OBVIOUS
  <1>4. Cached(v) = f
    <2>1. ASSUME NEW x \in S
          PROVE  {y \in S : Before(y, x)} = {y \in S : <<y, x>> \in R}
      BY <1>3
    <2> DEFINE place2 == [x \in S |-> Cardinality({y \in S : Before(y, x)}) + 1]
    <2>2. Cached(v) = [i \in 1 .. Cardinality(S) |-> CHOOSE x \in S : place2[x] = i]
      BY DEF Cached, InOrder
    <2>3. place2 = place
      <3> HIDE DEF S, R
      <3>1. QED
        BY <2>1
    <2> HIDE DEF place, place2
    <2>4. QED
      BY <2>2, <2>3
  <1> HIDE DEF S
  <1>5. \A x \in S : <<x, x>> \notin R
    BY <1>2, <1>3 DEF Before
  <1>6. \A x, y, z \in S : <<x, y>> \in R /\ <<y, z>> \in R => <<x, z>> \in R
    BY <1>2, <1>3 DEF Before
  <1>7. \A x, y \in S : x = y \/ <<x, y>> \in R \/ <<y, x>> \in R
    <2>1. ASSUME NEW x \in S, NEW y \in S, x # y
          PROVE  Before(x, y) \/ Before(y, x)
      <3>1. CASE x.lo # y.lo \/ x.hi # y.hi
        BY <1>2, <3>1 DEF Before
      <3>2. CASE x.lo = y.lo /\ x.hi = y.hi
        <4>1. x.full # y.full
          BY <1>1, <2>1, <3>2
        <4>2. x.full \in BOOLEAN /\ y.full \in BOOLEAN
          BY <1>2
        <4>3. (~x.full /\ y.full) \/ (~y.full /\ x.full)
          BY <4>1, <4>2
        <4>4. QED
          BY <3>2, <4>3, Zenon DEF Before
      <3>3. QED
        BY <3>1, <3>2
    <2>2. QED
      BY <1>3, <2>1
  <1>8. R \in SUBSET (S \X S)
    OBVIOUS
  <1>9. /\ n \in Nat /\ f \in [1 .. n -> S]
        /\ \A x \in S : \E i \in 1 .. n : f[i] = x
        /\ \A i, j \in 1 .. n : i < j => <<f[i], f[j]>> \in R
    <2> HIDE DEF R
    <2>1. QED
      BY <1>1, <1>5, <1>6, <1>7, <1>8, Places, Zenon
  <1> HIDE DEF f, n, R
  <1>10. f \in Seq(LayoutRange) /\ Len(f) = n
    BY <1>1, <1>9
  <1>11. \A i, j \in 1 .. n : i < j => Before(f[i], f[j])
    BY <1>3, <1>9
  <1>12. QED
    BY <1>4, <1>9, <1>10, <1>11 DEF S

LEMMA UnitsCached ==
  ASSUME NEW v, Holding(v), NEW u \in Int
  PROVE  u \in CachedUnits(v) <=> \E r \in Ranges(v) : r.lo <= u /\ u < r.hi
  <1>1. \A r \in Ranges(v) : r.lo \in Nat /\ r.hi \in Nat /\ Units(r) = r.lo .. r.hi - 1
    BY RangesOfVolume DEF LayoutRange, Units
  <1>2. \A r \in Ranges(v) : u \in Units(r) <=> r.lo <= u /\ u < r.hi
    BY <1>1
  <1>3. QED
    BY <1>2 DEF CachedUnits

\* range_covered after m of the ranges: the cursor has passed only bytes that are cached, and what it
\* stands at is in none of the ranges that are behind it.
Covering(seq, lo, hi, m, a) ==
  /\ a.end = hi /\ lo <= a.cursor
  /\ \A u \in lo .. a.cursor - 1 : \E i \in 1 .. m : seq[i].lo <= u /\ u < seq[i].hi
  /\ a.found = "covered" => hi <= a.cursor
  /\ a.found = "open" => a.cursor < hi /\ \A i \in 1 .. m : seq[i].hi <= a.cursor
  /\ a.found = "gap" => /\ a.cursor < hi
                        /\ \E k \in 1 .. m : /\ a.cursor < seq[k].lo
                                             /\ \A i \in 1 .. k - 1 : seq[i].hi <= a.cursor

LEMMA CoveringStep ==
  ASSUME NEW seq \in Seq(LayoutRange), NEW lo \in Nat, NEW hi \in Nat,
         NEW m \in 0 .. Len(seq) - 1, NEW a \in Cover, Covering(seq, lo, hi, m, a)
  PROVE  Covering(seq, lo, hi, m + 1, CoverStep(a, seq[m + 1]))
  <1> DEFINE r == seq[m + 1]
             b == CoverStep(a, r)
  <1>1. m \in Nat /\ m + 1 \in 1 .. Len(seq) /\ r \in LayoutRange /\ r.lo \in Nat /\ r.hi \in Nat
    <2>1. Len(seq) \in Nat /\ \A i \in 1 .. Len(seq) : seq[i] \in LayoutRange
      OBVIOUS
    <2>2. m \in Nat /\ m + 1 \in 1 .. Len(seq)
      BY <2>1
    <2>3. QED
      BY <2>1, <2>2 DEF LayoutRange
  <1>2. \A i \in 1 .. m + 1 : i \in 1 .. m \/ i = m + 1
    BY <1>1
  <1>3. \A i \in 1 .. m : i \in 1 .. m + 1 /\ seq[i].hi \in Nat /\ seq[i].lo \in Nat
    <2>1. \A i \in 1 .. m : i \in 1 .. Len(seq) /\ i \in 1 .. m + 1
      BY <1>1
    <2>2. \A i \in 1 .. m : seq[i] \in LayoutRange
      BY <2>1
    <2>3. QED
      BY <2>1, <2>2 DEF LayoutRange
  <1>4. a.cursor \in Int /\ a.end = hi /\ lo <= a.cursor /\ a.found \in {"open", "gap", "covered"}
    BY DEF Cover, Covering
  <1>5. CASE a.found # "open" \/ r.hi <= a.cursor
    <2>1. b = a
      BY <1>5 DEF CoverStep
    <2>2. \A u \in lo .. a.cursor - 1 : \E i \in 1 .. m + 1 : seq[i].lo <= u /\ u < seq[i].hi
      BY <1>3 DEF Covering
    <2>3. a.found = "open" => a.cursor < hi /\ \A i \in 1 .. m + 1 : seq[i].hi <= a.cursor
      BY <1>2, <1>5 DEF Covering
    <2>4. a.found = "gap" => /\ a.cursor < hi
                             /\ \E k \in 1 .. m + 1 : /\ a.cursor < seq[k].lo
                                                      /\ \A i \in 1 .. k - 1 : seq[i].hi <= a.cursor
      BY <1>3 DEF Covering
    <2>5. a.found = "covered" => hi <= a.cursor
      BY DEF Covering
    <2> HIDE DEF r, b
    <2>6. Covering(seq, lo, hi, m + 1, b)
      BY <1>4, <2>1, <2>2, <2>3, <2>4, <2>5 DEF Covering
    <2>7. QED
      BY <2>6 DEF b, r
  <1>6. CASE a.found = "open" /\ ~ (r.hi <= a.cursor) /\ r.lo > a.cursor
    <2>1. b = [cursor |-> a.cursor, end |-> a.end, found |-> "gap"]
      BY <1>6 DEF CoverStep
    <2>2. \A u \in lo .. a.cursor - 1 : \E i \in 1 .. m + 1 : seq[i].lo <= u /\ u < seq[i].hi
      BY <1>3 DEF Covering
    <2>3. a.cursor < hi /\ \A i \in 1 .. m : seq[i].hi <= a.cursor
      BY <1>6 DEF Covering
    <2>4. \E k \in 1 .. m + 1 : a.cursor < seq[k].lo /\ \A i \in 1 .. k - 1 : seq[i].hi <= a.cursor
      <3>1. m + 1 \in 1 .. m + 1 /\ (m + 1) - 1 = m /\ a.cursor < seq[m + 1].lo
        BY <1>1, <1>4, <1>6
      <3>2. QED
        BY <2>3, <3>1
    <2> HIDE DEF r, b
    <2>5. b.cursor = a.cursor /\ b.end = a.end /\ b.found = "gap"
      BY <2>1
    <2>6. Covering(seq, lo, hi, m + 1, b)
      BY <1>4, <2>2, <2>3, <2>4, <2>5 DEF Covering
    <2>7. QED
      BY <2>6 DEF b, r
  <1>7. CASE a.found = "open" /\ ~ (r.hi <= a.cursor) /\ ~ (r.lo > a.cursor)
    <2>1. b = [cursor |-> r.hi, end |-> a.end,
               found |-> IF r.hi >= a.end THEN "covered" ELSE "open"]
      BY <1>7 DEF CoverStep
    <2>2. ASSUME NEW u \in lo .. r.hi - 1
          PROVE  \E i \in 1 .. m + 1 : seq[i].lo <= u /\ u < seq[i].hi
      <3>1. CASE u < a.cursor
        <4>1. u \in lo .. a.cursor - 1
          BY <1>1, <1>4, <3>1
        <4>2. QED
          BY <1>3, <4>1 DEF Covering
      <3>2. CASE ~ (u < a.cursor)
        <4>1. m + 1 \in 1 .. m + 1 /\ seq[m + 1].lo <= u /\ u < seq[m + 1].hi
          BY <1>1, <1>4, <1>7, <3>2
        <4>2. QED
          BY <4>1
      <3>3. QED
        BY <3>1, <3>2
    <2>3. a.cursor < hi /\ \A i \in 1 .. m : seq[i].hi <= a.cursor
      BY <1>7 DEF Covering
    <2>4. \A i \in 1 .. m + 1 : seq[i].hi <= r.hi
      BY <1>1, <1>2, <1>3, <1>4, <1>7, <2>3
    <2>5. lo <= r.hi
      BY <1>1, <1>4, <1>7
    <2> HIDE DEF r, b
    <2>6. /\ b.cursor = r.hi /\ b.end = hi
          /\ b.found = "covered" => hi <= r.hi
          /\ b.found = "open" => r.hi < hi
          /\ b.found # "gap"
      BY <1>1, <1>4, <2>1
    <2>7. Covering(seq, lo, hi, m + 1, b)
      BY <2>2, <2>4, <2>5, <2>6 DEF Covering
    <2>8. QED
      BY <2>7 DEF b, r
  <1>8. QED
    BY <1>5, <1>6, <1>7

\* range_covered is exact.
LEMMA CoveredIs ==
  ASSUME NEW v, Holding(v), NEW lo \in Nat, NEW hi \in Nat
  PROVE  RangeCovered(v, lo, hi) <=> \A u \in lo .. hi - 1 : u \in CachedUnits(v)
  <1> DEFINE seq == Cached(v)
             n == Len(seq)
             base == [cursor |-> lo, end |-> hi, found |-> "open"]
             P == [m \in 0 .. n |-> {a \in Cover : Covering(seq, lo, hi, m, a)}]
             a == FoldLeft(CoverStep, base, seq)
  <1>1. CASE lo >= hi
    BY <1>1 DEF RangeCovered
  <1>2. CASE ~ (lo >= hi)
    <2>1. /\ seq \in Seq(LayoutRange) /\ n \in Nat
          /\ \A i \in 1 .. n : seq[i] \in Ranges(v)
          /\ \A r \in Ranges(v) : \E i \in 1 .. n : seq[i] = r
          /\ \A i, j \in 1 .. n : i < j => Before(seq[i], seq[j])
      BY CachedInOrder
    <2>2. base \in Cover /\ base.cursor = lo /\ base.end = hi /\ base.found = "open"
      BY DEF Cover
    <2> HIDE DEF seq, n, base
    <2>3. Covering(seq, lo, hi, 0, base)
      <3>1. lo .. lo - 1 = {} /\ 1 .. 0 = {}
        OBVIOUS
      <3>2. QED
        BY <1>2, <2>2, <3>1 DEF Covering
    <2>4. base \in P[0]
      <3>1. 0 \in 0 .. n
        BY <2>1
      <3>2. QED
        BY <2>2, <2>3, <3>1
    <2>5. \A m \in 0 .. Len(seq) - 1 : \A b \in Cover :
            b \in P[m] => CoverStep(b, seq[m + 1]) \in P[m + 1]
      <3>1. ASSUME NEW m \in 0 .. Len(seq) - 1, NEW b \in Cover, b \in P[m]
            PROVE  CoverStep(b, seq[m + 1]) \in P[m + 1]
        <4>1. m \in 0 .. n /\ m + 1 \in 0 .. n /\ m + 1 \in 1 .. n
          BY <2>1 DEF n
        <4>2. Covering(seq, lo, hi, m, b)
          BY <3>1, <4>1
        <4>3. Covering(seq, lo, hi, m + 1, CoverStep(b, seq[m + 1]))
          BY <2>1, <4>2, CoveringStep
        <4>4. CoverStep(b, seq[m + 1]) \in Cover
          <5>1. seq[m + 1] \in LayoutRange
            BY <2>1, <4>1 DEF n
          <5>2. QED
            BY <5>1, CoverStepIn
        <4> HIDE DEF P
        <4>5. QED
          BY <4>1, <4>3, <4>4 DEF P
      <3> HIDE DEF P
      <3>2. QED
        BY <3>1
    <2>6. a \in Cover /\ a \in P[n]
      <3> HIDE DEF P
      <3>1. QED
        BY <2>1, <2>2, <2>4, <2>5, CoverFold DEF n
    <2>7. Covering(seq, lo, hi, n, a) /\ n \in 0 .. n
      <3>1. n \in 0 .. n
        BY <2>1
      <3> HIDE DEF a
      <3>2. QED
        BY <2>6, <3>1
    <2>8. RangeCovered(v, lo, hi) <=> a.found = "covered"
      BY <1>2 DEF RangeCovered, seq, base
    <2> HIDE DEF a, P
    <2>9. a.cursor \in Int /\ a.found \in {"open", "gap", "covered"} /\ lo <= a.cursor
      BY <2>6, <2>7 DEF Cover, Covering
    <2>10. \A i \in 1 .. n : seq[i].lo \in Nat /\ seq[i].hi \in Nat
      BY <2>1, RangesOfVolume DEF LayoutRange
    <2>11. \A u \in Int : u \in CachedUnits(v) <=> \E i \in 1 .. n : seq[i].lo <= u /\ u < seq[i].hi
      <3>1. \A u \in Int : u \in CachedUnits(v) <=> \E r \in Ranges(v) : r.lo <= u /\ u < r.hi
        BY UnitsCached
      <3>2. QED
        BY <2>1, <3>1
    <2>12. ASSUME a.found = "covered", NEW u \in lo .. hi - 1
           PROVE  u \in CachedUnits(v)
      <3>1. u \in Int /\ u \in lo .. a.cursor - 1
        BY <2>7, <2>9, <2>12 DEF Covering
      <3>2. QED
        BY <2>7, <2>11, <3>1 DEF Covering
    <2>13. ASSUME a.found # "covered"
           PROVE  \E u \in lo .. hi - 1 : u \notin CachedUnits(v)
      <3>1. a.cursor < hi
        BY <2>7, <2>9, <2>13 DEF Covering
      <3>2. ASSUME NEW i \in 1 .. n, seq[i].lo <= a.cursor, a.cursor < seq[i].hi
            PROVE  FALSE
        <4>1. CASE a.found = "open"
          BY <2>7, <2>9, <2>10, <3>2, <4>1 DEF Covering
        <4>2. CASE a.found = "gap"
          <5>1. PICK k \in 1 .. n : /\ a.cursor < seq[k].lo
                                    /\ \A j \in 1 .. k - 1 : seq[j].hi <= a.cursor
            BY <2>7, <4>2 DEF Covering
          <5>2. CASE i < k
            <6>1. i \in 1 .. k - 1
              BY <2>1, <5>2
            <6>2. QED
              BY <2>9, <2>10, <3>2, <5>1, <6>1
          <5>3. CASE i = k
            BY <2>9, <2>10, <3>2, <5>1, <5>3
          <5>4. CASE k < i
            <6>1. seq[k].lo <= seq[i].lo
              BY <2>1, <2>10, <5>4 DEF Before
            <6>2. QED
              BY <2>9, <2>10, <3>2, <5>1, <6>1
          <5>5. QED
            BY <2>1, <5>2, <5>3, <5>4
        <4>3. QED
          BY <2>9, <2>13, <4>1, <4>2
      <3>3. a.cursor \in lo .. hi - 1
        BY <2>9, <3>1
      <3>4. QED
        BY <2>9, <2>11, <3>2, <3>3
    <2>14. QED
      BY <2>8, <2>12, <2>13
  <1>3. QED
    BY <1>1, <1>2

\* The pass of subtract_cached, one range after the other.
Gap == [lo : Int, hi : Int]
Gaps == [cursor : Int, end : Int, missing : SUBSET Gap]

LEMMA SubtractStepIn ==
  ASSUME NEW a \in Gaps, NEW r \in LayoutRange
  PROVE  SubtractStep(a, r) \in Gaps
  <1>1. r.lo \in Int /\ r.hi \in Int /\ a.cursor \in Int /\ a.end \in Int /\ a.missing \in SUBSET Gap
    BY DEF LayoutRange, Gaps
  <1>2. Smaller(r.lo, a.end) \in Int /\ Larger(a.cursor, r.hi) \in Int
    BY <1>1 DEF Smaller, Larger
  <1> DEFINE g == [lo |-> a.cursor, hi |-> Smaller(r.lo, a.end)]
             more == IF r.lo > a.cursor THEN {g} ELSE {}
  <1>3. g \in Gap
    BY <1>1, <1>2 DEF Gap
  <1>4. SubtractStep(a, r) \in {a, [cursor |-> Larger(a.cursor, r.hi), end |-> a.end,
                                    missing |-> a.missing \cup more]}
    BY DEF SubtractStep
  <1> HIDE DEF g
  <1>5. a.missing \cup more \in SUBSET Gap
    BY <1>1, <1>3
  <1> HIDE DEF more
  <1>6. QED
    BY <1>1, <1>2, <1>4, <1>5 DEF Gaps

LEMMA SubtractFold ==
  ASSUME NEW seq \in Seq(LayoutRange), NEW base \in Gaps, NEW P, base \in P[0],
         \A m \in 0 .. Len(seq) - 1 : \A a \in Gaps :
           a \in P[m] => SubtractStep(a, seq[m + 1]) \in P[m + 1]
  PROVE  /\ FoldLeft(SubtractStep, base, seq) \in Gaps
         /\ FoldLeft(SubtractStep, base, seq) \in P[Len(seq)]
  <1> DEFINE n == Len(seq)
             D == DOMAIN seq
             Eq(f) == f = [s \in SUBSET D |->
                             IF s = {} THEN base ELSE SubtractStep(f[s \ {Max(s)}], seq[Max(s)])]
             iter == CHOOSE f : Eq(f)
             St == [p \in Gaps \X (1 .. n) |-> SubtractStep(p[1], seq[p[2]])]
  <1>1. FoldLeft(SubtractStep, base, seq) = iter[D]
    BY DEF FoldLeft, MapThenFoldSet
  <1>2. n \in Nat /\ D = 1 .. n /\ \A i \in D : seq[i] \in LayoutRange
    OBVIOUS
  <1>3. \A m \in 0 .. n - 1 : \A a \in Gaps : a \in P[m] => SubtractStep(a, seq[m + 1]) \in P[m + 1]
    OBVIOUS
  <1> HIDE DEF n, D
  <1>4. ASSUME NEW a \in Gaps, NEW i \in 1 .. n
        PROVE  SubtractStep(a, seq[i]) \in Gaps
    BY <1>2, SubtractStepIn
  <1>5. St \in [Gaps \X (1 .. n) -> Gaps]
    BY <1>4
  <1>6. PICK f \in [SUBSET D -> Gaps] :
          \A s \in SUBSET D : f[s] = IF s = {} THEN base ELSE St[<<f[s \ {Max(s)}], Max(s)>>]
    <2> HIDE DEF St, iter, Eq
    <2>1. \E f \in [SUBSET (1 .. n) -> Gaps] : IsFold(n, base, St, f)
      BY <1>2, <1>5, FoldExists, Zenon
    <2>2. QED
      BY <1>2, <2>1 DEF IsFold
  <1>7. Eq(f)
    <2>1. ASSUME NEW s \in SUBSET D, s # {}
          PROVE  f[s] = SubtractStep(f[s \ {Max(s)}], seq[Max(s)])
      <3>1. Max(s) \in 1 .. n /\ s \ {Max(s)} \in SUBSET D
        BY <1>2, <2>1, MaxIsIn
      <3>2. QED
        BY <1>6, <2>1, <3>1
    <2>2. \A s \in SUBSET D : f[s] = IF s = {} THEN base
                                     ELSE SubtractStep(f[s \ {Max(s)}], seq[Max(s)])
      BY <1>6, <2>1
    <2>3. f = [s \in SUBSET D |-> f[s]]
      OBVIOUS
    <2>4. QED
      BY <2>2, <2>3
  <1>8. Eq(iter)
    BY <1>7
  <1> HIDE DEF iter
  <1>9. \A s \in SUBSET D :
          iter[s] = IF s = {} THEN base ELSE SubtractStep(iter[s \ {Max(s)}], seq[Max(s)])
    BY <1>8
  <1>10. ASSUME NEW s \in SUBSET D, s # {}, iter[s \ {Max(s)}] \in Gaps
         PROVE  iter[s] = St[<<iter[s \ {Max(s)}], Max(s)>>]
    BY <1>2, <1>9, <1>10, MaxIsIn
  <1>11. \A m \in 0 .. n - 1 : \A a \in Gaps : a \in P[m] => St[<<a, m + 1>>] \in P[m + 1]
    BY <1>2, <1>3
  <1>12. iter[1 .. n] \in Gaps /\ iter[1 .. n] \in P[n]
    <2> HIDE DEF St, Eq
    <2>1. IsFoldIn(n, Gaps, base, St, iter)
      BY <1>2, <1>9, <1>10 DEF IsFoldIn
    <2>2. Keeps(n, Gaps, St, P)
      BY <1>11 DEF Keeps
    <2>3. QED
      BY <1>2, <1>5, <2>1, <2>2, FoldHolds, Zenon
  <1>13. QED
    BY <1>1, <1>2, <1>12 DEF n

\* subtract_cached after m of the ranges: what the cursor has passed is cached or is in a gap, no gap
\* meets another one or a cached range, and the ranges that are behind the cursor stay behind it.
Subtracting(seq, lo, hi, m, a) ==
  /\ a.end = hi /\ lo <= a.cursor
  /\ \A g \in a.missing : lo <= g.lo /\ g.lo < g.hi /\ g.hi <= hi /\ g.hi <= a.cursor
  /\ \A u \in lo .. hi - 1 : u < a.cursor => \/ \E i \in 1 .. m : seq[i].lo <= u /\ u < seq[i].hi
                                             \/ \E g \in a.missing : g.lo <= u /\ u < g.hi
  /\ a.cursor < hi => \A i \in 1 .. m : seq[i].hi <= a.cursor \/ hi <= seq[i].lo
  /\ \A g \in a.missing : \A i \in 1 .. Len(seq) : seq[i].hi <= g.lo \/ g.hi <= seq[i].lo
  /\ \A g, h \in a.missing : g = h \/ g.hi <= h.lo \/ h.hi <= g.lo

LEMMA SubtractingStep ==
  ASSUME NEW seq \in Seq(LayoutRange), NEW lo \in Nat, NEW hi \in Nat,
         \A i, j \in 1 .. Len(seq) : i < j => seq[i].lo <= seq[j].lo,
         \A i \in 1 .. Len(seq) : seq[i].lo < seq[i].hi,
         NEW m \in 0 .. Len(seq) - 1, NEW a \in Gaps, Subtracting(seq, lo, hi, m, a)
  PROVE  Subtracting(seq, lo, hi, m + 1, SubtractStep(a, seq[m + 1]))
  <1> DEFINE r == seq[m + 1]
             b == SubtractStep(a, r)
             g == [lo |-> a.cursor, hi |-> Smaller(r.lo, a.end)]
  <1>1. m \in Nat /\ m + 1 \in 1 .. Len(seq) /\ r.lo \in Nat /\ r.hi \in Nat
    <2>1. Len(seq) \in Nat /\ \A i \in 1 .. Len(seq) : seq[i] \in LayoutRange
      OBVIOUS
    <2>2. m \in Nat /\ m + 1 \in 1 .. Len(seq)
      BY <2>1
    <2>3. QED
      BY <2>1, <2>2 DEF LayoutRange
  <1>2. \A i \in 1 .. m + 1 : i \in 1 .. m \/ i = m + 1
    BY <1>1
  <1>3. \A i \in 1 .. Len(seq) : seq[i].hi \in Nat /\ seq[i].lo \in Nat
    <2>1. \A i \in 1 .. Len(seq) : seq[i] \in LayoutRange
      OBVIOUS
    <2>2. QED
      BY <2>1 DEF LayoutRange
  <1>4. \A i \in 1 .. m : i \in 1 .. m + 1 /\ i \in 1 .. Len(seq)
    BY <1>1
  <1>5. a.cursor \in Int /\ a.end = hi /\ lo <= a.cursor /\ \A h \in a.missing : h.lo \in Int /\ h.hi \in Int
    BY DEF Gaps, Gap, Subtracting
  <1>6. /\ \A h \in a.missing : lo <= h.lo /\ h.lo < h.hi /\ h.hi <= hi /\ h.hi <= a.cursor
        /\ \A u \in lo .. hi - 1 : u < a.cursor => \/ \E i \in 1 .. m : seq[i].lo <= u /\ u < seq[i].hi
                                                   \/ \E h \in a.missing : h.lo <= u /\ u < h.hi
        /\ a.cursor < hi => \A i \in 1 .. m : seq[i].hi <= a.cursor \/ hi <= seq[i].lo
        /\ \A h \in a.missing : \A i \in 1 .. Len(seq) : seq[i].hi <= h.lo \/ h.hi <= seq[i].lo
        /\ \A h, k \in a.missing : h = k \/ h.hi <= k.lo \/ k.hi <= h.lo
    BY DEF Subtracting
  <1>7. CASE a.cursor >= a.end \/ r.hi <= a.cursor \/ r.lo >= a.end
    <2>1. b = a
      BY <1>7 DEF SubtractStep
    <2>2. a.cursor < hi => \A i \in 1 .. m + 1 : seq[i].hi <= a.cursor \/ hi <= seq[i].lo
      BY <1>1, <1>2, <1>5, <1>6, <1>7
    <2>3. \A u \in lo .. hi - 1 : u < a.cursor => \/ \E i \in 1 .. m + 1 : seq[i].lo <= u /\ u < seq[i].hi
                                                  \/ \E h \in a.missing : h.lo <= u /\ u < h.hi
      BY <1>4, <1>6
    <2> HIDE DEF r, b
    <2>4. Subtracting(seq, lo, hi, m + 1, b)
      BY <1>5, <1>6, <2>1, <2>2, <2>3 DEF Subtracting
    <2>5. QED
      BY <2>4 DEF b, r
  <1>8. CASE ~ (a.cursor >= a.end \/ r.hi <= a.cursor \/ r.lo >= a.end)
    <2>1. /\ a.cursor < hi /\ a.cursor < r.hi /\ r.lo < hi /\ Larger(a.cursor, r.hi) = r.hi
          /\ Smaller(r.lo, a.end) = r.lo
      BY <1>1, <1>5, <1>8 DEF Larger, Smaller
    <2>2. b = [cursor |-> r.hi, end |-> a.end,
               missing |-> a.missing \cup (IF r.lo > a.cursor THEN {g} ELSE {})]
      BY <1>8, <2>1 DEF SubtractStep
    <2>3. g.lo = a.cursor /\ g.hi = r.lo
      BY <2>1
    <2> HIDE DEF g
    <2>4. \A h \in b.missing : h \in a.missing \/ (h = g /\ a.cursor < r.lo)
      BY <1>1, <1>5, <2>2
    <2>5. a.missing \subseteq b.missing /\ (a.cursor < r.lo => g \in b.missing)
      BY <1>1, <1>5, <2>2
    <2>6. b.cursor = r.hi /\ b.end = hi
      BY <1>5, <2>2
    <2> HIDE DEF b
    <2>7. \A h \in b.missing : lo <= h.lo /\ h.lo < h.hi /\ h.hi <= hi /\ h.hi <= r.hi
      <3>1. ASSUME NEW h \in a.missing
            PROVE  lo <= h.lo /\ h.lo < h.hi /\ h.hi <= hi /\ h.hi <= r.hi
        <4>1. h.hi <= a.cursor /\ a.cursor < r.hi /\ h.hi \in Int
          BY <1>5, <1>6, <2>1
        <4>2. h.hi <= r.hi
          BY <1>1, <1>5, <4>1
        <4>3. QED
          BY <1>6, <4>2
      <3>2. ASSUME a.cursor < r.lo
            PROVE  lo <= g.lo /\ g.lo < g.hi /\ g.hi <= hi /\ g.hi <= r.hi
        <4>1. r.lo < r.hi
          BY <1>1
        <4>2. QED
          BY <1>1, <1>5, <2>1, <2>3, <3>2, <4>1
      <3>3. QED
        BY <2>4, <3>1, <3>2
    <2>8. ASSUME NEW u \in lo .. hi - 1, u < r.hi
          PROVE  \/ \E i \in 1 .. m + 1 : seq[i].lo <= u /\ u < seq[i].hi
                 \/ \E h \in b.missing : h.lo <= u /\ u < h.hi
      <3>1. CASE u < a.cursor
        BY <1>4, <1>6, <2>5, <3>1
      <3>2. CASE ~ (u < a.cursor) /\ u < r.lo
        <4>1. a.cursor < r.lo /\ g.lo <= u /\ u < g.hi
          BY <1>1, <1>5, <2>3, <3>2
        <4>2. QED
          BY <2>5, <4>1
      <3>3. CASE ~ (u < r.lo)
        <4>1. m + 1 \in 1 .. m + 1 /\ seq[m + 1].lo <= u /\ u < seq[m + 1].hi
          BY <1>1, <2>8, <3>3
        <4>2. QED
          BY <4>1
      <3>4. QED
        BY <3>1, <3>2, <3>3
    <2>9. ASSUME r.hi < hi, NEW i \in 1 .. m + 1
          PROVE  seq[i].hi <= r.hi \/ hi <= seq[i].lo
      <3>1. CASE i = m + 1
        BY <1>1, <3>1
      <3>2. CASE i \in 1 .. m
        <4>1. seq[i].hi <= a.cursor \/ hi <= seq[i].lo
          BY <1>6, <2>1, <3>2
        <4>2. QED
          BY <1>1, <1>3, <1>4, <1>5, <2>1, <3>2, <4>1
      <3>3. QED
        BY <1>2, <3>1, <3>2
    <2>10. ASSUME a.cursor < r.lo, NEW i \in 1 .. Len(seq)
           PROVE  seq[i].hi <= g.lo \/ g.hi <= seq[i].lo
      <3>1. CASE i \in 1 .. m
        <4>1. seq[i].hi <= a.cursor \/ hi <= seq[i].lo
          BY <1>6, <2>1, <3>1
        <4>2. QED
          BY <1>1, <1>3, <1>5, <2>1, <2>3, <4>1
      <3>2. CASE ~ (i \in 1 .. m)
        <4>1. m + 1 <= i
          BY <1>1, <3>2
        <4>2. r.lo <= seq[i].lo
          <5>1. CASE i = m + 1
            BY <1>1, <5>1
          <5>2. CASE i # m + 1
            <6>1. m + 1 < i
              BY <1>1, <4>1, <5>2
            <6>2. QED
              BY <1>1, <6>1
          <5>3. QED
            BY <5>1, <5>2
        <4>3. QED
          BY <2>3, <4>2
      <3>3. QED
        BY <3>1, <3>2
    <2>11. \A h \in b.missing : \A i \in 1 .. Len(seq) : seq[i].hi <= h.lo \/ h.hi <= seq[i].lo
      BY <1>6, <2>4, <2>10
    <2>12. \A h, k \in b.missing : h = k \/ h.hi <= k.lo \/ k.hi <= h.lo
      <3>1. \A h \in a.missing : h.hi <= g.lo
        BY <1>6, <2>3
      <3>2. QED
        BY <1>6, <2>4, <3>1
    <2>13. lo <= r.hi
      BY <1>1, <1>5, <2>1
    <2> HIDE DEF r
    <2>14. Subtracting(seq, lo, hi, m + 1, b)
      BY <2>6, <2>7, <2>8, <2>9, <2>11, <2>12, <2>13 DEF Subtracting
    <2>15. QED
      BY <2>14 DEF b, r
  <1>9. QED
    BY <1>7, <1>8

\* subtract_cached is exact: the gaps are the bytes that are not cached, each once.
LEMMA SubtractIs ==
  ASSUME NEW v, Holding(v), NEW lo \in Nat, NEW hi \in Nat, lo < hi,
         NEW req, req.lo = lo, req.hi = hi
  PROVE  /\ Subtract(req, v) \subseteq Gap
         /\ \A g \in Subtract(req, v) : lo <= g.lo /\ g.lo < g.hi /\ g.hi <= hi
         /\ \A u \in lo .. hi - 1 :
              u \in CachedUnits(v) \/ \E g \in Subtract(req, v) : g.lo <= u /\ u < g.hi
         /\ \A g \in Subtract(req, v) : \A u \in CachedUnits(v) : ~ (g.lo <= u /\ u < g.hi)
         /\ \A g, h \in Subtract(req, v) : g = h \/ g.hi <= h.lo \/ h.hi <= g.lo
  <1> DEFINE seq == Cached(v)
             n == Len(seq)
             base == [cursor |-> lo, end |-> hi, missing |-> {}]
             P == [m \in 0 .. n |-> {a \in Gaps : Subtracting(seq, lo, hi, m, a)}]
             a == FoldLeft(SubtractStep, base, seq)
             rest == [lo |-> a.cursor, hi |-> hi]
  <1>1. /\ seq \in Seq(LayoutRange) /\ n \in Nat
        /\ \A i \in 1 .. n : seq[i] \in Ranges(v)
        /\ \A r \in Ranges(v) : \E i \in 1 .. n : seq[i] = r
        /\ \A i, j \in 1 .. n : i < j => Before(seq[i], seq[j])
    BY CachedInOrder
  <1>2. base \in Gaps /\ base.cursor = lo /\ base.end = hi /\ base.missing = {}
    <2>1. {} \in SUBSET Gap
      OBVIOUS
    <2>2. QED
      BY <2>1 DEF Gaps
  <1>3. Subtract(req, v) = a.missing \cup (IF a.cursor < hi THEN {rest} ELSE {})
    BY DEF Subtract
  <1> HIDE DEF seq, n, base
  <1>4. \A i \in 1 .. n : seq[i].lo \in Nat /\ seq[i].hi \in Nat /\ seq[i].lo < seq[i].hi
    <2>1. \A r \in Ranges(v) : r.lo \in Nat /\ r.hi \in Nat /\ r.lo < r.hi
      BY RangesOfVolume DEF LayoutRange, InVolume
    <2>2. QED
      BY <1>1, <2>1
  <1>5. \A i, j \in 1 .. n : i < j => seq[i].lo <= seq[j].lo
    BY <1>1, <1>4 DEF Before
  <1>6. base \in P[0]
    <2>1. 1 .. 0 = {} /\ \A u \in lo .. hi - 1 : ~ (u < lo)
      OBVIOUS
    <2>2. Subtracting(seq, lo, hi, 0, base)
      BY <1>2, <2>1 DEF Subtracting
    <2>3. 0 \in 0 .. n
      BY <1>1
    <2>4. QED
      BY <1>2, <2>2, <2>3
  <1>7. \A m \in 0 .. Len(seq) - 1 : \A b \in Gaps :
          b \in P[m] => SubtractStep(b, seq[m + 1]) \in P[m + 1]
    <2>1. ASSUME NEW m \in 0 .. Len(seq) - 1, NEW b \in Gaps, b \in P[m]
          PROVE  SubtractStep(b, seq[m + 1]) \in P[m + 1]
      <3>1. m \in 0 .. n /\ m + 1 \in 0 .. n /\ m + 1 \in 1 .. n
        BY <1>1 DEF n
      <3>2. Subtracting(seq, lo, hi, m, b)
        BY <2>1, <3>1
      <3>3. Subtracting(seq, lo, hi, m + 1, SubtractStep(b, seq[m + 1]))
        BY <1>1, <1>4, <1>5, <3>2, SubtractingStep DEF n
      <3>4. SubtractStep(b, seq[m + 1]) \in Gaps
        <4>1. seq[m + 1] \in LayoutRange
          BY <1>1, <3>1 DEF n
        <4>2. QED
          BY <4>1, SubtractStepIn
      <3> HIDE DEF P
      <3>5. QED
        BY <3>1, <3>3, <3>4 DEF P
    <2> HIDE DEF P
    <2>2. QED
      BY <2>1
  <1>8. a \in Gaps /\ a \in P[n]
    <2> HIDE DEF P
    <2>1. QED
      BY <1>1, <1>2, <1>6, <1>7, SubtractFold DEF n
  <1>9. Subtracting(seq, lo, hi, n, a)
    <2>1. n \in 0 .. n
      BY <1>1
    <2> HIDE DEF a
    <2>2. QED
      BY <1>8, <2>1
  <1> HIDE DEF a, P
  <1>10. \A u \in Int : u \in CachedUnits(v) <=> \E i \in 1 .. n : seq[i].lo <= u /\ u < seq[i].hi
    <2>1. \A u \in Int : u \in CachedUnits(v) <=> \E r \in Ranges(v) : r.lo <= u /\ u < r.hi
      BY UnitsCached
    <2>2. QED
      BY <1>1, <2>1
  <1>11. CachedUnits(v) \subseteq Int
    <2>1. \A r \in Ranges(v) : Units(r) \subseteq Int
      BY RangesOfVolume DEF LayoutRange, Units
    <2>2. QED
      BY <2>1 DEF CachedUnits
  <1>12. a.cursor \in Int /\ a.missing \in SUBSET Gap /\ lo <= a.cursor
         /\ \A g \in a.missing : g.lo \in Int /\ g.hi \in Int
    BY <1>8, <1>9 DEF Gaps, Gap, Subtracting
  <1>13. rest \in Gap /\ rest.lo = a.cursor /\ rest.hi = hi
    BY <1>12 DEF Gap
  <1> DEFINE Gs == Subtract(req, v)
  <1>14. /\ a.missing \subseteq Gs /\ (a.cursor < hi => rest \in Gs)
         /\ \A g \in Gs : g \in a.missing \/ (g = rest /\ a.cursor < hi)
    <2> HIDE DEF rest
    <2>1. QED
      BY <1>3
  <1> HIDE DEF Gs, rest
  <1>15. Gs \subseteq Gap
    BY <1>12, <1>13, <1>14
  <1>16. \A g \in Gs : lo <= g.lo /\ g.lo < g.hi /\ g.hi <= hi
    <2>1. \A g \in a.missing : lo <= g.lo /\ g.lo < g.hi /\ g.hi <= hi
      BY <1>9 DEF Subtracting
    <2>2. a.cursor < hi => lo <= rest.lo /\ rest.lo < rest.hi /\ rest.hi <= hi
      BY <1>12, <1>13
    <2>3. QED
      BY <1>14, <2>1, <2>2
  <1>17. ASSUME NEW u \in lo .. hi - 1
         PROVE  u \in CachedUnits(v) \/ \E g \in Gs : g.lo <= u /\ u < g.hi
    <2>1. CASE u < a.cursor
      BY <1>9, <1>10, <1>14, <2>1 DEF Subtracting
    <2>2. CASE ~ (u < a.cursor)
      <3>1. rest \in Gs /\ rest.lo <= u /\ u < rest.hi
        BY <1>12, <1>13, <1>14, <2>2
      <3>2. QED
        BY <3>1
    <2>3. QED
      BY <2>1, <2>2
  <1>18. ASSUME NEW g \in Gs, NEW u \in CachedUnits(v), g.lo <= u, u < g.hi
         PROVE  FALSE
    <2>1. PICK i \in 1 .. n : seq[i].lo <= u /\ u < seq[i].hi
      BY <1>10, <1>11
    <2>2. u \in Int /\ seq[i].lo \in Nat /\ seq[i].hi \in Nat /\ g.lo \in Int /\ g.hi \in Int
      BY <1>4, <1>11, <1>15 DEF Gap
    <2>3. CASE g \in a.missing
      <3>1. seq[i].hi <= g.lo \/ g.hi <= seq[i].lo
        BY <1>9, <2>3 DEF Subtracting, n
      <3>2. QED
        BY <1>18, <2>1, <2>2, <3>1
    <2>4. CASE g = rest /\ a.cursor < hi
      <3>1. seq[i].hi <= a.cursor \/ hi <= seq[i].lo
        BY <1>9, <2>4 DEF Subtracting
      <3>2. QED
        BY <1>12, <1>13, <1>18, <2>1, <2>2, <2>4, <3>1
    <2>5. QED
      BY <1>14, <2>3, <2>4
  <1>19. \A g, h \in Gs : g = h \/ g.hi <= h.lo \/ h.hi <= g.lo
    <2>1. \A g, h \in a.missing : g = h \/ g.hi <= h.lo \/ h.hi <= g.lo
      BY <1>9 DEF Subtracting
    <2>2. \A g \in a.missing : g.hi <= rest.lo
      BY <1>9, <1>13 DEF Subtracting
    <2>3. QED
      BY <1>14, <2>1, <2>2
  <1>20. QED
    BY <1>15, <1>16, <1>17, <1>18, <1>19 DEF Gs


\* The merging pass of missing_range_requests.
LEMMA MergeStepIn ==
  ASSUME NEW a \in Seq(Gap), NEW r \in Gap
  PROVE  /\ MergeStep(a, r) \in Seq(Gap)
         /\ a # <<>> => Len(a) \in 1 .. Len(a) /\ Last(a) = a[Len(a)] /\ Last(a) \in Gap
         /\ \/ /\ a # <<>> /\ r.lo <= Last(a).hi /\ Len(MergeStep(a, r)) = Len(a)
               /\ \A k \in 1 .. Len(a) : MergeStep(a, r)[k] =
                    IF k = Len(a) THEN [lo |-> Last(a).lo, hi |-> Larger(Last(a).hi, r.hi)] ELSE a[k]
            \/ /\ a = <<>> \/ ~ (r.lo <= Last(a).hi)
               /\ Len(MergeStep(a, r)) = Len(a) + 1
               /\ \A k \in 1 .. Len(a) : MergeStep(a, r)[k] = a[k]
               /\ MergeStep(a, r)[Len(a) + 1] = r
  <1>1. Len(a) \in Nat /\ \A k \in 1 .. Len(a) : a[k] \in Gap
    OBVIOUS
  <1>2. a # <<>> => Len(a) \in 1 .. Len(a) /\ Last(a) = a[Len(a)] /\ Last(a) \in Gap
    BY DEF Last
  <1>3. CASE a # <<>> /\ r.lo <= Last(a).hi
    <2> DEFINE new == [lo |-> Last(a).lo, hi |-> Larger(Last(a).hi, r.hi)]
    <2>1. new \in Gap
      BY <1>2, <1>3 DEF Gap, Larger
    <2>2. MergeStep(a, r) = [a EXCEPT ![Len(a)] = new]
      BY <1>2, <1>3 DEF MergeStep
    <2> HIDE DEF new
    <2>3. [a EXCEPT ![Len(a)] = new] \in Seq(Gap) /\ Len([a EXCEPT ![Len(a)] = new]) = Len(a)
          /\ \A k \in 1 .. Len(a) : [a EXCEPT ![Len(a)] = new][k] = IF k = Len(a) THEN new ELSE a[k]
      <3> DEFINE b == [a EXCEPT ![Len(a)] = new]
      <3>1. a \in [1 .. Len(a) -> Gap]
        BY <1>1
      <3>2. b \in [1 .. Len(a) -> Gap]
            /\ \A k \in 1 .. Len(a) : b[k] = IF k = Len(a) THEN new ELSE a[k]
        BY <2>1, <3>1
      <3> HIDE DEF b
      <3>3. b \in Seq(Gap) /\ Len(b) = Len(a)
        BY <1>1, <3>2
      <3>4. QED
        BY <3>2, <3>3 DEF b
    <2>4. QED
      BY <1>2, <1>3, <2>2, <2>3 DEF new
  <1>4. CASE a = <<>> \/ ~ (r.lo <= Last(a).hi)
    <2>1. MergeStep(a, r) = Append(a, r)
      BY <1>4 DEF MergeStep
    <2>2. Append(a, r) \in Seq(Gap) /\ Len(Append(a, r)) = Len(a) + 1
          /\ Append(a, r)[Len(a) + 1] = r /\ \A k \in 1 .. Len(a) : Append(a, r)[k] = a[k]
      BY <1>1
    <2>3. QED
      BY <1>2, <1>4, <2>1, <2>2
  <1>5. QED
    BY <1>3, <1>4

LEMMA MergeFold ==
  ASSUME NEW seq \in Seq(Gap), NEW base \in Seq(Gap), NEW P, base \in P[0],
         \A m \in 0 .. Len(seq) - 1 : \A a \in Seq(Gap) :
           a \in P[m] => MergeStep(a, seq[m + 1]) \in P[m + 1]
  PROVE  /\ FoldLeft(MergeStep, base, seq) \in Seq(Gap)
         /\ FoldLeft(MergeStep, base, seq) \in P[Len(seq)]
  <1> DEFINE n == Len(seq)
             D == DOMAIN seq
             Eq(f) == f = [s \in SUBSET D |->
                             IF s = {} THEN base ELSE MergeStep(f[s \ {Max(s)}], seq[Max(s)])]
             iter == CHOOSE f : Eq(f)
             St == [p \in Seq(Gap) \X (1 .. n) |-> MergeStep(p[1], seq[p[2]])]
  <1>1. FoldLeft(MergeStep, base, seq) = iter[D]
    BY DEF FoldLeft, MapThenFoldSet
  <1>2. n \in Nat /\ D = 1 .. n /\ \A i \in D : seq[i] \in Gap
    OBVIOUS
  <1>3. \A m \in 0 .. n - 1 : \A a \in Seq(Gap) : a \in P[m] => MergeStep(a, seq[m + 1]) \in P[m + 1]
    OBVIOUS
  <1> HIDE DEF n, D
  <1>4. ASSUME NEW a \in Seq(Gap), NEW i \in 1 .. n
        PROVE  MergeStep(a, seq[i]) \in Seq(Gap)
    BY <1>2, MergeStepIn
  <1>5. St \in [Seq(Gap) \X (1 .. n) -> Seq(Gap)]
    BY <1>4
  <1>6. PICK f \in [SUBSET D -> Seq(Gap)] :
          \A s \in SUBSET D : f[s] = IF s = {} THEN base ELSE St[<<f[s \ {Max(s)}], Max(s)>>]
    <2> HIDE DEF St, iter, Eq
    <2>1. \E f \in [SUBSET (1 .. n) -> Seq(Gap)] : IsFold(n, base, St, f)
      BY <1>2, <1>5, FoldExists, Zenon
    <2>2. QED
      BY <1>2, <2>1 DEF IsFold
  <1>7. Eq(f)
    <2>1. ASSUME NEW s \in SUBSET D, s # {}
          PROVE  f[s] = MergeStep(f[s \ {Max(s)}], seq[Max(s)])
      <3>1. Max(s) \in 1 .. n /\ s \ {Max(s)} \in SUBSET D
        BY <1>2, <2>1, MaxIsIn
      <3>2. QED
        BY <1>6, <2>1, <3>1
    <2>2. \A s \in SUBSET D : f[s] = IF s = {} THEN base
                                     ELSE MergeStep(f[s \ {Max(s)}], seq[Max(s)])
      BY <1>6, <2>1
    <2>3. f = [s \in SUBSET D |-> f[s]]
      OBVIOUS
    <2>4. QED
      BY <2>2, <2>3
  <1>8. Eq(iter)
    BY <1>7
  <1> HIDE DEF iter
  <1>9. \A s \in SUBSET D :
          iter[s] = IF s = {} THEN base ELSE MergeStep(iter[s \ {Max(s)}], seq[Max(s)])
    BY <1>8
  <1>10. ASSUME NEW s \in SUBSET D, s # {}, iter[s \ {Max(s)}] \in Seq(Gap)
         PROVE  iter[s] = St[<<iter[s \ {Max(s)}], Max(s)>>]
    BY <1>2, <1>9, <1>10, MaxIsIn
  <1>11. \A m \in 0 .. n - 1 : \A a \in Seq(Gap) : a \in P[m] => St[<<a, m + 1>>] \in P[m + 1]
    BY <1>2, <1>3
  <1>12. iter[1 .. n] \in Seq(Gap) /\ iter[1 .. n] \in P[n]
    <2> HIDE DEF St, Eq
    <2>1. IsFoldIn(n, Seq(Gap), base, St, iter)
      BY <1>2, <1>9, <1>10 DEF IsFoldIn
    <2>2. Keeps(n, Seq(Gap), St, P)
      BY <1>11 DEF Keeps
    <2>3. QED
      BY <1>2, <1>5, <2>1, <2>2, FoldHolds, Zenon
  <1>13. QED
    BY <1>1, <1>2, <1>12 DEF n

\* The requested ranges merged so far: they lie in lo .. hi, are apart from one another, and hold the
\* bytes of the first m ranges.
Merging(seq, lo, hi, m, acc) ==
  /\ \A k \in 1 .. Len(acc) : lo <= acc[k].lo /\ acc[k].lo < acc[k].hi /\ acc[k].hi <= hi
  /\ \A j, k \in 1 .. Len(acc) : j < k => acc[j].hi < acc[k].lo
  /\ \A u \in Int : (\E k \in 1 .. Len(acc) : acc[k].lo <= u /\ u < acc[k].hi)
                      <=> \E i \in 1 .. m : seq[i].lo <= u /\ u < seq[i].hi
  /\ acc # <<>> => \E i \in 1 .. m : Last(acc).lo = seq[i].lo

LEMMA MergingStep ==
  ASSUME NEW seq \in Seq(Gap), NEW lo \in Int, NEW hi \in Int,
         \A i, j \in 1 .. Len(seq) : i < j => seq[i].lo <= seq[j].lo,
         \A i \in 1 .. Len(seq) : lo <= seq[i].lo /\ seq[i].lo < seq[i].hi /\ seq[i].hi <= hi,
         NEW m \in 0 .. Len(seq) - 1, NEW acc \in Seq(Gap), Merging(seq, lo, hi, m, acc)
  PROVE  Merging(seq, lo, hi, m + 1, MergeStep(acc, seq[m + 1]))
  <1> DEFINE r == seq[m + 1]
             b == MergeStep(acc, r)
             L == Last(acc)
             n == Len(acc)
  <1>1. /\ m \in Nat /\ m + 1 \in 1 .. Len(seq) /\ r \in Gap /\ r.lo \in Int /\ r.hi \in Int
        /\ lo <= r.lo /\ r.lo < r.hi /\ r.hi <= hi
    <2>1. Len(seq) \in Nat /\ \A i \in 1 .. Len(seq) : seq[i] \in Gap
      OBVIOUS
    <2>2. m \in Nat /\ m + 1 \in 1 .. Len(seq)
      BY <2>1
    <2>3. QED
      BY <2>1, <2>2 DEF Gap
  <1>2. \A i \in 1 .. m : i \in 1 .. m + 1 /\ i \in 1 .. Len(seq) /\ i < m + 1
    BY <1>1
  <1>3. \A i \in 1 .. m + 1 : i \in 1 .. m \/ i = m + 1
    BY <1>1
  <1>4. n \in Nat /\ \A k \in 1 .. n : acc[k].lo \in Int /\ acc[k].hi \in Int
    <2>1. n \in Nat /\ \A k \in 1 .. n : acc[k] \in Gap
      OBVIOUS
    <2>2. QED
      BY <2>1 DEF Gap
  <1>5. /\ \A k \in 1 .. n : lo <= acc[k].lo /\ acc[k].lo < acc[k].hi /\ acc[k].hi <= hi
        /\ \A j, k \in 1 .. n : j < k => acc[j].hi < acc[k].lo
        /\ \A u \in Int : (\E k \in 1 .. n : acc[k].lo <= u /\ u < acc[k].hi)
                            <=> \E i \in 1 .. m : seq[i].lo <= u /\ u < seq[i].hi
        /\ acc # <<>> => \E i \in 1 .. m : L.lo = seq[i].lo
    BY DEF Merging
  <1>6. /\ b \in Seq(Gap)
        /\ acc # <<>> => n \in 1 .. n /\ L = acc[n] /\ L \in Gap
        /\ \/ /\ acc # <<>> /\ r.lo <= L.hi /\ Len(b) = n
              /\ \A k \in 1 .. n : b[k] = IF k = n THEN [lo |-> L.lo, hi |-> Larger(L.hi, r.hi)] ELSE acc[k]
           \/ /\ acc = <<>> \/ ~ (r.lo <= L.hi)
              /\ Len(b) = n + 1
              /\ \A k \in 1 .. n : b[k] = acc[k]
              /\ b[n + 1] = r
    BY <1>1, MergeStepIn
  <1>7. acc # <<>> => L.lo <= r.lo /\ L.lo \in Int /\ L.hi \in Int /\ L.lo < L.hi
    <2>1. ASSUME acc # <<>>
          PROVE  L.lo <= r.lo /\ L.lo \in Int /\ L.hi \in Int /\ L.lo < L.hi
      <3>1. PICK i \in 1 .. m : L.lo = seq[i].lo
        BY <1>5, <2>1
      <3>2. seq[i].lo <= r.lo
        BY <1>1, <1>2
      <3>3. n \in 1 .. n /\ L = acc[n]
        BY <1>6, <2>1
      <3>4. QED
        BY <1>4, <1>5, <3>1, <3>2, <3>3
    <2>2. QED
      BY <2>1
  <1>8. CASE acc # <<>> /\ r.lo <= L.hi /\ Len(b) = n
    <2> DEFINE new == [lo |-> L.lo, hi |-> Larger(L.hi, r.hi)]
    <2>1. \A k \in 1 .. n : b[k] = IF k = n THEN new ELSE acc[k]
      BY <1>1, <1>4, <1>6, <1>8
    <2>2. /\ new.lo = L.lo /\ new.hi \in Int /\ L.hi <= new.hi /\ r.hi <= new.hi
          /\ (new.hi = L.hi \/ new.hi = r.hi)
      BY <1>1, <1>7, <1>8 DEF Larger
    <2>3. n \in 1 .. n /\ L = acc[n]
      BY <1>6, <1>8
    <2> HIDE DEF new, b, L, n
    <2>4. \A k \in 1 .. n : lo <= b[k].lo /\ b[k].lo < b[k].hi /\ b[k].hi <= hi
      <3>1. lo <= new.lo /\ new.lo < new.hi /\ new.hi <= hi
        <4>1. lo <= L.lo /\ L.hi <= hi
          BY <1>5, <2>3
        <4>2. QED
          BY <1>1, <1>7, <1>8, <2>2, <4>1
      <3>2. QED
        BY <1>5, <2>1, <3>1
    <2>5. \A j, k \in 1 .. n : j < k => b[j].hi < b[k].lo
      <3>1. ASSUME NEW j \in 1 .. n, NEW k \in 1 .. n, j < k
            PROVE  b[j].hi < b[k].lo
        <4>1. j # n /\ b[j] = acc[j] /\ acc[j].hi < acc[k].lo
          BY <1>4, <1>5, <2>1, <3>1
        <4>2. b[k].lo = acc[k].lo
          BY <2>1, <2>2, <2>3
        <4>3. QED
          BY <4>1, <4>2
      <3>2. QED
        BY <3>1
    <2>6. ASSUME NEW u \in Int, NEW k \in 1 .. n, b[k].lo <= u, u < b[k].hi
          PROVE  \E i \in 1 .. m + 1 : seq[i].lo <= u /\ u < seq[i].hi
      <3>1. CASE k # n
        <4>1. acc[k].lo <= u /\ u < acc[k].hi
          BY <2>1, <2>6, <3>1
        <4>2. QED
          BY <1>2, <1>5, <4>1
      <3>2. CASE k = n /\ u < L.hi
        <4>1. acc[n].lo <= u /\ u < acc[n].hi
          BY <2>1, <2>2, <2>3, <2>6, <3>2
        <4>2. QED
          BY <1>2, <1>5, <2>3, <4>1
      <3>3. CASE k = n /\ ~ (u < L.hi)
        <4>1. u < new.hi
          BY <2>1, <2>6, <3>3
        <4>2. seq[m + 1].lo <= u /\ u < seq[m + 1].hi /\ m + 1 \in 1 .. m + 1
          BY <1>1, <1>7, <1>8, <2>2, <3>3, <4>1
        <4>3. QED
          BY <4>2
      <3>4. QED
        BY <3>1, <3>2, <3>3
    <2>7. ASSUME NEW u \in Int, NEW i \in 1 .. m + 1, seq[i].lo <= u, u < seq[i].hi
          PROVE  \E k \in 1 .. n : b[k].lo <= u /\ u < b[k].hi
      <3>1. CASE i \in 1 .. m
        <4>1. PICK k \in 1 .. n : acc[k].lo <= u /\ u < acc[k].hi
          BY <1>5, <2>7, <3>1
        <4>2. CASE k = n
          <5>1. b[n] = new /\ new.lo <= u /\ u < new.hi
            BY <1>7, <1>8, <2>1, <2>2, <2>3, <4>1, <4>2
          <5>2. QED
            BY <2>3, <5>1
        <4>3. CASE k # n
          BY <2>1, <4>1, <4>3
        <4>4. QED
          BY <4>2, <4>3
      <3>2. CASE i = m + 1
        <4>1. b[n] = new /\ new.lo <= u /\ u < new.hi
          BY <1>1, <1>7, <1>8, <2>1, <2>2, <2>3, <2>7, <3>2, SMTT(30)
        <4>2. QED
          BY <2>3, <4>1
      <3>3. QED
        BY <1>3, <3>1, <3>2
    <2>8. \E i \in 1 .. m + 1 : Last(b).lo = seq[i].lo
      <3>1. Last(b) = new
        BY <1>8, <2>1, <2>3 DEF Last
      <3>2. QED
        BY <1>2, <1>5, <1>8, <2>2, <3>1
    <2> HIDE DEF r
    <2>9. Merging(seq, lo, hi, m + 1, b)
      BY <1>8, <2>4, <2>5, <2>6, <2>7, <2>8 DEF Merging
    <2>10. QED
      BY <2>9 DEF b, r
  <1>9. CASE (acc = <<>> \/ ~ (r.lo <= L.hi)) /\ Len(b) = n + 1
    <2>1. b[n + 1] = r /\ \A k \in 1 .. n : b[k] = acc[k]
      BY <1>4, <1>6, <1>9
    <2> HIDE DEF b, n
    <2>2. n + 1 \in 1 .. n + 1 /\ \A k \in 1 .. n + 1 : k \in 1 .. n \/ k = n + 1
      BY <1>4
    <2>3. \A k \in 1 .. n + 1 : lo <= b[k].lo /\ b[k].lo < b[k].hi /\ b[k].hi <= hi
      BY <1>1, <1>5, <2>1, <2>2
    <2>4. \A k \in 1 .. n : acc[k].hi < r.lo
      <3>1. ASSUME NEW k \in 1 .. n
            PROVE  acc[k].hi < r.lo
        <4>1. acc # <<>>
          BY <3>1 DEF n
        <4>2. n \in 1 .. n /\ L = acc[n] /\ L.hi < r.lo
          BY <1>1, <1>6, <1>7, <1>9, <4>1, SMTT(30)
        <4>3. CASE k = n
          BY <4>2, <4>3
        <4>4. CASE k # n
          <5>1. acc[k].hi < acc[n].lo
            BY <1>4, <1>5, <4>2, <4>4
          <5>2. acc[n].lo < acc[n].hi
            BY <1>5, <4>2
          <5>3. acc[n].hi < r.lo /\ r.lo \in Int
            BY <1>1, <4>2
          <5>4. acc[k].hi \in Int /\ acc[n].lo \in Int /\ acc[n].hi \in Int
            BY <1>4, <3>1, <4>2
          <5> HIDE DEF r
          <5>5. QED
            BY <5>1, <5>2, <5>3, <5>4
        <4>5. QED
          BY <4>3, <4>4
      <3>2. QED
        BY <3>1
    <2>5. \A j, k \in 1 .. n + 1 : j < k => b[j].hi < b[k].lo
      <3>1. \A j, k \in 1 .. n + 1 : j < k => j \in 1 .. n
        BY <1>4
      <3>2. QED
        BY <1>5, <2>1, <2>2, <2>4, <3>1
    <2>6. ASSUME NEW u \in Int
          PROVE  (\E k \in 1 .. n + 1 : b[k].lo <= u /\ u < b[k].hi)
                   <=> \E i \in 1 .. m + 1 : seq[i].lo <= u /\ u < seq[i].hi
      <3>1. (\E k \in 1 .. n + 1 : b[k].lo <= u /\ u < b[k].hi)
              <=> (\E k \in 1 .. n : acc[k].lo <= u /\ u < acc[k].hi) \/ (r.lo <= u /\ u < r.hi)
        <4>1. \A k \in 1 .. n : k \in 1 .. n + 1
          BY <1>4
        <4>2. QED
          BY <2>1, <2>2, <4>1
      <3>2. (\E i \in 1 .. m + 1 : seq[i].lo <= u /\ u < seq[i].hi)
              <=> (\E i \in 1 .. m : seq[i].lo <= u /\ u < seq[i].hi) \/ (r.lo <= u /\ u < r.hi)
        <4>1. m + 1 \in 1 .. m + 1
          BY <1>1
        <4>2. QED
          BY <1>2, <1>3, <4>1
      <3>3. QED
        BY <1>5, <3>1, <3>2
    <2>7. Last(b).lo = seq[m + 1].lo /\ m + 1 \in 1 .. m + 1
      BY <1>1, <1>9, <2>1 DEF Last
    <2> HIDE DEF r
    <2>8. Merging(seq, lo, hi, m + 1, b)
      BY <1>9, <2>3, <2>5, <2>6, <2>7 DEF Merging
    <2>9. QED
      BY <2>8 DEF b, r
  <1>10. QED
    BY <1>6, <1>8, <1>9

\* The parts of requested ranges that lie in a volume, in their order.
ClippedSet(ranges, v) == {Clipped(r, v) : r \in {x \in ranges : Touches(x, v)}}
ClippedSeq(ranges, v) ==
  InOrder(ClippedSet(ranges, v), LAMBDA a, b : a.lo < b.lo \/ (a.lo = b.lo /\ a.hi < b.hi))

LEMMA ClippedIs ==
  ASSUME NEW v \in Volume, NEW ranges \in SUBSET SourceRange, IsFiniteSet(ranges)
  PROVE  /\ IsFiniteSet(ClippedSet(ranges, v)) /\ ClippedSet(ranges, v) \subseteq Gap
         /\ \A c \in ClippedSet(ranges, v) : VolumeStart(v) <= c.lo /\ c.lo < c.hi /\ c.hi <= VolumeEnd[v]
         /\ \A u \in Int : (\E c \in ClippedSet(ranges, v) : c.lo <= u /\ u < c.hi)
              <=> /\ VolumeStart(v) <= u /\ u < VolumeEnd[v]
                  /\ \E r \in ranges : r.lo <= u /\ u < r.hi
  <1> DEFINE X == {x \in ranges : Touches(x, v)}
             f == [x \in X |-> Clipped(x, v)]
             S == ClippedSet(ranges, v)
  <1>1. VolumeStart(v) \in Nat /\ VolumeEnd[v] \in Nat /\ VolumeStart(v) < VolumeEnd[v]
    BY Layout
  <1>2. IsFiniteSet(X)
    <2>1. X \subseteq ranges
      OBVIOUS
    <2> HIDE DEF X
    <2>2. QED
      BY <2>1, FS_Subset
  <1>3. S = {Clipped(x, v) : x \in X}
    BY DEF ClippedSet
  <1>4. \A x \in X : x \in ranges /\ Touches(x, v)
    OBVIOUS
  <1>5. \A x \in ranges : x.lo \in Nat /\ x.hi \in Nat
    BY DEF SourceRange
  <1>6. ASSUME NEW x \in ranges, Touches(x, v)
        PROVE  /\ Clipped(x, v) \in Gap
               /\ VolumeStart(v) <= Clipped(x, v).lo /\ Clipped(x, v).lo < Clipped(x, v).hi
               /\ Clipped(x, v).hi <= VolumeEnd[v]
               /\ \A u \in Int : Clipped(x, v).lo <= u /\ u < Clipped(x, v).hi
                    <=> VolumeStart(v) <= u /\ u < VolumeEnd[v] /\ x.lo <= u /\ u < x.hi
    <2> DEFINE c == Clipped(x, v)
    <2>1. c = [lo |-> Larger(x.lo, VolumeStart(v)), hi |-> Smaller(x.hi, VolumeEnd[v])]
      BY DEF Clipped
    <2>2. c.lo = Larger(x.lo, VolumeStart(v)) /\ c.hi = Smaller(x.hi, VolumeEnd[v])
      BY <2>1
    <2>3. Larger(x.lo, VolumeStart(v)) \in Int /\ Smaller(x.hi, VolumeEnd[v]) \in Int
      BY <1>1, <1>5 DEF Larger, Smaller
    <2>4. c \in Gap
      <3> HIDE DEF c
      <3>1. QED
        BY <2>1, <2>3 DEF Gap
    <2> HIDE DEF c
    <2>5. VolumeStart(v) <= c.lo /\ c.lo < c.hi /\ c.hi <= VolumeEnd[v]
      BY <1>1, <1>5, <1>6, <2>2 DEF Larger, Smaller, Touches
    <2>6. \A u \in Int : c.lo <= u /\ u < c.hi
             <=> VolumeStart(v) <= u /\ u < VolumeEnd[v] /\ x.lo <= u /\ u < x.hi
      BY <1>1, <1>5, <2>2 DEF Larger, Smaller
    <2>7. QED
      BY <2>4, <2>5, <2>6 DEF c
  <1>7. IsFiniteSet(S)
    <2>1. f \in Surjection(X, S)
      <3> HIDE DEF X
      <3>1. f \in [X -> S] /\ \A c \in S : \E x \in X : f[x] = c
        BY <1>3
      <3>2. QED
        BY <3>1 DEF Surjection
    <2> HIDE DEF X, f, S
    <2>2. QED
      BY <1>2, <2>1, FS_Surjection
  <1> HIDE DEF X
  <1>8. S \subseteq Gap /\ \A c \in S : VolumeStart(v) <= c.lo /\ c.lo < c.hi /\ c.hi <= VolumeEnd[v]
    BY <1>3, <1>4, <1>6
  <1>9. ASSUME NEW u \in Int
        PROVE  (\E c \in S : c.lo <= u /\ u < c.hi)
                 <=> /\ VolumeStart(v) <= u /\ u < VolumeEnd[v]
                     /\ \E r \in ranges : r.lo <= u /\ u < r.hi
    <2>1. ASSUME NEW c \in S, c.lo <= u, u < c.hi
          PROVE  /\ VolumeStart(v) <= u /\ u < VolumeEnd[v]
                 /\ \E r \in ranges : r.lo <= u /\ u < r.hi
      <3>1. PICK x \in X : c = Clipped(x, v)
        BY <1>3
      <3>2. x \in ranges /\ Touches(x, v)
        BY <1>4
      <3>3. QED
        BY <1>6, <2>1, <3>1, <3>2
    <2>2. ASSUME NEW r \in ranges, VolumeStart(v) <= u, u < VolumeEnd[v], r.lo <= u, u < r.hi
          PROVE  \E c \in S : c.lo <= u /\ u < c.hi
      <3>1. Touches(r, v)
        BY <1>1, <1>5, <2>2 DEF Touches
      <3>2. Clipped(r, v).lo <= u /\ u < Clipped(r, v).hi
        BY <1>6, <2>2, <3>1
      <3>3. Clipped(r, v) \in S
        BY <1>3, <3>1 DEF X
      <3>4. QED
        BY <3>2, <3>3
    <2> HIDE DEF S
    <2>3. QED
      BY <2>1, <2>2
  <1>10. QED
    BY <1>7, <1>8, <1>9

LEMMA ClippedInOrder ==
  ASSUME NEW v \in Volume, NEW ranges \in SUBSET SourceRange, IsFiniteSet(ranges)
  PROVE  LET S == ClippedSet(ranges, v)
             seq == ClippedSeq(ranges, v)
         IN  /\ seq \in Seq(Gap) /\ Len(seq) \in Nat
             /\ \A i \in 1 .. Len(seq) : seq[i] \in S
             /\ \A c \in S : \E i \in 1 .. Len(seq) : seq[i] = c
             /\ \A i, j \in 1 .. Len(seq) : i < j => seq[i].lo <= seq[j].lo
  <1> DEFINE S == ClippedSet(ranges, v)
             Lower(a, b) == a.lo < b.lo \/ (a.lo = b.lo /\ a.hi < b.hi)
             R == {p \in S \X S : Lower(p[1], p[2])}
             n == Cardinality(S)
             place == [x \in S |-> Cardinality({y \in S : <<y, x>> \in R}) + 1]
             f == [i \in 1 .. n |-> CHOOSE x \in S : place[x] = i]
  <1>1. IsFiniteSet(S) /\ S \subseteq Gap
    BY ClippedIs
  <1>2. \A x, y \in S : <<x, y>> \in R <=> Lower(x, y)
    OBVIOUS
  <1>3. ClippedSeq(ranges, v) = f
    <2> DEFINE place2 == [x \in S |-> Cardinality({y \in S : Lower(y, x)}) + 1]
    <2>1. ClippedSeq(ranges, v) = [i \in 1 .. Cardinality(S) |-> CHOOSE x \in S : place2[x] = i]
      BY DEF ClippedSeq, InOrder
    <2>2. ASSUME NEW x \in S
          PROVE  {y \in S : Lower(y, x)} = {y \in S : <<y, x>> \in R}
      BY <1>2
    <2>3. place2 = place
      <3> HIDE DEF S, R, Lower
      <3>1. QED
        BY <2>2
    <2> HIDE DEF place, place2
    <2>4. QED
      BY <2>1, <2>3
  <1>4. \A x \in S : x.lo \in Int /\ x.hi \in Int /\ x = [lo |-> x.lo, hi |-> x.hi]
    BY <1>1 DEF Gap
  <1> HIDE DEF S
  <1>5. \A x \in S : <<x, x>> \notin R
    BY <1>2, <1>4
  <1>6. \A x, y, z \in S : <<x, y>> \in R /\ <<y, z>> \in R => <<x, z>> \in R
    BY <1>2, <1>4
  <1>7. \A x, y \in S : x = y \/ <<x, y>> \in R \/ <<y, x>> \in R
    <2>1. ASSUME NEW x \in S, NEW y \in S, x # y
          PROVE  Lower(x, y) \/ Lower(y, x)
      <3>1. x.lo # y.lo \/ x.hi # y.hi
        BY <1>4, <2>1
      <3>2. QED
        BY <1>4, <3>1
    <2>2. QED
      BY <1>2, <2>1
  <1>8. R \in SUBSET (S \X S)
    OBVIOUS
  <1>9. /\ n \in Nat /\ f \in [1 .. n -> S]
        /\ \A x \in S : \E i \in 1 .. n : f[i] = x
        /\ \A i, j \in 1 .. n : i < j => <<f[i], f[j]>> \in R
    <2> HIDE DEF R
    <2>1. QED
      BY <1>1, <1>5, <1>6, <1>7, <1>8, Places, Zenon
  <1>10. \A i, j \in 1 .. n : i < j => f[i].lo <= f[j].lo
    <2> HIDE DEF f, n
    <2>1. \A i, j \in 1 .. n : i < j => f[i] \in S /\ f[j] \in S /\ Lower(f[i], f[j])
      <3> HIDE DEF Lower
      <3>1. QED
        BY <1>2, <1>9
    <2>2. QED
      BY <1>4, <2>1
  <1> HIDE DEF f, n, R
  <1>11. f \in Seq(Gap) /\ Len(f) = n
    BY <1>1, <1>9
  <1>12. QED
    BY <1>3, <1>9, <1>10, <1>11 DEF S

\* The merged ranges lie in the volume, apart from one another, and hold what was asked of it.
LEMMA MergedIs ==
  ASSUME NEW v \in Volume, NEW ranges \in SUBSET SourceRange, IsFiniteSet(ranges)
  PROVE  LET M == Merged(ranges, v)
         IN  /\ M \in Seq(Gap) /\ Len(M) \in Nat
             /\ \A k \in 1 .. Len(M) : /\ VolumeStart(v) <= M[k].lo /\ M[k].lo < M[k].hi
                                       /\ M[k].hi <= VolumeEnd[v]
             /\ \A j, k \in 1 .. Len(M) : j < k => M[j].hi < M[k].lo
             /\ \A u \in Int : (\E k \in 1 .. Len(M) : M[k].lo <= u /\ u < M[k].hi)
                  <=> /\ VolumeStart(v) <= u /\ u < VolumeEnd[v]
                      /\ \E r \in ranges : r.lo <= u /\ u < r.hi
  <1> DEFINE seq == ClippedSeq(ranges, v)
             S == ClippedSet(ranges, v)
             n == Len(seq)
             lo == VolumeStart(v)
             hi == VolumeEnd[v]
             P == [m \in 0 .. n |-> {a \in Seq(Gap) : Merging(seq, lo, hi, m, a)}]
             M == FoldLeft(MergeStep, <<>>, seq)
  <1>1. lo \in Int /\ hi \in Int
    BY Layout
  <1>2. /\ IsFiniteSet(S) /\ S \subseteq Gap
        /\ \A c \in S : lo <= c.lo /\ c.lo < c.hi /\ c.hi <= hi
        /\ \A u \in Int : (\E c \in S : c.lo <= u /\ u < c.hi)
              <=> /\ lo <= u /\ u < hi
                  /\ \E r \in ranges : r.lo <= u /\ u < r.hi
    BY ClippedIs
  <1>3. /\ seq \in Seq(Gap) /\ n \in Nat
        /\ \A i \in 1 .. n : seq[i] \in S
        /\ \A c \in S : \E i \in 1 .. n : seq[i] = c
        /\ \A i, j \in 1 .. n : i < j => seq[i].lo <= seq[j].lo
    BY ClippedInOrder
  <1>4. Merged(ranges, v) = M
    BY DEF Merged, ClippedSeq, ClippedSet
  <1> HIDE DEF seq, S, n, lo, hi
  <1>5. <<>> \in Seq(Gap) /\ Len(<<>>) = 0
    OBVIOUS
  <1>6. <<>> \in P[0]
    <2>1. 1 .. 0 = {} /\ 0 \in 0 .. n
      BY <1>3
    <2>2. Merging(seq, lo, hi, 0, <<>>)
      BY <1>5, <2>1 DEF Merging
    <2>3. QED
      BY <1>5, <2>1, <2>2
  <1>7. \A m \in 0 .. Len(seq) - 1 : \A b \in Seq(Gap) :
          b \in P[m] => MergeStep(b, seq[m + 1]) \in P[m + 1]
    <2>1. ASSUME NEW m \in 0 .. Len(seq) - 1, NEW b \in Seq(Gap), b \in P[m]
          PROVE  MergeStep(b, seq[m + 1]) \in P[m + 1]
      <3>1. m \in 0 .. n /\ m + 1 \in 0 .. n /\ m + 1 \in 1 .. n
        BY <1>3 DEF n
      <3>2. Merging(seq, lo, hi, m, b)
        BY <2>1, <3>1
      <3>3. \A i \in 1 .. n : lo <= seq[i].lo /\ seq[i].lo < seq[i].hi /\ seq[i].hi <= hi
        BY <1>2, <1>3
      <3>4. Merging(seq, lo, hi, m + 1, MergeStep(b, seq[m + 1]))
        BY <1>1, <1>3, <3>2, <3>3, MergingStep DEF n
      <3>5. MergeStep(b, seq[m + 1]) \in Seq(Gap)
        <4>1. seq[m + 1] \in Gap
          BY <1>2, <1>3, <3>1
        <4>2. QED
          BY <4>1, MergeStepIn
      <3> HIDE DEF P
      <3>6. QED
        BY <3>1, <3>4, <3>5 DEF P
    <2> HIDE DEF P
    <2>2. QED
      BY <2>1
  <1>8. M \in Seq(Gap) /\ M \in P[n]
    <2> HIDE DEF P
    <2>1. QED
      BY <1>3, <1>5, <1>6, <1>7, MergeFold DEF n
  <1>9. Merging(seq, lo, hi, n, M)
    <2>1. n \in 0 .. n
      BY <1>3
    <2> HIDE DEF M
    <2>2. QED
      BY <1>8, <2>1
  <1> HIDE DEF M, P
  <1>10. Len(M) \in Nat
    BY <1>8
  <1>11. \A u \in Int : (\E i \in 1 .. n : seq[i].lo <= u /\ u < seq[i].hi)
                          <=> \E c \in S : c.lo <= u /\ u < c.hi
    BY <1>3
  <1>12. \A u \in Int : (\E k \in 1 .. Len(M) : M[k].lo <= u /\ u < M[k].hi)
                  <=> /\ lo <= u /\ u < hi
                      /\ \E r \in ranges : r.lo <= u /\ u < r.hi
    BY <1>2, <1>9, <1>11 DEF Merging
  <1>13. QED
    BY <1>4, <1>8, <1>9, <1>10, <1>12 DEF Merging, lo, hi

\* What the layout may hold of every volume.
Layouts == CacheWellFormed /\ vol \in [Volume -> {"absent", "wrong", "full"}]

\* missing_range_requests is exact, whatever is cached: every request lies in one volume, what is
\* asked for is cached or requested, nothing cached and nothing else is requested, and no byte twice.
LEMMA RequestsAre ==
  ASSUME Layouts, NEW ranges \in SUBSET SourceRange, IsFiniteSet(ranges)
  PROVE  /\ Requests(ranges) \subseteq Piece
         /\ \A r \in ranges : \A u \in Unit : r.lo <= u /\ u < r.hi =>
              \/ u \in CachedUnits(VolumeOf[u])
              \/ \E q \in Requests(ranges) : q.lo <= u /\ u < q.hi
         /\ \A q \in Requests(ranges) : \A u \in Int : q.lo <= u /\ u < q.hi =>
              u \notin CachedUnits(q.vol) /\ \E r \in ranges : r.lo <= u /\ u < r.hi
         /\ \A p, q \in Requests(ranges) : p = q \/ p.hi <= q.lo \/ q.hi <= p.lo
  <1> DEFINE M(v) == Merged(ranges, v)
             Q == Requests(ranges)
             From(q, v, k, m) == /\ v \in Volume /\ k \in 1 .. Len(M(v)) /\ m \in Subtract(M(v)[k], v)
                                 /\ q = [vol |-> v, lo |-> m.lo, hi |-> m.hi]
  <1>1. \A v \in Volume : Holding(v)
    BY DEF Layouts, Holding
  <1>2. ASSUME NEW v \in Volume
        PROVE  /\ M(v) \in Seq(Gap) /\ Len(M(v)) \in Nat
               /\ \A k \in 1 .. Len(M(v)) : /\ VolumeStart(v) <= M(v)[k].lo /\ M(v)[k].lo < M(v)[k].hi
                                            /\ M(v)[k].hi <= VolumeEnd[v]
               /\ \A j, k \in 1 .. Len(M(v)) : j < k => M(v)[j].hi < M(v)[k].lo
               /\ \A u \in Int : (\E k \in 1 .. Len(M(v)) : M(v)[k].lo <= u /\ u < M(v)[k].hi)
                    <=> /\ VolumeStart(v) <= u /\ u < VolumeEnd[v]
                        /\ \E r \in ranges : r.lo <= u /\ u < r.hi
    BY MergedIs
  <1>3. \A q : q \in Q <=> \E v \in Volume : \E k \in 1 .. Len(M(v)) : \E m \in Subtract(M(v)[k], v) :
                             q = [vol |-> v, lo |-> m.lo, hi |-> m.hi]
    <2>1. \A v \in Volume : ToSet(M(v)) = {M(v)[k] : k \in 1 .. Len(M(v))}
      <3>1. ASSUME NEW v \in Volume
            PROVE  DOMAIN M(v) = 1 .. Len(M(v))
        <4>1. M(v) \in Seq(Gap)
          BY <1>2
        <4> HIDE DEF M
        <4>2. QED
          BY <4>1
      <3> HIDE DEF M
      <3>2. QED
        BY <3>1 DEF ToSet
    <2>2. Q = UNION {UNION {{[vol |-> v, lo |-> m.lo, hi |-> m.hi] : m \in Subtract(req, v)} :
                              req \in ToSet(M(v))} : v \in Volume}
      BY DEF Requests
    <2> HIDE DEF M, Q
    <2>3. \A q : q \in Q <=> \E v \in Volume : \E req \in ToSet(M(v)) : \E m \in Subtract(req, v) :
                                q = [vol |-> v, lo |-> m.lo, hi |-> m.hi]
      BY <2>2
    <2>4. QED
      BY <2>1, <2>3
  <1> HIDE DEF M, Q
  <1>4. ASSUME NEW v \in Volume, NEW k \in 1 .. Len(M(v))
        PROVE  /\ M(v)[k].lo \in Nat /\ M(v)[k].hi \in Nat /\ M(v)[k].lo < M(v)[k].hi
               /\ VolumeStart(v) \in Nat /\ VolumeEnd[v] \in Nat /\ VolumeEnd[v] <= Total
               /\ VolumeStart(v) <= M(v)[k].lo /\ M(v)[k].hi <= VolumeEnd[v]
    <2>1. VolumeStart(v) \in Nat /\ VolumeEnd[v] \in Nat /\ VolumeEnd[v] <= Total
      BY Layout, EndsAtTotal
    <2>2. M(v)[k] \in Gap
      BY <1>2
    <2>3. M(v)[k].lo \in Int /\ M(v)[k].hi \in Int
      BY <2>2 DEF Gap
    <2>4. QED
      BY <1>2, <2>1, <2>3
  <1>5. ASSUME NEW v \in Volume, NEW k \in 1 .. Len(M(v))
        PROVE  LET G == Subtract(M(v)[k], v)
               IN  /\ G \subseteq Gap
                   /\ \A g \in G : M(v)[k].lo <= g.lo /\ g.lo < g.hi /\ g.hi <= M(v)[k].hi
                   /\ \A u \in M(v)[k].lo .. M(v)[k].hi - 1 :
                        u \in CachedUnits(v) \/ \E g \in G : g.lo <= u /\ u < g.hi
                   /\ \A g \in G : \A u \in CachedUnits(v) : ~ (g.lo <= u /\ u < g.hi)
                   /\ \A g, h \in G : g = h \/ g.hi <= h.lo \/ h.hi <= g.lo
    <2>1. Holding(v)
      BY <1>1
    <2>2. M(v)[k].lo \in Nat /\ M(v)[k].hi \in Nat /\ M(v)[k].lo < M(v)[k].hi
      BY <1>4
    <2>3. QED
      BY <2>1, <2>2, SubtractIs
  <1>6. ASSUME NEW q, NEW v \in Volume, NEW k \in 1 .. Len(M(v)), NEW m \in Subtract(M(v)[k], v),
               q = [vol |-> v, lo |-> m.lo, hi |-> m.hi]
        PROVE  /\ q.vol = v /\ q.lo = m.lo /\ q.hi = m.hi /\ q.lo \in Nat /\ q.hi \in Nat
               /\ M(v)[k].lo <= q.lo /\ q.lo < q.hi /\ q.hi <= M(v)[k].hi
               /\ q \in Piece
    <2>1. m.lo \in Int /\ m.hi \in Int /\ M(v)[k].lo <= m.lo /\ m.lo < m.hi /\ m.hi <= M(v)[k].hi
      BY <1>5 DEF Gap
    <2>2. q.vol = v /\ q.lo = m.lo /\ q.hi = m.hi
      BY <1>6
    <2>3. q.lo \in Nat /\ q.hi \in Nat /\ q.lo < q.hi /\ VolumeStart(v) <= q.lo /\ q.hi <= VolumeEnd[v]
      BY <1>4, <2>1, <2>2
    <2>4. q.lo \in Unit /\ q.hi \in 1 .. Total
      BY <1>4, <2>3, Layout DEF Unit
    <2>5. q \in [vol : Volume, lo : Unit, hi : 1 .. Total]
      BY <1>6, <2>2, <2>4
    <2>6. InVolume(q)
      BY <2>2, <2>3 DEF InVolume
    <2>7. QED
      BY <2>1, <2>2, <2>3, <2>5, <2>6 DEF Piece
  <1>7. \A q \in Q : \E v \in Volume, k \in Nat, m \in Gap : From(q, v, k, m)
    <2>1. ASSUME NEW q \in Q
          PROVE  \E v \in Volume, k \in Nat, m \in Gap : From(q, v, k, m)
      <3>1. PICK v \in Volume : \E k \in 1 .. Len(M(v)) : \E m \in Subtract(M(v)[k], v) :
                                  q = [vol |-> v, lo |-> m.lo, hi |-> m.hi]
        BY <1>3
      <3>2. PICK k \in 1 .. Len(M(v)) : \E m \in Subtract(M(v)[k], v) :
                                  q = [vol |-> v, lo |-> m.lo, hi |-> m.hi]
        BY <3>1
      <3>3. PICK m \in Subtract(M(v)[k], v) : q = [vol |-> v, lo |-> m.lo, hi |-> m.hi]
        BY <3>2
      <3>4. m \in Gap /\ k \in Nat
        BY <1>2, <1>5
      <3>5. QED
        BY <3>3, <3>4
    <2>2. QED
      BY <2>1
  <1>8. Q \subseteq Piece
    BY <1>6, <1>7
  <1>9. ASSUME NEW r \in ranges, NEW u \in Unit, r.lo <= u, u < r.hi
        PROVE  u \in CachedUnits(VolumeOf[u]) \/ \E q \in Q : q.lo <= u /\ u < q.hi
    <2> DEFINE v == VolumeOf[u]
    <2>1. v \in Volume /\ VolumeStart(v) <= u /\ u < VolumeEnd[v]
      BY VolumeOfUnit
    <2>2. u \in Int
      BY DEF Unit
    <2> HIDE DEF v
    <2>3. PICK k \in 1 .. Len(M(v)) : M(v)[k].lo <= u /\ u < M(v)[k].hi
      BY <1>2, <1>9, <2>1, <2>2
    <2>4. u \in M(v)[k].lo .. M(v)[k].hi - 1
      BY <1>4, <2>1, <2>2, <2>3
    <2>5. CASE \E g \in Subtract(M(v)[k], v) : g.lo <= u /\ u < g.hi
      <3>1. PICK g \in Subtract(M(v)[k], v) : g.lo <= u /\ u < g.hi
        BY <2>5
      <3> DEFINE q == [vol |-> v, lo |-> g.lo, hi |-> g.hi]
      <3>2. q \in Q
        BY <1>3, <2>1
      <3>3. q.lo <= u /\ u < q.hi
        BY <3>1
      <3> HIDE DEF q
      <3>4. QED
        BY <3>2, <3>3
    <2>6. QED
      BY <1>5, <2>1, <2>4, <2>5 DEF v
  <1>10. ASSUME NEW q \in Q, NEW u \in Int, q.lo <= u, u < q.hi
        PROVE  u \notin CachedUnits(q.vol) /\ \E r \in ranges : r.lo <= u /\ u < r.hi
    <2>1. PICK v \in Volume, k \in Nat, m \in Gap : From(q, v, k, m)
      BY <1>7
    <2>2. /\ q.vol = v /\ q.lo = m.lo /\ q.hi = m.hi /\ q.lo \in Nat /\ q.hi \in Nat
          /\ M(v)[k].lo <= q.lo /\ q.lo < q.hi /\ q.hi <= M(v)[k].hi
      BY <1>6, <2>1
    <2>3. M(v)[k].lo <= u /\ u < M(v)[k].hi
      BY <1>4, <1>10, <2>1, <2>2
    <2>4. u \notin CachedUnits(v)
      BY <1>5, <1>10, <2>1, <2>2
    <2>5. QED
      BY <1>2, <2>1, <2>2, <2>3, <2>4
  <1>11. ASSUME NEW p \in Q, NEW q \in Q
         PROVE  p = q \/ p.hi <= q.lo \/ q.hi <= p.lo
    <2>1. PICK v \in Volume, j \in Nat, g \in Gap : From(p, v, j, g)
      BY <1>7
    <2>2. PICK w \in Volume, k \in Nat, h \in Gap : From(q, w, k, h)
      BY <1>7
    <2>3. /\ p.vol = v /\ p.lo = g.lo /\ p.hi = g.hi /\ p.lo \in Nat /\ p.hi \in Nat
          /\ M(v)[j].lo <= p.lo /\ p.lo < p.hi /\ p.hi <= M(v)[j].hi
      BY <1>6, <2>1
    <2>4. /\ q.vol = w /\ q.lo = h.lo /\ q.hi = h.hi /\ q.lo \in Nat /\ q.hi \in Nat
          /\ M(w)[k].lo <= q.lo /\ q.lo < q.hi /\ q.hi <= M(w)[k].hi
      BY <1>6, <2>2
    <2>5. CASE v = w /\ j = k
      <3>1. g = h \/ g.hi <= h.lo \/ h.hi <= g.lo
        BY <1>5, <2>1, <2>2, <2>5
      <3>2. QED
        BY <2>1, <2>2, <2>3, <2>4, <2>5, <3>1
    <2>6. CASE v = w /\ j # k
      <3>1. j < k \/ k < j
        BY <1>2, <2>1, <2>2, <2>6
      <3>2. M(v)[j].hi < M(w)[k].lo \/ M(w)[k].hi < M(v)[j].lo
        BY <1>2, <2>1, <2>2, <2>6, <3>1
      <3>3. /\ M(v)[j].hi \in Nat /\ M(v)[j].lo \in Nat /\ M(w)[k].hi \in Nat /\ M(w)[k].lo \in Nat
        BY <1>4, <2>1, <2>2
      <3>4. QED
        BY <2>3, <2>4, <3>2, <3>3
    <2>7. CASE v # w
      <3>1. v < w \/ w < v
        BY <2>7, Layout
      <3>2. VolumeEnd[v] <= VolumeStart(w) \/ VolumeEnd[w] <= VolumeStart(v)
        BY <3>1, VolumesFollow
      <3>3. /\ VolumeStart(v) <= M(v)[j].lo /\ M(v)[j].hi <= VolumeEnd[v]
            /\ VolumeStart(w) <= M(w)[k].lo /\ M(w)[k].hi <= VolumeEnd[w]
            /\ {VolumeStart(v), VolumeStart(w), VolumeEnd[v], VolumeEnd[w], M(v)[j].lo, M(v)[j].hi,
                M(w)[k].lo, M(w)[k].hi} \subseteq Nat
        BY <1>4, <2>1, <2>2
      <3>4. QED
        BY <2>3, <2>4, <3>2, <3>3
    <2>8. QED
      BY <2>5, <2>6, <2>7
  <1>12. QED
    BY <1>8, <1>9, <1>10, <1>11 DEF Q

LEMMA PieceOf ==
  ASSUME NEW q \in Piece
  PROVE  /\ q.vol \in Volume /\ q.lo \in Nat /\ q.hi \in Nat /\ q.lo < q.hi /\ q.hi <= Total
         /\ Units(q) = q.lo .. q.hi - 1
         /\ \A u \in Units(q) : u \in Unit /\ VolumeOf[u] = q.vol
         /\ [lo |-> q.lo, hi |-> q.hi] \in SourceRange
  <1>1. q.vol \in Volume /\ q.lo \in Nat /\ q.hi \in Nat /\ q.lo < q.hi /\ q.hi <= Total
        /\ VolumeStart(q.vol) <= q.lo /\ q.hi <= VolumeEnd[q.vol]
    BY Layout DEF Piece, InVolume, Unit
  <1>2. ASSUME NEW u \in Units(q)
        PROVE  u \in Unit /\ VolumeOf[u] = q.vol
    <2>1. u \in Int /\ q.lo <= u /\ u < q.hi
      BY <1>1 DEF Units
    <2>2. u \in Unit
      BY <1>1, <2>1, Layout DEF Unit
    <2>3. VolumeStart(q.vol) <= u /\ u < VolumeEnd[q.vol]
      BY <1>1, <2>1, Layout
    <2>4. QED
      BY <1>1, <2>2, <2>3, VolumeOfUnit
  <1>3. QED
    BY <1>1, <1>2 DEF SourceRange, Units

LEMMA SegmentsAre ==
  ASSUME Layouts, NEW u \in Unit
  PROVE  Segments(u) # {} <=> u \in CachedUnits(VolumeOf[u])
  BY DEF Segments, CachedUnits

\* range_is_available is exact.
LEMMA AvailableIs ==
  ASSUME Layouts, NEW r, r.lo \in Nat, r.hi \in Nat, r.hi <= Total
  PROVE  Available(r) <=> \A u \in Unit : r.lo <= u /\ u < r.hi => u \in CachedUnits(VolumeOf[u])
  <1>1. ASSUME NEW v \in Volume, Touches(r, v)
        PROVE  RangeCovered(v, Clipped(r, v).lo, Clipped(r, v).hi) <=>
                 \A u \in Unit : r.lo <= u /\ u < r.hi /\ VolumeOf[u] = v => u \in CachedUnits(v)
    <2> DEFINE lo == Clipped(r, v).lo
               hi == Clipped(r, v).hi
    <2>1. /\ VolumeStart(v) \in Nat /\ VolumeEnd[v] \in Nat /\ VolumeStart(v) < VolumeEnd[v]
          /\ VolumeEnd[v] <= Total /\ Total \in Nat
      BY Layout, EndsAtTotal
    <2>2. lo = Larger(r.lo, VolumeStart(v)) /\ hi = Smaller(r.hi, VolumeEnd[v])
      BY DEF Clipped
    <2> HIDE DEF lo, hi
    <2>3. lo \in Nat /\ hi \in Nat
      BY <2>1, <2>2 DEF Larger, Smaller
    <2>4. Holding(v)
      BY DEF Holding, Layouts
    <2>5. RangeCovered(v, lo, hi) <=> \A u \in lo .. hi - 1 : u \in CachedUnits(v)
      BY <2>3, <2>4, CoveredIs
    <2>6. ASSUME NEW u \in lo .. hi - 1
          PROVE  u \in Unit /\ r.lo <= u /\ u < r.hi /\ VolumeOf[u] = v
      <3>1. u \in Int /\ VolumeStart(v) <= u /\ u < VolumeEnd[v] /\ r.lo <= u /\ u < r.hi
        BY <2>1, <2>2, <2>3 DEF Larger, Smaller
      <3>2. u \in Unit
        BY <2>1, <3>1 DEF Unit
      <3>3. QED
        BY <3>1, <3>2, VolumeOfUnit
    <2>7. ASSUME NEW u \in Unit, r.lo <= u, u < r.hi, VolumeOf[u] = v
          PROVE  u \in lo .. hi - 1
      <3>1. VolumeStart(v) <= u /\ u < VolumeEnd[v]
        BY <2>7, VolumeOfUnit
      <3>2. u \in Nat
        BY Layout DEF Unit
      <3>3. QED
        BY <2>1, <2>2, <2>3, <2>7, <3>1, <3>2 DEF Larger, Smaller
    <2>8. QED
      BY <2>5, <2>6, <2>7 DEF lo, hi
  <1>2. ASSUME NEW u \in Unit, r.lo <= u, u < r.hi
        PROVE  VolumeOf[u] \in Volume /\ Touches(r, VolumeOf[u])
    <2> DEFINE v == VolumeOf[u]
    <2>1. v \in Volume /\ VolumeStart(v) <= u /\ u < VolumeEnd[v]
      BY VolumeOfUnit
    <2>2. u \in Nat
      BY Layout DEF Unit
    <2> HIDE DEF v
    <2>3. VolumeStart(v) \in Nat /\ VolumeEnd[v] \in Nat
      BY <2>1, Layout
    <2>4. QED
      BY <1>2, <2>1, <2>2, <2>3 DEF Touches, v
  <1>3. QED
    BY <1>1, <1>2 DEF Available

\* The cursor passes agree with the set of cached bytes.
LEMMA ExactRanges ==
  ASSUME Layouts
  PROVE  RangesExact
  <1>1. SUFFICES ASSUME NEW v \in Volume, NEW lo \in VolumeStart(v) .. VolumeEnd[v],
                        NEW hi \in lo .. VolumeEnd[v]
                 PROVE  LET want == lo .. hi - 1
                            reqs == Requests({[lo |-> lo, hi |-> hi]})
                        IN  /\ RangeCovered(v, lo, hi) <=> want \subseteq CachedUnits(v)
                            /\ UNION {Units(r) : r \in reqs} = want \ CachedUnits(v)
                            /\ \A a, b \in reqs : a # b => Units(a) \cap Units(b) = {}
    BY DEF RangesExact
  <1> DEFINE want == lo .. hi - 1
             it == [lo |-> lo, hi |-> hi]
             reqs == Requests({it})
  <1>2. /\ lo \in Nat /\ hi \in Nat /\ VolumeStart(v) \in Nat /\ VolumeEnd[v] \in Nat
        /\ VolumeStart(v) <= lo /\ hi <= VolumeEnd[v] /\ VolumeEnd[v] <= Total /\ Total \in Nat
    BY Layout, EndsAtTotal
  <1>3. RangeCovered(v, lo, hi) <=> want \subseteq CachedUnits(v)
    <2>1. Holding(v)
      BY DEF Holding, Layouts
    <2>2. RangeCovered(v, lo, hi) <=> \A u \in lo .. hi - 1 : u \in CachedUnits(v)
      BY <1>2, <2>1, CoveredIs
    <2>3. QED
      BY <2>2
  <1>4. ASSUME NEW u \in want
        PROVE  u \in Unit /\ u \in Int /\ VolumeOf[u] = v /\ lo <= u /\ u < hi
    <2>1. u \in Int /\ lo <= u /\ u < hi /\ VolumeStart(v) <= u /\ u < VolumeEnd[v]
      BY <1>2
    <2>2. u \in Unit
      BY <1>2, <2>1 DEF Unit
    <2>3. QED
      BY <2>1, <2>2, VolumeOfUnit
  <1>5. /\ reqs \subseteq Piece
        /\ \A u \in Unit : lo <= u /\ u < hi => \/ u \in CachedUnits(VolumeOf[u])
                                                \/ \E q \in reqs : q.lo <= u /\ u < q.hi
        /\ \A q \in reqs : \A u \in Int : q.lo <= u /\ u < q.hi =>
              u \notin CachedUnits(q.vol) /\ lo <= u /\ u < hi
        /\ \A p, q \in reqs : p = q \/ p.hi <= q.lo \/ q.hi <= p.lo
    <2>1. it \in SourceRange /\ it.lo = lo /\ it.hi = hi
      BY <1>2 DEF SourceRange
    <2> HIDE DEF it
    <2>2. {it} \in SUBSET SourceRange /\ IsFiniteSet({it})
      BY <2>1, FS_Singleton
    <2>3. QED
      BY <2>1, <2>2, RequestsAre
  <1> HIDE DEF reqs
  <1>6. ASSUME NEW q \in reqs, NEW u \in Units(q)
        PROVE  u \in want /\ u \notin CachedUnits(v)
    <2>1. u \in Unit /\ VolumeOf[u] = q.vol /\ u \in Int /\ q.lo <= u /\ u < q.hi
      <3>1. q \in Piece
        BY <1>5
      <3>2. /\ u \in Unit /\ VolumeOf[u] = q.vol /\ Units(q) = q.lo .. q.hi - 1
            /\ q.lo \in Nat /\ q.hi \in Nat
        BY <3>1, PieceOf
      <3>3. u \in q.lo .. q.hi - 1
        BY <3>2
      <3>4. QED
        BY <3>2, <3>3
    <2>2. u \notin CachedUnits(q.vol) /\ lo <= u /\ u < hi
      BY <1>5, <2>1
    <2>3. u \in want
      BY <1>2, <2>1, <2>2
    <2> HIDE DEF want
    <2>4. QED
      BY <1>4, <2>1, <2>2, <2>3
  <1>7. ASSUME NEW u \in want, u \notin CachedUnits(v)
        PROVE  \E q \in reqs : u \in Units(q)
    <2>1. PICK q \in reqs : q.lo <= u /\ u < q.hi
      BY <1>4, <1>5, <1>7
    <2>2. Units(q) = q.lo .. q.hi - 1 /\ q.lo \in Nat /\ q.hi \in Nat
      BY <1>5, PieceOf
    <2>3. QED
      BY <1>4, <2>1, <2>2
  <1>8. ASSUME NEW a \in reqs, NEW b \in reqs, a # b
        PROVE  Units(a) \cap Units(b) = {}
    <2>1. a.hi <= b.lo \/ b.hi <= a.lo
      BY <1>5, <1>8
    <2>2. /\ a.lo \in Nat /\ a.hi \in Nat /\ b.lo \in Nat /\ b.hi \in Nat
          /\ Units(a) = a.lo .. a.hi - 1 /\ Units(b) = b.lo .. b.hi - 1
      BY <1>5, PieceOf
    <2>3. QED
      BY <2>1, <2>2
  <1>9. UNION {Units(r) : r \in reqs} = want \ CachedUnits(v)
    <2> HIDE DEF want
    <2>1. QED
      BY <1>6, <1>7
  <1>10. QED
    BY <1>3, <1>8, <1>9 DEF reqs

-----------------------------------------------------------------------------
(* The index. *)

\* An accepted archive's entries have their bytes before the central directory.
LEMMA SourceOf ==
  ASSUME SourcesValid, NEW e \in Entry
  PROVE  /\ Source[e].lo = Start[e] /\ Source[e].lo < Source[e].hi /\ Source[e].hi <= Total
         /\ Source[e].lo \in Nat /\ Source[e].hi \in Nat /\ Source[e] \in SourceRange
         /\ Units(Source[e]) \subseteq Unit
  <1> DEFINE after == {Start[f] : f \in Entry} \cap (Start[e] + 1 .. CentralStart)
             hi == IF after = {} THEN CentralStart ELSE CHOOSE s \in after : \A t \in after : s <= t
  <1>1. Source[e] = [lo |-> Start[e], hi |-> hi]
    BY DEF Source
  <1>2. Start[e] \in Nat /\ CentralStart \in Nat /\ CentralStart <= Total /\ Start[e] < CentralStart
    BY ArchiveAssumption DEF SourcesValid, OffsetsValid, Entry
  <1>3. hi \in Nat /\ Start[e] < hi /\ hi <= CentralStart
    <2>1. CASE after = {}
      BY <1>2, <2>1
    <2>2. CASE after # {}
      <3>1. after \in SUBSET Nat /\ \A s \in after : Start[e] < s /\ s <= CentralStart
        BY <1>2
      <3> HIDE DEF after
      <3>2. PICK s \in after : \A t \in after : s <= t
        BY <2>2, <3>1, MinIsIn
      <3>3. hi \in after
        BY <2>2, <3>2
      <3>4. QED
        BY <3>1, <3>3
    <2>3. QED
      BY <2>1, <2>2
  <1> HIDE DEF hi
  <1>4. Source[e].lo = Start[e] /\ Source[e].hi = hi
    BY <1>1
  <1>5. Source[e] \in SourceRange
    BY <1>1, <1>2, <1>3 DEF SourceRange
  <1>6. Total \in Nat
    BY Layout
  <1>7. Units(Source[e]) \subseteq Unit
    BY <1>2, <1>3, <1>4, <1>6 DEF Units, Unit
  <1>8. QED
    BY <1>2, <1>3, <1>4, <1>5, <1>6, <1>7

\* An entry's bytes lie in the volumes it needs, of which the last releases it.
LEMMA VolumesOfEntry ==
  ASSUME SourcesValid, NEW e \in Entry
  PROVE  /\ VolumesOf[e] \in SUBSET Volume /\ VolumesOf[e] # {}
         /\ \A u \in Units(Source[e]) : VolumeOf[u] \in VolumesOf[e]
         /\ ReleaseVolume(e) \in Volume
  <1>1. VolumesOf[e] = {v \in Volume : Touches(Source[e], v)}
    BY DEF VolumesOf
  <1>2. Source[e].lo < Source[e].hi /\ Source[e].lo \in Nat /\ Source[e].hi \in Nat
        /\ Units(Source[e]) \subseteq Unit
    BY SourceOf
  <1>3. ASSUME NEW u \in Units(Source[e])
        PROVE  VolumeOf[u] \in VolumesOf[e]
    <2> DEFINE v == VolumeOf[u]
    <2>1. v \in Volume /\ VolumeStart(v) <= u /\ u < VolumeEnd[v]
      BY <1>2, VolumeOfUnit
    <2>2. u \in Int /\ Source[e].lo <= u /\ u < Source[e].hi
      BY <1>2 DEF Units
    <2> HIDE DEF v
    <2>3. VolumeStart(v) \in Nat /\ VolumeEnd[v] \in Nat
      BY <2>1, Layout
    <2>4. Touches(Source[e], v)
      BY <1>2, <2>1, <2>2, <2>3 DEF Touches
    <2>5. QED
      BY <1>1, <2>1, <2>4 DEF v
  <1>4. Source[e].lo \in Units(Source[e])
    BY <1>2 DEF Units
  <1>5. VolumesOf[e] # {} /\ VolumesOf[e] \in SUBSET Volume
    BY <1>1, <1>3, <1>4
  <1>6. PICK n \in Nat : Volume = 1 .. n
    BY Layout
  <1>7. Max(VolumesOf[e]) \in VolumesOf[e] /\ \A w \in VolumesOf[e] : w <= Max(VolumesOf[e])
    BY <1>5, <1>6, MaxIsIn
  <1>8. ReleaseVolume(e) \in VolumesOf[e]
    BY <1>7 DEF ReleaseVolume
  <1>9. QED
    BY <1>3, <1>5, <1>8

-----------------------------------------------------------------------------
(* Shards. *)

\* A sequence that lists a set, each element once.
Lists(seq, S) ==
  /\ \A i \in 1 .. Len(seq) : seq[i] \in S
  /\ \A x \in S : \E i \in 1 .. Len(seq) : seq[i] = x
  /\ \A i, j \in 1 .. Len(seq) : seq[i] = seq[j] => i = j

\* The entries a volume releases, in source order.
LEMMA BucketLists ==
  ASSUME SourcesValid, NEW v \in Volume, NEW entries \in SUBSET Entry
  PROVE  /\ Bucket(entries, v) \in Seq(Entry)
         /\ Lists(Bucket(entries, v), {e \in entries : ReleaseVolume(e) = v})
  <1> DEFINE S == {e \in entries : ReleaseVolume(e) = v}
             Lower(a, b) == Start[a] < Start[b]
             R == {p \in S \X S : Lower(p[1], p[2])}
             n == Cardinality(S)
             place == [x \in S |-> Cardinality({y \in S : <<y, x>> \in R}) + 1]
             f == [i \in 1 .. n |-> CHOOSE x \in S : place[x] = i]
  <1>1. S \subseteq Entry /\ IsFiniteSet(S)
    <2>1. S \subseteq Entry
      OBVIOUS
    <2>2. IsFiniteSet(Entry)
      <3>1. Entry = 1 .. Len(Start) /\ Len(Start) \in Nat
        BY ArchiveAssumption DEF Entry
      <3>2. QED
        BY <3>1, FS_Interval
    <2> HIDE DEF S
    <2>3. QED
      BY <2>1, <2>2, FS_Subset
  <1>2. \A x, y \in S : <<x, y>> \in R <=> Lower(x, y)
    OBVIOUS
  <1>3. Bucket(entries, v) = f
    <2> DEFINE place2 == [x \in S |-> Cardinality({y \in S : Lower(y, x)}) + 1]
    <2>1. Bucket(entries, v) = [i \in 1 .. Cardinality(S) |-> CHOOSE x \in S : place2[x] = i]
      BY DEF Bucket, InOrder
    <2>2. ASSUME NEW x \in S
          PROVE  {y \in S : Lower(y, x)} = {y \in S : <<y, x>> \in R}
      BY <1>2
    <2>3. place2 = place
      <3> HIDE DEF S, R, Lower
      <3>1. QED
        BY <2>2
    <2> HIDE DEF place, place2
    <2>4. QED
      BY <2>1, <2>3
  <1> HIDE DEF S
  <1>4. /\ \A x \in S : Start[x] \in Nat
        /\ \A x, y \in S : x # y => Start[x] # Start[y]
    BY <1>1, ArchiveAssumption DEF SourcesValid, OffsetsValid, Entry
  <1>5. \A x \in S : <<x, x>> \notin R
    BY <1>2, <1>4
  <1>6. \A x, y, z \in S : <<x, y>> \in R /\ <<y, z>> \in R => <<x, z>> \in R
    BY <1>2, <1>4
  <1>7. \A x, y \in S : x = y \/ <<x, y>> \in R \/ <<y, x>> \in R
    <2>1. ASSUME NEW x \in S, NEW y \in S, x # y
          PROVE  Lower(x, y) \/ Lower(y, x)
      BY <1>4, <2>1
    <2> HIDE DEF Lower
    <2>2. QED
      BY <1>2, <2>1
  <1>8. R \in SUBSET (S \X S)
    OBVIOUS
  <1>9. /\ n \in Nat /\ f \in [1 .. n -> S]
        /\ \A x \in S : \E i \in 1 .. n : f[i] = x
        /\ \A i, j \in 1 .. n : i < j => <<f[i], f[j]>> \in R
    <2> HIDE DEF R
    <2>1. QED
      BY <1>1, <1>5, <1>6, <1>7, <1>8, Places, Zenon
  <1> HIDE DEF f, n, R
  <1>10. f \in Seq(Entry) /\ Len(f) = n
    BY <1>1, <1>9
  <1>11. ASSUME NEW i \in 1 .. n, NEW j \in 1 .. n, f[i] = f[j]
         PROVE  i = j
    <2>1. f[i] \in S /\ <<f[i], f[j]>> \notin R /\ <<f[j], f[i]>> \notin R
      BY <1>5, <1>9, <1>11
    <2>2. ~ (i < j) /\ ~ (j < i)
      BY <1>9, <2>1
    <2>3. QED
      BY <1>9, <2>2
  <1>12. QED
    BY <1>3, <1>9, <1>10, <1>11 DEF S, Lists

\* f is a recursion over 1 .. n, which has a solution.
IsRecursion(n, base, St, f) == f[0] = base /\ \A i \in 1 .. n : f[i] = St[<<f[i - 1], i>>]

LEMMA RecursionExists ==
  ASSUME NEW n \in Nat, NEW T, NEW base \in T, NEW St \in [T \X (1 .. n) -> T]
  PROVE  \E f \in [0 .. n -> T] : IsRecursion(n, base, St, f)
  <1>1. PICK g \in [SUBSET (1 .. n) -> T] : IsFold(n, base, St, g)
    BY FoldExists, Zenon
  <1> DEFINE f == [i \in 0 .. n |-> g[1 .. i]]
  <1>2. \A i \in 0 .. n : 1 .. i \in SUBSET (1 .. n)
    OBVIOUS
  <1>3. f \in [0 .. n -> T]
    BY <1>2
  <1>4. f[0] = base
    <2>1. 1 .. 0 = {} /\ 0 \in 0 .. n /\ {} \in SUBSET (1 .. n)
      OBVIOUS
    <2>2. g[{}] = base
      BY <1>1, <2>1 DEF IsFold
    <2>3. QED
      BY <2>1, <2>2
  <1>5. ASSUME NEW i \in 1 .. n
        PROVE  f[i] = St[<<f[i - 1], i>>]
    <2>1. i - 1 \in Nat /\ (i - 1) + 1 = i /\ i \in 0 .. n /\ i - 1 \in 0 .. n
      OBVIOUS
    <2>2. Max(1 .. i) = i /\ (1 .. i) \ {Max(1 .. i)} = 1 .. (i - 1)
      <3>1. Max(1 .. (i - 1) + 1) = (i - 1) + 1
            /\ (1 .. (i - 1) + 1) \ {Max(1 .. (i - 1) + 1)} = 1 .. (i - 1)
        BY <2>1, MaxOfInterval
      <3>2. QED
        BY <2>1, <3>1
    <2>3. 1 .. i \in SUBSET (1 .. n) /\ 1 .. i # {}
      <3>1. i \in 1 .. i
        OBVIOUS
      <3>2. QED
        BY <1>2, <2>1, <3>1
    <2>4. g[1 .. i] = St[<<g[1 .. (i - 1)], i>>]
      BY <1>1, <2>2, <2>3 DEF IsFold
    <2>5. QED
      BY <2>1, <2>4
  <1> HIDE DEF f
  <1>6. QED
    BY <1>3, <1>4, <1>5 DEF IsRecursion

\* The sequences joined so far.
IsFlat(A, seqs, f) ==
  /\ f \in [0 .. Len(seqs) -> Seq(A)] /\ f[0] = <<>>
  /\ \A i \in 1 .. Len(seqs) : f[i] = f[i - 1] \o seqs[i]

LEMMA FlatExists ==
  ASSUME NEW A, NEW seqs \in Seq(Seq(A))
  PROVE  \E f : IsFlat(A, seqs, f)
  <1> DEFINE n == Len(seqs)
             St == [p \in Seq(A) \X (1 .. n) |-> p[1] \o seqs[p[2]]]
  <1>1. n \in Nat /\ \A i \in 1 .. n : seqs[i] \in Seq(A)
    OBVIOUS
  <1> HIDE DEF n
  <1>2. St \in [Seq(A) \X (1 .. n) -> Seq(A)]
    BY <1>1
  <1>3. <<>> \in Seq(A)
    OBVIOUS
  <1>4. PICK f \in [0 .. n -> Seq(A)] : IsRecursion(n, <<>>, St, f)
    <2> HIDE DEF St
    <2>1. QED
      BY <1>1, <1>2, <1>3, RecursionExists, Zenon
  <1>5. ASSUME NEW i \in 1 .. n
        PROVE  f[i] = f[i - 1] \o seqs[i]
    <2>1. f[i - 1] \in Seq(A)
      <3>1. i - 1 \in 0 .. n
        BY <1>1
      <3>2. QED
        BY <3>1
    <2>2. f[i] = St[<<f[i - 1], i>>]
      BY <1>4 DEF IsRecursion
    <2>3. QED
      BY <2>1, <2>2
  <1>6. QED
    BY <1>4, <1>5 DEF IsFlat, IsRecursion, n

LEMMA FlattenIs ==
  ASSUME NEW A, NEW seqs \in Seq(Seq(A)), NEW f, IsFlat(A, seqs, f)
  PROVE  FlattenSeq(seqs) = f[Len(seqs)] /\ FlattenSeq(seqs) \in Seq(A)
  <1> DEFINE n == Len(seqs)
             Eq(g) == g = [i \in 1 .. n |-> IF i = 1 THEN seqs[i] ELSE g[i - 1] \o seqs[i]]
             flatten == CHOOSE g : Eq(g)
  <1>1. n \in Nat /\ \A i \in 1 .. n : seqs[i] \in Seq(A)
    OBVIOUS
  <1>2. f[n] \in Seq(A)
    <2>1. n \in 0 .. n
      BY <1>1
    <2> HIDE DEF n
    <2>2. QED
      BY <2>1 DEF IsFlat, n
  <1>3. CASE n = 0
    <2>1. seqs = <<>>
      BY <1>3
    <2>2. FlattenSeq(seqs) = seqs
      BY <1>3 DEF FlattenSeq
    <2>3. QED
      BY <1>2, <1>3, <2>1, <2>2 DEF IsFlat
  <1>4. CASE n # 0
    <2>1. FlattenSeq(seqs) = flatten[n]
      BY <1>4 DEF FlattenSeq
    <2> HIDE DEF n
    <2>2. f \in [0 .. n -> Seq(A)] /\ f[0] = <<>> /\ \A i \in 1 .. n : f[i] = f[i - 1] \o seqs[i]
      BY DEF IsFlat, n
    <2> DEFINE h == [i \in 1 .. n |-> f[i]]
    <2>3. Eq(h)
      <3>1. ASSUME NEW i \in 1 .. n
            PROVE  h[i] = IF i = 1 THEN seqs[i] ELSE h[i - 1] \o seqs[i]
        <4>1. CASE i = 1
          <5>1. f[1] = f[0] \o seqs[1] /\ seqs[1] \in Seq(A)
            <6>1. f[i] = f[i - 1] \o seqs[i] /\ seqs[i] \in Seq(A)
              BY <1>1, <2>2
            <6>2. i - 1 = 0
              BY <4>1
            <6>3. QED
              BY <4>1, <6>1, <6>2
          <5>2. <<>> \o seqs[1] = seqs[1]
            BY <5>1, ConcatEmptySeq
          <5>3. QED
            BY <2>2, <4>1, <5>1, <5>2
        <4>2. CASE i # 1
          <5>1. i - 1 \in 1 .. n
            BY <1>1, <4>2
          <5>2. QED
            BY <2>2, <4>2, <5>1
        <4>3. QED
          BY <4>1, <4>2
      <3>2. QED
        BY <3>1
    <2>4. Eq(flatten)
      <3> HIDE DEF Eq, h
      <3>1. QED
        BY <2>3
    <2> HIDE DEF flatten
    <2>5. \A i \in 1 .. n : flatten[i] = IF i = 1 THEN seqs[i] ELSE flatten[i - 1] \o seqs[i]
      BY <2>4
    <2> DEFINE Q == {i \in Nat : i + 1 <= n => flatten[i + 1] = f[i + 1]}
    <2>6. 0 \in Q
      <3>1. 1 \in 1 .. n /\ h[1] = f[1]
        BY <1>1, <1>4
      <3>2. h[1] = seqs[1]
        BY <2>3, <3>1
      <3>3. flatten[1] = seqs[1]
        BY <2>5, <3>1
      <3>4. QED
        BY <3>1, <3>2, <3>3
    <2>7. ASSUME NEW i \in Q
          PROVE  i + 1 \in Q
      <3>1. SUFFICES ASSUME (i + 1) + 1 <= n
                     PROVE  flatten[(i + 1) + 1] = f[(i + 1) + 1]
        OBVIOUS
      <3> DEFINE j == (i + 1) + 1
      <3>2. i \in Nat /\ j \in 1 .. n /\ j # 1 /\ j - 1 = i + 1 /\ i + 1 <= n
        BY <1>1, <3>1
      <3>3. flatten[i + 1] = f[i + 1]
        BY <3>2
      <3> HIDE DEF j
      <3>4. flatten[j] = flatten[j - 1] \o seqs[j] /\ f[j] = f[j - 1] \o seqs[j]
        BY <2>2, <2>5, <3>2
      <3>5. flatten[j] = f[j]
        BY <3>2, <3>3, <3>4
      <3>6. QED
        BY <3>5 DEF j
    <2>8. Q = Nat
      <3>1. Q \in SUBSET Nat /\ \A i \in Q : i + 1 \in Q
        BY <2>7
      <3> HIDE DEF Q
      <3>2. QED
        BY <2>6, <3>1, Numbers
    <2>9. n - 1 \in Nat /\ (n - 1) + 1 = n
      BY <1>1, <1>4
    <2>10. flatten[n] = f[n]
      BY <2>8, <2>9
    <2>11. QED
      BY <1>2, <2>1, <2>10 DEF n
  <1>5. QED
    BY <1>3, <1>4

LEMMA FlattenIn ==
  ASSUME NEW A, NEW seqs \in Seq(Seq(A))
  PROVE  FlattenSeq(seqs) \in Seq(A)
  BY FlatExists, FlattenIs

LEMMA FlattenEmpty ==
  FlattenSeq(<<>>) = <<>>
  BY DEF FlattenSeq

\* What two sequences of sequences hold, joined, is what they hold one after the other.
LEMMA FlattenConcat ==
  ASSUME NEW A, NEW seqs \in Seq(Seq(A)), NEW more \in Seq(Seq(A))
  PROVE  FlattenSeq(seqs \o more) = FlattenSeq(seqs) \o FlattenSeq(more)
  <1> DEFINE n == Len(seqs)
             k == Len(more)
             all == seqs \o more
  <1>1. PICK f : IsFlat(A, seqs, f)
    BY FlatExists
  <1>2. PICK g : IsFlat(A, more, g)
    BY FlatExists
  <1> DEFINE h == [i \in 0 .. n + k |-> IF i <= n THEN f[i] ELSE FlattenSeq(seqs) \o g[i - n]]
  <1>3. /\ n \in Nat /\ k \in Nat /\ all \in Seq(Seq(A)) /\ Len(all) = n + k
        /\ \A i \in 1 .. n + k : all[i] = IF i <= n THEN seqs[i] ELSE more[i - n]
        /\ \A i \in 1 .. k : more[i] \in Seq(A)
    BY ConcatProperties
  <1>4. FlattenSeq(seqs) = f[n] /\ FlattenSeq(more) = g[k] /\ FlattenSeq(seqs) \in Seq(A)
    BY <1>1, <1>2, FlattenIs
  <1>5. /\ f \in [0 .. n -> Seq(A)] /\ f[0] = <<>> /\ \A i \in 1 .. n : f[i] = f[i - 1] \o seqs[i]
        /\ g \in [0 .. k -> Seq(A)] /\ g[0] = <<>> /\ \A i \in 1 .. k : g[i] = g[i - 1] \o more[i]
    BY <1>1, <1>2 DEF IsFlat
  <1> HIDE DEF n, k, all
  <1>6. h \in [0 .. n + k -> Seq(A)]
    <2>1. ASSUME NEW i \in 0 .. n + k
          PROVE  (IF i <= n THEN f[i] ELSE FlattenSeq(seqs) \o g[i - n]) \in Seq(A)
      <3>1. CASE i <= n
        <4>1. i \in 0 .. n
          BY <1>3, <3>1
        <4>2. QED
          BY <1>5, <3>1, <4>1
      <3>2. CASE ~ (i <= n)
        <4>1. i - n \in 0 .. k
          BY <1>3, <3>2
        <4>2. g[i - n] \in Seq(A)
          BY <1>5, <4>1
        <4>3. QED
          BY <1>4, <3>2, <4>2, ConcatProperties
      <3>3. QED
        BY <3>1, <3>2
    <2>2. QED
      BY <2>1
  <1>7. h[0] = <<>>
    BY <1>3, <1>5
  <1>8. ASSUME NEW i \in 1 .. n + k
        PROVE  h[i] = h[i - 1] \o all[i]
    <2>1. i \in 0 .. n + k /\ i - 1 \in 0 .. n + k
      BY <1>3
    <2>2. CASE i <= n
      <3>1. i \in 1 .. n /\ i - 1 <= n
        BY <1>3, <2>2
      <3>2. h[i] = f[i] /\ h[i - 1] = f[i - 1] /\ all[i] = seqs[i]
        BY <1>3, <2>1, <2>2, <3>1
      <3>3. QED
        BY <1>5, <3>1, <3>2
    <2>3. CASE i = n + 1
      <3>1. 1 \in 1 .. k /\ ~ (i <= n) /\ i - 1 = n /\ i - n = 1
        BY <1>3, <2>3
      <3>2. h[i] = FlattenSeq(seqs) \o g[1] /\ h[i - 1] = f[n] /\ all[i] = more[1]
        <4>1. h[i] = FlattenSeq(seqs) \o g[i - n]
          BY <2>1, <3>1
        <4>2. h[i - 1] = f[i - 1]
          BY <1>3, <2>1, <3>1
        <4>3. all[i] = more[i - n]
          BY <1>3, <3>1
        <4> HIDE DEF h
        <4>4. QED
          BY <3>1, <4>1, <4>2, <4>3
      <3>3. g[1] = <<>> \o more[1] /\ more[1] \in Seq(A)
        <4> DEFINE j == i - n
        <4>1. j = 1 /\ j \in 1 .. k /\ j - 1 = 0
          BY <3>1
        <4> HIDE DEF j
        <4>2. g[j] = g[j - 1] \o more[j] /\ more[j] \in Seq(A)
          BY <1>3, <1>5, <4>1
        <4>3. QED
          BY <1>5, <4>1, <4>2
      <3>4. g[1] = more[1]
        BY <3>3, ConcatEmptySeq
      <3>5. QED
        BY <1>4, <3>2, <3>4
    <2>4. CASE ~ (i <= n) /\ i # n + 1
      <3>1. i - n \in 1 .. k /\ ~ (i - 1 <= n) /\ (i - 1) - n = (i - n) - 1 /\ (i - n) - 1 \in 0 .. k
        BY <1>3, <2>4
      <3>2. /\ h[i] = FlattenSeq(seqs) \o g[i - n]
            /\ h[i - 1] = FlattenSeq(seqs) \o g[(i - n) - 1] /\ all[i] = more[i - n]
        BY <1>3, <2>1, <2>4, <3>1
      <3>3. g[i - n] = g[(i - n) - 1] \o more[i - n] /\ g[(i - n) - 1] \in Seq(A) /\ more[i - n] \in Seq(A)
        BY <1>3, <1>5, <3>1
      <3> HIDE DEF h
      <3>4. (FlattenSeq(seqs) \o g[(i - n) - 1]) \o more[i - n]
              = FlattenSeq(seqs) \o (g[(i - n) - 1] \o more[i - n])
        <4> DEFINE p == FlattenSeq(seqs)
                   q == g[(i - n) - 1]
                   r == more[i - n]
        <4>1. p \in Seq(A) /\ q \in Seq(A) /\ r \in Seq(A)
          BY <1>4, <3>3
        <4> HIDE DEF p, q, r
        <4>2. (p \o q) \o r = p \o (q \o r)
          BY <4>1, ConcatAssociative, SMTT(60)
        <4>3. QED
          BY <4>2 DEF p, q, r
      <3>5. QED
        BY <3>2, <3>3, <3>4
    <2>5. QED
      BY <1>3, <2>2, <2>3, <2>4
  <1>9. IsFlat(A, all, h)
    <2> HIDE DEF h
    <2>1. QED
      BY <1>3, <1>6, <1>7, <1>8 DEF IsFlat
  <1>10. FlattenSeq(all) = h[n + k]
    <2> HIDE DEF h
    <2>1. QED
      BY <1>3, <1>9, FlattenIs
  <1>11. h[n + k] = FlattenSeq(seqs) \o FlattenSeq(more)
    <2>1. n + k \in 0 .. n + k
      BY <1>3
    <2>2. CASE k = 0
      <3>1. h[n + k] = f[n] /\ FlattenSeq(more) = <<>>
        BY <1>3, <1>4, <1>5, <2>1, <2>2
      <3>2. FlattenSeq(seqs) \o <<>> = FlattenSeq(seqs)
        BY <1>4, ConcatEmptySeq
      <3>3. QED
        BY <1>4, <3>1, <3>2
    <2>3. CASE k # 0
      <3>1. ~ (n + k <= n) /\ (n + k) - n = k
        BY <1>3, <2>3
      <3>2. QED
        BY <1>4, <2>1, <3>1
    <2>4. QED
      BY <2>2, <2>3
  <1>12. QED
    BY <1>10, <1>11 DEF all

LEMMA FlattenOne ==
  ASSUME NEW A, NEW s \in Seq(A)
  PROVE  FlattenSeq(<<s>>) = s
  <1> DEFINE f == [i \in 0 .. 1 |-> IF i = 0 THEN <<>> ELSE s]
  <1>1. <<s>> \in Seq(Seq(A)) /\ Len(<<s>>) = 1 /\ <<s>>[1] = s
    OBVIOUS
  <1>2. f \in [0 .. 1 -> Seq(A)] /\ f[0] = <<>> /\ f[1] = s
    OBVIOUS
  <1>3. <<>> \o s = s
    BY ConcatEmptySeq
  <1> HIDE DEF f
  <1>4. ASSUME NEW i \in 1 .. 1
        PROVE  f[i] = f[i - 1] \o <<s>>[i]
    <2>1. i = 1 /\ i - 1 = 0
      OBVIOUS
    <2>2. QED
      BY <1>1, <1>2, <1>3, <2>1
  <1>5. IsFlat(A, <<s>>, f)
    BY <1>1, <1>2, <1>4 DEF IsFlat
  <1>6. QED
    BY <1>1, <1>2, <1>5, FlattenIs

\* One more sequence.
LEMMA FlattenAppend ==
  ASSUME NEW A, NEW seqs \in Seq(Seq(A)), NEW s \in Seq(A)
  PROVE  FlattenSeq(Append(seqs, s)) = FlattenSeq(seqs) \o s
  <1>1. Append(seqs, s) = seqs \o <<s>> /\ <<s>> \in Seq(Seq(A))
    BY AppendIsConcat
  <1>2. FlattenSeq(<<s>>) = s
    BY FlattenOne
  <1> DEFINE one == <<s>>
  <1> HIDE DEF one
  <1>3. FlattenSeq(seqs \o one) = FlattenSeq(seqs) \o FlattenSeq(one)
    <2>1. one \in Seq(Seq(A))
      BY <1>1 DEF one
    <2>2. QED
      BY <2>1, FlattenConcat
  <1>4. QED
    BY <1>1, <1>2, <1>3 DEF one

\* What the joined sequences hold.
Occurs(x, s) == \E i \in 1 .. Len(s) : s[i] = x

LEMMA FlattenHolds ==
  ASSUME NEW A, NEW seqs \in Seq(Seq(A)), NEW x
  PROVE  Occurs(x, FlattenSeq(seqs)) <=> \E j \in 1 .. Len(seqs) : Occurs(x, seqs[j])
  <1> DEFINE n == Len(seqs)
             In(s) == Occurs(x, s)
  <1>1. PICK f : IsFlat(A, seqs, f)
    BY FlatExists
  <1>2. n \in Nat /\ \A i \in 1 .. n : seqs[i] \in Seq(A)
    OBVIOUS
  <1>3. FlattenSeq(seqs) = f[n]
    BY <1>1, FlattenIs
  <1> HIDE DEF n
  <1>4. f \in [0 .. n -> Seq(A)] /\ f[0] = <<>> /\ \A i \in 1 .. n : f[i] = f[i - 1] \o seqs[i]
    BY <1>1 DEF IsFlat, n
  <1> USE DEF Occurs
  <1>5. ASSUME NEW s \in Seq(A), NEW t \in Seq(A)
        PROVE  In(s \o t) <=> In(s) \/ In(t)
    <2>1. /\ Len(s \o t) = Len(s) + Len(t) /\ Len(s) \in Nat /\ Len(t) \in Nat
          /\ \A i \in 1 .. Len(s) + Len(t) :
               (s \o t)[i] = IF i <= Len(s) THEN s[i] ELSE t[i - Len(s)]
      BY ConcatProperties
    <2>2. ASSUME NEW i \in 1 .. Len(s \o t), (s \o t)[i] = x
          PROVE  In(s) \/ In(t)
      <3>1. CASE i <= Len(s)
        <4>1. i \in 1 .. Len(s) /\ s[i] = x
          BY <2>1, <2>2, <3>1
        <4>2. QED
          BY <4>1
      <3>2. CASE ~ (i <= Len(s))
        <4>1. i - Len(s) \in 1 .. Len(t) /\ t[i - Len(s)] = x
          BY <2>1, <2>2, <3>2
        <4>2. QED
          BY <4>1
      <3>3. QED
        BY <3>1, <3>2
    <2>3. ASSUME NEW i \in 1 .. Len(s), s[i] = x
          PROVE  In(s \o t)
      <3>1. i \in 1 .. Len(s \o t) /\ (s \o t)[i] = x
        BY <2>1, <2>3
      <3>2. QED
        BY <3>1
    <2>4. ASSUME NEW i \in 1 .. Len(t), t[i] = x
          PROVE  In(s \o t)
      <3> DEFINE j == i + Len(s)
      <3>1. j \in 1 .. Len(s) + Len(t) /\ ~ (j <= Len(s)) /\ j - Len(s) = i
        BY <2>1
      <3> HIDE DEF j
      <3>2. (s \o t)[j] = t[j - Len(s)]
        BY <2>1, <3>1
      <3>3. QED
        BY <2>1, <2>4, <3>1, <3>2
    <2>5. QED
      BY <2>2, <2>3, <2>4
  <1> DEFINE Q == {m \in Nat : m <= n => (In(f[m]) <=> \E j \in 1 .. m : In(seqs[j]))}
  <1> HIDE DEF In, Occurs
  <1>6. 0 \in Q
    <2>1. 1 .. 0 = {} /\ ~ In(<<>>)
      BY DEF In, Occurs
    <2>2. QED
      BY <1>4, <2>1
  <1>7. ASSUME NEW m \in Q
        PROVE  m + 1 \in Q
    <2>1. SUFFICES ASSUME m + 1 <= n
                   PROVE  In(f[m + 1]) <=> \E j \in 1 .. m + 1 : In(seqs[j])
      OBVIOUS
    <2>2. m \in Nat /\ m <= n /\ m + 1 \in 1 .. n /\ (m + 1) - 1 = m /\ m \in 0 .. n
      BY <1>2, <2>1
    <2>3. f[m + 1] = f[m] \o seqs[m + 1] /\ f[m] \in Seq(A) /\ seqs[m + 1] \in Seq(A)
      BY <1>2, <1>4, <2>2
    <2>4. In(f[m + 1]) <=> In(f[m]) \/ In(seqs[m + 1])
      BY <1>5, <2>3
    <2>5. In(f[m]) <=> \E j \in 1 .. m : In(seqs[j])
      BY <2>2
    <2>6. \A j : j \in 1 .. m + 1 <=> j \in 1 .. m \/ j = m + 1
      BY <2>2
    <2>7. QED
      BY <2>4, <2>5, <2>6
  <1>8. Q = Nat
    <2>1. Q \in SUBSET Nat /\ \A m \in Q : m + 1 \in Q
      BY <1>7
    <2> HIDE DEF Q
    <2>2. QED
      BY <1>6, <2>1, Numbers
  <1>9. In(f[n]) <=> \E j \in 1 .. n : In(seqs[j])
    BY <1>2, <1>8
  <1>10. QED
    BY <1>3, <1>9 DEF In, n

\* Joining in two goes.
LEMMA FlattenFlatten ==
  ASSUME NEW A, NEW parts \in Seq(Seq(Seq(A))), NEW base \in Seq(Seq(A)), Len(parts) = Len(base),
         \A i \in 1 .. Len(base) : FlattenSeq(parts[i]) = base[i]
  PROVE  FlattenSeq(FlattenSeq(parts)) = FlattenSeq(base)
  <1> DEFINE n == Len(base)
  <1>1. PICK f : IsFlat(Seq(A), parts, f)
    BY FlatExists
  <1> DEFINE h == [i \in 0 .. n |-> FlattenSeq(f[i])]
  <1>2. n \in Nat /\ \A i \in 1 .. n : parts[i] \in Seq(Seq(A))
    OBVIOUS
  <1>3. FlattenSeq(parts) = f[n]
    BY <1>1, FlattenIs
  <1>4. \A i \in 1 .. n : FlattenSeq(parts[i]) = base[i]
    OBVIOUS
  <1> HIDE DEF n
  <1>5. /\ f \in [0 .. n -> Seq(Seq(A))] /\ f[0] = <<>>
        /\ \A i \in 1 .. n : f[i] = f[i - 1] \o parts[i]
    BY <1>1 DEF IsFlat, n
  <1>6. h \in [0 .. n -> Seq(A)]
    BY <1>5, FlattenIn
  <1>7. h[0] = <<>>
    BY <1>2, <1>5, FlattenEmpty
  <1>8. ASSUME NEW i \in 1 .. n
        PROVE  h[i] = h[i - 1] \o base[i]
    <2>1. i \in 0 .. n /\ i - 1 \in 0 .. n
      BY <1>2
    <2>2. f[i] = f[i - 1] \o parts[i] /\ f[i - 1] \in Seq(Seq(A)) /\ parts[i] \in Seq(Seq(A))
      BY <1>2, <1>5, <2>1
    <2>3. FlattenSeq(f[i]) = FlattenSeq(f[i - 1]) \o FlattenSeq(parts[i])
      BY <2>2, FlattenConcat
    <2>4. QED
      BY <1>4, <2>1, <2>3
  <1>9. IsFlat(A, base, h)
    <2> HIDE DEF h
    <2>1. QED
      BY <1>6, <1>7, <1>8 DEF IsFlat, n
  <1>10. FlattenSeq(base) = h[n]
    <2> HIDE DEF h
    <2>1. QED
      BY <1>9, FlattenIs DEF n
  <1>11. h[n] = FlattenSeq(f[n])
    BY <1>2
  <1>12. QED
    BY <1>3, <1>10, <1>11


\* A group is started or the last one is extended.
LEMMA LimitStepIs ==
  ASSUME NEW groups \in Seq(Seq(Entry)), NEW e \in Entry
  PROVE  /\ LimitStep(groups, e) \in Seq(Seq(Entry))
         /\ \/ LimitStep(groups, e) = Append(groups, <<e>>)
            \/ \E front \in Seq(Seq(Entry)), last \in Seq(Entry) :
                 /\ groups = Append(front, last) /\ Len(last) < ShardEntries
                 /\ LimitStep(groups, e) = Append(front, Append(last, e))
  <1>1. \/ LimitStep(groups, e) = Append(groups, <<e>>)
        \/ /\ groups # <<>> /\ Len(Last(groups)) < ShardEntries
           /\ LimitStep(groups, e) = [groups EXCEPT ![Len(groups)] = Append(groups[Len(groups)], e)]
    BY Zenon DEF LimitStep
  <1>2. CASE LimitStep(groups, e) = Append(groups, <<e>>)
    <2>1. <<e>> \in Seq(Entry)
      OBVIOUS
    <2>2. Append(groups, <<e>>) \in Seq(Seq(Entry))
      BY <2>1, AppendProperties
    <2>3. QED
      BY <1>2, <2>2
  <1>3. CASE /\ groups # <<>> /\ Len(Last(groups)) < ShardEntries
             /\ LimitStep(groups, e) = [groups EXCEPT ![Len(groups)] = Append(groups[Len(groups)], e)]
    <2>1. PICK front \in Seq(Seq(Entry)), last \in Seq(Entry) : groups = Append(front, last)
      BY <1>3, SequenceEmptyOrAppend
    <2> DEFINE n == Len(front)
               new == Append(last, e)
               all == Append(front, new)
               ext == [groups EXCEPT ![Len(groups)] = new]
    <2>2. /\ n \in Nat /\ Len(groups) = n + 1 /\ groups[n + 1] = last
          /\ \A i \in 1 .. n : groups[i] = front[i]
      BY <2>1, AppendProperties, LenProperties
    <2>3. new \in Seq(Entry)
      BY AppendProperties
    <2> HIDE DEF new
    <2>4. /\ all \in Seq(Seq(Entry)) /\ Len(all) = n + 1 /\ all[n + 1] = new
          /\ \A i \in 1 .. n : all[i] = front[i]
      BY <2>3, AppendProperties
    <2>5. /\ ext \in Seq(Seq(Entry)) /\ Len(ext) = n + 1
          /\ \A j \in 1 .. n + 1 : ext[j] = IF j = n + 1 THEN new ELSE groups[j]
      <3>1. n + 1 \in 1 .. Len(groups)
        BY <2>2
      <3>2. QED
        BY <2>2, <2>3, <3>1, ExceptSeq
    <2> HIDE DEF n, all, ext
    <2>6. ext = all
      <3>1. ASSUME NEW i \in 1 .. n + 1
            PROVE  ext[i] = all[i]
        <4>1. CASE i = n + 1
          BY <2>4, <2>5, <4>1
        <4>2. CASE i # n + 1
          <5>1. i \in 1 .. n
            BY <2>2, <4>2
          <5>2. ext[i] = groups[i]
            BY <2>5, <4>2
          <5>3. QED
            BY <2>2, <2>4, <5>1, <5>2
        <4>3. QED
          BY <4>1, <4>2
      <3>2. QED
        BY <2>4, <2>5, <3>1, SeqEqual
    <2>7. LimitStep(groups, e) = ext
      BY <1>3, <2>2 DEF ext, new
    <2>8. Len(last) < ShardEntries
      BY <1>3, <2>2 DEF Last
    <2>9. QED
      BY <2>1, <2>4, <2>6, <2>7, <2>8 DEF all, new
  <1>4. QED
    BY <1>1, <1>2, <1>3

LEMMA LimitFold ==
  ASSUME NEW seq \in Seq(Entry), NEW base \in Seq(Seq(Entry)), NEW P, base \in P[0],
         \A m \in 0 .. Len(seq) - 1 : \A a \in Seq(Seq(Entry)) :
           a \in P[m] => LimitStep(a, seq[m + 1]) \in P[m + 1]
  PROVE  /\ FoldLeft(LimitStep, base, seq) \in Seq(Seq(Entry))
         /\ FoldLeft(LimitStep, base, seq) \in P[Len(seq)]
  <1> DEFINE n == Len(seq)
             D == DOMAIN seq
             Eq(f) == f = [s \in SUBSET D |->
                             IF s = {} THEN base ELSE LimitStep(f[s \ {Max(s)}], seq[Max(s)])]
             iter == CHOOSE f : Eq(f)
             St == [p \in Seq(Seq(Entry)) \X (1 .. n) |-> LimitStep(p[1], seq[p[2]])]
  <1>1. FoldLeft(LimitStep, base, seq) = iter[D]
    BY DEF FoldLeft, MapThenFoldSet
  <1>2. n \in Nat /\ D = 1 .. n /\ \A i \in D : seq[i] \in Entry
    OBVIOUS
  <1>3. \A m \in 0 .. n - 1 : \A a \in Seq(Seq(Entry)) : a \in P[m] => LimitStep(a, seq[m + 1]) \in P[m + 1]
    OBVIOUS
  <1> HIDE DEF n, D
  <1>4. ASSUME NEW a \in Seq(Seq(Entry)), NEW i \in 1 .. n
        PROVE  LimitStep(a, seq[i]) \in Seq(Seq(Entry))
    BY <1>2, LimitStepIs
  <1>5. St \in [Seq(Seq(Entry)) \X (1 .. n) -> Seq(Seq(Entry))]
    BY <1>4
  <1>6. PICK f \in [SUBSET D -> Seq(Seq(Entry))] :
          \A s \in SUBSET D : f[s] = IF s = {} THEN base ELSE St[<<f[s \ {Max(s)}], Max(s)>>]
    <2> HIDE DEF St, iter, Eq
    <2>1. \E f \in [SUBSET (1 .. n) -> Seq(Seq(Entry))] : IsFold(n, base, St, f)
      BY <1>2, <1>5, FoldExists, Zenon
    <2>2. QED
      BY <1>2, <2>1 DEF IsFold
  <1>7. Eq(f)
    <2>1. ASSUME NEW s \in SUBSET D, s # {}
          PROVE  f[s] = LimitStep(f[s \ {Max(s)}], seq[Max(s)])
      <3>1. Max(s) \in 1 .. n /\ s \ {Max(s)} \in SUBSET D
        BY <1>2, <2>1, MaxIsIn
      <3>2. QED
        BY <1>6, <2>1, <3>1
    <2>2. \A s \in SUBSET D : f[s] = IF s = {} THEN base
                                     ELSE LimitStep(f[s \ {Max(s)}], seq[Max(s)])
      BY <1>6, <2>1
    <2>3. f = [s \in SUBSET D |-> f[s]]
      OBVIOUS
    <2>4. QED
      BY <2>2, <2>3
  <1>8. Eq(iter)
    BY <1>7
  <1> HIDE DEF iter
  <1>9. \A s \in SUBSET D :
          iter[s] = IF s = {} THEN base ELSE LimitStep(iter[s \ {Max(s)}], seq[Max(s)])
    BY <1>8
  <1>10. ASSUME NEW s \in SUBSET D, s # {}, iter[s \ {Max(s)}] \in Seq(Seq(Entry))
         PROVE  iter[s] = St[<<iter[s \ {Max(s)}], Max(s)>>]
    BY <1>2, <1>9, <1>10, MaxIsIn
  <1>11. \A m \in 0 .. n - 1 : \A a \in Seq(Seq(Entry)) : a \in P[m] => St[<<a, m + 1>>] \in P[m + 1]
    BY <1>2, <1>3
  <1>12. iter[1 .. n] \in Seq(Seq(Entry)) /\ iter[1 .. n] \in P[n]
    <2> HIDE DEF St, Eq
    <2>1. IsFoldIn(n, Seq(Seq(Entry)), base, St, iter)
      BY <1>2, <1>9, <1>10 DEF IsFoldIn
    <2>2. Keeps(n, Seq(Seq(Entry)), St, P)
      BY <1>11 DEF Keeps
    <2>3. QED
      BY <1>2, <1>5, <2>1, <2>2, FoldHolds, Zenon
  <1>13. QED
    BY <1>1, <1>2, <1>12 DEF n

\* The groups of a bucket hold its entries in their order, and none is empty or over the limit.
Grouping(seq, m, groups) ==
  /\ FlattenSeq(groups) = SubSeq(seq, 1, m)
  /\ \A i \in 1 .. Len(groups) : groups[i] # <<>> /\ Len(groups[i]) <= ShardEntries

LEMMA GroupingStep ==
  ASSUME NEW seq \in Seq(Entry), NEW m \in 0 .. Len(seq) - 1, NEW groups \in Seq(Seq(Entry)),
         Grouping(seq, m, groups)
  PROVE  Grouping(seq, m + 1, LimitStep(groups, seq[m + 1]))
  <1> DEFINE e == seq[m + 1]
             one == <<e>>
             new == LimitStep(groups, e)
  <1>1. m \in Nat /\ m + 1 \in 1 .. Len(seq) /\ Len(seq) \in Nat
    OBVIOUS
  <1>2. e \in Entry
    BY <1>1
  <1>3. SubSeq(seq, 1, m + 1) = SubSeq(seq, 1, m) \o one
    <2>1. 1 \in 1 .. Len(seq) /\ m + 1 \in 1 .. Len(seq)
      BY <1>1
    <2>2. SubSeq(seq, 1, m + 1) = SubSeq(seq, 1, (m + 1) - 1) \o one
      BY <2>1, SubSeqRecursiveSecond
    <2>3. (m + 1) - 1 = m
      BY <1>1
    <2>4. QED
      BY <2>2, <2>3
  <1> HIDE DEF e
  <1>4. one \in Seq(Entry) /\ Len(one) = 1 /\ one # <<>>
    BY <1>2
  <1>5. ShardEntries \in Nat \ {0}
    BY ArchiveAssumption
  <1>6. FlattenSeq(groups) = SubSeq(seq, 1, m)
        /\ \A i \in 1 .. Len(groups) : groups[i] # <<>> /\ Len(groups[i]) <= ShardEntries
    BY DEF Grouping
  <1>7. CASE new = Append(groups, one)
    <2> HIDE DEF one, new
    <2>1. FlattenSeq(new) = FlattenSeq(groups) \o one
      BY <1>4, <1>7, FlattenAppend
    <2>2. /\ Len(new) = Len(groups) + 1 /\ new[Len(groups) + 1] = one /\ Len(groups) \in Nat
          /\ \A i \in 1 .. Len(groups) : new[i] = groups[i]
      BY <1>4, <1>7, AppendProperties, LenProperties
    <2>3. ASSUME NEW i \in 1 .. Len(new)
          PROVE  new[i] # <<>> /\ Len(new[i]) <= ShardEntries
      <3>1. i \in 1 .. Len(groups) \/ i = Len(groups) + 1
        BY <2>2
      <3>2. CASE i \in 1 .. Len(groups)
        <4>1. new[i] = groups[i]
          BY <2>2, <3>2
        <4>2. QED
          BY <1>6, <3>2, <4>1
      <3>3. CASE i = Len(groups) + 1
        <4>1. new[i] = one
          BY <2>2, <3>3
        <4>2. 1 <= ShardEntries
          BY <1>5
        <4>3. Len(new[i]) = Len(one)
          BY <4>1, Zenon
        <4>4. QED
          BY <1>4, <4>1, <4>2, <4>3
      <3>4. QED
        BY <3>1, <3>2, <3>3
    <2>4. FlattenSeq(new) = SubSeq(seq, 1, m + 1)
      BY <1>3, <1>6, <2>1
    <2>5. Grouping(seq, m + 1, new)
      BY <2>3, <2>4 DEF Grouping
    <2>6. QED
      BY <2>5 DEF new, e
  <1>8. CASE \E front \in Seq(Seq(Entry)), last \in Seq(Entry) :
               /\ groups = Append(front, last) /\ Len(last) < ShardEntries
               /\ new = Append(front, Append(last, e))
    <2>1. PICK front \in Seq(Seq(Entry)), last \in Seq(Entry) :
               /\ groups = Append(front, last) /\ Len(last) < ShardEntries
               /\ new = Append(front, Append(last, e))
      BY <1>8
    <2> DEFINE more == Append(last, e)
    <2>2. more \in Seq(Entry) /\ Len(more) = Len(last) + 1 /\ Len(last) \in Nat /\ more # <<>>
          /\ more = last \o one
      BY <1>2, AppendProperties, AppendIsConcat, LenProperties
    <2> HIDE DEF one, new, more
    <2>3. new = Append(front, more)
      BY <2>1 DEF more
    <2>4. FlattenSeq(groups) = FlattenSeq(front) \o last /\ FlattenSeq(new) = FlattenSeq(front) \o more
      BY <2>1, <2>2, <2>3, FlattenAppend
    <2>5. FlattenSeq(front) \in Seq(Entry)
      BY FlattenIn
    <2>6. (FlattenSeq(front) \o last) \o one = FlattenSeq(front) \o (last \o one)
      <3> DEFINE p == FlattenSeq(front)
      <3>1. p \in Seq(Entry) /\ last \in Seq(Entry) /\ one \in Seq(Entry)
        BY <1>4, <2>5
      <3> HIDE DEF p
      <3>2. (p \o last) \o one = p \o (last \o one)
        BY <3>1, ConcatAssociative, SMTT(60)
      <3>3. QED
        BY <3>2 DEF p
    <2>7. FlattenSeq(new) = SubSeq(seq, 1, m + 1)
      BY <1>3, <1>6, <2>2, <2>4, <2>6
    <2>8. /\ Len(front) \in Nat /\ Len(groups) = Len(front) + 1 /\ Len(new) = Len(front) + 1
          /\ \A i \in 1 .. Len(front) : groups[i] = front[i] /\ new[i] = front[i]
          /\ new[Len(front) + 1] = more
      BY <2>1, <2>2, <2>3, AppendProperties, LenProperties
    <2>9. ASSUME NEW i \in 1 .. Len(new)
          PROVE  new[i] # <<>> /\ Len(new[i]) <= ShardEntries
      <3>1. CASE i \in 1 .. Len(front)
        <4>1. i \in 1 .. Len(groups) /\ new[i] = groups[i]
          BY <2>8, <3>1
        <4>2. QED
          BY <1>6, <4>1
      <3>2. CASE i = Len(front) + 1
        BY <1>5, <2>1, <2>2, <2>8, <3>2
      <3>3. QED
        BY <2>8, <3>1, <3>2
    <2>10. Grouping(seq, m + 1, new)
      BY <2>7, <2>9 DEF Grouping
    <2>11. QED
      BY <2>10 DEF new, e
  <1>9. QED
    BY <1>2, <1>7, <1>8, LimitStepIs

LEMMA GroupsOf ==
  ASSUME NEW seq \in Seq(Entry)
  PROVE  /\ FoldLeft(LimitStep, <<>>, seq) \in Seq(Seq(Entry))
         /\ FlattenSeq(FoldLeft(LimitStep, <<>>, seq)) = seq
         /\ \A i \in 1 .. Len(FoldLeft(LimitStep, <<>>, seq)) :
              /\ FoldLeft(LimitStep, <<>>, seq)[i] # <<>>
              /\ Len(FoldLeft(LimitStep, <<>>, seq)[i]) <= ShardEntries
  <1> DEFINE n == Len(seq)
             P == [m \in 0 .. n |-> {a \in Seq(Seq(Entry)) : Grouping(seq, m, a)}]
             G == FoldLeft(LimitStep, <<>>, seq)
  <1>1. n \in Nat /\ <<>> \in Seq(Seq(Entry)) /\ Len(<<>>) = 0 /\ 0 \in 0 .. n /\ n \in 0 .. n
    OBVIOUS
  <1>2. <<>> \in P[0]
    <2>1. SubSeq(seq, 1, 0) = <<>>
      BY SubSeqEmpty
    <2>2. \A i : i \notin 1 .. Len(<<>>)
      BY <1>1
    <2>3. FlattenSeq(<<>>) = SubSeq(seq, 1, 0)
      BY <2>1, FlattenEmpty
    <2>4. Grouping(seq, 0, <<>>)
      BY <2>2, <2>3, Zenon DEF Grouping
    <2>5. QED
      BY <1>1, <2>4
  <1>3. \A m \in 0 .. Len(seq) - 1 : \A b \in Seq(Seq(Entry)) :
          b \in P[m] => LimitStep(b, seq[m + 1]) \in P[m + 1]
    <2>1. ASSUME NEW m \in 0 .. Len(seq) - 1, NEW b \in Seq(Seq(Entry)), b \in P[m]
          PROVE  LimitStep(b, seq[m + 1]) \in P[m + 1]
      <3>1. m \in 0 .. n /\ m + 1 \in 0 .. n /\ m + 1 \in 1 .. n
        BY <1>1
      <3>2. Grouping(seq, m, b)
        BY <2>1, <3>1
      <3>3. Grouping(seq, m + 1, LimitStep(b, seq[m + 1]))
        BY <3>2, GroupingStep
      <3>4. LimitStep(b, seq[m + 1]) \in Seq(Seq(Entry))
        <4>1. seq[m + 1] \in Entry
          BY <3>1
        <4>2. QED
          BY <4>1, LimitStepIs
      <3> HIDE DEF P
      <3>5. QED
        BY <3>1, <3>3, <3>4 DEF P
    <2> HIDE DEF P
    <2>2. QED
      BY <2>1
  <1>4. G \in Seq(Seq(Entry)) /\ G \in P[n]
    <2> HIDE DEF P
    <2>1. QED
      BY <1>1, <1>2, <1>3, LimitFold
  <1>5. Grouping(seq, n, G)
    <2> HIDE DEF G
    <2>1. QED
      BY <1>1, <1>4
  <1>6. SubSeq(seq, 1, n) = seq
    BY SubSeqFull
  <1> HIDE DEF G
  <1>7. FlattenSeq(G) = seq /\ \A i \in 1 .. Len(G) : G[i] # <<>> /\ Len(G[i]) <= ShardEntries
    BY <1>5, <1>6 DEF Grouping
  <1>8. QED
    BY <1>4, <1>7 DEF G

LEMMA ConcatLists ==
  ASSUME NEW A, NEW s \in Seq(A), NEW t \in Seq(A), NEW S, NEW T, Lists(s, S), Lists(t, T),
         S \cap T = {}
  PROVE  Lists(s \o t, S \cup T)
  <1> DEFINE n == Len(s)
             k == Len(t)
             st == s \o t
  <1>1. /\ n \in Nat /\ k \in Nat /\ Len(st) = n + k
        /\ \A i \in 1 .. n + k : st[i] = IF i <= n THEN s[i] ELSE t[i - n]
    BY ConcatProperties, LenProperties
  <1>2. /\ \A i \in 1 .. n : s[i] \in S
        /\ \A x \in S : \E i \in 1 .. n : s[i] = x
        /\ \A i, j \in 1 .. n : s[i] = s[j] => i = j
        /\ \A i \in 1 .. k : t[i] \in T
        /\ \A x \in T : \E i \in 1 .. k : t[i] = x
        /\ \A i, j \in 1 .. k : t[i] = t[j] => i = j
    BY DEF Lists
  <1> HIDE DEF n, k, st
  <1>3. ASSUME NEW i \in 1 .. n + k
        PROVE  \/ i \in 1 .. n /\ st[i] = s[i] /\ st[i] \in S
               \/ i - n \in 1 .. k /\ ~ (i \in 1 .. n) /\ st[i] = t[i - n] /\ st[i] \in T
    <2>1. CASE i <= n
      <3>1. i \in 1 .. n
        BY <1>1, <2>1
      <3>2. QED
        BY <1>1, <1>2, <2>1, <3>1
    <2>2. CASE ~ (i <= n)
      <3>1. i - n \in 1 .. k /\ ~ (i \in 1 .. n)
        BY <1>1, <2>2
      <3>2. st[i] = t[i - n]
        BY <1>1, <2>2
      <3>3. QED
        BY <1>2, <3>1, <3>2
    <2>3. QED
      BY <2>1, <2>2
  <1>4. \A x \in S : \E i \in 1 .. n + k : st[i] = x
    <2>1. ASSUME NEW x \in S
          PROVE  \E i \in 1 .. n + k : st[i] = x
      <3>1. PICK i \in 1 .. n : s[i] = x
        BY <1>2
      <3>2. i \in 1 .. n + k
        BY <1>1
      <3>3. st[i] = s[i]
        BY <1>1, <3>2
      <3>4. QED
        BY <3>1, <3>2, <3>3
    <2>2. QED
      BY <2>1
  <1>5. \A x \in T : \E i \in 1 .. n + k : st[i] = x
    <2>1. ASSUME NEW x \in T
          PROVE  \E i \in 1 .. n + k : st[i] = x
      <3>1. PICK i \in 1 .. k : t[i] = x
        BY <1>2
      <3> DEFINE j == i + n
      <3>2. j \in 1 .. n + k /\ ~ (j <= n) /\ j - n = i
        BY <1>1
      <3> HIDE DEF j
      <3>3. st[j] = t[j - n]
        BY <1>1, <3>2
      <3>4. QED
        BY <3>1, <3>2, <3>3
    <2>2. QED
      BY <2>1
  <1>6. ASSUME NEW i \in 1 .. n + k, NEW j \in 1 .. n + k, st[i] = st[j]
        PROVE  i = j
    <2>1. CASE i \in 1 .. n /\ j \in 1 .. n
      <3>1. st[i] = s[i] /\ st[j] = s[j]
        BY <1>3, <2>1
      <3>2. QED
        BY <1>2, <1>6, <2>1, <3>1
    <2>2. CASE ~ (i \in 1 .. n) /\ ~ (j \in 1 .. n)
      <3>1. st[i] = t[i - n] /\ st[j] = t[j - n] /\ i - n \in 1 .. k /\ j - n \in 1 .. k
        BY <1>3, <2>2
      <3>2. i - n = j - n
        BY <1>2, <1>6, <3>1
      <3>3. QED
        BY <1>1, <3>2
    <2>3. CASE i \in 1 .. n /\ ~ (j \in 1 .. n)
      <3>1. st[i] \in S /\ st[j] \in T
        BY <1>3, <2>3
      <3>2. QED
        BY <1>6, <3>1
    <2>4. CASE ~ (i \in 1 .. n) /\ j \in 1 .. n
      <3>1. st[i] \in T /\ st[j] \in S
        BY <1>3, <2>4
      <3>2. QED
        BY <1>6, <3>1
    <2>5. QED
      BY <2>1, <2>2, <2>3, <2>4
  <1>7. \A i \in 1 .. n + k : st[i] \in S \cup T
    BY <1>3
  <1>8. Lists(st, S \cup T)
    BY <1>1, <1>4, <1>5, <1>6, <1>7 DEF Lists
  <1>9. QED
    BY <1>8 DEF st

\* Sequences that list disjoint sets list their union when joined.
LEMMA FlattenLists ==
  ASSUME NEW A, NEW seqs \in Seq(Seq(A)), NEW S, NEW all,
         \A j \in 1 .. Len(seqs) : Lists(seqs[j], S[j]),
         \A i, j \in 1 .. Len(seqs) : i # j => S[i] \cap S[j] = {},
         \A x : x \in all <=> \E j \in 1 .. Len(seqs) : x \in S[j]
  PROVE  Lists(FlattenSeq(seqs), all)
  <1> DEFINE n == Len(seqs)
             U(m) == UNION {S[j] : j \in 1 .. m}
  <1>1. PICK f : IsFlat(A, seqs, f)
    BY FlatExists
  <1>2. /\ n \in Nat /\ \A i \in 1 .. n : seqs[i] \in Seq(A)
        /\ \A j \in 1 .. n : Lists(seqs[j], S[j])
        /\ \A i, j \in 1 .. n : i # j => S[i] \cap S[j] = {}
    OBVIOUS
  <1>3. FlattenSeq(seqs) = f[n]
    BY <1>1, FlattenIs
  <1> HIDE DEF n
  <1>4. f \in [0 .. n -> Seq(A)] /\ f[0] = <<>> /\ \A i \in 1 .. n : f[i] = f[i - 1] \o seqs[i]
    BY <1>1 DEF IsFlat, n
  <1> DEFINE Q == {m \in Nat : m <= n => Lists(f[m], U(m))}
  <1>5. 0 \in Q
    <2>1. 1 .. 0 = {} /\ \A i : i \notin 1 .. Len(<<>>)
      OBVIOUS
    <2>2. U(0) = {}
      BY <2>1
    <2>3. Lists(<<>>, {})
      BY <2>1, Zenon DEF Lists
    <2> HIDE DEF U
    <2>4. QED
      BY <1>4, <2>2, <2>3
  <1>6. ASSUME NEW m \in Q
        PROVE  m + 1 \in Q
    <2>1. SUFFICES ASSUME m + 1 <= n
                   PROVE  Lists(f[m + 1], U(m + 1))
      OBVIOUS
    <2>2. m \in Nat /\ m <= n /\ m + 1 \in 1 .. n /\ (m + 1) - 1 = m /\ m \in 0 .. n
      BY <1>2, <2>1
    <2>3. f[m + 1] = f[m] \o seqs[m + 1] /\ f[m] \in Seq(A) /\ seqs[m + 1] \in Seq(A)
      BY <1>2, <1>4, <2>2
    <2>4. Lists(f[m], U(m)) /\ Lists(seqs[m + 1], S[m + 1])
      BY <1>2, <2>2
    <2>5. \A j : j \in 1 .. m + 1 <=> j \in 1 .. m \/ j = m + 1
      BY <2>2
    <2>6. U(m + 1) = U(m) \cup S[m + 1]
      BY <2>5
    <2>7. U(m) \cap S[m + 1] = {}
      <3>1. ASSUME NEW j \in 1 .. m
            PROVE  S[j] \cap S[m + 1] = {}
        <4>1. j \in 1 .. n /\ j # m + 1
          BY <1>2, <2>2
        <4>2. QED
          BY <1>2, <2>2, <4>1
      <3>2. QED
        BY <3>1
    <2> DEFINE s == f[m]
               t == seqs[m + 1]
               X == U(m)
               Y == S[m + 1]
    <2>8. /\ s \in Seq(A) /\ t \in Seq(A) /\ Lists(s, X) /\ Lists(t, Y) /\ X \cap Y = {}
          /\ f[m + 1] = s \o t /\ U(m + 1) = X \cup Y
      BY <2>3, <2>4, <2>6, <2>7
    <2> HIDE DEF U, s, t, X, Y
    <2>9. Lists(s \o t, X \cup Y)
      BY <2>8, ConcatLists
    <2>10. QED
      BY <2>8, <2>9
  <1>7. Q = Nat
    <2>1. Q \in SUBSET Nat /\ \A m \in Q : m + 1 \in Q
      BY <1>6
    <2> HIDE DEF Q
    <2>2. QED
      BY <1>5, <2>1, Numbers
  <1>8. Lists(f[n], U(n))
    <2>1. n \in Q
      BY <1>2, <1>7
    <2> HIDE DEF U
    <2>2. n <= n => Lists(f[n], U(n))
      BY <2>1
    <2>3. QED
      BY <1>2, <2>2
  <1>9. U(n) = all
    BY DEF n
  <1> HIDE DEF U
  <1>10. QED
    BY <1>3, <1>8, <1>9

\* The groups that the limits force: together they list the entries, none is empty or over the limit,
\* and none mixes entries of two release volumes.
Uniform(group) ==
  /\ group # <<>> /\ Len(group) <= ShardEntries
  /\ \E v \in Volume : \A k \in 1 .. Len(group) : ReleaseVolume(group[k]) = v

LEMMA BaseGroupsAre ==
  ASSUME SourcesValid, NEW entries \in SUBSET Entry
  PROVE  /\ BaseGroups(entries) \in Seq(Seq(Entry))
         /\ Lists(FlattenSeq(BaseGroups(entries)), entries)
         /\ \A i \in 1 .. Len(BaseGroups(entries)) : Uniform(BaseGroups(entries)[i])
  <1> DEFINE G == [v \in Volume |-> FoldLeft(LimitStep, <<>>, Bucket(entries, v))]
             B == [v \in Volume |-> Bucket(entries, v)]
             S == [v \in Volume |-> {e \in entries : ReleaseVolume(e) = v}]
             BG == BaseGroups(entries)
  <1>1. BG = FlattenSeq(G)
    BY DEF BaseGroups
  <1>2. ASSUME NEW v \in Volume
        PROVE  /\ B[v] \in Seq(Entry) /\ Lists(B[v], S[v])
               /\ G[v] \in Seq(Seq(Entry)) /\ FlattenSeq(G[v]) = B[v]
               /\ \A i \in 1 .. Len(G[v]) : G[v][i] # <<>> /\ Len(G[v][i]) <= ShardEntries
    <2>1. Bucket(entries, v) \in Seq(Entry)
          /\ Lists(Bucket(entries, v), {e \in entries : ReleaseVolume(e) = v})
      BY BucketLists
    <2>2. QED
      BY <2>1, GroupsOf
  <1>3. \A v, w \in Volume : v # w => S[v] \cap S[w] = {}
    OBVIOUS
  <1>4. UNION {S[v] : v \in Volume} = entries
    <2>1. \A e \in entries : ReleaseVolume(e) \in Volume
      BY VolumesOfEntry
    <2>2. QED
      BY <2>1
  <1>5. \A v \in Volume : \A e \in S[v] : ReleaseVolume(e) = v
    OBVIOUS
  <1>6. G = [v \in Volume |-> G[v]] /\ B = [v \in Volume |-> B[v]]
    OBVIOUS
  <1> HIDE DEF G, B, S, BG
  <1>7. PICK n \in Nat : Volume = 1 .. n
    BY Layout
  <1>8. G \in Seq(Seq(Seq(Entry))) /\ B \in Seq(Seq(Entry)) /\ Len(G) = n /\ Len(B) = n
    <2>1. G \in [1 .. n -> Seq(Seq(Entry))] /\ B \in [1 .. n -> Seq(Entry)]
      <3>1. G \in [Volume -> Seq(Seq(Entry))] /\ B \in [Volume -> Seq(Entry)]
        BY <1>2, <1>6
      <3>2. QED
        BY <1>7, <3>1
    <2>2. QED
      BY <2>1
  <1>9. BG \in Seq(Seq(Entry))
    BY <1>1, <1>8, FlattenIn
  <1>10. FlattenSeq(BG) = FlattenSeq(B)
    <2>1. \A i \in 1 .. Len(B) : FlattenSeq(G[i]) = B[i]
      BY <1>2, <1>7, <1>8
    <2>2. QED
      BY <1>1, <1>8, <2>1, FlattenFlatten
  <1>11. Lists(FlattenSeq(B), entries)
    <2>1. \A j \in 1 .. Len(B) : Lists(B[j], S[j])
      BY <1>2, <1>7, <1>8
    <2>2. \A i, j \in 1 .. Len(B) : i # j => S[i] \cap S[j] = {}
      BY <1>3, <1>7, <1>8
    <2>3. \A x : x \in entries <=> \E j \in 1 .. Len(B) : x \in S[j]
      BY <1>4, <1>7, <1>8
    <2>4. QED
      BY <1>8, <2>1, <2>2, <2>3, FlattenLists
  <1>12. ASSUME NEW i \in 1 .. Len(BG)
         PROVE  Uniform(BG[i])
    <2> DEFINE x == BG[i]
    <2>1. Occurs(x, BG)
      BY DEF Occurs
    <2> HIDE DEF x
    <2>2. PICK v \in 1 .. n : Occurs(x, G[v])
      BY <1>1, <1>8, <2>1, FlattenHolds
    <2>3. PICK k \in 1 .. Len(G[v]) : G[v][k] = x
      BY <2>2 DEF Occurs
    <2>4. v \in Volume
      BY <1>7
    <2>5. G[v] \in Seq(Seq(Entry)) /\ FlattenSeq(G[v]) = B[v] /\ B[v] \in Seq(Entry) /\ Lists(B[v], S[v])
          /\ x # <<>> /\ Len(x) <= ShardEntries
      BY <1>2, <2>3, <2>4
    <2>6. ASSUME NEW h \in 1 .. Len(x)
          PROVE  ReleaseVolume(x[h]) = v
      <3> DEFINE e == x[h]
      <3>1. \E j \in 1 .. Len(G[v]) : Occurs(e, G[v][j])
        BY <2>3 DEF Occurs
      <3> HIDE DEF e
      <3>2. Occurs(e, FlattenSeq(G[v]))
        BY <2>5, <3>1, FlattenHolds
      <3>3. e \in S[v]
        BY <2>5, <3>2 DEF Lists, Occurs
      <3>4. QED
        BY <1>5, <2>4, <3>3 DEF e
    <2>7. Uniform(x)
      BY <2>4, <2>5, <2>6 DEF Uniform
    <2>8. QED
      BY <2>7 DEF x
  <1>13. QED
    BY <1>9, <1>10, <1>11, <1>12 DEF BG

\* A piece is closed or goes on; what closes one leaves an entry for each piece that is left.
LEMMA PartitionStepIs ==
  ASSUME NEW acc, NEW e
  PROVE  LET lg == acc.parts - (Len(acc.groups) + 1)
             le == acc.left - 1
         IN  \/ /\ lg > 0 /\ le >= lg
                /\ PartitionStep(acc, e) =
                     [groups |-> Append(acc.groups, Append(acc.cur, e)), cur |-> <<>>,
                      left |-> le, parts |-> acc.parts, target |-> acc.target]
             \/ /\ ~ (lg > 0 /\ le >= lg /\ le = lg)
                /\ PartitionStep(acc, e) =
                     [groups |-> acc.groups, cur |-> Append(acc.cur, e),
                      left |-> le, parts |-> acc.parts, target |-> acc.target]
  <1> DEFINE cur == Append(acc.cur, e)
             le == acc.left - 1
             lg == acc.parts - (Len(acc.groups) + 1)
             dear == TotalCost(cur) >= acc.target
             close == lg > 0 /\ le >= lg /\ (dear \/ le = lg)
  <1>1. PartitionStep(acc, e) =
          [groups |-> IF close THEN Append(acc.groups, cur) ELSE acc.groups,
           cur |-> IF close THEN <<>> ELSE cur,
           left |-> le, parts |-> acc.parts, target |-> acc.target]
    BY Zenon DEF PartitionStep
  <1> HIDE DEF dear
  <1>2. CASE close
    <2> HIDE DEF cur, le, lg
    <2>1. QED
      BY <1>1, <1>2 DEF cur, le, lg
  <1>3. CASE ~ close
    <2> HIDE DEF cur, le, lg
    <2>1. QED
      BY <1>1, <1>3 DEF cur, le, lg
  <1>4. QED
    BY <1>2, <1>3

PartsOf(parts, target) ==
  [groups : Seq(Seq(Entry)), cur : Seq(Entry), left : Int, parts : {parts}, target : {target}]

LEMMA PartitionStepIn ==
  ASSUME NEW parts, NEW target, NEW acc \in PartsOf(parts, target), NEW e \in Entry
  PROVE  PartitionStep(acc, e) \in PartsOf(parts, target)
  <1> DEFINE cur == Append(acc.cur, e)
             all == Append(acc.groups, cur)
             le == acc.left - 1
  <1>1. acc.groups \in Seq(Seq(Entry)) /\ acc.cur \in Seq(Entry) /\ le \in Int
        /\ acc.parts = parts /\ acc.target = target /\ <<>> \in Seq(Entry)
    BY DEF PartsOf
  <1>2. cur \in Seq(Entry)
    BY <1>1, AppendProperties
  <1> HIDE DEF cur
  <1>3. all \in Seq(Seq(Entry))
    BY <1>1, <1>2, AppendProperties
  <1>4. PartitionStep(acc, e) \in
          {[groups |-> all, cur |-> <<>>, left |-> le, parts |-> parts, target |-> target],
           [groups |-> acc.groups, cur |-> cur, left |-> le, parts |-> parts, target |-> target]}
    BY <1>1, PartitionStepIs, Zenon DEF cur
  <1> HIDE DEF all, le
  <1>5. [groups |-> all, cur |-> <<>>, left |-> le, parts |-> parts, target |-> target]
          \in PartsOf(parts, target)
    <2> DEFINE none == <<>>
    <2>1. none \in Seq(Entry)
      OBVIOUS
    <2> HIDE DEF none
    <2>2. [groups |-> all, cur |-> none, left |-> le, parts |-> parts, target |-> target]
            \in PartsOf(parts, target)
      BY <1>1, <1>3, <2>1 DEF PartsOf
    <2>3. QED
      BY <2>2 DEF none
  <1>6. [groups |-> acc.groups, cur |-> cur, left |-> le, parts |-> parts, target |-> target]
          \in PartsOf(parts, target)
    <2> DEFINE g == acc.groups
    <2>1. g \in Seq(Seq(Entry))
      BY <1>1
    <2> HIDE DEF g
    <2>2. [groups |-> g, cur |-> cur, left |-> le, parts |-> parts, target |-> target]
            \in PartsOf(parts, target)
      BY <1>1, <1>2, <2>1 DEF PartsOf
    <2>3. QED
      BY <2>2 DEF g
  <1>7. QED
    BY <1>4, <1>5, <1>6, Zenon

LEMMA PartitionFold ==
  ASSUME NEW seq \in Seq(Entry), NEW parts, NEW target, NEW base \in PartsOf(parts, target), NEW P, base \in P[0],
         \A m \in 0 .. Len(seq) - 1 : \A a \in PartsOf(parts, target) :
           a \in P[m] => PartitionStep(a, seq[m + 1]) \in P[m + 1]
  PROVE  /\ FoldLeft(PartitionStep, base, seq) \in PartsOf(parts, target)
         /\ FoldLeft(PartitionStep, base, seq) \in P[Len(seq)]
  <1> DEFINE n == Len(seq)
             D == DOMAIN seq
             Eq(f) == f = [s \in SUBSET D |->
                             IF s = {} THEN base ELSE PartitionStep(f[s \ {Max(s)}], seq[Max(s)])]
             iter == CHOOSE f : Eq(f)
             St == [p \in PartsOf(parts, target) \X (1 .. n) |-> PartitionStep(p[1], seq[p[2]])]
  <1>1. FoldLeft(PartitionStep, base, seq) = iter[D]
    BY DEF FoldLeft, MapThenFoldSet
  <1>2. n \in Nat /\ D = 1 .. n /\ \A i \in D : seq[i] \in Entry
    OBVIOUS
  <1>3. \A m \in 0 .. n - 1 : \A a \in PartsOf(parts, target) : a \in P[m] => PartitionStep(a, seq[m + 1]) \in P[m + 1]
    OBVIOUS
  <1> HIDE DEF n, D
  <1>4. ASSUME NEW a \in PartsOf(parts, target), NEW i \in 1 .. n
        PROVE  PartitionStep(a, seq[i]) \in PartsOf(parts, target)
    BY <1>2, PartitionStepIn
  <1>5. St \in [PartsOf(parts, target) \X (1 .. n) -> PartsOf(parts, target)]
    BY <1>4
  <1>6. PICK f \in [SUBSET D -> PartsOf(parts, target)] :
          \A s \in SUBSET D : f[s] = IF s = {} THEN base ELSE St[<<f[s \ {Max(s)}], Max(s)>>]
    <2> HIDE DEF St, iter, Eq
    <2>1. \E f \in [SUBSET (1 .. n) -> PartsOf(parts, target)] : IsFold(n, base, St, f)
      BY <1>2, <1>5, FoldExists, Zenon
    <2>2. QED
      BY <1>2, <2>1 DEF IsFold
  <1>7. Eq(f)
    <2>1. ASSUME NEW s \in SUBSET D, s # {}
          PROVE  f[s] = PartitionStep(f[s \ {Max(s)}], seq[Max(s)])
      <3>1. Max(s) \in 1 .. n /\ s \ {Max(s)} \in SUBSET D
        BY <1>2, <2>1, MaxIsIn
      <3>2. QED
        BY <1>6, <2>1, <3>1
    <2>2. \A s \in SUBSET D : f[s] = IF s = {} THEN base
                                     ELSE PartitionStep(f[s \ {Max(s)}], seq[Max(s)])
      BY <1>6, <2>1
    <2>3. f = [s \in SUBSET D |-> f[s]]
      OBVIOUS
    <2>4. QED
      BY <2>2, <2>3
  <1>8. Eq(iter)
    BY <1>7
  <1> HIDE DEF iter
  <1>9. \A s \in SUBSET D :
          iter[s] = IF s = {} THEN base ELSE PartitionStep(iter[s \ {Max(s)}], seq[Max(s)])
    BY <1>8
  <1>10. ASSUME NEW s \in SUBSET D, s # {}, iter[s \ {Max(s)}] \in PartsOf(parts, target)
         PROVE  iter[s] = St[<<iter[s \ {Max(s)}], Max(s)>>]
    BY <1>2, <1>9, <1>10, MaxIsIn
  <1>11. \A m \in 0 .. n - 1 : \A a \in PartsOf(parts, target) : a \in P[m] => St[<<a, m + 1>>] \in P[m + 1]
    BY <1>2, <1>3
  <1>12. iter[1 .. n] \in PartsOf(parts, target) /\ iter[1 .. n] \in P[n]
    <2> HIDE DEF St, Eq
    <2>1. IsFoldIn(n, PartsOf(parts, target), base, St, iter)
      BY <1>2, <1>9, <1>10 DEF IsFoldIn
    <2>2. Keeps(n, PartsOf(parts, target), St, P)
      BY <1>11 DEF Keeps
    <2>3. QED
      BY <1>2, <1>5, <2>1, <2>2, FoldHolds, Zenon
  <1>13. QED
    BY <1>1, <1>2, <1>12 DEF n

\* partition_entries after m of the entries: the pieces hold them in their order, and an entry is left
\* for each piece that is not begun.
Splitting(seq, p, m, acc) ==
  /\ acc.left = Len(seq) - m
  /\ FlattenSeq(acc.groups) \o acc.cur = SubSeq(seq, 1, m)
  /\ \A i \in 1 .. Len(acc.groups) : acc.groups[i] # <<>>
  /\ Len(acc.groups) <= p - 1
  /\ acc.left >= p - Len(acc.groups) \/ (acc.cur # <<>> /\ Len(acc.groups) = p - 1)

LEMMA SplittingStep ==
  ASSUME NEW seq \in Seq(Entry), NEW p \in Nat, NEW target, NEW acc \in PartsOf(p, target),
         NEW m \in 0 .. Len(seq) - 1, Splitting(seq, p, m, acc)
  PROVE  Splitting(seq, p, m + 1, PartitionStep(acc, seq[m + 1]))
  <1> DEFINE e == seq[m + 1]
             one == <<e>>
             g == acc.groups
             c == acc.cur
             l == acc.left
             k == Len(g)
             cur == Append(c, e)
             all == Append(g, cur)
             new == PartitionStep(acc, e)
             F == FlattenSeq(g)
  <1>1. m \in Nat /\ m + 1 \in 1 .. Len(seq) /\ Len(seq) \in Nat
    OBVIOUS
  <1>2. e \in Entry
    BY <1>1
  <1>3. SubSeq(seq, 1, m + 1) = SubSeq(seq, 1, m) \o one
    <2>1. 1 \in 1 .. Len(seq) /\ m + 1 \in 1 .. Len(seq)
      BY <1>1
    <2>2. SubSeq(seq, 1, m + 1) = SubSeq(seq, 1, (m + 1) - 1) \o one
      BY <2>1, SubSeqRecursiveSecond
    <2>3. (m + 1) - 1 = m
      BY <1>1
    <2>4. QED
      BY <2>2, <2>3
  <1>4. /\ acc.parts = p /\ acc.target = target /\ g \in Seq(Seq(Entry)) /\ c \in Seq(Entry)
        /\ l \in Int
    BY DEF PartsOf
  <1>5. /\ l = Len(seq) - m /\ F \o c = SubSeq(seq, 1, m)
        /\ \A i \in 1 .. k : g[i] # <<>>
        /\ k <= p - 1 /\ (l >= p - k \/ (c # <<>> /\ k = p - 1))
    BY DEF Splitting
  <1>6. \/ /\ p - (k + 1) > 0 /\ l - 1 >= p - (k + 1)
           /\ new = [groups |-> all, cur |-> <<>>, left |-> l - 1, parts |-> p, target |-> target]
        \/ /\ ~ (p - (k + 1) > 0 /\ l - 1 >= p - (k + 1) /\ l - 1 = p - (k + 1))
           /\ new = [groups |-> g, cur |-> cur, left |-> l - 1, parts |-> p, target |-> target]
    BY <1>4, PartitionStepIs, Zenon
  <1> HIDE DEF e, g, c, l, k, F
  <1>7. one \in Seq(Entry) /\ k \in Nat /\ F \in Seq(Entry)
    <2>1. one \in Seq(Entry)
      BY <1>2
    <2>2. k \in Nat
      BY <1>4 DEF k
    <2>3. F \in Seq(Entry)
      BY <1>4, FlattenIn DEF F
    <2>4. QED
      BY <2>1, <2>2, <2>3
  <1>8. cur \in Seq(Entry) /\ cur # <<>> /\ cur = c \o one
    BY <1>2, <1>4, AppendProperties, AppendIsConcat
  <1> HIDE DEF one, cur
  <1>9. F \o cur = SubSeq(seq, 1, m + 1)
    <2>1. c \in Seq(Entry)
      BY <1>4
    <2>2. (F \o c) \o one = F \o (c \o one)
      BY <1>7, <2>1, ConcatAssociative, SMTT(60)
    <2>3. F \o cur = (F \o c) \o one
      BY <1>8, <2>2
    <2>4. QED
      BY <1>3, <1>5, <2>3
  <1>10. CASE /\ p - (k + 1) > 0 /\ l - 1 >= p - (k + 1)
              /\ new = [groups |-> all, cur |-> <<>>, left |-> l - 1, parts |-> p, target |-> target]
    <2>1. /\ Len(all) = k + 1 /\ all[k + 1] = cur /\ \A i \in 1 .. k : all[i] = g[i]
      BY <1>4, <1>8, AppendProperties DEF k
    <2>2. FlattenSeq(all) = F \o cur
      BY <1>4, <1>8, FlattenAppend DEF F
    <2>3. \A i \in 1 .. Len(all) : all[i] # <<>>
      <3>1. \A i \in 1 .. k + 1 : i \in 1 .. k \/ i = k + 1
        BY <1>7
      <3>2. QED
        BY <1>5, <1>8, <2>1, <3>1
    <2> HIDE DEF all, new
    <2>4. new.groups = all /\ new.cur = <<>> /\ new.left = l - 1
      BY <1>10
    <2>5. FlattenSeq(all) \o <<>> = SubSeq(seq, 1, m + 1)
      <3>1. F \o cur \in Seq(Entry)
        BY <1>7, <1>8, ConcatProperties
      <3>2. (F \o cur) \o <<>> = F \o cur
        <4> DEFINE x == F \o cur
        <4>1. x \in Seq(Entry)
          BY <3>1
        <4> HIDE DEF x
        <4>2. x \o <<>> = x
          BY <4>1, ConcatEmptySeq
        <4>3. QED
          BY <4>2 DEF x
      <3>3. QED
        BY <1>9, <2>2, <3>2
    <2>6. l - 1 = Len(seq) - (m + 1) /\ k + 1 <= p - 1 /\ l - 1 >= p - (k + 1)
      BY <1>1, <1>4, <1>5, <1>7, <1>10
    <2>7. Splitting(seq, p, m + 1, new)
      BY <2>1, <2>3, <2>4, <2>5, <2>6, Zenon DEF Splitting
    <2>8. QED
      BY <2>7 DEF new, e
  <1>11. CASE /\ ~ (p - (k + 1) > 0 /\ l - 1 >= p - (k + 1) /\ l - 1 = p - (k + 1))
              /\ new = [groups |-> g, cur |-> cur, left |-> l - 1, parts |-> p, target |-> target]
    <2> HIDE DEF new
    <2>1. new.groups = g /\ new.cur = cur /\ new.left = l - 1
      BY <1>11
    <2>2. l - 1 = Len(seq) - (m + 1) /\ (l - 1 >= p - k \/ k = p - 1)
      <3>1. ~ (p - (k + 1) > 0 /\ l - 1 >= p - (k + 1) /\ l - 1 = p - (k + 1))
        BY <1>11
      <3>2. l = Len(seq) - m /\ k <= p - 1 /\ (l >= p - k \/ k = p - 1)
        BY <1>5
      <3>3. p \in Nat /\ k \in Nat /\ l \in Int
        BY <1>4, <1>7
      <3>4. QED
        BY <1>1, <3>1, <3>2, <3>3
    <2>3. /\ new.left = Len(seq) - (m + 1)
          /\ FlattenSeq(new.groups) \o new.cur = SubSeq(seq, 1, m + 1)
          /\ \A i \in 1 .. Len(new.groups) : new.groups[i] # <<>>
          /\ Len(new.groups) <= p - 1
          /\ new.left >= p - Len(new.groups) \/ (new.cur # <<>> /\ Len(new.groups) = p - 1)
      BY <1>5, <1>8, <1>9, <2>1, <2>2, Zenon DEF F, k
    <2>4. Splitting(seq, p, m + 1, new)
      BY <2>3 DEF Splitting
    <2>5. QED
      BY <2>4 DEF new, e
  <1>12. QED
    BY <1>6, <1>10, <1>11

\* A group is divided in as many pieces as asked for, or as it has entries; none is empty.
Pieces(requested, seq) == Smaller(Larger(requested, 1), Len(seq))

LEMMA PartitionIs ==
  ASSUME NEW seq \in Seq(Entry), seq # <<>>, NEW requested \in Nat
  PROVE  /\ Partition(seq, requested) \in Seq(Seq(Entry))
         /\ FlattenSeq(Partition(seq, requested)) = seq
         /\ Len(Partition(seq, requested)) = Pieces(requested, seq)
         /\ \A i \in 1 .. Len(Partition(seq, requested)) : Partition(seq, requested)[i] # <<>>
  <1> DEFINE n == Len(seq)
             p == Pieces(requested, seq)
             t == Larger(DivCeil(TotalCost(seq), p), 1)
             base == [groups |-> <<>>, cur |-> <<>>, left |-> n, parts |-> p, target |-> t]
             acc == FoldLeft(PartitionStep, base, seq)
             P == [m \in 0 .. n |-> {a \in PartsOf(p, t) : Splitting(seq, p, m, a)}]
             all == Append(acc.groups, acc.cur)
             result == Partition(seq, requested)
  <1>1. /\ n \in Nat /\ n >= 1 /\ <<>> \in Seq(Seq(Entry)) /\ <<>> \in Seq(Entry) /\ Len(<<>>) = 0
        /\ 0 \in 0 .. n /\ n \in 0 .. n /\ \A i : i \notin 1 .. Len(<<>>)
    OBVIOUS
  <1>2. p \in 1 .. n /\ p \in Nat
    BY <1>1 DEF Pieces, Smaller, Larger
  <1>3. result = IF p = 1 THEN <<seq>> ELSE IF acc.cur = <<>> THEN acc.groups ELSE all
    BY Zenon DEF Partition, Pieces
  <1> HIDE DEF t
  <1>4. base \in PartsOf(p, t)
    <2> DEFINE none == <<>>
               zero == <<>>
    <2>1. none \in Seq(Seq(Entry)) /\ zero \in Seq(Entry) /\ n \in Int
      BY <1>1
    <2> HIDE DEF none, zero, n, p
    <2>2. [groups |-> none, cur |-> zero, left |-> n, parts |-> p, target |-> t] \in PartsOf(p, t)
      BY <2>1 DEF PartsOf
    <2>3. QED
      BY <2>2 DEF none, zero
  <1>5. base.groups = <<>> /\ base.cur = <<>> /\ base.left = n
    OBVIOUS
  <1> HIDE DEF base, p
  <1>6. base \in P[0]
    <2>1. SubSeq(seq, 1, 0) = <<>>
      BY SubSeqEmpty
    <2>2. FlattenSeq(<<>>) \o <<>> = <<>>
      <3>1. <<>> \o <<>> = <<>>
        BY <1>1, ConcatEmptySeq
      <3>2. QED
        BY <3>1, FlattenEmpty
    <2>3. base.left = Len(seq) - 0 /\ 0 <= p - 1 /\ n >= p - 0
      BY <1>1, <1>2, <1>5
    <2>4. /\ FlattenSeq(base.groups) \o base.cur = SubSeq(seq, 1, 0)
          /\ \A i \in 1 .. Len(base.groups) : base.groups[i] # <<>>
          /\ Len(base.groups) <= p - 1 /\ base.left >= p - Len(base.groups)
      BY <1>1, <1>5, <2>1, <2>2, <2>3, Zenon
    <2>5. Splitting(seq, p, 0, base)
      BY <2>3, <2>4, Zenon DEF Splitting
    <2>6. QED
      BY <1>1, <1>4, <2>5
  <1>7. \A m \in 0 .. Len(seq) - 1 : \A b \in PartsOf(p, t) :
          b \in P[m] => PartitionStep(b, seq[m + 1]) \in P[m + 1]
    <2>1. ASSUME NEW m \in 0 .. Len(seq) - 1, NEW b \in PartsOf(p, t), b \in P[m]
          PROVE  PartitionStep(b, seq[m + 1]) \in P[m + 1]
      <3>1. m \in 0 .. n /\ m + 1 \in 0 .. n /\ m + 1 \in 1 .. n
        BY <1>1
      <3>2. Splitting(seq, p, m, b)
        BY <2>1, <3>1
      <3>3. Splitting(seq, p, m + 1, PartitionStep(b, seq[m + 1]))
        BY <1>2, <3>2, SplittingStep
      <3>4. PartitionStep(b, seq[m + 1]) \in PartsOf(p, t)
        <4>1. seq[m + 1] \in Entry
          BY <3>1
        <4>2. QED
          BY <4>1, PartitionStepIn
      <3> HIDE DEF P
      <3>5. QED
        BY <3>1, <3>3, <3>4 DEF P
    <2> HIDE DEF P
    <2>2. QED
      BY <2>1
  <1>8. acc \in PartsOf(p, t) /\ acc \in P[n]
    <2> HIDE DEF P
    <2>1. QED
      BY <1>4, <1>6, <1>7, PartitionFold
  <1>9. Splitting(seq, p, n, acc)
    <2> HIDE DEF acc
    <2>1. QED
      BY <1>1, <1>8
  <1> DEFINE g == acc.groups
             c == acc.cur
             k == Len(g)
  <1>10. g \in Seq(Seq(Entry)) /\ c \in Seq(Entry)
    BY <1>8 DEF PartsOf
  <1>11. /\ acc.left = n - n /\ FlattenSeq(g) \o c = SubSeq(seq, 1, n)
         /\ \A i \in 1 .. k : g[i] # <<>>
         /\ k <= p - 1 /\ (acc.left >= p - k \/ (c # <<>> /\ k = p - 1))
    BY <1>9 DEF Splitting
  <1>12. FlattenSeq(g) \o c = seq
    BY <1>11, SubSeqFull
  <1> HIDE DEF acc
  <1>13. k \in Nat /\ c # <<>> /\ k = p - 1
    <2>1. k \in Nat
      BY <1>10
    <2> HIDE DEF k, g, c
    <2>2. QED
      BY <1>1, <1>2, <1>11, <2>1
  <1>14. CASE p = 1
    <2>1. seq \in Seq(Entry) /\ <<seq>> \in Seq(Seq(Entry)) /\ Len(<<seq>>) = 1 /\ <<seq>>[1] = seq
      OBVIOUS
    <2>2. \A i \in 1 .. 1 : i = 1
      OBVIOUS
    <2>3. FlattenSeq(<<seq>>) = seq
      BY FlattenOne
    <2>4. result = <<seq>>
      BY <1>3, <1>14
    <2> HIDE DEF result
    <2>5. /\ result \in Seq(Seq(Entry)) /\ FlattenSeq(result) = seq /\ Len(result) = p
          /\ \A i \in 1 .. Len(result) : result[i] # <<>>
      BY <1>14, <2>1, <2>2, <2>3, <2>4
    <2>6. QED
      BY <2>5 DEF result, p
  <1>15. CASE p # 1
    <2>1. result = Append(g, c)
      BY <1>3, <1>13, <1>15
    <2> HIDE DEF result, g, c
    <2>2. /\ result \in Seq(Seq(Entry)) /\ Len(result) = k + 1 /\ result[k + 1] = c
          /\ \A i \in 1 .. k : result[i] = g[i]
      BY <1>10, <2>1, AppendProperties
    <2>3. FlattenSeq(result) = seq
      BY <1>10, <1>12, <2>1, FlattenAppend
    <2> HIDE DEF k
    <2>4. \A i \in 1 .. k + 1 : i \in 1 .. k \/ i = k + 1
      BY <1>13
    <2>5. \A i \in 1 .. Len(result) : result[i] # <<>>
      BY <1>11, <1>13, <2>2, <2>4
    <2>6. Len(result) = p
      BY <1>2, <1>13, <2>2
    <2>7. QED
      BY <2>2, <2>3, <2>5, <2>6 DEF result, p
  <1>16. QED
    BY <1>14, <1>15

\* What a group costs is a number.
LEMMA CostIsNat ==
  ASSUME NEW seq \in Seq(Entry)
  PROVE  TotalCost(seq) \in Nat
  <1> DEFINE n == Len(seq)
             D == DOMAIN seq
             Eq(f) == f = [s \in SUBSET D |->
                             IF s = {} THEN 0 ELSE f[s \ {Max(s)}] + Cost(seq[Max(s)])]
             iter == CHOOSE f : Eq(f)
             St == [p \in Nat \X (1 .. n) |-> p[1] + Cost(seq[p[2]])]
  <1>1. TotalCost(seq) = iter[D]
    BY DEF TotalCost, FoldLeft, MapThenFoldSet
  <1>2. n \in Nat /\ D = 1 .. n /\ \A i \in D : seq[i] \in Entry
    OBVIOUS
  <1> HIDE DEF n, D
  <1>4. ASSUME NEW a \in Nat, NEW i \in 1 .. n
        PROVE  a + Cost(seq[i]) \in Nat
    <2>1. Packed[seq[i]] \in Nat
      BY <1>2, ArchiveAssumption
    <2>2. QED
      BY <2>1 DEF Cost
  <1>5. St \in [Nat \X (1 .. n) -> Nat]
    BY <1>4
  <1>6. PICK f \in [SUBSET D -> Nat] :
          \A s \in SUBSET D : f[s] = IF s = {} THEN 0 ELSE St[<<f[s \ {Max(s)}], Max(s)>>]
    <2> HIDE DEF St, iter, Eq
    <2>1. \E f \in [SUBSET (1 .. n) -> Nat] : IsFold(n, 0, St, f)
      BY <1>2, <1>5, FoldExists, Zenon
    <2>2. QED
      BY <1>2, <2>1 DEF IsFold
  <1>7. Eq(f)
    <2>1. ASSUME NEW s \in SUBSET D, s # {}
          PROVE  f[s] = f[s \ {Max(s)}] + Cost(seq[Max(s)])
      <3>1. Max(s) \in 1 .. n /\ s \ {Max(s)} \in SUBSET D
        BY <1>2, <2>1, MaxIsIn
      <3>2. QED
        BY <1>6, <2>1, <3>1
    <2>2. \A s \in SUBSET D : f[s] = IF s = {} THEN 0
                                     ELSE f[s \ {Max(s)}] + Cost(seq[Max(s)])
      BY <1>6, <2>1
    <2>3. f = [s \in SUBSET D |-> f[s]]
      OBVIOUS
    <2>4. QED
      BY <2>2, <2>3
  <1>8. Eq(iter)
    BY <1>7
  <1> HIDE DEF iter
  <1>9. \A s \in SUBSET D :
          iter[s] = IF s = {} THEN 0 ELSE iter[s \ {Max(s)}] + Cost(seq[Max(s)])
    BY <1>8
  <1>10. ASSUME NEW s \in SUBSET D, s # {}, iter[s \ {Max(s)}] \in Nat
         PROVE  iter[s] = St[<<iter[s \ {Max(s)}], Max(s)>>]
    BY <1>2, <1>9, <1>10, MaxIsIn
  <1> DEFINE P == [m \in 0 .. n |-> Nat]
  <1>11. \A m \in 0 .. n - 1 : m \in 0 .. n /\ m + 1 \in 0 .. n
    BY <1>2
  <1>12. iter[1 .. n] \in Nat
    <2>1. \A m \in 0 .. n - 1 : \A a \in Nat : a \in P[m] => St[<<a, m + 1>>] \in P[m + 1]
      <3> SUFFICES ASSUME NEW m \in 0 .. n - 1, NEW a \in Nat
                   PROVE  St[<<a, m + 1>>] \in P[m + 1]
        OBVIOUS
      <3>1. m + 1 \in 1 .. n /\ m + 1 \in 0 .. n
        BY <1>2
      <3> HIDE DEF St
      <3>2. QED
        BY <1>5, <3>1
    <2>2. 0 \in P[0]
      BY <1>2
    <2> HIDE DEF St, Eq, P
    <2>3. IsFoldIn(n, Nat, 0, St, iter)
      BY <1>2, <1>9, <1>10 DEF IsFoldIn
    <2>4. Keeps(n, Nat, St, P)
      BY <2>1 DEF Keeps
    <2>5. QED
      BY <1>2, <1>5, <2>2, <2>3, <2>4, FoldHolds, Zenon
  <1>13. QED
    BY <1>1, <1>2, <1>12 DEF n

\* A group has one shard to begin with, and the spare ones are handed out one at a time.
Allocs(groups) == [1 .. Len(groups) -> Nat \ {0}]

LEMMA AllocFold ==
  ASSUME NEW groups, NEW spare \in Nat, NEW base \in Allocs(groups), NEW P, base \in P[0],
         base = [i \in DOMAIN groups |-> 1],
         \A a \in Allocs(groups) : AllocateStep(groups, a) \in Allocs(groups),
         \A m \in 0 .. spare - 1 : \A a \in Allocs(groups) :
           a \in P[m] => AllocateStep(groups, a) \in P[m + 1]
  PROVE  Allocations(groups, spare) \in Allocs(groups) /\ Allocations(groups, spare) \in P[spare]
  <1> DEFINE n == spare
             seq == [i \in 1 .. spare |-> i]
             result == Allocations(groups, spare)
             D == DOMAIN seq
             Eq(f) == f = [s \in SUBSET D |->
                             IF s = {} THEN base ELSE AllocateStep(groups, f[s \ {Max(s)}])]
             iter == CHOOSE f : Eq(f)
             St == [p \in Allocs(groups) \X (1 .. n) |-> AllocateStep(groups, p[1])]
  <1>1. result = iter[D]
    BY DEF Allocations, FoldLeft, MapThenFoldSet
  <1>2. n \in Nat /\ D = 1 .. n
    OBVIOUS
  <1>3. \A m \in 0 .. n - 1 : \A a \in Allocs(groups) : a \in P[m] => AllocateStep(groups, a) \in P[m + 1]
    OBVIOUS
  <1> HIDE DEF n, D
  <1>4. ASSUME NEW a \in Allocs(groups), NEW i \in 1 .. n
        PROVE  AllocateStep(groups, a) \in Allocs(groups)
    OBVIOUS
  <1>5. St \in [Allocs(groups) \X (1 .. n) -> Allocs(groups)]
    BY <1>4
  <1>6. PICK f \in [SUBSET D -> Allocs(groups)] :
          \A s \in SUBSET D : f[s] = IF s = {} THEN base ELSE St[<<f[s \ {Max(s)}], Max(s)>>]
    <2> HIDE DEF St, iter, Eq
    <2>1. \E f \in [SUBSET (1 .. n) -> Allocs(groups)] : IsFold(n, base, St, f)
      BY <1>2, <1>5, FoldExists, Zenon
    <2>2. QED
      BY <1>2, <2>1 DEF IsFold
  <1>7. Eq(f)
    <2>1. ASSUME NEW s \in SUBSET D, s # {}
          PROVE  f[s] = AllocateStep(groups, f[s \ {Max(s)}])
      <3>1. Max(s) \in 1 .. n /\ s \ {Max(s)} \in SUBSET D
        BY <1>2, <2>1, MaxIsIn
      <3>2. QED
        BY <1>6, <2>1, <3>1
    <2>2. \A s \in SUBSET D : f[s] = IF s = {} THEN base
                                     ELSE AllocateStep(groups, f[s \ {Max(s)}])
      BY <1>6, <2>1
    <2>3. f = [s \in SUBSET D |-> f[s]]
      OBVIOUS
    <2>4. QED
      BY <2>2, <2>3
  <1>8. Eq(iter)
    BY <1>7
  <1> HIDE DEF iter
  <1>9. \A s \in SUBSET D :
          iter[s] = IF s = {} THEN base ELSE AllocateStep(groups, iter[s \ {Max(s)}])
    BY <1>8
  <1>10. ASSUME NEW s \in SUBSET D, s # {}, iter[s \ {Max(s)}] \in Allocs(groups)
         PROVE  iter[s] = St[<<iter[s \ {Max(s)}], Max(s)>>]
    BY <1>2, <1>9, <1>10, MaxIsIn
  <1>11. \A m \in 0 .. n - 1 : \A a \in Allocs(groups) : a \in P[m] => St[<<a, m + 1>>] \in P[m + 1]
    BY <1>2, <1>3
  <1>12. iter[1 .. n] \in Allocs(groups) /\ iter[1 .. n] \in P[n]
    <2> HIDE DEF St, Eq
    <2>1. IsFoldIn(n, Allocs(groups), base, St, iter)
      BY <1>2, <1>9, <1>10 DEF IsFoldIn
    <2>2. Keeps(n, Allocs(groups), St, P)
      BY <1>11 DEF Keeps
    <2>3. QED
      BY <1>2, <1>5, <2>1, <2>2, FoldHolds, Zenon
  <1>13. QED
    BY <1>1, <1>2, <1>12 DEF n

\* One of the numbers that weigh most, the last of them.
LEMMA BestIn ==
  ASSUME NEW n \in Nat, NEW S \in SUBSET (1 .. n), S # {}, NEW w, \A i \in 1 .. n : w[i] \in Int
  PROVE  \E i \in S : \A j \in S : w[j] < w[i] \/ (w[j] = w[i] /\ j <= i)
  <1> DEFINE Best(i, m) == i \in S /\ i <= m /\
                             \A j \in S : j <= m => w[j] < w[i] \/ (w[j] = w[i] /\ j <= i)
             Q == {m \in Nat : m <= n => (\A i \in S : m < i) \/ \E i \in S : Best(i, m)}
  <1>1. 0 \in Q
    OBVIOUS
  <1>2. ASSUME NEW m \in Q
        PROVE  m + 1 \in Q
    <2>1. SUFFICES ASSUME m + 1 <= n
                   PROVE  (\A i \in S : m + 1 < i) \/ \E i \in S : Best(i, m + 1)
      OBVIOUS
    <2>2. m \in Nat /\ m <= n /\ ((\A i \in S : m < i) \/ \E i \in S : Best(i, m))
      BY <2>1
    <2>3. \A i \in S : i \in 1 .. n /\ i \in Nat /\ w[i] \in Int
      OBVIOUS
    <2>4. CASE m + 1 \notin S
      <3>1. \A i \in S : i <= m + 1 <=> i <= m
        BY <2>2, <2>3, <2>4
      <3>2. CASE \A i \in S : m < i
        BY <2>2, <2>3, <2>4, <3>2
      <3>3. CASE \E i \in S : Best(i, m)
        BY <3>1, <3>3
      <3>4. QED
        BY <2>2, <3>2, <3>3
    <2>5. CASE m + 1 \in S
      <3>1. \A i \in S : i <= m + 1 => i <= m \/ i = m + 1
        BY <2>2, <2>3
      <3>2. CASE \A i \in S : m < i
        <4>1. Best(m + 1, m + 1)
          BY <2>2, <2>3, <2>5, <3>1, <3>2
        <4>2. QED
          BY <2>5, <4>1
      <3>3. CASE \E i \in S : Best(i, m)
        <4>1. PICK i \in S : Best(i, m)
          BY <3>3
        <4>2. CASE w[i] <= w[m + 1]
          <5>1. ASSUME NEW j \in S, j <= m + 1
                PROVE  w[j] < w[m + 1] \/ (w[j] = w[m + 1] /\ j <= m + 1)
            BY <2>3, <2>5, <3>1, <4>1, <4>2, <5>1
          <5>2. Best(m + 1, m + 1)
            BY <2>2, <2>5, <5>1
          <5>3. QED
            BY <2>5, <5>2
        <4>3. CASE w[m + 1] < w[i]
          <5>1. Best(i, m + 1)
            BY <2>2, <2>3, <3>1, <4>1, <4>3
          <5>2. QED
            BY <5>1
        <4>4. QED
          BY <2>3, <2>5, <4>2, <4>3
      <3>4. QED
        BY <2>2, <3>2, <3>3
    <2>6. QED
      BY <2>4, <2>5
  <1>3. Q = Nat
    <2>1. Q \in SUBSET Nat /\ \A m \in Q : m + 1 \in Q
      BY <1>2
    <2> HIDE DEF Q
    <2>2. QED
      BY <1>1, <2>1, Numbers
  <1>4. n \in Q
    BY <1>3
  <1>5. PICK i \in S : Best(i, n)
    <2>1. \E i \in S : i <= n
      <3>1. PICK i \in S : TRUE
        OBVIOUS
      <3>2. i \in 1 .. n
        OBVIOUS
      <3>3. QED
        BY <3>2
    <2>2. (\A i \in S : n < i) \/ \E i \in S : Best(i, n)
      BY <1>4
    <2>3. ~ \A i \in S : n < i
      BY <2>1
    <2>4. QED
      BY <2>2, <2>3
  <1>6. QED
    BY <1>5

\* The spare shard goes to a group that can still be divided, if there is one.
LEMMA AllocateStepIs ==
  ASSUME NEW groups \in Seq(Seq(Entry)), NEW a \in Allocs(groups)
  PROVE  /\ AllocateStep(groups, a) \in Allocs(groups)
         /\ \/ /\ AllocateStep(groups, a) = a
               /\ \A i \in 1 .. Len(groups) : Len(groups[i]) <= a[i]
            \/ \E b \in 1 .. Len(groups) :
                 /\ a[b] < Len(groups[b])
                 /\ AllocateStep(groups, a) = [a EXCEPT ![b] = a[b] + 1]
  <1> DEFINE n == Len(groups)
             open == {i \in DOMAIN groups : Len(groups[i]) > a[i]}
             w == [i \in 1 .. n |-> DivCeil(TotalCost(groups[i]), a[i] + 1)]
             best == CHOOSE i \in open : \A j \in open : w[j] < w[i] \/ (w[j] = w[i] /\ j <= i)
  <1>1. n \in Nat /\ DOMAIN groups = 1 .. n /\ \A i \in 1 .. n : groups[i] \in Seq(Entry)
    OBVIOUS
  <1>2. \A i \in 1 .. n : a[i] \in Nat /\ a[i] \in Nat \ {0} /\ Len(groups[i]) \in Nat
    <2>1. \A i \in 1 .. n : a[i] \in Nat \ {0}
      BY DEF Allocs
    <2> HIDE DEF n
    <2>2. \A i \in 1 .. n : Len(groups[i]) \in Nat
      BY <1>1, LenProperties
    <2>3. QED
      BY <2>1, <2>2
  <1>3. AllocateStep(groups, a) = IF open = {} THEN a ELSE [a EXCEPT ![best] = a[best] + 1]
    <2> DEFINE pick == CHOOSE i \in open : \A j \in open :
                 \/ DivCeil(TotalCost(groups[j]), a[j] + 1) < DivCeil(TotalCost(groups[i]), a[i] + 1)
                 \/ /\ DivCeil(TotalCost(groups[j]), a[j] + 1) = DivCeil(TotalCost(groups[i]), a[i] + 1)
                    /\ j <= i
    <2>1. \A i \in open : w[i] = DivCeil(TotalCost(groups[i]), a[i] + 1)
      BY <1>1
    <2>2. pick = best
      <3> HIDE DEF w
      <3>1. \A i \in open : (\A j \in open :
                 \/ DivCeil(TotalCost(groups[j]), a[j] + 1) < DivCeil(TotalCost(groups[i]), a[i] + 1)
                 \/ /\ DivCeil(TotalCost(groups[j]), a[j] + 1) = DivCeil(TotalCost(groups[i]), a[i] + 1)
                    /\ j <= i) <=> \A j \in open : w[j] < w[i] \/ (w[j] = w[i] /\ j <= i)
        BY <2>1
      <3> HIDE DEF open
      <3>2. QED
        BY <3>1
    <2>3. AllocateStep(groups, a) = IF open = {} THEN a ELSE [a EXCEPT ![pick] = a[pick] + 1]
      BY Zenon DEF AllocateStep
    <2>4. QED
      BY <2>2, <2>3, Zenon
  <1>4. CASE open = {}
    <2>1. AllocateStep(groups, a) = a
      BY <1>3, <1>4, Zenon
    <2>2. \A i \in 1 .. n : ~ (Len(groups[i]) > a[i])
      BY <1>1, <1>4
    <2> HIDE DEF n
    <2>3. \A i \in 1 .. n : Len(groups[i]) <= a[i]
      BY <1>2, <2>2
    <2>4. QED
      BY <2>1, <2>3 DEF n
  <1>5. CASE open # {}
    <2>1. \A i \in 1 .. n : w[i] \in Int
      <3> SUFFICES ASSUME NEW i \in 1 .. n
                   PROVE  w[i] \in Int
        OBVIOUS
      <3>1. TotalCost(groups[i]) \in Nat
        BY <1>1, CostIsNat
      <3>2. a[i] + 1 \in Nat /\ a[i] + 1 > 0
        BY <1>2
      <3>3. DivCeil(TotalCost(groups[i]), a[i] + 1) \in Int
        BY <3>1, <3>2 DEF DivCeil
      <3>4. QED
        BY <3>3
    <2>2. open \in SUBSET (1 .. n)
      BY <1>1
    <2> HIDE DEF w, open
    <2>3. best \in open
      <3>1. \E i \in open : \A j \in open : w[j] < w[i] \/ (w[j] = w[i] /\ j <= i)
        BY <1>1, <1>5, <2>1, <2>2, BestIn
      <3>2. QED
        BY <3>1
    <2> HIDE DEF best
    <2>4. best \in 1 .. n /\ a[best] < Len(groups[best])
      BY <1>1, <1>2, <2>2, <2>3 DEF open
    <2>5. AllocateStep(groups, a) = [a EXCEPT ![best] = a[best] + 1]
      BY <1>3, <1>5
    <2>6. [a EXCEPT ![best] = a[best] + 1] \in Allocs(groups)
      BY <1>2, <2>4 DEF Allocs
    <2>7. QED
      BY <2>4, <2>5, <2>6
  <1>6. QED
    BY <1>4, <1>5

\* The first n numbers of a add up to a total.
Sums(a, n, s) == s \in [0 .. n -> Nat] /\ s[0] = 0 /\ \A i \in 1 .. n : s[i] = s[i - 1] + a[i]
Adds(a, n, total) == \E s : Sums(a, n, s) /\ s[n] = total

LEMMA OnesAdd ==
  ASSUME NEW n \in Nat, NEW a, \A i \in 1 .. n : a[i] = 1
  PROVE  Adds(a, n, n)
  <1> DEFINE s == [i \in 0 .. n |-> i]
  <1>1. s \in [0 .. n -> Nat] /\ s[0] = 0 /\ s[n] = n
    OBVIOUS
  <1>2. ASSUME NEW i \in 1 .. n
        PROVE  s[i] = s[i - 1] + a[i]
    <2>1. i \in 0 .. n /\ i - 1 \in 0 .. n /\ (i - 1) + 1 = i
      OBVIOUS
    <2>2. QED
      BY <2>1
  <1> HIDE DEF s
  <1>3. QED
    BY <1>1, <1>2 DEF Adds, Sums

LEMMA AddsUnique ==
  ASSUME NEW n \in Nat, NEW a, NEW t, NEW u, Adds(a, n, t), Adds(a, n, u)
  PROVE  t = u
  <1>1. PICK s : Sums(a, n, s) /\ s[n] = t
    BY DEF Adds
  <1>2. PICK r : Sums(a, n, r) /\ r[n] = u
    BY DEF Adds
  <1> DEFINE Q == {m \in Nat : m <= n => s[m] = r[m]}
  <1>3. 0 \in Q
    BY <1>1, <1>2 DEF Sums
  <1>4. ASSUME NEW m \in Q
        PROVE  m + 1 \in Q
    <2>1. SUFFICES ASSUME m + 1 <= n
                   PROVE  s[m + 1] = r[m + 1]
      OBVIOUS
    <2>2. m \in Nat /\ m + 1 \in 1 .. n /\ (m + 1) - 1 = m /\ s[m] = r[m]
      BY <2>1
    <2>3. s[m + 1] = s[(m + 1) - 1] + a[m + 1] /\ r[m + 1] = r[(m + 1) - 1] + a[m + 1]
      BY <1>1, <1>2, <2>2 DEF Sums
    <2>4. QED
      BY <2>2, <2>3
  <1>5. Q = Nat
    <2>1. Q \in SUBSET Nat /\ \A m \in Q : m + 1 \in Q
      BY <1>4
    <2> HIDE DEF Q
    <2>2. QED
      BY <1>3, <2>1, Numbers
  <1>6. s[n] = r[n]
    BY <1>5
  <1>7. QED
    BY <1>1, <1>2, <1>6

\* The numbers with one of them raised add up to one more.
LEMMA RaiseAdds ==
  ASSUME NEW n \in Nat, NEW a \in [1 .. n -> Nat], NEW t \in Nat, NEW b \in 1 .. n, Adds(a, n, t)
  PROVE  Adds([a EXCEPT ![b] = a[b] + 1], n, t + 1)
  <1> DEFINE new == [a EXCEPT ![b] = a[b] + 1]
  <1>1. PICK s : Sums(a, n, s) /\ s[n] = t
    BY DEF Adds
  <1>2. /\ s \in [0 .. n -> Nat] /\ s[0] = 0 /\ \A i \in 1 .. n : s[i] = s[i - 1] + a[i]
    BY <1>1 DEF Sums
  <1>3. \A i \in 1 .. n : new[i] = IF i = b THEN a[b] + 1 ELSE a[i]
    OBVIOUS
  <1> DEFINE r == [i \in 0 .. n |-> IF i < b THEN s[i] ELSE s[i] + 1]
  <1>4. r \in [0 .. n -> Nat] /\ r[0] = 0 /\ r[n] = t + 1
    BY <1>1, <1>2
  <1>5. ASSUME NEW i \in 1 .. n
        PROVE  r[i] = r[i - 1] + new[i]
    <2>1. i \in 0 .. n /\ i - 1 \in 0 .. n /\ i - 1 < i
      OBVIOUS
    <2>2. s[i] = s[i - 1] + a[i] /\ s[i] \in Nat /\ s[i - 1] \in Nat /\ a[i] \in Nat
      BY <1>2, <2>1
    <2>3. /\ r[i] = IF i < b THEN s[i] ELSE s[i] + 1
          /\ r[i - 1] = IF i - 1 < b THEN s[i - 1] ELSE s[i - 1] + 1
      BY <2>1
    <2>4. new[i] = IF i = b THEN a[b] + 1 ELSE a[i]
      BY <1>3
    <2> HIDE DEF r, new
    <2>5. CASE i = b
      <3>1. i - 1 < b /\ ~ (i < b)
        BY <2>5
      <3>2. r[i] = s[i] + 1 /\ r[i - 1] = s[i - 1] /\ new[i] = a[i] + 1
        BY <2>3, <2>4, <2>5, <3>1
      <3> DEFINE x == s[i - 1]
                 y == a[i]
      <3>3. x \in Nat /\ y \in Nat /\ s[i] = x + y
        BY <2>2
      <3> HIDE DEF x, y
      <3>4. (x + y) + 1 = x + (y + 1)
        BY <3>3
      <3>5. QED
        BY <3>2, <3>3, <3>4 DEF x, y
    <2>6. CASE i < b
      <3>1. i - 1 < b /\ i # b
        BY <2>6
      <3>2. QED
        BY <2>2, <2>3, <2>4, <2>6, <3>1
    <2>7. CASE b < i
      <3>1. ~ (i - 1 < b) /\ i # b /\ ~ (i < b)
        BY <2>7
      <3>2. QED
        BY <2>2, <2>3, <2>4, <3>1
    <2>8. QED
      BY <2>5, <2>6, <2>7
  <1> HIDE DEF r, new
  <1>6. Adds(new, n, t + 1)
    BY <1>4, <1>5 DEF Adds, Sums
  <1>7. QED
    BY <1>6 DEF new

\* The lengths of sequences add up to the length of the sequence that joins them.
LEMMA LengthsAdd ==
  ASSUME NEW A, NEW seqs \in Seq(Seq(A)), NEW a, \A i \in 1 .. Len(seqs) : a[i] = Len(seqs[i])
  PROVE  Adds(a, Len(seqs), Len(FlattenSeq(seqs)))
  <1> DEFINE n == Len(seqs)
  <1>1. PICK f : IsFlat(A, seqs, f)
    BY FlatExists
  <1>2. n \in Nat /\ \A i \in 1 .. n : seqs[i] \in Seq(A) /\ a[i] = Len(seqs[i])
    OBVIOUS
  <1>3. FlattenSeq(seqs) = f[n]
    BY <1>1, FlattenIs
  <1> HIDE DEF n
  <1>4. f \in [0 .. n -> Seq(A)] /\ f[0] = <<>> /\ \A i \in 1 .. n : f[i] = f[i - 1] \o seqs[i]
    BY <1>1 DEF IsFlat, n
  <1> DEFINE s == [i \in 0 .. n |-> Len(f[i])]
  <1>5. s \in [0 .. n -> Nat]
    <2>1. \A i \in 0 .. n : Len(f[i]) \in Nat
      BY <1>4, LenProperties
    <2>2. QED
      BY <2>1
  <1>6. s[0] = 0 /\ s[n] = Len(f[n])
    <2>1. Len(<<>>) = 0 /\ 0 \in 0 .. n /\ n \in 0 .. n
      BY <1>2
    <2>2. QED
      BY <1>4, <2>1
  <1>7. ASSUME NEW i \in 1 .. n
        PROVE  s[i] = s[i - 1] + a[i]
    <2>1. i \in 0 .. n /\ i - 1 \in 0 .. n
      BY <1>2
    <2>2. f[i] = f[i - 1] \o seqs[i] /\ f[i - 1] \in Seq(A) /\ seqs[i] \in Seq(A)
      BY <1>2, <1>4, <2>1
    <2>3. Len(f[i - 1] \o seqs[i]) = Len(f[i - 1]) + Len(seqs[i])
      BY <2>2, ConcatProperties
    <2>4. QED
      BY <1>2, <2>1, <2>2, <2>3
  <1> HIDE DEF s
  <1>8. Adds(a, n, Len(f[n]))
    BY <1>5, <1>6, <1>7 DEF Adds, Sums
  <1>9. QED
    BY <1>3, <1>8 DEF n

\* All spare shards are handed out, as long as there are entries for them, and no group gets more
\* than it has entries.
LEMMA AllocationsAre ==
  ASSUME NEW groups \in Seq(Seq(Entry)), \A i \in 1 .. Len(groups) : groups[i] # <<>>,
         NEW spare \in Nat, Len(groups) + spare <= Len(FlattenSeq(groups))
  PROVE  /\ Allocations(groups, spare) \in Allocs(groups)
         /\ \A i \in 1 .. Len(groups) : Allocations(groups, spare)[i] <= Len(groups[i])
         /\ Adds(Allocations(groups, spare), Len(groups), Len(groups) + spare)
  <1> DEFINE n == Len(groups)
             all == Len(FlattenSeq(groups))
             ones == [i \in DOMAIN groups |-> 1]
             Fair(a, m) == (\A i \in 1 .. n : a[i] <= Len(groups[i])) /\ Adds(a, n, n + m)
             P == [m \in 0 .. spare |-> {a \in Allocs(groups) : Fair(a, m)}]
  <1>1. n \in Nat /\ DOMAIN groups = 1 .. n /\ all \in Nat
    <2>1. FlattenSeq(groups) \in Seq(Entry)
      BY FlattenIn
    <2>2. QED
      BY <2>1
  <1>2. \A i \in 1 .. n : Len(groups[i]) \in Nat /\ 1 <= Len(groups[i])
    <2> SUFFICES ASSUME NEW i \in 1 .. n
                 PROVE  Len(groups[i]) \in Nat /\ 1 <= Len(groups[i])
      OBVIOUS
    <2>1. groups[i] \in Seq(Entry) /\ groups[i] # <<>>
      OBVIOUS
    <2> DEFINE g == groups[i]
    <2> HIDE DEF g
    <2>2. g \in Seq(Entry) /\ g # <<>>
      BY <2>1 DEF g
    <2>3. Len(g) \in Nat /\ 1 <= Len(g)
      BY <2>2
    <2>4. QED
      BY <2>3 DEF g
  <1>3. ones \in Allocs(groups) /\ \A i \in 1 .. n : ones[i] = 1
    BY <1>1 DEF Allocs
  <1> HIDE DEF n, all, ones, Fair
  <1>4. Fair(ones, 0)
    <2>1. Adds(ones, n, n)
      BY <1>1, <1>3, OnesAdd
    <2>2. n + 0 = n
      BY <1>1
    <2>3. QED
      BY <1>2, <1>3, <2>1, <2>2 DEF Fair
  <1>5. ASSUME NEW m \in 0 .. spare - 1, NEW a \in Allocs(groups), Fair(a, m)
        PROVE  Fair(AllocateStep(groups, a), m + 1)
    <2> DEFINE new == AllocateStep(groups, a)
    <2>1. a \in [1 .. n -> Nat] /\ (\A i \in 1 .. n : a[i] <= Len(groups[i])) /\ Adds(a, n, n + m)
          /\ n + m \in Nat
      BY <1>1, <1>5 DEF Fair, Allocs, n
    <2>2. CASE /\ new = a
               /\ \A i \in 1 .. n : Len(groups[i]) <= a[i]
      <3>1. \A i \in 1 .. n : a[i] = Len(groups[i])
        BY <1>2, <2>1, <2>2
      <3>2. Adds(a, n, all)
        BY <3>1, LengthsAdd DEF n, all
      <3>3. n + m = all
        BY <1>1, <2>1, <3>2, AddsUnique
      <3>4. n + spare <= all
        BY DEF n, all
      <3>5. QED
        BY <1>1, <3>3, <3>4
    <2>3. CASE \E b \in 1 .. n : a[b] < Len(groups[b]) /\ new = [a EXCEPT ![b] = a[b] + 1]
      <3>1. PICK b \in 1 .. n : a[b] < Len(groups[b]) /\ new = [a EXCEPT ![b] = a[b] + 1]
        BY <2>3
      <3>2. Adds(new, n, (n + m) + 1)
        <4> DEFINE t == n + m
        <4>1. t \in Nat /\ Adds(a, n, t)
          BY <2>1
        <4> HIDE DEF t, new
        <4>2. Adds([a EXCEPT ![b] = a[b] + 1], n, t + 1)
          BY <1>1, <2>1, <4>1, RaiseAdds
        <4>3. QED
          BY <3>1, <4>2 DEF t
      <3>3. (n + m) + 1 = n + (m + 1)
        BY <1>1
      <3>4. \A i \in 1 .. n : new[i] <= Len(groups[i])
        <4> HIDE DEF new
        <4> SUFFICES ASSUME NEW i \in 1 .. n
                     PROVE  new[i] <= Len(groups[i])
          OBVIOUS
        <4>1. new[i] = IF i = b THEN a[b] + 1 ELSE a[i]
          BY <2>1, <3>1
        <4>2. a[i] \in Nat /\ a[b] \in Nat /\ Len(groups[i]) \in Nat /\ Len(groups[b]) \in Nat
          BY <1>2, <2>1
        <4>3. QED
          BY <2>1, <3>1, <4>1, <4>2
      <3>5. QED
        BY <3>2, <3>3, <3>4 DEF Fair
    <2>4. QED
      BY <2>2, <2>3, AllocateStepIs DEF n
  <1>6. \A a \in Allocs(groups) : AllocateStep(groups, a) \in Allocs(groups)
    BY AllocateStepIs
  <1>7. ones \in P[0]
    BY <1>3, <1>4
  <1>8. \A m \in 0 .. spare - 1 : \A a \in Allocs(groups) :
          a \in P[m] => AllocateStep(groups, a) \in P[m + 1]
    <2> SUFFICES ASSUME NEW m \in 0 .. spare - 1, NEW a \in Allocs(groups), a \in P[m]
                 PROVE  AllocateStep(groups, a) \in P[m + 1]
      OBVIOUS
    <2>1. m \in 0 .. spare /\ m + 1 \in 0 .. spare
      OBVIOUS
    <2>2. Fair(a, m)
      BY <2>1
    <2>3. Fair(AllocateStep(groups, a), m + 1) /\ AllocateStep(groups, a) \in Allocs(groups)
      BY <1>5, <1>6, <2>2
    <2>4. QED
      BY <2>1, <2>3
  <1> DEFINE result == Allocations(groups, spare)
  <1>9. result \in Allocs(groups) /\ result \in P[spare]
    <2>1. ones = [i \in DOMAIN groups |-> 1]
      BY DEF ones
    <2> HIDE DEF P
    <2>2. QED
      BY <1>3, <1>6, <1>7, <1>8, <2>1, AllocFold
  <1> HIDE DEF result
  <1>10. Fair(result, spare)
    BY <1>9
  <1>11. QED
    BY <1>9, <1>10 DEF Fair, n, result

\* A total is no less than any of its numbers, and than their count when none is zero.
LEMMA AddsBounds ==
  ASSUME NEW n \in Nat, NEW a, NEW t, \A i \in 1 .. n : a[i] \in Nat, Adds(a, n, t)
  PROVE  /\ t \in Nat /\ \A i \in 1 .. n : a[i] <= t
         /\ (\A i \in 1 .. n : 1 <= a[i]) => n <= t
  <1>1. PICK s : Sums(a, n, s) /\ s[n] = t
    BY DEF Adds
  <1>2. s \in [0 .. n -> Nat] /\ s[0] = 0 /\ \A i \in 1 .. n : s[i] = s[i - 1] + a[i]
    BY <1>1 DEF Sums
  <1> DEFINE One == \A i \in 1 .. n : 1 <= a[i]
             Q == {m \in Nat : m <= n => (\A i \in 1 .. m : a[i] <= s[m]) /\ (One => m <= s[m])}
  <1> HIDE DEF One
  <1>3. 0 \in Q
    BY <1>2
  <1>4. ASSUME NEW m \in Q
        PROVE  m + 1 \in Q
    <2>1. SUFFICES ASSUME m + 1 <= n
                   PROVE  (\A i \in 1 .. m + 1 : a[i] <= s[m + 1]) /\ (One => m + 1 <= s[m + 1])
      OBVIOUS
    <2>2. /\ m \in Nat /\ m <= n /\ m + 1 \in 1 .. n /\ (m + 1) - 1 = m /\ m \in 0 .. n
          /\ \A i \in 1 .. m : a[i] <= s[m]
          /\ One => m <= s[m]
      BY <2>1
    <2>3. s[m + 1] = s[m] + a[m + 1] /\ s[m] \in Nat /\ a[m + 1] \in Nat
      BY <1>2, <2>2
    <2>4. ASSUME NEW i \in 1 .. m + 1
          PROVE  a[i] <= s[m + 1]
      <3>1. a[i] \in Nat /\ (i \in 1 .. m \/ i = m + 1)
        BY <2>2
      <3>2. CASE i \in 1 .. m
        <4>1. a[i] <= s[m]
          BY <2>2, <3>2
        <4>2. QED
          BY <2>3, <3>1, <4>1
      <3>3. CASE i = m + 1
        BY <2>3, <3>3
      <3>4. QED
        BY <3>1, <3>2, <3>3
    <2>5. ASSUME One
          PROVE  m + 1 <= s[m + 1]
      <3>1. 1 <= a[m + 1]
        BY <2>2, <2>5 DEF One
      <3>2. QED
        BY <2>2, <2>3, <2>5, <3>1
    <2>6. QED
      BY <2>4, <2>5
  <1>5. Q = Nat
    <2>1. Q \in SUBSET Nat /\ \A m \in Q : m + 1 \in Q
      BY <1>4
    <2> HIDE DEF Q
    <2>2. QED
      BY <1>3, <2>1, Numbers
  <1>6. n \in Q
    BY <1>5
  <1>7. QED
    BY <1>1, <1>2, <1>6 DEF One

LEMMA FlattenLong ==
  ASSUME NEW A, NEW seqs \in Seq(Seq(A))
  PROVE  /\ Len(FlattenSeq(seqs)) \in Nat
         /\ \A j \in 1 .. Len(seqs) : Len(seqs[j]) <= Len(FlattenSeq(seqs))
         /\ (\A j \in 1 .. Len(seqs) : seqs[j] # <<>>) => Len(seqs) <= Len(FlattenSeq(seqs))
  <1> DEFINE n == Len(seqs)
             a == [j \in 1 .. n |-> Len(seqs[j])]
             t == Len(FlattenSeq(seqs))
  <1>1. n \in Nat /\ \A j \in 1 .. n : seqs[j] \in Seq(A)
    OBVIOUS
  <1>2. \A j \in 1 .. n : a[j] = Len(seqs[j]) /\ a[j] \in Nat /\ (seqs[j] # <<>> => 1 <= a[j])
    <2> SUFFICES ASSUME NEW j \in 1 .. n
                 PROVE  Len(seqs[j]) \in Nat /\ (seqs[j] # <<>> => 1 <= Len(seqs[j]))
      OBVIOUS
    <2> DEFINE s == seqs[j]
    <2>1. s \in Seq(A)
      BY <1>1
    <2> HIDE DEF s
    <2>2. Len(s) \in Nat /\ (s # <<>> => 1 <= Len(s))
      BY <2>1
    <2>3. QED
      BY <2>2 DEF s
  <1> HIDE DEF a
  <1>3. Adds(a, n, t)
    BY <1>2, LengthsAdd
  <1> HIDE DEF n, t
  <1>4. t \in Nat /\ (\A j \in 1 .. n : a[j] <= t) /\ ((\A j \in 1 .. n : 1 <= a[j]) => n <= t)
    BY <1>1, <1>2, <1>3, AddsBounds
  <1>5. \A j \in 1 .. n : Len(seqs[j]) <= t
    BY <1>2, <1>4
  <1>6. (\A j \in 1 .. n : seqs[j] # <<>>) => n <= t
    BY <1>2, <1>4
  <1>7. QED
    BY <1>4, <1>5, <1>6 DEF n, t

\* A sequence that lists a set is as long as the set is large.
LEMMA ListsLen ==
  ASSUME NEW A, NEW s \in Seq(A), NEW S, Lists(s, S)
  PROVE  IsFiniteSet(S) /\ Cardinality(S) = Len(s) /\ ToSet(s) = S
  <1> DEFINE n == Len(s)
  <1>1. n \in Nat /\ DOMAIN s = 1 .. n /\ s \in [1 .. n -> A]
    OBVIOUS
  <1>2. /\ \A i \in 1 .. n : s[i] \in S
        /\ \A x \in S : \E i \in 1 .. n : s[i] = x
        /\ \A i, j \in 1 .. n : s[i] = s[j] => i = j
    BY DEF Lists
  <1> DEFINE f == [i \in 1 .. n |-> s[i]]
  <1>3. /\ f \in [1 .. n -> S]
        /\ \A i \in 1 .. n : \A j \in 1 .. n : f[i] = f[j] => i = j
        /\ \A x \in S : \E i \in 1 .. n : f[i] = x
    BY <1>2
  <1> HIDE DEF f
  <1>4. f \in Bijection(1 .. n, S)
    <2>1. DOMAIN f = 1 .. n
      BY <1>3
    <2>2. IsInjective(f)
      BY <1>3, <2>1 DEF IsInjective
    <2>3. QED
      BY <1>3, <2>2 DEF Bijection, Injection, Surjection
  <1>5. ExistsBijection(1 .. n, S)
    BY <1>4 DEF ExistsBijection
  <1>6. IsFiniteSet(S) /\ Cardinality(S) = n
    <2>1. Cardinality(S) = n
      BY <1>1, <1>5, FS_CountingElements
    <2>2. IsFiniteSet(S)
      BY <1>1, <1>5, FS_NatBijection
    <2>3. QED
      BY <2>1, <2>2
  <1>7. ToSet(s) = S
    BY <1>1, <1>2 DEF ToSet
  <1>8. QED
    BY <1>6, <1>7

\* The shards: they list the entries, none is empty, over the limit or of two release volumes, and
\* there are as many as asked for or as the limits force.
LEMMA ShardsAre ==
  ASSUME SourcesValid, NEW entries \in SUBSET Entry, NEW target \in Nat
  PROVE  /\ Shards(entries, target) \in Seq(Seq(Entry))
         /\ Lists(FlattenSeq(Shards(entries, target)), entries)
         /\ Len(Shards(entries, target)) =
              Smaller(Cardinality(entries), Larger(Larger(target, 1), Len(BaseGroups(entries))))
         /\ \A i \in 1 .. Len(Shards(entries, target)) : Uniform(Shards(entries, target)[i])
  <1> DEFINE n == Cardinality(entries)
             base == BaseGroups(entries)
             k == Len(base)
             want == Smaller(Larger(Smaller(Larger(target, 1), n), k), n)
             spare == want - k
             alloc == Allocations(base, spare)
             parts == [i \in DOMAIN base |-> Partition(base[i], alloc[i])]
             shards == Shards(entries, target)
  <1>1. shards = IF n = 0 THEN <<>> ELSE FlattenSeq(parts)
    BY DEF Shards
  <1>2. /\ base \in Seq(Seq(Entry)) /\ Lists(FlattenSeq(base), entries)
        /\ \A i \in 1 .. k : Uniform(base[i])
    BY BaseGroupsAre
  <1>3. FlattenSeq(base) \in Seq(Entry)
    <2> HIDE DEF base
    <2>1. QED
      BY <1>2, FlattenIn
  <1>4. IsFiniteSet(entries) /\ n = Len(FlattenSeq(base)) /\ n \in Nat
    <2> DEFINE s == FlattenSeq(base)
    <2>1. s \in Seq(Entry) /\ Lists(s, entries)
      BY <1>2, <1>3
    <2> HIDE DEF s
    <2>2. IsFiniteSet(entries) /\ n = Len(s) /\ Len(s) \in Nat
      BY <2>1, ListsLen
    <2>3. QED
      BY <2>2 DEF s
  <1>5. \A i \in 1 .. k : base[i] # <<>> /\ Len(base[i]) <= ShardEntries
    BY <1>2 DEF Uniform
  <1> HIDE DEF base, n, shards, alloc
  <1>6. k \in Nat /\ DOMAIN base = 1 .. k /\ k <= n
    <2>1. k <= Len(FlattenSeq(base))
      BY <1>2, <1>5, FlattenLong
    <2>2. k \in Nat /\ DOMAIN base = 1 .. k
      BY <1>2
    <2>3. QED
      BY <1>4, <2>1, <2>2
  <1>7. CASE n = 0
    <2>1. entries = {}
      BY <1>4, <1>7, FS_EmptySet DEF n
    <2>2. shards = <<>>
      BY <1>1, <1>7
    <2>3. \A i : i \notin 1 .. Len(<<>>)
      OBVIOUS
    <2>4. Lists(<<>>, {})
      BY <2>3, Zenon DEF Lists
    <2>5. Lists(FlattenSeq(<<>>), {})
      BY <2>4, FlattenEmpty
    <2>6. Smaller(n, Larger(Larger(target, 1), k)) = 0
      BY <1>6, <1>7 DEF Smaller, Larger
    <2>7. <<>> \in Seq(Seq(Entry)) /\ Len(<<>>) = 0
      OBVIOUS
    <2>8. shards \in Seq(Seq(Entry)) /\ Lists(FlattenSeq(shards), entries) /\ Len(shards) = 0
          /\ \A i \in 1 .. Len(shards) : Uniform(shards[i])
      BY <2>1, <2>2, <2>3, <2>5, <2>7, Zenon
    <2>9. QED
      BY <2>6, <2>8 DEF shards, n, base
  <1>8. CASE n # 0
    <2>1. /\ want = Smaller(n, Larger(Larger(target, 1), k)) /\ want \in Nat /\ want <= n
          /\ spare \in Nat /\ k + spare = want
      BY <1>4, <1>6, <1>8 DEF Smaller, Larger
    <2> HIDE DEF want, spare
    <2>2. k + spare <= Len(FlattenSeq(base))
      BY <1>4, <2>1
    <2>3. /\ alloc \in Allocs(base) /\ \A i \in 1 .. k : alloc[i] <= Len(base[i])
          /\ Adds(alloc, k, k + spare)
      BY <1>2, <1>5, <2>1, <2>2, AllocationsAre DEF alloc
    <2>4. ASSUME NEW i \in 1 .. k
          PROVE  /\ parts[i] \in Seq(Seq(Entry)) /\ FlattenSeq(parts[i]) = base[i]
                 /\ Len(parts[i]) = alloc[i]
                 /\ \A j \in 1 .. Len(parts[i]) : parts[i][j] # <<>>
      <3> DEFINE g == base[i]
                 a == alloc[i]
                 p == Partition(g, a)
      <3>1. parts[i] = p
        BY <1>6
      <3>2. g \in Seq(Entry) /\ g # <<>> /\ a \in Nat /\ 1 <= a /\ a <= Len(g)
        <4>1. base[i] \in Seq(Entry)
          BY <1>2
        <4>2. alloc[i] \in Nat \ {0}
          BY <2>3 DEF Allocs
        <4>3. base[i] # <<>> /\ alloc[i] <= Len(base[i])
          BY <1>5, <2>3
        <4> HIDE DEF k
        <4>4. QED
          BY <4>1, <4>2, <4>3
      <3> HIDE DEF g, a
      <3>3. p \in Seq(Seq(Entry)) /\ FlattenSeq(p) = g /\ Len(p) = Pieces(a, g)
            /\ \A j \in 1 .. Len(p) : p[j] # <<>>
        BY <3>2, PartitionIs
      <3>4. Pieces(a, g) = a
        BY <3>2, LenProperties DEF Pieces, Smaller, Larger
      <3> HIDE DEF p, parts
      <3>5. QED
        BY <3>1, <3>3, <3>4 DEF g, a
    <2>5. parts = [i \in 1 .. k |-> parts[i]] /\ DOMAIN parts = 1 .. k
      BY <1>6
    <2> HIDE DEF parts, k
    <2>6. parts \in Seq(Seq(Seq(Entry))) /\ Len(parts) = k
      <3>1. parts \in [1 .. k -> Seq(Seq(Entry))]
        BY <2>4, <2>5
      <3>2. QED
        BY <1>6, <3>1
    <2>7. shards = FlattenSeq(parts)
      BY <1>1, <1>8
    <2>8. shards \in Seq(Seq(Entry))
      BY <2>6, <2>7, FlattenIn
    <2>9. FlattenSeq(shards) = FlattenSeq(base)
      <3>1. k = Len(base)
        BY DEF k
      <3>2. QED
        BY <1>2, <2>4, <2>6, <2>7, <3>1, FlattenFlatten
    <2>10. Len(shards) = want
      <3>1. Adds(alloc, k, Len(shards))
        <4> DEFINE H == Seq(Entry)
        <4>1. parts \in Seq(Seq(H)) /\ \A i \in 1 .. Len(parts) : alloc[i] = Len(parts[i])
          BY <2>4, <2>6
        <4> HIDE DEF H
        <4>2. Adds(alloc, Len(parts), Len(FlattenSeq(parts)))
          BY <4>1, LengthsAdd
        <4>3. QED
          BY <2>6, <2>7, <4>2
      <3>2. Len(shards) = k + spare
        BY <1>6, <2>3, <3>1, AddsUnique
      <3>3. QED
        BY <2>1, <3>2
    <2>11. ASSUME NEW i \in 1 .. Len(shards)
           PROVE  Uniform(shards[i])
      <3> DEFINE x == shards[i]
      <3>1. Occurs(x, shards)
        BY DEF Occurs
      <3> HIDE DEF x
      <3>2. PICK b \in 1 .. k : Occurs(x, parts[b])
        <4> DEFINE H == Seq(Entry)
        <4>1. parts \in Seq(Seq(H)) /\ Occurs(x, FlattenSeq(parts))
          BY <2>6, <2>7, <3>1
        <4> HIDE DEF H
        <4>2. \E b \in 1 .. Len(parts) : Occurs(x, parts[b])
          BY <4>1, FlattenHolds
        <4>3. QED
          BY <2>6, <4>2
      <3> DEFINE p == parts[b]
                 g == base[b]
      <3>3. p \in Seq(Seq(Entry)) /\ FlattenSeq(p) = g /\ (\A j \in 1 .. Len(p) : p[j] # <<>>)
            /\ Occurs(x, p) /\ Uniform(g) /\ g \in Seq(Entry)
        BY <1>2, <2>4, <3>2 DEF k
      <3> HIDE DEF p, g
      <3>4. PICK j \in 1 .. Len(p) : p[j] = x
        BY <3>3 DEF Occurs
      <3>5. x # <<>> /\ Len(x) <= Len(g) /\ x \in Seq(Entry)
        BY <3>3, <3>4, FlattenLong
      <3>6. Len(x) <= ShardEntries
        <4>1. Len(g) <= ShardEntries
          BY <3>3 DEF Uniform
        <4>2. Len(x) \in Nat /\ Len(g) \in Nat /\ ShardEntries \in Nat
          <5>1. Len(x) \in Nat
            BY <3>5, LenProperties
          <5>2. Len(g) \in Nat
            BY <3>3, LenProperties
          <5>3. ShardEntries \in Nat
            BY ArchiveAssumption
          <5>4. QED
            BY <5>1, <5>2, <5>3
        <4>3. QED
          BY <3>5, <4>1, <4>2
      <3>7. PICK v \in Volume : \A h \in 1 .. Len(g) : ReleaseVolume(g[h]) = v
        BY <3>3 DEF Uniform
      <3>8. ASSUME NEW h \in 1 .. Len(x)
            PROVE  ReleaseVolume(x[h]) = v
        <4> DEFINE e == x[h]
        <4>1. \E q \in 1 .. Len(p) : Occurs(e, p[q])
          BY <3>4 DEF Occurs
        <4> HIDE DEF e
        <4>2. Occurs(e, FlattenSeq(p))
          BY <3>3, <4>1, FlattenHolds
        <4>3. PICK q \in 1 .. Len(g) : g[q] = e
          BY <3>3, <4>2 DEF Occurs
        <4>4. QED
          BY <3>7, <4>3 DEF e
      <3>9. Uniform(x)
        BY <3>5, <3>6, <3>7, <3>8 DEF Uniform
      <3>10. QED
        BY <3>9 DEF x
    <2>12. QED
      BY <1>2, <2>1, <2>8, <2>9, <2>10, <2>11 DEF shards, k, base, n
  <1>9. QED
    BY <1>7, <1>8

LEMMA ExactShards ==
  ASSUME SourcesValid
  PROVE  ShardsExact
  <1> SUFFICES ASSUME NEW chosen \in SUBSET Entry, NEW target \in 0 .. 3
               PROVE  LET shards == Shards(chosen, target)
                          flat == FlattenSeq(shards)
                      IN  /\ Len(flat) = Cardinality(chosen) /\ ToSet(flat) = chosen
                          /\ Len(shards) = Smaller(Cardinality(chosen),
                                                   Larger(Larger(target, 1), Len(BaseGroups(chosen))))
                          /\ \A i \in DOMAIN shards :
                               /\ shards[i] # <<>> /\ Len(shards[i]) <= ShardEntries
                               /\ \A e, f \in ToSet(shards[i]) : ReleaseVolume(e) = ReleaseVolume(f)
    BY DEF ShardsExact
  <1> DEFINE shards == Shards(chosen, target)
             flat == FlattenSeq(shards)
  <1>1. target \in Nat
    OBVIOUS
  <1>2. /\ shards \in Seq(Seq(Entry)) /\ Lists(flat, chosen)
        /\ Len(shards) = Smaller(Cardinality(chosen),
                                 Larger(Larger(target, 1), Len(BaseGroups(chosen))))
        /\ \A i \in 1 .. Len(shards) : Uniform(shards[i])
    BY <1>1, ShardsAre
  <1> HIDE DEF shards
  <1>3. flat \in Seq(Entry)
    BY <1>2, FlattenIn
  <1>4. Len(flat) = Cardinality(chosen) /\ ToSet(flat) = chosen
    <2> HIDE DEF flat
    <2>1. QED
      BY <1>2, <1>3, ListsLen
  <1>5. ASSUME NEW i \in DOMAIN shards
        PROVE  /\ shards[i] # <<>> /\ Len(shards[i]) <= ShardEntries
               /\ \A e, f \in ToSet(shards[i]) : ReleaseVolume(e) = ReleaseVolume(f)
    <2> DEFINE x == shards[i]
    <2>1. Uniform(x) /\ x \in Seq(Entry)
      BY <1>2
    <2> HIDE DEF x
    <2>2. PICK v \in Volume : \A h \in 1 .. Len(x) : ReleaseVolume(x[h]) = v
      BY <2>1 DEF Uniform
    <2>3. \A e \in ToSet(x) : \E h \in 1 .. Len(x) : x[h] = e
      <3>1. DOMAIN x = 1 .. Len(x)
        BY <2>1
      <3>2. QED
        BY <3>1 DEF ToSet
    <2>4. \A e \in ToSet(x) : ReleaseVolume(e) = v
      BY <2>2, <2>3
    <2>5. x # <<>> /\ Len(x) <= ShardEntries
      BY <2>1 DEF Uniform
    <2>6. QED
      BY <2>4, <2>5 DEF x
  <1>6. QED
    BY <1>2, <1>4, <1>5 DEF shards, flat

\* What is extracted: every entry but the control files and the excluded ones by the direct shards,
\* which extract no control file.
Job == [entries : Seq(Entry), direct : BOOLEAN]

LEMMA PlannedIs ==
  ASSUME SourcesValid
  PROVE  /\ Planned \in Seq(Job)
         /\ \A s \in DOMAIN Planned : /\ Planned[s].entries # <<>>
                                      /\ Planned[s].direct => ToSet(Planned[s].entries) \cap Controls = {}
         /\ \A e \in Entry \ (Controls \cup Excluded) :
              \E s \in DOMAIN Planned : Planned[s].direct /\ e \in ToSet(Planned[s].entries)
  <1> DEFINE D == Entry \ (Controls \cup Excluded)
             SD == Shards(D, TargetShards)
             SC == Shards(Controls, 1)
             JD == [i \in DOMAIN SD |-> [entries |-> SD[i], direct |-> TRUE]]
             JC == [i \in DOMAIN SC |-> [entries |-> SC[i], direct |-> FALSE]]
  <1>1. Planned = JD \o JC
    BY Zenon DEF Planned
  <1>2. D \in SUBSET Entry /\ Controls \in SUBSET Entry /\ TargetShards \in Nat /\ 1 \in Nat
    BY ArchiveAssumption
  <1>3. SD \in Seq(Seq(Entry)) /\ Lists(FlattenSeq(SD), D) /\ \A i \in 1 .. Len(SD) : Uniform(SD[i])
    <2> HIDE DEF D
    <2>1. QED
      BY <1>2, ShardsAre
  <1>4. SC \in Seq(Seq(Entry)) /\ \A i \in 1 .. Len(SC) : Uniform(SC[i])
    BY <1>2, ShardsAre
  <1> HIDE DEF SD, SC
  <1>5. /\ DOMAIN SD = 1 .. Len(SD) /\ Len(SD) \in Nat /\ \A i \in 1 .. Len(SD) : SD[i] \in Seq(Entry)
        /\ DOMAIN SC = 1 .. Len(SC) /\ Len(SC) \in Nat /\ \A i \in 1 .. Len(SC) : SC[i] \in Seq(Entry)
    BY <1>3, <1>4
  <1>6. JD \in [1 .. Len(SD) -> Job] /\ JC \in [1 .. Len(SC) -> Job]
    BY <1>5 DEF Job
  <1>7. /\ \A i \in 1 .. Len(SD) : JD[i].entries = SD[i] /\ JD[i].direct
        /\ \A i \in 1 .. Len(SC) : JC[i].entries = SC[i] /\ ~ JC[i].direct
    BY <1>5
  <1> HIDE DEF JD, JC
  <1> DEFINE d == Len(SD)
             c == Len(SC)
  <1>8. JD \in Seq(Job) /\ JC \in Seq(Job) /\ Len(JD) = d /\ Len(JC) = c
    <2>1. JD \in [1 .. d -> Job] /\ JC \in [1 .. c -> Job] /\ d \in Nat /\ c \in Nat
      BY <1>5, <1>6
    <2> HIDE DEF d, c
    <2>2. QED
      BY <2>1
  <1>9. /\ Planned \in Seq(Job) /\ DOMAIN Planned = 1 .. d + c /\ d \in Nat /\ c \in Nat
        /\ \A s \in 1 .. d + c : Planned[s] = IF s <= d THEN JD[s] ELSE JC[s - d]
    <2>1. /\ JD \o JC \in Seq(Job) /\ Len(JD \o JC) = d + c
          /\ \A s \in 1 .. d + c : (JD \o JC)[s] = IF s <= d THEN JD[s] ELSE JC[s - d]
      <3> HIDE DEF d, c
      <3>1. QED
        BY <1>8, ConcatProperties
    <2>2. DOMAIN (JD \o JC) = 1 .. d + c
      BY <2>1
    <2>3. QED
      BY <1>1, <1>5, <2>1, <2>2
  <1>10. ASSUME NEW i \in 1 .. d, NEW e \in ToSet(SD[i])
         PROVE  e \in D
    <2> HIDE DEF D
    <2>1. \E h \in 1 .. Len(SD[i]) : SD[i][h] = e
      <3>1. DOMAIN SD[i] = 1 .. Len(SD[i])
        BY <1>5
      <3>2. QED
        BY <3>1 DEF ToSet
    <2>2. \E j \in 1 .. Len(SD) : Occurs(e, SD[j])
      BY <2>1 DEF Occurs
    <2>3. Occurs(e, FlattenSeq(SD))
      BY <1>3, <2>2, FlattenHolds
    <2>4. QED
      BY <1>3, <2>3 DEF Lists, Occurs
  <1>11. ASSUME NEW e \in D
         PROVE  \E i \in 1 .. d : e \in ToSet(SD[i])
    <2> HIDE DEF D
    <2>1. Occurs(e, FlattenSeq(SD))
      BY <1>3 DEF Lists, Occurs
    <2>2. PICK i \in 1 .. Len(SD) : Occurs(e, SD[i])
      BY <1>3, <2>1, FlattenHolds
    <2>3. DOMAIN SD[i] = 1 .. Len(SD[i])
      BY <1>5
    <2>4. e \in ToSet(SD[i])
      BY <2>2, <2>3 DEF ToSet, Occurs
    <2>5. QED
      BY <2>4
  <1>12. ASSUME NEW s \in DOMAIN Planned
         PROVE  /\ Planned[s].entries # <<>>
                /\ Planned[s].direct => ToSet(Planned[s].entries) \cap Controls = {}
    <2>1. CASE s <= d
      <3>1. s \in 1 .. d /\ Planned[s] = JD[s]
        BY <1>9, <2>1
      <3>2. Planned[s].entries = SD[s]
        BY <1>7, <3>1
      <3>3. SD[s] # <<>>
        BY <1>3, <3>1 DEF Uniform
      <3>4. QED
        BY <1>10, <3>1, <3>2, <3>3
    <2>2. CASE ~ (s <= d)
      <3>1. s - d \in 1 .. c /\ Planned[s] = JC[s - d]
        BY <1>9, <2>2
      <3>2. Planned[s].entries = SC[s - d] /\ ~ Planned[s].direct
        BY <1>7, <3>1
      <3>3. SC[s - d] # <<>>
        BY <1>4, <3>1 DEF Uniform
      <3>4. QED
        BY <3>2, <3>3
    <2>3. QED
      BY <2>1, <2>2
  <1>13. ASSUME NEW e \in D
         PROVE  \E s \in DOMAIN Planned : Planned[s].direct /\ e \in ToSet(Planned[s].entries)
    <2>1. PICK i \in 1 .. d : e \in ToSet(SD[i])
      BY <1>11
    <2>2. i \in DOMAIN Planned /\ Planned[i] = JD[i]
      BY <1>9
    <2>3. QED
      BY <1>7, <2>1, <2>2
  <1>14. QED
    BY <1>9, <1>12, <1>13

-----------------------------------------------------------------------------
(* The run. *)

\* A unit is cached, in a range file or in a volume file.
Present(u) == VolumeOf[u] \in registered \/ \E r \in cache : r.vol = VolumeOf[u] /\ u \in Units(r)

LEMMA PresentIs ==
  ASSUME NEW u \in Unit
  PROVE  Segments(u) # {} <=> Present(u)
  <1> DEFINE v == VolumeOf[u]
  <1>1. v \in Volume /\ VolumeStart(v) <= u /\ u < VolumeEnd[v]
    BY VolumeOfUnit
  <1>2. VolumeStart(v) \in Int /\ VolumeEnd[v] \in Int
    BY <1>1, Layout
  <1>3. ASSUME NEW r \in cache, r.vol = v, u \in Units(r)
        PROVE  Segments(u) # {}
    <2>1. r \in Ranges(v)
      BY <1>3 DEF Ranges
    <2>2. r \in Segments(u)
      BY <1>3, <2>1 DEF Segments
    <2>3. QED
      BY <2>2
  <1>4. ASSUME v \in registered
        PROVE  Segments(u) # {}
    <2> DEFINE r == [vol |-> v, lo |-> VolumeStart(v), hi |-> VolumeEnd[v],
                     good |-> vol[v] = "full", full |-> TRUE]
    <2>1. r \in Ranges(v)
      BY <1>4 DEF Ranges
    <2>2. u \in VolumeStart(v) .. VolumeEnd[v] - 1
      <3>1. u \in Int
        BY Layout DEF Unit
      <3>2. QED
        BY <1>1, <1>2, <3>1
    <2>3. u \in Units(r)
      BY <2>2 DEF Units
    <2> HIDE DEF r, v
    <2>4. r \in Segments(u)
      BY <2>1, <2>3 DEF Segments, v
    <2>5. QED
      BY <2>4
  <1>5. ASSUME NEW r \in Segments(u)
        PROVE  Present(u)
    <2>1. r \in Ranges(v) /\ u \in Units(r)
      BY DEF Segments
    <2>2. (r \in cache /\ r.vol = v) \/ v \in registered
      BY <2>1 DEF Ranges
    <2>3. QED
      BY <2>1, <2>2 DEF Present
  <1>6. QED
    BY <1>3, <1>4, <1>5 DEF Present

LEMMA SourcesAre ==
  ASSUME SourcesValid, NEW entries \in SUBSET Entry
  PROVE  Sources(entries) \in SUBSET SourceRange /\ IsFiniteSet(Sources(entries))
  <1>1. \A e \in entries : Source[e] \in SourceRange
    BY SourceOf
  <1>2. Sources(entries) \in SUBSET SourceRange
    BY <1>1 DEF Sources
  <1>3. IsFiniteSet(entries)
    <2>1. Start \in Seq(Nat) /\ Len(Start) \in Nat /\ Entry = 1 .. Len(Start)
      BY ArchiveAssumption DEF Entry
    <2>2. IsFiniteSet(1 .. Len(Start))
      BY <2>1, FS_Interval
    <2>3. QED
      BY <2>1, <2>2, FS_Subset
  <1> DEFINE f == [e \in entries |-> Source[e]]
  <1>4. f \in [entries -> Sources(entries)] /\ \A r \in Sources(entries) : \E e \in entries : f[e] = r
    BY DEF Sources
  <1> HIDE DEF f
  <1>5. f \in Surjection(entries, Sources(entries))
    BY <1>4 DEF Surjection
  <1>6. QED
    BY <1>2, <1>3, <1>5, FS_Surjection

\* The plan: shards are numbers, and each one's entries are entries.
LEMMA PlanIs ==
  ASSUME Phases
  PROVE  /\ Shard \in SUBSET Nat /\ IsFiniteSet(Shard) /\ plan \in Seq(Job)
         /\ \A s \in Shard : plan[s].entries \in Seq(Entry) /\ plan[s].direct \in BOOLEAN
                             /\ ToSet(plan[s].entries) \in SUBSET Entry
         /\ Shard # {} => SourcesValid /\ plan = Planned
  <1>1. plan \in Seq(Job)
    <2>1. CASE plan = <<>>
      BY <2>1
    <2>2. CASE plan # <<>>
      <3>1. SourcesValid /\ plan = Planned
        BY <2>2 DEF Phases
      <3>2. QED
        BY <3>1, PlannedIs
    <2>3. QED
      BY <2>1, <2>2
  <1>2. Len(plan) \in Nat /\ Shard = 1 .. Len(plan) /\ \A s \in Shard : plan[s] \in Job
    BY <1>1 DEF Shard
  <1>3. IsFiniteSet(Shard)
    BY <1>2, FS_Interval
  <1>4. ASSUME NEW s \in Shard
        PROVE  plan[s].entries \in Seq(Entry) /\ plan[s].direct \in BOOLEAN
               /\ ToSet(plan[s].entries) \in SUBSET Entry
    <2> DEFINE x == plan[s].entries
    <2>1. x \in Seq(Entry) /\ plan[s].direct \in BOOLEAN
      BY <1>2 DEF Job
    <2> HIDE DEF x
    <2>2. ToSet(x) \in SUBSET Entry
      BY <2>1 DEF ToSet
    <2>3. QED
      BY <2>1, <2>2 DEF x
  <1>5. Shard # {} => SourcesValid /\ plan = Planned
    <2>1. plan = <<>> => Shard = {}
      BY <1>2
    <2>2. QED
      BY <2>1 DEF Phases
  <1>6. QED
    BY <1>1, <1>2, <1>3, <1>4, <1>5

\* The kinds of steps, by what they change: tasks of the chain, tasks that ask for ranges, the plan
\* and the end of a run. The steps of a fetch, a shard and a volume are taken as they are.
ChainStep ==
  /\ phase # "extract" /\ phase' \in {"discover", "index", "controls", "failing", "done"}
  /\ phase' \in {"discover", "index", "controls"} => phase \in Early
  /\ phase' = "controls" => SourcesValid
  /\ phase' = "done" => phase = "cleanup"
  /\ cache' \in {cache, {}}
  /\ vol' \in [Volume -> {"absent", "wrong", "full"}] /\ temp' \in [Volume -> {"absent", "torn", "ready"}]
  /\ registered' \subseteq Volume
  /\ UNCHANGED <<remote, keep, staging, installed, fetches, broken, plan, pc, todo, snap, active,
                 failed, reported, slots, prepared, retain, saved, snapV, faults, crashes>>
Asks ==
  /\ \E owner, ranges : /\ ranges \in SUBSET SourceRange /\ IsFiniteSet(ranges)
                        /\ fetches' = fetches \cup
                             {[range |-> r, owner |-> owner, tries |-> 0] : r \in Requests(ranges)}
  /\ UNCHANGED <<remote, keep, vol, temp, cache, staging, installed, registered, phase, broken, plan,
                 pc, todo, snap, active, failed, reported, slots, prepared, retain, saved, snapV,
                 invalid, faults, crashes>>
Plans ==
  /\ phase = "controls" /\ phase' = "extract" /\ plan' = Planned
  /\ pc' = [s \in DOMAIN plan' |-> "blocked"] /\ snap' = [s \in DOMAIN plan' |-> {}]
  /\ todo' = [s \in DOMAIN plan' |-> plan'[s].entries]
  /\ slots' = IF remote /\ ~keep THEN DOMAIN plan' ELSE {}
  /\ fetches' = UNION {{[range |-> r, owner |-> ShardOwner(s), tries |-> 0] :
                  r \in Requests(Sources(ToSet(plan'[s].entries)))} : s \in DOMAIN plan'}
  /\ prepared' = TRUE /\ staging' = TRUE
  /\ UNCHANGED <<remote, keep, vol, temp, cache, installed, registered, broken,
                 active, failed, reported, retain, saved, snapV, invalid, faults, crashes>>
Ends ==
  /\ ForgetRun /\ phase' = "failed" /\ cache' \in {cache, {}} /\ staging' \in BOOLEAN
  /\ crashes' \in 0 .. MaxCrashes
  /\ UNCHANGED <<remote, keep, vol, temp, installed, faults>>
FetchSteps ==
  \E f \in fetches : \/ \E good \in BOOLEAN : (good \/ faults < MaxFaults) /\ FetchDone(f, good)
                     \/ FetchRetry(f) \/ FetchGiveUp(f)
RetainSteps ==
  \E v \in Volume : \/ RetainPresent(v) \/ RetainWrite(v) \/ RetainSync(v) \/ RetainWrong(v)
                    \/ RetainCommit(v) \/ RetainMark(v) \/ RetainPrune(v)

LEMMA Probes ==
  /\ TailProbe \in SourceRange /\ Directory \in SourceRange
  /\ \A v \in Volume : WholeVolume(v) \in SourceRange
  /\ \A r : IsFiniteSet({r})
  <1>1. Total \in Nat /\ TailSearch \in Nat /\ CentralStart \in Nat
    BY Layout, ArchiveAssumption
  <1>2. Larger(0, Total - TailSearch) \in Nat
    BY <1>1 DEF Larger
  <1>3. \A v \in Volume : VolumeStart(v) \in Nat /\ VolumeEnd[v] \in Nat
    BY Layout
  <1>4. \A r : IsFiniteSet({r})
    BY FS_Singleton
  <1>5. QED
    BY <1>1, <1>2, <1>3, <1>4 DEF TailProbe, Directory, WholeVolume, SourceRange

LEMMA AsksFor ==
  ASSUME NEW owner, NEW ranges \in SUBSET SourceRange, IsFiniteSet(ranges), FetchFor(owner, ranges)
  PROVE  Asks
  <1>1. \E o, rs : /\ rs \in SUBSET SourceRange /\ IsFiniteSet(rs)
                   /\ fetches' = fetches \cup {[range |-> r, owner |-> o, tries |-> 0] : r \in Requests(rs)}
    BY DEF FetchFor
  <1>2. QED
    BY <1>1 DEF FetchFor, Asks, disk, shardVars, retainVars

LEMMA StepKinds ==
  ASSUME Types, Phases, [Next]_vars
  PROVE  \/ UNCHANGED vars
         \/ ChainStep \/ Asks \/ Plans \/ Ends \/ FetchSteps \/ ShardRun \/ RetainSteps \/ FinishArchive
  <1>1. \/ UNCHANGED vars \/ OpenArchive \/ Discover \/ ReadIndex \/ PlanExtraction \/ FetchStep
        \/ ShardRun \/ RetainRun \/ FinishArchive \/ CleanArchive \/ RunFails \/ Crash
    BY DEF Next, Run, Done
  <1>2. /\ vol \in [Volume -> {"absent", "wrong", "full"}] /\ temp \in [Volume -> {"absent", "torn", "ready"}]
        /\ registered \subseteq Volume /\ crashes \in 0 .. MaxCrashes /\ staging \in BOOLEAN
    BY DEF Types, TypeOK
  <1>3. CASE OpenArchive
    <2>1. vol' \in [Volume -> {"absent", "wrong", "full"}] /\ temp' \in [Volume -> {"absent", "torn", "ready"}]
          /\ registered' \subseteq Volume
      BY <1>2, <1>3 DEF OpenArchive, Trusted
    <2>2. ChainStep
      BY <1>3, <2>1 DEF OpenArchive, ChainStep, Early, shardVars, retainVars
    <2>3. QED
      BY <2>2
  <1>4. ASSUME phase \in {"discover", "index", "controls"},
               FailArchive
        PROVE  ChainStep
    BY <1>2, <1>4 DEF FailArchive, ChainStep, Early, shardVars, retainVars, disk
  <1>5. CASE Discover
    <2>1. CASE FetchFor(Chain, {TailProbe})
      BY <2>1, Probes, AsksFor
    <2>2. CASE ChainTo("index")
      BY <1>2, <1>5, <2>2 DEF Discover, ChainAt, ChainTo, ChainStep, Early, shardVars, retainVars, disk
    <2>3. CASE FailArchive
      BY <1>4, <1>5, <2>3 DEF Discover, ChainAt
    <2>4. QED
      BY <1>5, <2>1, <2>2, <2>3 DEF Discover
  <1>6. CASE ReadIndex
    <2>1. CASE FetchFor(Chain, {Directory})
      BY <2>1, Probes, AsksFor
    <2>2. CASE SourcesValid /\ ChainTo("controls")
      BY <1>2, <1>6, <2>2 DEF ReadIndex, ChainAt, ChainTo, ChainStep, Early, shardVars, retainVars, disk
    <2>3. CASE FailArchive
      BY <1>4, <1>6, <2>3 DEF ReadIndex, ChainAt
    <2>4. QED
      BY <1>6, <2>1, <2>2, <2>3 DEF ReadIndex
  <1>7. CASE PlanExtraction
    <2>1. phase = "controls" /\ SourcesValid
      BY <1>7 DEF PlanExtraction, ChainAt, Phases
    <2>2. CASE FetchFor(Chain, Sources(Controls))
      <3>1. Sources(Controls) \in SUBSET SourceRange /\ IsFiniteSet(Sources(Controls))
        BY <2>1, SourcesAre, ArchiveAssumption
      <3>2. QED
        BY <2>2, <3>1, AsksFor
    <2>3. CASE FailArchive
      BY <1>4, <2>1, <2>3
    <2>4. CASE ~ FetchFor(Chain, Sources(Controls)) /\ ~ FailArchive
      <3>1. Plans
        BY <1>7, <2>1, <2>4 DEF PlanExtraction, Plans, retainVars
      <3>2. QED
        BY <3>1
    <2>5. QED
      BY <2>2, <2>3, <2>4
  <1>8. CASE FetchStep
    <2>1. PICK f \in fetches : Fetch(f) \/ FetchWrongBytes(f) \/ FetchRetry(f) \/ FetchGiveUp(f)
      BY <1>8 DEF FetchStep
    <2>2. CASE Fetch(f)
      <3>1. FetchDone(f, TRUE)
        BY <2>2 DEF Fetch
      <3>2. QED
        BY <3>1 DEF FetchSteps
    <2>3. CASE FetchWrongBytes(f)
      <3>1. faults < MaxFaults /\ FetchDone(f, FALSE)
        BY <2>3 DEF FetchWrongBytes
      <3>2. QED
        BY <3>1 DEF FetchSteps
    <2>4. QED
      BY <2>1, <2>2, <2>3 DEF FetchSteps
  <1>9. CASE RetainRun
    <2>1. PICK v \in Volume : \/ RetainFetch(v) \/ RetainPresent(v) \/ RetainWrite(v) \/ RetainSync(v)
                              \/ RetainWrong(v) \/ RetainCommit(v) \/ RetainMark(v) \/ RetainPrune(v)
      BY <1>9 DEF RetainRun
    <2>2. CASE RetainFetch(v)
      <3>1. FetchFor(VolumeOwner(v), {WholeVolume(v)})
        BY <2>2 DEF RetainFetch
      <3>2. {WholeVolume(v)} \in SUBSET SourceRange /\ IsFiniteSet({WholeVolume(v)})
        BY Probes
      <3>3. QED
        BY <3>1, <3>2, AsksFor
    <2>3. QED
      BY <2>1, <2>2 DEF RetainSteps
  <1>10. CASE CleanArchive
    <2>1. vol' \in [Volume -> {"absent", "wrong", "full"}]
      BY <1>2, <1>10 DEF CleanArchive
    <2>2. ChainStep
      BY <1>2, <1>10, <2>1 DEF CleanArchive, ChainStep, Early, shardVars, retainVars
    <2>3. QED
      BY <2>2
  <1>11. CASE RunFails
    <2>1. (staging /\ ~ prepared) \in BOOLEAN
      BY <1>2 DEF Types
    <2>2. staging' \in BOOLEAN /\ ForgetRun
      BY <1>11, <2>1 DEF RunFails
    <2>3. Ends
      BY <1>2, <1>11, <2>2 DEF RunFails, Ends
    <2>4. QED
      BY <2>3
  <1>12. CASE Crash
    <2>1. crashes' \in 0 .. MaxCrashes
      BY <1>2, <1>12, ArchiveAssumption DEF Crash
    <2>2. Ends
      BY <1>12, <2>1 DEF Crash, Ends
    <2>3. QED
      BY <2>2
  <1>13. QED
    BY <1>1, <1>3, <1>5, <1>6, <1>7, <1>8, <1>9, <1>10, <1>11, <1>12

\* What the steps of a fetch, a shard and a volume leave alone.
LEMMA FetchFrame ==
  ASSUME FetchSteps
  PROVE  UNCHANGED <<remote, keep, vol, temp, staging, installed, registered, phase, plan, pc, todo,
                     snap, active, failed, reported, slots, prepared, retain, saved, snapV, invalid, crashes>>
  BY DEF FetchSteps, FetchDone, FetchRetry, FetchGiveUp, disk, shardVars, retainVars

ShardActs(s) == \/ TryBegin(s) \/ Peek(s) \/ CountIn(s) \/ Recheck(s) \/ ExtractEntry(s)
                \/ ExtractError(s) \/ ExtractDone(s) \/ PruneRanges(s) \/ StoreFailure(s)
                \/ CountOut(s) \/ LeaveLast(s)

LEMMA ShardFrame ==
  ASSUME ShardRun
  PROVE  /\ phase = "extract" /\ \E s \in Shard : ShardActs(s)
         /\ UNCHANGED <<remote, keep, vol, temp, registered, phase, fetches, broken, plan, retain,
                        saved, snapV, faults, crashes>>
  <1>1. PICK s \in Shard : ShardActs(s)
    BY DEF ShardRun, ShardActs
  <1>2. \E from, to : ShardStep(s, from, to)
    BY <1>1, Zenon DEF ShardActs, TryBegin, Peek, CountIn, Recheck, ExtractEntry, ExtractError, ExtractDone,
                PruneRanges, StoreFailure, CountOut, LeaveLast
  <1>3. QED
    BY <1>1, <1>2 DEF ShardStep, retainVars

RetainActs(v) == \/ RetainPresent(v) \/ RetainWrite(v) \/ RetainSync(v) \/ RetainWrong(v)
                 \/ RetainCommit(v) \/ RetainMark(v) \/ RetainPrune(v)

LEMMA RetainFrame ==
  ASSUME RetainSteps
  PROVE  /\ phase = "extract" /\ \E v \in Volume : RetainActs(v) /\ RetainReady(v)
         /\ UNCHANGED <<remote, keep, phase, fetches, broken, plan, pc, todo, snap, active, failed,
                        reported, slots, prepared, staging, installed, faults, crashes>>
  <1>1. PICK v \in Volume : RetainActs(v)
    BY DEF RetainSteps, RetainActs
  <1>2. CASE \E from, to : RetainStep(v, from, to)
    BY <1>1, <1>2 DEF RetainStep, RetainReady, shardVars
  <1>3. CASE RetainMark(v)
    BY <1>1, <1>3 DEF RetainMark, RetainReady, shardVars, disk
  <1>4. CASE RetainPrune(v)
    BY <1>1, <1>4 DEF RetainPrune, RetainReady, shardVars
  <1>5. QED
    BY <1>1, <1>2, <1>3, <1>4, Zenon DEF RetainActs, RetainPresent, RetainWrite, RetainSync, RetainWrong, RetainCommit

\* When the archive is finished every shard is, because each one reads some volume.
LEMMA FinishIs ==
  ASSUME Phases, SavedVolumes, FinishReady
  PROVE  phase = "extract" /\ \A s \in Shard : pc[s] = "ok"
  <1>1. phase = "extract"
    BY DEF FinishReady
  <1>2. CASE Saves /\ \A v \in Volume : retain[v] = "ok"
    <2>1. \A v \in Volume : \A s \in Readers(v) : pc[s] = "ok"
      BY <1>2 DEF SavedVolumes
    <2>2. ASSUME NEW s \in Shard
          PROVE  pc[s] = "ok"
      <3>1. SourcesValid /\ plan = Planned
        BY PlanIs
      <3>2. plan[s].entries \in Seq(Entry) /\ plan[s].entries # <<>>
        BY <3>1, PlanIs, PlannedIs DEF Shard
      <3>3. PICK e \in Entry : e \in ToSet(plan[s].entries)
        <4> DEFINE x == plan[s].entries
        <4>1. x \in Seq(Entry) /\ x # <<>>
          BY <3>2
        <4> HIDE DEF x
        <4>2. 1 \in DOMAIN x /\ x[1] \in Entry
          BY <4>1
        <4>3. x[1] \in ToSet(x)
          BY <4>2 DEF ToSet
        <4>4. QED
          BY <4>2, <4>3 DEF x
      <3>4. PICK v \in Volume : v \in VolumesOf[e]
        BY <3>1, VolumesOfEntry
      <3>5. s \in Readers(v)
        BY <3>3, <3>4 DEF Readers
      <3>6. QED
        BY <2>1, <3>5
    <2>3. QED
      BY <1>1, <2>2
  <1>3. CASE \A s \in Shard : pc[s] = "ok"
    BY <1>1, <1>3
  <1>4. QED
    BY <1>2, <1>3 DEF FinishReady

LEMMA PhasesStep ==
  ASSUME Types, Phases, SavedVolumes, [Next]_vars
  PROVE  Phases'
  <1>1. CASE UNCHANGED <<phase, plan, pc>>
    BY <1>1 DEF Phases, Shard
  <1>2. CASE UNCHANGED vars
    BY <1>1, <1>2 DEF vars, shardVars
  <1>3. CASE ChainStep
    BY <1>3 DEF ChainStep, Phases, Early, Shard
  <1>4. CASE Asks
    BY <1>1, <1>4 DEF Asks
  <1>5. CASE Plans
    BY <1>5 DEF Plans, Phases, Early
  <1>6. CASE Ends
    <2>1. \A i : i \notin DOMAIN <<>>
      OBVIOUS
    <2>2. QED
      BY <1>6, <2>1 DEF Ends, ForgetRun, Phases, Early, Shard
  <1>7. CASE FetchSteps
    BY <1>1, <1>7, FetchFrame
  <1>8. CASE ShardRun
    BY <1>8, ShardFrame DEF Phases, Early
  <1>9. CASE RetainSteps
    BY <1>1, <1>9, RetainFrame
  <1>10. CASE FinishArchive
    <2>1. /\ phase = "extract" /\ phase' \in {"cleanup", "failing"} /\ UNCHANGED <<plan, pc>>
          /\ \A s \in Shard : pc[s] = "ok"
      BY <1>10, FinishIs DEF FinishArchive, shardVars
    <2>2. QED
      BY <2>1 DEF Phases, Early, Shard
  <1>11. QED
    BY <1>2, <1>3, <1>4, <1>5, <1>6, <1>7, <1>8, <1>9, <1>10, StepKinds

\* A cached range needs no fetch, and one that needs none is cached.
LEMMA CachedAvailable ==
  ASSUME Layouts, NEW q \in Piece
  PROVE  /\ \A a \in cache : a.vol = q.vol /\ a.lo = q.lo /\ a.hi = q.hi => Available(q)
         /\ Available(q) => \A u \in Units(q) : Present(u)
  <1>1. /\ q.vol \in Volume /\ q.lo \in Nat /\ q.hi \in Nat /\ q.lo < q.hi /\ q.hi <= Total
        /\ Units(q) = q.lo .. q.hi - 1
        /\ \A u \in Units(q) : u \in Unit /\ VolumeOf[u] = q.vol
    BY PieceOf
  <1>2. Available(q) <=> \A u \in Unit : q.lo <= u /\ u < q.hi => u \in CachedUnits(VolumeOf[u])
    BY <1>1, AvailableIs
  <1>3. ASSUME NEW a \in cache, a.vol = q.vol, a.lo = q.lo, a.hi = q.hi
        PROVE  Available(q)
    <2>1. ASSUME NEW u \in Unit, q.lo <= u, u < q.hi
          PROVE  u \in CachedUnits(VolumeOf[u])
      <3>1. u \in q.lo .. q.hi - 1
        BY <1>1, <2>1, Layout DEF Unit
      <3>2. u \in Units(q) /\ VolumeOf[u] = q.vol
        BY <1>1, <3>1
      <3>3. u \in Units(a)
        BY <1>3, <3>1 DEF Units
      <3>4. a \in Ranges(q.vol)
        BY <1>3 DEF Ranges
      <3>5. QED
        BY <3>2, <3>3, <3>4 DEF CachedUnits
    <2>2. QED
      BY <1>2, <2>1
  <1>4. ASSUME Available(q), NEW u \in Units(q)
        PROVE  Present(u)
    <2>1. u \in Unit /\ q.lo <= u /\ u < q.hi
      BY <1>1
    <2>2. u \in CachedUnits(VolumeOf[u])
      BY <1>2, <1>4, <2>1
    <2>3. QED
      BY <2>1, <2>2, SegmentsAre, PresentIs
  <1>5. QED
    BY <1>3, <1>4

LEMMA CacheShrinks ==
  ASSUME CacheWellFormed, cache' \subseteq cache
  PROVE  CacheWellFormed'
  <1>1. IsFiniteSet(cache')
    BY FS_Subset DEF CacheWellFormed
  <1>2. QED
    BY <1>1 DEF CacheWellFormed

LEMMA CacheStep ==
  ASSUME Types, Phases, [Next]_vars
  PROVE  CacheWellFormed'
  <1>1. CacheWellFormed /\ vol \in [Volume -> {"absent", "wrong", "full"}]
        /\ \A f \in fetches : f.range \in Piece
    BY DEF Types, TypeOK
  <1>2. CASE cache' \subseteq cache
    BY <1>1, <1>2, CacheShrinks
  <1>3. CASE UNCHANGED vars
    BY <1>2, <1>3 DEF vars, disk
  <1>4. CASE ChainStep
    BY <1>2, <1>4 DEF ChainStep
  <1>5. CASE Asks
    BY <1>2, <1>5 DEF Asks
  <1>6. CASE Plans
    BY <1>2, <1>6 DEF Plans
  <1>7. CASE Ends
    BY <1>2, <1>7 DEF Ends
  <1>8. CASE FetchSteps
    <2>1. CASE cache' = cache
      BY <1>2, <2>1
    <2>2. CASE cache' # cache
      <3>1. PICK f \in fetches, good \in BOOLEAN : FetchDone(f, good)
        BY <1>8, <2>2 DEF FetchSteps, FetchRetry, FetchGiveUp, disk
      <3> DEFINE q == f.range
                 new == [vol |-> q.vol, lo |-> q.lo, hi |-> q.hi, good |-> good, full |-> FALSE]
      <3>2. cache' = cache \cup {new} /\ ~ Available(q)
        BY <2>2, <3>1 DEF FetchDone
      <3>3. q \in Piece
        BY <1>1
      <3> HIDE DEF q
      <3>4. q.vol \in Volume /\ q.lo \in Unit /\ q.hi \in 1 .. Total /\ InVolume(q)
        BY <3>3 DEF Piece
      <3>5. /\ new \in RangeFile /\ new.vol = q.vol /\ new.lo = q.lo /\ new.hi = q.hi
        BY <3>4 DEF RangeFile
      <3>6. InVolume(new)
        BY <3>4, <3>5 DEF InVolume
      <3>7. \A a \in cache : ~ (a.vol = q.vol /\ a.lo = q.lo /\ a.hi = q.hi)
        BY <1>1, <3>2, <3>3, CachedAvailable DEF Layouts
      <3> HIDE DEF new
      <3>8. IsFiniteSet(cache \cup {new})
        BY <1>1, FS_AddElement DEF CacheWellFormed
      <3>9. QED
        BY <1>1, <3>2, <3>5, <3>6, <3>7, <3>8 DEF CacheWellFormed
    <2>3. QED
      BY <2>1, <2>2
  <1>9. CASE ShardRun
    <2>1. PICK s \in Shard : ShardActs(s)
      BY <1>9, ShardFrame
    <2>2. cache' = cache \/ \E needed, stuck : cache' = Pruned(needed, stuck)
      BY <2>1, Zenon DEF ShardActs, TryBegin, Peek, CountIn, Recheck, ExtractEntry, ExtractError, ExtractDone,
                         PruneRanges, StoreFailure, CountOut, LeaveLast
    <2>3. QED
      BY <1>2, <2>2 DEF Pruned
  <1>10. CASE RetainSteps
    <2>1. PICK v \in Volume : RetainActs(v)
      BY <1>10, RetainFrame
    <2>2. cache' = cache \/ \E needed, stuck : cache' = Pruned(needed, stuck)
      BY <2>1 DEF RetainActs, RetainPresent, RetainWrite, RetainSync, RetainWrong, RetainCommit,
                  RetainMark, RetainPrune, RetainStep, disk
    <2>3. QED
      BY <1>2, <2>2 DEF Pruned
  <1>11. CASE FinishArchive
    BY <1>2, <1>11 DEF FinishArchive
  <1>12. QED
    BY <1>3, <1>4, <1>5, <1>6, <1>7, <1>8, <1>9, <1>10, <1>11, StepKinds

-----------------------------------------------------------------------------
(* The invariant holds at the start and after every step. *)

LEMMA PartSize ==
  ASSUME NEW S, IsFiniteSet(S), NEW T \in SUBSET S
  PROVE  Cardinality(T) \in 0 .. Cardinality(S)
  <1>1. IsFiniteSet(T) /\ Cardinality(T) <= Cardinality(S)
    BY FS_Subset
  <1>2. Cardinality(T) \in Nat /\ Cardinality(S) \in Nat
    BY <1>1, FS_CardinalityType
  <1>3. QED
    BY <1>1, <1>2

\* The types of a run that has no plan.
LEMMA NoPlan ==
  ASSUME plan = <<>>, pc = <<>>, todo = <<>>, snap = <<>>, active = 0, slots = {}
  PROVE  /\ Shard = {} /\ pc \in [Shard -> PcValues] /\ todo \in [Shard -> Seq(Entry)]
         /\ snap \in [Shard -> SUBSET SourceRange] /\ slots \subseteq Shard
         /\ active = Cardinality(Counted) /\ active \in 0 .. Cardinality(Shard)
  <1>1. DOMAIN <<>> = {} /\ Cardinality({}) = 0
    BY FS_EmptySet
  <1>2. Shard = {}
    BY <1>1 DEF Shard
  <1>3. Counted = {}
    BY <1>2 DEF Counted
  <1>4. \A S : <<>> \in [{} -> S]
    BY <1>1
  <1>5. QED
    BY <1>1, <1>2, <1>3, <1>4

LEMMA InitHolds ==
  ASSUME Init
  PROVE  IInv
  <1>1. /\ Shard = {} /\ pc \in [Shard -> PcValues] /\ todo \in [Shard -> Seq(Entry)]
        /\ snap \in [Shard -> SUBSET SourceRange] /\ slots \subseteq Shard
        /\ active = Cardinality(Counted) /\ active \in 0 .. Cardinality(Shard)
    BY NoPlan DEF Init
  <1>2. IsFiniteSet({})
    BY FS_EmptySet
  <1>3. MaxFaults \in Nat /\ MaxCrashes \in Nat
    BY ArchiveAssumption
  <1>4. vol \in [Volume -> {"absent", "wrong", "full"}]
    <2>1. CASE remote
      BY <2>1 DEF Init
    <2>2. CASE ~ remote
      <3>1. vol \in [Volume -> {"wrong", "full"}]
        BY <2>2 DEF Init
      <3>2. QED
        BY <3>1
    <2>3. QED
      BY <2>1, <2>2
  <1>5. TypeOK
    BY <1>1, <1>3, <1>4 DEF Init, TypeOK
  <1>6. CacheWellFormed
    BY <1>2 DEF Init, CacheWellFormed
  <1>7. Types
    BY <1>1, <1>5, <1>6 DEF Init, Types
  <1>8. Phases
    BY <1>1 DEF Init, Phases, Early
  <1>9. Slots
    BY DEF Init, Slots
  <1>10. SavedVolumes
    BY DEF Init, SavedVolumes
  <1>11. Staged
    BY <1>1 DEF Init, Staged
  <1>12. Extracted
    BY <1>1 DEF Init, Extracted
  <1>13. ReadersKeepRanges
    BY DEF Init, ReadersKeepRanges
  <1>14. ControlsLast
    <2>1. \A c \in Entry : installed[c] = "old"
      BY DEF Init
    <2>2. QED
      BY <2>1, ArchiveAssumption DEF ControlsLast
  <1>15. QED
    BY <1>7, <1>8, <1>9, <1>10, <1>11, <1>12, <1>13, <1>14 DEF IInv

\* Moving one shard counts it in or out.
LEMMA CountedMove ==
  ASSUME Types, IsFiniteSet(Shard), NEW s \in Shard, NEW to, UNCHANGED plan,
         pc' = [pc EXCEPT ![s] = to]
  PROVE  LET counting == {"recheck", "extracting", "pruning", "failing",
                          "leaveOk", "leaveErr", "leaveLoud"}
         IN  /\ to \in counting /\ pc[s] \in counting => Cardinality(Counted') = active
             /\ to \notin counting /\ pc[s] \notin counting => Cardinality(Counted') = active
             /\ to \in counting /\ pc[s] \notin counting => Cardinality(Counted') = active + 1
             /\ to \notin counting /\ pc[s] \in counting => Cardinality(Counted') = active - 1
  <1> DEFINE counting == {"recheck", "extracting", "pruning", "failing",
                          "leaveOk", "leaveErr", "leaveLoud"}
  <1>1. pc \in [Shard -> PcValues] /\ active = Cardinality(Counted) /\ Counted \subseteq Shard
    BY DEF Types, TypeOK, Counted
  <1>2. IsFiniteSet(Counted)
    BY <1>1, FS_Subset
  <1>3. \A t : t \in Counted <=> t \in Shard /\ pc[t] \in counting
    BY DEF Counted
  <1>4. \A t : t \in Counted' <=> t \in Shard /\ pc'[t] \in counting
    BY DEF Counted, Shard
  <1> HIDE DEF counting
  <1>5. \A t \in Shard : pc'[t] = IF t = s THEN to ELSE pc[t]
    BY <1>1
  <1>6. to \in counting => Counted' = Counted \cup {s}
    BY <1>3, <1>4, <1>5
  <1>7. to \notin counting => Counted' = Counted \ {s}
    BY <1>3, <1>4, <1>5
  <1>8. s \in Counted <=> pc[s] \in counting
    BY <1>3
  <1>9. Cardinality(Counted \cup {s}) = IF s \in Counted THEN Cardinality(Counted) ELSE Cardinality(Counted) + 1
    BY <1>2, FS_AddElement
  <1>10. Cardinality(Counted \ {s}) = IF s \in Counted THEN Cardinality(Counted) - 1 ELSE Cardinality(Counted)
    BY <1>2, FS_RemoveElement
  <1>11. QED
    BY <1>1, <1>6, <1>7, <1>8, <1>9, <1>10 DEF counting

\* What a shard's step changes keeps its types.
LEMMA ShardTypes ==
  ASSUME Types, Phases, NEW s \in Shard, ShardActs(s)
  PROVE  /\ pc' \in [Shard -> PcValues] /\ todo' \in [Shard -> Seq(Entry)]
         /\ snap' \in [Shard -> SUBSET SourceRange] /\ slots' \subseteq Shard
         /\ active' = Cardinality(Counted') /\ UNCHANGED plan
         /\ failed' \in BOOLEAN /\ reported' \in BOOLEAN
         /\ prepared' \in BOOLEAN /\ staging' \in BOOLEAN
         /\ installed' \in [Entry -> {"old", "new"}]
  <1>1. /\ pc \in [Shard -> PcValues] /\ todo \in [Shard -> Seq(Entry)]
        /\ snap \in [Shard -> SUBSET SourceRange] /\ slots \subseteq Shard
        /\ failed \in BOOLEAN /\ reported \in BOOLEAN
        /\ prepared \in BOOLEAN /\ staging \in BOOLEAN
        /\ installed \in [Entry -> {"old", "new"}]
    BY DEF Types, TypeOK
  <1>2. IsFiniteSet(Shard) /\ \A t \in Shard : ToSet(plan[t].entries) \in SUBSET Entry
        /\ (Shard # {} => SourcesValid)
    BY PlanIs
  <1>3. \A when : CleanupPrepared(when) => prepared' \in BOOLEAN /\ staging' \in BOOLEAN
    BY <1>1 DEF CleanupPrepared
  <1>4. ASSUME NEW from, NEW to \in PcValues, ShardStep(s, from, to)
        PROVE  /\ pc' = [pc EXCEPT ![s] = to] /\ pc' \in [Shard -> PcValues] /\ UNCHANGED plan /\ pc[s] = from
    BY <1>1, <1>4 DEF ShardStep
  <1>5. CASE TryBegin(s)
    <2>1. PICK to \in {"peeked", "adding"} : ShardStep(s, "blocked", to)
      BY <1>5 DEF TryBegin
    <2>2. /\ pc' = [pc EXCEPT ![s] = to] /\ pc' \in [Shard -> PcValues] /\ UNCHANGED plan /\ pc[s] = "blocked"
      BY <2>1, <1>4 DEF PcValues
    <2>3. QED
      BY <1>1, <1>2, <1>5, <2>2, CountedMove DEF TryBegin
  <1>6. CASE Peek(s)
    <2>1. /\ pc' = [pc EXCEPT ![s] = "cancelled"] /\ pc' \in [Shard -> PcValues] /\ UNCHANGED plan /\ pc[s] = "peeked"
      BY <1>6, <1>4 DEF PcValues, FinalPc, Peek
    <2>2. prepared' \in BOOLEAN /\ staging' \in BOOLEAN
      BY <1>1, <1>6 DEF Peek, CleanupPrepared
    <2>3. UNCHANGED <<todo, snap, active, failed, reported, slots, installed>>
      BY <1>6, Zenon DEF Peek
    <2>4. active' = Cardinality(Counted')
      <3>1. PICK to \in {"cancelled"} : pc' = [pc EXCEPT ![s] = to]
        BY <2>1
      <3>2. QED
        BY <1>2, <2>1, <2>3, <3>1, CountedMove
    <2>5. QED
      BY <1>1, <2>1, <2>2, <2>3, <2>4
  <1>7. CASE CountIn(s)
    <2>1. /\ pc' = [pc EXCEPT ![s] = "recheck"] /\ pc' \in [Shard -> PcValues] /\ UNCHANGED plan /\ pc[s] = "adding"
      BY <1>7, <1>4 DEF PcValues, CountIn
    <2>2. QED
      BY <1>1, <1>2, <1>7, <2>1, CountedMove DEF CountIn
  <1>8. CASE Recheck(s)
    <2>1. CASE failed
      <3>1. /\ pc' = [pc EXCEPT ![s] = "cancelled"] /\ pc' \in [Shard -> PcValues] /\ UNCHANGED plan /\ pc[s] = "recheck"
        BY <1>8, <2>1, <1>4 DEF PcValues, FinalPc, Recheck
      <3>2. prepared' \in BOOLEAN /\ staging' \in BOOLEAN
        BY <1>1, <1>8 DEF Recheck, CleanupPrepared
      <3>3. UNCHANGED <<todo, snap, failed, reported, slots, installed>> /\ active' = active - 1
        BY <1>8, <2>1, Zenon DEF Recheck
      <3>4. active' = Cardinality(Counted')
        <4>1. PICK to \in {"cancelled"} : pc' = [pc EXCEPT ![s] = to]
          BY <3>1
        <4>2. QED
          BY <1>2, <3>1, <3>3, <4>1, CountedMove
      <3>5. QED
        BY <1>1, <3>1, <3>2, <3>3, <3>4
    <2>2. CASE ~ failed
      <3>1. /\ pc' = [pc EXCEPT ![s] = "extracting"] /\ pc' \in [Shard -> PcValues] /\ UNCHANGED plan /\ pc[s] = "recheck"
        BY <1>8, <2>2, <1>4 DEF PcValues, Recheck
      <3>2. QED
        BY <1>1, <1>2, <1>3, <1>8, <2>2, <3>1, CountedMove DEF Recheck
    <2>3. QED
      BY <2>1, <2>2
  <1>9. CASE ExtractEntry(s)
    <2>1. /\ pc' = [pc EXCEPT ![s] = "extracting"] /\ pc' \in [Shard -> PcValues] /\ UNCHANGED plan /\ pc[s] = "extracting"
      BY <1>9, <1>4 DEF PcValues, ExtractEntry
    <2>2. todo[s] \in Seq(Entry) /\ todo[s] # <<>>
      BY <1>1, <1>9 DEF ExtractEntry
    <2>3. Tail(todo[s]) \in Seq(Entry)
      BY <2>2
    <2>4. todo' \in [Shard -> Seq(Entry)]
      BY <1>1, <1>9, <2>3 DEF ExtractEntry
    <2>5. installed' \in [Entry -> {"old", "new"}]
      <3> DEFINE e == Head(todo[s])
      <3>1. installed' = installed \/ installed' = [installed EXCEPT ![e] = "new"]
        BY <1>9 DEF ExtractEntry
      <3> HIDE DEF e
      <3>2. QED
        BY <1>1, <3>1
    <2>6. active' = Cardinality(Counted')
      BY <1>2, <1>9, <2>1, CountedMove DEF ExtractEntry
    <2>7. /\ snap' = snap /\ slots' = slots /\ failed' = failed /\ reported' = reported
          /\ prepared' = prepared /\ staging' = TRUE
      BY <1>9 DEF ExtractEntry
    <2>8. QED
      BY <1>1, <2>1, <2>4, <2>5, <2>6, <2>7
  <1>10. CASE ExtractError(s)
    <2>1. /\ pc' = [pc EXCEPT ![s] = "failing"] /\ pc' \in [Shard -> PcValues] /\ UNCHANGED plan /\ pc[s] = "extracting"
      BY <1>10, <1>4 DEF PcValues, ExtractError
    <2>2. QED
      BY <1>1, <1>2, <1>10, <2>1, CountedMove DEF ExtractError
  <1>11. CASE ExtractDone(s)
    <2>1. PICK to \in {"pruning", "leaveOk"} : ShardStep(s, "extracting", to)
      BY <1>11 DEF ExtractDone
    <2>2. /\ pc' = [pc EXCEPT ![s] = to] /\ pc' \in [Shard -> PcValues] /\ UNCHANGED plan /\ pc[s] = "extracting"
      BY <2>1, <1>4 DEF PcValues
    <2> DEFINE note == UNION {Sources(ToSet(plan[t].entries)) : t \in slots \ {s}}
    <2>3. note \in SUBSET SourceRange
      <3>1. \A t \in slots \ {s} : Sources(ToSet(plan[t].entries)) \in SUBSET SourceRange
        BY <1>1, <1>2, SourcesAre
      <3>2. QED
        BY <3>1
    <2>4. snap' = [snap EXCEPT ![s] = note] /\ slots' = slots \ {s}
      BY <1>11 DEF ExtractDone
    <2> HIDE DEF note
    <2>5. snap' \in [Shard -> SUBSET SourceRange] /\ slots' \subseteq Shard
      BY <1>1, <2>3, <2>4
    <2>6. active' = Cardinality(Counted')
      BY <1>2, <1>11, <2>2, CountedMove DEF ExtractDone
    <2>7. /\ todo' = todo /\ installed' = installed /\ failed' = failed /\ reported' = reported
          /\ prepared' = prepared /\ staging' = staging
      BY <1>11 DEF ExtractDone
    <2>8. QED
      BY <1>1, <2>2, <2>5, <2>6, <2>7
  <1>12. CASE PruneRanges(s)
    <2>1. /\ pc' = [pc EXCEPT ![s] = "leaveOk"] /\ pc' \in [Shard -> PcValues] /\ UNCHANGED plan /\ pc[s] = "pruning"
      BY <1>12, <1>4 DEF PcValues, PruneRanges
    <2>2. QED
      BY <1>1, <1>2, <1>12, <2>1, CountedMove DEF PruneRanges
  <1>13. CASE StoreFailure(s)
    <2>1. PICK to \in {"leaveErr", "leaveLoud"} : ShardStep(s, "failing", to)
      BY <1>13 DEF StoreFailure
    <2>2. /\ pc' = [pc EXCEPT ![s] = to] /\ pc' \in [Shard -> PcValues] /\ UNCHANGED plan /\ pc[s] = "failing"
      BY <2>1, <1>4 DEF PcValues
    <2>3. QED
      BY <1>1, <1>2, <1>13, <2>2, CountedMove DEF StoreFailure
  <1>14. CASE CountOut(s)
    <2>1. pc[s] \in {"leaveOk", "leaveErr", "leaveLoud"}
      BY <1>14 DEF CountOut, LastOut
    <2>2. PICK to \in {"lastOk", "lastErr", "lastLoud", "ok", "silent", "failed"} : ShardStep(s, pc[s], to)
      <3>1. LastOut[pc[s]] \in {"lastOk", "lastErr", "lastLoud"} /\ Outcome[pc[s]] \in {"ok", "silent", "failed"}
        BY <2>1 DEF LastOut, Outcome
      <3>2. QED
        BY <1>14, <3>1 DEF CountOut
    <2>3. /\ pc' = [pc EXCEPT ![s] = to] /\ pc' \in [Shard -> PcValues] /\ UNCHANGED plan
      BY <2>2, <1>4 DEF PcValues, FinalPc
    <2>4. QED
      BY <1>1, <1>2, <1>14, <2>1, <2>3, CountedMove DEF CountOut
  <1>15. CASE LeaveLast(s)
    <2>1. pc[s] \in {"lastOk", "lastErr", "lastLoud"}
      BY <1>15 DEF LeaveLast
    <2>2. PICK to \in {"ok", "silent", "failed"} : ShardStep(s, pc[s], to)
      <3>1. Outcome[pc[s]] \in {"ok", "silent", "failed"}
        BY <2>1 DEF Outcome
      <3>2. QED
        BY <1>15, <3>1 DEF LeaveLast
    <2>3. /\ pc' = [pc EXCEPT ![s] = to] /\ pc' \in [Shard -> PcValues] /\ UNCHANGED plan
      BY <2>2, <1>4 DEF PcValues, FinalPc
    <2>4. QED
      BY <1>1, <1>2, <1>3, <1>15, <2>1, <2>3, CountedMove DEF LeaveLast
  <1>16. QED
    BY <1>5, <1>6, <1>7, <1>8, <1>9, <1>10, <1>11, <1>12, <1>13, <1>14, <1>15, Zenon DEF ShardActs

\* What a volume's step changes keeps its types.
LEMMA RetainTypes ==
  ASSUME Types, NEW v \in Volume, RetainActs(v)
  PROVE  /\ vol' \in [Volume -> {"absent", "wrong", "full"}]
         /\ temp' \in [Volume -> {"absent", "torn", "ready"}]
         /\ registered' \subseteq Volume /\ saved' \subseteq Volume
         /\ retain' \in [Volume -> {"wait", "writing", "synced", "written", "marked", "ok", "failed"}]
         /\ snapV' \in [Volume -> SUBSET SourceRange]
  <1>1. /\ vol \in [Volume -> {"absent", "wrong", "full"}]
        /\ temp \in [Volume -> {"absent", "torn", "ready"}]
        /\ registered \subseteq Volume /\ saved \subseteq Volume
        /\ retain \in [Volume -> {"wait", "writing", "synced", "written", "marked", "ok", "failed"}]
        /\ snapV \in [Volume -> SUBSET SourceRange]
    BY DEF Types, TypeOK
  <1>2. CASE RetainPresent(v)
    BY <1>1, <1>2 DEF RetainPresent, RetainStep
  <1>3. CASE RetainWrite(v)
    BY <1>1, <1>3 DEF RetainWrite, RetainStep
  <1>4. CASE RetainSync(v)
    BY <1>1, <1>4 DEF RetainSync, RetainStep
  <1>5. CASE RetainWrong(v)
    BY <1>1, <1>5 DEF RetainWrong, RetainStep
  <1>6. CASE RetainCommit(v)
    BY <1>1, <1>6 DEF RetainCommit, RetainStep
  <1>7. CASE RetainMark(v)
    <2> DEFINE note == {WholeVolume(w) : w \in Volume \ saved'}
    <2>1. note \in SUBSET SourceRange
      BY Probes
    <2>2. snapV' = [snapV EXCEPT ![v] = note] /\ retain' = [retain EXCEPT ![v] = "marked"]
          /\ registered' = registered \cup {v} /\ saved' = saved \cup {v} /\ vol' = vol /\ temp' = temp
      BY <1>7 DEF RetainMark, disk
    <2> HIDE DEF note
    <2>3. QED
      BY <1>1, <2>1, <2>2
  <1>8. CASE RetainPrune(v)
    BY <1>1, <1>8 DEF RetainPrune
  <1>9. QED
    BY <1>2, <1>3, <1>4, <1>5, <1>6, <1>7, <1>8, Zenon DEF RetainActs

\* The parts of the types that the steps change together.
ShardParts ==
  /\ pc \in [Shard -> PcValues] /\ todo \in [Shard -> Seq(Entry)]
  /\ snap \in [Shard -> SUBSET SourceRange] /\ slots \subseteq Shard
  /\ active = Cardinality(Counted)
RunParts ==
  /\ remote \in BOOLEAN /\ keep \in BOOLEAN /\ failed \in BOOLEAN /\ reported \in BOOLEAN
  /\ prepared \in BOOLEAN /\ staging \in BOOLEAN
  /\ \A f \in fetches : f.range \in Piece
  /\ installed \in [Entry -> {"old", "new"}]
  /\ faults \in 0 .. MaxFaults /\ crashes \in 0 .. MaxCrashes
VolumeParts ==
  /\ vol \in [Volume -> {"absent", "wrong", "full"}]
  /\ temp \in [Volume -> {"absent", "torn", "ready"}]
  /\ registered \subseteq Volume /\ saved \subseteq Volume
  /\ retain \in [Volume -> {"wait", "writing", "synced", "written", "marked", "ok", "failed"}]
  /\ snapV \in [Volume -> SUBSET SourceRange]

LEMMA FetchParts ==
  ASSUME RunParts, FetchSteps
  PROVE  (\A f \in fetches' : f.range \in Piece) /\ faults' \in 0 .. MaxFaults
  <1>1. PICK f \in fetches : \/ \E good \in BOOLEAN : (good \/ faults < MaxFaults) /\ FetchDone(f, good)
                             \/ FetchRetry(f) \/ FetchGiveUp(f)
    BY DEF FetchSteps
  <1>2. f.range \in Piece /\ faults \in 0 .. MaxFaults /\ MaxFaults \in Nat
        /\ \A g \in fetches : g.range \in Piece
    BY ArchiveAssumption DEF RunParts
  <1>3. CASE \E good \in BOOLEAN : (good \/ faults < MaxFaults) /\ FetchDone(f, good)
    BY <1>2, <1>3 DEF FetchDone
  <1>4. CASE FetchRetry(f)
    BY <1>2, <1>4 DEF FetchRetry
  <1>5. CASE FetchGiveUp(f)
    BY <1>2, <1>5 DEF FetchGiveUp
  <1>6. QED
    BY <1>1, <1>3, <1>4, <1>5

LEMMA TypesStep ==
  ASSUME Types, Phases, SavedVolumes, [Next]_vars
  PROVE  Types'
  <1>1. CacheWellFormed' /\ Phases'
    BY CacheStep, PhasesStep
  <1>2. ShardParts /\ RunParts /\ VolumeParts
        /\ phase \in {"open", "discover", "index", "controls", "extract", "cleanup", "done",
                      "failing", "failed"}
    BY DEF Types, TypeOK, ShardParts, RunParts, VolumeParts
  <1>3. Layouts
    BY DEF Types, TypeOK, Layouts
  <1>4. ASSUME UNCHANGED <<pc, todo, snap, slots, active, plan>>
        PROVE  ShardParts'
    BY <1>2, <1>4 DEF ShardParts, Counted, Shard
  <1>5. ASSUME UNCHANGED <<vol, temp, registered, saved, retain, snapV>>
        PROVE  VolumeParts'
    BY <1>2, <1>5 DEF VolumeParts
  <1>6. ASSUME UNCHANGED <<remote, keep, failed, reported, prepared, staging, fetches, installed, faults, crashes>>
        PROVE  RunParts'
    BY <1>2, <1>6 DEF RunParts
  <1>7. ShardParts' /\ RunParts' /\ VolumeParts'
        /\ phase' \in {"open", "discover", "index", "controls", "extract", "cleanup", "done",
                       "failing", "failed"}
    <2>1. CASE UNCHANGED vars
      BY <1>2, <1>4, <1>5, <1>6, <2>1 DEF vars, disk, shardVars, retainVars
    <2>2. CASE ChainStep
      <3>1. VolumeParts'
        BY <1>2, <2>2 DEF ChainStep, VolumeParts
      <3>2. QED
        BY <1>4, <1>6, <2>2, <3>1 DEF ChainStep
    <2>3. CASE Asks
      <3>1. PICK owner, ranges : /\ ranges \in SUBSET SourceRange /\ IsFiniteSet(ranges)
                                 /\ fetches' = fetches \cup
                                      {[range |-> r, owner |-> owner, tries |-> 0] : r \in Requests(ranges)}
        BY <2>3 DEF Asks
      <3>2. Requests(ranges) \subseteq Piece
        BY <1>3, <3>1, RequestsAre
      <3>3. \A f \in fetches' : f.range \in Piece
        BY <1>2, <3>1, <3>2 DEF RunParts
      <3>4. RunParts'
        BY <1>2, <2>3, <3>3 DEF Asks, RunParts
      <3>5. QED
        BY <1>2, <1>4, <1>5, <2>3, <3>4 DEF Asks
    <2>4. CASE Plans
      <3>1. SourcesValid /\ plan' = Planned
        BY <2>4 DEF Plans, Phases
      <3>2. Planned \in Seq(Job)
        BY <3>1, PlannedIs
      <3> DEFINE D == DOMAIN Planned
      <3>3. \A s \in D : Planned[s].entries \in Seq(Entry) /\ ToSet(Planned[s].entries) \in SUBSET Entry
        <4>1. ASSUME NEW s \in D
              PROVE  Planned[s].entries \in Seq(Entry) /\ ToSet(Planned[s].entries) \in SUBSET Entry
          <5> DEFINE x == Planned[s].entries
          <5>0. Planned[s] \in Job
            BY <3>2
          <5>1. x \in Seq(Entry)
            BY <5>0 DEF Job
          <5> HIDE DEF x
          <5>2. ToSet(x) \in SUBSET Entry
            BY <5>1 DEF ToSet
          <5>3. QED
            BY <5>1, <5>2 DEF x
        <4>2. QED
          BY <4>1
      <3>4. \A s \in D : Requests(Sources(ToSet(Planned[s].entries))) \subseteq Piece
        BY <1>3, <3>1, <3>3, SourcesAre, RequestsAre
      <3>5. \A f \in fetches' : f.range \in Piece
        BY <2>4, <3>1, <3>4 DEF Plans
      <3>6. RunParts'
        BY <1>2, <2>4, <3>5 DEF Plans, RunParts
      <3>7. ShardParts'
        <4>1. pc = <<>> /\ active = 0
          <5>1. plan = <<>>
            BY <2>4 DEF Plans, Phases, Early
          <5>2. DOMAIN <<>> = {} /\ Cardinality({}) = 0
            BY FS_EmptySet
          <5>3. Shard = {} /\ Counted = {}
            BY <5>1, <5>2 DEF Shard, Counted
          <5>4. QED
            BY <1>2, <5>2, <5>3 DEF ShardParts
        <4>2. Shard' = D /\ pc' = [s \in D |-> "blocked"] /\ active' = 0
          BY <2>4, <3>1, <4>1 DEF Plans, Shard
        <4>3. Counted' = {}
          BY <4>2 DEF Counted
        <4>4. pc' \in [Shard' -> PcValues]
          BY <4>2 DEF PcValues
        <4>5. todo' = [s \in D |-> Planned[s].entries] /\ snap' = [s \in D |-> {}] /\ slots' \subseteq D
          BY <2>4, <3>1 DEF Plans
        <4>6. todo' \in [D -> Seq(Entry)] /\ snap' \in [D -> SUBSET SourceRange]
          BY <3>3, <4>5
        <4>7. active' = Cardinality(Counted')
          BY <4>2, <4>3, FS_EmptySet
        <4>8. QED
          BY <4>2, <4>4, <4>5, <4>6, <4>7 DEF ShardParts
      <3>8. QED
        BY <1>5, <2>4, <3>6, <3>7 DEF Plans
    <2>5. CASE Ends
      <3>1. ShardParts'
        <4>1. DOMAIN <<>> = {} /\ Cardinality({}) = 0 /\ \A S : <<>> \in [{} -> S]
          BY FS_EmptySet
        <4>2. Shard' = {} /\ pc' = <<>> /\ todo' = <<>> /\ snap' = <<>> /\ active' = 0 /\ slots' = {}
          BY <2>5, <4>1 DEF Ends, ForgetRun, Shard
        <4>3. Counted' = {}
          BY <4>2 DEF Counted
        <4>4. QED
          BY <4>1, <4>2, <4>3 DEF ShardParts
      <3>2. VolumeParts'
        BY <1>2, <2>5 DEF Ends, ForgetRun, VolumeParts
      <3>3. RunParts'
        BY <1>2, <2>5 DEF Ends, ForgetRun, RunParts
      <3>4. QED
        BY <2>5, <3>1, <3>2, <3>3 DEF Ends
    <2>6. CASE FetchSteps
      <3>1. (\A f \in fetches' : f.range \in Piece) /\ faults' \in 0 .. MaxFaults
        BY <1>2, <2>6, FetchParts
      <3>2. UNCHANGED <<remote, keep, vol, temp, staging, installed, registered, phase, plan, pc, todo,
                     snap, active, failed, reported, slots, prepared, retain, saved, snapV, invalid, crashes>>
        BY <2>6, FetchFrame
      <3>3. RunParts'
        BY <1>2, <3>1, <3>2 DEF RunParts
      <3>4. QED
        BY <1>2, <1>4, <1>5, <3>2, <3>3
    <2>7. CASE ShardRun
      <3>1. PICK s \in Shard : ShardActs(s)
        BY <2>7, ShardFrame
      <3>2. UNCHANGED <<remote, keep, vol, temp, registered, phase, fetches, broken, plan, retain,
                        saved, snapV, faults, crashes>>
        BY <2>7, ShardFrame
      <3>3. /\ pc' \in [Shard -> PcValues] /\ todo' \in [Shard -> Seq(Entry)]
            /\ snap' \in [Shard -> SUBSET SourceRange] /\ slots' \subseteq Shard
            /\ active' = Cardinality(Counted')
            /\ failed' \in BOOLEAN /\ reported' \in BOOLEAN
            /\ prepared' \in BOOLEAN /\ staging' \in BOOLEAN
            /\ installed' \in [Entry -> {"old", "new"}]
        BY <3>1, ShardTypes
      <3>4. ShardParts'
        BY <3>2, <3>3 DEF ShardParts, Shard
      <3>5. RunParts'
        BY <1>2, <3>2, <3>3 DEF RunParts
      <3>6. QED
        BY <1>2, <1>5, <3>2, <3>4, <3>5
    <2>8. CASE RetainSteps
      <3>1. PICK v \in Volume : RetainActs(v)
        BY <2>8, RetainFrame
      <3>2. UNCHANGED <<remote, keep, phase, fetches, broken, plan, pc, todo, snap, active, failed,
                        reported, slots, prepared, staging, installed, faults, crashes>>
        BY <2>8, RetainFrame
      <3>3. VolumeParts'
        BY <3>1, RetainTypes DEF VolumeParts
      <3>4. QED
        BY <1>2, <1>4, <1>6, <3>2, <3>3
    <2>9. CASE FinishArchive
      <3>1. installed' \in [Entry -> {"old", "new"}] /\ staging' \in BOOLEAN /\ prepared' \in BOOLEAN
        BY <1>2, <2>9 DEF FinishArchive, RunParts
      <3>2. RunParts'
        BY <1>2, <2>9, <3>1 DEF FinishArchive, RunParts, shardVars
      <3>3. QED
        BY <1>4, <1>5, <2>9, <3>2 DEF FinishArchive, shardVars, retainVars
    <2>10. QED
      BY <2>1, <2>2, <2>3, <2>4, <2>5, <2>6, <2>7, <2>8, <2>9, StepKinds
  <1>8. active' \in 0 .. Cardinality(Shard')
    <2>1. plan' \in Seq(Job)
      <3>1. CASE plan' = <<>>
        BY <3>1
      <3>2. CASE plan' # <<>>
        <4>1. SourcesValid /\ plan' = Planned
          BY <1>1, <3>2 DEF Phases
        <4>2. QED
          BY <4>1, PlannedIs
      <3>3. QED
        BY <3>1, <3>2
    <2>2. Shard' = 1 .. Len(plan') /\ Len(plan') \in Nat
      BY <2>1 DEF Shard
    <2>3. IsFiniteSet(Shard')
      BY <2>2, FS_Interval
    <2>4. Counted' \in SUBSET Shard'
      BY DEF Counted
    <2>5. Cardinality(Counted') \in 0 .. Cardinality(Shard')
      BY <2>3, <2>4, PartSize
    <2>6. QED
      BY <1>7, <2>5 DEF ShardParts
  <1>9. TypeOK'
    <2>1. cache' \subseteq RangeFile
      BY <1>1 DEF CacheWellFormed
    <2>2. QED
      BY <1>7, <1>8, <2>1 DEF ShardParts, RunParts, VolumeParts, TypeOK
  <1>10. QED
    BY <1>1, <1>7, <1>9 DEF ShardParts, RunParts, VolumeParts, Types

\* What a shard's step does to the shard and to the others.
Reading == {"blocked", "adding", "recheck", "extracting"}
Extracts == {"pruning", "leaveOk", "lastOk", "ok"}
Needed(s) == UNION {Sources(ToSet(plan[t].entries)) : t \in slots \ {s}}
ShardMove(s, to) ==
  /\ \A t \in Shard : pc'[t] = IF t = s THEN to ELSE pc[t]
  /\ pc[s] # "ok"
  /\ to \in Reading => pc[s] \in Reading
  /\ to \in Extracts => todo' = todo /\ (pc[s] \in Extracts \/ todo[s] = <<>>)
  /\ to = "peeked" => failed
  /\ to = "pruning" => s \in slots /\ snap'[s] = Needed(s) /\ slots' = slots \ {s}
  /\ slots' = slots \/ (to \notin Reading /\ slots' = slots \ {s})
  /\ \A t \in Shard : t = s \/ snap'[t] = snap[t]
  /\ (todo' = todo /\ installed' = installed) \/ ExtractEntry(s)
  /\ failed => failed'
  /\ failed' \/ (prepared' = prepared /\ (staging => staging'))
  /\ cache' = cache \/ (PruneRanges(s) /\ to \notin Reading)

LEMMA ShardMoves ==
  ASSUME Types, Staged, NEW s \in Shard, ShardActs(s)
  PROVE  \E to : ShardMove(s, to)
  <1>1. /\ pc \in [Shard -> PcValues] /\ snap \in [Shard -> SUBSET SourceRange]
        /\ failed \in BOOLEAN /\ prepared \in BOOLEAN /\ staging \in BOOLEAN
    BY DEF Types, TypeOK
  <1>2. ASSUME NEW from, NEW to, ShardStep(s, from, to)
        PROVE  pc[s] = from /\ \A t \in Shard : pc'[t] = IF t = s THEN to ELSE pc[t]
    BY <1>1, <1>2 DEF ShardStep
  <1> DEFINE Kept == UNCHANGED <<todo, snap, slots, installed, cache>>
  <1>3. ASSUME NEW to, \A t \in Shard : pc'[t] = IF t = s THEN to ELSE pc[t],
               pc[s] # "ok", to \in Reading => pc[s] \in Reading,
               to \in Extracts => pc[s] \in Extracts, to # "pruning", to = "peeked" => failed,
               Kept, failed => failed', failed' \/ UNCHANGED <<prepared, staging>>
        PROVE  \E t \in {to} : ShardMove(s, t)
    BY <1>3 DEF ShardMove
  <1>4. CASE TryBegin(s)
    <2>1. PICK to \in {"peeked", "adding"} : ShardStep(s, "blocked", to) /\ (to = "peeked" => failed)
      BY <1>4 DEF TryBegin
    <2>2. pc[s] = "blocked" /\ \A t \in Shard : pc'[t] = IF t = s THEN to ELSE pc[t]
      BY <2>1, <1>2
    <2>3. QED
      BY <1>3, <1>4, <2>1, <2>2 DEF TryBegin, Reading, Extracts
  <1>5. CASE Peek(s)
    <2>1. PICK to \in {"cancelled"} : ShardStep(s, "peeked", to)
      BY <1>5 DEF Peek
    <2>2. pc[s] = "peeked" /\ \A t \in Shard : pc'[t] = IF t = s THEN to ELSE pc[t]
      BY <2>1, <1>2
    <2>3. failed /\ failed' = failed /\ Kept
      BY <1>5, <2>2, Zenon DEF Peek, Staged
    <2>4. QED
      BY <1>3, <2>1, <2>2, <2>3 DEF Reading, Extracts
  <1>6. CASE CountIn(s)
    <2>1. PICK to \in {"recheck"} : ShardStep(s, "adding", to)
      BY <1>6 DEF CountIn
    <2>2. pc[s] = "adding" /\ \A t \in Shard : pc'[t] = IF t = s THEN to ELSE pc[t]
      BY <2>1, <1>2
    <2>3. QED
      BY <1>3, <1>6, <2>1, <2>2 DEF CountIn, Reading, Extracts
  <1>7. CASE Recheck(s)
    <2>1. PICK to \in {"cancelled", "extracting"} : ShardStep(s, "recheck", to)
      BY <1>7 DEF Recheck
    <2>2. pc[s] = "recheck" /\ \A t \in Shard : pc'[t] = IF t = s THEN to ELSE pc[t]
      BY <2>1, <1>2
    <2>3. failed' = failed /\ Kept
      BY <1>7, Zenon DEF Recheck
    <2>4. failed \/ UNCHANGED <<prepared, staging>>
      BY <1>7, Zenon DEF Recheck, CleanupPrepared
    <2>5. QED
      BY <1>3, <2>1, <2>2, <2>3, <2>4 DEF Reading, Extracts
  <1>8. CASE ExtractEntry(s)
    <2>1. PICK to \in {"extracting"} : ShardStep(s, "extracting", to)
      BY <1>8 DEF ExtractEntry
    <2>2. pc[s] = "extracting" /\ \A t \in Shard : pc'[t] = IF t = s THEN to ELSE pc[t]
      BY <2>1, <1>2
    <2>3. /\ snap' = snap /\ slots' = slots /\ cache' = cache /\ failed' = failed
          /\ prepared' = prepared /\ staging'
      BY <1>8 DEF ExtractEntry
    <2>4. QED
      BY <1>8, <2>1, <2>2, <2>3 DEF ShardMove, Reading, Extracts
  <1>9. CASE ExtractError(s)
    <2>1. PICK to \in {"failing"} : ShardStep(s, "extracting", to)
      BY <1>9 DEF ExtractError
    <2>2. pc[s] = "extracting" /\ \A t \in Shard : pc'[t] = IF t = s THEN to ELSE pc[t]
      BY <2>1, <1>2
    <2>3. QED
      BY <1>3, <1>9, <2>1, <2>2 DEF ExtractError, Reading, Extracts
  <1>10. CASE ExtractDone(s)
    <2>1. PICK to \in {"pruning", "leaveOk"} : ShardStep(s, "extracting", to) /\ (to = "pruning" => s \in slots)
      BY <1>10 DEF ExtractDone
    <2>2. pc[s] = "extracting" /\ \A t \in Shard : pc'[t] = IF t = s THEN to ELSE pc[t]
      BY <2>1, <1>2
    <2>3. snap' = [snap EXCEPT ![s] = Needed(s)] /\ slots' = slots \ {s} /\ todo[s] = <<>>
      BY <1>10, Zenon DEF ExtractDone, Needed
    <2>4. todo' = todo /\ cache' = cache /\ installed' = installed /\ failed' = failed
          /\ prepared' = prepared /\ staging' = staging
      BY <1>10, Zenon DEF ExtractDone
    <2>5. snap'[s] = Needed(s) /\ \A t \in Shard : t = s \/ snap'[t] = snap[t]
      BY <1>1, <2>3
    <2>6. QED
      BY <2>1, <2>2, <2>3, <2>4, <2>5 DEF ShardMove, Reading, Extracts
  <1>11. CASE PruneRanges(s)
    <2>1. PICK to \in {"leaveOk"} : ShardStep(s, "pruning", to)
      BY <1>11 DEF PruneRanges
    <2>2. pc[s] = "pruning" /\ \A t \in Shard : pc'[t] = IF t = s THEN to ELSE pc[t]
      BY <2>1, <1>2
    <2>3. snap' = [snap EXCEPT ![s] = {}] /\ slots' = slots /\ todo' = todo /\ installed' = installed
          /\ failed' = failed /\ prepared' = prepared /\ staging' = staging
      BY <1>11, Zenon DEF PruneRanges
    <2>4. \A t \in Shard : t = s \/ snap'[t] = snap[t]
      BY <1>1, <2>3
    <2>5. QED
      BY <1>11, <2>1, <2>2, <2>3, <2>4 DEF ShardMove, Reading, Extracts
  <1>12. CASE StoreFailure(s)
    <2>1. PICK to \in {"leaveErr", "leaveLoud"} : ShardStep(s, "failing", to)
      BY <1>12 DEF StoreFailure
    <2>2. pc[s] = "failing" /\ \A t \in Shard : pc'[t] = IF t = s THEN to ELSE pc[t]
      BY <2>1, <1>2
    <2>3. QED
      BY <1>3, <1>12, <2>1, <2>2 DEF StoreFailure, Reading, Extracts
  <1>13. CASE CountOut(s)
    <2>1. pc[s] \in {"leaveOk", "leaveErr", "leaveLoud"}
      BY <1>13 DEF CountOut, LastOut
    <2>2. PICK to \in {"lastOk", "lastErr", "lastLoud", "ok", "silent", "failed"} :
            ShardStep(s, pc[s], to) /\ (to \in Extracts => pc[s] \in Extracts)
      <3>1. /\ LastOut[pc[s]] \in {"lastOk", "lastErr", "lastLoud"} /\ Outcome[pc[s]] \in {"ok", "silent", "failed"}
            /\ (LastOut[pc[s]] = "lastOk" \/ Outcome[pc[s]] = "ok") => pc[s] = "leaveOk"
        BY <2>1 DEF LastOut, Outcome
      <3>2. QED
        BY <1>13, <3>1 DEF CountOut, Extracts
    <2>3. \A t \in Shard : pc'[t] = IF t = s THEN to ELSE pc[t]
      BY <2>2, <1>2
    <2>4. Kept /\ failed' = failed /\ UNCHANGED <<prepared, staging>>
      BY <1>13, Zenon DEF CountOut
    <2>5. QED
      BY <1>3, <2>1, <2>2, <2>3, <2>4 DEF Reading
  <1>14. CASE LeaveLast(s)
    <2>1. pc[s] \in {"lastOk", "lastErr", "lastLoud"}
      BY <1>14 DEF LeaveLast
    <2>2. PICK to \in {"ok", "silent", "failed"} :
            ShardStep(s, pc[s], to) /\ (to \in Extracts => pc[s] \in Extracts)
      <3>1. Outcome[pc[s]] \in {"ok", "silent", "failed"} /\ (Outcome[pc[s]] = "ok" => pc[s] = "lastOk")
        BY <2>1 DEF Outcome
      <3>2. QED
        BY <1>14, <3>1 DEF LeaveLast, Extracts
    <2>3. \A t \in Shard : pc'[t] = IF t = s THEN to ELSE pc[t]
      BY <2>2, <1>2
    <2>4. Kept /\ failed' = failed
      BY <1>14, Zenon DEF LeaveLast
    <2>5. failed \/ UNCHANGED <<prepared, staging>>
      BY <1>14, Zenon DEF LeaveLast, CleanupPrepared
    <2>6. QED
      BY <1>3, <2>1, <2>2, <2>3, <2>4, <2>5 DEF Reading
  <1>15. QED
    BY <1>4, <1>5, <1>6, <1>7, <1>8, <1>9, <1>10, <1>11, <1>12, <1>13, <1>14, Zenon DEF ShardActs

LEMMA SlotsStep ==
  ASSUME Types, Phases, SavedVolumes, Staged, Slots, [Next]_vars
  PROVE  Slots'
  <1>1. CASE UNCHANGED <<phase, remote, keep, plan, pc, snap, slots>>
    BY <1>1 DEF Slots, Shard
  <1>2. CASE UNCHANGED vars
    BY <1>1, <1>2 DEF vars, shardVars
  <1>3. CASE phase' # "extract"
    BY <1>3 DEF Slots
  <1>4. CASE ChainStep
    BY <1>3, <1>4 DEF ChainStep
  <1>5. CASE Asks
    BY <1>1, <1>5 DEF Asks
  <1>6. CASE Plans
    <2>1. /\ slots' = IF remote /\ ~keep THEN Shard' ELSE {}
          /\ \A s \in Shard' : pc'[s] = "blocked"
          /\ remote' = remote /\ keep' = keep
      BY <1>6 DEF Plans, Shard
    <2>2. QED
      BY <2>1 DEF Slots
  <1>7. CASE Ends
    BY <1>3, <1>7 DEF Ends
  <1>8. CASE FetchSteps
    BY <1>1, <1>8, FetchFrame
  <1>9. CASE ShardRun
    <2>1. PICK s \in Shard : ShardActs(s)
      BY <1>9, ShardFrame
    <2>2. phase = "extract" /\ UNCHANGED <<remote, keep, phase, plan>>
      BY <1>9, ShardFrame
    <2>3. PICK to : ShardMove(s, to)
      BY <2>1, ShardMoves
    <2>4. /\ \A t \in Shard : pc'[t] = IF t = s THEN to ELSE pc[t]
          /\ to \in Reading => pc[s] \in Reading
          /\ to = "pruning" => s \in slots /\ snap'[s] = Needed(s) /\ slots' = slots \ {s}
          /\ slots' = slots \/ (to \notin Reading /\ slots' = slots \ {s})
          /\ \A t \in Shard : t = s \/ snap'[t] = snap[t]
      BY <2>3 DEF ShardMove
    <2>5. Shard' = Shard
      BY <2>2 DEF Shard
    <2>6. CASE remote /\ ~keep
      <3>1. /\ \A t \in Shard : pc[t] \in Reading => t \in slots
            /\ \A t \in Shard : pc[t] = "pruning" =>
                 \A r \in slots : Sources(ToSet(plan[r].entries)) \subseteq snap[t]
        BY <2>2, <2>6 DEF Slots, Reading
      <3>2. \A t \in Shard : pc'[t] \in Reading => t \in slots'
        BY <2>4, <3>1
      <3>3. \A r \in slots \ {s} : Sources(ToSet(plan[r].entries)) \subseteq Needed(s)
        BY DEF Needed
      <3>4. ASSUME NEW t \in Shard, pc'[t] = "pruning", NEW r \in slots'
            PROVE  Sources(ToSet(plan[r].entries)) \subseteq snap'[t]
        <4>1. CASE t = s
          BY <2>4, <3>3, <3>4, <4>1
        <4>2. CASE t # s
          BY <2>4, <3>1, <3>4, <4>2
        <4>3. QED
          BY <4>1, <4>2
      <3>5. \A t \in Shard' : pc'[t] = "pruning" =>
              \A r \in slots' : Sources(ToSet(plan'[r].entries)) \subseteq snap'[t]
        BY <2>2, <2>5, <3>4
      <3>6. QED
        BY <2>2, <2>5, <2>6, <3>2, <3>5 DEF Slots, Reading
    <2>7. CASE ~ (remote /\ ~keep)
      <3>1. slots = {} /\ \A t \in Shard : pc[t] # "pruning"
        BY <2>2, <2>7 DEF Slots
      <3>2. slots' = {} /\ \A t \in Shard : pc'[t] # "pruning"
        BY <2>4, <3>1
      <3>3. QED
        BY <2>2, <2>5, <2>7, <3>2 DEF Slots
    <2>8. QED
      BY <2>6, <2>7
  <1>10. CASE RetainSteps
    BY <1>1, <1>10, RetainFrame
  <1>11. CASE FinishArchive
    BY <1>3, <1>11 DEF FinishArchive
  <1>12. QED
    BY <1>2, <1>4, <1>5, <1>6, <1>7, <1>8, <1>9, <1>10, <1>11, StepKinds

LEMMA StagedStep ==
  ASSUME Types, Phases, SavedVolumes, Staged, [Next]_vars
  PROVE  Staged'
  <1>1. CASE UNCHANGED <<phase, plan, pc, failed, prepared, staging>>
    BY <1>1 DEF Staged, Shard
  <1>2. CASE UNCHANGED vars
    BY <1>1, <1>2 DEF vars, shardVars, disk
  <1>3. CASE phase' # "extract" /\ UNCHANGED <<plan, pc, failed>>
    BY <1>3 DEF Staged, Shard
  <1>4. CASE ChainStep
    BY <1>3, <1>4 DEF ChainStep
  <1>5. CASE Asks
    BY <1>1, <1>5 DEF Asks
  <1>6. CASE Plans
    BY <1>6 DEF Plans, Staged, Shard
  <1>7. CASE Ends
    <2>1. DOMAIN <<>> = {}
      OBVIOUS
    <2>2. Shard' = {} /\ phase' = "failed"
      BY <1>7, <2>1 DEF Ends, ForgetRun, Shard
    <2>3. QED
      BY <2>2 DEF Staged
  <1>8. CASE FetchSteps
    BY <1>1, <1>8, FetchFrame
  <1>9. CASE ShardRun
    <2>1. PICK s \in Shard : ShardActs(s)
      BY <1>9, ShardFrame
    <2>2. phase = "extract" /\ UNCHANGED <<phase, plan>>
      BY <1>9, ShardFrame
    <2>3. PICK to : ShardMove(s, to)
      BY <2>1, ShardMoves
    <2>4. /\ \A t \in Shard : pc'[t] = IF t = s THEN to ELSE pc[t]
          /\ to = "peeked" => failed
          /\ failed => failed'
          /\ failed' \/ (prepared' = prepared /\ (staging => staging'))
      BY <2>3 DEF ShardMove
    <2>5. Shard' = Shard
      BY <2>2 DEF Shard
    <2>6. \A t \in Shard : pc[t] = "peeked" => failed
      BY DEF Staged
    <2>7. \A t \in Shard : pc'[t] = "peeked" => failed'
      BY <2>4, <2>6
    <2>8. ~failed => prepared /\ staging
      BY <2>2 DEF Staged
    <2>9. ~failed' => prepared' /\ staging'
      BY <2>4, <2>8
    <2>10. QED
      BY <2>5, <2>7, <2>9 DEF Staged
  <1>10. CASE RetainSteps
    BY <1>1, <1>10, RetainFrame
  <1>11. CASE FinishArchive
    BY <1>3, <1>11 DEF FinishArchive, shardVars
  <1>12. QED
    BY <1>2, <1>4, <1>5, <1>6, <1>7, <1>8, <1>9, <1>10, <1>11, StepKinds

LEMMA SavedVolumesStep ==
  ASSUME Types, Phases, SavedVolumes, Staged, [Next]_vars
  PROVE  SavedVolumes'
  <1>1. CASE UNCHANGED <<plan, pc, retain, saved, snapV>> /\ (phase' \in Early => phase \in Early)
    BY <1>1 DEF SavedVolumes, Readers, Shard
  <1>2. CASE UNCHANGED vars
    BY <1>1, <1>2 DEF vars, shardVars, retainVars
  <1>3. CASE ChainStep
    BY <1>1, <1>3 DEF ChainStep, Early
  <1>4. CASE Asks
    BY <1>1, <1>4 DEF Asks
  <1>5. CASE Plans
    <2>1. phase \in Early
      BY <1>5 DEF Plans, Early
    <2>2. \A v \in Volume : retain[v] = "wait"
      BY <2>1 DEF SavedVolumes
    <2>3. phase' \notin Early /\ UNCHANGED <<retain, saved, snapV>>
      BY <1>5 DEF Plans, Early
    <2>4. QED
      BY <2>2, <2>3 DEF SavedVolumes
  <1>6. CASE Ends
    <2>1. retain' = [v \in Volume |-> "wait"] /\ saved' = {}
      BY <1>6 DEF Ends, ForgetRun
    <2>2. QED
      BY <2>1 DEF SavedVolumes
  <1>7. CASE FetchSteps
    BY <1>1, <1>7, FetchFrame
  <1>8. CASE ShardRun
    <2>1. PICK s \in Shard : ShardActs(s)
      BY <1>8, ShardFrame
    <2>2. phase = "extract" /\ UNCHANGED <<phase, plan, retain, saved, snapV>>
      BY <1>8, ShardFrame
    <2>3. PICK to : ShardMove(s, to)
      BY <2>1, ShardMoves
    <2>4. pc[s] # "ok" /\ \A t \in Shard : pc'[t] = IF t = s THEN to ELSE pc[t]
      BY <2>3 DEF ShardMove
    <2>5. \A v : Readers(v)' = Readers(v) /\ Readers(v) \subseteq Shard
      BY <2>2 DEF Readers, Shard
    <2>6. \A v \in Volume : retain[v] # "wait" => \A t \in Readers(v) : pc'[t] = "ok"
      BY <2>4, <2>5 DEF SavedVolumes
    <2>7. QED
      BY <2>2, <2>5, <2>6 DEF SavedVolumes
  <1>9. CASE RetainSteps
    <2>1. PICK v \in Volume : RetainActs(v) /\ RetainReady(v)
      BY <1>9, RetainFrame
    <2>2. phase = "extract" /\ UNCHANGED <<phase, plan, pc>>
      BY <1>9, RetainFrame
    <2>3. \A w : Readers(w)' = Readers(w)
      BY <2>2 DEF Readers, Shard
    <2>4. \A t \in Readers(v) : pc[t] = "ok"
      BY <2>1 DEF RetainReady
    <2>5. phase' \notin Early
      BY <2>2 DEF Early
    <2>6. retain \in [Volume -> {"wait", "writing", "synced", "written", "marked", "ok", "failed"}]
          /\ snapV \in [Volume -> SUBSET SourceRange] /\ saved \subseteq Volume
      BY DEF Types, TypeOK
    <2>7. \A w \in Volume : w = v \/ (retain'[w] = retain[w] /\ snapV'[w] = snapV[w])
      BY <2>1, <2>6 DEF RetainActs, RetainPresent, RetainWrite, RetainSync, RetainWrong, RetainCommit,
                        RetainMark, RetainPrune, RetainStep
    <2>8. \A w \in Volume : retain'[w] # "wait" => \A t \in Readers(w)' : pc'[t] = "ok"
      BY <2>2, <2>3, <2>4, <2>7 DEF SavedVolumes
    <2>9. /\ \A w \in saved : retain[w] \in {"marked", "ok"}
          /\ \A w \in Volume : retain[w] = "marked" => \A x \in Volume \ saved : WholeVolume(x) \in snapV[w]
      BY DEF SavedVolumes
    <2>10. CASE RetainMark(v)
      <3> DEFINE note == {WholeVolume(w) : w \in Volume \ saved'}
      <3>1. retain' = [retain EXCEPT ![v] = "marked"] /\ saved' = saved \cup {v}
            /\ snapV' = [snapV EXCEPT ![v] = note]
        BY <2>10 DEF RetainMark
      <3>2. \A x \in Volume \ saved' : WholeVolume(x) \in note
        OBVIOUS
      <3> HIDE DEF note
      <3>3. retain'[v] = "marked" /\ snapV'[v] = note
        BY <2>6, <3>1
      <3>4. \A w \in saved' : retain'[w] \in {"marked", "ok"}
        BY <2>6, <2>7, <2>9, <3>1, <3>3
      <3>5. \A w \in Volume : retain'[w] = "marked" => \A x \in Volume \ saved' : WholeVolume(x) \in snapV'[w]
        BY <2>7, <2>9, <3>1, <3>2, <3>3
      <3>6. QED
        BY <2>5, <2>8, <3>4, <3>5 DEF SavedVolumes, WholeVolume, VolumeStart
    <2>11. CASE ~ RetainMark(v)
      <3>1. saved' = saved /\ retain'[v] # "marked" /\ (v \in saved => retain'[v] = "ok")
        <4>1. CASE RetainPrune(v)
          BY <2>6, <4>1 DEF RetainPrune
        <4>2. CASE \E from \in {"wait", "writing", "synced"}, to \in {"writing", "synced", "written", "failed"} :
                     RetainStep(v, from, to)
          BY <2>6, <2>9, <4>2 DEF RetainStep
        <4>3. QED
          BY <2>1, <2>11, <4>1, <4>2 DEF RetainActs, RetainPresent, RetainWrite, RetainSync, RetainWrong,
                                       RetainCommit
      <3>2. \A w \in saved' : retain'[w] \in {"marked", "ok"}
        BY <2>6, <2>7, <2>9, <3>1
      <3>3. \A w \in Volume : retain'[w] = "marked" => \A x \in Volume \ saved' : WholeVolume(x) \in snapV'[w]
        BY <2>7, <2>9, <3>1
      <3>4. QED
        BY <2>5, <2>8, <3>2, <3>3 DEF SavedVolumes, WholeVolume, VolumeStart
    <2>12. QED
      BY <2>10, <2>11
  <1>10. CASE FinishArchive
    BY <1>1, <1>10 DEF FinishArchive, Early, shardVars, retainVars
  <1>11. QED
    BY <1>2, <1>3, <1>4, <1>5, <1>6, <1>7, <1>8, <1>9, <1>10, StepKinds

LEMMA TailElements ==
  ASSUME NEW q \in Seq(Entry), q # <<>>
  PROVE  Head(q) \in Entry /\ Tail(q) \in Seq(Entry) /\ ToSet(q) = {Head(q)} \cup ToSet(Tail(q))
  <1>1. Len(q) \in Nat /\ Len(q) > 0 /\ DOMAIN q = 1 .. Len(q) /\ Head(q) = q[1] /\ q[1] \in Entry
    BY EmptySeq
  <1>2. /\ Tail(q) \in Seq(Entry) /\ Len(Tail(q)) = Len(q) - 1
        /\ \A i \in 1 .. Len(q) - 1 : Tail(q)[i] = q[i + 1]
    BY <1>1
  <1> DEFINE t == Tail(q)
  <1> HIDE DEF t
  <1>3. DOMAIN t = 1 .. Len(q) - 1 /\ \A i \in 1 .. Len(q) - 1 : t[i] = q[i + 1]
    BY <1>2 DEF t
  <1>4. ASSUME NEW i \in 1 .. Len(q)
        PROVE  q[i] = q[1] \/ \E j \in DOMAIN t : t[j] = q[i]
    <2>1. CASE i = 1
      BY <2>1
    <2>2. CASE i # 1
      <3>1. i - 1 \in 1 .. Len(q) - 1 /\ (i - 1) + 1 = i
        BY <1>1, <2>2
      <3>2. t[i - 1] = q[i]
        BY <1>3, <3>1
      <3>3. QED
        BY <1>3, <3>1, <3>2
    <2>3. QED
      BY <2>1, <2>2
  <1>5. ASSUME NEW j \in DOMAIN t
        PROVE  \E i \in 1 .. Len(q) : t[j] = q[i]
    <2>1. j + 1 \in 1 .. Len(q) /\ t[j] = q[j + 1]
      BY <1>1, <1>3
    <2>2. QED
      BY <2>1
  <1>6. 1 \in 1 .. Len(q)
    BY <1>1
  <1>7. ToSet(q) = {q[i] : i \in 1 .. Len(q)} /\ ToSet(t) = {t[j] : j \in DOMAIN t}
    BY <1>1 DEF ToSet
  <1>8. ToSet(q) = {q[1]} \cup ToSet(t)
    BY <1>4, <1>5, <1>6, <1>7
  <1>9. QED
    BY <1>1, <1>2, <1>8 DEF t

\* Extracting an entry.
LEMMA EntryStep ==
  ASSUME Types, Phases, Extracted, NEW s \in Shard, ExtractEntry(s)
  PROVE  \E e \in ToSet(todo[s]) :
           /\ e \in ToSet(plan[s].entries) /\ e \in Entry
           /\ ToSet(todo[s]) = {e} \cup ToSet(todo'[s])
           /\ \A t \in Shard : t = s \/ todo'[t] = todo[t]
           /\ \A d \in Entry : installed'[d] = IF d = e /\ plan[s].direct THEN "new" ELSE installed[d]
  <1>1. todo \in [Shard -> Seq(Entry)] /\ installed \in [Entry -> {"old", "new"}]
    BY DEF Types, TypeOK
  <1> DEFINE q == todo[s]
             e == Head(q)
  <1>2. q \in Seq(Entry) /\ q # <<>>
    BY <1>1 DEF ExtractEntry
  <1>3. todo' = [todo EXCEPT ![s] = Tail(q)]
        /\ installed' = IF plan[s].direct THEN [installed EXCEPT ![e] = "new"] ELSE installed
    BY DEF ExtractEntry
  <1> HIDE DEF q, e
  <1>4. e \in Entry /\ Tail(q) \in Seq(Entry) /\ ToSet(q) = {e} \cup ToSet(Tail(q))
    BY <1>2, TailElements DEF e
  <1>5. todo'[s] = Tail(q) /\ \A t \in Shard : t = s \/ todo'[t] = todo[t]
    BY <1>1, <1>3
  <1>6. \A d \in Entry : installed'[d] = IF d = e /\ plan[s].direct THEN "new" ELSE installed[d]
    BY <1>1, <1>3, <1>4
  <1>7. ToSet(todo[s]) \subseteq ToSet(plan[s].entries)
    BY DEF Extracted
  <1>8. e \in ToSet(todo[s])
    BY <1>4 DEF q
  <1>9. QED
    BY <1>4, <1>5, <1>6, <1>7, <1>8 DEF q

LEMMA ExtractedStep ==
  ASSUME Types, Phases, SavedVolumes, Staged, Extracted, [Next]_vars
  PROVE  Extracted'
  <1>1. CASE UNCHANGED <<plan, pc, todo, installed>>
    BY <1>1 DEF Extracted, Shard
  <1>2. CASE UNCHANGED vars
    BY <1>1, <1>2 DEF vars, shardVars, disk
  <1>3. CASE ChainStep
    BY <1>1, <1>3 DEF ChainStep
  <1>4. CASE Asks
    BY <1>1, <1>4 DEF Asks
  <1>5. CASE Plans
    <2>1. \A s \in Shard' : pc'[s] = "blocked" /\ todo'[s] = plan'[s].entries
      BY <1>5 DEF Plans, Shard
    <2>2. QED
      BY <2>1 DEF Extracted
  <1>6. CASE Ends
    <2>1. DOMAIN <<>> = {}
      OBVIOUS
    <2>2. Shard' = {}
      BY <1>6, <2>1 DEF Ends, ForgetRun, Shard
    <2>3. QED
      BY <2>2 DEF Extracted
  <1>7. CASE FetchSteps
    BY <1>1, <1>7, FetchFrame
  <1>8. CASE ShardRun
    <2>1. PICK s \in Shard : ShardActs(s)
      BY <1>8, ShardFrame
    <2>2. UNCHANGED plan
      BY <1>8, ShardFrame
    <2>3. PICK to : ShardMove(s, to)
      BY <2>1, ShardMoves
    <2>4. /\ \A t \in Shard : pc'[t] = IF t = s THEN to ELSE pc[t]
          /\ to \in Extracts => todo' = todo /\ (pc[s] \in Extracts \/ todo[s] = <<>>)
          /\ (todo' = todo /\ installed' = installed) \/ ExtractEntry(s)
      BY <2>3 DEF ShardMove
    <2>5. Shard' = Shard
      BY <2>2 DEF Shard
    <2>6. /\ \A t \in Shard : pc[t] \in Extracts => todo[t] = <<>>
          /\ \A t \in Shard : /\ ToSet(todo[t]) \subseteq ToSet(plan[t].entries)
                              /\ plan[t].direct => \A d \in ToSet(plan[t].entries) :
                                   d \in ToSet(todo[t]) \/ installed[d] = "new"
      BY DEF Extracted, Extracts
    <2>7. \A t \in Shard : ToSet(plan[t].entries) \in SUBSET Entry
      BY PlanIs
    <2>8. CASE todo' = todo /\ installed' = installed
      <3>1. \A t \in Shard : pc'[t] \in Extracts => todo'[t] = <<>>
        BY <2>4, <2>6, <2>8
      <3>2. QED
        BY <2>2, <2>5, <2>6, <2>8, <3>1 DEF Extracted, Extracts
    <2>9. CASE ExtractEntry(s) /\ ~ (todo' = todo /\ installed' = installed)
      <3>1. PICK e \in ToSet(todo[s]) :
           /\ e \in ToSet(plan[s].entries) /\ e \in Entry
           /\ ToSet(todo[s]) = {e} \cup ToSet(todo'[s])
           /\ \A t \in Shard : t = s \/ todo'[t] = todo[t]
           /\ \A d \in Entry : installed'[d] = IF d = e /\ plan[s].direct THEN "new" ELSE installed[d]
        BY <2>9, EntryStep
      <3>2. to \notin Extracts
        <4>1. ShardStep(s, "extracting", "extracting") /\ pc \in [Shard -> PcValues]
          BY <2>9 DEF ExtractEntry, Types, TypeOK
        <4>2. pc'[s] = "extracting"
          BY <4>1 DEF ShardStep
        <4>3. QED
          BY <2>4, <4>2 DEF Extracts
      <3>3. \A t \in Shard : pc'[t] \in Extracts => todo'[t] = <<>>
        BY <2>4, <2>6, <3>1, <3>2
      <3>4. \A t \in Shard : ToSet(todo'[t]) \subseteq ToSet(plan[t].entries)
        BY <2>6, <3>1
      <3>5. ASSUME NEW t \in Shard, plan[t].direct, NEW d \in ToSet(plan[t].entries)
            PROVE  d \in ToSet(todo'[t]) \/ installed'[d] = "new"
        <4>1. d \in Entry /\ (d \in ToSet(todo[t]) \/ installed[d] = "new")
          BY <2>6, <2>7, <3>5
        <4>2. CASE t = s
          BY <3>1, <3>5, <4>1, <4>2
        <4>3. CASE t # s
          BY <3>1, <4>1, <4>3
        <4>4. QED
          BY <4>2, <4>3
      <3>6. QED
        BY <2>2, <2>5, <3>3, <3>4, <3>5 DEF Extracted, Extracts
    <2>10. QED
      BY <2>4, <2>8, <2>9
  <1>9. CASE RetainSteps
    BY <1>1, <1>9, RetainFrame
  <1>10. CASE FinishArchive
    <2>1. UNCHANGED <<plan, pc, todo>>
      BY <1>10 DEF FinishArchive, shardVars
    <2>2. \A e \in Entry : installed[e] = "new" => installed'[e] = "new"
      BY <1>10 DEF FinishArchive
    <2>3. \A t \in Shard : ToSet(plan[t].entries) \in SUBSET Entry
      BY PlanIs
    <2>4. Shard' = Shard
      BY <2>1 DEF Shard
    <2>5. QED
      BY <2>1, <2>2, <2>3, <2>4 DEF Extracted
  <1>11. QED
    BY <1>2, <1>3, <1>4, <1>5, <1>6, <1>7, <1>8, <1>9, <1>10, StepKinds

LEMMA ControlsStep ==
  ASSUME Types, Phases, SavedVolumes, Staged, Extracted, ControlsLast, [Next]_vars
  PROVE  ControlsLast'
  <1> DEFINE D == Entry \ (Controls \cup Excluded)
  <1>1. Controls \subseteq Entry
    BY ArchiveAssumption
  <1>2. CASE installed' = installed
    BY <1>2 DEF ControlsLast
  <1>3. CASE UNCHANGED vars
    BY <1>2, <1>3 DEF vars, disk
  <1>4. CASE ChainStep
    BY <1>2, <1>4 DEF ChainStep
  <1>5. CASE Asks
    BY <1>2, <1>5 DEF Asks
  <1>6. CASE Plans
    BY <1>2, <1>6 DEF Plans
  <1>7. CASE Ends
    BY <1>2, <1>7 DEF Ends
  <1>8. CASE FetchSteps
    BY <1>2, <1>8, FetchFrame
  <1>9. CASE ShardRun
    <2>1. PICK s \in Shard : ShardActs(s)
      BY <1>9, ShardFrame
    <2>2. PICK to : ShardMove(s, to)
      BY <2>1, ShardMoves
    <2>3. installed' = installed \/ ExtractEntry(s)
      BY <2>2 DEF ShardMove
    <2>4. CASE ExtractEntry(s)
      <3>1. PICK e \in ToSet(todo[s]) :
           /\ e \in ToSet(plan[s].entries) /\ e \in Entry
           /\ ToSet(todo[s]) = {e} \cup ToSet(todo'[s])
           /\ \A t \in Shard : t = s \/ todo'[t] = todo[t]
           /\ \A d \in Entry : installed'[d] = IF d = e /\ plan[s].direct THEN "new" ELSE installed[d]
        BY <2>4, EntryStep
      <3>2. SourcesValid /\ plan = Planned
        BY PlanIs
      <3>3. plan[s].direct => e \notin Controls
        BY <3>1, <3>2, PlannedIs DEF Shard
      <3>4. \A c \in Controls : installed'[c] = installed[c]
        BY <1>1, <3>1, <3>3
      <3>5. \A d \in Entry : installed[d] = "new" => installed'[d] = "new"
        BY <3>1
      <3>6. QED
        BY <3>4, <3>5 DEF ControlsLast
    <2>5. QED
      BY <1>2, <2>3, <2>4
  <1>10. CASE RetainSteps
    BY <1>2, <1>10, RetainFrame
  <1>11. CASE FinishArchive
    <2>1. phase = "extract" /\ \A s \in Shard : pc[s] = "ok"
      BY <1>11, FinishIs DEF FinishArchive
    <2>2. SourcesValid /\ plan = Planned
      BY <2>1 DEF Phases
    <2>3. ASSUME NEW e \in D
          PROVE  installed[e] = "new"
      <3>1. PICK s \in Shard : plan[s].direct /\ e \in ToSet(plan[s].entries)
        BY <2>2, PlannedIs DEF Shard
      <3>2. todo[s] = <<>>
        BY <2>1 DEF Extracted
      <3>3. ToSet(<<>>) = {}
        BY DEF ToSet
      <3>4. QED
        BY <3>1, <3>2, <3>3 DEF Extracted
    <2>4. \A e \in D : installed'[e] = "new"
      BY <1>11, <2>3 DEF FinishArchive
    <2>5. QED
      BY <2>4 DEF ControlsLast
  <1>12. QED
    BY <1>3, <1>4, <1>5, <1>6, <1>7, <1>8, <1>9, <1>10, <1>11, StepKinds

LEMMA PresentNext ==
  \A u \in Unit : (Segments(u) # {})' <=> Present(u)'
  <1>1. \A u \in Unit : Segments(u) # {} <=> Present(u)
    BY PresentIs
  <1>2. (\A u \in Unit : Segments(u) # {} <=> Present(u))'
    BY <1>1, PTL
  <1>3. QED
    BY <1>2

\* A cached range survives a prune that knows of a range needed somewhere in it.
LEMMA NeededSurvives ==
  ASSUME NEW u \in Nat, NEW r \in cache, r.lo \in Nat, r.hi \in Nat, u \in Units(r),
         NEW needed, NEW n \in needed, n.lo \in Nat, n.hi \in Nat, n.lo <= u, u < n.hi,
         NEW stuck
  PROVE  r \in Pruned(needed, stuck)
  <1>1. r.lo <= u /\ u < r.hi
    BY DEF Units
  <1>2. n.lo < r.hi /\ n.hi > r.lo
    BY <1>1
  <1>3. r \notin Prunable(needed)
    BY <1>2 DEF Prunable
  <1>4. QED
    BY <1>3 DEF Pruned

\* A shard that may still read a unit finds it, now or when its own fetches are done.
Served(s, u) == Present(u) \/ \E f \in fetches : f.owner = ShardOwner(s) /\ u \in Units(f.range)
MayRead(s) == ShardOwner(s) \notin broken /\ pc[s] \in Reading

LEMMA ReadersAre ==
  ASSUME Phases, ReadersKeepRanges, phase = "extract", Extracted,
         NEW s \in Shard, MayRead(s), NEW e \in ToSet(todo[s]), NEW u \in Units(Source[e])
  PROVE  /\ Served(s, u) /\ e \in Entry /\ e \in ToSet(plan[s].entries) /\ u \in Unit /\ u \in Nat
         /\ Source[e].lo \in Nat /\ Source[e].hi \in Nat /\ Source[e].lo <= u /\ u < Source[e].hi
  <1>1. ToSet(todo[s]) \subseteq ToSet(plan[s].entries) /\ ToSet(plan[s].entries) \in SUBSET Entry /\ SourcesValid
    BY PlanIs DEF Extracted
  <1>2. e \in Entry /\ e \in ToSet(plan[s].entries)
    BY <1>1
  <1>3. Source[e].lo \in Nat /\ Source[e].hi \in Nat /\ Units(Source[e]) \subseteq Unit
    BY <1>1, <1>2, SourceOf
  <1>4. u \in Unit /\ u \in Nat
    BY <1>3, Layout DEF Unit
  <1>5. Source[e].lo <= u /\ u < Source[e].hi
    BY <1>3 DEF Units
  <1>6. Segments(u) # {} \/ \E f \in fetches : f.owner = ShardOwner(s) /\ u \in Units(f.range)
    BY DEF ReadersKeepRanges, MayRead, Reading
  <1>7. Served(s, u)
    BY <1>4, <1>6, PresentIs DEF Served
  <1>8. QED
    BY <1>2, <1>3, <1>4, <1>5, <1>7

\* The same, to be shown of the next state.
LEMMA ReadersNext ==
  ASSUME Phases',
         \A s \in Shard' : MayRead(s)' => \A e \in ToSet(todo'[s]) : \A u \in Units(Source[e]) :
           u \in Unit /\ Served(s, u)'
  PROVE  ReadersKeepRanges'
  <1>1. SUFFICES ASSUME NEW s \in Shard', MayRead(s)', NEW e \in ToSet(todo'[s]), NEW u \in Units(Source[e])
                 PROVE  (Segments(u) # {})' \/ \E f \in fetches' : f.owner = ShardOwner(s) /\ u \in Units(f.range)
    BY DEF ReadersKeepRanges, MayRead, Reading
  <1>2. u \in Unit /\ Served(s, u)'
    BY <1>1
  <1>3. QED
    BY <1>2, PresentNext DEF Served

LEMMA PlansServe ==
  ASSUME Types, Phases, Plans
  PROVE  \A s \in Shard' : \A e \in ToSet(todo'[s]) : \A u \in Units(Source[e]) :
           u \in Unit /\ Served(s, u)'
  <1>1. SourcesValid /\ plan' = Planned /\ Layouts
    BY DEF Plans, Phases, Layouts, Types, TypeOK
  <1> DEFINE D == DOMAIN Planned
             Entries(s) == ToSet(Planned[s].entries)
  <1>2. ASSUME NEW s \in D
        PROVE  Entries(s) \in SUBSET Entry
    <2>1. Planned[s] \in Job
      BY <1>1, PlannedIs
    <2> DEFINE x == Planned[s].entries
    <2>2. x \in Seq(Entry)
      BY <2>1 DEF Job
    <2> HIDE DEF x
    <2>3. ToSet(x) \in SUBSET Entry
      BY <2>2 DEF ToSet
    <2>4. QED
      BY <2>3 DEF x
  <1>3. ASSUME NEW s \in D, NEW e \in Entries(s), NEW u \in Units(Source[e])
        PROVE  u \in Unit /\ Served(s, u)'
    <2> DEFINE ranges == Sources(Entries(s))
    <2>1. ranges \in SUBSET SourceRange /\ IsFiniteSet(ranges)
      BY <1>1, <1>2, SourcesAre
    <2>2. e \in Entry /\ Source[e] \in ranges
      BY <1>2 DEF Sources
    <2>3. Source[e].lo \in Nat /\ Source[e].hi \in Nat /\ Units(Source[e]) \subseteq Unit
      BY <1>1, <2>2, SourceOf
    <2>4. u \in Unit /\ u \in Nat /\ Source[e].lo <= u /\ u < Source[e].hi
      BY <2>3, Layout DEF Units, Unit
    <2>5. /\ cache' = cache /\ registered' = registered
          /\ \A q \in Requests(ranges) : [range |-> q, owner |-> ShardOwner(s), tries |-> 0] \in fetches'
      <3> DEFINE Of(t) == {[range |-> r, owner |-> ShardOwner(t), tries |-> 0] :
                             r \in Requests(Sources(ToSet(plan'[t].entries)))}
      <3>1. cache' = cache /\ registered' = registered /\ fetches' = UNION {Of(t) : t \in DOMAIN plan'}
        BY DEF Plans
      <3>2. \A q \in Requests(ranges) : [range |-> q, owner |-> ShardOwner(s), tries |-> 0] \in Of(s)
        BY <1>1
      <3> HIDE DEF Of
      <3>3. Of(s) \subseteq fetches'
        BY <1>1, <3>1
      <3>4. QED
        BY <3>1, <3>2, <3>3
    <2> HIDE DEF ranges, Entries
    <2>6. CASE u \in CachedUnits(VolumeOf[u])
      <3>1. Present(u)
        BY <1>1, <2>4, <2>6, SegmentsAre, PresentIs
      <3>2. Present(u)'
        BY <2>5, <3>1 DEF Present
      <3>3. QED
        BY <2>4, <3>2 DEF Served
    <2>7. CASE u \notin CachedUnits(VolumeOf[u])
      <3>1. PICK q \in Requests(ranges) : q.lo <= u /\ u < q.hi
        BY <1>1, <2>1, <2>2, <2>4, <2>7, RequestsAre
      <3>2. q \in Piece
        BY <1>1, <2>1, RequestsAre
      <3>3. Units(q) = q.lo .. q.hi - 1 /\ q.lo \in Nat /\ q.hi \in Nat
        BY <3>2, PieceOf
      <3>4. u \in Units(q)
        BY <2>4, <3>1, <3>3
      <3> DEFINE f == [range |-> q, owner |-> ShardOwner(s), tries |-> 0]
      <3>5. f \in fetches' /\ f.owner = ShardOwner(s) /\ f.range = q
        BY <2>5
      <3> HIDE DEF f
      <3>6. \E g \in fetches' : g.owner = ShardOwner(s) /\ u \in Units(g.range)
        BY <3>4, <3>5
      <3>7. QED
        BY <2>4, <3>6 DEF Served
    <2>8. QED
      BY <2>6, <2>7
  <1>4. Shard' = D /\ \A s \in D : todo'[s] = Planned[s].entries
    BY <1>1 DEF Plans, Shard
  <1>5. QED
    BY <1>3, <1>4

LEMMA FetchesServe ==
  ASSUME Types, FetchSteps, NEW s, NEW u \in Unit, ShardOwner(s) \notin broken', Served(s, u)
  PROVE  ShardOwner(s) \notin broken /\ Served(s, u)'
  <1>1. PICK f \in fetches : \/ \E good \in BOOLEAN : (good \/ faults < MaxFaults) /\ FetchDone(f, good)
                             \/ FetchRetry(f) \/ FetchGiveUp(f)
    BY DEF FetchSteps
  <1>2. f.range \in Piece /\ Layouts
    BY DEF Types, TypeOK, Layouts
  <1>3. registered' = registered
    BY FetchFrame
  <1>4. CASE \E good \in BOOLEAN : FetchDone(f, good)
    <2>1. PICK good \in BOOLEAN : FetchDone(f, good)
      BY <1>4
    <2> DEFINE q == f.range
               new == [vol |-> q.vol, lo |-> q.lo, hi |-> q.hi, good |-> good, full |-> FALSE]
    <2>2. cache' = (IF Available(q) THEN cache ELSE cache \cup {new})
          /\ fetches' = fetches \ {f} /\ broken' = broken
      BY <2>1 DEF FetchDone
    <2>3. new.vol = q.vol /\ new.lo = q.lo /\ new.hi = q.hi
      OBVIOUS
    <2>4. q \in Piece
      BY <1>2
    <2> HIDE DEF q, new
    <2>5. Present(u) => Present(u)'
      BY <1>3, <2>2 DEF Present
    <2>6. ASSUME u \in Units(q)
          PROVE  Present(u)'
      <3>1. VolumeOf[u] = q.vol
        BY <2>4, <2>6, PieceOf
      <3>2. CASE Available(q)
        <4>1. Present(u)
          BY <1>2, <2>4, <2>6, <3>2, CachedAvailable
        <4>2. QED
          BY <2>5, <4>1
      <3>3. CASE ~ Available(q)
        <4>1. new \in cache' /\ new.vol = VolumeOf[u]
          BY <2>2, <2>3, <3>1, <3>3
        <4>2. u \in Units(new)
          BY <2>3, <2>6 DEF Units
        <4>3. QED
          BY <4>1, <4>2 DEF Present
      <3>4. QED
        BY <3>2, <3>3
    <2>7. QED
      BY <2>2, <2>5, <2>6 DEF Served, q
  <1>5. CASE FetchRetry(f)
    <2> DEFINE g == [range |-> f.range, owner |-> f.owner, tries |-> f.tries + 1]
    <2>1. fetches' = (fetches \ {f}) \cup {g} /\ broken' = broken /\ cache' = cache
      BY <1>5 DEF FetchRetry, disk
    <2>2. g.range = f.range /\ g.owner = f.owner
      OBVIOUS
    <2> HIDE DEF g
    <2>3. QED
      BY <1>3, <2>1, <2>2 DEF Served, Present
  <1>6. CASE FetchGiveUp(f)
    <2>1. fetches' = fetches \ {f} /\ broken' = broken \cup {f.owner} /\ cache' = cache
      BY <1>6 DEF FetchGiveUp, disk
    <2>2. QED
      BY <1>3, <2>1 DEF Served, Present
  <1>7. QED
    BY <1>1, <1>4, <1>5, <1>6

LEMMA ReadersStep ==
  ASSUME Types, Phases, Slots, SavedVolumes, Staged, Extracted, ReadersKeepRanges, [Next]_vars
  PROVE  ReadersKeepRanges'
  <1>1. Phases'
    BY PhasesStep
  <1>2. CASE phase' # "extract"
    BY <1>2 DEF ReadersKeepRanges
  <1>3. \A r \in cache : r.vol \in Volume /\ r.lo \in Nat /\ r.hi \in Nat
    <2>1. ASSUME NEW r \in cache
          PROVE  r.vol \in Volume /\ r.lo \in Nat /\ r.hi \in Nat
      <3>1. r \in RangeFile
        BY DEF Types, CacheWellFormed
      <3>2. r.vol \in Volume /\ r.lo \in Unit /\ r.hi \in 1 .. Total
        BY <3>1 DEF RangeFile
      <3>3. QED
        BY <3>2, Layout DEF Unit
    <2>2. QED
      BY <2>1
  <1>4. CASE phase = "extract" /\ UNCHANGED <<plan, pc, todo, broken, cache, registered>> /\ fetches \subseteq fetches'
    <2>1. ASSUME NEW s \in Shard', MayRead(s)', NEW e \in ToSet(todo'[s]), NEW u \in Units(Source[e])
          PROVE  u \in Unit /\ Served(s, u)'
      <3>1. s \in Shard /\ MayRead(s) /\ e \in ToSet(todo[s])
        BY <1>4, <2>1 DEF Shard, MayRead
      <3>2. u \in Unit /\ Served(s, u)
        BY <1>4, <3>1, ReadersAre
      <3>3. QED
        BY <1>4, <3>2 DEF Served, Present
    <2>2. QED
      BY <1>1, <2>1, ReadersNext
  <1>5. CASE UNCHANGED vars
    BY <1>2, <1>4, <1>5 DEF vars, shardVars, disk
  <1>6. CASE ChainStep
    BY <1>2, <1>6 DEF ChainStep
  <1>7. CASE Asks
    <2>1. fetches \subseteq fetches'
      BY <1>7 DEF Asks
    <2>2. QED
      BY <1>2, <1>4, <1>7, <2>1 DEF Asks
  <1>8. CASE Plans
    BY <1>1, <1>8, PlansServe, ReadersNext
  <1>9. CASE Ends
    BY <1>2, <1>9 DEF Ends
  <1>10. CASE FetchSteps
    <2>1. UNCHANGED <<phase, plan, pc, todo>>
      BY <1>10, FetchFrame
    <2>2. ASSUME phase = "extract", NEW s \in Shard', MayRead(s)', NEW e \in ToSet(todo'[s]),
                 NEW u \in Units(Source[e])
          PROVE  u \in Unit /\ Served(s, u)'
      <3>1. s \in Shard /\ pc[s] \in Reading /\ e \in ToSet(todo[s]) /\ ShardOwner(s) \notin broken'
        BY <2>1, <2>2 DEF Shard, MayRead, ShardOwner
      <3>2. ShardOwner(s) \notin broken
        BY <1>10, <3>1 DEF FetchSteps, FetchDone, FetchRetry, FetchGiveUp
      <3>3. u \in Unit /\ Served(s, u)
        BY <2>2, <3>1, <3>2, ReadersAre DEF MayRead
      <3>4. QED
        BY <1>10, <3>1, <3>3, FetchesServe
    <2>3. QED
      BY <1>1, <1>2, <2>1, <2>2, ReadersNext
  <1>11. CASE ShardRun
    <2>1. PICK s \in Shard : ShardActs(s)
      BY <1>11, ShardFrame
    <2>2. phase = "extract" /\ UNCHANGED <<phase, registered, plan, fetches, broken>>
      BY <1>11, ShardFrame
    <2>3. PICK to : ShardMove(s, to)
      BY <2>1, ShardMoves
    <2>4. /\ \A t \in Shard : pc'[t] = IF t = s THEN to ELSE pc[t]
          /\ to \in Reading => pc[s] \in Reading
          /\ (todo' = todo /\ installed' = installed) \/ ExtractEntry(s)
          /\ cache' = cache \/ (PruneRanges(s) /\ to \notin Reading)
      BY <2>3 DEF ShardMove
    <2>5. ASSUME NEW t \in Shard
          PROVE  ToSet(todo'[t]) \subseteq ToSet(todo[t])
      <3>1. CASE todo' = todo
        BY <3>1
      <3>2. CASE ExtractEntry(s)
        <4>1. PICK e \in ToSet(todo[s]) :
           /\ e \in ToSet(plan[s].entries) /\ e \in Entry
           /\ ToSet(todo[s]) = {e} \cup ToSet(todo'[s])
           /\ \A x \in Shard : x = s \/ todo'[x] = todo[x]
           /\ \A d \in Entry : installed'[d] = IF d = e /\ plan[s].direct THEN "new" ELSE installed[d]
          BY <3>2, EntryStep
        <4>2. CASE t = s
          BY <4>1, <4>2
        <4>3. CASE t # s
          BY <4>1, <4>3
        <4>4. QED
          BY <4>2, <4>3
      <3>3. QED
        BY <2>4, <3>1, <3>2
    <2>6. ASSUME NEW t \in Shard', MayRead(t)', NEW e \in ToSet(todo'[t]), NEW u \in Units(Source[e])
          PROVE  u \in Unit /\ Served(t, u)'
      <3>1. t \in Shard /\ pc[t] \in Reading /\ ShardOwner(t) \notin broken
        BY <2>2, <2>4, <2>6 DEF Shard, MayRead, ShardOwner
      <3>2. e \in ToSet(todo[t]) /\ MayRead(t)
        BY <2>5, <2>6, <3>1 DEF MayRead
      <3>3. /\ Served(t, u) /\ e \in Entry /\ e \in ToSet(plan[t].entries) /\ u \in Unit /\ u \in Nat
            /\ Source[e].lo \in Nat /\ Source[e].hi \in Nat /\ Source[e].lo <= u /\ u < Source[e].hi
        BY <2>2, <3>1, <3>2, ReadersAre
      <3>4. CASE cache' = cache
        BY <2>2, <3>3, <3>4 DEF Served, Present
      <3>5. CASE PruneRanges(s) /\ to \notin Reading
        <4>1. pc[s] = "pruning" /\ t # s
          BY <2>4, <2>6, <3>5 DEF PruneRanges, ShardStep, MayRead
        <4>2. /\ t \in slots
              /\ \A x \in slots : Sources(ToSet(plan[x].entries)) \subseteq snap[s]
          BY <2>2, <3>1, <4>1 DEF Slots, Reading
        <4>3. Source[e] \in snap[s]
          BY <3>3, <4>2 DEF Sources
        <4>4. PICK stuck : cache' = Pruned(snap[s], stuck)
          BY <3>5 DEF PruneRanges
        <4>5. \A r \in cache : u \in Units(r) => r \in cache'
          BY <1>3, <3>3, <4>3, <4>4, NeededSurvives
        <4>6. QED
          BY <2>2, <3>3, <4>5 DEF Served, Present
      <3>6. QED
        BY <2>4, <3>4, <3>5
    <2>7. QED
      BY <1>1, <2>6, ReadersNext
  <1>12. CASE RetainSteps
    <2>1. PICK v \in Volume : RetainActs(v) /\ RetainReady(v)
      BY <1>12, RetainFrame
    <2>2. phase = "extract" /\ UNCHANGED <<phase, plan, pc, todo, fetches, broken>>
      BY <1>12, RetainFrame
    <2>3. registered \subseteq registered'
      BY <2>1 DEF RetainActs, RetainPresent, RetainWrite, RetainSync, RetainWrong, RetainCommit,
                  RetainMark, RetainPrune, RetainStep
    <2>4. cache' = cache \/ RetainPrune(v)
      BY <2>1 DEF RetainActs, RetainPresent, RetainWrite, RetainSync, RetainWrong, RetainCommit,
                  RetainMark, RetainStep, disk
    <2>5. ASSUME NEW t \in Shard', MayRead(t)', NEW e \in ToSet(todo'[t]), NEW u \in Units(Source[e])
          PROVE  u \in Unit /\ Served(t, u)'
      <3>1. t \in Shard /\ MayRead(t) /\ e \in ToSet(todo[t])
        BY <2>2, <2>5 DEF Shard, MayRead
      <3>2. /\ Served(t, u) /\ e \in Entry /\ e \in ToSet(plan[t].entries) /\ u \in Unit /\ u \in Nat
        BY <2>2, <3>1, ReadersAre
      <3>3. CASE cache' = cache
        BY <2>2, <2>3, <3>2, <3>3 DEF Served, Present
      <3>4. CASE RetainPrune(v)
        <4> DEFINE w == VolumeOf[u]
        <4>1. w \in Volume /\ VolumeStart(w) <= u /\ u < VolumeEnd[w]
          BY <3>2, VolumeOfUnit
        <4>2. VolumeStart(w) \in Nat /\ VolumeEnd[w] \in Nat
          BY <4>1, Layout
        <4>3. SourcesValid
          BY <3>1, PlanIs
        <4>4. w \in VolumesOf[e]
          BY <3>2, <4>3, VolumesOfEntry
        <4> HIDE DEF w
        <4>5. t \in Readers(w)
          BY <3>1, <3>2, <4>4 DEF Readers
        <4>6. pc[t] # "ok"
          BY <3>1 DEF MayRead, Reading
        <4>7. retain[w] = "wait"
          BY <4>1, <4>5, <4>6 DEF SavedVolumes
        <4>8. w \notin saved /\ retain[v] = "marked"
          BY <3>4, <4>7 DEF SavedVolumes, RetainPrune
        <4>9. WholeVolume(w) \in snapV[v]
          BY <4>1, <4>8 DEF SavedVolumes
        <4>10. PICK stuck : cache' = Pruned(snapV[v], stuck)
          BY <3>4 DEF RetainPrune
        <4> DEFINE n == WholeVolume(w)
        <4>11. n \in snapV[v] /\ n.lo = VolumeStart(w) /\ n.hi = VolumeEnd[w]
          BY <4>9 DEF WholeVolume
        <4> HIDE DEF n
        <4>12. \A r \in cache : u \in Units(r) => r \in cache'
          BY <1>3, <3>2, <4>1, <4>2, <4>10, <4>11, NeededSurvives
        <4>13. QED
          BY <2>2, <2>3, <3>2, <4>12 DEF Served, Present
      <3>5. QED
        BY <2>4, <3>3, <3>4
    <2>6. QED
      BY <1>1, <2>5, ReadersNext
  <1>13. CASE FinishArchive
    BY <1>2, <1>13 DEF FinishArchive
  <1>14. QED
    BY <1>5, <1>6, <1>7, <1>8, <1>9, <1>10, <1>11, <1>12, <1>13, StepKinds

LEMMA Consequences ==
  ASSUME IInv
  PROVE  TypeOK /\ ReadersKeepRanges /\ StagingWhileExtracting /\ ControlsLast /\ PlanExact
  <1>1. Types /\ Phases /\ Staged /\ ReadersKeepRanges /\ ControlsLast
    BY DEF IInv
  <1>2. TypeOK
    BY <1>1 DEF Types
  <1>3. StagingWhileExtracting
    <2>1. ASSUME NEW s \in Shard, pc[s] = "extracting", ~failed
          PROVE  prepared /\ staging
      <3>1. phase = "extract"
        BY <1>1, <2>1 DEF Phases
      <3>2. QED
        BY <1>1, <2>1, <3>1 DEF Staged
    <2>2. QED
      BY <2>1 DEF StagingWhileExtracting
  <1>4. RangesExact
    BY <1>1, <1>2, ExactRanges DEF Types, TypeOK, Layouts
  <1>5. phase = "controls" => ShardsExact
    BY <1>1, ExactShards DEF Phases
  <1>6. QED
    BY <1>1, <1>2, <1>3, <1>4, <1>5 DEF PlanExact

-----------------------------------------------------------------------------
(* The theorems. *)

\* The inductive invariant of one archive's run, over every later run that starts from what a crash
\* or a failure left in the range cache and on disk.
THEOREM ArchiveInvariant == Spec => []IInv
  <1>1. Init => IInv
    BY InitHolds
  <1>2. IInv /\ [Next]_vars => IInv'
    <2> SUFFICES ASSUME IInv, [Next]_vars PROVE IInv'
      OBVIOUS
    <2>1. /\ Types /\ Phases /\ Slots /\ SavedVolumes /\ Staged /\ Extracted
          /\ ReadersKeepRanges /\ ControlsLast
      BY DEF IInv
    <2>2. Types' /\ Phases'
      BY <2>1, TypesStep, PhasesStep
    <2>3. Slots' /\ SavedVolumes' /\ Staged'
      BY <2>1, SlotsStep, SavedVolumesStep, StagedStep
    <2>4. Extracted' /\ ReadersKeepRanges' /\ ControlsLast'
      BY <2>1, ExtractedStep, ReadersStep, ControlsStep
    <2>5. QED
      BY <2>2, <2>3, <2>4 DEF IInv
  <1>3. QED
    BY <1>1, <1>2, PTL DEF Spec

\* Every volume, range, shard and entry of an archive is in a state the code knows, and the count of
\* active shards in ArchiveShardRunState is at most the number of shards.
THEOREM ArchiveTypes == Spec => []TypeOK
  <1>1. IInv => TypeOK
    BY Consequences
  <1>2. QED
    BY <1>1, ArchiveInvariant, PTL

\* No prune takes a range away from a shard that may still read it: neither finish_shard's, with its
\* note of what the other shards need taken before the lock was released, nor that of a saved volume,
\* whatever shards, fetches and volume savers do in between.
THEOREM ReadersSafe == Spec => []ReadersKeepRanges
  <1>1. IInv => ReadersKeepRanges
    BY Consequences
  <1>2. QED
    BY <1>1, ArchiveInvariant, PTL

\* try_begin, its second look at the failure, finish and cleanup_prepared leave the staging directory
\* alone as long as no shard has failed.
THEOREM StagingSafe == Spec => []StagingWhileExtracting
  <1>1. IInv => StagingWhileExtracting
    BY Consequences
  <1>2. QED
    BY <1>1, ArchiveInvariant, PTL

\* finish_archive commits the deferred control files after every other entry of the package, on every
\* path through the graph: with a kept archive it waits for the volumes only, whose savers wait for
\* the shards.
THEOREM ControlFilesLast == Spec => []ControlsLast
  <1>1. IInv => ControlsLast
    BY Consequences
  <1>2. QED
    BY <1>1, ArchiveInvariant, PTL

\* missing_range_requests, range_covered and extraction_shards_for_indices are exact in every state of
\* the range cache that a run, a failed run or a crash can leave.
THEOREM PlanIsExact == Spec => []PlanExact
  <1>1. IInv => PlanExact
    BY Consequences
  <1>2. QED
    BY <1>1, ArchiveInvariant, PTL
=============================================================================
