--------------------------- MODULE PatchApplyProofs ---------------------------
(***************************************************************************)
(* Proofs about PatchApply for every set of files and entries, every diff  *)
(* and size, every option of roots and any number of crashes and faults.   *)
(***************************************************************************)
EXTENDS PatchApply, FiniteSetTheorems, SequenceTheorems, WellFoundedInduction, TLAPS

Running == mode \in {"graph", "serial"}
Linked == {"owner", "layout", "top", "early", "entries", "deferred", "stage", "state"}
Before == {"extract", "relocate", "owner", "layout", "top", "early", "entries"}

\* Every entry of a plan has a source, a diff's base is a file.
Plans == {p \in [kind : [Entries -> {"present", "local", "hdiff"}],
                 base : [Entries -> File \cup {"none"}]] :
            \A e \in Entries : p.kind[e] = "hdiff" => p.base[e] \in File}

Types ==
  /\ TypeOK
  /\ plan # NoPlan => plan \in Plans
  /\ \A f \in File : "new" \in Present(f) => f \in Entries

\* Where a command can be, and that a plan lives as long as what was staged for it.
Modes ==
  /\ mode \in {"idle", "finished"} => step = "none"
  /\ mode = "discard" => step = "state"
  /\ Running => step \in {"extract", "relocate"} \cup Linked
  /\ Running /\ step # "state" => plan # NoPlan
  /\ plan = NoPlan \/ step = "state" => staged = {}
  /\ step = "extract" => todo \subseteq Payloads(plan) \cup {"config"}
  /\ step \notin {"entries", "deferred", "stage", "state"} => temps = {} /\ made = {} /\ done = {}

\* A file is moved by a copy that is equal, and what is left to move is what is still there.
Roots ==
  /\ link => external
  /\ external /\ ~link => \A f \in File : ext[f] = "absent" \/ inst[f] \in {"absent", ext[f]}
  /\ Going("relocate") =>
       todo = {f \in File : external /\ ~link /\ inst[f] # "absent"}
  /\ Running /\ step \in Linked => link = external

\* config.ini is staged, then deferred, before the entries begin.
ConfigWaits ==
  Running /\ hasConfig =>
    /\ step = "extract" => deferred \/ "config" \in staged \cup todo
    /\ step \in {"relocate", "owner", "layout", "top"} => deferred \/ "config" \in staged
    /\ step \in {"early", "entries", "deferred"} => deferred

\* What a file holds, wherever the move of the asset tree has got to.
Now(f) == IF external /\ ~link /\ inst[f] # "absent" THEN inst[f] ELSE Destination(f)

\* An entry that is not applied yet is there or has its payload and its base.
Supplied(e) ==
  \/ Now(e) = "new"
  \/ /\ plan.kind[e] \in {"local", "hdiff"}
     /\ e \in staged \/ (step = "extract" /\ e \in todo)
     /\ plan.kind[e] = "hdiff" => Now(plan.base[e]) = "old"

Supply == Running /\ step \in Before => \A e \in Entries \ (done \cup made) : Supplied(e)

\* Applied entries are in place, and who begins has no reader left.
Work ==
  Going("entries") =>
    /\ \A e \in done \cup made : Destination(e) = "new"
    /\ \A e \in temps : DependsOn(plan)[e] \subseteq done

Complete ==
  /\ link = external
  /\ \A e \in Entries : Destination(e) = "new"
  /\ \A f \in Deleted \ Entries : Destination(f) = "absent"

\* Everything is in place before config.ini is committed, and stays so.
Ends ==
  /\ Running /\ step \in {"deferred", "stage", "state"} => Complete
  /\ config = "new" => Complete

IInv == Types /\ Modes /\ Roots /\ ConfigWaits /\ Supply /\ Work /\ Ends

-----------------------------------------------------------------------------
(* Plans. *)

\* The first of some indices is one of them.
LEMMA MinIsIn ==
  ASSUME NEW S \in SUBSET Nat, S # {}
  PROVE  Min(S) \in S /\ \A m \in S : Min(S) <= m
  <1> DEFINE R == OpToRel(<, Nat)
  <1>1. PICK n \in S : \A m \in S : ~ (<<m, n>> \in R)
    <2>1. IsWellFoundedOn(R, Nat)
      BY NatLessThanWellFounded
    <2> HIDE DEF R
    <2>2. QED
      BY <2>1, WFMin
  <1>2. ASSUME NEW m \in S
        PROVE  n <= m
    <2>1. n \in Nat /\ m \in Nat
      OBVIOUS
    <2>2. m < n => <<m, n>> \in R
      BY <2>1 DEF OpToRel
    <2>3. ~ (<<m, n>> \in R)
      BY <1>1
    <2> HIDE DEF R
    <2>4. QED
      BY <2>1, <2>2, <2>3
  <1>3. QED
    BY <1>2 DEF Min

\* What holds of 0, and of n + 1 if of n, holds of every number.
LEMMA Numbers ==
  ASSUME NEW P \in SUBSET Nat, 0 \in P, \A n \in P : n + 1 \in P
  PROVE  P = Nat
  <1>1. SUFFICES ASSUME Nat \ P # {} PROVE FALSE
    OBVIOUS
  <1>2. PICK n \in Nat \ P : \A m \in Nat \ P : n <= m
    BY <1>1, MinIsIn
  <1>3. n # 0 /\ n - 1 \in Nat /\ ~ (n <= n - 1) /\ (n - 1) + 1 = n
    BY <1>2
  <1>4. n - 1 \in P
    BY <1>2, <1>3
  <1>5. QED
    BY <1>2, <1>3, <1>4

\* Every file of an install is absent, old or new.
LEMMA TreeTypes ==
  ASSUME TypeOK
  PROVE  /\ inst \in [File -> {"absent", "old", "new"}]
         /\ ext \in [File -> {"absent", "old", "new"}]
         /\ external \in BOOLEAN /\ work \in BOOLEAN /\ hasConfig \in BOOLEAN /\ link \in BOOLEAN
         /\ \A f \in File : /\ Destination(f) \in {"absent", "old", "new"}
                            /\ Logical(f) \in {"absent", "old", "new"}
  BY DEF TypeOK, Destination, Logical

LEMMA EntryFacts ==
  /\ Entries \subseteq File /\ LocalEntry \subseteq Entries /\ IsFiniteSet(Entries)
  /\ "config" \notin File /\ "config" \notin Entries
  <1>1. Entry \in Seq(File)
    BY PatchAssumption
  <1>2. /\ Entry \in [1 .. Len(Entry) -> File]
        /\ Entries = {Entry[i] : i \in 1 .. Len(Entry)}
        /\ Entries \subseteq File
    BY <1>1 DEF Entries, ToSet
  <1>3. IsFiniteSet(Entries)
    <2>1. Len(Entry) \in Nat /\ IsFiniteSet(1 .. Len(Entry))
      BY <1>1, FS_Interval
    <2>2. Entry \in Surjection(1 .. Len(Entry), Entries)
      BY <1>2 DEF Surjection
    <2>3. QED
      BY <2>1, <2>2, FS_Surjection
  <1>4. QED
    BY <1>1, <1>2, <1>3, PatchAssumption

\* A patch the check accepts gets a plan: an entry that is not there has a payload, and a valid base
\* if it is a diff.
LEMMA PlannedFacts ==
  ASSUME TypeOK, Plannable
  PROVE  /\ Planned \in Plans /\ Planned # NoPlan
         /\ \A e \in Entries : \/ Logical(e) = "new"
                               \/ /\ Planned.kind[e] \in {"local", "hdiff"}
                                  /\ Planned.kind[e] = "hdiff" => Logical(Planned.base[e]) = "old"
         /\ Deleted \cap Entries = {}
  <1>1. ASSUME NEW e \in Entries
        PROVE  /\ Kind(e) \in {"present", "local", "hdiff"}
               /\ Kind(e) = "present" => Logical(e) = "new"
               /\ Kind(e) = "hdiff" => e \in Entries \ LocalEntry /\ ValidBases(e) # {}
    BY EntryFacts DEF Plannable, Kind
  <1>2. ASSUME NEW e \in Entries, Kind(e) = "hdiff"
        PROVE  /\ Diffs[e][Min(ValidBases(e))] \in File
               /\ Logical(Diffs[e][Min(ValidBases(e))]) = "old"
    <2>1. Diffs[e] \in Seq(File)
      BY <1>1, <1>2, PatchAssumption
    <2>2. ValidBases(e) \in SUBSET Nat /\ ValidBases(e) # {}
      BY <1>1, <1>2, <2>1 DEF ValidBases
    <2>3. Min(ValidBases(e)) \in ValidBases(e)
      BY <2>2, MinIsIn
    <2> DEFINE i == Min(ValidBases(e))
    <2>4. i \in DOMAIN Diffs[e] /\ Logical(Diffs[e][i]) = "old"
      BY <2>3 DEF ValidBases
    <2> HIDE DEF i
    <2>5. Diffs[e][i] \in File
      BY <2>1, <2>4
    <2>6. QED
      BY <2>4, <2>5 DEF i
  <1>3. /\ Planned.kind = [e \in Entries |-> Kind(e)]
        /\ Planned.base = [e \in Entries |->
                             IF Kind(e) = "hdiff" THEN Diffs[e][Min(ValidBases(e))] ELSE "none"]
        /\ Planned = [kind |-> Planned.kind, base |-> Planned.base]
    BY DEF Planned
  <1>4. Planned.base \in [Entries -> File \cup {"none"}]
    BY <1>2, <1>3
  <1>5. Planned.kind \in [Entries -> {"present", "local", "hdiff"}]
    BY <1>1, <1>3
  <1>6. Planned \in Plans
    BY <1>2, <1>3, <1>4, <1>5 DEF Plans
  <1>7. Planned # NoPlan
    BY <1>3 DEF NoPlan
  <1>8. QED
    BY <1>1, <1>2, <1>3, <1>6, <1>7 DEF Plannable

\* Removing files empties their destinations and touches nothing else.
LEMMA RemovedFacts ==
  ASSUME TypeOK, NEW S \in SUBSET File, RemoveFiles(S), UNCHANGED external
  PROVE  /\ inst' \in [File -> {"absent", "old", "new"}]
         /\ ext' \in [File -> {"absent", "old", "new"}]
         /\ UNCHANGED <<link, layout>>
         /\ \A f \in File : Destination(f)' = IF f \in S THEN "absent" ELSE Destination(f)
         /\ \A f \in File : inst'[f] \in {"absent", inst[f]} /\ ext'[f] \in {"absent", ext[f]}
         /\ \A f \in File \ S : inst'[f] = inst[f] /\ ext'[f] = ext[f]
  BY TreeTypes DEF RemoveFiles, Destination

-----------------------------------------------------------------------------
(* Waves. *)

LEMMA MaxIsIn ==
  ASSUME NEW n \in Nat, NEW S \in SUBSET (1 .. n), S # {}
  PROVE  Max(S) \in S /\ \A m \in S : Max(S) >= m
  <1> DEFINE T == {n - m : m \in S}
  <1>1. T \in SUBSET Nat /\ T # {}
    <2>1. \A m \in S : n - m \in Nat
      OBVIOUS
    <2>2. QED
      BY <2>1
  <1>2. PICK m \in S : n - m = Min(T)
    <2> HIDE DEF T
    <2>1. Min(T) \in T
      BY <1>1, MinIsIn
    <2>2. QED
      BY <2>1 DEF T
  <1>3. ASSUME NEW k \in S
        PROVE  m >= k
    <2>1. n - k \in T
      OBVIOUS
    <2> HIDE DEF T
    <2>2. n - m <= n - k
      BY <1>1, <1>2, <2>1, MinIsIn
    <2>3. m \in Nat /\ k \in Nat
      OBVIOUS
    <2>4. QED
      BY <2>2, <2>3
  <1>4. QED
    BY <1>3 DEF Max

\* What the waves w hold together.
Gone(w) == UNION {w[i] : i \in DOMAIN w}

\* The waves of w before the i-th.
Earlier(w, i) == UNION {w[j] : j \in 1 .. i - 1}

\* entry_wave_indices so far: the counts are those of the dependencies that are left, what is ready
\* is what has none, and every wave holds just what comes next.
Counting(deps, acc) ==
  /\ acc = [indegree |-> acc.indegree, ready |-> acc.ready, waves |-> acc.waves]
  /\ acc.indegree = [w \in Entries |-> Cardinality(deps[w] \ Gone(acc.waves))]
  /\ acc.waves \in Seq(SUBSET Entries)
  /\ acc.ready = {w \in Entries : deps[w] \subseteq Gone(acc.waves)} \ Gone(acc.waves)
  /\ \A w \in Gone(acc.waves) : deps[w] \subseteq Gone(acc.waves)
  /\ \A i \in DOMAIN acc.waves :
       /\ acc.waves[i] # {}
       /\ acc.waves[i] = {w \in Entries : deps[w] \subseteq Earlier(acc.waves, i)}
                           \ Earlier(acc.waves, i)

\* Without some of its elements a finite set has that many less.
LEMMA CountLess ==
  ASSUME NEW S, IsFiniteSet(S), NEW T \in SUBSET S
  PROVE  Cardinality(S \ T) = Cardinality(S) - Cardinality(T)
  <1>1. IsFiniteSet(T) /\ IsFiniteSet(S \ T)
    BY FS_Subset
  <1>2. /\ Cardinality(T) \in Nat /\ Cardinality(S \ T) \in Nat /\ Cardinality(S) \in Nat
    BY <1>1, FS_CardinalityType
  <1>3. T \cup (S \ T) = S /\ T \cap (S \ T) = {}
    OBVIOUS
  <1>4. Cardinality(S) = Cardinality(T) + Cardinality(S \ T) - Cardinality({})
    BY <1>1, <1>3, FS_Union
  <1>5. Cardinality({}) = 0
    BY FS_EmptySet
  <1>6. QED
    BY <1>2, <1>4, <1>5

\* One wave more.
LEMMA WaveStepCounts ==
  ASSUME NEW deps \in [Entries -> SUBSET Entries], NEW acc, Counting(deps, acc)
  PROVE  /\ Counting(deps, WaveStep(deps, acc))
         /\ acc.ready = {} => WaveStep(deps, acc) = acc
         /\ acc.ready # {} => Len(WaveStep(deps, acc).waves) = Len(acc.waves) + 1
  <1>1. CASE acc.ready = {}
    BY <1>1 DEF WaveStep
  <1>2. CASE acc.ready # {}
    <2> DEFINE G == Gone(acc.waves)
               R == acc.ready
               indegree == [w \in Entries |-> acc.indegree[w] - Cardinality(deps[w] \cap R)]
               hit == {w \in Entries : deps[w] \cap R # {}}
               ready == {w \in hit : indegree[w] = 0}
               waves == Append(acc.waves, R)
    <2>1. /\ WaveStep(deps, acc) = [indegree |-> indegree, ready |-> ready, waves |-> waves]
          /\ DOMAIN deps = Entries
      BY <1>2 DEF WaveStep
    <2>2. /\ R = {w \in Entries : deps[w] \subseteq G} \ G
          /\ \A w \in R \cup G : deps[w] \subseteq G
          /\ acc.waves \in Seq(SUBSET Entries)
          /\ acc.indegree = [w \in Entries |-> Cardinality(deps[w] \ G)]
      BY DEF Counting
    <2>3. /\ waves \in Seq(SUBSET Entries) /\ Len(waves) = Len(acc.waves) + 1
          /\ \A i \in 1 .. Len(acc.waves) : waves[i] = acc.waves[i]
          /\ waves[Len(acc.waves) + 1] = R
          /\ Len(acc.waves) \in Nat
      BY <2>2
    <2>4. G = UNION {acc.waves[i] : i \in 1 .. Len(acc.waves)}
      BY <2>2 DEF Gone
    <2>5. Gone(waves) = G \cup R
      <3>1. DOMAIN waves = 1 .. Len(acc.waves) + 1
        BY <2>3
      <3> HIDE DEF waves, G, R
      <3>2. QED
        BY <2>3, <2>4, <3>1, SMTT(30) DEF Gone
    <2> HIDE DEF G, R, waves
    <2>6. ASSUME NEW w \in Entries
          PROVE  /\ indegree[w] = Cardinality(deps[w] \ (G \cup R))
                 /\ indegree[w] = 0 => deps[w] \subseteq G \cup R
      <3>1. deps[w] \subseteq Entries /\ IsFiniteSet(deps[w] \ G) /\ IsFiniteSet(deps[w] \ (G \cup R))
        BY EntryFacts, FS_Subset
      <3>2. deps[w] \cap R \in SUBSET (deps[w] \ G)
            /\ (deps[w] \ G) \ (deps[w] \cap R) = deps[w] \ (G \cup R)
        BY <2>2
      <3>3. indegree[w] = Cardinality(deps[w] \ (G \cup R))
        BY <2>2, <3>1, <3>2, CountLess
      <3>4. QED
        BY <3>1, <3>3, FS_EmptySet
    <2>7. ready = {w \in Entries : deps[w] \subseteq G \cup R} \ (G \cup R)
      <3>1. ASSUME NEW w \in ready
            PROVE  w \in Entries \ (G \cup R) /\ deps[w] \subseteq G \cup R
        BY <2>2, <2>6, <3>1
      <3>2. ASSUME NEW w \in Entries \ (G \cup R), deps[w] \subseteq G \cup R
            PROVE  w \in ready
        <4>1. deps[w] \ (G \cup R) = {}
          BY <3>2
        <4>2. indegree[w] = 0
          BY <2>6, <4>1, FS_EmptySet
        <4>3. deps[w] \cap R # {}
          BY <2>2, <3>2
        <4>4. QED
          BY <4>2, <4>3
      <3>3. QED
        BY <3>1, <3>2
    <2>8. ASSUME NEW i \in DOMAIN waves
          PROVE  /\ waves[i] # {}
                 /\ waves[i] = {w \in Entries : deps[w] \subseteq Earlier(waves, i)}
                                 \ Earlier(waves, i)
      <3>1. i \in 1 .. Len(acc.waves) + 1
        BY <2>3
      <3>2. Earlier(waves, i) = Earlier(acc.waves, i)
        <4>1. \A j \in 1 .. i - 1 : waves[j] = acc.waves[j]
          BY <2>3, <3>1
        <4>2. QED
          BY <4>1 DEF Earlier
      <3>3. CASE i \in 1 .. Len(acc.waves)
        <4>1. i \in DOMAIN acc.waves /\ waves[i] = acc.waves[i]
          BY <2>2, <2>3, <3>3
        <4>2. QED
          BY <3>2, <4>1 DEF Counting
      <3>4. CASE i = Len(acc.waves) + 1
        <4>1. G = Earlier(acc.waves, i)
          BY <2>3, <2>4, <3>4 DEF Earlier
        <4>2. QED
          BY <1>2, <2>2, <2>3, <3>2, <3>4, <4>1 DEF R
      <3>5. QED
        BY <3>1, <3>3, <3>4
    <2>9. indegree = [w \in Entries |-> Cardinality(deps[w] \ Gone(waves))]
      BY <2>5, <2>6
    <2>10. \A w \in Gone(waves) : deps[w] \subseteq Gone(waves)
      BY <2>2, <2>5
    <2> HIDE DEF indegree, ready
    <2>11. QED
      BY <1>2, <2>1, <2>3, <2>5, <2>7, <2>8, <2>9, <2>10, SMTT(30) DEF Counting
  <1>3. QED
    BY <1>1, <1>2

\* The count-down of entry_wave_indices ends when nothing is ready or with one wave per entry.
LEMMA WavesCounted ==
  ASSUME NEW deps \in [Entries -> SUBSET Entries]
  PROVE  \E acc : /\ Waves(deps) = acc.waves
                  /\ Counting(deps, acc)
                  /\ acc.ready = {} \/ Len(acc.waves) = Cardinality(Entries)
  <1> DEFINE n == Cardinality(DOMAIN deps)
             base == [indegree |-> [x \in DOMAIN deps |-> Cardinality(deps[x])],
                      ready |-> {x \in DOMAIN deps : deps[x] = {}}, waves |-> <<>>]
             D == DOMAIN [k \in 1 .. n |-> k]
             Eq(f) == f = [s \in SUBSET D |->
                             IF s = {} THEN base ELSE WaveStep(deps, f[s \ {Max(s)}])]
             iter == CHOOSE f : Eq(f)
  <1>1. Waves(deps) = iter[D].waves
    BY DEF Waves, FoldLeft, MapThenFoldSet
  <1>2. n \in Nat /\ D = 1 .. n /\ DOMAIN deps = Entries
    BY EntryFacts, FS_CardinalityType
  <1> HIDE DEF base, D, n
  <1>3. ASSUME NEW s \in SUBSET D
        PROVE  /\ IsFiniteSet(s) /\ Cardinality(s) \in Nat
               /\ s # {} => /\ Cardinality(s) # 0 /\ s \ {Max(s)} \in SUBSET D
                            /\ Cardinality(s \ {Max(s)}) = Cardinality(s) - 1
    <2>1. IsFiniteSet(s) /\ Cardinality(s) \in Nat
      <3>1. IsFiniteSet(D)
        BY <1>2, FS_Interval
      <3>2. IsFiniteSet(s)
        BY <3>1, FS_Subset
      <3>3. QED
        BY <3>2, FS_CardinalityType
    <2>2. s # {} => Max(s) \in s
      BY <1>2, MaxIsIn
    <2>3. QED
      BY <2>1, <2>2, FS_RemoveElement, FS_EmptySet
  <1>4. \E f : Eq(f)
    <2> DEFINE Chain(g, k) == /\ g[0] = base
                              /\ \A m \in 0 .. k - 1 : g[m + 1] = WaveStep(deps, g[m])
               Q == {k \in Nat : \E g : Chain(g, k)}
    <2>1. 0 \in Q
      <3>1. Chain([m \in {0} |-> base], 0)
        OBVIOUS
      <3>2. QED
        BY <3>1
    <2>2. ASSUME NEW k \in Q PROVE k + 1 \in Q
      <3>1. PICK g : Chain(g, k)
        OBVIOUS
      <3> DEFINE h == [m \in 0 .. k + 1 |-> IF m <= k THEN g[m] ELSE WaveStep(deps, g[k])]
      <3>2. h[0] = base
        BY <3>1
      <3>3. ASSUME NEW m \in 0 .. (k + 1) - 1 PROVE h[m + 1] = WaveStep(deps, h[m])
        <4>1. m \in 0 .. k /\ h[m] = g[m]
          OBVIOUS
        <4>2. CASE m = k
          BY <4>1, <4>2
        <4>3. CASE m # k
          <5>1. m \in 0 .. k - 1 /\ h[m + 1] = g[m + 1]
            BY <4>1, <4>3
          <5>2. QED
            BY <3>1, <4>1, <5>1
        <4>4. QED
          BY <4>2, <4>3
      <3> HIDE DEF h
      <3>4. QED
        BY <3>2, <3>3
    <2>3. Q = Nat
      <3>1. Q \in SUBSET Nat /\ \A k \in Q : k + 1 \in Q
        BY <2>2
      <3> HIDE DEF Q
      <3>2. QED
        BY <2>1, <3>1, Numbers
    <2>4. PICK g : Chain(g, n)
      BY <1>2, <2>3
    <2> DEFINE f == [s \in SUBSET D |-> g[Cardinality(s)]]
    <2>5. ASSUME NEW s \in SUBSET D, s # {}
          PROVE  f[s] = WaveStep(deps, f[s \ {Max(s)}])
      <3>1. Cardinality(s) <= n
        <4>1. IsFiniteSet(1 .. n) /\ Cardinality(1 .. n) = n
          BY <1>2, FS_Interval
        <4>2. QED
          BY <1>2, <4>1, FS_Subset
      <3> DEFINE c == Cardinality(s)
      <3>2. c \in Nat /\ c # 0
        BY <1>3, <2>5
      <3>3. c - 1 \in 0 .. n - 1 /\ (c - 1) + 1 = c
        <4> HIDE DEF c
        <4>1. c <= n
          BY <3>1 DEF c
        <4>2. QED
          BY <1>2, <3>2, <4>1
      <3>4. g[Cardinality(s)] = WaveStep(deps, g[Cardinality(s) - 1])
        BY <2>4, <3>3
      <3>5. f[s] = g[Cardinality(s)] /\ f[s \ {Max(s)}] = g[Cardinality(s) - 1]
        BY <1>3, <2>5
      <3>6. QED
        BY <3>4, <3>5
    <2>6. f[{}] = base
      BY <2>4, FS_EmptySet
    <2>7. f = [s \in SUBSET D |-> IF s = {} THEN base ELSE WaveStep(deps, f[s \ {Max(s)}])]
      <3>1. f = [s \in SUBSET D |-> f[s]]
        OBVIOUS
      <3>2. \A s \in SUBSET D : f[s] = IF s = {} THEN base ELSE WaveStep(deps, f[s \ {Max(s)}])
        BY <2>5, <2>6
      <3> HIDE DEF f
      <3>3. QED
        BY <3>1, <3>2
    <2>8. QED
      BY <2>7
  <1>5. Eq(iter)
    BY <1>4
  <1>6. /\ iter[{}] = base
        /\ \A s \in SUBSET D : s # {} => iter[s] = WaveStep(deps, iter[s \ {Max(s)}])
    <2> HIDE DEF iter
    <2>1. iter = [s \in SUBSET D |-> IF s = {} THEN base ELSE WaveStep(deps, iter[s \ {Max(s)}])]
      BY <1>5
    <2>2. QED
      BY <2>1
  <1> HIDE DEF iter, Eq
  <1>7. Counting(deps, base) /\ Len(base.waves) = 0
    <2>1. Gone(base.waves) = {}
      BY DEF Gone, base
    <2>2. \A x \in Entries : /\ deps[x] \ {} = deps[x]
                             /\ deps[x] \subseteq {} <=> deps[x] = {}
      OBVIOUS
    <2>3. /\ base = [indegree |-> base.indegree, ready |-> base.ready, waves |-> base.waves]
          /\ base.waves = <<>>
          /\ base.indegree = [x \in Entries |-> Cardinality(deps[x])]
          /\ base.ready = {x \in Entries : deps[x] = {}}
      BY <1>2 DEF base
    <2>4. base.indegree = [x \in Entries |-> Cardinality(deps[x] \ {})]
      BY <2>2, <2>3
    <2>5. base.ready = {x \in Entries : deps[x] \subseteq {}} \ {}
      BY <2>2, <2>3
    <2>6. /\ base.waves \in Seq(SUBSET Entries) /\ DOMAIN base.waves = {} /\ Len(base.waves) = 0
      BY <2>3
    <2> HIDE DEF base
    <2>7. QED
      BY <2>1, <2>3, <2>4, <2>5, <2>6 DEF Counting
  <1> DEFINE Good(s) == /\ Counting(deps, iter[s])
                        /\ iter[s].ready = {} \/ Len(iter[s].waves) = Cardinality(s)
             Q == {k \in Nat : \A s \in SUBSET D : Cardinality(s) <= k => Good(s)}
  <1>8. 0 \in Q
    <2>1. ASSUME NEW s \in SUBSET D, Cardinality(s) <= 0
          PROVE  Good(s)
      <3>1. Cardinality(s) = 0
        <4>1. Cardinality(s) \in Nat
          BY <1>3
        <4>2. QED
          BY <2>1, <4>1
      <3>2. s = {}
        BY <1>3, <3>1
      <3>3. QED
        BY <1>6, <1>7, <3>1, <3>2
    <2>2. QED
      BY <2>1
  <1>9. ASSUME NEW k \in Q PROVE k + 1 \in Q
    <2>1. ASSUME NEW s \in SUBSET D, Cardinality(s) <= k + 1, s # {}
          PROVE  Good(s)
      <3> DEFINE t == s \ {Max(s)}
      <3>1. /\ Cardinality(s) \in Nat /\ Cardinality(t) = Cardinality(s) - 1
            /\ t \in SUBSET D /\ k \in Nat
        BY <1>3, <2>1
      <3> HIDE DEF t
      <3>2. Cardinality(t) <= k
        BY <2>1, <3>1
      <3>3. Good(t)
        BY <3>1, <3>2
      <3>4. iter[s] = WaveStep(deps, iter[t])
        BY <1>6, <2>1 DEF t
      <3>5. QED
        BY <3>1, <3>3, <3>4, WaveStepCounts
    <2>2. ASSUME NEW s \in SUBSET D, Cardinality(s) <= k + 1
          PROVE  Good(s)
      BY <1>6, <1>7, <2>1, <2>2, FS_EmptySet
    <2>3. QED
      BY <2>2
  <1>10. Q = Nat
    <2>1. Q \in SUBSET Nat /\ \A k \in Q : k + 1 \in Q
      BY <1>9
    <2> HIDE DEF Q
    <2>2. QED
      BY <1>8, <2>1, Numbers
  <1>11. Good(D)
    <2>1. D \in SUBSET D /\ Cardinality(D) \in Q
      BY <1>3, <1>10
    <2>2. Cardinality(D) <= Cardinality(D)
      <3>1. Cardinality(D) \in Nat
        BY <1>3
      <3>2. QED
        BY <3>1
    <2>3. QED
      BY <2>1, <2>2
  <1>12. Cardinality(D) = Cardinality(Entries)
    BY <1>2, <1>3, FS_Interval DEF n
  <1>13. QED
    BY <1>1, <1>11, <1>12

\* Every wave comes after what its entries depend on.
LEMMA WaveOrder ==
  ASSUME NEW deps \in [Entries -> SUBSET Entries], NEW i \in DOMAIN Waves(deps),
         NEW w \in Waves(deps)[i]
  PROVE  deps[w] \subseteq Earlier(Waves(deps), i)
  <1>1. PICK acc : Waves(deps) = acc.waves /\ Counting(deps, acc)
    BY WavesCounted
  <1>2. acc.waves[i] = {x \in Entries : deps[x] \subseteq Earlier(acc.waves, i)}
                         \ Earlier(acc.waves, i)
    BY <1>1 DEF Counting
  <1>3. QED
    BY <1>1, <1>2

\* The sum of the sizes of disjoint waves is the number of entries in them.
LEMMA SumOfWaves ==
  ASSUME NEW w \in Seq(SUBSET Entries), \A i, j \in DOMAIN w : i # j => w[i] \cap w[j] = {}
  PROVE  FoldLeft(LAMBDA n, x : n + Cardinality(x), 0, w) = Cardinality(Gone(w))
  <1> DEFINE D == DOMAIN w
             Eq(f) == f = [s \in SUBSET D |->
                             IF s = {} THEN 0 ELSE f[s \ {Max(s)}] + Cardinality(w[Max(s)])]
             iter == CHOOSE f : Eq(f)
             held(s) == UNION {w[j] : j \in s}
             count == [s \in SUBSET D |-> Cardinality(held(s))]
  <1>1. FoldLeft(LAMBDA n, x : n + Cardinality(x), 0, w) = iter[D]
    BY DEF FoldLeft, MapThenFoldSet
  <1>2. Len(w) \in Nat /\ D = 1 .. Len(w) /\ IsFiniteSet(D) /\ \A i \in D : w[i] \in SUBSET Entries
    BY FS_Interval
  <1> HIDE DEF D
  <1>3. ASSUME NEW s \in SUBSET D, s # {}
        PROVE  /\ Max(s) \in s /\ IsFiniteSet(s) /\ s \ {Max(s)} \in SUBSET D
               /\ Cardinality(s) \in Nat /\ Cardinality(s) # 0
               /\ Cardinality(s \ {Max(s)}) = Cardinality(s) - 1
    <2>1. Max(s) \in s /\ IsFiniteSet(s)
      BY <1>2, <1>3, MaxIsIn, FS_Subset
    <2>2. QED
      BY <1>3, <2>1, FS_CardinalityType, FS_RemoveElement, FS_EmptySet
  <1>4. ASSUME NEW s \in SUBSET D, s # {}
        PROVE  Cardinality(held(s)) = Cardinality(held(s \ {Max(s)})) + Cardinality(w[Max(s)])
    <2> DEFINE m == Max(s)
    <2>1. m \in D /\ m \in s
      BY <1>3, <1>4
    <2> HIDE DEF m
    <2>2. held(s) = held(s \ {m}) \cup w[m]
      BY <2>1
    <2>3. held(s \ {m}) \cap w[m] = {}
      <3>1. ASSUME NEW j \in s \ {m} PROVE w[j] \cap w[m] = {}
        <4>1. j \in DOMAIN w /\ m \in DOMAIN w /\ j # m
          BY <2>1 DEF D
        <4>2. QED
          BY <4>1
      <3>2. QED
        BY <3>1
    <2>4. IsFiniteSet(held(s \ {m})) /\ IsFiniteSet(w[m])
      <3>1. held(s \ {m}) \in SUBSET Entries /\ w[m] \in SUBSET Entries
        BY <1>2, <2>1
      <3>2. QED
        BY <3>1, EntryFacts, FS_Subset
    <2> HIDE DEF held
    <2>5. Cardinality(held(s)) = Cardinality(held(s \ {m})) + Cardinality(w[m]) - Cardinality({})
      <3>1. Cardinality(held(s \ {m}) \cup w[m]) =
              Cardinality(held(s \ {m})) + Cardinality(w[m]) - Cardinality(held(s \ {m}) \cap w[m])
        BY <2>4, FS_Union
      <3>2. QED
        BY <2>2, <2>3, <3>1
    <2>6. Cardinality(held(s \ {m})) \in Nat /\ Cardinality(w[m]) \in Nat /\ Cardinality({}) = 0
      BY <2>4, FS_CardinalityType, FS_EmptySet
    <2>7. QED
      BY <2>5, <2>6 DEF m
  <1>5. held({}) = {} /\ Cardinality({}) = 0
    BY FS_EmptySet
  <1> HIDE DEF held
  <1>6. Eq(iter)
    <2>1. \A s \in SUBSET D : count[s] = IF s = {} THEN 0
                                         ELSE count[s \ {Max(s)}] + Cardinality(w[Max(s)])
      BY <1>3, <1>4, <1>5
    <2>2. count = [s \in SUBSET D |-> count[s]]
      OBVIOUS
    <2> HIDE DEF count
    <2>3. Eq(count)
      BY <2>1, <2>2
    <2>4. QED
      BY <2>3
  <1>7. /\ iter[{}] = 0
        /\ \A s \in SUBSET D : s # {} => iter[s] = iter[s \ {Max(s)}] + Cardinality(w[Max(s)])
    <2> HIDE DEF iter
    <2>1. iter = [s \in SUBSET D |-> IF s = {} THEN 0 ELSE iter[s \ {Max(s)}] + Cardinality(w[Max(s)])]
      BY <1>6
    <2>2. QED
      BY <2>1
  <1> HIDE DEF iter, Eq, count
  <1> DEFINE Q == {k \in Nat : \A s \in SUBSET D :
                     Cardinality(s) = k => iter[s] = Cardinality(held(s))}
  <1>8. 0 \in Q
    BY <1>3, <1>5, <1>7
  <1>9. ASSUME NEW k \in Q PROVE k + 1 \in Q
    <2>1. ASSUME NEW s \in SUBSET D, Cardinality(s) = k + 1
          PROVE  iter[s] = Cardinality(held(s))
      <3> DEFINE t == s \ {Max(s)}
      <3>1. k \in Nat /\ s # {}
        <4>1. k \in Nat /\ k + 1 # 0
          OBVIOUS
        <4>2. QED
          BY <1>5, <2>1, <4>1
      <3>2. t \in SUBSET D /\ Cardinality(t) = k
        BY <1>3, <2>1, <3>1
      <3>3. iter[s] = iter[t] + Cardinality(w[Max(s)])
        BY <1>7, <3>1
      <3>4. Cardinality(held(s)) = Cardinality(held(t)) + Cardinality(w[Max(s)])
        BY <1>4, <3>1
      <3> HIDE DEF t
      <3>5. QED
        BY <3>2, <3>3, <3>4
    <2>2. QED
      BY <2>1
  <1>10. Q = Nat
    <2>1. Q \in SUBSET Nat /\ \A k \in Q : k + 1 \in Q
      BY <1>9
    <2> HIDE DEF Q
    <2>2. QED
      BY <1>8, <2>1, Numbers
  <1>11. Cardinality(D) \in Nat /\ D \in SUBSET D
    BY <1>2, FS_CardinalityType
  <1>12. iter[D] = Cardinality(held(D))
    BY <1>10, <1>11
  <1>13. QED
    BY <1>1, <1>12 DEF held, Gone, D

\* The waves are apart, and a graph without a cycle has every entry in one.
LEMMA WaveFacts ==
  ASSUME NEW deps \in [Entries -> SUBSET Entries], NEW w, w = Waves(deps)
  PROVE  /\ w \in Seq(SUBSET Entries) /\ Len(w) \in Nat /\ DOMAIN w = 1 .. Len(w)
         /\ Gone(w) \in SUBSET Entries
         /\ \A i \in DOMAIN w : w[i] \cap Earlier(w, i) = {}
         /\ \A i, j \in DOMAIN w : i # j => w[i] \cap w[j] = {}
         /\ Acyclic(deps) <=> Gone(w) = Entries
  <1>1. PICK acc : w = acc.waves /\ Counting(deps, acc)
    BY WavesCounted
  <1>2. /\ w \in Seq(SUBSET Entries) /\ Len(w) \in Nat /\ DOMAIN w = 1 .. Len(w)
        /\ Gone(w) \in SUBSET Entries
    BY <1>1 DEF Counting, Gone
  <1>3. \A i \in DOMAIN w : w[i] = {x \in Entries : deps[x] \subseteq Earlier(w, i)} \ Earlier(w, i)
    BY <1>1 DEF Counting
  <1>4. ASSUME NEW i \in DOMAIN w, NEW j \in DOMAIN w, i # j
        PROVE  w[i] \cap w[j] = {}
    <2>1. ASSUME NEW k \in DOMAIN w, NEW l \in DOMAIN w, k < l
          PROVE  w[k] \cap w[l] = {}
      <3>1. w[k] \subseteq Earlier(w, l)
        BY <1>2, <2>1 DEF Earlier
      <3>2. QED
        BY <1>3, <3>1
    <2>2. i < j \/ j < i
      BY <1>2, <1>4
    <2>3. QED
      BY <2>1, <2>2
  <1>5. Acyclic(deps) <=> Gone(w) = Entries
    <2>1. FoldLeft(LAMBDA n, x : n + Cardinality(x), 0, w) = Cardinality(Gone(w))
      BY <1>2, <1>4, SumOfWaves
    <2>2. Acyclic(deps) <=> Cardinality(Gone(w)) = Cardinality(Entries)
      BY <2>1 DEF Acyclic
    <2>3. QED
      BY <1>2, <2>2, EntryFacts, FS_Subset
  <1>6. QED
    BY <1>2, <1>3, <1>4, <1>5

\* entry_wave_indices and validate_acyclic on every dependency graph: each wave is what depends only
\* on earlier waves, none is empty, and a graph is refused exactly if some of its entries all wait for
\* one another.
THEOREM WavesAreExact == WavesExact
  <1> SUFFICES ASSUME NEW deps \in [Entries -> SUBSET Entries]
               PROVE  /\ \A i \in DOMAIN Waves(deps) :
                           /\ Waves(deps)[i] # {}
                           /\ Waves(deps)[i] = {x \in Entries : deps[x] \subseteq Earlier(Waves(deps), i)}
                                                 \ Earlier(Waves(deps), i)
                      /\ Acyclic(deps) <=>
                           \A S \in (SUBSET Entries) \ {{}} : \E x \in S : deps[x] \cap S = {}
    BY DEF WavesExact, Earlier
  <1> DEFINE w == Waves(deps)
             G == Gone(w)
  <1>1. PICK acc : /\ w = acc.waves /\ Counting(deps, acc)
                   /\ acc.ready = {} \/ Len(w) = Cardinality(Entries)
    BY WavesCounted
  <1> HIDE DEF w
  <1>2. /\ w \in Seq(SUBSET Entries) /\ Len(w) \in Nat /\ DOMAIN w = 1 .. Len(w)
        /\ G \in SUBSET Entries
        /\ acc.ready = {x \in Entries : deps[x] \subseteq G} \ G
    BY <1>1 DEF Counting, Gone
  <1>3. \A i \in DOMAIN w : /\ w[i] # {}
                            /\ w[i] = {x \in Entries : deps[x] \subseteq Earlier(w, i)} \ Earlier(w, i)
    BY <1>1 DEF Counting
  <1>4. \A i, j \in DOMAIN w : i # j => w[i] \cap w[j] = {}
    BY WaveFacts DEF w
  <1>5. Acyclic(deps) <=> G = Entries
    BY WaveFacts DEF w
  <1>6. ASSUME G = Entries, NEW S \in SUBSET Entries, S # {}
        PROVE  \E x \in S : deps[x] \cap S = {}
    <2> DEFINE I == {i \in DOMAIN w : w[i] \cap S # {}}
    <2>1. I \in SUBSET Nat /\ I # {}
      BY <1>2, <1>6 DEF Gone
    <2>2. PICK i \in I : \A j \in I : i <= j
      BY <2>1, MinIsIn
    <2>3. PICK x \in S : x \in w[i]
      OBVIOUS
    <2>4. deps[x] \subseteq Earlier(w, i)
      BY <1>3, <2>3
    <2>5. ASSUME NEW j \in 1 .. i - 1 PROVE w[j] \cap S = {}
      <3>1. j \in DOMAIN w /\ ~ (i <= j)
        BY <1>2
      <3>2. QED
        BY <2>2, <3>1
    <2>6. Earlier(w, i) \cap S = {}
      BY <2>5 DEF Earlier
    <2>7. QED
      BY <2>4, <2>6
  <1>7. ASSUME \A S \in (SUBSET Entries) \ {{}} : \E x \in S : deps[x] \cap S = {}
        PROVE  G = Entries
    <2>1. CASE acc.ready = {}
      <3>1. SUFFICES ASSUME Entries \ G # {} PROVE FALSE
        BY <1>2
      <3>2. PICK x \in Entries \ G : deps[x] \cap (Entries \ G) = {}
        BY <1>7, <3>1
      <3>3. deps[x] \subseteq G
        BY <3>2
      <3>4. QED
        BY <1>2, <2>1, <3>3
    <2>2. CASE Len(w) = Cardinality(Entries)
      <3> DEFINE c == [i \in DOMAIN w |-> CHOOSE x : x \in w[i]]
      <3>1. \A i \in DOMAIN w : c[i] \in w[i]
        BY <1>3
      <3> HIDE DEF c
      <3>2. c \in Injection(DOMAIN w, G)
        <4>1. c \in [DOMAIN w -> G]
          BY <3>1 DEF c, Gone
        <4>2. \A i, j \in DOMAIN w : c[i] = c[j] => i = j
          BY <1>4, <3>1
        <4>3. QED
          BY <4>1, <4>2 DEF Injection, IsInjective
      <3>3. IsFiniteSet(G) /\ Cardinality(G) <= Cardinality(Entries)
        BY <1>2, EntryFacts, FS_Subset
      <3>4. Cardinality(DOMAIN w) <= Cardinality(G)
        BY <3>2, <3>3, FS_Injection
      <3>5. Cardinality(DOMAIN w) = Len(w)
        <4> DEFINE l == Len(w)
        <4>1. l \in Nat
          BY <1>2
        <4> HIDE DEF l
        <4>2. Cardinality(1 .. l) = l
          BY <4>1, FS_Interval
        <4>3. QED
          BY <1>2, <4>2 DEF l
      <3>6. Cardinality(G) = Cardinality(Entries)
        <4>1. Cardinality(G) \in Nat /\ Cardinality(Entries) \in Nat
          BY <3>3, EntryFacts, FS_CardinalityType
        <4>2. QED
          BY <2>2, <3>3, <3>4, <3>5, <4>1
      <3>7. QED
        BY <1>2, <3>6, EntryFacts, FS_Subset
    <2>3. QED
      BY <1>1, <2>1, <2>2
  <1>8. QED
    BY <1>3, <1>5, <1>6, <1>7 DEF w

-----------------------------------------------------------------------------
(* The steps of a command. *)

\* Every entry waits for entries.
LEMMA DependsType ==
  ASSUME NEW p \in Plans
  PROVE  /\ DependsOn(p) \in [Entries -> SUBSET Entries]
         /\ Payloads(p) \subseteq Entries
  BY DEF DependsOn, Plans, Payloads

\* What is gone when files are removed is no output.
LEMMA RemovalKeepsTypes ==
  ASSUME Types, NEW S \in SUBSET File, RemoveFiles(S),
         UNCHANGED <<options, plan, mode, temps, made, done, config, staged, todo,
                     deferredDir, deferred>>,
         released' \in SUBSET File
  PROVE  Types'
  <1>1. TypeOK
    BY DEF Types
  <1>2. /\ inst' \in [File -> {"absent", "old", "new"}]
        /\ ext' \in [File -> {"absent", "old", "new"}]
        /\ UNCHANGED <<link, layout, external>>
        /\ \A f \in File : inst'[f] \in {"absent", inst[f]} /\ ext'[f] \in {"absent", ext[f]}
    BY <1>1, RemovedFacts DEF options
  <1>3. TypeOK'
    BY <1>1, <1>2 DEF TypeOK, options
  <1>4. \A f \in File : "new" \in Present(f)' => "new" \in Present(f)
    BY <1>2 DEF Present
  <1>5. QED
    BY <1>3, <1>4 DEF Types

LEMMA TypesNext == Types /\ Modes /\ [Next]_vars => Types'
  <1> SUFFICES ASSUME Types, Modes, [Next]_vars
               PROVE  Types'
    OBVIOUS
  <1> USE EntryFacts DEF tree, private, options, progress
  <1>1. TypeOK
    BY DEF Types
  <1>2. CASE SavePatchPlan
    <2>1. Planned \in Plans /\ Planned # NoPlan /\ staged = {}
      BY <1>1, <1>2, PlannedFacts DEF SavePatchPlan, Modes
    <2>2. Payloads(Planned) \subseteq Entries
      BY <2>1, DependsType
    <2>3. QED
      BY <1>1, <1>2, <2>1, <2>2 DEF SavePatchPlan, Begin, Types, TypeOK, Plans, Present
  <1>3. CASE Resume \/ Discard \/ RemovePlanFile \/ RemoveDeferredDir \/ PatchDirGone
    BY <1>1, <1>3 DEF Resume, Discard, RemovePlanFile, RemoveDeferredDir, PatchDirGone, Begin,
                      Types, TypeOK, Present
  <1>4. ASSUME NEW x \in File \cup {"config"}, Extract(x) PROVE Types'
    BY <1>1, <1>4 DEF Extract, Going, Modes, Payloads, Types, TypeOK, Present
  <1>5. CASE Extracted \/ LinkRoot \/ WriteOwner \/ WriteLayout \/ CommitTopLevel
    <2>1. CASE Extracted
      BY <1>1, <2>1 DEF Extracted, Goto, Types, TypeOK, Present
    <2>2. CASE LinkRoot
      BY <1>1, <2>2 DEF LinkRoot, Goto, Types, TypeOK, Present
    <2>3. CASE WriteOwner \/ WriteLayout
      BY <1>1, <2>3 DEF WriteOwner, WriteLayout, Goto, Types, TypeOK, Present
    <2>4. CASE CommitTopLevel
      BY <1>1, <2>4 DEF CommitTopLevel, Goto, Types, TypeOK, Present
    <2>5. QED
      BY <1>5, <2>1, <2>2, <2>3, <2>4
  <1>6. ASSUME NEW f \in File, RelocateCopy(f) \/ RelocateRemove(f) PROVE Types'
    BY <1>1, <1>6 DEF RelocateCopy, RelocateRemove, Types, TypeOK, Present
  <1>7. CASE EarlyDeletes
    <2>1. Deleted \ (Bases(plan) \cup Entries) \in SUBSET File
      BY PatchAssumption
    <2>2. QED
      BY <1>1, <1>7, <2>1, RemovalKeepsTypes DEF EarlyDeletes, Goto, TypeOK
  <1>8. ASSUME NEW e \in Entries, EntryPresent(e) \/ EntryBegin(e) PROVE Types'
    BY <1>1, <1>8 DEF EntryPresent, EntryBegin, EntryReady, Begin, Types, TypeOK, Present
  <1>9. ASSUME NEW e \in Entries, EntryCommit(e) \/ EntryCleanPayload(e) PROVE Types'
    BY <1>1, <1>9 DEF EntryCommit, EntryCleanPayload, Types, TypeOK, Present
  <1>10. ASSUME NEW f \in File, ReleaseBase(f) PROVE Types'
    BY <1>1, <1>10, RemovalKeepsTypes DEF ReleaseBase, TypeOK
  <1>11. CASE ApplyDeletes
    <2>1. Deleted \ Entries \in SUBSET File
      BY PatchAssumption
    <2>2. QED
      BY <1>1, <1>11, <2>1, RemovalKeepsTypes DEF ApplyDeletes, Goto, TypeOK
  <1>12. CASE CommitDeferred \/ CleanStage \/ RunFails \/ Crash
    BY <1>1, <1>12 DEF CommitDeferred, CleanStage, RunFails, Crash, Begin, Goto, Types, TypeOK,
                       Present
  <1>13. CASE Stop \/ UNCHANGED vars
    BY <1>1, <1>13 DEF Stop, vars, Types, TypeOK, Present
  <1>14. QED
    BY <1>2, <1>3, <1>4, <1>5, <1>6, <1>7, <1>8, <1>9, <1>10, <1>11, <1>12, <1>13 DEF Next, Run

LEMMA ModesNext == Types /\ Modes /\ [Next]_vars => Modes'
  <1> SUFFICES ASSUME Types, Modes, [Next]_vars
               PROVE  Modes'
    OBVIOUS
  <1> USE DEF tree, private, options, progress, Modes, Running, Linked
  <1>1. TypeOK
    BY DEF Types
  <1>2. CASE SavePatchPlan
    <2>1. Planned # NoPlan
      BY <1>1, <1>2, PlannedFacts DEF SavePatchPlan
    <2>2. QED
      BY <1>2, <2>1 DEF SavePatchPlan, Begin
  <1>3. CASE Resume \/ Discard \/ RemovePlanFile \/ RemoveDeferredDir \/ PatchDirGone
    BY <1>3 DEF Resume, Ready, Discard, RemovePlanFile, RemoveDeferredDir, PatchDirGone, Begin
  <1>4. ASSUME NEW x \in File \cup {"config"}, Extract(x) PROVE Modes'
    BY <1>4 DEF Extract, Going
  <1>5. CASE Extracted \/ LinkRoot \/ WriteOwner \/ WriteLayout \/ CommitTopLevel
    BY <1>5 DEF Extracted, LinkRoot, WriteOwner, WriteLayout, CommitTopLevel, Goto, Going
  <1>6. ASSUME NEW f \in File, RelocateCopy(f) \/ RelocateRemove(f) PROVE Modes'
    BY <1>6 DEF RelocateCopy, RelocateRemove, Going
  <1>7. CASE EarlyDeletes \/ ApplyDeletes
    BY <1>7 DEF EarlyDeletes, ApplyDeletes, Goto, Going
  <1>8. ASSUME NEW e \in Entries, EntryPresent(e) \/ EntryBegin(e) PROVE Modes'
    BY <1>8 DEF EntryPresent, EntryBegin, EntryReady, Begin, Going
  <1>9. ASSUME NEW e \in Entries, EntryCommit(e) \/ EntryCleanPayload(e) PROVE Modes'
    BY <1>9 DEF EntryCommit, EntryCleanPayload, Going
  <1>10. ASSUME NEW f \in File, ReleaseBase(f) PROVE Modes'
    BY <1>10 DEF ReleaseBase, Going
  <1>11. CASE CommitDeferred \/ CleanStage \/ RunFails \/ Crash
    BY <1>11 DEF CommitDeferred, CleanStage, RunFails, Crash, Begin, Goto, Going
  <1>12. CASE Stop \/ UNCHANGED vars
    BY <1>12 DEF Stop, vars, Payloads
  <1>13. QED
    BY <1>2, <1>3, <1>4, <1>5, <1>6, <1>7, <1>8, <1>9, <1>10, <1>11, <1>12 DEF Next, Run

\* Files are only removed, and outputs only written, where the root has its final place.
LEMMA RootsNext == Types /\ Modes /\ Roots /\ [Next]_vars => Roots'
  <1> SUFFICES ASSUME Types, Modes, Roots, [Next]_vars
               PROVE  Roots'
    OBVIOUS
  <1> USE DEF tree, private, options, progress, Running, Linked, Going
  <1>1. TypeOK
    BY DEF Types
  <1> USE TreeTypes
  <1>2. CASE SavePatchPlan \/ Resume
    BY <1>1, <1>2 DEF SavePatchPlan, Resume, Begin, Roots
  <1>3. CASE Discard \/ RemovePlanFile \/ RemoveDeferredDir \/ PatchDirGone
    BY <1>1, <1>3 DEF Discard, RemovePlanFile, RemoveDeferredDir, PatchDirGone, Begin, Roots
  <1>4. ASSUME NEW x \in File \cup {"config"}, Extract(x) PROVE Roots'
    BY <1>4 DEF Extract, Roots
  <1>5. CASE Extracted
    BY <1>5 DEF Extracted, Goto, Roots
  <1>6. ASSUME NEW f \in File, RelocateCopy(f) PROVE Roots'
    BY <1>1, <1>6 DEF RelocateCopy, Roots
  <1>7. ASSUME NEW f \in File, RelocateRemove(f) PROVE Roots'
    BY <1>1, <1>7 DEF RelocateRemove, Roots
  <1>8. CASE LinkRoot \/ WriteOwner \/ WriteLayout \/ CommitTopLevel
    BY <1>1, <1>8 DEF LinkRoot, WriteOwner, WriteLayout, CommitTopLevel, Goto, Roots
  <1>9. ASSUME NEW S \in SUBSET File, RemoveFiles(S), link = external, step' \in Linked,
               UNCHANGED <<options, mode>>
        PROVE  Roots'
    <2>1. UNCHANGED <<link, external>>
      BY <1>1, <1>9, RemovedFacts
    <2>2. QED
      BY <1>9, <2>1 DEF Roots
  <1>10. CASE EarlyDeletes
    BY <1>9, <1>10, PatchAssumption DEF EarlyDeletes, Goto, Roots
  <1>11. CASE ApplyDeletes
    BY <1>9, <1>11, PatchAssumption DEF ApplyDeletes, Goto, Roots
  <1>12. ASSUME NEW f \in File, ReleaseBase(f) PROVE Roots'
    BY <1>9, <1>12 DEF ReleaseBase, Roots
  <1>13. ASSUME NEW e \in Entries,
                EntryPresent(e) \/ EntryBegin(e) \/ EntryCommit(e) \/ EntryCleanPayload(e)
         PROVE  Roots'
    BY <1>1, <1>13 DEF EntryPresent, EntryBegin, EntryReady, EntryCommit, EntryCleanPayload,
                       Begin, Roots
  <1>14. CASE CommitDeferred \/ CleanStage \/ RunFails \/ Crash
    BY <1>14 DEF CommitDeferred, CleanStage, RunFails, Crash, Begin, Goto, Roots
  <1>15. CASE Stop \/ UNCHANGED vars
    BY <1>15 DEF Stop, vars, Roots
  <1>16. QED
    BY <1>2, <1>3, <1>4, <1>5, <1>6, <1>7, <1>8, <1>10, <1>11, <1>12, <1>13, <1>14, <1>15
       DEF Next, Run

LEMMA ConfigWaitsNext == Types /\ Modes /\ ConfigWaits /\ [Next]_vars => ConfigWaits'
  <1> SUFFICES ASSUME Types, Modes, ConfigWaits, [Next]_vars
               PROVE  ConfigWaits'
    OBVIOUS
  <1> USE EntryFacts DEF tree, private, options, progress, Running, Going
  <1>1. CASE SavePatchPlan \/ Resume
    BY <1>1 DEF SavePatchPlan, Resume, Ready, Begin, ConfigWaits
  <1>2. CASE Discard \/ RemovePlanFile \/ RemoveDeferredDir \/ PatchDirGone
    BY <1>2 DEF Discard, RemovePlanFile, RemoveDeferredDir, PatchDirGone, Begin, ConfigWaits
  <1>3. ASSUME NEW x \in File \cup {"config"}, Extract(x) PROVE ConfigWaits'
    BY <1>3 DEF Extract, ConfigWaits
  <1>4. CASE Extracted \/ LinkRoot \/ WriteOwner \/ WriteLayout \/ CommitTopLevel
    BY <1>4 DEF Extracted, LinkRoot, WriteOwner, WriteLayout, CommitTopLevel, Goto, ConfigWaits
  <1>5. ASSUME NEW f \in File, RelocateCopy(f) \/ RelocateRemove(f) \/ ReleaseBase(f)
        PROVE  ConfigWaits'
    BY <1>5 DEF RelocateCopy, RelocateRemove, ReleaseBase, ConfigWaits
  <1>6. CASE EarlyDeletes \/ ApplyDeletes
    BY <1>6 DEF EarlyDeletes, ApplyDeletes, Goto, ConfigWaits
  <1>7. ASSUME NEW e \in Entries,
               EntryPresent(e) \/ EntryBegin(e) \/ EntryCommit(e) \/ EntryCleanPayload(e)
        PROVE  ConfigWaits'
    BY <1>7 DEF EntryPresent, EntryBegin, EntryReady, EntryCommit, EntryCleanPayload, Begin,
                ConfigWaits
  <1>8. CASE CommitDeferred \/ CleanStage \/ RunFails \/ Crash
    BY <1>8 DEF CommitDeferred, CleanStage, RunFails, Crash, Begin, Goto, ConfigWaits
  <1>9. CASE Stop \/ UNCHANGED vars
    BY <1>9 DEF Stop, vars, ConfigWaits
  <1>10. QED
    BY <1>1, <1>2, <1>3, <1>4, <1>5, <1>6, <1>7, <1>8, <1>9 DEF Next, Run

\* Who may write an output has no entry left that reads it, as a graph and wave by wave.
LEMMA TurnComesLast ==
  ASSUME Types, Modes, NEW e \in Entries, EntryReady(e)
  PROVE  DependsOn(plan)[e] \subseteq done
  <1>1. DependsOn(plan) \in [Entries -> SUBSET Entries]
    BY DependsType DEF Types, Modes, EntryReady, Going, Running
  <1>2. CASE mode = "graph"
    BY <1>2 DEF EntryReady
  <1>3. CASE mode # "graph"
    <2> DEFINE waves == Waves(DependsOn(plan))
    <2>1. PICK i \in DOMAIN waves : /\ e \in waves[i]
                                    /\ UNION {waves[j] : j \in 1 .. i - 1} \subseteq done
      BY <1>3 DEF EntryReady, SerialTurn
    <2>2. DependsOn(plan)[e] \subseteq UNION {waves[j] : j \in 1 .. i - 1}
      BY <1>1, <2>1, WaveOrder DEF Earlier
    <2>3. QED
      BY <2>1, <2>2
  <1>4. QED
    BY <1>2, <1>3

\* A commit changes one output.
LEMMA CommitFacts ==
  ASSUME TypeOK, NEW e \in Entries, EntryCommit(e)
  PROVE  /\ \A f \in File : Destination(f)' = IF f = e THEN "new" ELSE Destination(f)
         /\ UNCHANGED <<external, link>>
  BY TreeTypes, EntryFacts DEF EntryCommit, Destination, options

LEMMA WorkNext == Types /\ Modes /\ Work /\ [Next]_vars => Work'
  <1> SUFFICES ASSUME Types, Modes, Work, [Next]_vars
               PROVE  Work'
    OBVIOUS
  <1> USE EntryFacts DEF tree, private, options, progress, Going
  <1>1. TypeOK
    BY DEF Types
  <1>2. CASE SavePatchPlan \/ Resume \/ Discard \/ RemovePlanFile \/ RemoveDeferredDir \/ PatchDirGone
    BY <1>2 DEF SavePatchPlan, Resume, Discard, RemovePlanFile, RemoveDeferredDir, PatchDirGone,
                Begin, Work
  <1>3. ASSUME NEW x \in File \cup {"config"}, Extract(x) PROVE Work'
    BY <1>3 DEF Extract, Work
  <1>4. CASE Extracted \/ LinkRoot \/ WriteOwner \/ WriteLayout \/ CommitTopLevel
    BY <1>4 DEF Extracted, LinkRoot, WriteOwner, WriteLayout, CommitTopLevel, Goto, Work
  <1>5. ASSUME NEW f \in File, RelocateCopy(f) \/ RelocateRemove(f) PROVE Work'
    BY <1>5 DEF RelocateCopy, RelocateRemove, Work
  <1>6. CASE EarlyDeletes
    <2>1. temps = {} /\ made = {} /\ done = {}
      BY <1>6 DEF EarlyDeletes, Modes
    <2>2. QED
      BY <1>6, <2>1 DEF EarlyDeletes, Goto, Work
  <1>7. ASSUME NEW e \in Entries, EntryPresent(e) PROVE Work'
    BY <1>7 DEF EntryPresent, EntryReady, Work, Destination
  <1>8. ASSUME NEW e \in Entries, EntryBegin(e) PROVE Work'
    <2>1. DependsOn(plan)[e] \subseteq done
      BY <1>8, TurnComesLast DEF EntryBegin
    <2>2. QED
      BY <1>8, <2>1 DEF EntryBegin, EntryReady, Begin, Work, Destination
  <1>9. ASSUME NEW e \in Entries, EntryCommit(e) PROVE Work'
    <2>1. done \cup made \subseteq Entries
      BY <1>1 DEF TypeOK
    <2>2. \A x \in done' \cup made' : Destination(x)' = "new"
      BY <1>1, <1>9, <2>1, CommitFacts DEF EntryCommit, Work
    <2>3. temps' \subseteq temps /\ done \subseteq done' /\ plan' = plan
      BY <1>9 DEF EntryCommit
    <2>4. \A x \in temps : DependsOn(plan)[x] \subseteq done
      BY <1>9 DEF EntryCommit, Work
    <2>5. QED
      BY <2>2, <2>3, <2>4 DEF Work
  <1>10. ASSUME NEW e \in Entries, EntryCleanPayload(e) PROVE Work'
    BY <1>10 DEF EntryCleanPayload, Work, Destination
  <1>11. ASSUME NEW f \in File, ReleaseBase(f) PROVE Work'
    <2>1. done \cup made \subseteq File \ (({f} \cap Deleted) \ Entries)
      BY <1>1 DEF TypeOK
    <2>2. \A x \in done \cup made : Destination(x)' = Destination(x)
      BY <1>1, <1>11, <2>1, RemovedFacts DEF ReleaseBase
    <2>3. QED
      BY <1>11, <2>2 DEF ReleaseBase, Work
  <1>12. CASE ApplyDeletes \/ CommitDeferred \/ CleanStage \/ RunFails \/ Crash
    BY <1>12 DEF ApplyDeletes, CommitDeferred, CleanStage, RunFails, Crash, Begin, Goto, Work
  <1>13. CASE Stop \/ UNCHANGED vars
    BY <1>13 DEF Stop, vars, Work, Destination
  <1>14. QED
    BY <1>2, <1>3, <1>4, <1>5, <1>6, <1>7, <1>8, <1>9, <1>10, <1>11, <1>12, <1>13 DEF Next, Run

\* An install with every output in place keeps them.
LEMMA CompleteStays == Types /\ Roots /\ Complete /\ [Next]_vars => Complete'
  <1> SUFFICES ASSUME Types, Roots, Complete, [Next]_vars
               PROVE  Complete'
    OBVIOUS
  <1> USE EntryFacts DEF tree, private, options, progress
  <1>1. TypeOK
    BY DEF Types
  <1>2. ASSUME UNCHANGED <<options, inst, ext>>, link' = external PROVE Complete'
    BY <1>2 DEF Complete, Destination
  <1>3. ASSUME NEW S \in SUBSET File, RemoveFiles(S), S \cap Entries = {}, UNCHANGED options
        PROVE  Complete'
    BY <1>1, <1>3, RemovedFacts, PatchAssumption DEF Complete
  <1>4. CASE SavePatchPlan \/ Resume \/ Discard \/ RemovePlanFile \/ RemoveDeferredDir \/ PatchDirGone
    BY <1>2, <1>4 DEF SavePatchPlan, Resume, Discard, RemovePlanFile, RemoveDeferredDir,
                      PatchDirGone, Complete
  <1>5. ASSUME NEW x \in File \cup {"config"}, Extract(x) PROVE Complete'
    BY <1>2, <1>5 DEF Extract, Complete
  <1>6. CASE Extracted \/ LinkRoot \/ WriteOwner \/ WriteLayout \/ CommitTopLevel
    BY <1>2, <1>6 DEF Extracted, LinkRoot, WriteOwner, WriteLayout, CommitTopLevel, Complete
  <1>7. ASSUME NEW f \in File, RelocateCopy(f) \/ RelocateRemove(f) PROVE Complete'
    BY <1>7 DEF RelocateCopy, RelocateRemove, Roots, Complete
  <1>8. CASE EarlyDeletes
    <2>1. Deleted \ (Bases(plan) \cup Entries) \in SUBSET File
      BY PatchAssumption
    <2>2. QED
      BY <1>3, <1>8, <2>1 DEF EarlyDeletes
  <1>9. ASSUME NEW e \in Entries, EntryPresent(e) \/ EntryBegin(e) \/ EntryCleanPayload(e)
        PROVE  Complete'
    BY <1>2, <1>9 DEF EntryPresent, EntryBegin, EntryCleanPayload, Complete
  <1>10. ASSUME NEW e \in Entries, EntryCommit(e) PROVE Complete'
    BY <1>1, <1>10, CommitFacts, PatchAssumption DEF Complete
  <1>11. ASSUME NEW f \in File, ReleaseBase(f) PROVE Complete'
    BY <1>3, <1>11 DEF ReleaseBase
  <1>12. CASE ApplyDeletes
    <2>1. Deleted \ Entries \in SUBSET File
      BY PatchAssumption
    <2>2. QED
      BY <1>3, <1>12, <2>1 DEF ApplyDeletes
  <1>13. CASE CommitDeferred \/ CleanStage \/ RunFails \/ Crash
    BY <1>2, <1>13 DEF CommitDeferred, CleanStage, RunFails, Crash, Complete
  <1>14. CASE Stop \/ UNCHANGED vars
    BY <1>2, <1>14 DEF Stop, vars, Complete
  <1>15. QED
    BY <1>4, <1>5, <1>6, <1>7, <1>8, <1>9, <1>10, <1>11, <1>12, <1>13, <1>14 DEF Next, Run

LEMMA EndsNext == Types /\ Modes /\ Roots /\ Work /\ Ends /\ [Next]_vars => Ends'
  <1> SUFFICES ASSUME Types, Modes, Roots, Work, Ends, [Next]_vars
               PROVE  Ends'
    OBVIOUS
  <1> USE EntryFacts DEF tree, private, options, progress, Running, Going
  <1>1. TypeOK
    BY DEF Types
  <1>2. Complete => Complete'
    BY CompleteStays
  <1>3. CASE ApplyDeletes
    <2>1. Deleted \ Entries \in SUBSET File
      BY PatchAssumption
    <2>2. /\ \A f \in File : Destination(f)' =
                               IF f \in Deleted \ Entries THEN "absent" ELSE Destination(f)
          /\ UNCHANGED <<link, external>>
      BY <1>1, <1>3, <2>1, RemovedFacts DEF ApplyDeletes
    <2>3. \A e \in Entries : Destination(e) = "new"
      BY <1>3 DEF ApplyDeletes, Work
    <2>4. link = external
      BY <1>3 DEF ApplyDeletes, Roots, Linked
    <2>5. Complete'
      BY <2>2, <2>3, <2>4, PatchAssumption DEF Complete
    <2>6. QED
      BY <2>5 DEF Ends
  <1>4. ASSUME config' = "new" => config = "new",
               (Running /\ step \in {"deferred", "stage", "state"})' =>
                 Running /\ step \in {"deferred", "stage", "state"}
        PROVE  Ends'
    BY <1>2, <1>4 DEF Ends
  <1>5. CASE SavePatchPlan \/ Resume \/ Discard \/ RemovePlanFile \/ RemoveDeferredDir \/ PatchDirGone
    BY <1>4, <1>5 DEF SavePatchPlan, Resume, Discard, RemovePlanFile, RemoveDeferredDir,
                      PatchDirGone, Begin
  <1>6. ASSUME NEW x \in File \cup {"config"}, Extract(x) PROVE Ends'
    BY <1>4, <1>6 DEF Extract
  <1>7. CASE Extracted \/ LinkRoot \/ WriteOwner \/ WriteLayout \/ CommitTopLevel \/ EarlyDeletes
    BY <1>4, <1>7 DEF Extracted, LinkRoot, WriteOwner, WriteLayout, CommitTopLevel, EarlyDeletes,
                      Goto
  <1>8. ASSUME NEW f \in File, RelocateCopy(f) \/ RelocateRemove(f) \/ ReleaseBase(f) PROVE Ends'
    BY <1>4, <1>8 DEF RelocateCopy, RelocateRemove, ReleaseBase
  <1>9. ASSUME NEW e \in Entries,
               EntryPresent(e) \/ EntryBegin(e) \/ EntryCommit(e) \/ EntryCleanPayload(e)
        PROVE  Ends'
    BY <1>4, <1>9 DEF EntryPresent, EntryBegin, EntryReady, EntryCommit, EntryCleanPayload, Begin
  <1>10. CASE CommitDeferred
    BY <1>2, <1>10 DEF CommitDeferred, Begin, Goto, Ends
  <1>11. CASE CleanStage \/ RunFails \/ Crash
    BY <1>4, <1>11 DEF CleanStage, RunFails, Crash, Begin, Goto
  <1>12. CASE Stop \/ UNCHANGED vars
    BY <1>4, <1>12 DEF Stop, vars
  <1>13. QED
    BY <1>3, <1>5, <1>6, <1>7, <1>8, <1>9, <1>10, <1>11, <1>12 DEF Next, Run

\* Planned with the asset tree in one place, a file holds what the plan saw.
LEMMA NowIsLogical ==
  ASSUME TypeOK, Roots, ~ForeignRoot, NEW f \in File
  PROVE  Now(f) = Logical(f)
  BY TreeTypes DEF Now, Logical, Destination, Roots, ForeignRoot

\* What has reached its destination is what the file holds.
LEMMA NowIsThere ==
  ASSUME TypeOK, Roots, NEW f \in File, Destination(f) # "absent"
  PROVE  Now(f) = Destination(f)
  BY TreeTypes DEF Now, Destination, Roots

\* A base and its consumers.
LEMMA BaseFacts ==
  ASSUME Types, plan # NoPlan, NEW e \in Entries, plan.kind[e] = "hdiff"
  PROVE  /\ plan.base[e] \in File /\ plan.base[e] \in Bases(plan)
         /\ e \in Consumers(plan, plan.base[e])
         /\ \A w \in Entries \ {e} : plan.base[e] = w => e \in DependsOn(plan)[w]
  BY DEF Types, Plans, Bases, Consumers, DependsOn

\* Nothing takes an entry's payload or base away before it is applied.
LEMMA SupplyNext ==
  Types /\ Modes /\ Roots /\ Supply /\ Work /\ [Next]_vars => Supply'
  <1> SUFFICES ASSUME Types, Modes, Roots, Supply, Work, [Next]_vars
               PROVE  Supply'
    OBVIOUS
  <1> USE EntryFacts DEF tree, private, options, progress, Running, Going, Before
  <1>1. TypeOK
    BY DEF Types
  <1>2. CASE SavePatchPlan
    <2>1. /\ plan' = Planned /\ Planned \in Plans /\ done' = {} /\ made' = {} /\ step' = "extract"
          /\ Payloads(Planned) \subseteq todo'
      BY <1>1, <1>2, PlannedFacts DEF SavePatchPlan, Begin
    <2>2. \A f \in File : Now(f)' = Logical(f)
      <3>1. \A f \in File : Now(f) = Logical(f)
        BY <1>1, <1>2, NowIsLogical DEF SavePatchPlan, Plannable
      <3>2. QED
        BY <1>2, <3>1 DEF SavePatchPlan, Now, Destination
    <2>3. ASSUME NEW e \in Entries PROVE Supplied(e)'
      <3>1. \/ Logical(e) = "new"
            \/ /\ Planned.kind[e] \in {"local", "hdiff"}
               /\ Planned.kind[e] = "hdiff" => Logical(Planned.base[e]) = "old"
        BY <1>1, <1>2, PlannedFacts DEF SavePatchPlan
      <3>2. Planned.kind[e] = "hdiff" => Planned.base[e] \in File
        BY <2>1 DEF Plans
      <3>3. Planned.kind[e] \in {"local", "hdiff"} => e \in todo'
        BY <2>1 DEF Payloads
      <3>4. QED
        BY <2>1, <2>2, <3>1, <3>2, <3>3 DEF Supplied
    <2>4. QED
      BY <2>3 DEF Supply
  <1>3. CASE Resume
    <2>1. UNCHANGED <<options, tree, plan, staged>> /\ done' = {} /\ made' = {} /\ plan # NoPlan
      BY <1>3 DEF Resume, Begin, Ready
    <2>2. \A f \in File : Destination(f) # "absent" => Now(f)' = Destination(f)
      <3>1. \A f \in File : Destination(f) # "absent" => Now(f) = Destination(f)
        BY <1>1, NowIsThere
      <3>2. QED
        BY <2>1, <3>1 DEF Now, Destination
    <2>3. ASSUME NEW e \in Entries PROVE Supplied(e)'
      <3>1. EntryRecoverable(e)
        BY <1>3 DEF Resume, Ready
      <3>2. plan.kind[e] = "hdiff" => plan.base[e] \in File
        BY <2>1, BaseFacts
      <3>3. QED
        BY <2>1, <2>2, <3>1, <3>2 DEF EntryRecoverable, Supplied
    <2>4. QED
      BY <2>3 DEF Supply
  <1>4. CASE Discard \/ RemovePlanFile \/ RemoveDeferredDir \/ PatchDirGone
    BY <1>4 DEF Discard, RemovePlanFile, RemoveDeferredDir, PatchDirGone, Begin, Supply
  \* Steps that move nothing an entry needs.
  <1>5. ASSUME Running, step \in Before, plan' = plan, UNCHANGED <<done, made>>,
               \A f \in File : Now(f)' = Now(f) \/ f \notin Entries \cup Bases(plan),
               \A e \in Entries \ (done \cup made) :
                 e \in staged \/ (step = "extract" /\ e \in todo)
                   => e \in staged' \/ (step' = "extract" /\ e \in todo')
        PROVE  Supply'
    <2>1. plan # NoPlan
      BY <1>5 DEF Modes
    <2>2. ASSUME NEW e \in Entries \ (done \cup made) PROVE Supplied(e)'
      <3>1. Supplied(e)
        BY <1>5 DEF Supply
      <3>2. Now(e)' = Now(e)
        BY <1>5
      <3>3. plan.kind[e] = "hdiff" => Now(plan.base[e])' = Now(plan.base[e])
        BY <1>5, <2>1, BaseFacts
      <3>4. QED
        BY <1>5, <3>1, <3>2, <3>3 DEF Supplied
    <2>3. QED
      BY <1>5, <2>2 DEF Supply
  <1>6. ASSUME UNCHANGED <<options, inst, ext, link>>
        PROVE  \A f \in File : Now(f)' = Now(f)
    BY <1>6 DEF Now, Destination
  <1>7. ASSUME NEW x \in File \cup {"config"}, Extract(x) PROVE Supply'
    BY <1>5, <1>6, <1>7 DEF Extract
  <1>8. CASE Extracted \/ WriteOwner \/ WriteLayout \/ CommitTopLevel
    BY <1>5, <1>6, <1>8 DEF Extracted, WriteOwner, WriteLayout, CommitTopLevel, Goto
  <1>9. ASSUME NEW f \in File, RelocateCopy(f) \/ RelocateRemove(f) PROVE Supply'
    <2>1. external /\ ~link /\ inst[f] # "absent"
      BY <1>9 DEF RelocateCopy, RelocateRemove, Roots
    <2>2. ASSUME NEW g \in File PROVE Now(g)' = Now(g)
      <3>1. external' = external /\ link' = link
        BY <1>9 DEF RelocateCopy, RelocateRemove
      <3>2. CASE RelocateCopy(f)
        <4>1. ext[f] = "absent" /\ inst' = inst /\ ext' = [ext EXCEPT ![f] = inst[f]]
          BY <3>2 DEF RelocateCopy
        <4>2. CASE g = f
          BY <2>1, <3>1, <4>1, <4>2 DEF Now
        <4>3. CASE g # f
          <5>1. ext'[g] = ext[g]
            BY <1>1, <4>1, <4>3, TreeTypes
          <5>2. QED
            BY <3>1, <4>1, <5>1 DEF Now, Destination
        <4>4. QED
          BY <4>2, <4>3
      <3>3. CASE RelocateRemove(f)
        <4>1. ext[f] = inst[f] /\ ext' = ext /\ inst' = [inst EXCEPT ![f] = "absent"]
          BY <3>3 DEF RelocateRemove
        <4>2. CASE g = f
          <5>1. inst'[f] = "absent"
            BY <1>1, <4>1, TreeTypes
          <5>2. QED
            BY <2>1, <3>1, <4>1, <4>2, <5>1 DEF Now, Destination
        <4>3. CASE g # f
          <5>1. inst'[g] = inst[g]
            BY <1>1, <4>1, <4>3, TreeTypes
          <5>2. QED
            BY <3>1, <4>1, <5>1 DEF Now, Destination
        <4>4. QED
          BY <4>2, <4>3
      <3>4. QED
        BY <1>9, <3>2, <3>3
    <2>3. QED
      BY <1>5, <1>9, <2>2 DEF RelocateCopy, RelocateRemove
  <1>10. CASE LinkRoot
    <2>1. external /\ ~link => \A f \in File : inst[f] = "absent"
      BY <1>10 DEF LinkRoot, Roots
    <2>2. \A f \in File : Now(f)' = Now(f)
      BY <1>10, <2>1 DEF LinkRoot, Now, Destination
    <2>3. QED
      BY <1>5, <1>10, <2>2 DEF LinkRoot, Goto
  <1>11. ASSUME NEW S \in SUBSET File, RemoveFiles(S), link = external, UNCHANGED options,
                NEW f \in File \ S
         PROVE  Now(f)' = Now(f)
    BY <1>1, <1>11, RemovedFacts DEF Now
  <1>12. CASE EarlyDeletes
    <2>1. Deleted \ (Bases(plan) \cup Entries) \in SUBSET File
      BY PatchAssumption
    <2>2. link = external
      BY <1>12 DEF EarlyDeletes, Roots, Linked
    <2>3. \A f \in File : Now(f)' = Now(f) \/ f \notin Entries \cup Bases(plan)
      BY <1>11, <1>12, <2>1, <2>2 DEF EarlyDeletes
    <2>4. QED
      BY <1>5, <1>12, <2>3 DEF EarlyDeletes, Goto
  <1>13. ASSUME Going("entries"), plan' = plan, done \subseteq done', made \subseteq made' \cup done',
                NEW f,
                \A g \in File \ {f} : Now(g)' = Now(g),
                f \in Entries => f \in done' \cup made',
                \A e \in Entries \ (done' \cup made') :
                  /\ plan.kind[e] = "hdiff" => plan.base[e] # f
                  /\ e \in staged => e \in staged'
         PROVE  Supply'
    <2>1. plan # NoPlan
      BY <1>13 DEF Modes
    <2>2. ASSUME NEW e \in Entries \ (done' \cup made') PROVE Supplied(e)'
      <3>1. Supplied(e)
        BY <1>13 DEF Supply
      <3>2. e # f /\ Now(e)' = Now(e)
        BY <1>13
      <3>3. plan.kind[e] = "hdiff" => Now(plan.base[e])' = Now(plan.base[e])
        BY <1>13, <2>1, BaseFacts
      <3>4. QED
        BY <1>13, <3>1, <3>2, <3>3 DEF Supplied
    <2>3. QED
      BY <2>2 DEF Supply
  <1>14. ASSUME NEW e \in Entries, EntryPresent(e) \/ EntryCleanPayload(e) PROVE Supply'
    <2>1. \A f \in File : Now(f)' = Now(f)
      BY <1>6, <1>14 DEF EntryPresent, EntryCleanPayload
    <2>2. plan # NoPlan /\ Going("entries") /\ plan' = plan
      BY <1>14 DEF EntryPresent, EntryReady, EntryCleanPayload, Modes
    <2>3. ASSUME NEW x \in Entries \ (done' \cup made') PROVE Supplied(x)'
      <3>1. x \in Entries \ (done \cup made) /\ (x \in staged => x \in staged')
        BY <1>14, <2>3 DEF EntryPresent, EntryCleanPayload
      <3>2. Supplied(x)
        BY <2>2, <3>1 DEF Supply
      <3>3. plan.kind[x] = "hdiff" => plan.base[x] \in File
        BY <2>2, BaseFacts
      <3>4. QED
        BY <2>1, <2>2, <3>1, <3>2, <3>3 DEF Supplied
    <2>4. QED
      BY <2>3 DEF Supply
  <1>15. ASSUME NEW e \in Entries, EntryBegin(e) PROVE Supply'
    <2>1. CASE Sourced(e)
      BY <1>5, <1>6, <1>15, <2>1 DEF EntryBegin, EntryReady
    <2>2. CASE ~Sourced(e)
      BY <1>15, <2>2 DEF EntryBegin, Begin, Supply
    <2>3. QED
      BY <2>1, <2>2
  <1>16. ASSUME NEW e \in Entries, EntryCommit(e) PROVE Supply'
    <2>1. /\ Going("entries") /\ plan' = plan /\ done \subseteq done' /\ made \subseteq made'
          /\ e \in done' \cup made' /\ link = external
          /\ \A x \in Entries \ {e} : x \in staged => x \in staged'
      BY <1>16 DEF EntryCommit, Roots, Linked
    <2>2. \A g \in File \ {e} : Now(g)' = Now(g)
      BY <1>1, <1>16, <2>1, CommitFacts DEF Now
    <2>3. ASSUME NEW x \in Entries \ (done' \cup made'), plan.kind[x] = "hdiff"
          PROVE  plan.base[x] # e
      <3>1. DependsOn(plan)[e] \subseteq done
        BY <1>16 DEF EntryCommit, Work
      <3>2. x # e /\ x \notin done
        BY <2>1, <2>3
      <3>3. plan # NoPlan
        BY <2>1 DEF Modes
      <3>4. QED
        BY <2>3, <3>1, <3>2, <3>3, BaseFacts
    <2>4. QED
      BY <1>13, <2>1, <2>2, <2>3
  <1>17. ASSUME NEW f \in File, ReleaseBase(f) PROVE Supply'
    <2> DEFINE S == ({f} \cap Deleted) \ Entries
    <2>1. /\ Going("entries") /\ plan' = plan /\ UNCHANGED <<done, made, staged>> /\ link = external
          /\ RemoveFiles(S) /\ UNCHANGED options /\ Consumers(plan, f) \subseteq done
      BY <1>17 DEF ReleaseBase, Roots, Linked
    <2>2. CASE S = {}
      <3>1. \A g \in File : Now(g)' = Now(g)
        BY <1>11, <2>1, <2>2
      <3>2. QED
        BY <1>5, <1>17, <2>1, <3>1 DEF ReleaseBase
    <2>3. CASE S # {}
      <3>1. S = {f} /\ f \notin Entries
        BY <2>3
      <3>2. \A g \in File \ {f} : Now(g)' = Now(g)
        BY <1>11, <2>1, <3>1
      <3>3. \A x \in Entries \ done : plan.kind[x] = "hdiff" => plan.base[x] # f
        BY <2>1 DEF Consumers
      <3> HIDE DEF S
      <3>4. QED
        BY <1>13, <2>1, <3>1, <3>2, <3>3
    <2>4. QED
      BY <2>2, <2>3
  <1>18. CASE ApplyDeletes \/ CommitDeferred \/ CleanStage \/ RunFails \/ Crash
    BY <1>18 DEF ApplyDeletes, CommitDeferred, CleanStage, RunFails, Crash, Begin, Goto, Supply
  <1>19. CASE Stop \/ UNCHANGED vars
    BY <1>5, <1>6, <1>19 DEF Stop, vars, Supply
  <1>20. QED
    BY <1>2, <1>3, <1>4, <1>7, <1>8, <1>9, <1>10, <1>12, <1>14, <1>15, <1>16, <1>17, <1>18, <1>19
       DEF Next, Run

-----------------------------------------------------------------------------
(* The invariant and the theorems. *)

LEMMA InitHolds == Init => IInv
  <1> SUFFICES ASSUME Init
               PROVE  IInv
    OBVIOUS
  <1>1. Types
    BY DEF Init, Types, TypeOK, Present
  <1>2. Modes /\ ConfigWaits /\ Supply /\ Work
    BY DEF Init, Modes, Running, ConfigWaits, Supply, Work, Going
  <1>3. Roots /\ Ends
    BY DEF Init, Roots, Ends, Running, Going
  <1>4. QED
    BY <1>1, <1>2, <1>3 DEF IInv

LEMMA NextHolds == IInv /\ [Next]_vars => IInv'
  BY TypesNext, ModesNext, RootsNext, ConfigWaitsNext, SupplyNext, WorkNext, EndsNext DEF IInv

\* The invariant the other theorems follow from: what is staged and what a file holds, wherever the
\* move of the asset tree has got to, suffice for the entries that are left, after every crash and
\* failure of the patch, at every step of resume_patch_apply and run_patch_apply.
THEOREM PatchInvariant == Spec => []IInv
  <1>1. Init => IInv
    BY InitHolds
  <1>2. IInv /\ [Next]_vars => IInv'
    BY NextHolds
  <1>3. QED
    BY <1>1, <1>2, PTL DEF Spec

\* Types of every patch: the entries in work, renamed and applied are disjoint (apply_planned_entry),
\* and only payloads of the saved plan are staged.
THEOREM PatchTypes == Spec => []TypeOK
  <1>1. IInv => TypeOK
    BY DEF IInv, Types
  <1>2. QED
    BY <1>1, PatchInvariant, PTL

\* The invariant is strong enough for every entry and for config.ini.
LEMMA MissingNothing == IInv => NothingMissing
  <1> SUFFICES ASSUME IInv
               PROVE  NothingMissing
    OBVIOUS
  <1>1. ASSUME NEW e \in Entries, EntryReady(e), Destination(e) # "new"
        PROVE  Sourced(e)
    <2>1. Running /\ step = "entries" /\ e \in Entries \ (done \cup made)
      BY <1>1 DEF EntryReady, Going, Running
    <2>2. link = external
      BY <2>1 DEF IInv, Roots, Linked
    <2>3. \A f \in File : Now(f) = Destination(f)
      BY <2>2 DEF Now
    <2>4. Supplied(e)
      BY <2>1 DEF IInv, Supply, Before
    <2>5. plan.kind[e] = "hdiff" => plan.base[e] \in File
      BY <2>1, BaseFacts DEF IInv, Modes
    <2>6. QED
      BY <1>1, <2>1, <2>3, <2>4, <2>5, EntryFacts DEF Supplied, Sourced
  <1>2. Going("deferred") /\ hasConfig => deferred
    BY DEF IInv, ConfigWaits, Going, Running
  <1>3. QED
    BY <1>1, <1>2 DEF NothingMissing

\* Whatever crashed, failed or was resumed before, apply_planned_entry finds the base and the payload
\* of the entry whose turn has come: no other entry, delete or release took them, whether the entries
\* run as a graph or wave by wave; and commit_deferred_files finds config.ini.
THEOREM NothingIsMissing == Spec => []NothingMissing
  BY MissingNothing, PatchInvariant, PTL

\* The new config.ini shows only with every output in place and every deleted path gone: a crash
\* before commit_deferred_files leaves the old version, and nothing after it undoes the outputs.
THEOREM ConfigComesLast == Spec => []DeferredLast
  <1>1. IInv => DeferredLast
    BY DEF IInv, Ends, Complete, DeferredLast
  <1>2. QED
    BY <1>1, PatchInvariant, PTL

\* Only files the patch deletes and none of its outputs are removed, and a copy to the external root
\* (move_directory_contents) is there before its source goes.
LEMMA StepKeepsAssets ==
  ASSUME IInv, [Next]_vars, NEW f \in File
  PROVE  /\ Present(f) # {} /\ f \notin Deleted => Present(f)' # {}
         /\ "new" \in Present(f) => "new" \in Present(f)'
  <1> USE DEF tree, private, options, progress
  <1>1. TypeOK /\ ("new" \in Present(f) => f \in Entries)
    BY DEF IInv, Types
  <1>2. ASSUME UNCHANGED <<inst, ext>>
        PROVE  Present(f)' = Present(f)
    BY <1>2 DEF Present
  <1>3. ASSUME NEW S \in SUBSET (Deleted \ Entries), RemoveFiles(S), UNCHANGED external
        PROVE  f \in Deleted \ Entries \/ Present(f)' = Present(f)
    <2>1. S \in SUBSET File
      BY PatchAssumption
    <2>2. f \notin S => inst'[f] = inst[f] /\ ext'[f] = ext[f]
      BY <1>1, <1>3, <2>1, RemovedFacts
    <2>3. QED
      BY <2>2 DEF Present
  <1>4. CASE SavePatchPlan \/ Resume \/ Discard \/ RemovePlanFile \/ RemoveDeferredDir \/ PatchDirGone
    BY <1>2, <1>4 DEF SavePatchPlan, Resume, Discard, RemovePlanFile, RemoveDeferredDir, PatchDirGone
  <1>5. CASE Extracted \/ LinkRoot \/ WriteOwner \/ WriteLayout \/ CommitTopLevel
    BY <1>2, <1>5 DEF Extracted, LinkRoot, WriteOwner, WriteLayout, CommitTopLevel
  <1>6. ASSUME NEW x \in File \cup {"config"}, Extract(x)
        PROVE  Present(f)' = Present(f)
    BY <1>2, <1>6 DEF Extract
  <1>7. ASSUME NEW g \in File, RelocateCopy(g)
        PROVE  Present(f) \subseteq Present(f)'
    <2>1. inst' = inst /\ ext[g] = "absent" /\ (f # g => ext'[f] = ext[f])
      BY <1>1, <1>7, TreeTypes DEF RelocateCopy
    <2>2. QED
      BY <2>1 DEF Present
  <1>8. ASSUME NEW g \in File, RelocateRemove(g)
        PROVE  Present(f) \subseteq Present(f)'
    <2>1. ext' = ext /\ ext[g] = inst[g] /\ (f # g => inst'[f] = inst[f])
      BY <1>1, <1>8, TreeTypes DEF RelocateRemove
    <2>2. QED
      BY <2>1 DEF Present
  <1>9. CASE EarlyDeletes
    <2>1. Deleted \ (Bases(plan) \cup Entries) \in SUBSET (Deleted \ Entries)
      OBVIOUS
    <2>2. QED
      BY <1>1, <1>3, <1>9, <2>1 DEF EarlyDeletes
  <1>10. ASSUME NEW g \in File, ReleaseBase(g)
         PROVE  f \in Deleted \ Entries \/ Present(f)' = Present(f)
    <2>1. ({g} \cap Deleted) \ Entries \in SUBSET (Deleted \ Entries)
      OBVIOUS
    <2>2. QED
      BY <1>3, <1>10, <2>1 DEF ReleaseBase
  <1>11. CASE ApplyDeletes
    BY <1>1, <1>3, <1>11 DEF ApplyDeletes
  <1>12. ASSUME NEW e \in Entries, EntryPresent(e) \/ EntryBegin(e) \/ EntryCleanPayload(e)
         PROVE  Present(f)' = Present(f)
    BY <1>2, <1>12 DEF EntryPresent, EntryBegin, EntryCleanPayload
  <1>13. ASSUME NEW e \in Entries, EntryCommit(e)
         PROVE  IF f = e THEN "new" \in Present(f)' ELSE Present(f)' = Present(f)
    <2>1. f # e => inst'[f] = inst[f] /\ ext'[f] = ext[f]
      BY <1>1, <1>13, TreeTypes DEF EntryCommit
    <2>2. f = e => "new" \in {inst'[f], ext'[f]}
      BY <1>1, <1>13, TreeTypes DEF EntryCommit
    <2>3. QED
      BY <2>1, <2>2 DEF Present
  <1>14. CASE CommitDeferred \/ CleanStage \/ RunFails \/ Crash
    BY <1>2, <1>14 DEF CommitDeferred, CleanStage, RunFails, Crash
  <1>15. CASE Stop \/ UNCHANGED vars
    BY <1>2, <1>15 DEF Stop, vars
  <1>16. QED
    BY <1>1, <1>4, <1>5, <1>6, <1>7, <1>8, <1>9, <1>10, <1>11, <1>12, <1>13, <1>14, <1>15
       DEF Next, Run

\* No step of a patch, its recovery or the move to the external root loses a file the patch does not
\* delete, and an output that is in place is never replaced by an old file nor removed.
THEOREM AssetsAreKept == Spec => AssetsKept
  <1>1. IInv /\ [Next]_vars =>
          [\A f \in File : /\ Present(f) # {} /\ f \notin Deleted => Present(f)' # {}
                           /\ "new" \in Present(f) => "new" \in Present(f)']_vars
    BY StepKeepsAssets
  <1>2. QED
    BY <1>1, PatchInvariant, PTL DEF Spec, AssetsKept

-----------------------------------------------------------------------------
(* Sums of sizes over sets of files. *)

\* What holds of the empty set, and with one more element, holds of every subset of a finite set.
LEMMA FiniteSubsets ==
  ASSUME NEW S, IsFiniteSet(S), NEW P \in SUBSET (SUBSET S), {} \in P,
         \A T \in P : \A e \in S \ T : T \cup {e} \in P
  PROVE  P = SUBSET S
  <1> DEFINE Q == {n \in Nat : \A T \in SUBSET S : Cardinality(T) = n => T \in P}
  <1>1. \A T \in SUBSET S : IsFiniteSet(T) /\ Cardinality(T) \in Nat
    BY FS_Subset, FS_CardinalityType
  <1>2. 0 \in Q
    BY <1>1, FS_EmptySet
  <1>3. ASSUME NEW n \in Q
        PROVE  n + 1 \in Q
    <2>1. ASSUME NEW T \in SUBSET S, Cardinality(T) = n + 1
          PROVE  T \in P
      <3>1. T # {}
        <4>1. n + 1 # 0
          OBVIOUS
        <4>2. QED
          BY <2>1, <4>1, FS_EmptySet
      <3>2. PICK e \in T : TRUE
        BY <3>1
      <3>3. Cardinality(T \ {e}) = n /\ T \ {e} \in SUBSET S
        <4>1. Cardinality(T \ {e}) = Cardinality(T) - 1
          BY <1>1, FS_RemoveElement
        <4>2. QED
          BY <2>1, <4>1
      <3>4. T \ {e} \in P /\ e \in S \ (T \ {e})
        BY <3>3
      <3>5. (T \ {e}) \cup {e} = T
        OBVIOUS
      <3>6. QED
        BY <3>4, <3>5
    <2>2. QED
      BY <2>1
  <1>4. Q = Nat
    <2>1. Q \in SUBSET Nat /\ \A n \in Q : n + 1 \in Q
      BY <1>3
    <2> HIDE DEF Q
    <2>2. QED
      BY <1>2, <2>1, Numbers
  <1>5. ASSUME NEW T \in SUBSET S
        PROVE  T \in P
    BY <1>1, <1>4
  <1>6. QED
    BY <1>5

Chosen(s) == CHOOSE x \in s : TRUE

\* f sums w over the subsets of S in the order in which CHOOSE takes their elements.
Sums(f, w, S) ==
  /\ f \in [SUBSET S -> Int]
  /\ f[{}] = 0
  /\ \A s \in SUBSET S : s # {} => f[s] = w[Chosen(s)] + f[s \ {Chosen(s)}]

\* There is such a function.
LEMMA SumsExist ==
  ASSUME NEW S, IsFiniteSet(S), NEW w, \A x \in S : w[x] \in Int
  PROVE  \E f : Sums(f, w, S)
  <1> DEFINE Small(n) == {s \in SUBSET S : Cardinality(s) <= n}
             Part(g, n) == /\ g \in [Small(n) -> Int]
                           /\ g[{}] = 0
                           /\ \A s \in Small(n) : s # {} => g[s] = w[Chosen(s)] + g[s \ {Chosen(s)}]
             Q == {n \in Nat : \E g : Part(g, n)}
  <1>1. \A s \in SUBSET S : IsFiniteSet(s) /\ Cardinality(s) \in Nat
    BY FS_Subset, FS_CardinalityType
  <1>2. ASSUME NEW s \in SUBSET S, s # {}
        PROVE  /\ Chosen(s) \in S /\ s \ {Chosen(s)} \in SUBSET S
               /\ Cardinality(s \ {Chosen(s)}) = Cardinality(s) - 1
    <2>1. Chosen(s) \in s
      BY <1>2 DEF Chosen
    <2>2. QED
      BY <1>1, <2>1, FS_RemoveElement
  <1>3. 0 \in Q
    <2> DEFINE g == [s \in Small(0) |-> 0]
    <2>1. \A s \in Small(0) : s = {}
      <3>1. ASSUME NEW s \in Small(0)
            PROVE  s = {}
        <4>1. Cardinality(s) = 0
          BY <1>1
        <4>2. QED
          BY <1>1, <4>1, FS_EmptySet
      <3>2. QED
        BY <3>1
    <2>2. {} \in Small(0)
      BY FS_EmptySet
    <2>3. Part(g, 0)
      BY <2>1, <2>2
    <2>4. QED
      BY <2>3
  <1>4. ASSUME NEW n \in Q
        PROVE  n + 1 \in Q
    <2>1. PICK g : Part(g, n)
      BY <1>4
    <2> DEFINE h == [s \in Small(n + 1) |->
                       IF Cardinality(s) <= n THEN g[s] ELSE w[Chosen(s)] + g[s \ {Chosen(s)}]]
    <2>2. n \in Nat /\ {} \in Small(n) /\ {} \in Small(n + 1)
      BY FS_EmptySet
    <2>3. \A s \in Small(n + 1) : s # {} => s \ {Chosen(s)} \in Small(n) /\ s \ {Chosen(s)} \in Small(n + 1)
      BY <1>1, <1>2, <2>2
    <2>4. h \in [Small(n + 1) -> Int]
      <3>1. ASSUME NEW s \in Small(n + 1)
            PROVE  (IF Cardinality(s) <= n THEN g[s] ELSE w[Chosen(s)] + g[s \ {Chosen(s)}]) \in Int
        <4>1. CASE Cardinality(s) <= n
          BY <2>1, <4>1
        <4>2. CASE ~(Cardinality(s) <= n)
          <5>1. s # {}
            BY <2>2, <4>2, FS_EmptySet
          <5>2. w[Chosen(s)] \in Int /\ g[s \ {Chosen(s)}] \in Int
            BY <1>2, <2>1, <2>3, <5>1
          <5>3. QED
            BY <4>2, <5>2
        <4>3. QED
          BY <4>1, <4>2
      <3>2. QED
        BY <3>1
    <2>5. h[{}] = 0
      BY <2>1, <2>2
    <2>6. ASSUME NEW s \in Small(n + 1), s # {}
          PROVE  h[s] = w[Chosen(s)] + h[s \ {Chosen(s)}]
      <3>1. h[s \ {Chosen(s)}] = g[s \ {Chosen(s)}]
        BY <2>3, <2>6
      <3>2. CASE Cardinality(s) <= n
        <4>1. h[s] = g[s] /\ s \in Small(n)
          BY <3>2
        <4>2. g[s] = w[Chosen(s)] + g[s \ {Chosen(s)}]
          BY <2>1, <2>6, <4>1
        <4>3. QED
          BY <3>1, <4>1, <4>2
      <3>3. CASE ~(Cardinality(s) <= n)
        BY <3>1, <3>3
      <3>4. QED
        BY <3>2, <3>3
    <2>7. Part(h, n + 1)
      BY <2>4, <2>5, <2>6
    <2> HIDE DEF Part, h
    <2>8. \E x : Part(x, n + 1)
      BY <2>7
    <2>9. QED
      BY <2>2, <2>8
  <1>5. Q = Nat
    <2>1. Q \in SUBSET Nat /\ \A n \in Q : n + 1 \in Q
      BY <1>4
    <2> HIDE DEF Q
    <2>2. QED
      BY <1>3, <2>1, Numbers
  <1>6. PICK g : Part(g, Cardinality(S))
    BY <1>1, <1>5
  <1>7. Small(Cardinality(S)) = SUBSET S
    <2>1. \A s \in SUBSET S : Cardinality(s) <= Cardinality(S)
      BY FS_Subset
    <2>2. QED
      BY <2>1
  <1>8. Sums(g, w, S)
    BY <1>6, <1>7 DEF Sums
  <1>9. QED
    BY <1>8

\* A sum does not depend on that order.
LEMMA SumsAdd ==
  ASSUME NEW S, IsFiniteSet(S), NEW w, \A x \in S : w[x] \in Int, NEW f, Sums(f, w, S),
         NEW z \in SUBSET S, NEW y \in S \ z
  PROVE  f[z \cup {y}] = f[z] + w[y]
  <1> DEFINE Q == {n \in Nat : \A s \in SUBSET S : \A e \in S \ s :
                      Cardinality(s) <= n => f[s \cup {e}] = f[s] + w[e]}
  <1>1. \A s \in SUBSET S : IsFiniteSet(s) /\ Cardinality(s) \in Nat /\ f[s] \in Int
    BY FS_Subset, FS_CardinalityType DEF Sums
  <1>2. ASSUME NEW s \in SUBSET S, NEW e \in S \ s, Chosen(s \cup {e}) = e
        PROVE  f[s \cup {e}] = f[s] + w[e]
    <2>1. (s \cup {e}) \ {e} = s /\ s \cup {e} \in SUBSET S /\ s \cup {e} # {}
      OBVIOUS
    <2>2. f[s \cup {e}] = w[e] + f[s]
      BY <1>2, <2>1 DEF Sums
    <2>3. QED
      BY <1>1, <2>2
  <1>3. 0 \in Q
    <2>1. ASSUME NEW s \in SUBSET S, NEW e \in S \ s, Cardinality(s) <= 0
          PROVE  f[s \cup {e}] = f[s] + w[e]
      <3>1. s = {}
        BY <1>1, <2>1, FS_EmptySet
      <3>2. Chosen(s \cup {e}) = e
        BY <3>1 DEF Chosen
      <3>3. QED
        BY <1>2, <3>2
    <2>2. QED
      BY <2>1
  <1>4. ASSUME NEW n \in Q
        PROVE  n + 1 \in Q
    <2>1. ASSUME NEW s \in SUBSET S, NEW e \in S \ s, Cardinality(s) <= n + 1,
                 Chosen(s \cup {e}) # e
          PROVE  f[s \cup {e}] = f[s] + w[e]
      <3> DEFINE x == Chosen(s \cup {e})
                 r == s \ {x}
      <3>1. x \in s /\ x # e /\ x = Chosen(s \cup {e})
        BY <2>1 DEF Chosen
      <3> HIDE DEF x
      <3>2. /\ (s \cup {e}) \ {x} = r \cup {e} /\ r \cup {x} = s
            /\ r \in SUBSET S /\ e \in S \ r /\ x \in S \ r
            /\ s \cup {e} \in SUBSET S /\ s \cup {e} # {}
        <4>1. x \in s /\ x # e
          BY <3>1
        <4>2. (s \cup {e}) \ {x} = r \cup {e} /\ r \cup {x} = s
          BY <4>1
        <4>3. r \in SUBSET S /\ e \in S \ r /\ x \in S \ r
          BY <4>1
        <4>4. s \cup {e} \in SUBSET S /\ s \cup {e} # {}
          OBVIOUS
        <4>5. QED
          BY <4>2, <4>3, <4>4
      <3>3. Cardinality(r) <= n
        <4>1. Cardinality(r) = Cardinality(s) - 1
          BY <1>1, <3>1, FS_RemoveElement
        <4>2. QED
          BY <1>1, <2>1, <4>1
      <3>4. f[s \cup {e}] = w[x] + f[r \cup {e}]
        BY <3>1, <3>2 DEF Sums
      <3> HIDE DEF r
      <3>5. f[r \cup {e}] = f[r] + w[e] /\ f[s] = f[r] + w[x]
        BY <3>2, <3>3
      <3>6. w[x] \in Int /\ w[e] \in Int /\ f[r] \in Int
        BY <1>1, <3>2
      <3>7. QED
        BY <3>4, <3>5, <3>6
    <2>2. ASSUME NEW s \in SUBSET S, NEW e \in S \ s, Cardinality(s) <= n + 1
          PROVE  f[s \cup {e}] = f[s] + w[e]
      BY <1>2, <2>1, <2>2
    <2>3. QED
      BY <2>2
  <1>5. Q = Nat
    <2>1. Q \in SUBSET Nat /\ \A n \in Q : n + 1 \in Q
      BY <1>4
    <2> HIDE DEF Q
    <2>2. QED
      BY <1>3, <2>1, Numbers
  <1>6. ASSUME NEW s \in SUBSET S, NEW e \in S \ s
        PROVE  f[s \cup {e}] = f[s] + w[e]
    BY <1>1, <1>5
  <1>7. QED
    BY <1>6

\* SumOver is such a sum, over a set and over what is left of it without one element.
LEMMA SumIsOf ==
  ASSUME NEW S, IsFiniteSet(S), NEW w, \A x \in S : w[x] \in Int, NEW f, Sums(f, w, S),
         NEW T \in SUBSET S
  PROVE  SumOver(T, w) = f[T]
  <1> DEFINE Eq(g) == g = [s \in SUBSET T |->
                             IF s = {} THEN 0
                             ELSE w[CHOOSE x \in s : TRUE] + g[s \ {CHOOSE x \in s : TRUE}]]
             iter == CHOOSE g : Eq(g)
             h == [s \in SUBSET T |-> f[s]]
  <1>1. SumOver(T, w) = iter[T]
    BY DEF SumOver, MapThenSumSet, MapThenFoldSet
  <1>2. Eq(h)
    <2>1. ASSUME NEW s \in SUBSET T
          PROVE  h[s] = IF s = {} THEN 0
                        ELSE w[CHOOSE x \in s : TRUE] + h[s \ {CHOOSE x \in s : TRUE}]
      <3>1. s \in SUBSET S /\ s \ {Chosen(s)} \in SUBSET T
        OBVIOUS
      <3>2. s = {} => f[s] = 0
        BY DEF Sums
      <3>3. s # {} => f[s] = w[Chosen(s)] + f[s \ {Chosen(s)}]
        BY <3>1 DEF Sums
      <3>4. QED
        BY <3>1, <3>2, <3>3 DEF Chosen
    <2>2. QED
      BY <2>1
  <1>3. Eq(iter)
    <2> HIDE DEF Eq, h
    <2>1. QED
      BY <1>2
  <1> HIDE DEF iter
  <1>4. \A s \in SUBSET T : iter[s] = IF s = {} THEN 0
                                      ELSE w[Chosen(s)] + iter[s \ {Chosen(s)}]
    BY <1>3 DEF Chosen
  <1> HIDE DEF Eq, h
  <1> DEFINE Q == {n \in Nat : \A s \in SUBSET T : Cardinality(s) <= n => iter[s] = f[s]}
  <1>5. \A s \in SUBSET T : s \in SUBSET S /\ IsFiniteSet(s) /\ Cardinality(s) \in Nat
    BY FS_Subset, FS_CardinalityType
  <1>6. 0 \in Q
    <2>1. ASSUME NEW s \in SUBSET T, Cardinality(s) <= 0
          PROVE  iter[s] = f[s]
      <3>1. s = {}
        BY <1>5, <2>1, FS_EmptySet
      <3>2. QED
        BY <1>4, <3>1 DEF Sums
    <2>2. QED
      BY <2>1
  <1>7. ASSUME NEW n \in Q
        PROVE  n + 1 \in Q
    <2>1. ASSUME NEW s \in SUBSET T, Cardinality(s) <= n + 1, s # {}
          PROVE  iter[s] = f[s]
      <3>1. Chosen(s) \in s
        BY <2>1 DEF Chosen
      <3>2. Cardinality(s \ {Chosen(s)}) = Cardinality(s) - 1
        BY <1>5, <3>1, FS_RemoveElement
      <3>3. Cardinality(s \ {Chosen(s)}) <= n /\ s \ {Chosen(s)} \in SUBSET T
        BY <1>5, <2>1, <3>2
      <3>4. iter[s \ {Chosen(s)}] = f[s \ {Chosen(s)}]
        BY <3>3
      <3>5. f[s] = w[Chosen(s)] + f[s \ {Chosen(s)}]
        BY <1>5, <2>1 DEF Sums
      <3>6. QED
        BY <1>4, <2>1, <3>4, <3>5
    <2>2. ASSUME NEW s \in SUBSET T, s = {}
          PROVE  iter[s] = f[s]
      BY <1>4, <2>2 DEF Sums
    <2>3. QED
      BY <2>1, <2>2
  <1>8. Q = Nat
    <2>1. Q \in SUBSET Nat /\ \A n \in Q : n + 1 \in Q
      BY <1>7
    <2> HIDE DEF Q
    <2>2. QED
      BY <1>6, <2>1, Numbers
  <1>9. T \in SUBSET T /\ Cardinality(T) \in Nat /\ Cardinality(T) <= Cardinality(T)
    BY <1>5
  <1>10. iter[T] = f[T]
    BY <1>8, <1>9
  <1>11. QED
    BY <1>1, <1>10

\* The sum over nothing, and over one element more.
LEMMA SumParts ==
  ASSUME NEW S, IsFiniteSet(S), NEW w, \A x \in S : w[x] \in Int
  PROVE  /\ SumOver({}, w) = 0
         /\ \A T \in SUBSET S : SumOver(T, w) \in Int
         /\ \A T \in SUBSET S : \A e \in S \ T : SumOver(T \cup {e}, w) = SumOver(T, w) + w[e]
  <1>1. PICK f : Sums(f, w, S)
    BY SumsExist
  <1>2. \A T \in SUBSET S : SumOver(T, w) = f[T]
    BY <1>1, SumIsOf
  <1>3. ASSUME NEW T \in SUBSET S, NEW e \in S \ T
        PROVE  f[T \cup {e}] = f[T] + w[e]
    BY <1>1, SumsAdd
  <1>4. {} \in SUBSET S /\ f[{}] = 0 /\ \A T \in SUBSET S : f[T] \in Int
    BY <1>1 DEF Sums
  <1>5. ASSUME NEW T \in SUBSET S, NEW e \in S \ T
        PROVE  SumOver(T \cup {e}, w) = SumOver(T, w) + w[e]
    <2>1. T \cup {e} \in SUBSET S
      OBVIOUS
    <2>2. SumOver(T \cup {e}, w) = f[T \cup {e}] /\ SumOver(T, w) = f[T]
      BY <1>2, <2>1
    <2>3. QED
      BY <1>3, <2>2
  <1>6. QED
    BY <1>2, <1>4, <1>5

\* A sum and the sum with one element more.
LEMMA SumOne ==
  ASSUME NEW S, IsFiniteSet(S), NEW w, \A x \in S : w[x] \in Int, NEW T \in SUBSET S, NEW e \in S \ T
  PROVE  SumOver(T \cup {e}, w) = SumOver(T, w) + w[e] /\ SumOver(T, w) \in Int
  <1>1. SumOver(T, w) \in Int
    BY SumParts
  <1>2. \A R \in SUBSET S : \A x \in S \ R : SumOver(R \cup {x}, w) = SumOver(R, w) + w[x]
    <2>1. ASSUME NEW R \in SUBSET S, NEW x \in S \ R
          PROVE  SumOver(R \cup {x}, w) = SumOver(R, w) + w[x]
      BY SumParts
    <2>2. QED
      BY <2>1
  <1>3. QED
    BY <1>1, <1>2

\* Sums of the same numbers are the same.
LEMMA SumAgree ==
  ASSUME NEW S, IsFiniteSet(S), NEW w, NEW u, \A x \in S : w[x] \in Int /\ u[x] = w[x]
  PROVE  SumOver(S, w) = SumOver(S, u)
  <1> DEFINE P == {T \in SUBSET S : SumOver(T, w) = SumOver(T, u)}
  <1>1. \A x \in S : w[x] \in Int /\ u[x] \in Int
    OBVIOUS
  <1>2. {} \in P
    BY <1>1, SumParts
  <1>3. \A T \in P : \A e \in S \ T : T \cup {e} \in P
    <2>1. ASSUME NEW T \in P, NEW e \in S \ T
          PROVE  T \cup {e} \in P
      <3>1. T \in SUBSET S /\ SumOver(T, w) = SumOver(T, u) /\ w[e] = u[e] /\ T \cup {e} \in SUBSET S
        OBVIOUS
      <3>2. SumOver(T \cup {e}, w) = SumOver(T, w) + w[e]
        BY <1>1, <3>1, SumParts
      <3>3. SumOver(T \cup {e}, u) = SumOver(T, u) + u[e]
        BY <1>1, <3>1, SumParts
      <3>4. QED
        BY <3>1, <3>2, <3>3
    <2>2. QED
      BY <2>1
  <1>4. P \in SUBSET (SUBSET S)
    OBVIOUS
  <1>5. P = SUBSET S
    <2> HIDE DEF P
    <2>1. QED
      BY <1>2, <1>3, <1>4, FiniteSubsets
  <1>6. QED
    BY <1>5

\* A sum over some of the elements is one over all of them that counts the others as nothing.
LEMMA SumWithin ==
  ASSUME NEW S, IsFiniteSet(S), NEW T \in SUBSET S, NEW w, \A x \in T : w[x] \in Int
  PROVE  SumOver(T, w) = SumOver(S, [x \in S |-> IF x \in T THEN w[x] ELSE 0])
  <1> DEFINE u == [x \in S |-> IF x \in T THEN w[x] ELSE 0]
             P == {R \in SUBSET S : SumOver(R \cap T, w) = SumOver(R, u)}
  <1>1. /\ IsFiniteSet(T) /\ \A x \in S : u[x] \in Int
        /\ \A x \in S : u[x] = IF x \in T THEN w[x] ELSE 0
    BY FS_Subset
  <1> HIDE DEF u
  <1>2. {} \in P
    <2>1. SumOver({}, w) = 0 /\ SumOver({}, u) = 0 /\ {} \cap T = {}
      BY <1>1, SumParts
    <2>2. QED
      BY <2>1
  <1>3. \A R \in P : \A e \in S \ R : R \cup {e} \in P
    <2>1. ASSUME NEW R \in P, NEW e \in S \ R
          PROVE  R \cup {e} \in P
      <3>1. R \in SUBSET S /\ SumOver(R \cap T, w) = SumOver(R, u) /\ R \cup {e} \in SUBSET S
        OBVIOUS
      <3>2. SumOver(R \cup {e}, u) = SumOver(R, u) + u[e] /\ SumOver(R, u) \in Int
        BY <1>1, <3>1, SumParts
      <3>3. CASE e \in T
        <4>1. (R \cup {e}) \cap T = (R \cap T) \cup {e} /\ R \cap T \in SUBSET T /\ e \in T \ (R \cap T)
          BY <3>3
        <4>2. SumOver((R \cap T) \cup {e}, w) = SumOver(R \cap T, w) + w[e]
          <5>1. ASSUME NEW Q \in SUBSET T, NEW x \in T \ Q
                PROVE  SumOver(Q \cup {x}, w) = SumOver(Q, w) + w[x]
            BY <1>1, SumParts
          <5>2. QED
            BY <4>1, <5>1
        <4>3. u[e] = w[e]
          BY <1>1, <3>3
        <4>4. QED
          BY <3>1, <3>2, <4>1, <4>2, <4>3
      <3>4. CASE e \notin T
        <4>1. (R \cup {e}) \cap T = R \cap T
          BY <3>4
        <4>2. u[e] = 0
          BY <1>1, <3>4
        <4>3. SumOver(R \cup {e}, u) = SumOver(R, u)
          BY <3>2, <4>2
        <4>4. QED
          BY <3>1, <4>1, <4>3
      <3>5. QED
        BY <3>3, <3>4
    <2>2. QED
      BY <2>1
  <1>4. P \in SUBSET (SUBSET S)
    OBVIOUS
  <1>5. P = SUBSET S
    <2> HIDE DEF P
    <2>1. QED
      BY <1>2, <1>3, <1>4, FiniteSubsets
  <1>6. S \cap T = T /\ S \in P
    BY <1>5
  <1>7. QED
    BY <1>6 DEF u

\* Sums over two sets without a common element.
LEMMA SumUnion ==
  ASSUME NEW S, IsFiniteSet(S), NEW w, \A x \in S : w[x] \in Int,
         NEW A \in SUBSET S, NEW B \in SUBSET S, A \cap B = {}
  PROVE  SumOver(A \cup B, w) = SumOver(A, w) + SumOver(B, w)
  <1> DEFINE P == {T \in SUBSET B : SumOver(A \cup T, w) = SumOver(A, w) + SumOver(T, w)}
  <1>1. /\ SumOver({}, w) = 0
        /\ \A T \in SUBSET S : SumOver(T, w) \in Int
        /\ \A T \in SUBSET S : \A e \in S \ T : SumOver(T \cup {e}, w) = SumOver(T, w) + w[e]
    BY SumParts
  <1>2. {} \in P
    <2>1. A \cup {} = A
      OBVIOUS
    <2>2. QED
      BY <1>1, <2>1
  <1>3. \A T \in P : \A e \in B \ T : T \cup {e} \in P
    <2>1. ASSUME NEW T \in P, NEW e \in B \ T
          PROVE  T \cup {e} \in P
      <3>1. /\ T \in SUBSET S /\ A \cup T \in SUBSET S /\ e \in S \ T /\ e \in S \ (A \cup T)
            /\ A \cup (T \cup {e}) = (A \cup T) \cup {e} /\ T \cup {e} \in SUBSET B
        OBVIOUS
      <3>2. SumOver(A \cup T, w) = SumOver(A, w) + SumOver(T, w)
        OBVIOUS
      <3>3. /\ SumOver((A \cup T) \cup {e}, w) = SumOver(A \cup T, w) + w[e]
            /\ SumOver(T \cup {e}, w) = SumOver(T, w) + w[e]
        BY <1>1, <3>1
      <3>4. SumOver(A, w) \in Int /\ SumOver(T, w) \in Int /\ w[e] \in Int
        BY <1>1, <3>1
      <3>5. SumOver(A \cup (T \cup {e}), w) = SumOver(A, w) + SumOver(T \cup {e}, w)
        <4>1. SumOver(A \cup (T \cup {e}), w) = (SumOver(A, w) + SumOver(T, w)) + w[e]
          BY <3>1, <3>2, <3>3
        <4>2. (SumOver(A, w) + SumOver(T, w)) + w[e] = SumOver(A, w) + (SumOver(T, w) + w[e])
          BY <3>4
        <4>3. QED
          BY <3>3, <4>1, <4>2
      <3>6. QED
        BY <3>1, <3>5
    <2>2. QED
      BY <2>1
  <1>4. P \in SUBSET (SUBSET B) /\ IsFiniteSet(B)
    BY FS_Subset
  <1>5. P = SUBSET B
    <2> HIDE DEF P
    <2>1. QED
      BY <1>2, <1>3, <1>4, FiniteSubsets
  <1>6. QED
    BY <1>5

\* What holds of every element holds of the sums.
SumsCompare(S, a1, a2, a3, a4, a5, a6, b1, b2, b3, b4) ==
  SumOver(S, a1) + SumOver(S, a2) + SumOver(S, a3) + SumOver(S, a4) + SumOver(S, a5)
    + SumOver(S, a6) <= SumOver(S, b1) + SumOver(S, b2) + SumOver(S, b3) + SumOver(S, b4)
LEMMA SumCompare ==
  ASSUME NEW S, IsFiniteSet(S),
         NEW a1 \in [S -> Int], NEW a2 \in [S -> Int], NEW a3 \in [S -> Int],
         NEW a4 \in [S -> Int], NEW a5 \in [S -> Int], NEW a6 \in [S -> Int],
         NEW b1 \in [S -> Int], NEW b2 \in [S -> Int], NEW b3 \in [S -> Int], NEW b4 \in [S -> Int],
         \A x \in S : a1[x] + a2[x] + a3[x] + a4[x] + a5[x] + a6[x] <= b1[x] + b2[x] + b3[x] + b4[x]
  PROVE  SumsCompare(S, a1, a2, a3, a4, a5, a6, b1, b2, b3, b4)
  <1> DEFINE P == {T \in SUBSET S :
                     SumOver(T, a1) + SumOver(T, a2) + SumOver(T, a3) + SumOver(T, a4) + SumOver(T, a5)
                       + SumOver(T, a6)
                     <= SumOver(T, b1) + SumOver(T, b2) + SumOver(T, b3) + SumOver(T, b4)}
             Adds(w) == /\ SumOver({}, w) = 0
                        /\ \A T \in SUBSET S : SumOver(T, w) \in Int
                        /\ \A T \in SUBSET S : \A e \in S \ T :
                             SumOver(T \cup {e}, w) = SumOver(T, w) + w[e]
  <1>1. /\ Adds(a1) /\ Adds(a2) /\ Adds(a3) /\ Adds(a4) /\ Adds(a5) /\ Adds(a6)
        /\ Adds(b1) /\ Adds(b2) /\ Adds(b3) /\ Adds(b4)
    <2>1. ASSUME NEW w \in [S -> Int]
          PROVE  Adds(w)
      <3>1. \A x \in S : w[x] \in Int
        OBVIOUS
      <3>2. QED
        BY <3>1, SumParts
    <2> HIDE DEF Adds
    <2>2. QED
      BY <2>1
  <1>2. {} \in P
    BY <1>1
  <1>3. \A T \in P : \A e \in S \ T : T \cup {e} \in P
    <2>1. ASSUME NEW T \in P, NEW e \in S \ T
          PROVE  T \cup {e} \in P
      <3> DEFINE Step(w) == /\ SumOver(T, w) \in Int /\ w[e] \in Int
                            /\ SumOver(T \cup {e}, w) = SumOver(T, w) + w[e]
      <3>1. T \in SUBSET S /\ T \cup {e} \in SUBSET S
        OBVIOUS
      <3>2. ASSUME NEW w \in [S -> Int], Adds(w)
            PROVE  Step(w)
        BY <3>1, <3>2
      <3>3. /\ Step(a1) /\ Step(a2) /\ Step(a3) /\ Step(a4) /\ Step(a5) /\ Step(a6)
            /\ Step(b1) /\ Step(b2) /\ Step(b3) /\ Step(b4)
        <4> HIDE DEF Adds, Step
        <4>1. QED
          BY <1>1, <3>2
      <3>4. SumOver(T, a1) + SumOver(T, a2) + SumOver(T, a3) + SumOver(T, a4) + SumOver(T, a5)
              + SumOver(T, a6) <= SumOver(T, b1) + SumOver(T, b2) + SumOver(T, b3) + SumOver(T, b4)
        OBVIOUS
      <3>5. a1[e] + a2[e] + a3[e] + a4[e] + a5[e] + a6[e] <= b1[e] + b2[e] + b3[e] + b4[e]
        OBVIOUS
      <3> HIDE DEF Adds
      <3>6. SumOver(T \cup {e}, a1) + SumOver(T \cup {e}, a2) + SumOver(T \cup {e}, a3)
              + SumOver(T \cup {e}, a4) + SumOver(T \cup {e}, a5) + SumOver(T \cup {e}, a6)
            <= SumOver(T \cup {e}, b1) + SumOver(T \cup {e}, b2) + SumOver(T \cup {e}, b3)
                 + SumOver(T \cup {e}, b4)
        BY <3>3, <3>4, <3>5
      <3>7. QED
        BY <3>1, <3>6
    <2>2. QED
      BY <2>1
  <1>4. P \in SUBSET (SUBSET S)
    OBVIOUS
  <1>5. P = SUBSET S
    <2> HIDE DEF P
    <2>1. QED
      BY <1>2, <1>3, <1>4, FiniteSubsets
  <1>6. S \in P
    BY <1>5
  <1>7. QED
    BY <1>6 DEF SumsCompare

-----------------------------------------------------------------------------
(* The ledger of VolumeSpaceLedger. *)

Changes == [volume : Volume, bytes : Int]
Amount(c, v) == IF c.volume = v THEN c.bytes ELSE 0
Amounts(ledger, v) == [i \in DOMAIN ledger |-> Amount(ledger[i], v)]

\* The changes of a ledger to one volume are numbers.
LEMMA AmountsAre ==
  ASSUME NEW ledger \in Seq(Changes), NEW v
  PROVE  /\ Len(ledger) \in Nat /\ DOMAIN ledger = 1 .. Len(ledger) /\ IsFiniteSet(DOMAIN ledger)
         /\ \A i \in DOMAIN ledger : ledger[i] \in Changes /\ Amounts(ledger, v)[i] \in Int
         /\ \A i \in DOMAIN ledger : Amounts(ledger, v)[i] = Amount(ledger[i], v)
  <1>1. Len(ledger) \in Nat /\ DOMAIN ledger = 1 .. Len(ledger)
    OBVIOUS
  <1>2. IsFiniteSet(DOMAIN ledger)
    BY <1>1, FS_Interval
  <1>3. \A i \in DOMAIN ledger : ledger[i] \in Changes
    OBVIOUS
  <1>4. \A c \in Changes : Amount(c, v) \in Int
    BY DEF Changes, Amount
  <1>5. QED
    BY <1>1, <1>2, <1>3, <1>4 DEF Amounts

\* The level is the sum of the changes.
LEMMA LevelIs ==
  ASSUME NEW ledger \in Seq(Changes), NEW v
  PROVE  Level(ledger, v) = SumOver(DOMAIN ledger, Amounts(ledger, v))
  <1> DEFINE D == DOMAIN ledger
             w == Amounts(ledger, v)
             Eq(f) == f = [s \in SUBSET D |->
                             IF s = {} THEN 0
                             ELSE IF ledger[Max(s)].volume = v
                                  THEN f[s \ {Max(s)}] + ledger[Max(s)].bytes
                                  ELSE f[s \ {Max(s)}]]
             iter == CHOOSE f : Eq(f)
             count == [s \in SUBSET D |-> SumOver(s, w)]
  <1>1. Level(ledger, v) = iter[D]
    BY DEF Level, FoldLeft, MapThenFoldSet
  <1>2. /\ Len(ledger) \in Nat /\ D = 1 .. Len(ledger) /\ IsFiniteSet(D)
        /\ \A i \in D : w[i] \in Int /\ w[i] = Amount(ledger[i], v)
    BY AmountsAre
  <1> HIDE DEF D, w
  <1>3. ASSUME NEW s \in SUBSET D, s # {}
        PROVE  /\ Max(s) \in s /\ IsFiniteSet(s) /\ s \ {Max(s)} \in SUBSET D
               /\ Cardinality(s) \in Nat /\ Cardinality(s) # 0
               /\ Cardinality(s \ {Max(s)}) = Cardinality(s) - 1
    <2>1. Max(s) \in s /\ IsFiniteSet(s)
      BY <1>2, <1>3, MaxIsIn, FS_Subset
    <2>2. QED
      BY <1>3, <2>1, FS_CardinalityType, FS_RemoveElement, FS_EmptySet
  <1>4. ASSUME NEW s \in SUBSET D, s # {}
        PROVE  /\ SumOver(s \ {Max(s)}, w) \in Int
               /\ SumOver(s, w) = IF ledger[Max(s)].volume = v
                                  THEN SumOver(s \ {Max(s)}, w) + ledger[Max(s)].bytes
                                  ELSE SumOver(s \ {Max(s)}, w)
    <2> DEFINE m == Max(s)
               r == s \ {m}
    <2>1. m \in s
      BY <1>3, <1>4
    <2> HIDE DEF m
    <2>2. m \in D /\ r \in SUBSET D /\ m \in D \ r /\ r \cup {m} = s
      BY <2>1
    <2> HIDE DEF r
    <2>3. SumOver(r \cup {m}, w) = SumOver(r, w) + w[m] /\ SumOver(r, w) \in Int
      BY <1>2, <2>2, SumOne
    <2>4. w[m] = IF ledger[m].volume = v THEN ledger[m].bytes ELSE 0
      BY <1>2, <2>2 DEF Amount
    <2>5. SumOver(s, w) = SumOver(r, w) + w[m]
      BY <2>2, <2>3
    <2>6. SumOver(s, w) = IF ledger[m].volume = v THEN SumOver(r, w) + ledger[m].bytes ELSE SumOver(r, w)
      <3>1. CASE ledger[m].volume = v
        BY <2>4, <2>5, <3>1
      <3>2. CASE ledger[m].volume # v
        BY <2>3, <2>4, <2>5, <3>2
      <3>3. QED
        BY <3>1, <3>2
    <2>7. QED
      BY <2>3, <2>6 DEF m, r
  <1>5. SumOver({}, w) = 0
    BY <1>2, SumParts
  <1>6. Eq(iter)
    <2>1. \A s \in SUBSET D : count[s] = IF s = {} THEN 0
                                         ELSE IF ledger[Max(s)].volume = v
                                              THEN count[s \ {Max(s)}] + ledger[Max(s)].bytes
                                              ELSE count[s \ {Max(s)}]
      BY <1>3, <1>4, <1>5
    <2>2. count = [s \in SUBSET D |-> count[s]]
      OBVIOUS
    <2> HIDE DEF count
    <2>3. Eq(count)
      BY <2>1, <2>2
    <2>4. QED
      BY <2>3
  <1>7. \A s \in SUBSET D : iter[s] = IF s = {} THEN 0
                                      ELSE IF ledger[Max(s)].volume = v
                                           THEN iter[s \ {Max(s)}] + ledger[Max(s)].bytes
                                           ELSE iter[s \ {Max(s)}]
    <2> HIDE DEF iter
    <2>1. QED
      BY <1>6
  <1> HIDE DEF iter, Eq, count
  <1> DEFINE Q == {k \in Nat : \A s \in SUBSET D : Cardinality(s) = k => iter[s] = SumOver(s, w)}
  <1>8. 0 \in Q
    BY <1>3, <1>5, <1>7
  <1>9. ASSUME NEW k \in Q
        PROVE  k + 1 \in Q
    <2>1. ASSUME NEW s \in SUBSET D, Cardinality(s) = k + 1
          PROVE  iter[s] = SumOver(s, w)
      <3>1. k \in Nat /\ s # {}
        <4>1. k \in Nat /\ k + 1 # 0
          OBVIOUS
        <4>2. QED
          BY <2>1, <4>1, FS_EmptySet
      <3>2. s \ {Max(s)} \in SUBSET D /\ Cardinality(s \ {Max(s)}) = k
        BY <1>3, <2>1, <3>1
      <3>3. iter[s \ {Max(s)}] = SumOver(s \ {Max(s)}, w)
        BY <3>2
      <3>4. QED
        BY <1>4, <1>7, <3>1, <3>3
    <2>2. QED
      BY <2>1
  <1>10. Q = Nat
    <2>1. Q \in SUBSET Nat /\ \A k \in Q : k + 1 \in Q
      BY <1>9
    <2> HIDE DEF Q
    <2>2. QED
      BY <1>8, <2>1, Numbers
  <1>11. Cardinality(D) \in Nat /\ D \in SUBSET D
    BY <1>2, FS_CardinalityType
  <1>12. iter[D] = SumOver(D, w)
    BY <1>10, <1>11
  <1>13. QED
    BY <1>1, <1>12 DEF D, w

\* A ledger without changes is at 0.
LEMMA LevelOfNothing ==
  ASSUME NEW v
  PROVE  Level(<<>>, v) = 0
  <1>1. <<>> \in Seq(Changes) /\ DOMAIN <<>> = {}
    OBVIOUS
  <1>2. IsFiniteSet({}) /\ \A i \in {} : Amounts(<<>>, v)[i] \in Int
    BY FS_EmptySet
  <1>3. SumOver({}, Amounts(<<>>, v)) = 0
    BY <1>2, SumParts
  <1>4. QED
    BY <1>1, <1>3, LevelIs

\* A change moves the level by its amount.
LEMMA LevelAppend ==
  ASSUME NEW ledger \in Seq(Changes), NEW c \in Changes, NEW v
  PROVE  /\ Level(ledger, v) \in Int /\ Amount(c, v) \in Int
         /\ Level(Append(ledger, c), v) = Level(ledger, v) + Amount(c, v)
  <1> DEFINE n == Len(ledger)
             more == Append(ledger, c)
             w == Amounts(ledger, v)
             u == Amounts(more, v)
  <1>1. /\ n \in Nat /\ DOMAIN ledger = 1 .. n /\ IsFiniteSet(1 .. n) /\ \A i \in 1 .. n : w[i] \in Int
        /\ \A i \in 1 .. n : w[i] = Amount(ledger[i], v)
    BY AmountsAre
  <1>2. /\ more \in Seq(Changes) /\ Len(more) = n + 1 /\ more[n + 1] = c
        /\ \A i \in 1 .. n : more[i] = ledger[i]
    OBVIOUS
  <1>3. /\ DOMAIN more = 1 .. (n + 1) /\ IsFiniteSet(1 .. (n + 1)) /\ \A i \in 1 .. (n + 1) : u[i] \in Int
        /\ \A i \in 1 .. (n + 1) : u[i] = Amount(more[i], v)
    <2> HIDE DEF more
    <2>1. QED
      BY <1>2, AmountsAre
  <1> HIDE DEF n, more, w, u
  <1>4. /\ 1 .. n \in SUBSET (1 .. (n + 1)) /\ n + 1 \in (1 .. (n + 1)) \ (1 .. n)
        /\ (1 .. n) \cup {n + 1} = 1 .. (n + 1)
    BY <1>1
  <1>5. SumOver((1 .. n) \cup {n + 1}, u) = SumOver(1 .. n, u) + u[n + 1]
    <2> DEFINE S == 1 .. (n + 1)
               T == 1 .. n
    <2>1. IsFiniteSet(S) /\ (\A i \in S : u[i] \in Int) /\ T \in SUBSET S /\ n + 1 \in S \ T
      BY <1>3, <1>4
    <2> HIDE DEF S, T
    <2>2. SumOver(T \cup {n + 1}, u) = SumOver(T, u) + u[n + 1]
      BY <2>1, SumOne
    <2>3. QED
      BY <2>2 DEF T
  <1>6. \A i \in 1 .. n : u[i] = w[i]
    BY <1>1, <1>2, <1>3, <1>4
  <1>7. SumOver(1 .. n, w) = SumOver(1 .. n, u) /\ SumOver(1 .. n, w) \in Int
    BY <1>1, <1>6, SumAgree, SumParts
  <1>8. Level(ledger, v) = SumOver(1 .. n, w)
    BY <1>1, LevelIs DEF w
  <1>9. Level(more, v) = SumOver(1 .. (n + 1), u)
    BY <1>2, <1>3, LevelIs DEF u
  <1>10. u[n + 1] = Amount(c, v) /\ u[n + 1] \in Int
    BY <1>2, <1>3, <1>4
  <1>11. QED
    BY <1>4, <1>5, <1>7, <1>8, <1>9, <1>10 DEF more

\* Levels add up.
LEMMA LevelConcat ==
  ASSUME NEW a \in Seq(Changes), NEW b \in Seq(Changes), NEW v
  PROVE  /\ a \o b \in Seq(Changes)
         /\ Level(a, v) \in Int /\ Level(b, v) \in Int
         /\ Level(a \o b, v) = Level(a, v) + Level(b, v)
  <1> DEFINE part(k) == SubSeq(b, 1, k)
             Q == {k \in Nat : k <= Len(b) => /\ Level(part(k), v) \in Int
                                              /\ Level(a \o part(k), v) = Level(a, v) + Level(part(k), v)}
  <1>1. Len(b) \in Nat /\ \A i \in 1 .. Len(b) : b[i] \in Changes
    OBVIOUS
  <1>2. Level(a, v) \in Int
    <2>1. PICK c : c \in Changes
      <3>1. [volume |-> "install", bytes |-> 0] \in Changes
        BY DEF Changes, Volume
      <3>2. QED
        BY <3>1
    <2>2. QED
      BY <2>1, LevelAppend
  <1>3. part(0) = <<>> /\ a \o <<>> = a
    BY ConcatEmptySeq
  <1>4. 0 \in Q
    <2>1. Level(part(0), v) = 0 /\ Level(a \o part(0), v) = Level(a, v)
      BY <1>3, LevelOfNothing
    <2> HIDE DEF part
    <2>2. QED
      BY <1>2, <2>1
  <1>5. ASSUME NEW k \in Q
        PROVE  k + 1 \in Q
    <2>1. SUFFICES ASSUME k + 1 <= Len(b)
                   PROVE  /\ Level(part(k + 1), v) \in Int
                          /\ Level(a \o part(k + 1), v) = Level(a, v) + Level(part(k + 1), v)
      OBVIOUS
    <2> DEFINE c == b[k + 1]
               p == part(k)
    <2>2. k \in Nat /\ k <= Len(b) /\ k + 1 \in 1 .. Len(b) /\ c \in Changes /\ p \in Seq(Changes)
      BY <1>1, <2>1
    <2>3. Level(p, v) \in Int /\ Level(a \o p, v) = Level(a, v) + Level(p, v)
      BY <2>2
    <2>4. part(k + 1) = Append(p, c)
      BY <1>1, <2>1, <2>2, SubSeqRecursiveSecond
    <2> HIDE DEF part, p, c
    <2>5. a \o Append(p, c) = Append(a \o p, c) /\ a \o p \in Seq(Changes)
      BY <2>2
    <2>6. /\ Level(Append(p, c), v) = Level(p, v) + Amount(c, v) /\ Amount(c, v) \in Int
          /\ Level(Append(a \o p, c), v) = Level(a \o p, v) + Amount(c, v)
      BY <2>2, <2>5, LevelAppend
    <2>7. Level(a \o part(k + 1), v) = (Level(a, v) + Level(p, v)) + Amount(c, v)
      BY <2>3, <2>4, <2>5, <2>6
    <2>8. Level(part(k + 1), v) = Level(p, v) + Amount(c, v)
      BY <2>4, <2>6
    <2>9. QED
      BY <1>2, <2>3, <2>6, <2>7, <2>8
  <1>6. Q = Nat
    <2>1. Q \in SUBSET Nat /\ \A k \in Q : k + 1 \in Q
      BY <1>5
    <2> HIDE DEF Q
    <2>2. QED
      BY <1>4, <2>1, Numbers
  <1>7. part(Len(b)) = b
    BY SubSeqFull
  <1>8. Len(b) \in Q
    BY <1>1, <1>6
  <1>9. a \o b \in Seq(Changes)
    OBVIOUS
  <1> HIDE DEF part
  <1>10. Level(b, v) \in Int /\ Level(a \o b, v) = Level(a, v) + Level(b, v)
    BY <1>1, <1>7, <1>8
  <1>11. QED
    BY <1>2, <1>9, <1>10

-----------------------------------------------------------------------------
(* Peaks. *)

\* The peak of some levels is the highest of them and of 0.
LEMMA MaxIsMost ==
  ASSUME NEW n \in Nat, NEW h \in [1 .. n -> Int]
  PROVE  /\ Max({0} \cup {h[i] : i \in 1 .. n}) \in Int
         /\ 0 <= Max({0} \cup {h[i] : i \in 1 .. n})
         /\ \A i \in 1 .. n : h[i] <= Max({0} \cup {h[j] : j \in 1 .. n})
  <1> DEFINE All(k) == {0} \cup {h[i] : i \in 1 .. k}
             Q == {k \in Nat : k <= n => \E m \in All(k) : \A x \in All(k) : x <= m}
  <1>1. 0 \in Q
    <2>1. All(0) = {0}
      OBVIOUS
    <2> HIDE DEF All
    <2>2. QED
      BY <2>1
  <1>2. ASSUME NEW k \in Q
        PROVE  k + 1 \in Q
    <2>1. SUFFICES ASSUME k + 1 <= n
                   PROVE  \E m \in All(k + 1) : \A x \in All(k + 1) : x <= m
      OBVIOUS
    <2>2. k \in Nat /\ k <= n /\ k + 1 \in 1 .. n /\ h[k + 1] \in Int
      BY <2>1
    <2>3. PICK m \in All(k) : \A x \in All(k) : x <= m
      BY <2>2
    <2>4. All(k + 1) = All(k) \cup {h[k + 1]} /\ All(k) \subseteq Int
      <3>1. 1 .. (k + 1) = (1 .. k) \cup {k + 1} /\ 1 .. k \subseteq 1 .. n
        BY <2>2
      <3>2. QED
        BY <3>1
    <2> HIDE DEF All
    <2>5. CASE h[k + 1] <= m
      BY <2>2, <2>3, <2>4, <2>5
    <2>6. CASE ~(h[k + 1] <= m)
      <3>1. \A x \in All(k) : x <= h[k + 1]
        BY <2>2, <2>3, <2>4, <2>6
      <3>2. QED
        BY <2>2, <2>4, <3>1
    <2>7. QED
      BY <2>5, <2>6
  <1>3. Q = Nat
    <2>1. Q \in SUBSET Nat /\ \A k \in Q : k + 1 \in Q
      BY <1>2
    <2> HIDE DEF Q
    <2>2. QED
      BY <1>1, <2>1, Numbers
  <1>4. \E m \in All(n) : \A x \in All(n) : x <= m
    <2> HIDE DEF All
    <2>1. n \in Q /\ n <= n
      BY <1>3
    <2>2. QED
      BY <2>1
  <1>5. All(n) \subseteq Int
    OBVIOUS
  <1>6. Max(All(n)) \in All(n) /\ \A x \in All(n) : x <= Max(All(n))
    <2> HIDE DEF All
    <2>1. \E m \in All(n) : \A x \in All(n) : m >= x
      BY <1>4, <1>5
    <2>2. Max(All(n)) \in All(n) /\ \A x \in All(n) : Max(All(n)) >= x
      BY <2>1 DEF Max
    <2>3. QED
      BY <1>5, <2>2
  <1>7. QED
    BY <1>5, <1>6

\* A peak is no lower than the level after any of the first changes.
LEMMA PeakCovers ==
  ASSUME NEW a \in Seq(Changes), NEW b \in Seq(Changes), NEW v
  PROVE  Peak(a \o b, v) \in Int /\ 0 <= Peak(a \o b, v) /\ Level(a, v) <= Peak(a \o b, v)
  <1> DEFINE all == a \o b
             n == Len(all)
             h == [i \in 1 .. n |-> Level(SubSeq(all, 1, i), v)]
  <1>1. /\ all \in Seq(Changes) /\ n \in Nat /\ DOMAIN all = 1 .. n /\ n = Len(a) + Len(b)
        /\ Len(a) \in Nat /\ Len(b) \in Nat
    OBVIOUS
  <1>2. SubSeq(all, 1, Len(a)) = a
    OBVIOUS
  <1>3. \A s \in Seq(Changes) : Level(s, v) \in Int
    BY LevelConcat
  <1> HIDE DEF all
  <1>4. h \in [1 .. n -> Int]
    <2>1. \A i \in 1 .. n : SubSeq(all, 1, i) \in Seq(Changes)
      BY <1>1
    <2>2. QED
      BY <1>3, <2>1
  <1>5. Peak(all, v) = Max({0} \cup {h[i] : i \in 1 .. n})
    <2>1. {Level(SubSeq(all, 1, i), v) : i \in DOMAIN all} = {h[i] : i \in 1 .. n}
      BY <1>1
    <2>2. QED
      BY <2>1 DEF Peak
  <1> HIDE DEF n
  <1>6. /\ Peak(all, v) \in Int /\ 0 <= Peak(all, v)
        /\ \A i \in 1 .. n : h[i] <= Peak(all, v)
    <2> HIDE DEF h
    <2>1. QED
      BY <1>1, <1>4, <1>5, MaxIsMost
  <1>7. CASE a = <<>>
    BY <1>6, <1>7, LevelOfNothing DEF all
  <1>8. CASE a # <<>>
    <2>1. Len(a) \in 1 .. n
      <3>1. Len(a) # 0
        BY <1>8
      <3>2. QED
        BY <1>1, <3>1
    <2>2. h[Len(a)] = Level(a, v)
      BY <1>2, <2>1
    <2>3. QED
      BY <1>6, <2>1, <2>2 DEF all
  <1>9. QED
    BY <1>7, <1>8

\* The sequences joined so far.
IsFlat(A, seqs, f) ==
  /\ f \in [0 .. Len(seqs) -> Seq(A)] /\ f[0] = <<>>
  /\ \A i \in 1 .. Len(seqs) : f[i] = f[i - 1] \o seqs[i]
LEMMA FlatExists ==
  ASSUME NEW A, NEW seqs \in Seq(Seq(A))
  PROVE  \E f : IsFlat(A, seqs, f)
  <1> DEFINE n == Len(seqs)
             Part(f, k) == /\ f \in [0 .. k -> Seq(A)] /\ f[0] = <<>>
                           /\ \A i \in 1 .. k : f[i] = f[i - 1] \o seqs[i]
             Q == {k \in Nat : k <= n => \E f : Part(f, k)}
  <1>1. n \in Nat /\ \A i \in 1 .. n : seqs[i] \in Seq(A)
    OBVIOUS
  <1> HIDE DEF n
  <1>2. 0 \in Q
    <2> DEFINE f == [i \in 0 .. 0 |-> <<>>]
    <2>1. Part(f, 0)
      OBVIOUS
    <2> HIDE DEF Part, f
    <2>2. QED
      BY <2>1
  <1>3. ASSUME NEW k \in Q
        PROVE  k + 1 \in Q
    <2>1. SUFFICES ASSUME k + 1 <= n
                   PROVE  \E f : Part(f, k + 1)
      <3> HIDE DEF Part
      <3>1. QED
        OBVIOUS
    <2>2. k \in Nat /\ k <= n /\ k + 1 \in 1 .. n /\ (k + 1) - 1 = k /\ k \in 0 .. k /\ k + 1 \notin 0 .. k
      BY <1>1, <2>1
    <2>3. PICK f : Part(f, k)
      <3> HIDE DEF Part
      <3>1. QED
        BY <2>2
    <2> DEFINE last == f[k] \o seqs[k + 1]
               h == [i \in 0 .. (k + 1) |-> IF i = k + 1 THEN last ELSE f[i]]
    <2>4. last \in Seq(A)
      BY <1>1, <2>2, <2>3
    <2>5. \A i \in 0 .. (k + 1) : i = k + 1 \/ i \in 0 .. k
      BY <2>2
    <2> HIDE DEF last
    <2>6. h \in [0 .. (k + 1) -> Seq(A)] /\ h[0] = <<>>
      BY <2>2, <2>3, <2>4, <2>5
    <2>7. ASSUME NEW i \in 1 .. (k + 1)
          PROVE  h[i] = h[i - 1] \o seqs[i]
      <3>1. CASE i = k + 1
        <4>1. i \in 0 .. (k + 1) /\ k \in 0 .. (k + 1) /\ k # k + 1
          BY <2>2, <3>1
        <4>2. h[i] = last /\ h[k] = f[k]
          BY <3>1, <4>1
        <4>3. QED
          BY <2>2, <3>1, <4>2 DEF last
      <3>2. CASE i # k + 1
        <4>1. /\ i \in 1 .. k /\ i \in 0 .. (k + 1) /\ i - 1 \in 0 .. (k + 1) /\ i - 1 # k + 1
          BY <2>2, <3>2
        <4>2. h[i] = f[i] /\ h[i - 1] = f[i - 1]
          BY <3>2, <4>1
        <4>3. QED
          BY <2>3, <4>1, <4>2
      <3>3. QED
        BY <3>1, <3>2
    <2> HIDE DEF h
    <2>8. Part(h, k + 1)
      BY <2>6, <2>7
    <2> HIDE DEF Part
    <2>9. QED
      BY <2>8
  <1>4. Q = Nat
    <2>1. Q \in SUBSET Nat /\ \A k \in Q : k + 1 \in Q
      BY <1>3
    <2> HIDE DEF Q
    <2>2. QED
      BY <1>2, <2>1, Numbers
  <1>5. PICK f : Part(f, n)
    <2> HIDE DEF Part
    <2>1. n \in Q /\ n \in Nat /\ n <= n
      <3> HIDE DEF Q
      <3>1. QED
        BY <1>1, <1>4
    <2>2. QED
      BY <2>1
  <1>6. IsFlat(A, seqs, f)
    BY <1>5 DEF IsFlat, n
  <1>7. QED
    BY <1>6

\* FlattenSeq is what is joined last.
LEMMA FlattenIs ==
  ASSUME NEW A, NEW seqs \in Seq(Seq(A)), NEW f, IsFlat(A, seqs, f)
  PROVE  FlattenSeq(seqs) = f[Len(seqs)] /\ FlattenSeq(seqs) \in Seq(A)
  <1> DEFINE n == Len(seqs)
             Eq(g) == g = [i \in 1 .. n |-> IF i = 1 THEN seqs[i] ELSE g[i - 1] \o seqs[i]]
             flatten == CHOOSE g : Eq(g)
  <1>1. n \in Nat /\ \A i \in 1 .. n : seqs[i] \in Seq(A)
    OBVIOUS
  <1>2. f[n] \in Seq(A)
    <2>1. n \in 0 .. n
      BY <1>1
    <2> HIDE DEF n
    <2>2. QED
      BY <2>1 DEF IsFlat, n
  <1>3. CASE n = 0
    <2>1. seqs = <<>>
      BY <1>3
    <2>2. FlattenSeq(seqs) = seqs
      BY <1>3 DEF FlattenSeq
    <2>3. QED
      BY <1>2, <1>3, <2>1, <2>2 DEF IsFlat
  <1>4. CASE n # 0
    <2>1. FlattenSeq(seqs) = flatten[n]
      BY <1>4 DEF FlattenSeq
    <2> HIDE DEF n
    <2>2. f \in [0 .. n -> Seq(A)] /\ f[0] = <<>> /\ \A i \in 1 .. n : f[i] = f[i - 1] \o seqs[i]
      BY DEF IsFlat, n
    <2> DEFINE h == [i \in 1 .. n |-> f[i]]
    <2>3. Eq(h)
      <3>1. ASSUME NEW i \in 1 .. n
            PROVE  h[i] = IF i = 1 THEN seqs[i] ELSE h[i - 1] \o seqs[i]
        <4>1. CASE i = 1
          <5>1. f[1] = f[0] \o seqs[1] /\ seqs[1] \in Seq(A)
            <6>1. f[i] = f[i - 1] \o seqs[i] /\ seqs[i] \in Seq(A)
              BY <1>1, <2>2
            <6>2. i - 1 = 0
              BY <4>1
            <6>3. QED
              BY <4>1, <6>1, <6>2
          <5>2. <<>> \o seqs[1] = seqs[1]
            BY <5>1, ConcatEmptySeq
          <5>3. QED
            BY <2>2, <4>1, <5>1, <5>2
        <4>2. CASE i # 1
          <5>1. i - 1 \in 1 .. n
            BY <1>1, <4>2
          <5>2. QED
            BY <2>2, <4>2, <5>1
        <4>3. QED
          BY <4>1, <4>2
      <3>2. QED
        BY <3>1
    <2>4. Eq(flatten)
      <3> HIDE DEF Eq, h
      <3>1. QED
        BY <2>3
    <2> HIDE DEF flatten
    <2>5. \A i \in 1 .. n : flatten[i] = IF i = 1 THEN seqs[i] ELSE flatten[i - 1] \o seqs[i]
      BY <2>4
    <2> DEFINE Q == {i \in Nat : i + 1 <= n => flatten[i + 1] = f[i + 1]}
    <2>6. 0 \in Q
      <3>1. 1 \in 1 .. n /\ h[1] = f[1]
        BY <1>1, <1>4
      <3>2. h[1] = seqs[1]
        BY <2>3, <3>1
      <3>3. flatten[1] = seqs[1]
        BY <2>5, <3>1
      <3>4. QED
        BY <3>1, <3>2, <3>3
    <2>7. ASSUME NEW i \in Q
          PROVE  i + 1 \in Q
      <3>1. SUFFICES ASSUME (i + 1) + 1 <= n
                     PROVE  flatten[(i + 1) + 1] = f[(i + 1) + 1]
        OBVIOUS
      <3> DEFINE j == (i + 1) + 1
      <3>2. i \in Nat /\ j \in 1 .. n /\ j # 1 /\ j - 1 = i + 1 /\ i + 1 <= n
        BY <1>1, <3>1
      <3>3. flatten[i + 1] = f[i + 1]
        BY <3>2
      <3> HIDE DEF j
      <3>4. flatten[j] = flatten[j - 1] \o seqs[j] /\ f[j] = f[j - 1] \o seqs[j]
        BY <2>2, <2>5, <3>2
      <3>5. flatten[j] = f[j]
        BY <3>2, <3>3, <3>4
      <3>6. QED
        BY <3>5 DEF j
    <2>8. Q = Nat
      <3>1. Q \in SUBSET Nat /\ \A i \in Q : i + 1 \in Q
        BY <2>7
      <3> HIDE DEF Q
      <3>2. QED
        BY <2>6, <3>1, Numbers
    <2>9. n - 1 \in Nat /\ (n - 1) + 1 = n
      BY <1>1, <1>4
    <2>10. flatten[n] = f[n]
      BY <2>8, <2>9
    <2>11. QED
      BY <1>2, <2>1, <2>10 DEF n
  <1>5. QED
    BY <1>3, <1>4

-----------------------------------------------------------------------------
(* What the ledger of a plan says before and after a wave. *)

\* saturating_sub.
LEMMA LargerOfZero ==
  ASSUME NEW n \in Int
  PROVE  Max({0, n}) = IF n >= 0 THEN n ELSE 0
  <1>1. \E x \in {0, n} : \A y \in {0, n} : x >= y
    BY DEF Max
  <1>2. Max({0, n}) \in {0, n} /\ \A y \in {0, n} : Max({0, n}) >= y
    BY <1>1 DEF Max
  <1>3. QED
    BY <1>2

Locals(p, S) == {e \in S : p.kind[e] = "local"}
Hdiffs(p, S) == {e \in S : p.kind[e] = "hdiff"}
Writes(p, S) == {e \in S : p.kind[e] \in {"local", "hdiff"}}
Freed(p, S) == {f \in (Bases(p) \cap Deleted) \ Entries : Consumers(p, f) \subseteq S}
LocalOutput == [e \in Entries |-> IF StageVolume # VfsVolume THEN NewSize[e]
                                  ELSE Max({0, NewSize[e] - PayloadSize[e]})]
Staging(p) == [e \in Entries |->
                IF p.kind[e] = "hdiff" \/ StageVolume # VfsVolume THEN PayloadSize[e]
                ELSE Max({0, PayloadSize[e] - NewSize[e]})]

\* What the waves have changed on volume v when the outputs of S are reserved and those of E committed.
Spent(p, t, E, S, v) ==
  (IF v = VfsVolume THEN (SumOver(Locals(p, S), LocalOutput) + SumOver(Hdiffs(p, S), NewSize))
                           - (SumOver(Writes(p, E), t) + SumOver(Freed(p, E), t)) ELSE 0)
    - (IF v = StageVolume THEN SumOver(Writes(p, E), Staging(p)) ELSE 0)

Sized == [File -> Nat]

\* Sizes are numbers, whether or not a work directory splits staging from the outputs.
LEMMA SizeFacts ==
  /\ IsFiniteSet(File) /\ IsFiniteSet(Entries) /\ Entries \subseteq File
  /\ NewSize \in Sized /\ OldSize \in Sized /\ PayloadSize \in Sized
  /\ \A e \in Entries : /\ LocalOutput[e] \in Nat
                        /\ StageVolume # VfsVolume => LocalOutput[e] = NewSize[e]
                        /\ StageVolume = VfsVolume =>
                             LocalOutput[e] = IF NewSize[e] >= PayloadSize[e]
                                              THEN NewSize[e] - PayloadSize[e] ELSE 0
  /\ \A p : \A e \in Entries :
       /\ Staging(p)[e] \in Nat
       /\ p.kind[e] = "hdiff" \/ StageVolume # VfsVolume => Staging(p)[e] = PayloadSize[e]
       /\ p.kind[e] # "hdiff" /\ StageVolume = VfsVolume =>
            Staging(p)[e] = IF PayloadSize[e] >= NewSize[e] THEN PayloadSize[e] - NewSize[e] ELSE 0
  <1>1. /\ IsFiniteSet(File) /\ IsFiniteSet(Entries) /\ Entries \subseteq File
        /\ NewSize \in Sized /\ OldSize \in Sized /\ PayloadSize \in Sized
    BY EntryFacts, PatchAssumption DEF Sized
  <1>2. ASSUME NEW e \in Entries
        PROVE  /\ NewSize[e] \in Nat /\ PayloadSize[e] \in Nat
               /\ Max({0, NewSize[e] - PayloadSize[e]}) =
                    IF NewSize[e] >= PayloadSize[e] THEN NewSize[e] - PayloadSize[e] ELSE 0
               /\ Max({0, PayloadSize[e] - NewSize[e]}) =
                    IF PayloadSize[e] >= NewSize[e] THEN PayloadSize[e] - NewSize[e] ELSE 0
    <2>1. NewSize[e] \in Nat /\ PayloadSize[e] \in Nat
      BY <1>1 DEF Sized
    <2> DEFINE n == NewSize[e] - PayloadSize[e]
               m == PayloadSize[e] - NewSize[e]
    <2>2. n \in Int /\ m \in Int /\ (n >= 0 <=> NewSize[e] >= PayloadSize[e])
          /\ (m >= 0 <=> PayloadSize[e] >= NewSize[e])
      BY <2>1
    <2> HIDE DEF n, m
    <2>3. Max({0, n}) = (IF n >= 0 THEN n ELSE 0) /\ Max({0, m}) = (IF m >= 0 THEN m ELSE 0)
      BY <2>2, LargerOfZero
    <2>4. QED
      BY <2>1, <2>2, <2>3 DEF n, m
  <1>3. ASSUME NEW e \in Entries
        PROVE  /\ LocalOutput[e] \in Nat
               /\ StageVolume # VfsVolume => LocalOutput[e] = NewSize[e]
               /\ StageVolume = VfsVolume =>
                    LocalOutput[e] = IF NewSize[e] >= PayloadSize[e]
                                     THEN NewSize[e] - PayloadSize[e] ELSE 0
    <2> DEFINE m == Max({0, NewSize[e] - PayloadSize[e]})
    <2>1. LocalOutput[e] = IF StageVolume # VfsVolume THEN NewSize[e] ELSE m
      BY DEF LocalOutput
    <2>2. /\ NewSize[e] \in Nat /\ PayloadSize[e] \in Nat
          /\ m = IF NewSize[e] >= PayloadSize[e] THEN NewSize[e] - PayloadSize[e] ELSE 0
      BY <1>2
    <2> HIDE DEF m
    <2>3. QED
      BY <2>1, <2>2
  <1>4. ASSUME NEW p, NEW e \in Entries
        PROVE  /\ Staging(p)[e] \in Nat
               /\ p.kind[e] = "hdiff" \/ StageVolume # VfsVolume => Staging(p)[e] = PayloadSize[e]
               /\ p.kind[e] # "hdiff" /\ StageVolume = VfsVolume =>
                    Staging(p)[e] = IF PayloadSize[e] >= NewSize[e]
                                    THEN PayloadSize[e] - NewSize[e] ELSE 0
    <2> DEFINE m == Max({0, PayloadSize[e] - NewSize[e]})
               kept == p.kind[e] = "hdiff" \/ StageVolume # VfsVolume
    <2>1. Staging(p)[e] = IF kept THEN PayloadSize[e] ELSE m
      BY DEF Staging
    <2>2. /\ NewSize[e] \in Nat /\ PayloadSize[e] \in Nat
          /\ m = IF PayloadSize[e] >= NewSize[e] THEN PayloadSize[e] - NewSize[e] ELSE 0
      BY <1>2
    <2> HIDE DEF m
    <2>3. kept => Staging(p)[e] = PayloadSize[e]
      BY <2>1
    <2>4. ~kept => Staging(p)[e] = m
      BY <2>1
    <2> HIDE DEF kept
    <2>5. Staging(p)[e] \in Nat
      BY <2>2, <2>3, <2>4
    <2>6. QED
      BY <2>2, <2>3, <2>4, <2>5 DEF kept
  <1>5. QED
    BY <1>1, <1>3, <1>4

\* Sums of sizes are numbers, and add up over disjoint sets.
LEMMA SizesAdd ==
  ASSUME NEW w, \A e \in File : w[e] \in Int
  PROVE  /\ SumOver({}, w) = 0
         /\ \A S \in SUBSET File : SumOver(S, w) \in Int
         /\ \A S, T \in SUBSET File : S \cap T = {} => SumOver(S \cup T, w) = SumOver(S, w) + SumOver(T, w)
  <1>1. ASSUME NEW S \in SUBSET File, NEW T \in SUBSET File, S \cap T = {}
        PROVE  SumOver(S \cup T, w) = SumOver(S, w) + SumOver(T, w)
    BY <1>1, SizeFacts, SumUnion
  <1>2. SumOver({}, w) = 0
    BY SizeFacts, SumParts
  <1>3. ASSUME NEW S \in SUBSET File
        PROVE  SumOver(S, w) \in Int
    BY SizeFacts, SumParts
  <1>4. QED
    BY <1>1, <1>2, <1>3

\* The same for sizes of entries.
LEMMA EntrySizesAdd ==
  ASSUME NEW w, \A e \in Entries : w[e] \in Int
  PROVE  /\ SumOver({}, w) = 0
         /\ \A S \in SUBSET Entries : SumOver(S, w) \in Int
         /\ \A S, T \in SUBSET Entries :
              S \cap T = {} => SumOver(S \cup T, w) = SumOver(S, w) + SumOver(T, w)
  <1>1. ASSUME NEW S \in SUBSET Entries, NEW T \in SUBSET Entries, S \cap T = {}
        PROVE  SumOver(S \cup T, w) = SumOver(S, w) + SumOver(T, w)
    BY <1>1, SizeFacts, SumUnion
  <1>2. SumOver({}, w) = 0
    BY SizeFacts, SumParts
  <1>3. ASSUME NEW S \in SUBSET Entries
        PROVE  SumOver(S, w) \in Int
    BY SizeFacts, SumParts
  <1>4. QED
    BY <1>1, <1>2, <1>3

\* The level after two changes.
LEMMA LevelOfTwo ==
  ASSUME NEW c \in Changes, NEW d \in Changes, NEW v
  PROVE  /\ <<c, d>> \in Seq(Changes) /\ Amount(c, v) \in Int /\ Amount(d, v) \in Int
         /\ Level(<<c, d>>, v) = Amount(c, v) + Amount(d, v)
  <1> DEFINE none == <<>>
             one == Append(none, c)
  <1>1. none \in Seq(Changes) /\ one \in Seq(Changes) /\ <<c, d>> \in Seq(Changes)
    OBVIOUS
  <1> DEFINE two == Append(one, d)
  <1>2. <<c, d>> = two
    OBVIOUS
  <1>3. Level(none, v) = 0
    BY LevelOfNothing
  <1> HIDE DEF none
  <1>4. Level(one, v) = Level(none, v) + Amount(c, v) /\ Amount(c, v) \in Int
    BY <1>1, LevelAppend
  <1> HIDE DEF one
  <1>5. Level(two, v) = Level(one, v) + Amount(d, v) /\ Amount(d, v) \in Int
    BY <1>1, LevelAppend
  <1> HIDE DEF two
  <1>6. Level(two, v) = Amount(c, v) + Amount(d, v)
    BY <1>3, <1>4, <1>5
  <1>7. Level(<<c, d>>, v) = Level(two, v)
    BY <1>2
  <1>8. QED
    BY <1>1, <1>4, <1>5, <1>6, <1>7

\* The outputs of a wave, and the copies of its HDiff outputs from a work directory.
Outputs(p, W) == <<Change(VfsVolume, SumOver(Locals(p, W), LocalOutput)),
                   Change(IF work THEN "work" ELSE VfsVolume, SumOver(Hdiffs(p, W), NewSize))>>
Copies(p, W) == IF work THEN <<Change(VfsVolume, SumOver(Hdiffs(p, W), NewSize)),
                               Change("work", -SumOver(Hdiffs(p, W), NewSize))>> ELSE <<>>

\* A change is one of its volume only.
LEMMA ChangeIs ==
  ASSUME NEW u \in Volume, NEW n \in Int, NEW v
  PROVE  /\ Change(u, n) \in Changes
         /\ Amount(Change(u, n), v) = IF v = u THEN n ELSE 0
  BY DEF Change, Changes, Amount

\* The volumes of the outputs and of the staging directory.
LEMMA VolumesAre ==
  /\ VfsVolume \in Volume /\ StageVolume \in Volume /\ VfsVolume # "work" /\ "work" \in Volume
  /\ "external" \in Volume /\ "install" \in Volume /\ StageVolume # "external"
  /\ work => StageVolume = "work"
  BY DEF VfsVolume, StageVolume, Volume

\* Sums over the entries of a wave.
LEMMA WaveSums ==
  ASSUME NEW p, NEW W \in SUBSET Entries
  PROVE  /\ SumOver(Locals(p, W), LocalOutput) \in Int
         /\ SumOver(Hdiffs(p, W), NewSize) \in Int
         /\ SumOver(Writes(p, W), Staging(p)) \in Int
         /\ \A t \in Sized : SumOver(Writes(p, W), t) \in Int
         /\ Locals(p, W) \in SUBSET Entries /\ Hdiffs(p, W) \in SUBSET Entries
         /\ Writes(p, W) \in SUBSET Entries
  <1>1. /\ Locals(p, W) \in SUBSET Entries /\ Hdiffs(p, W) \in SUBSET Entries
        /\ Writes(p, W) \in SUBSET Entries
    BY DEF Locals, Hdiffs, Writes
  <1> DEFINE Summed(w) == \A S \in SUBSET Entries : SumOver(S, w) \in Int
  <1>2. ASSUME NEW w, \A e \in Entries : w[e] \in Int
        PROVE  Summed(w)
    <2> SUFFICES ASSUME NEW S \in SUBSET Entries
                 PROVE  SumOver(S, w) \in Int
      OBVIOUS
    <2>1. QED
      BY <1>2, EntrySizesAdd
  <1> HIDE DEF Summed
  <1>3. Summed(LocalOutput)
    BY <1>2, SizeFacts
  <1>4. \A e \in Entries : NewSize[e] \in Int
    BY SizeFacts DEF Sized
  <1>5. Summed(NewSize)
    BY <1>2, <1>4
  <1>6. \A e \in Entries : Staging(p)[e] \in Int
    BY SizeFacts
  <1>7. Summed(Staging(p))
    BY <1>2, <1>6
  <1>8. ASSUME NEW t \in Sized
        PROVE  Summed(t)
    <2>1. \A e \in Entries : t[e] \in Int
      BY SizeFacts DEF Sized
    <2>2. QED
      BY <1>2, <2>1
  <1>9. QED
    BY <1>1, <1>3, <1>5, <1>7, <1>8 DEF Summed

\* reserve_wave_outputs raises the outputs' volume by the outputs; with a work directory that has
\* held the HDiff outputs first.
LEMMA ReserveLevel ==
  ASSUME NEW p, NEW t, NEW W \in SUBSET Entries, NEW v
  PROVE  /\ ReserveWave(p, t, W) = Outputs(p, W) \o Copies(p, W)
         /\ Outputs(p, W) \in Seq(Changes) /\ Copies(p, W) \in Seq(Changes)
         /\ Level(ReserveWave(p, t, W), v) =
              IF v = VfsVolume THEN SumOver(Locals(p, W), LocalOutput) + SumOver(Hdiffs(p, W), NewSize)
                               ELSE 0
         /\ work => Level(Outputs(p, W), "work") = SumOver(Hdiffs(p, W), NewSize)
  <1> DEFINE local == SumOver(Locals(p, W), LocalOutput)
             output == SumOver(Hdiffs(p, W), NewSize)
             from == IF work THEN "work" ELSE VfsVolume
  <1>1. ReserveWave(p, t, W) = Outputs(p, W) \o Copies(p, W)
    BY DEF ReserveWave, Outputs, Copies, Locals, Hdiffs, LocalOutput
  <1>2. local \in Int /\ output \in Int /\ -output \in Int
    BY WaveSums
  <1>3. /\ Outputs(p, W) = <<Change(VfsVolume, local), Change(from, output)>>
        /\ Copies(p, W) = IF work THEN <<Change(VfsVolume, output), Change("work", -output)>> ELSE <<>>
    BY DEF Outputs, Copies
  <1>4. from \in Volume
    BY VolumesAre
  <1> HIDE DEF local, output, from
  <1>5. ASSUME NEW u
        PROVE  /\ Outputs(p, W) \in Seq(Changes)
               /\ Level(Outputs(p, W), u) = (IF u = VfsVolume THEN local ELSE 0)
                                              + (IF u = from THEN output ELSE 0)
    <2>1. /\ Change(VfsVolume, local) \in Changes /\ Change(from, output) \in Changes
          /\ Amount(Change(VfsVolume, local), u) = IF u = VfsVolume THEN local ELSE 0
          /\ Amount(Change(from, output), u) = IF u = from THEN output ELSE 0
      BY <1>2, <1>4, VolumesAre, ChangeIs
    <2> DEFINE c == Change(VfsVolume, local)
               d == Change(from, output)
    <2> HIDE DEF c, d
    <2>2. <<c, d>> \in Seq(Changes) /\ Level(<<c, d>>, u) = Amount(c, u) + Amount(d, u)
      BY <2>1, LevelOfTwo DEF c, d
    <2>3. QED
      BY <1>3, <2>1, <2>2 DEF c, d
  <1>6. ASSUME NEW u
        PROVE  /\ Copies(p, W) \in Seq(Changes)
               /\ Level(Copies(p, W), u) =
                    IF work THEN (IF u = VfsVolume THEN output ELSE 0) - (IF u = "work" THEN output ELSE 0)
                            ELSE 0
    <2>1. CASE work
      <3> DEFINE c == Change(VfsVolume, output)
                 d == Change("work", -output)
      <3>1. c \in Changes /\ Amount(c, u) = IF u = VfsVolume THEN output ELSE 0
        BY <1>2, VolumesAre, ChangeIs
      <3>2. d \in Changes /\ Amount(d, u) = IF u = "work" THEN -output ELSE 0
        <4> DEFINE m == -output
        <4>1. m \in Int
          BY <1>2
        <4> HIDE DEF m
        <4>2. Change("work", m) \in Changes /\ Amount(Change("work", m), u) = IF u = "work" THEN m ELSE 0
          BY <4>1, VolumesAre, ChangeIs
        <4>3. QED
          BY <4>2 DEF m
      <3>3. Copies(p, W) = <<c, d>>
        BY <1>3, <2>1
      <3> HIDE DEF c, d
      <3>4. <<c, d>> \in Seq(Changes) /\ Level(<<c, d>>, u) = Amount(c, u) + Amount(d, u)
        BY <3>1, <3>2, LevelOfTwo
      <3>5. QED
        BY <1>2, <2>1, <3>1, <3>2, <3>3, <3>4
    <2>2. CASE ~work
      BY <1>3, <2>2, LevelOfNothing
    <2>3. QED
      BY <2>1, <2>2
  <1>7. Outputs(p, W) \in Seq(Changes) /\ Copies(p, W) \in Seq(Changes)
    BY <1>5, <1>6
  <1>8. Level(ReserveWave(p, t, W), v) = Level(Outputs(p, W), v) + Level(Copies(p, W), v)
    BY <1>1, <1>7, LevelConcat
  <1>9. work => Level(Outputs(p, W), "work") = output
    BY <1>2, <1>5, VolumesAre DEF from
  <1>10. Level(ReserveWave(p, t, W), v) = IF v = VfsVolume THEN local + output ELSE 0
    <2>1. /\ Level(Outputs(p, W), v) = (IF v = VfsVolume THEN local ELSE 0) + (IF v = from THEN output ELSE 0)
          /\ Level(Copies(p, W), v) =
               IF work THEN (IF v = VfsVolume THEN output ELSE 0) - (IF v = "work" THEN output ELSE 0)
                       ELSE 0
      BY <1>5, <1>6
    <2>2. CASE work
      BY <1>2, <1>8, <2>1, <2>2, VolumesAre DEF from
    <2>3. CASE ~work
      BY <1>2, <1>8, <2>1, <2>3 DEF from
    <2>4. QED
      BY <2>2, <2>3
  <1>11. QED
    BY <1>1, <1>7, <1>9, <1>10 DEF local, output

\* The bases a wave frees are those its predecessors did not.
LEMMA FreedAre ==
  ASSUME NEW p, NEW E, NEW W
  PROVE  /\ \A S : Freed(p, S) \in SUBSET File
         /\ Freed(p, E) \cap (Freed(p, E \cup W) \ Freed(p, E)) = {}
         /\ Freed(p, E \cup W) = Freed(p, E) \cup (Freed(p, E \cup W) \ Freed(p, E))
  BY PatchAssumption DEF Freed

\* commit_wave_outputs and release_last_deleted_base lower the level by what a wave consumed,
\* replaced and freed.
LEMMA CommitLevel ==
  ASSUME NEW p, NEW t \in Sized, NEW W \in SUBSET Entries, NEW E, NEW v
  PROVE  /\ CommitWave(p, t, W, E) \in Seq(Changes)
         /\ SumOver(Freed(p, E \cup W) \ Freed(p, E), t) \in Int
         /\ Level(CommitWave(p, t, W, E), v) =
              (IF v = StageVolume THEN -SumOver(Writes(p, W), Staging(p)) ELSE 0)
                + (IF v = VfsVolume
                   THEN -(SumOver(Writes(p, W), t) + SumOver(Freed(p, E \cup W) \ Freed(p, E), t)) ELSE 0)
  <1> DEFINE staging == SumOver(Writes(p, W), Staging(p))
             replaced == SumOver(Writes(p, W), t)
             freed == SumOver(Freed(p, E \cup W) \ Freed(p, E), t)
             c == Change(StageVolume, -staging)
             d == Change(VfsVolume, -(replaced + freed))
  <1>1. CommitWave(p, t, W, E) = <<c, d>>
    <2>1. {f \in (Bases(p) \cap Deleted) \ Entries :
             Consumers(p, f) \subseteq E \cup W /\ ~(Consumers(p, f) \subseteq E)}
          = Freed(p, E \cup W) \ Freed(p, E)
      BY DEF Freed
    <2>2. QED
      BY <2>1 DEF CommitWave, Writes, Staging
  <1>2. staging \in Int /\ replaced \in Int
    BY WaveSums
  <1>3. freed \in Int
    <2>1. \A f \in File : t[f] \in Int
      BY DEF Sized
    <2>2. Freed(p, E \cup W) \ Freed(p, E) \in SUBSET File
      BY FreedAre
    <2>3. QED
      BY <2>1, <2>2, SizesAdd
  <1> DEFINE m == -staging
             n == -(replaced + freed)
  <1>4. m \in Int /\ n \in Int
    <2> HIDE DEF staging, replaced, freed
    <2>1. QED
      BY <1>2, <1>3
  <1>5. c = Change(StageVolume, m) /\ d = Change(VfsVolume, n)
    OBVIOUS
  <1> HIDE DEF c, d, m, n
  <1>6. c \in Changes /\ Amount(c, v) = IF v = StageVolume THEN m ELSE 0
    BY <1>4, <1>5, VolumesAre, ChangeIs
  <1>7. d \in Changes /\ Amount(d, v) = IF v = VfsVolume THEN n ELSE 0
    BY <1>4, <1>5, VolumesAre, ChangeIs
  <1>8. <<c, d>> \in Seq(Changes) /\ Level(<<c, d>>, v) = Amount(c, v) + Amount(d, v)
    BY <1>6, <1>7, LevelOfTwo
  <1>9. Level(<<c, d>>, v) = (IF v = StageVolume THEN m ELSE 0) + (IF v = VfsVolume THEN n ELSE 0)
    BY <1>6, <1>7, <1>8
  <1>10. QED
    BY <1>1, <1>3, <1>8, <1>9 DEF m, n

\* Before the first wave nothing is spent, and a wave spends what its changes say.
LEMMA SpentNothing ==
  ASSUME NEW p, NEW t \in Sized, NEW v
  PROVE  Freed(p, {}) = {} /\ Spent(p, t, {}, {}, v) = 0
  <1>1. Freed(p, {}) = {}
    BY DEF Freed, Bases, Consumers
  <1>2. Locals(p, {}) = {} /\ Hdiffs(p, {}) = {} /\ Writes(p, {}) = {}
    BY DEF Locals, Hdiffs, Writes
  <1>3. \A e \in Entries : /\ LocalOutput[e] \in Int /\ NewSize[e] \in Int /\ Staging(p)[e] \in Int
                           /\ t[e] \in Int
    BY SizeFacts DEF Sized
  <1>4. /\ SumOver({}, LocalOutput) = 0 /\ SumOver({}, NewSize) = 0 /\ SumOver({}, Staging(p)) = 0
        /\ SumOver({}, t) = 0
    BY <1>3, EntrySizesAdd
  <1>5. QED
    BY <1>1, <1>2, <1>4 DEF Spent

\* Sizes of entries add up over two parts.
LEMMA EntrySizesSum ==
  ASSUME NEW w, \A e \in Entries : w[e] \in Int, NEW A \in SUBSET Entries, NEW B \in SUBSET Entries,
         A \cap B = {}, NEW C, C = A \cup B
  PROVE  SumOver(C, w) = SumOver(A, w) + SumOver(B, w)
  <1>1. SumOver(A \cup B, w) = SumOver(A, w) + SumOver(B, w)
    BY EntrySizesAdd
  <1>2. QED
    BY <1>1

AddUp(p, t, E, W) ==
  /\ SumOver(Locals(p, E \cup W), LocalOutput) =
       SumOver(Locals(p, E), LocalOutput) + SumOver(Locals(p, W), LocalOutput)
  /\ SumOver(Hdiffs(p, E \cup W), NewSize) =
       SumOver(Hdiffs(p, E), NewSize) + SumOver(Hdiffs(p, W), NewSize)
  /\ SumOver(Writes(p, E \cup W), t) = SumOver(Writes(p, E), t) + SumOver(Writes(p, W), t)
  /\ SumOver(Writes(p, E \cup W), Staging(p)) =
       SumOver(Writes(p, E), Staging(p)) + SumOver(Writes(p, W), Staging(p))
  /\ SumOver(Freed(p, E), t) \in Int
  /\ SumOver(Freed(p, E \cup W), t) =
       SumOver(Freed(p, E), t) + SumOver(Freed(p, E \cup W) \ Freed(p, E), t)
\* What the waves write, replace and free adds up wave by wave.
LEMMA WavesAdd ==
  ASSUME NEW p, NEW t \in Sized, NEW E \in SUBSET Entries, NEW W \in SUBSET Entries, E \cap W = {}
  PROVE  AddUp(p, t, E, W)
  <1>1. \A e \in Entries : /\ LocalOutput[e] \in Int /\ NewSize[e] \in Int /\ Staging(p)[e] \in Int
                           /\ t[e] \in Int
    BY SizeFacts DEF Sized
  <1>2. /\ Locals(p, E \cup W) = Locals(p, E) \cup Locals(p, W) /\ Locals(p, E) \cap Locals(p, W) = {}
        /\ Hdiffs(p, E \cup W) = Hdiffs(p, E) \cup Hdiffs(p, W) /\ Hdiffs(p, E) \cap Hdiffs(p, W) = {}
        /\ Writes(p, E \cup W) = Writes(p, E) \cup Writes(p, W) /\ Writes(p, E) \cap Writes(p, W) = {}
    BY DEF Locals, Hdiffs, Writes
  <1>3. /\ Locals(p, E) \in SUBSET Entries /\ Hdiffs(p, E) \in SUBSET Entries
        /\ Writes(p, E) \in SUBSET Entries /\ Locals(p, W) \in SUBSET Entries
        /\ Hdiffs(p, W) \in SUBSET Entries /\ Writes(p, W) \in SUBSET Entries
    BY WaveSums
  <1>4. \A e \in Entries : LocalOutput[e] \in Int
    BY <1>1
  <1>5. SumOver(Locals(p, E \cup W), LocalOutput) =
          SumOver(Locals(p, E), LocalOutput) + SumOver(Locals(p, W), LocalOutput)
    BY <1>2, <1>3, <1>4, EntrySizesSum
  <1>6. SumOver(Hdiffs(p, E \cup W), NewSize) =
          SumOver(Hdiffs(p, E), NewSize) + SumOver(Hdiffs(p, W), NewSize)
    BY <1>1, <1>2, <1>3, EntrySizesSum
  <1>7. SumOver(Writes(p, E \cup W), t) = SumOver(Writes(p, E), t) + SumOver(Writes(p, W), t)
    BY <1>1, <1>2, <1>3, EntrySizesSum
  <1>8. SumOver(Writes(p, E \cup W), Staging(p)) =
          SumOver(Writes(p, E), Staging(p)) + SumOver(Writes(p, W), Staging(p))
    BY <1>1, <1>2, <1>3, EntrySizesSum
  <1>9. /\ SumOver(Freed(p, E), t) \in Int
        /\ SumOver(Freed(p, E \cup W), t) =
             SumOver(Freed(p, E), t) + SumOver(Freed(p, E \cup W) \ Freed(p, E), t)
    <2> DEFINE A == Freed(p, E)
               B == Freed(p, E \cup W) \ Freed(p, E)
    <2>1. A \in SUBSET File /\ B \in SUBSET File /\ A \cap B = {} /\ Freed(p, E \cup W) = A \cup B
      BY FreedAre
    <2>2. \A f \in File : t[f] \in Int
      BY DEF Sized
    <2> HIDE DEF A, B
    <2>3. SumOver(A, t) \in Int /\ SumOver(A \cup B, t) = SumOver(A, t) + SumOver(B, t)
      BY <2>1, <2>2, SizesAdd
    <2>4. QED
      BY <2>1, <2>3 DEF A, B
  <1>10. QED
    BY <1>5, <1>6, <1>7, <1>8, <1>9 DEF AddUp

Spends(p, t, E, W, v) ==
  /\ Spent(p, t, E, E, v) \in Int
  /\ Spent(p, t, E, E \cup W, v) = Spent(p, t, E, E, v) + Level(ReserveWave(p, t, W), v)
  /\ Spent(p, t, E \cup W, E \cup W, v) =
       Spent(p, t, E, E \cup W, v) + Level(CommitWave(p, t, W, E), v)
\* A wave spends its reservation, then gives back its commit.
LEMMA SpentStep ==
  ASSUME NEW p, NEW t \in Sized, NEW E \in SUBSET Entries, NEW W \in SUBSET Entries, E \cap W = {}, NEW v
  PROVE  Spends(p, t, E, W, v)
  <1>0. AddUp(p, t, E, W)
    BY WavesAdd
  <1> DEFINE lE == SumOver(Locals(p, E), LocalOutput)
             hE == SumOver(Hdiffs(p, E), NewSize)
             tE == SumOver(Writes(p, E), t)
             sE == SumOver(Writes(p, E), Staging(p))
             fE == SumOver(Freed(p, E), t)
             lW == SumOver(Locals(p, W), LocalOutput)
             hW == SumOver(Hdiffs(p, W), NewSize)
             tW == SumOver(Writes(p, W), t)
             sW == SumOver(Writes(p, W), Staging(p))
             fW == SumOver(Freed(p, E \cup W) \ Freed(p, E), t)
             lS == SumOver(Locals(p, E \cup W), LocalOutput)
             hS == SumOver(Hdiffs(p, E \cup W), NewSize)
             tS == SumOver(Writes(p, E \cup W), t)
             sS == SumOver(Writes(p, E \cup W), Staging(p))
             fS == SumOver(Freed(p, E \cup W), t)
  <1>1. lE \in Int /\ hE \in Int /\ tE \in Int /\ sE \in Int
    BY WaveSums
  <1>2. lW \in Int /\ hW \in Int /\ tW \in Int /\ sW \in Int
    BY WaveSums
  <1>3. /\ lS = lE + lW /\ hS = hE + hW /\ tS = tE + tW /\ sS = sE + sW /\ fE \in Int /\ fS = fE + fW
    BY <1>0 DEF AddUp
  <1>4. /\ fW \in Int
        /\ Level(CommitWave(p, t, W, E), v) = (IF v = StageVolume THEN -sW ELSE 0)
                                                + (IF v = VfsVolume THEN -(tW + fW) ELSE 0)
    BY CommitLevel
  <1>5. Level(ReserveWave(p, t, W), v) = IF v = VfsVolume THEN lW + hW ELSE 0
    BY ReserveLevel
  <1>6. /\ Spent(p, t, E, E, v) = (IF v = VfsVolume THEN (lE + hE) - (tE + fE) ELSE 0)
                                    - (IF v = StageVolume THEN sE ELSE 0)
        /\ Spent(p, t, E, E \cup W, v) = (IF v = VfsVolume THEN (lS + hS) - (tE + fE) ELSE 0)
                                           - (IF v = StageVolume THEN sE ELSE 0)
        /\ Spent(p, t, E \cup W, E \cup W, v) = (IF v = VfsVolume THEN (lS + hS) - (tS + fS) ELSE 0)
                                                  - (IF v = StageVolume THEN sS ELSE 0)
    BY DEF Spent
  <1> DEFINE spent == Spent(p, t, E, E, v)
             reserved == Spent(p, t, E, E \cup W, v)
             both == Spent(p, t, E \cup W, E \cup W, v)
             more == Level(ReserveWave(p, t, W), v)
             less == Level(CommitWave(p, t, W, E), v)
  <1> HIDE DEF lE, hE, tE, sE, fE, lW, hW, tW, sW, fW, lS, hS, tS, sS, fS, spent, reserved, both, more, less
  <1>7. spent \in Int /\ reserved = spent + more /\ both = reserved + less
    <2>1. /\ spent = (IF v = VfsVolume THEN (lE + hE) - (tE + fE) ELSE 0)
                       - (IF v = StageVolume THEN sE ELSE 0)
          /\ reserved = (IF v = VfsVolume THEN (lS + hS) - (tE + fE) ELSE 0)
                          - (IF v = StageVolume THEN sE ELSE 0)
          /\ both = (IF v = VfsVolume THEN (lS + hS) - (tS + fS) ELSE 0)
                      - (IF v = StageVolume THEN sS ELSE 0)
          /\ more = IF v = VfsVolume THEN lW + hW ELSE 0
          /\ less = (IF v = StageVolume THEN -sW ELSE 0) + (IF v = VfsVolume THEN -(tW + fW) ELSE 0)
      BY <1>4, <1>5, <1>6 DEF spent, reserved, both, more, less
    <2> DEFINE onVfs == v = VfsVolume
               onStage == v = StageVolume
    <2> HIDE DEF onVfs, onStage
    <2>2. /\ spent = (IF onVfs THEN (lE + hE) - (tE + fE) ELSE 0) - (IF onStage THEN sE ELSE 0)
          /\ reserved = (IF onVfs THEN (lS + hS) - (tE + fE) ELSE 0) - (IF onStage THEN sE ELSE 0)
          /\ both = (IF onVfs THEN (lS + hS) - (tS + fS) ELSE 0) - (IF onStage THEN sS ELSE 0)
          /\ more = IF onVfs THEN lW + hW ELSE 0
          /\ less = (IF onStage THEN -sW ELSE 0) + (IF onVfs THEN -(tW + fW) ELSE 0)
      BY <2>1 DEF onVfs, onStage
    <2>3. CASE onVfs /\ onStage
      BY <1>1, <1>2, <1>3, <1>4, <2>2, <2>3
    <2>4. CASE onVfs /\ ~onStage
      BY <1>1, <1>2, <1>3, <1>4, <2>2, <2>4
    <2>5. CASE ~onVfs /\ onStage
      BY <1>1, <1>2, <1>3, <1>4, <2>2, <2>5
    <2>6. CASE ~onVfs /\ ~onStage
      BY <2>2, <2>6
    <2>7. QED
      BY <2>3, <2>4, <2>5, <2>6
  <1>8. QED
    BY <1>7 DEF spent, reserved, both, more, less, Spends

-----------------------------------------------------------------------------
(* The ledger of simulate_space_peaks, wave by wave. *)

Start(p, t) ==
  <<Change(StageVolume, SumOver(Payloads(p), PayloadSize)),
    Change("external", IF external THEN SumOver(File, t) ELSE 0),
    Change("install", -(IF external THEN SumOver(File, t) ELSE 0)),
    Change(VfsVolume, -SumOver(Deleted \ (Bases(p) \cup Entries), t))>>
WaveChanges(p, t, w) ==
  [i \in DOMAIN w |-> ReserveWave(p, t, w[i]) \o CommitWave(p, t, w[i], Earlier(w, i))]

\* The peaks are those of the start followed by the waves.
LEMMA PeaksAre ==
  ASSUME NEW p, NEW t, NEW v \in Volume, NEW w, w = Waves(DependsOn(p))
  PROVE  Peaks(p, t, FALSE)[v] = Peak(Start(p, t) \o FlattenSeq(WaveChanges(p, t, w)), v)
  BY DEF Peaks, Start, WaveChanges, Earlier

\* What is joined last goes on from what was joined before.
GoesOn(A, f, k, n) == \E rest \in Seq(A) : f[n] = f[k] \o rest
LEMMA FlatSplits ==
  ASSUME NEW A, NEW seqs \in Seq(Seq(A)), NEW f, IsFlat(A, seqs, f), NEW k \in 0 .. Len(seqs)
  PROVE  GoesOn(A, f, k, Len(seqs))
  <1> DEFINE n == Len(seqs)
             Part(i, rest) == rest \in Seq(A) /\ f[i] = f[k] \o rest
             Q == {d \in Nat : k + d <= n => \E rest : Part(k + d, rest)}
  <1>1. n \in Nat /\ \A i \in 1 .. n : seqs[i] \in Seq(A)
    OBVIOUS
  <1>2. /\ f \in [0 .. n -> Seq(A)]
        /\ \A i \in 1 .. n : f[i] = f[i - 1] \o seqs[i]
    BY DEF IsFlat
  <1>3. k \in 0 .. n
    OBVIOUS
  <1> HIDE DEF n
  <1>4. k \in Nat /\ k <= n /\ k + 0 = k /\ f[k] \in Seq(A)
    BY <1>1, <1>2, <1>3
  <1>5. 0 \in Q
    <2>1. <<>> \in Seq(A) /\ f[k] = f[k] \o <<>>
      BY <1>4, ConcatEmptySeq
    <2>2. Part(k + 0, <<>>)
      BY <1>4, <2>1
    <2> HIDE DEF Part
    <2>3. QED
      BY <2>2
  <1>6. ASSUME NEW d \in Q
        PROVE  d + 1 \in Q
    <2>1. SUFFICES ASSUME k + (d + 1) <= n
                   PROVE  \E rest : Part(k + (d + 1), rest)
      <3> HIDE DEF Part
      <3>1. QED
        OBVIOUS
    <2>2. d \in Nat /\ k + d <= n
      <3>1. d \in Nat
        OBVIOUS
      <3> HIDE DEF Q
      <3>2. QED
        BY <1>1, <1>4, <2>1, <3>1
    <2>3. PICK rest : Part(k + d, rest)
      <3> HIDE DEF Part
      <3>1. QED
        BY <2>2
    <2> DEFINE i == k + (d + 1)
               g == seqs[i]
               h == f[k]
    <2>4. i \in 1 .. n /\ i - 1 = k + d
      BY <1>1, <1>4, <2>1, <2>2
    <2> HIDE DEF i
    <2>5. g \in Seq(A) /\ h \in Seq(A) /\ rest \in Seq(A) /\ f[k + d] = h \o rest /\ f[i] = f[k + d] \o g
      BY <1>1, <1>2, <1>4, <2>3, <2>4
    <2>6. rest \o g \in Seq(A) /\ (h \o rest) \o g = h \o (rest \o g)
      <3> HIDE DEF g, h
      <3>1. rest \o g \in Seq(A)
        BY <2>5
      <3>2. (h \o rest) \o g = h \o (rest \o g)
        BY <2>5, ConcatAssociative, SMTT(60)
      <3>3. QED
        BY <3>1, <3>2
    <2>7. Part(i, rest \o g)
      BY <2>5, <2>6
    <2> HIDE DEF Part
    <2>8. QED
      BY <2>7 DEF i
  <1>7. Q = Nat
    <2>1. Q \in SUBSET Nat /\ \A d \in Q : d + 1 \in Q
      BY <1>6
    <2> HIDE DEF Q
    <2>2. QED
      BY <1>5, <2>1, Numbers
  <1>8. n - k \in Nat /\ k + (n - k) = n /\ n <= n
    BY <1>1, <1>3
  <1>9. \E rest : Part(n, rest)
    <2> HIDE DEF Part
    <2>1. n - k \in Q
      <3> HIDE DEF Q
      <3>1. QED
        BY <1>7, <1>8
    <2>2. k + (n - k) <= n => \E rest : Part(k + (n - k), rest)
      BY <2>1
    <2>3. QED
      BY <1>8, <2>2
  <1>10. QED
    BY <1>9 DEF n, GoesOn

AreChanges(p, t, w) ==
  /\ WaveChanges(p, t, w) \in Seq(Seq(Changes)) /\ Len(WaveChanges(p, t, w)) = Len(w)
  /\ \A i \in 1 .. Len(w) :
       /\ WaveChanges(p, t, w)[i] =
            ReserveWave(p, t, w[i]) \o CommitWave(p, t, w[i], Earlier(w, i))
       /\ w[i] \in SUBSET Entries /\ Earlier(w, i) \in SUBSET Entries
       /\ ReserveWave(p, t, w[i]) \in Seq(Changes)
       /\ CommitWave(p, t, w[i], Earlier(w, i)) \in Seq(Changes)
\* The changes of the waves are changes.
LEMMA WaveChangesType ==
  ASSUME NEW p, NEW t \in Sized, NEW w \in Seq(SUBSET Entries)
  PROVE  AreChanges(p, t, w)
  <1>1. /\ Len(w) \in Nat /\ DOMAIN w = 1 .. Len(w)
        /\ \A i \in 1 .. Len(w) : w[i] \in SUBSET Entries /\ Earlier(w, i) \in SUBSET Entries
    BY DEF Earlier
  <1>2. ASSUME NEW i \in 1 .. Len(w)
        PROVE  /\ ReserveWave(p, t, w[i]) \in Seq(Changes)
               /\ CommitWave(p, t, w[i], Earlier(w, i)) \in Seq(Changes)
               /\ ReserveWave(p, t, w[i]) \o CommitWave(p, t, w[i], Earlier(w, i)) \in Seq(Changes)
    <2> DEFINE W == w[i]
               E == Earlier(w, i)
    <2>1. W \in SUBSET Entries
      BY <1>1
    <2> HIDE DEF W, E
    <2>2. CommitWave(p, t, W, E) \in Seq(Changes)
      BY <2>1, CommitLevel
    <2>3. /\ ReserveWave(p, t, W) = Outputs(p, W) \o Copies(p, W)
          /\ Outputs(p, W) \in Seq(Changes) /\ Copies(p, W) \in Seq(Changes)
      BY <2>1, ReserveLevel
    <2>4. ReserveWave(p, t, W) \in Seq(Changes)
      BY <2>3
    <2>5. QED
      BY <2>2, <2>4 DEF W, E
  <1>3. WaveChanges(p, t, w) =
          [i \in 1 .. Len(w) |-> ReserveWave(p, t, w[i]) \o CommitWave(p, t, w[i], Earlier(w, i))]
    BY <1>1 DEF WaveChanges
  <1> DEFINE h == [i \in 1 .. Len(w) |->
                     ReserveWave(p, t, w[i]) \o CommitWave(p, t, w[i], Earlier(w, i))]
             n == Len(w)
  <1>4. /\ h \in [1 .. n -> Seq(Changes)]
        /\ \A i \in 1 .. n : h[i] = ReserveWave(p, t, w[i]) \o CommitWave(p, t, w[i], Earlier(w, i))
    BY <1>2
  <1>5. n \in Nat
    BY <1>1
  <1>6. h = WaveChanges(p, t, w)
    BY <1>3
  <1> HIDE DEF h, n
  <1>7. h \in Seq(Seq(Changes)) /\ Len(h) = n
    BY <1>4, <1>5
  <1>8. QED
    BY <1>1, <1>2, <1>4, <1>6, <1>7 DEF n, AreChanges

\* After a wave the ledger says what the waves so far have spent.
Reached(p, t, w, f, k, v) ==
  /\ f[k] \in Seq(Changes) /\ Earlier(w, k + 1) \in SUBSET Entries
  /\ Level(f[k], v) = Spent(p, t, Earlier(w, k + 1), Earlier(w, k + 1), v)
LEMMA LevelSoFar ==
  ASSUME NEW p, NEW t \in Sized, NEW w \in Seq(SUBSET Entries),
         \A i \in DOMAIN w : w[i] \cap Earlier(w, i) = {},
         NEW f, IsFlat(Changes, WaveChanges(p, t, w), f), NEW v, NEW k \in 0 .. Len(w)
  PROVE  Reached(p, t, w, f, k, v)
  <1> DEFINE n == Len(w)
             E(i) == Earlier(w, i)
             Q == {i \in Nat : i <= n => Level(f[i], v) = Spent(p, t, E(i + 1), E(i + 1), v)}
  <1>1. n \in Nat /\ DOMAIN w = 1 .. n
    OBVIOUS
  <1>2. /\ f \in [0 .. n -> Seq(Changes)] /\ f[0] = <<>>
        /\ \A i \in 1 .. n : f[i] = f[i - 1] \o WaveChanges(p, t, w)[i]
    BY WaveChangesType, SMTT(30) DEF IsFlat, AreChanges
  <1>3. \A i \in 1 .. n :
          /\ WaveChanges(p, t, w)[i] = ReserveWave(p, t, w[i]) \o CommitWave(p, t, w[i], E(i))
          /\ w[i] \in SUBSET Entries /\ E(i) \in SUBSET Entries /\ w[i] \cap E(i) = {}
          /\ ReserveWave(p, t, w[i]) \in Seq(Changes) /\ CommitWave(p, t, w[i], E(i)) \in Seq(Changes)
    BY <1>1, WaveChangesType DEF AreChanges
  <1>4. 0 \in Q
    <2>1. E(0 + 1) = {}
      BY DEF Earlier
    <2> HIDE DEF E
    <2>2. QED
      BY <1>2, <2>1, LevelOfNothing, SpentNothing
  <1>5. ASSUME NEW i \in Q
        PROVE  i + 1 \in Q
    <2>1. SUFFICES ASSUME i + 1 <= n
                   PROVE  Level(f[i + 1], v) = Spent(p, t, E((i + 1) + 1), E((i + 1) + 1), v)
      OBVIOUS
    <2>2. i \in Nat /\ i <= n /\ Level(f[i], v) = Spent(p, t, E(i + 1), E(i + 1), v)
      <3>1. i \in Nat
        OBVIOUS
      <3>2. i <= n
        <4> HIDE DEF Q, n
        <4>1. QED
          BY <1>1, <2>1, <3>1
      <3>3. QED
        BY <3>2
    <2> DEFINE j == i + 1
               W == w[j]
               B == E(j)
               r == ReserveWave(p, t, W)
               c == CommitWave(p, t, W, B)
               g == f[i]
    <2>3. j \in 1 .. n /\ j - 1 = i /\ (j + 1) - 1 = j
      BY <1>1, <2>1, <2>2
    <2>4. E(j + 1) = B \cup W
      <3>1. 1 .. (j + 1) - 1 = (1 .. j - 1) \cup {j}
        <4> HIDE DEF j
        <4>1. QED
          BY <1>1, <2>3
      <3> HIDE DEF j
      <3>2. QED
        BY <3>1 DEF Earlier
    <2>5. /\ f[j] = g \o (r \o c) /\ g \in Seq(Changes) /\ r \in Seq(Changes) /\ c \in Seq(Changes)
          /\ W \in SUBSET Entries /\ B \in SUBSET Entries /\ B \cap W = {}
      <3>1. i \in 0 .. n
        BY <1>1, <2>2
      <3> HIDE DEF j, n, E
      <3>2. f[j] = f[i] \o WaveChanges(p, t, w)[j]
        BY <1>2, <2>3
      <3>3. QED
        BY <1>2, <1>3, <2>3, <3>1, <3>2
    <2>6. Level(g, v) = Spent(p, t, B, B, v)
      BY <2>2
    <2> HIDE DEF j, n, E, W, B, g
    <2>7. /\ Spent(p, t, B, B \cup W, v) = Spent(p, t, B, B, v) + Level(r, v)
          /\ Spent(p, t, B \cup W, B \cup W, v) = Spent(p, t, B, B \cup W, v) + Level(c, v)
          /\ Spent(p, t, B, B, v) \in Int
      <3>1. Spends(p, t, B, W, v)
        BY <2>5, SpentStep
      <3>2. QED
        BY <3>1 DEF Spends
    <2> HIDE DEF r, c
    <2>8. r \o c \in Seq(Changes) /\ Level(r \o c, v) = Level(r, v) + Level(c, v)
          /\ Level(r, v) \in Int /\ Level(c, v) \in Int
      BY <2>5, LevelConcat
    <2> DEFINE rc == r \o c
    <2>9. Level(g \o rc, v) = Level(g, v) + Level(rc, v)
      <3>1. rc \in Seq(Changes)
        BY <2>8
      <3> HIDE DEF rc
      <3>2. QED
        BY <2>5, <3>1, LevelConcat
    <2> HIDE DEF rc
    <2>10. Level(f[j], v) = Spent(p, t, B \cup W, B \cup W, v)
      BY <2>5, <2>6, <2>7, <2>8, <2>9 DEF rc
    <2>11. QED
      BY <2>4, <2>10 DEF j
  <1>6. Q = Nat
    <2>1. Q \in SUBSET Nat /\ \A i \in Q : i + 1 \in Q
      BY <1>5
    <2> HIDE DEF Q
    <2>2. QED
      BY <1>4, <2>1, Numbers
  <1>7. k \in Nat /\ k <= n
    BY <1>1
  <1>8. Level(f[k], v) = Spent(p, t, E(k + 1), E(k + 1), v)
    <2>1. k \in Q
      <3> HIDE DEF Q
      <3>1. QED
        BY <1>6, <1>7
    <2>2. QED
      BY <1>7, <2>1
  <1>9. f[k] \in Seq(Changes)
    BY <1>2
  <1>10. Earlier(w, k + 1) \in SUBSET Entries
    <2>1. \A j \in 1 .. (k + 1) - 1 : w[j] \in SUBSET Entries
      BY <1>1, <1>7
    <2>2. QED
      BY <2>1 DEF Earlier
  <1>11. QED
    BY <1>8, <1>9, <1>10 DEF Reached

\* Joining sequences in any order.
Joins(A, a, b, r, c, d) ==
  /\ (a \o b) \in Seq(A) /\ (a \o b) \o r \in Seq(A) /\ c \o d \in Seq(A)
  /\ a \o ((b \o (r \o c)) \o d) = ((a \o b) \o r) \o (c \o d)
LEMMA JoinAll ==
  ASSUME NEW A, NEW a \in Seq(A), NEW b \in Seq(A), NEW r \in Seq(A), NEW c \in Seq(A), NEW d \in Seq(A)
  PROVE  Joins(A, a, b, r, c, d)
  <1> DEFINE ab == a \o b
             rc == r \o c
             cd == c \o d
             rcd == rc \o d
             brc == b \o rc
  <1>1. ab \in Seq(A) /\ rc \in Seq(A) /\ cd \in Seq(A)
    OBVIOUS
  <1>2. rcd = r \o cd
    BY ConcatAssociative, SMTT(60)
  <1>3. ab \o r \in Seq(A)
    <2> HIDE DEF ab
    <2>1. QED
      BY <1>1
  <1>4. rcd \in Seq(A)
    <2> HIDE DEF rc
    <2>1. QED
      BY <1>1
  <1>5. brc \o d = b \o rcd
    <2> HIDE DEF rc
    <2>1. QED
      BY <1>1, ConcatAssociative, SMTT(60)
  <1>6. ab \o rcd = a \o (b \o rcd)
    <2> HIDE DEF rcd
    <2>1. QED
      BY <1>4, ConcatAssociative, SMTT(60)
  <1>7. (ab \o r) \o cd = ab \o (r \o cd)
    <2>1. ab \in Seq(A) /\ r \in Seq(A) /\ cd \in Seq(A)
      BY <1>1
    <2> HIDE DEF ab, cd
    <2>2. QED
      BY <2>1, ConcatAssociative, SMTT(60)
  <1> DEFINE all == a \o (brc \o d)
  <1>8. all = (ab \o r) \o cd
    <2>1. all = a \o (b \o rcd)
      <3> HIDE DEF brc, rcd
      <3>1. QED
        BY <1>5
    <2> HIDE DEF all, ab, cd, rcd
    <2>2. QED
      BY <1>2, <1>6, <1>7, <2>1
  <1>9. QED
    BY <1>1, <1>3, <1>8 DEF Joins

\* The level of the first changes of the ledger is no more than the peak.
LEMMA PrefixCovered ==
  ASSUME NEW ledger, NEW a \in Seq(Changes), NEW b \in Seq(Changes), ledger = a \o b, NEW v
  PROVE  Peak(ledger, v) \in Int /\ 0 <= Peak(ledger, v) /\ Level(a, v) <= Peak(ledger, v)
  BY PeakCovers

\* A sum of sizes is a size.
LEMMA SumOfSizes ==
  ASSUME NEW S \in SUBSET File, NEW w, \A f \in S : w[f] \in Nat
  PROVE  SumOver(S, w) \in Nat
  <1> DEFINE P == {T \in SUBSET S : SumOver(T, w) \in Nat}
  <1>1. IsFiniteSet(S) /\ \A f \in S : w[f] \in Int
    BY SizeFacts, FS_Subset
  <1>2. {} \in P
    BY <1>1, SumParts
  <1>3. ASSUME NEW T \in P, NEW e \in S \ T
        PROVE  T \cup {e} \in P
    <2>1. T \in SUBSET S /\ SumOver(T, w) \in Nat /\ w[e] \in Nat
      OBVIOUS
    <2>2. SumOver(T \cup {e}, w) = SumOver(T, w) + w[e]
      BY <1>1, <2>1, SumOne
    <2>3. QED
      BY <2>1, <2>2
  <1>4. P = SUBSET S
    <2>1. P \in SUBSET (SUBSET S)
      OBVIOUS
    <2> HIDE DEF P
    <2>2. QED
      BY <1>1, <1>2, <1>3, <2>1, FiniteSubsets
  <1>5. S \in P
    <2> HIDE DEF P
    <2>1. QED
      BY <1>4
  <1>6. QED
    BY <1>5

StartSplits(p, t, v, a, b) ==
  /\ Start(p, t) = a \o b /\ Start(p, t) \in Seq(Changes)
  /\ SumOver(Payloads(p), PayloadSize) \in Nat /\ SumOver(File, t) \in Int
  /\ SumOver(Deleted \ (Bases(p) \cup Entries), t) \in Int
  /\ Level(a, v) = (IF v = StageVolume THEN SumOver(Payloads(p), PayloadSize) ELSE 0)
                     + (IF v = "external" /\ external THEN SumOver(File, t) ELSE 0)
  /\ Level(b, v) = (IF v = "install" /\ external THEN -SumOver(File, t) ELSE 0)
                     - (IF v = VfsVolume THEN SumOver(Deleted \ (Bases(p) \cup Entries), t) ELSE 0)
\* The start of the ledger: the payloads and the moved tree come, then the tree and the early
\* deletes go.
LEMMA StartLevel ==
  ASSUME NEW p, NEW t \in Sized, NEW v
  PROVE  \E a \in Seq(Changes), b \in Seq(Changes) : StartSplits(p, t, v, a, b)
  <1> DEFINE payloads == SumOver(Payloads(p), PayloadSize)
             moving == IF external THEN SumOver(File, t) ELSE 0
             early == SumOver(Deleted \ (Bases(p) \cup Entries), t)
             unmoving == -moving
             unearly == -early
  <1>1. /\ \A f \in File : t[f] \in Nat /\ PayloadSize[f] \in Nat
        /\ Payloads(p) \in SUBSET File /\ Payloads(p) \in SUBSET Entries
        /\ Deleted \ (Bases(p) \cup Entries) \in SUBSET File /\ File \in SUBSET File
    BY SizeFacts, PatchAssumption DEF Sized, Payloads
  <1>2. payloads \in Int /\ SumOver(File, t) \in Int /\ early \in Int
    <2>1. \A f \in File : t[f] \in Int /\ PayloadSize[f] \in Int
      BY <1>1
    <2>2. QED
      BY <1>1, <2>1, SizesAdd
  <1>3. payloads \in Nat
    BY <1>1, SizeFacts, FS_Subset, SumOfSizes
  <1>4. moving \in Int /\ unmoving \in Int /\ unearly \in Int
    BY <1>2
  <1> DEFINE c1 == Change(StageVolume, payloads)
             c2 == Change("external", moving)
             c3 == Change("install", unmoving)
             c4 == Change(VfsVolume, unearly)
             a == <<c1, c2>>
             b == <<c3, c4>>
  <1>5. Start(p, t) = <<c1, c2, c3, c4>>
    BY DEF Start
  <1> HIDE DEF payloads, moving, early, unmoving, unearly
  <1>6. /\ c1 \in Changes /\ Amount(c1, v) = IF v = StageVolume THEN payloads ELSE 0
        /\ c2 \in Changes /\ Amount(c2, v) = IF v = "external" THEN moving ELSE 0
    BY <1>2, <1>4, VolumesAre, ChangeIs DEF payloads
  <1>7. /\ c3 \in Changes /\ Amount(c3, v) = IF v = "install" THEN unmoving ELSE 0
        /\ c4 \in Changes /\ Amount(c4, v) = IF v = VfsVolume THEN unearly ELSE 0
    BY <1>4, VolumesAre, ChangeIs
  <1> HIDE DEF c1, c2, c3, c4
  <1>8. /\ a \in Seq(Changes) /\ Level(a, v) = Amount(c1, v) + Amount(c2, v)
        /\ b \in Seq(Changes) /\ Level(b, v) = Amount(c3, v) + Amount(c4, v)
    BY <1>6, <1>7, LevelOfTwo
  <1>9. Start(p, t) = a \o b /\ Start(p, t) \in Seq(Changes)
    BY <1>5, <1>6, <1>7
  <1> HIDE DEF a, b
  <1>10. Level(a, v) = (IF v = StageVolume THEN payloads ELSE 0)
                         + (IF v = "external" /\ external THEN SumOver(File, t) ELSE 0)
    BY <1>2, <1>6, <1>8 DEF moving
  <1>11. Level(b, v) = (IF v = "install" /\ external THEN -SumOver(File, t) ELSE 0)
                         - (IF v = VfsVolume THEN early ELSE 0)
    BY <1>2, <1>7, <1>8 DEF moving, unmoving, unearly, early
  <1>12. QED
    <2>1. StartSplits(p, t, v, a, b)
      BY <1>2, <1>3, <1>9, <1>10, <1>11 DEF payloads, early, StartSplits
    <2>2. QED
      BY <1>8, <2>1

Depended(p) == DependsOn(p) \in [Entries -> SUBSET Entries]

\* The ledger and the changes of its waves.
IsLedger(p, t, w, v, f) ==
  /\ IsFlat(Changes, WaveChanges(p, t, w), f)
  /\ f[Len(w)] \in Seq(Changes) /\ w \in Seq(SUBSET Entries)
  /\ \A i \in DOMAIN w : w[i] \cap Earlier(w, i) = {}
  /\ Peaks(p, t, FALSE)[v] = Peak(Start(p, t) \o f[Len(w)], v)
LEMMA LedgerIs ==
  ASSUME NEW p, Depended(p), NEW t \in Sized, NEW w, w = Waves(DependsOn(p)), NEW v \in Volume
  PROVE  \E f : IsLedger(p, t, w, v, f)
  <1>1. w \in Seq(SUBSET Entries) /\ \A i \in DOMAIN w : w[i] \cap Earlier(w, i) = {}
    BY WaveFacts DEF Depended
  <1>2. /\ WaveChanges(p, t, w) \in Seq(Seq(Changes)) /\ Len(WaveChanges(p, t, w)) = Len(w)
    BY <1>1, WaveChangesType DEF AreChanges
  <1>3. PICK f : IsFlat(Changes, WaveChanges(p, t, w), f)
    BY <1>2, FlatExists
  <1> DEFINE seqs == WaveChanges(p, t, w)
  <1>4. FlattenSeq(seqs) = f[Len(seqs)] /\ FlattenSeq(seqs) \in Seq(Changes)
    <2>1. seqs \in Seq(Seq(Changes)) /\ IsFlat(Changes, seqs, f)
      BY <1>2, <1>3
    <2> HIDE DEF seqs
    <2>2. QED
      BY <2>1, FlattenIs
  <1>5. Peaks(p, t, FALSE)[v] = Peak(Start(p, t) \o FlattenSeq(WaveChanges(p, t, w)), v)
    BY PeaksAre
  <1>6. IsLedger(p, t, w, v, f)
    BY <1>1, <1>2, <1>3, <1>4, <1>5 DEF IsLedger
  <1>7. QED
    BY <1>6

\* What the payloads and a move of the tree need is covered before anything is applied.
LEMMA StartCovered ==
  ASSUME NEW p, Depended(p), NEW t \in Sized, NEW v \in Volume
  PROVE  /\ Peaks(p, t, FALSE)[v] \in Int /\ 0 <= Peaks(p, t, FALSE)[v]
         /\ Level(Start(p, t), v) \in Int /\ Level(Start(p, t), v) <= Peaks(p, t, FALSE)[v]
         /\ SumOver(Payloads(p), PayloadSize) \in Nat /\ SumOver(File, t) \in Int
         /\ (IF v = StageVolume THEN SumOver(Payloads(p), PayloadSize) ELSE 0)
              + (IF v = "external" /\ external THEN SumOver(File, t) ELSE 0) <= Peaks(p, t, FALSE)[v]
  <1> DEFINE w == Waves(DependsOn(p))
             peak == Peaks(p, t, FALSE)[v]
  <1>1. PICK f : IsLedger(p, t, w, v, f)
    BY LedgerIs
  <1> HIDE DEF peak, w
  <1> DEFINE flat == f[Len(w)]
             payloads == SumOver(Payloads(p), PayloadSize)
             moving == SumOver(File, t)
             s == Start(p, t)
  <1>0. PICK a \in Seq(Changes), b \in Seq(Changes) : StartSplits(p, t, v, a, b)
    BY StartLevel
  <1>2. /\ s = a \o b /\ s \in Seq(Changes) /\ payloads \in Nat /\ moving \in Int
        /\ Level(a, v) = (IF v = StageVolume THEN payloads ELSE 0)
                           + (IF v = "external" /\ external THEN moving ELSE 0)
    BY <1>0 DEF StartSplits
  <1> HIDE DEF flat, s, payloads, moving
  <1>3. flat \in Seq(Changes) /\ peak = Peak(s \o flat, v)
    BY <1>1 DEF flat, s, peak, IsLedger
  <1>4. peak \in Int /\ 0 <= peak /\ Level(s, v) <= peak
    BY <1>2, <1>3, PrefixCovered
  <1>5. Level(s, v) \in Int
    BY <1>2, LevelConcat
  <1>6. Level(a, v) <= peak
    <2> DEFINE bf == b \o flat
    <2>1. bf \in Seq(Changes)
      BY <1>3
    <2>2. s \o flat = a \o bf
      BY <1>2, <1>3, ConcatAssociative, SMTT(60)
    <2> HIDE DEF bf
    <2>3. Level(a, v) <= Peak(s \o flat, v)
      BY <2>1, <2>2, PrefixCovered
    <2>4. QED
      BY <1>3, <2>3
  <1>7. QED
    BY <1>2, <1>4, <1>5, <1>6 DEF peak, s, payloads, moving

\* The highest level of a wave: its outputs are reserved and nothing of it is committed; in a work
\* directory the HDiff outputs are not copied.
LEMMA WaveCovered ==
  ASSUME NEW p, Depended(p), NEW t \in Sized, NEW v \in Volume, NEW w, w = Waves(DependsOn(p)),
         NEW i \in DOMAIN w
  PROVE  /\ w[i] \in SUBSET Entries /\ Earlier(w, i) \in SUBSET Entries
         /\ Spent(p, t, Earlier(w, i), Earlier(w, i) \cup w[i], v) \in Int
         /\ Level(Start(p, t), v) + Spent(p, t, Earlier(w, i), Earlier(w, i) \cup w[i], v)
              <= Peaks(p, t, FALSE)[v]
         /\ work /\ v = "work" =>
              Level(Start(p, t), v) + Spent(p, t, Earlier(w, i), Earlier(w, i), v)
                + SumOver(Hdiffs(p, w[i]), NewSize) <= Peaks(p, t, FALSE)[v]
  <1> DEFINE peak == Peaks(p, t, FALSE)[v]
             n == Len(w)
             s == Start(p, t)
             E == Earlier(w, i)
             W == w[i]
  <1>0. PICK f : IsLedger(p, t, w, v, f)
    BY LedgerIs
  <1>1. /\ IsFlat(Changes, WaveChanges(p, t, w), f)
        /\ f[n] \in Seq(Changes) /\ w \in Seq(SUBSET Entries)
        /\ \A j \in DOMAIN w : w[j] \cap Earlier(w, j) = {}
        /\ peak = Peak(s \o f[n], v)
    BY <1>0 DEF IsLedger
  <1> DEFINE b == f[i - 1]
             r == ReserveWave(p, t, W)
             c == CommitWave(p, t, W, E)
  <1>2. i \in 1 .. n /\ n \in Nat /\ i - 1 \in 0 .. n /\ (i - 1) + 1 = i /\ i \in 0 .. n
    BY <1>1
  <1>3. /\ f[i] = b \o (r \o c) /\ W \in SUBSET Entries /\ E \in SUBSET Entries
        /\ W \cap E = {} /\ r \in Seq(Changes) /\ c \in Seq(Changes)
    <2>0. AreChanges(p, t, w)
      BY <1>1, WaveChangesType
    <2>1. f[i] = b \o WaveChanges(p, t, w)[i]
      BY <1>1, <1>2, <2>0 DEF IsFlat, AreChanges
    <2>2. /\ WaveChanges(p, t, w)[i] = r \o c /\ W \in SUBSET Entries /\ E \in SUBSET Entries
          /\ r \in Seq(Changes) /\ c \in Seq(Changes)
      BY <1>2, <2>0 DEF AreChanges
    <2> HIDE DEF r, c, b
    <2>3. QED
      BY <1>1, <2>1, <2>2
  <1>4. PICK rest \in Seq(Changes) : f[n] = f[i] \o rest
    <2> DEFINE seqs == WaveChanges(p, t, w)
    <2>1. /\ seqs \in Seq(Seq(Changes)) /\ IsFlat(Changes, seqs, f) /\ Len(seqs) = n
          /\ i \in 0 .. Len(seqs)
      BY <1>1, <1>2, WaveChangesType DEF AreChanges
    <2> HIDE DEF seqs, n
    <2>2. GoesOn(Changes, f, i, Len(seqs))
      BY <2>1, FlatSplits
    <2>3. QED
      BY <2>1, <2>2 DEF GoesOn
  <1>5. b \in Seq(Changes) /\ Level(b, v) = Spent(p, t, E, E, v)
    <2> DEFINE k == i - 1
    <2>1. k \in 0 .. Len(w) /\ k + 1 = i
      BY <1>2
    <2> HIDE DEF k
    <2>2. Reached(p, t, w, f, k, v)
      BY <1>1, <2>1, LevelSoFar
    <2>3. QED
      BY <2>1, <2>2 DEF k, Reached
  <1>6. s \in Seq(Changes) /\ Level(s, v) \in Int
    <2>1. s \in Seq(Changes)
      BY StartLevel DEF StartSplits
    <2>2. QED
      BY <2>1, LevelConcat
  <1>7. Spends(p, t, E, W, v)
    <2> HIDE DEF E, W
    <2>1. QED
      BY <1>3, SpentStep
  <1>8. /\ r = Outputs(p, W) \o Copies(p, W)
        /\ Outputs(p, W) \in Seq(Changes) /\ Copies(p, W) \in Seq(Changes)
        /\ work => Level(Outputs(p, W), "work") = SumOver(Hdiffs(p, W), NewSize)
    <2> HIDE DEF W
    <2>1. QED
      BY <1>3, ReserveLevel
  <1> DEFINE spent == Spent(p, t, E, E, v)
             reserved == Spent(p, t, E, E \cup W, v)
  <1>9. spent \in Int /\ reserved = spent + Level(r, v)
    BY <1>7 DEF Spends
  <1> DEFINE o == Outputs(p, W)
             q == Copies(p, W)
             output == SumOver(Hdiffs(p, W), NewSize)
  <1> HIDE DEF peak, n, s, b, r, c, spent, reserved, o, q, output
  <1>10. s \o f[n] = s \o ((b \o (r \o c)) \o rest)
    BY <1>3, <1>4
  <1>11. Level(s, v) + reserved <= peak /\ reserved \in Int
    <2> DEFINE sb == s \o b
               sbr == sb \o r
               cr == c \o rest
    <2>1. /\ sb \in Seq(Changes) /\ sbr \in Seq(Changes) /\ cr \in Seq(Changes)
          /\ s \o ((b \o (r \o c)) \o rest) = sbr \o cr
      <3>1. Joins(Changes, s, b, r, c, rest)
        BY <1>3, <1>4, <1>5, <1>6, JoinAll
      <3>2. QED
        BY <3>1 DEF Joins
    <2>2. Level(sb, v) = Level(s, v) + Level(b, v)
      BY <1>5, <1>6, LevelConcat
    <2> HIDE DEF sb, cr
    <2>3. Level(sbr, v) = Level(sb, v) + Level(r, v) /\ Level(r, v) \in Int
      BY <1>3, <2>1, LevelConcat
    <2> HIDE DEF sbr
    <2>4. Level(sbr, v) <= Peak(s \o f[n], v)
      BY <1>10, <2>1, PrefixCovered
    <2>5. Level(b, v) = spent /\ peak = Peak(s \o f[n], v)
      BY <1>1, <1>5 DEF spent, peak, s, n
    <2>6. QED
      BY <1>6, <1>9, <2>2, <2>3, <2>4, <2>5
  <1>12. ASSUME work, v = "work"
         PROVE  Level(s, v) + spent + output <= peak
    <2> DEFINE qc == q \o c
               sb == s \o b
               sbo == sb \o o
               qcr == qc \o rest
    <2>1. r = o \o q /\ o \in Seq(Changes) /\ q \in Seq(Changes) /\ Level(o, v) = output
      BY <1>8, <1>12 DEF o, q, output
    <2>2. qc \in Seq(Changes)
      BY <1>3, <2>1
    <2>3. r \o c = o \o qc
      BY <1>3, <2>1, ConcatAssociative, SMTT(60)
    <2>4. /\ sb \in Seq(Changes) /\ sbo \in Seq(Changes) /\ qcr \in Seq(Changes)
          /\ s \o ((b \o (o \o qc)) \o rest) = sbo \o qcr
      <3> HIDE DEF qc
      <3>1. Joins(Changes, s, b, o, qc, rest)
        BY <1>4, <1>5, <1>6, <2>1, <2>2, JoinAll
      <3>2. QED
        BY <3>1 DEF Joins
    <2>5. Level(sb, v) = Level(s, v) + Level(b, v)
      BY <1>5, <1>6, LevelConcat
    <2> HIDE DEF sb, qcr, qc
    <2>6. Level(sbo, v) = Level(sb, v) + Level(o, v) /\ Level(o, v) \in Int
      BY <2>1, <2>4, LevelConcat
    <2> HIDE DEF sbo
    <2>7. s \o f[n] = sbo \o qcr
      BY <1>10, <2>3, <2>4
    <2>8. Level(sbo, v) <= Peak(s \o f[n], v)
      BY <2>4, <2>7, PrefixCovered
    <2>9. Level(b, v) = spent /\ peak = Peak(s \o f[n], v)
      BY <1>1, <1>5 DEF spent, peak, s, n
    <2>10. QED
      BY <1>6, <1>9, <2>1, <2>5, <2>6, <2>8, <2>9
  <1>13. QED
    BY <1>3, <1>11, <1>12 DEF peak, s, spent, reserved, output

-----------------------------------------------------------------------------
(* What a first run has done to the tree its space check saw. *)

Fresh == crashes = 0 /\ faults = 0
Moved(f) == external /\ inst[f] = "absent" /\ ext[f] = check[1][f]
Other(f) == IF external THEN inst[f] ELSE ext[f]

\* The tree that was checked has no external root, and a file is new there if its entry is present.
SeenTree ==
  /\ check[1] \in [File -> {"absent", "old", "new"}]
  /\ check[2] = [f \in File |-> "absent"] /\ check[3] = FALSE
SeenPlan ==
  /\ plan # NoPlan
  /\ \A e \in Entries : plan.kind[e] = "present" <=> check[1][e] = "new"
  /\ Deleted \cap Entries = {} /\ Acyclic(DependsOn(plan))
SeenFiles ==
  /\ step = "extract" => inst = check[1] /\ ext = check[2]
  /\ step = "relocate" =>
       \A f \in File : \/ Moved(f)
                       \/ inst[f] = check[1][f] /\ (ext[f] = "absent" \/ (external /\ ext[f] = inst[f]))
  /\ step \in {"extract", "relocate"} => ~link
  /\ step \notin {"extract", "relocate"} => \A f \in File : Other(f) = "absent"
  /\ step \in {"owner", "layout", "top", "early"} => \A f \in File : Destination(f) = check[1][f]
  /\ step = "entries" =>
       /\ \A e \in Entries \ (done \cup made) : Destination(e) = check[1][e]
       /\ \A f \in File \ Entries : Destination(f) \in {"absent", check[1][f]}
       /\ \A f \in (Deleted \ Entries) \cap (released \cup (File \ Bases(plan))) :
            Destination(f) = "absent"
SeenWork ==
  /\ temps \cup made \subseteq Payloads(plan)
  /\ \A e \in made : plan.kind[e] = "hdiff"
  /\ staged \cap done = {}
  /\ step # "entries" => released = {}

Seen ==
  /\ crashes \in Nat /\ faults \in Nat
  /\ Fresh =>
       /\ mode \in {"idle", "graph", "finished"}
       /\ mode = "idle" => plan = NoPlan /\ ~link /\ \A f \in File : ext[f] = "absent"
       /\ mode = "graph" => SeenTree /\ (step \in Before => SeenPlan /\ SeenFiles /\ SeenWork)

\* Nothing has been checked at first.
LEMMA SeenInit == Init => Seen
  BY DEF Init, Seen, Fresh

\* What was checked stays.
LEMMA SeenStays ==
  ASSUME UNCHANGED <<check, plan>>
  PROVE  (SeenTree => SeenTree') /\ (SeenPlan => SeenPlan')
  BY DEF SeenTree, SeenPlan

\* A first run changes the tree it checked only as far as its step says.
LEMMA SeenNext == IInv /\ NothingMissing /\ Seen /\ [Next]_vars => Seen'
  <1> SUFFICES ASSUME IInv, NothingMissing, Seen, [Next]_vars
               PROVE  Seen'
    OBVIOUS
  <1> USE DEF tree, private, options, progress
  <1>1. Types /\ TypeOK /\ Modes /\ Roots /\ ConfigWaits
    BY DEF IInv, Types
  <1>2. CASE RunFails \/ Crash
    BY <1>2 DEF RunFails, Crash, Seen, Fresh
  <1>3. CASE Stop \/ UNCHANGED vars
    BY <1>3 DEF Stop, vars, Seen, Fresh, SeenTree, SeenPlan, SeenFiles, SeenWork, Moved, Other, Destination
  <1>4. ASSUME Run
        PROVE  UNCHANGED <<crashes, faults>>
    BY <1>4 DEF Run, SavePatchPlan, Resume, Discard, RemovePlanFile, RemoveDeferredDir, PatchDirGone,
       Extract, Extracted, RelocateCopy, RelocateRemove, LinkRoot, WriteOwner, WriteLayout, CommitTopLevel,
       EarlyDeletes, EntryPresent, EntryBegin, EntryCommit, EntryCleanPayload, ReleaseBase, ApplyDeletes,
       CommitDeferred, CleanStage
  <1>5. CASE Run /\ ~Fresh
    BY <1>4, <1>5 DEF Seen, Fresh
  <1>6. CASE Run /\ Fresh
    <2>1. /\ crashes' \in Nat /\ faults' \in Nat
          /\ mode \in {"idle", "graph", "finished"}
          /\ mode = "idle" => plan = NoPlan /\ ~link /\ \A f \in File : ext[f] = "absent"
          /\ mode = "graph" => SeenTree
          /\ mode = "graph" /\ step \in Before => SeenPlan /\ SeenFiles /\ SeenWork
          /\ mode # "graph" => step = "none"
      BY <1>1, <1>4, <1>6 DEF Seen, Modes
    <2>2. ASSUME mode' = "finished" \/ (mode' = "graph" /\ SeenTree' /\ step' \notin Before)
          PROVE  Seen'
      BY <2>1, <2>2 DEF Seen
    <2>3. ASSUME mode' = "graph", SeenTree', SeenPlan', SeenFiles', SeenWork'
          PROVE  Seen'
      BY <2>1, <2>3 DEF Seen
    <2>4. ASSUME NEW s \in Before, step = s
          PROVE  /\ mode = "graph" /\ SeenTree /\ SeenPlan /\ SeenFiles /\ SeenWork
                 /\ s # "entries" => temps = {} /\ made = {} /\ done = {} /\ released = {}
      <3>1. step # "none" /\ step \in Before
        BY <2>4 DEF Before
      <3>2. step # "entries" => temps = {} /\ made = {} /\ done = {}
        BY <1>1, <3>1 DEF Modes, Before
      <3>3. QED
        BY <2>1, <2>4, <3>1, <3>2 DEF SeenWork
    <2>5. CASE SavePatchPlan
      <3>1. /\ mode' = "graph" /\ step' = "extract" /\ plan' = Planned
            /\ check' = <<inst, ext, link, layout>> /\ inst' = inst /\ ext' = ext /\ link' = link
            /\ temps' = {} /\ made' = {} /\ done' = {} /\ released' = {} /\ Plannable /\ mode = "idle"
        BY <2>5 DEF SavePatchPlan, Begin
      <3>2. ~link /\ inst \in [File -> {"absent", "old", "new"}] /\ ext = [f \in File |-> "absent"]
        BY <1>1, <2>1, <3>1, TreeTypes
      <3>3. check'[1] = inst /\ check'[2] = ext /\ check'[3] = link
        BY <3>1
      <3>4. SeenTree'
        BY <3>2, <3>3 DEF SeenTree
      <3>5. SeenPlan'
        <4>1. Planned # NoPlan /\ Deleted \cap Entries = {} /\ Acyclic(DependsOn(Planned))
          BY <1>1, <3>1, PlannedFacts DEF Plannable
        <4>2. ASSUME NEW e \in Entries
              PROVE  Planned.kind[e] = "present" <=> inst[e] = "new"
          <5>1. Planned.kind[e] = Kind(e) /\ Logical(e) = inst[e]
            BY <3>2 DEF Planned, Logical
          <5>2. Kind(e) = "present" <=> Logical(e) = "new"
            BY DEF Kind
          <5>3. QED
            BY <5>1, <5>2
        <4>3. QED
          BY <3>1, <3>3, <4>1, <4>2 DEF SeenPlan
      <3>6. SeenFiles'
        BY <3>1, <3>2, <3>3 DEF SeenFiles
      <3>7. SeenWork'
        BY <3>1 DEF SeenWork
      <3>8. QED
        BY <2>3, <3>1, <3>4, <3>5, <3>6, <3>7
    <2>6. CASE Resume \/ Discard
      BY <2>1, <2>6 DEF Resume, Discard, Ready
    <2>7. CASE RemovePlanFile \/ RemoveDeferredDir
      <3>1. step = "state" /\ step' = step /\ mode' = mode /\ check' = check
        BY <2>7 DEF RemovePlanFile, RemoveDeferredDir
      <3>2. QED
        BY <2>1, <2>2, <3>1 DEF Before, SeenTree
    <2>8. CASE PatchDirGone
      BY <2>1, <2>2, <2>8 DEF PatchDirGone, Begin
    <2>9. ASSUME NEW x \in File \cup {"config"}, Extract(x)
          PROVE  Seen'
      <3>1. /\ step = "extract" /\ step' = step /\ mode' = mode /\ done' = done /\ temps' = temps
            /\ made' = made /\ released' = released /\ check' = check /\ plan' = plan
            /\ inst' = inst /\ ext' = ext /\ link' = link
        BY <2>9 DEF Extract, Going
      <3>2. /\ mode = "graph" /\ SeenTree /\ SeenPlan /\ SeenFiles /\ SeenWork
            /\ temps = {} /\ made = {} /\ done = {} /\ released = {}
        BY <2>4, <3>1 DEF Before
      <3>3. SeenFiles' /\ SeenWork'
        BY <3>1, <3>2 DEF SeenFiles, SeenWork
      <3>4. QED
        BY <2>3, <3>1, <3>2, <3>3, SeenStays
    <2>10. CASE Extracted
      <3>1. /\ step = "extract" /\ step' = "relocate" /\ mode' = mode /\ done' = done /\ temps' = temps
            /\ made' = made /\ released' = released /\ check' = check /\ plan' = plan
            /\ inst' = inst /\ ext' = ext /\ link' = link
        BY <2>10 DEF Extracted, Going, Goto
      <3>2. /\ mode = "graph" /\ SeenTree /\ SeenPlan /\ SeenFiles /\ SeenWork
            /\ temps = {} /\ made = {} /\ done = {} /\ released = {}
        BY <2>4, <3>1 DEF Before
      <3>3. SeenFiles' /\ SeenWork'
        BY <3>1, <3>2 DEF SeenFiles, SeenWork, SeenTree
      <3>4. QED
        BY <2>3, <3>1, <3>2, <3>3, SeenStays
    <2>11. ASSUME NEW g \in File, RelocateCopy(g) \/ RelocateRemove(g)
           PROVE  Seen'
      <3>1. /\ step = "relocate" /\ step' = step /\ mode' = mode /\ done' = done /\ temps' = temps
            /\ made' = made /\ released' = released /\ check' = check /\ plan' = plan
            /\ link' = link /\ external' = external /\ g \in todo
        BY <2>11 DEF RelocateCopy, RelocateRemove, Going
      <3>2. /\ mode = "graph" /\ SeenTree /\ SeenPlan /\ SeenFiles /\ SeenWork
            /\ temps = {} /\ made = {} /\ done = {} /\ released = {}
        BY <2>4, <3>1 DEF Before
      <3>3. external /\ inst[g] # "absent"
        BY <1>1, <3>1, <3>2 DEF Roots, Going
      <3>4. inst[g] = check[1][g]
        BY <3>1, <3>2, <3>3 DEF SeenFiles, Moved
      <3>5. \A f \in File \ {g} : inst'[f] = inst[f] /\ ext'[f] = ext[f]
        BY <1>1, <2>11, TreeTypes DEF RelocateCopy, RelocateRemove
      <3>6. \/ inst'[g] = inst[g] /\ ext'[g] = inst[g]
            \/ inst'[g] = "absent" /\ ext'[g] = inst[g]
        BY <1>1, <2>11, TreeTypes DEF RelocateCopy, RelocateRemove
      <3>7. ASSUME NEW f \in File
            PROVE  \/ Moved(f)'
                   \/ inst'[f] = check'[1][f] /\ (ext'[f] = "absent" \/ (external' /\ ext'[f] = inst'[f]))
        <4>1. CASE f = g
          BY <3>1, <3>3, <3>4, <3>6, <4>1 DEF Moved
        <4>2. CASE f # g
          <5>1. \/ Moved(f)
                \/ inst[f] = check[1][f] /\ (ext[f] = "absent" \/ (external /\ ext[f] = inst[f]))
            BY <3>1, <3>2 DEF SeenFiles
          <5>2. QED
            BY <3>1, <3>5, <4>2, <5>1 DEF Moved
        <4>3. QED
          BY <4>1, <4>2
      <3>8. SeenFiles'
        BY <3>1, <3>2, <3>7 DEF SeenFiles
      <3>9. SeenWork'
        BY <3>1, <3>2 DEF SeenWork
      <3>10. QED
        BY <2>3, <3>1, <3>2, <3>8, <3>9, SeenStays
    <2>12. CASE LinkRoot
      <3>1. /\ step = "relocate" /\ step' = IF external THEN "owner" ELSE "top"
            /\ mode' = mode /\ done' = done /\ temps' = temps
            /\ made' = made /\ released' = released /\ check' = check /\ plan' = plan
            /\ inst' = inst /\ ext' = ext /\ external' = external /\ todo = {} /\ staged' = staged
        BY <2>12 DEF LinkRoot, Going, Goto
      <3>2. /\ mode = "graph" /\ SeenTree /\ SeenPlan /\ SeenFiles /\ SeenWork
            /\ temps = {} /\ made = {} /\ done = {} /\ released = {}
        BY <2>4, <3>1 DEF Before
      <3>3. \A f \in File : external => inst[f] = "absent"
        BY <1>1, <3>1, <3>2 DEF Roots, Going, SeenFiles
      <3>4. ASSUME NEW f \in File
            PROVE  Other(f)' = "absent" /\ Destination(f)' = check'[1][f]
        <4>1. \/ Moved(f)
              \/ inst[f] = check[1][f] /\ (ext[f] = "absent" \/ (external /\ ext[f] = inst[f]))
          BY <3>1, <3>2 DEF SeenFiles
        <4>2. QED
          BY <3>1, <3>3, <4>1 DEF Moved, Other, Destination
      <3>5. SeenFiles'
        BY <3>1, <3>4 DEF SeenFiles
      <3>6. SeenWork'
        BY <3>1, <3>2 DEF SeenWork
      <3>7. QED
        BY <2>3, <3>1, <3>2, <3>5, <3>6, SeenStays
    <2>13. CASE WriteOwner \/ WriteLayout \/ CommitTopLevel
      <3>1. /\ step \in {"owner", "layout", "top"} /\ step' \in {"layout", "top", "early"}
            /\ mode' = mode /\ done' = done /\ temps' = temps
            /\ made' = made /\ released' = released /\ check' = check /\ plan' = plan
            /\ inst' = inst /\ ext' = ext /\ external' = external
        BY <2>13 DEF WriteOwner, WriteLayout, CommitTopLevel, Going, Goto
      <3>2. /\ mode = "graph" /\ SeenTree /\ SeenPlan /\ SeenFiles /\ SeenWork
            /\ temps = {} /\ made = {} /\ done = {} /\ released = {}
        BY <2>4, <3>1 DEF Before
      <3>3. \A f \in File : Other(f) = "absent" /\ Destination(f) = check[1][f]
        BY <3>1, <3>2 DEF SeenFiles
      <3>4. \A f \in File : Other(f)' = "absent" /\ Destination(f)' = check'[1][f]
        BY <3>1, <3>3 DEF Other, Destination
      <3>5. SeenFiles'
        BY <3>1, <3>4 DEF SeenFiles
      <3>6. SeenWork'
        BY <3>1, <3>2 DEF SeenWork
      <3>7. QED
        BY <2>3, <3>1, <3>2, <3>5, <3>6, SeenStays
    <2>14. CASE EarlyDeletes
      <3> DEFINE S == Deleted \ (Bases(plan) \cup Entries)
      <3>1. /\ step = "early" /\ step' = "entries" /\ RemoveFiles(S)
            /\ mode' = mode /\ done' = done /\ temps' = temps /\ staged' = staged
            /\ made' = made /\ released' = released /\ check' = check /\ plan' = plan
            /\ external' = external
        BY <2>14 DEF EarlyDeletes, Going, Goto
      <3>2. /\ mode = "graph" /\ SeenTree /\ SeenPlan /\ SeenFiles /\ SeenWork
            /\ temps = {} /\ made = {} /\ done = {} /\ released = {}
        BY <2>4, <3>1 DEF Before
      <3>3. /\ \A f \in File : Destination(f)' = IF f \in S THEN "absent" ELSE Destination(f)
            /\ \A f \in File : inst'[f] \in {"absent", inst[f]} /\ ext'[f] \in {"absent", ext[f]}
        <4>1. S \in SUBSET File
          BY PatchAssumption
        <4> HIDE DEF S
        <4>2. QED
          BY <1>1, <3>1, <4>1, RemovedFacts
      <3>4. \A f \in File : Other(f) = "absent" /\ Destination(f) = check[1][f]
        BY <3>1, <3>2 DEF SeenFiles
      <3>5. \A f \in File : Other(f)' = "absent"
        BY <3>1, <3>3, <3>4 DEF Other
      <3>6. /\ \A e \in Entries : Destination(e)' = check'[1][e]
            /\ \A f \in File \ Entries : Destination(f)' \in {"absent", check'[1][f]}
        BY <3>1, <3>3, <3>4, EntryFacts
      <3>7. \A f \in (Deleted \ Entries) \cap (released' \cup (File \ Bases(plan'))) : Destination(f)' = "absent"
        BY <3>1, <3>2, <3>3
      <3>8. SeenFiles'
        BY <3>1, <3>5, <3>6, <3>7 DEF SeenFiles
      <3>9. SeenWork'
        BY <3>1, <3>2 DEF SeenWork
      <3>10. QED
        BY <2>3, <3>1, <3>2, <3>8, <3>9, SeenStays
    <2>15. ASSUME NEW e \in Entries, EntryPresent(e) \/ EntryBegin(e)
           PROVE  Seen'
      <3>1. /\ step = "entries" /\ EntryReady(e) /\ e \in Entries \ (done \cup temps \cup made)
            /\ check' = check /\ plan' = plan
            /\ inst' = inst /\ ext' = ext /\ external' = external /\ staged' = staged
        BY <2>15 DEF EntryPresent, EntryBegin, EntryReady, Going
      <3>2. mode = "graph" /\ SeenTree /\ SeenPlan /\ SeenFiles /\ SeenWork
        BY <2>4, <3>1 DEF Before
      <3>3. \/ /\ Destination(e) = "new" /\ done' = done \cup {e} /\ temps' = temps
            \/ /\ Sourced(e) /\ temps' = temps \cup {e} /\ done' = done
        BY <2>15, <3>1 DEF EntryPresent, EntryBegin, NothingMissing
      <3>4. mode' = mode /\ step' = step /\ made' = made /\ released' = released
        BY <2>15, <3>1 DEF EntryPresent, EntryBegin, NothingMissing
      <3>5. Destination(e) = "new" => e \notin staged
        <4>1. Destination(e) = check[1][e]
          BY <3>1, <3>2 DEF SeenFiles
        <4>2. staged \cap Entries \subseteq Payloads(plan)
          BY <1>1, <3>2 DEF TypeOK, SeenPlan
        <4>3. QED
          BY <3>2, <4>1, <4>2 DEF SeenPlan, Payloads
      <3>6. \A f \in File : Other(f)' = Other(f) /\ Destination(f)' = Destination(f)
        BY <3>1 DEF Other, Destination
      <3>7. SeenFiles'
        <4>1. done \subseteq done'
          BY <3>3
        <4>2. QED
          BY <3>1, <3>2, <3>4, <3>6, <4>1, EntryFacts, PatchAssumption DEF SeenFiles
      <3>8. SeenWork'
        BY <3>1, <3>2, <3>3, <3>4, <3>5 DEF SeenWork, Sourced, Payloads
      <3>9. QED
        BY <2>3, <3>1, <3>2, <3>4, <3>7, <3>8, SeenStays
    <2>16. ASSUME NEW e \in Entries, EntryCommit(e)
           PROVE  Seen'
      <3>1. /\ step = "entries" /\ e \in temps /\ step' = step /\ mode' = mode
            /\ check' = check /\ plan' = plan /\ external' = external /\ released' = released
            /\ temps' = temps \ {e}
            /\ IF plan.kind[e] = "local"
               THEN staged' = staged \ {e} /\ done' = done \cup {e} /\ made' = made
               ELSE made' = made \cup {e} /\ staged' = staged /\ done' = done
        BY <2>16 DEF EntryCommit, Going
      <3>2. mode = "graph" /\ SeenTree /\ SeenPlan /\ SeenFiles /\ SeenWork
        BY <2>4, <3>1 DEF Before
      <3>3. /\ \A f \in File \ {e} : Destination(f)' = Destination(f)
            /\ \A f \in File : Other(f)' = Other(f)
        BY <1>1, <2>16, TreeTypes DEF EntryCommit, Destination, Other
      <3>4. e \in done' \cup made' /\ done \cup made \subseteq done' \cup made'
        BY <3>1
      <3>5. SeenFiles'
        <4>1. \A x \in Entries \ (done' \cup made') : Destination(x)' = check'[1][x]
          BY <3>1, <3>2, <3>3, <3>4, EntryFacts DEF SeenFiles
        <4>2. \A f \in File \ Entries : Destination(f)' \in {"absent", check'[1][f]}
          BY <3>1, <3>2, <3>3 DEF SeenFiles
        <4>3. \A f \in (Deleted \ Entries) \cap (released' \cup (File \ Bases(plan'))) :
                Destination(f)' = "absent"
          BY <3>1, <3>2, <3>3, PatchAssumption DEF SeenFiles
        <4>4. \A f \in File : Other(f)' = "absent"
          BY <3>1, <3>2, <3>3 DEF SeenFiles
        <4>5. QED
          BY <3>1, <4>1, <4>2, <4>3, <4>4 DEF SeenFiles
      <3>6. SeenWork'
        <4>1. plan.kind[e] \in {"local", "hdiff"} /\ e \in Payloads(plan)
          BY <3>1, <3>2 DEF SeenWork, Payloads
        <4>2. e \notin done
          BY <1>1, <3>1 DEF TypeOK
        <4>3. Payloads(plan') = Payloads(plan)
          BY <3>1
        <4>4. QED
          BY <3>1, <3>2, <4>1, <4>2, <4>3 DEF SeenWork
      <3>7. QED
        BY <2>3, <3>1, <3>2, <3>5, <3>6, SeenStays
    <2>17. ASSUME NEW e \in Entries, EntryCleanPayload(e)
           PROVE  Seen'
      <3>1. /\ step = "entries" /\ e \in made /\ step' = step /\ mode' = mode
            /\ check' = check /\ plan' = plan /\ external' = external /\ released' = released
            /\ temps' = temps /\ staged' = staged \ {e} /\ made' = made \ {e} /\ done' = done \cup {e}
            /\ inst' = inst /\ ext' = ext
        BY <2>17 DEF EntryCleanPayload, Going
      <3>2. mode = "graph" /\ SeenTree /\ SeenPlan /\ SeenFiles /\ SeenWork
        BY <2>4, <3>1 DEF Before
      <3>3. \A f \in File : Other(f)' = Other(f) /\ Destination(f)' = Destination(f)
        BY <3>1 DEF Other, Destination
      <3>4. done' \cup made' = done \cup made
        BY <3>1
      <3>5. SeenFiles'
        BY <3>1, <3>2, <3>3, <3>4, EntryFacts, PatchAssumption DEF SeenFiles
      <3>6. SeenWork'
        BY <3>1, <3>2 DEF SeenWork
      <3>7. QED
        BY <2>3, <3>1, <3>2, <3>5, <3>6, SeenStays
    <2>18. ASSUME NEW g \in File, ReleaseBase(g)
           PROVE  Seen'
      <3> DEFINE S == ({g} \cap Deleted) \ Entries
      <3>1. /\ step = "entries" /\ step' = step /\ mode' = mode /\ RemoveFiles(S)
            /\ check' = check /\ plan' = plan /\ external' = external /\ released' = released \cup {g}
            /\ temps' = temps /\ staged' = staged /\ made' = made /\ done' = done
        BY <2>18 DEF ReleaseBase, Going
      <3>2. mode = "graph" /\ SeenTree /\ SeenPlan /\ SeenFiles /\ SeenWork
        BY <2>4, <3>1 DEF Before
      <3>3. /\ \A f \in File : Destination(f)' = IF f \in S THEN "absent" ELSE Destination(f)
            /\ \A f \in File : inst'[f] \in {"absent", inst[f]} /\ ext'[f] \in {"absent", ext[f]}
        <4>1. S \in SUBSET File
          OBVIOUS
        <4> HIDE DEF S
        <4>2. QED
          BY <1>1, <3>1, <4>1, RemovedFacts
      <3>4. \A f \in File : Other(f)' = "absent"
        BY <3>1, <3>2, <3>3 DEF Other, SeenFiles
      <3>5. \A e \in Entries \ (done \cup made) : Destination(e)' = check[1][e]
        BY <3>1, <3>2, <3>3, EntryFacts DEF SeenFiles
      <3>6. \A f \in File \ Entries : Destination(f)' \in {"absent", check[1][f]}
        BY <3>1, <3>2, <3>3 DEF SeenFiles
      <3>7. ASSUME NEW f \in (Deleted \ Entries) \cap (released' \cup (File \ Bases(plan)))
            PROVE  Destination(f)' = "absent"
        <4>1. f \in File
          BY PatchAssumption
        <4>2. CASE f = g
          BY <3>3, <4>1, <4>2
        <4>3. CASE f # g
          BY <3>1, <3>2, <3>3, <4>1, <4>3 DEF SeenFiles
        <4>4. QED
          BY <4>2, <4>3
      <3>8. SeenFiles'
        BY <3>1, <3>4, <3>5, <3>6, <3>7 DEF SeenFiles
      <3>9. SeenWork'
        BY <3>1, <3>2 DEF SeenWork
      <3>10. QED
        BY <2>3, <3>1, <3>2, <3>8, <3>9, SeenStays
    <2>19. CASE ApplyDeletes \/ CommitDeferred \/ CleanStage
      <3>1. /\ step \in {"entries", "deferred", "stage"} /\ check' = check /\ mode \in {"graph", "serial"}
            /\ mode' = mode /\ step' \in {"deferred", "stage", "state"}
        BY <1>1, <2>19 DEF ApplyDeletes, CommitDeferred, CleanStage, Going, Goto, ConfigWaits, Running
      <3>2. mode = "graph" /\ SeenTree
        BY <2>1, <3>1
      <3>3. QED
        BY <2>2, <3>1, <3>2 DEF Before, SeenTree
    <2>20. QED
      BY <1>6, <2>5, <2>6, <2>7, <2>8, <2>9, <2>10, <2>11, <2>12, <2>13, <2>14, <2>15, <2>16, <2>17, <2>18,
         <2>19 DEF Run
  <1>7. QED
    BY <1>2, <1>3, <1>5, <1>6 DEF Next

-----------------------------------------------------------------------------
(* What a first run uses while no entry runs ahead of its wave. *)

FirstRun == IInv /\ Seen /\ Fresh /\ mode = "graph"
Checked == [f \in File |-> SizeOf(f, check[1][f])]

\* The waves E are applied, and only W is in work.
Between(E, W) ==
  /\ E \in SUBSET Entries /\ W \in SUBSET Entries /\ E \cap W = {}
  /\ E \subseteq done /\ temps \cup made \cup done \subseteq E \cup W
  /\ Freed(plan, E) \subseteq released

\* The size of a file is that of what it holds.
LEMMA SizeOfFacts ==
  ASSUME NEW f \in File
  PROVE  /\ \A c : SizeOf(f, c) \in Nat
         /\ SizeOf(f, "old") = OldSize[f] /\ SizeOf(f, "new") = NewSize[f] /\ SizeOf(f, "absent") = 0
         /\ OldSize[f] \in Nat /\ NewSize[f] \in Nat /\ PayloadSize[f] \in Nat
  <1>1. OldSize[f] \in Nat /\ NewSize[f] \in Nat /\ PayloadSize[f] \in Nat
    BY SizeFacts DEF Sized
  <1>2. /\ SizeOf(f, "old") = OldSize[f] /\ SizeOf(f, "new") = NewSize[f] /\ SizeOf(f, "absent") = 0
    BY DEF SizeOf
  <1>3. ASSUME NEW c
        PROVE  SizeOf(f, c) \in Nat
    BY <1>1 DEF SizeOf
  <1>4. QED
    BY <1>1, <1>2, <1>3

\* What a first run knows of its plan and its tree.
LEMMA FirstRunFacts ==
  ASSUME FirstRun
  PROVE  /\ TypeOK /\ SeenTree /\ Checked \in Sized
         /\ step \in Before => /\ SeenPlan /\ SeenFiles /\ SeenWork /\ plan \in Plans
                               /\ staged \cap Entries \subseteq Payloads(plan)
                               /\ Depended(plan)
         /\ \A f \in File : Checked[f] = SizeOf(f, check[1][f])
  <1>1. TypeOK /\ SeenTree /\ (plan # NoPlan => plan \in Plans)
    BY DEF FirstRun, IInv, Types, Seen
  <1>2. Checked \in Sized /\ \A f \in File : Checked[f] = SizeOf(f, check[1][f])
    BY SizeOfFacts DEF Checked, Sized
  <1>3. ASSUME step \in Before
        PROVE  /\ SeenPlan /\ SeenFiles /\ SeenWork /\ plan \in Plans
               /\ staged \cap Entries \subseteq Payloads(plan)
    BY <1>1, <1>3 DEF FirstRun, Seen, SeenPlan, TypeOK
  <1>4. Depended(plan)
    BY DEF Depended, DependsOn
  <1>5. QED
    BY <1>1, <1>2, <1>3, <1>4

\* The bytes of an entry in work, in terms of what it was and what it needs.
EntryBytes(E, W, x) ==
  SizeOf(x, Destination(x)) + (IF x \in temps THEN TempBytes(x, VfsVolume) ELSE 0)
    + (IF x \in staged /\ StageVolume = VfsVolume THEN PayloadSize[x] ELSE 0)
    + (IF x \in Writes(plan, E) THEN Checked[x] ELSE 0)
    + (IF x \in Writes(plan, E) /\ StageVolume = VfsVolume THEN Staging(plan)[x] ELSE 0)
  <= Checked[x] + (IF x \in Payloads(plan) /\ StageVolume = VfsVolume THEN PayloadSize[x] ELSE 0)
       + (IF x \in Locals(plan, E \cup W) THEN LocalOutput[x] ELSE 0)
       + (IF x \in Hdiffs(plan, E \cup W) THEN NewSize[x] ELSE 0)

\* One entry, from its payload to its output, never holds more than it was and needs.
LEMMA EntryCovered ==
  ASSUME FirstRun, step = "entries", NEW E, NEW W, Between(E, W), NEW x \in Entries
  PROVE  EntryBytes(E, W, x)
  <1> DEFINE size == SizeOf(x, Destination(x))
             old == Checked[x]
             new == NewSize[x]
             payload == PayloadSize[x]
             here == StageVolume = VfsVolume
             output == LocalOutput[x]
             staging == Staging(plan)[x]
             bytes == TempBytes(x, VfsVolume)
             kind == plan.kind[x]
  <1>1. /\ SeenPlan /\ SeenFiles /\ SeenWork /\ plan \in Plans /\ TypeOK
        /\ staged \cap Entries \subseteq Payloads(plan) /\ x \in File
    BY FirstRunFacts, EntryFacts DEF Before
  <1>2. kind \in {"present", "local", "hdiff"}
    BY <1>1 DEF Plans
  <1>3. size \in Nat /\ old \in Nat /\ new \in Nat /\ payload \in Nat
    BY <1>1, SizeOfFacts, FirstRunFacts
  <1>4. x \in done \cup made => size = new
    BY <1>1, SizeOfFacts DEF FirstRun, IInv, Work, Going
  <1>5. x \notin done \cup made => size = old
    BY <1>1, FirstRunFacts DEF SeenFiles
  <1>6. kind = "present" => old = new
    BY <1>1, SizeOfFacts, FirstRunFacts DEF SeenPlan
  <1>7. /\ x \in temps \cup made => kind # "present"
        /\ x \in made => kind = "hdiff"
        /\ x \in staged => kind # "present" /\ x \notin done
        /\ x \in temps => x \notin made /\ x \notin done
        /\ x \in made => x \notin done
    BY <1>1 DEF SeenWork, Payloads, TypeOK
  <1>8. /\ x \in E => x \in done /\ x \notin W
        /\ x \in temps \cup made \cup done => x \in E \cup W
    BY DEF Between
  <1>9. /\ kind = "hdiff" => bytes = new
        /\ kind = "local" => bytes = IF here THEN 0 ELSE new
    <2>1. VfsVolume # "work"
      BY VolumesAre
    <2>2. kind = "hdiff" => bytes = new
      <3>1. kind = "hdiff" => bytes = new + 0
        BY <2>1 DEF TempBytes
      <3>2. QED
        BY <1>3, <3>1
    <2>3. kind = "local" => bytes = IF here THEN 0 ELSE new
      BY DEF TempBytes
    <2>4. QED
      BY <2>2, <2>3
  <1>10. /\ output \in Nat /\ staging \in Nat
         /\ ~here => output = new
         /\ here => output = IF new >= payload THEN new - payload ELSE 0
         /\ kind = "hdiff" \/ ~here => staging = payload
         /\ kind # "hdiff" /\ here => staging = IF payload >= new THEN payload - new ELSE 0
    BY SizeFacts
  <1>11. /\ \A S : x \in Writes(plan, S) <=> x \in S /\ kind # "present"
         /\ \A S : x \in Locals(plan, S) <=> x \in S /\ kind = "local"
         /\ \A S : x \in Hdiffs(plan, S) <=> x \in S /\ kind = "hdiff"
         /\ x \in Payloads(plan) <=> kind # "present"
    BY <1>2 DEF Writes, Locals, Hdiffs, Payloads
  <1> DEFINE temp == IF x \in temps THEN bytes ELSE 0
             stage == IF x \in staged /\ here THEN payload ELSE 0
             was == IF x \in E /\ kind # "present" THEN old ELSE 0
             gone == IF x \in E /\ kind # "present" /\ here THEN staging ELSE 0
             paid == IF kind # "present" /\ here THEN payload ELSE 0
             local == IF x \in E \cup W /\ kind = "local" THEN output ELSE 0
             hdiff == IF x \in E \cup W /\ kind = "hdiff" THEN new ELSE 0
  <1>12. EntryBytes(E, W, x) <=> size + temp + stage + was + gone <= old + paid + local + hdiff
    BY <1>11 DEF EntryBytes
  <1> HIDE DEF size, old, new, payload, here, output, staging, bytes, kind
  <1>13. CASE kind = "present"
    <2>1. temp = 0 /\ stage = 0 /\ was = 0 /\ gone = 0 /\ paid = 0 /\ local = 0 /\ hdiff = 0
      BY <1>7, <1>13
    <2>2. size = old
      BY <1>4, <1>5, <1>6, <1>13
    <2> HIDE DEF temp, stage, was, gone, paid, local, hdiff
    <2>3. QED
      BY <1>3, <1>12, <2>1, <2>2
  <1>14. CASE kind = "local"
    <2>1. hdiff = 0 /\ paid = (IF here THEN payload ELSE 0) /\ x \notin made
      BY <1>7, <1>14
    <2>2. CASE x \in E
      <3>1. /\ temp = 0 /\ stage = 0 /\ was = old /\ gone = (IF here THEN staging ELSE 0)
            /\ local = output /\ size = new
        BY <1>4, <1>7, <1>8, <1>14, <2>2
      <3> HIDE DEF temp, stage, was, gone, paid, local, hdiff
      <3>2. QED
        BY <1>3, <1>10, <1>12, <1>14, <2>1, <3>1
    <2>3. CASE x \notin E
      <3>1. was = 0 /\ gone = 0 /\ (stage = 0 \/ stage = paid)
        BY <1>14, <2>3
      <3>2. CASE x \in done
        <4>1. temp = 0 /\ stage = 0 /\ local = output /\ size = new
          BY <1>4, <1>7, <1>8, <1>14, <3>2
        <4> HIDE DEF temp, stage, was, gone, paid, local, hdiff
        <4>2. QED
          BY <1>3, <1>10, <1>12, <1>14, <2>1, <3>1, <4>1
      <3>3. CASE x \in temps
        <4>1. temp = (IF here THEN 0 ELSE new) /\ local = output /\ size = old
          BY <1>5, <1>7, <1>8, <1>9, <1>14, <3>3
        <4> HIDE DEF temp, stage, was, gone, paid, local, hdiff
        <4>2. QED
          BY <1>3, <1>10, <1>12, <1>14, <2>1, <3>1, <4>1
      <3>4. CASE x \notin done /\ x \notin temps
        <4>1. temp = 0 /\ local \in Nat /\ size = old
          BY <1>5, <1>10, <2>1, <3>4
        <4> HIDE DEF temp, stage, was, gone, paid, local, hdiff
        <4>2. QED
          BY <1>3, <1>12, <2>1, <3>1, <4>1
      <3>5. QED
        BY <3>2, <3>3, <3>4
    <2>4. QED
      BY <2>2, <2>3
  <1>15. CASE kind = "hdiff"
    <2>1. local = 0 /\ paid = (IF here THEN payload ELSE 0)
      BY <1>15
    <2>2. CASE x \in E
      <3>1. /\ temp = 0 /\ stage = 0 /\ was = old /\ gone = (IF here THEN payload ELSE 0)
            /\ hdiff = new /\ size = new
        BY <1>4, <1>7, <1>8, <1>10, <1>15, <2>2
      <3> HIDE DEF temp, stage, was, gone, paid, local, hdiff
      <3>2. QED
        BY <1>3, <1>12, <2>1, <3>1
    <2>3. CASE x \notin E
      <3>1. was = 0 /\ gone = 0 /\ (stage = 0 \/ stage = paid)
        BY <1>15, <2>3
      <3>2. CASE x \in done \cup made
        <4>1. temp = 0 /\ hdiff = new /\ size = new
          BY <1>4, <1>7, <1>8, <1>15, <3>2
        <4> HIDE DEF temp, stage, was, gone, paid, local, hdiff
        <4>2. QED
          BY <1>3, <1>12, <2>1, <3>1, <4>1
      <3>3. CASE x \in temps
        <4>1. temp = new /\ hdiff = new /\ size = old
          BY <1>5, <1>7, <1>8, <1>9, <1>15, <3>3
        <4> HIDE DEF temp, stage, was, gone, paid, local, hdiff
        <4>2. QED
          BY <1>3, <1>12, <2>1, <3>1, <4>1
      <3>4. CASE x \notin done \cup made /\ x \notin temps
        <4>1. temp = 0 /\ hdiff \in Nat /\ size = old
          BY <1>3, <1>5, <3>4
        <4> HIDE DEF temp, stage, was, gone, paid, local, hdiff
        <4>2. QED
          BY <1>3, <1>12, <2>1, <3>1, <4>1
      <3>5. QED
        BY <3>2, <3>3, <3>4
    <2>4. QED
      BY <2>2, <2>3
  <1>16. QED
    BY <1>2, <1>13, <1>14, <1>15

\* A sum of no bytes, and of no more bytes.
LEMMA SumOfZeros ==
  ASSUME NEW S \in SUBSET File, NEW w, \A f \in S : w[f] = 0
  PROVE  SumOver(S, w) = 0
  <1> DEFINE P == {T \in SUBSET S : SumOver(T, w) = 0}
  <1>1. IsFiniteSet(S) /\ \A f \in S : w[f] \in Int
    BY SizeFacts, FS_Subset
  <1>2. {} \in P
    BY <1>1, SumParts
  <1>3. ASSUME NEW T \in P, NEW e \in S \ T
        PROVE  T \cup {e} \in P
    <2>1. T \in SUBSET S /\ SumOver(T, w) = 0 /\ w[e] = 0
      OBVIOUS
    <2>2. SumOver(T \cup {e}, w) = SumOver(T, w) + w[e]
      BY <1>1, <2>1, SumOne
    <2>3. QED
      BY <2>1, <2>2
  <1>4. P = SUBSET S
    <2>1. P \in SUBSET (SUBSET S)
      OBVIOUS
    <2> HIDE DEF P
    <2>2. QED
      BY <1>1, <1>2, <1>3, <2>1, FiniteSubsets
  <1>5. S \in P
    <2> HIDE DEF P
    <2>1. QED
      BY <1>4
  <1>6. QED
    BY <1>5

\* Smaller numbers have a smaller sum.
LEMMA SumOfLess ==
  ASSUME NEW w, NEW u, \A f \in File : w[f] \in Int /\ u[f] \in Int /\ w[f] <= u[f]
  PROVE  SumOver(File, w) <= SumOver(File, u)
  <1> DEFINE P == {T \in SUBSET File : SumOver(T, w) <= SumOver(T, u)}
  <1>1. IsFiniteSet(File) /\ \A f \in File : w[f] \in Int /\ u[f] \in Int
    BY SizeFacts
  <1>2. {} \in P
    <2>1. SumOver({}, w) = 0 /\ SumOver({}, u) = 0
      BY <1>1, SumParts
    <2>2. QED
      BY <2>1
  <1>3. ASSUME NEW T \in P, NEW e \in File \ T
        PROVE  T \cup {e} \in P
    <2>1. T \in SUBSET File /\ SumOver(T, w) <= SumOver(T, u) /\ w[e] <= u[e] /\ w[e] \in Int /\ u[e] \in Int
      BY <1>1
    <2>2. SumOver(T \cup {e}, w) = SumOver(T, w) + w[e] /\ SumOver(T, w) \in Int
      BY <1>1, <2>1, SumOne
    <2>3. SumOver(T \cup {e}, u) = SumOver(T, u) + u[e] /\ SumOver(T, u) \in Int
      BY <1>1, <2>1, SumOne
    <2>4. SumOver(T \cup {e}, w) <= SumOver(T \cup {e}, u)
      BY <2>1, <2>2, <2>3
    <2>5. QED
      BY <2>1, <2>4
  <1>4. P = SUBSET File
    <2>1. P \in SUBSET (SUBSET File)
      OBVIOUS
    <2> HIDE DEF P
    <2>2. QED
      BY <1>1, <1>2, <1>3, <2>1, FiniteSubsets
  <1>5. File \in P
    <2> HIDE DEF P
    <2>1. QED
      BY <1>4
  <1>6. QED
    BY <1>5

\* The staged payloads are some of the plan's.
LEMMA StagedCovered ==
  ASSUME NEW p, NEW S \in SUBSET Payloads(p)
  PROVE  /\ SumOver(S, PayloadSize) \in Int /\ SumOver(Payloads(p), PayloadSize) \in Int
         /\ SumOver(S, PayloadSize) <= SumOver(Payloads(p), PayloadSize)
  <1> DEFINE A == S
             B == Payloads(p) \ S
  <1>1. A \in SUBSET File /\ B \in SUBSET File /\ A \cap B = {} /\ Payloads(p) = A \cup B
    BY EntryFacts DEF Payloads
  <1>2. \A f \in File : PayloadSize[f] \in Int /\ PayloadSize[f] \in Nat
    BY SizeFacts DEF Sized
  <1> HIDE DEF A, B
  <1>3. SumOver(A, PayloadSize) \in Int /\ SumOver(A \cup B, PayloadSize) = SumOver(A, PayloadSize) + SumOver(B, PayloadSize)
    BY <1>1, <1>2, SizesAdd
  <1>4. SumOver(B, PayloadSize) \in Nat
    BY <1>1, <1>2, SumOfSizes
  <1>5. QED
    BY <1>1, <1>3, <1>4 DEF A

HeldSizes(i, e, v) == [f \in File |-> CASE v = "install" -> SizeOf(f, i[f])
                                        [] v = "external" -> SizeOf(f, e[f])
                                        [] OTHER -> 0]
\* What a volume holds of the tree, as a sum over all files.
LEMMA HeldIs ==
  ASSUME NEW i, NEW e, NEW v
  PROVE  /\ Held(i, e, v) = SumOver(File, HeldSizes(i, e, v)) /\ Held(i, e, v) \in Nat
         /\ \A f \in File : /\ HeldSizes(i, e, v)[f] \in Nat
                            /\ v = "install" => HeldSizes(i, e, v)[f] = SizeOf(f, i[f])
                            /\ v = "external" => HeldSizes(i, e, v)[f] = SizeOf(f, e[f])
                            /\ v \notin {"install", "external"} => HeldSizes(i, e, v)[f] = 0
  <1>1. Held(i, e, v) = SumOver(File, HeldSizes(i, e, v))
    BY DEF Held, HeldSizes
  <1>2. ASSUME NEW f \in File
        PROVE  /\ HeldSizes(i, e, v)[f] \in Nat
               /\ v = "install" => HeldSizes(i, e, v)[f] = SizeOf(f, i[f])
               /\ v = "external" => HeldSizes(i, e, v)[f] = SizeOf(f, e[f])
               /\ v \notin {"install", "external"} => HeldSizes(i, e, v)[f] = 0
    <2>1. SizeOf(f, i[f]) \in Nat /\ SizeOf(f, e[f]) \in Nat
      BY SizeOfFacts
    <2>2. QED
      BY <2>1 DEF HeldSizes
  <1>3. Held(i, e, v) \in Nat
    BY <1>1, <1>2, SumOfSizes
  <1>4. QED
    BY <1>1, <1>2, <1>3

\* What the checked tree holds.
LEMMA CheckedHeld ==
  ASSUME FirstRun, NEW v \in Volume
  PROVE  /\ SumOver(File, Checked) \in Int
         /\ Held(check[1], check[2], v) = IF v = "install" THEN SumOver(File, Checked) ELSE 0
  <1> DEFINE w == HeldSizes(check[1], check[2], v)
  <1>1. SumOver(File, Checked) \in Int
    <2>1. \A f \in File : Checked[f] \in Int
      BY FirstRunFacts DEF Sized
    <2>2. QED
      BY <2>1, SizesAdd
  <1>2. Held(check[1], check[2], v) = SumOver(File, w)
    BY HeldIs
  <1>3. CASE v = "install"
    <2>1. \A f \in File : w[f] = SizeOf(f, check[1][f])
      BY <1>3, HeldIs
    <2> HIDE DEF w
    <2>2. \A f \in File : w[f] \in Int /\ Checked[f] = w[f]
      BY <2>1, FirstRunFacts, SizeOfFacts
    <2>3. SumOver(File, w) = SumOver(File, Checked)
      BY <2>2, SizeFacts, SumAgree
    <2>4. QED
      BY <1>1, <1>2, <1>3, <2>3
  <1>4. CASE v # "install"
    <2>1. \A f \in File : w[f] = 0
      <3>1. \A f \in File : v = "external" => w[f] = SizeOf(f, check[2][f])
        BY HeldIs
      <3>2. \A f \in File : v # "external" => w[f] = 0
        BY <1>4, HeldIs
      <3>3. \A f \in File : SizeOf(f, check[2][f]) = 0
        BY FirstRunFacts, SizeOfFacts DEF SeenTree
      <3>4. QED
        BY <3>1, <3>2, <3>3
    <2> HIDE DEF w
    <2>2. SumOver(File, w) = 0
      BY <2>1, SumOfZeros
    <2>3. QED
      BY <1>1, <1>2, <1>4, <2>2
  <1>5. QED
    BY <1>3, <1>4

\* Sums over some files as sums over all of them.
Over(T, w) == [x \in File |-> IF x \in T THEN w[x] ELSE 0]
LEMMA OverIs ==
  ASSUME NEW T \in SUBSET File, NEW w, \A x \in T : w[x] \in Int
  PROVE  Over(T, w) \in [File -> Int] /\ SumOver(T, w) = SumOver(File, Over(T, w)) /\ SumOver(T, w) \in Int
  <1>1. Over(T, w) \in [File -> Int]
    BY DEF Over
  <1>2. SumOver(T, w) = SumOver(File, Over(T, w))
    BY SizeFacts, SumWithin DEF Over
  <1>3. SumOver(T, w) \in Int
    <2>1. IsFiniteSet(T) /\ T \in SUBSET T
      BY SizeFacts, FS_Subset
    <2>2. QED
      BY <2>1, SumParts
  <1>4. QED
    BY <1>1, <1>2, <1>3

EarlyFiles == Deleted \ (Bases(plan) \cup Entries)

\* A file that is no output is there at most as it was, and not at all once it is deleted or released.
LEMMA FileCovered ==
  ASSUME FirstRun, step = "entries", NEW E, NEW W, Between(E, W), NEW x \in File \ Entries
  PROVE  SizeOf(x, Destination(x)) + (IF x \in EarlyFiles \cup Freed(plan, E) THEN Checked[x] ELSE 0)
           <= Checked[x]
  <1> DEFINE size == SizeOf(x, Destination(x))
             old == Checked[x]
             gone == x \in EarlyFiles \cup Freed(plan, E)
  <1>1. SeenFiles /\ size \in Nat /\ old \in Nat
    BY FirstRunFacts, SizeOfFacts DEF Before
  <1>2. size \in {0, old}
    BY <1>1, FirstRunFacts, SizeOfFacts DEF SeenFiles
  <1>3. gone => size = 0
    <2>1. gone => x \in (Deleted \ Entries) \cap (released \cup (File \ Bases(plan)))
      BY DEF Between, Freed, EarlyFiles
    <2>2. QED
      BY <1>1, <2>1, SizeOfFacts DEF SeenFiles
  <1> HIDE DEF size, old, gone
  <1>4. size + (IF gone THEN old ELSE 0) <= old
    BY <1>1, <1>2, <1>3
  <1>5. QED
    BY <1>4 DEF size, old, gone

VfsTemp == [e \in Entries |-> TempBytes(e, VfsVolume)]
VfsSizes == [f \in File |-> SizeOf(f, Destination(f))]
EntriesBytes(E, W) ==
  /\ SumOver(File, VfsSizes) \in Int /\ SumOver(temps, VfsTemp) \in Int
  /\ SumOver(staged \cap Entries, PayloadSize) \in Int
  /\ SumOver(EarlyFiles, Checked) \in Int /\ SumOver(Freed(plan, E), Checked) \in Int
  /\ SumOver(Writes(plan, E), Checked) \in Int /\ SumOver(Writes(plan, E), Staging(plan)) \in Int
  /\ SumOver(File, Checked) \in Int /\ SumOver(Payloads(plan), PayloadSize) \in Int
  /\ SumOver(Locals(plan, E \cup W), LocalOutput) \in Int /\ SumOver(Hdiffs(plan, E \cup W), NewSize) \in Int
  /\ SumOver(File, VfsSizes) + SumOver(temps, VfsTemp)
       + (IF StageVolume = VfsVolume THEN SumOver(staged \cap Entries, PayloadSize) ELSE 0)
       + (SumOver(EarlyFiles, Checked) + SumOver(Freed(plan, E), Checked))
       + SumOver(Writes(plan, E), Checked)
       + (IF StageVolume = VfsVolume THEN SumOver(Writes(plan, E), Staging(plan)) ELSE 0)
     <= SumOver(File, Checked)
          + (IF StageVolume = VfsVolume THEN SumOver(Payloads(plan), PayloadSize) ELSE 0)
          + SumOver(Locals(plan, E \cup W), LocalOutput) + SumOver(Hdiffs(plan, E \cup W), NewSize)

\* The temporary files of an entry have a size.
LEMMA TempBytesType ==
  ASSUME NEW e \in Entries, NEW v
  PROVE  TempBytes(e, v) \in Nat
  <1>1. NewSize[e] \in Nat
    BY SizeFacts DEF Sized
  <1> DEFINE n == NewSize[e]
  <1> HIDE DEF n
  <1>2. CASE plan.kind[e] = "hdiff"
    <2>1. TempBytes(e, v) = (IF v = VfsVolume THEN n ELSE 0) + (IF work /\ v = "work" THEN n ELSE 0)
      BY <1>2 DEF TempBytes, n
    <2>2. QED
      BY <1>1, <2>1 DEF n
  <1>3. CASE plan.kind[e] # "hdiff"
    <2>1. TempBytes(e, v) = IF v = VfsVolume /\ StageVolume # VfsVolume THEN n ELSE 0
      BY <1>3 DEF TempBytes, n
    <2>2. QED
      BY <1>1, <2>1 DEF n
  <1>4. QED
    BY <1>2, <1>3

\* All files together, while the waves E are applied and W is in work.
LEMMA EntriesCovered ==
  ASSUME FirstRun, step = "entries", NEW E, NEW W, Between(E, W)
  PROVE  EntriesBytes(E, W)
  <1> DEFINE here == StageVolume = VfsVolume
             T2 == temps
             T3 == IF here THEN staged \cap Entries ELSE {}
             T4 == EarlyFiles \cup Freed(plan, E)
             T5 == Writes(plan, E)
             T6 == IF here THEN Writes(plan, E) ELSE {}
             U2 == IF here THEN Payloads(plan) ELSE {}
             U3 == Locals(plan, E \cup W)
             U4 == Hdiffs(plan, E \cup W)
  <1>1. /\ TypeOK /\ Checked \in Sized /\ staged \cap Entries \subseteq Payloads(plan)
        /\ SeenPlan /\ E \in SUBSET Entries /\ W \in SUBSET Entries /\ Entries \subseteq File
    BY FirstRunFacts, EntryFacts DEF Before, Between
  <1>2. /\ T2 \in SUBSET Entries /\ staged \cap Entries \in SUBSET Entries /\ T5 \in SUBSET Entries
        /\ Payloads(plan) \in SUBSET Entries /\ U3 \in SUBSET Entries /\ U4 \in SUBSET Entries
        /\ EarlyFiles \in SUBSET File /\ Freed(plan, E) \in SUBSET File /\ EarlyFiles \cap Freed(plan, E) = {}
        /\ T4 \cap Entries = {}
    BY <1>1, PatchAssumption DEF TypeOK, Writes, Payloads, Locals, Hdiffs, EarlyFiles, Freed
  <1>3. /\ VfsSizes \in [File -> Int] /\ Checked \in [File -> Int] /\ PayloadSize \in [File -> Int]
        /\ \A e \in Entries : /\ VfsTemp[e] \in Int /\ VfsTemp[e] = TempBytes(e, VfsVolume)
                              /\ Staging(plan)[e] \in Int /\ LocalOutput[e] \in Int /\ NewSize[e] \in Int
        /\ \A f \in File : VfsSizes[f] = SizeOf(f, Destination(f))
    BY <1>1, SizeFacts, SizeOfFacts, TempBytesType DEF VfsSizes, VfsTemp, Sized
  <1>4. /\ T3 \in SUBSET Entries /\ T6 \in SUBSET Entries /\ U2 \in SUBSET Entries /\ T4 \in SUBSET File
    BY <1>2
  <1>5. /\ SumOver(T3, PayloadSize) = IF here THEN SumOver(staged \cap Entries, PayloadSize) ELSE 0
        /\ SumOver(T6, Staging(plan)) = IF here THEN SumOver(Writes(plan, E), Staging(plan)) ELSE 0
        /\ SumOver(U2, PayloadSize) = IF here THEN SumOver(Payloads(plan), PayloadSize) ELSE 0
        /\ SumOver(T4, Checked) = SumOver(EarlyFiles, Checked) + SumOver(Freed(plan, E), Checked)
    <2>1. SumOver({}, PayloadSize) = 0
      <3>1. \A f \in File : PayloadSize[f] \in Int
        BY <1>3
      <3>2. QED
        BY <3>1, SizesAdd
    <2>2. SumOver({}, Staging(plan)) = 0
      <3>1. \A e \in Entries : Staging(plan)[e] \in Int
        BY <1>3
      <3>2. QED
        BY <3>1, EntrySizesAdd
    <2>3. SumOver(T4, Checked) = SumOver(EarlyFiles, Checked) + SumOver(Freed(plan, E), Checked)
      <3>1. \A f \in File : Checked[f] \in Int
        BY <1>3
      <3> DEFINE A == EarlyFiles
                 B == Freed(plan, E)
      <3>2. A \in SUBSET File /\ B \in SUBSET File /\ A \cap B = {}
        BY <1>2
      <3> HIDE DEF A, B
      <3>3. SumOver(A \cup B, Checked) = SumOver(A, Checked) + SumOver(B, Checked)
        BY <3>1, <3>2, SizesAdd
      <3>4. QED
        BY <3>3 DEF A, B
    <2>4. CASE here
      BY <2>3, <2>4
    <2>5. CASE ~here
      BY <2>1, <2>2, <2>3, <2>5
    <2>6. QED
      BY <2>4, <2>5
  <1>6. /\ SumOver(staged \cap Entries, PayloadSize) \in Int /\ SumOver(Writes(plan, E), Staging(plan)) \in Int
        /\ SumOver(Payloads(plan), PayloadSize) \in Int /\ SumOver(EarlyFiles, Checked) \in Int
        /\ SumOver(Freed(plan, E), Checked) \in Int
    <2>1. SumOver(staged \cap Entries, PayloadSize) \in Int /\ SumOver(Payloads(plan), PayloadSize) \in Int
      BY <1>1, <1>2, <1>3, OverIs
    <2>2. SumOver(EarlyFiles, Checked) \in Int /\ SumOver(Freed(plan, E), Checked) \in Int
      BY <1>2, <1>3, OverIs
    <2>3. SumOver(Writes(plan, E), Staging(plan)) \in Int
      BY <1>1, WaveSums
    <2>4. QED
      BY <2>1, <2>2, <2>3
  <1> DEFINE a1 == VfsSizes
             a2 == Over(T2, VfsTemp)
             a3 == Over(T3, PayloadSize)
             a4 == Over(T4, Checked)
             a5 == Over(T5, Checked)
             a6 == Over(T6, Staging(plan))
             b1 == Checked
             b2 == Over(U2, PayloadSize)
             b3 == Over(U3, LocalOutput)
             b4 == Over(U4, NewSize)
  <1>7. ASSUME NEW x \in File
        PROVE  a1[x] + a2[x] + a3[x] + a4[x] + a5[x] + a6[x] <= b1[x] + b2[x] + b3[x] + b4[x]
    <2>1. CASE x \in Entries
      <3>1. EntryBytes(E, W, x)
        BY <2>1, EntryCovered
      <3>2. /\ a1[x] = SizeOf(x, Destination(x))
            /\ a2[x] = IF x \in temps THEN TempBytes(x, VfsVolume) ELSE 0
            /\ a3[x] = IF x \in staged /\ here THEN PayloadSize[x] ELSE 0
            /\ a4[x] = 0
            /\ a5[x] = IF x \in Writes(plan, E) THEN Checked[x] ELSE 0
            /\ a6[x] = IF x \in Writes(plan, E) /\ here THEN Staging(plan)[x] ELSE 0
            /\ b2[x] = IF x \in Payloads(plan) /\ here THEN PayloadSize[x] ELSE 0
            /\ b3[x] = IF x \in Locals(plan, E \cup W) THEN LocalOutput[x] ELSE 0
            /\ b4[x] = IF x \in Hdiffs(plan, E \cup W) THEN NewSize[x] ELSE 0
        BY <1>2, <1>3, <2>1 DEF Over
      <3>3. /\ a1[x] \in Int /\ a2[x] \in Int /\ a3[x] \in Int /\ a5[x] \in Int /\ a6[x] \in Int
        BY <1>3, <2>1, <3>2
      <3> HIDE DEF a1, a2, a3, a4, a5, a6, b1, b2, b3, b4
      <3>4. a1[x] + a2[x] + a3[x] + a5[x] + a6[x] <= Checked[x] + b2[x] + b3[x] + b4[x]
        BY <3>1, <3>2 DEF EntryBytes
      <3>5. QED
        BY <3>2, <3>3, <3>4 DEF b1
    <2>2. CASE x \notin Entries
      <3>1. SizeOf(x, Destination(x)) + (IF x \in T4 THEN Checked[x] ELSE 0) <= Checked[x]
        BY <2>2, FileCovered
      <3>2. /\ a1[x] = SizeOf(x, Destination(x)) /\ a4[x] = (IF x \in T4 THEN Checked[x] ELSE 0)
            /\ a2[x] = 0 /\ a3[x] = 0 /\ a5[x] = 0 /\ a6[x] = 0 /\ b2[x] = 0 /\ b3[x] = 0 /\ b4[x] = 0
        <4>1. x \notin T2 /\ x \notin T3 /\ x \notin T5 /\ x \notin T6 /\ x \notin U2 /\ x \notin U3 /\ x \notin U4
          BY <1>2, <1>4, <2>2
        <4> HIDE DEF T2, T3, T4, T5, T6, U2, U3, U4
        <4>2. QED
          BY <1>3, <4>1 DEF Over
      <3>3. a1[x] \in Int /\ a4[x] \in Int /\ Checked[x] \in Int
        BY <1>3, <3>2
      <3> HIDE DEF a1, a2, a3, a4, a5, a6, b1, b2, b3, b4
      <3>4. QED
        BY <3>1, <3>2, <3>3 DEF b1
    <2>3. QED
      BY <2>1, <2>2
  <1>8. /\ a2 \in [File -> Int] /\ SumOver(T2, VfsTemp) = SumOver(File, a2) /\ SumOver(T2, VfsTemp) \in Int
    BY <1>1, <1>2, <1>3, OverIs
  <1>9. /\ a3 \in [File -> Int] /\ SumOver(T3, PayloadSize) = SumOver(File, a3)
    <2> HIDE DEF T3
    <2>1. QED
      BY <1>1, <1>3, <1>4, OverIs
  <1>10. /\ a4 \in [File -> Int] /\ SumOver(T4, Checked) = SumOver(File, a4)
    <2> HIDE DEF T4
    <2>1. QED
      BY <1>3, <1>4, OverIs
  <1>11. /\ a5 \in [File -> Int] /\ SumOver(T5, Checked) = SumOver(File, a5) /\ SumOver(T5, Checked) \in Int
    <2> HIDE DEF T5
    <2>1. QED
      BY <1>1, <1>2, <1>3, OverIs
  <1>12. /\ a6 \in [File -> Int] /\ SumOver(T6, Staging(plan)) = SumOver(File, a6)
    <2> HIDE DEF T6
    <2>1. QED
      BY <1>1, <1>3, <1>4, OverIs
  <1>13. /\ b2 \in [File -> Int] /\ SumOver(U2, PayloadSize) = SumOver(File, b2)
    <2> HIDE DEF U2
    <2>1. QED
      BY <1>1, <1>3, <1>4, OverIs
  <1>14. /\ b3 \in [File -> Int] /\ SumOver(U3, LocalOutput) = SumOver(File, b3)
         /\ SumOver(U3, LocalOutput) \in Int
    <2> HIDE DEF U3
    <2>1. QED
      BY <1>1, <1>2, <1>3, OverIs
  <1>15. /\ b4 \in [File -> Int] /\ SumOver(U4, NewSize) = SumOver(File, b4)
         /\ SumOver(U4, NewSize) \in Int
    <2> HIDE DEF U4
    <2>1. QED
      BY <1>1, <1>2, <1>3, OverIs
  <1>16. a1 \in [File -> Int] /\ b1 \in [File -> Int] /\ SumOver(File, a1) \in Int /\ SumOver(File, b1) \in Int
    <2>1. \A x \in File : a1[x] \in Int /\ b1[x] \in Int
      BY <1>3
    <2>2. QED
      BY <1>3, <2>1, SizesAdd
  <1> HIDE DEF a1, a2, a3, a4, a5, a6, b1, b2, b3, b4
  <1>17. SumOver(File, a1) + SumOver(File, a2) + SumOver(File, a3) + SumOver(File, a4) + SumOver(File, a5)
           + SumOver(File, a6) <= SumOver(File, b1) + SumOver(File, b2) + SumOver(File, b3) + SumOver(File, b4)
    <2>1. IsFiniteSet(File)
      BY SizeFacts
    <2>2. /\ a1 \in [File -> Int] /\ a2 \in [File -> Int] /\ a3 \in [File -> Int] /\ a4 \in [File -> Int]
          /\ a5 \in [File -> Int] /\ a6 \in [File -> Int] /\ b1 \in [File -> Int] /\ b2 \in [File -> Int]
          /\ b3 \in [File -> Int] /\ b4 \in [File -> Int]
      BY <1>8, <1>9, <1>10, <1>11, <1>12, <1>13, <1>14, <1>15, <1>16
    <2>3. \A x \in File : a1[x] + a2[x] + a3[x] + a4[x] + a5[x] + a6[x] <= b1[x] + b2[x] + b3[x] + b4[x]
      BY <1>7
    <2>4. SumsCompare(File, a1, a2, a3, a4, a5, a6, b1, b2, b3, b4)
      BY <2>1, <2>2, <2>3, SumCompare
    <2>5. QED
      BY <2>4 DEF SumsCompare
  <1>18. SumOver(File, VfsSizes) + SumOver(T2, VfsTemp) + SumOver(T3, PayloadSize) + SumOver(T4, Checked)
           + SumOver(T5, Checked) + SumOver(T6, Staging(plan))
         <= SumOver(File, Checked) + SumOver(U2, PayloadSize) + SumOver(U3, LocalOutput)
              + SumOver(U4, NewSize)
    BY <1>8, <1>9, <1>10, <1>11, <1>12, <1>13, <1>14, <1>15, <1>17 DEF a1, b1
  <1>19. QED
    BY <1>5, <1>6, <1>8, <1>11, <1>14, <1>15, <1>16, <1>18 DEF EntriesBytes, a1, b1

TempSizes(v) == [e \in Entries |-> TempBytes(e, v)]
StagedBytes(v) == IF v = StageVolume THEN SumOver(staged \cap Entries, PayloadSize) ELSE 0

\* The parts of what a volume holds.
LEMMA UsedIs ==
  ASSUME NEW v
  PROVE  Used(v) = Held(inst, ext, v) + SumOver(temps, TempSizes(v)) + StagedBytes(v)
  BY DEF Used, TempSizes, StagedBytes

\* The temporary files in work have a size.
LEMMA TempSizesType ==
  ASSUME TypeOK, NEW v
  PROVE  temps \in SUBSET Entries /\ SumOver(temps, TempSizes(v)) \in Int
  <1>1. temps \in SUBSET Entries
    BY DEF TypeOK
  <1>2. \A e \in Entries : TempSizes(v)[e] \in Int
    BY TempBytesType DEF TempSizes
  <1>3. QED
    BY <1>1, <1>2, EntrySizesAdd

\* Before the entries begin, and on a volume that holds no outputs, the payloads and the moved tree
\* are all there is.
LEMMA StartSuffices ==
  ASSUME FirstRun, step \in {"extract", "relocate", "entries"}, NEW v \in Volume,
         step = "entries" => v # VfsVolume /\ ~(work /\ v = "work")
  PROVE  Used(v) - Held(check[1], check[2], v) <= Peaks(plan, Checked, FALSE)[v]
  <1>1. /\ TypeOK /\ SeenTree /\ Checked \in Sized /\ SeenFiles /\ Depended(plan)
        /\ staged \cap Entries \subseteq Payloads(plan)
        /\ \A f \in File : Checked[f] = SizeOf(f, check[1][f])
    BY FirstRunFacts DEF Before
  <1> DEFINE moving == IF v = "external" /\ external THEN SumOver(File, Checked) ELSE 0
             held == Held(inst, ext, v)
             was == Held(check[1], check[2], v)
             temp == SumOver(temps, TempSizes(v))
             stage == StagedBytes(v)
             paid == IF v = StageVolume THEN SumOver(Payloads(plan), PayloadSize) ELSE 0
             peak == Peaks(plan, Checked, FALSE)[v]
             h == HeldSizes(inst, ext, v)
  <1>2. held = SumOver(File, h) /\ held \in Nat /\ \A f \in File : h[f] \in Nat
    BY HeldIs
  <1>3. SumOver(File, Checked) \in Int /\ was = IF v = "install" THEN SumOver(File, Checked) ELSE 0
    BY CheckedHeld
  <1>4. held <= was + moving
    <2>1. ASSUME \A f \in File : h[f] = 0
          PROVE  held = 0
      <3> HIDE DEF h
      <3>1. QED
        BY <1>2, <2>1, SumOfZeros
    <2>2. ASSUME \A f \in File : h[f] <= Checked[f]
          PROVE  held <= SumOver(File, Checked)
      <3>1. \A f \in File : h[f] \in Int /\ Checked[f] \in Int
        BY <1>1, <1>2 DEF Sized
      <3> HIDE DEF h
      <3>2. QED
        BY <1>2, <2>2, <3>1, SumOfLess
    <2>3. SumOver(File, Checked) >= 0
      <3>1. SumOver(File, Checked) \in Nat
        BY <1>1, SumOfSizes DEF Sized
      <3>2. QED
        BY <3>1
    <2>4. \A f \in File : SizeOf(f, "absent") = 0 /\ Checked[f] \in Nat
      BY <1>1, SizeOfFacts DEF Sized
    <2>5. CASE v = "install"
      <3>1. ASSUME NEW f \in File
            PROVE  inst[f] \in {"absent", check[1][f]}
        <4>1. step = "entries" => external
          BY <2>5 DEF VfsVolume
        <4>2. QED
          BY <1>1, <4>1 DEF SeenFiles, Moved, Other
      <3>2. ASSUME NEW f \in File
            PROVE  h[f] <= Checked[f]
        <4>1. h[f] = SizeOf(f, inst[f])
          BY <2>5, HeldIs
        <4> HIDE DEF h
        <4>2. h[f] = 0 \/ h[f] = Checked[f]
          BY <1>1, <2>4, <3>1, <4>1
        <4>3. QED
          BY <2>4, <4>2
      <3> HIDE DEF h, held, was
      <3>3. QED
        BY <1>3, <2>2, <2>5, <3>2
    <2>6. CASE v = "external"
      <3>1. ASSUME NEW f \in File
            PROVE  ext[f] = "absent" \/ (external /\ ext[f] = check[1][f])
        <4>1. step = "entries" => ~external
          BY <2>6 DEF VfsVolume
        <4>2. QED
          BY <1>1, <4>1 DEF SeenFiles, SeenTree, Moved, Other
      <3>2. \A f \in File : h[f] = SizeOf(f, ext[f])
        BY <2>6, HeldIs
      <3> HIDE DEF h
      <3>3. CASE external
        <4>1. ASSUME NEW f \in File
              PROVE  h[f] <= Checked[f]
          <5>1. h[f] = 0 \/ h[f] = Checked[f]
            BY <1>1, <2>4, <3>1, <3>2
          <5>2. QED
            BY <2>4, <5>1
        <4> HIDE DEF held, was
        <4>2. QED
          BY <1>3, <2>2, <2>6, <3>3, <4>1
      <3>4. CASE ~external
        <4>1. \A f \in File : h[f] = 0
          BY <2>4, <3>1, <3>2, <3>4
        <4> HIDE DEF held, was
        <4>2. QED
          BY <1>3, <2>1, <2>6, <3>4, <4>1
      <3>5. QED
        BY <3>3, <3>4
    <2>7. CASE v = "work"
      <3>1. \A f \in File : h[f] = 0
        BY <2>7, HeldIs
      <3> HIDE DEF h, held, was
      <3>2. QED
        BY <1>3, <2>1, <2>7, <3>1
    <2>8. QED
      BY <2>5, <2>6, <2>7 DEF Volume
  <1>5. temp = 0
    <2>1. \A e \in Entries : TempSizes(v)[e] \in Int
      BY TempBytesType DEF TempSizes
    <2>2. CASE step # "entries"
      <3>1. temps = {}
        BY <2>2 DEF FirstRun, IInv, Modes
      <3>2. QED
        BY <2>1, <3>1, EntrySizesAdd
    <2>3. CASE step = "entries"
      <3>1. ASSUME NEW e \in temps
            PROVE  TempSizes(v)[e] = 0
        <4>1. e \in Entries
          BY <1>1 DEF TypeOK
        <4>2. TempBytes(e, v) = 0
          BY <2>3 DEF TempBytes
        <4>3. QED
          BY <4>1, <4>2 DEF TempSizes
      <3>2. temps \in SUBSET File
        BY <1>1, EntryFacts DEF TypeOK
      <3>3. QED
        BY <3>1, <3>2, SumOfZeros
    <2>4. QED
      BY <2>2, <2>3
  <1>6. stage \in Int /\ stage <= paid /\ paid \in Int
    <2> DEFINE S == staged \cap Entries
    <2>1. S \in SUBSET Payloads(plan)
      BY <1>1
    <2> HIDE DEF S
    <2>2. /\ SumOver(S, PayloadSize) \in Int /\ SumOver(Payloads(plan), PayloadSize) \in Int
          /\ SumOver(S, PayloadSize) <= SumOver(Payloads(plan), PayloadSize)
      BY <2>1, StagedCovered
    <2>3. QED
      BY <2>2 DEF S, StagedBytes
  <1>7. peak \in Int /\ paid + moving <= peak
    BY <1>1, StartCovered
  <1>8. Used(v) = held + temp + stage
    BY UsedIs
  <1>9. moving \in Int /\ was \in Int
    BY <1>3
  <1> HIDE DEF held, was, temp, stage, paid, peak, moving
  <1>10. Used(v) - was <= peak
    BY <1>2, <1>4, <1>5, <1>6, <1>7, <1>8, <1>9
  <1>11. QED
    BY <1>10 DEF was, peak

\* What was applied, and what is in work, on the two volumes of the entries.
Allowed(E, W) ==
  \A v \in Volume :
    /\ Spent(plan, Checked, E, E \cup W, v) \in Int
    /\ Level(Start(plan, Checked), v) + Spent(plan, Checked, E, E \cup W, v)
         <= Peaks(plan, Checked, FALSE)[v]
    /\ work /\ v = "work" =>
         Level(Start(plan, Checked), v) + Spent(plan, Checked, E, E, v)
           + SumOver(Hdiffs(plan, W), NewSize) <= Peaks(plan, Checked, FALSE)[v]

\* The volume of the outputs, while the entries are applied.
LEMMA VfsSuffices ==
  ASSUME FirstRun, step = "entries", NEW E, NEW W, Between(E, W), Allowed(E, W), NEW v, v = VfsVolume
  PROVE  Used(v) - Held(check[1], check[2], v) <= Peaks(plan, Checked, FALSE)[v]
  <1>1. /\ TypeOK /\ Checked \in Sized /\ SeenFiles /\ Depended(plan) /\ v \in Volume
        /\ external \in BOOLEAN
    BY FirstRunFacts, VolumesAre, TreeTypes DEF Before
  <1> DEFINE held == SumOver(File, VfsSizes)
             temp == SumOver(temps, VfsTemp)
             staging == SumOver(staged \cap Entries, PayloadSize)
             early == SumOver(EarlyFiles, Checked)
             freed == SumOver(Freed(plan, E), Checked)
             replaced == SumOver(Writes(plan, E), Checked)
             cleaned == SumOver(Writes(plan, E), Staging(plan))
             all == SumOver(File, Checked)
             payloads == SumOver(Payloads(plan), PayloadSize)
             local == SumOver(Locals(plan, E \cup W), LocalOutput)
             hdiff == SumOver(Hdiffs(plan, E \cup W), NewSize)
             here == StageVolume = VfsVolume
             was == Held(check[1], check[2], v)
             peak == Peaks(plan, Checked, FALSE)[v]
             level == Level(Start(plan, Checked), v)
             spent == Spent(plan, Checked, E, E \cup W, v)
  <1>2. /\ held \in Int /\ temp \in Int /\ staging \in Int /\ early \in Int /\ freed \in Int
        /\ replaced \in Int /\ cleaned \in Int /\ all \in Int /\ payloads \in Int /\ local \in Int
        /\ hdiff \in Int
        /\ held + temp + (IF here THEN staging ELSE 0) + (early + freed) + replaced
             + (IF here THEN cleaned ELSE 0)
           <= all + (IF here THEN payloads ELSE 0) + local + hdiff
    BY EntriesCovered DEF EntriesBytes
  <1>3. Used(v) = held + temp + (IF here THEN staging ELSE 0)
    <2>1. Held(inst, ext, v) = held
      <3>1. HeldSizes(inst, ext, v) = VfsSizes
        BY <1>1 DEF HeldSizes, VfsSizes, Destination, VfsVolume
      <3>2. QED
        BY <3>1, HeldIs
    <2>2. SumOver(temps, TempSizes(v)) = temp /\ StagedBytes(v) = IF here THEN staging ELSE 0
      BY DEF TempSizes, VfsTemp, StagedBytes
    <2>3. Used(v) = Held(inst, ext, v) + SumOver(temps, TempSizes(v)) + StagedBytes(v)
      BY UsedIs
    <2>4. QED
      BY <2>1, <2>2, <2>3
  <1>4. was = IF v = "install" THEN all ELSE 0
    BY <1>1, CheckedHeld
  <1>5. level = (IF here THEN payloads ELSE 0) + (IF external THEN all ELSE 0) - early
    <2> DEFINE s == Start(plan, Checked)
    <2>1. PICK a \in Seq(Changes), b \in Seq(Changes) : StartSplits(plan, Checked, v, a, b)
      BY <1>1, StartLevel
    <2>2. /\ s = a \o b
          /\ Level(a, v) = (IF v = StageVolume THEN payloads ELSE 0)
                             + (IF v = "external" /\ external THEN all ELSE 0)
          /\ Level(b, v) = (IF v = "install" /\ external THEN -all ELSE 0)
                             - (IF v = VfsVolume THEN early ELSE 0)
      BY <2>1 DEF StartSplits, EarlyFiles
    <2>3. Level(a \o b, v) = Level(a, v) + Level(b, v)
      BY LevelConcat
    <2> HIDE DEF s, payloads, all, early, level
    <2>4. level = Level(a, v) + Level(b, v)
      BY <2>2, <2>3 DEF s, level
    <2>5. CASE external
      <3>1. v = "external" /\ v # "install" /\ v = VfsVolume
        BY <2>5 DEF VfsVolume
      <3>2. QED
        BY <1>2, <2>2, <2>4, <2>5, <3>1
    <2>6. CASE ~external
      BY <1>2, <2>2, <2>4, <2>6
    <2>7. QED
      BY <2>5, <2>6
  <1>6. spent = ((local + hdiff) - (replaced + freed)) - (IF here THEN cleaned ELSE 0)
    BY DEF Spent
  <1>7. level + spent <= peak /\ peak \in Int
    <2>1. level + spent <= peak
      BY <1>1 DEF Allowed
    <2>2. peak \in Int
      BY <1>1, StartCovered
    <2>3. QED
      BY <2>1, <2>2
  <1>8. (v = "install") <=> ~external
    BY DEF VfsVolume
  <1> HIDE DEF held, temp, staging, early, freed, replaced, cleaned, all, payloads, local, hdiff, here, was,
               peak, level, spent
  <1>9. Used(v) - was <= peak
    <2>1. CASE here /\ external
      BY <1>2, <1>3, <1>4, <1>5, <1>6, <1>7, <1>8, <2>1
    <2>2. CASE here /\ ~external
      BY <1>2, <1>3, <1>4, <1>5, <1>6, <1>7, <1>8, <2>2
    <2>3. CASE ~here /\ external
      BY <1>2, <1>3, <1>4, <1>5, <1>6, <1>7, <1>8, <2>3
    <2>4. CASE ~here /\ ~external
      BY <1>2, <1>3, <1>4, <1>5, <1>6, <1>7, <1>8, <2>4
    <2>5. QED
      BY <2>1, <2>2, <2>3, <2>4
  <1>10. QED
    BY <1>9 DEF was, peak

\* The bytes of an entry in the work directory: its payload until it is applied, and its HDiff
\* output while it is made.
WorkTemp == [e \in Entries |-> TempBytes(e, "work")]
WorkBytes(E, W) ==
  /\ SumOver(temps, WorkTemp) \in Int /\ SumOver(staged \cap Entries, PayloadSize) \in Int
  /\ SumOver(Writes(plan, E), Staging(plan)) \in Int /\ SumOver(Payloads(plan), PayloadSize) \in Int
  /\ SumOver(Hdiffs(plan, W), NewSize) \in Int
  /\ SumOver(temps, WorkTemp) + SumOver(staged \cap Entries, PayloadSize)
       + SumOver(Writes(plan, E), Staging(plan))
     <= SumOver(Payloads(plan), PayloadSize) + SumOver(Hdiffs(plan, W), NewSize)
LEMMA WorkCovered ==
  ASSUME FirstRun, step = "entries", NEW E, NEW W, Between(E, W), work
  PROVE  WorkBytes(E, W)
  <1> DEFINE T2 == staged \cap Entries
             T3 == Writes(plan, E)
             U1 == Payloads(plan)
             U2 == Hdiffs(plan, W)
             a1 == Over(temps, WorkTemp)
             a2 == Over(T2, PayloadSize)
             a3 == Over(T3, Staging(plan))
             b1 == Over(U1, PayloadSize)
             b2 == Over(U2, NewSize)
             none == Over({}, NewSize)
  <1>1. /\ TypeOK /\ SeenWork /\ plan \in Plans /\ staged \cap Entries \subseteq Payloads(plan)
        /\ E \in SUBSET Entries /\ W \in SUBSET Entries /\ Entries \subseteq File
        /\ E \subseteq done /\ temps \subseteq E \cup W
    BY FirstRunFacts, EntryFacts DEF Before, Between
  <1>2. StageVolume = "work" /\ VfsVolume # "work"
    BY VolumesAre
  <1>3. /\ temps \in SUBSET Entries /\ T2 \in SUBSET Entries /\ T3 \in SUBSET Entries
        /\ U1 \in SUBSET Entries /\ U2 \in SUBSET Entries
    BY <1>1 DEF TypeOK, Writes, Payloads, Hdiffs
  <1>4. \A e \in Entries : /\ WorkTemp[e] \in Int /\ WorkTemp[e] = TempBytes(e, "work")
                           /\ Staging(plan)[e] = PayloadSize[e]
                           /\ PayloadSize[e] \in Nat /\ NewSize[e] \in Nat
                           /\ Staging(plan)[e] \in Int /\ PayloadSize[e] \in Int /\ NewSize[e] \in Int
    BY <1>1, <1>2, SizeFacts, SizeOfFacts, TempBytesType DEF WorkTemp
  <1>5. /\ temps \in SUBSET File /\ T2 \in SUBSET File /\ T3 \in SUBSET File
        /\ U1 \in SUBSET File /\ U2 \in SUBSET File /\ {} \in SUBSET File
    BY <1>1, <1>3
  <1>6. /\ \A x \in temps : WorkTemp[x] \in Int
        /\ \A x \in T2 : PayloadSize[x] \in Int
        /\ \A x \in T3 : Staging(plan)[x] \in Int
        /\ \A x \in U1 : PayloadSize[x] \in Int
        /\ \A x \in U2 : NewSize[x] \in Int
    <2> HIDE DEF T2, T3, U1, U2
    <2>1. QED
      BY <1>3, <1>4
  <1>7. ASSUME NEW x \in File
        PROVE  a1[x] + a2[x] + a3[x] <= b1[x] + b2[x]
    <2>1. CASE x \in Entries
      <3> DEFINE new == NewSize[x]
                 payload == PayloadSize[x]
                 kind == plan.kind[x]
                 bytes == TempBytes(x, "work")
      <3>1. kind \in {"present", "local", "hdiff"} /\ new \in Nat /\ payload \in Nat
        BY <1>1, <1>4, <2>1 DEF Plans
      <3>2. bytes = IF kind = "hdiff" THEN new ELSE 0
        <4>1. kind = "hdiff" => bytes = 0 + new
          BY <1>2 DEF TempBytes
        <4>2. kind # "hdiff" => bytes = 0
          BY <1>2 DEF TempBytes
        <4>3. QED
          BY <3>1, <4>1, <4>2
      <3>3. /\ a1[x] = IF x \in temps THEN bytes ELSE 0
            /\ a2[x] = IF x \in T2 THEN payload ELSE 0
            /\ a3[x] = IF x \in T3 THEN payload ELSE 0
            /\ b1[x] = IF x \in U1 THEN payload ELSE 0
            /\ b2[x] = IF x \in U2 THEN new ELSE 0
        BY <1>4, <2>1 DEF Over
      <3>4. /\ x \in T2 => x \in U1 /\ x \notin T3
            /\ x \in T3 => x \in U1 /\ x \notin T2
            /\ x \in temps /\ kind = "hdiff" => x \in U2
        <4>1. x \in T3 => x \in done /\ x \in U1
          BY <1>1, <2>1 DEF Writes, Payloads
        <4>2. x \in T2 => x \in U1 /\ x \notin done
          BY <1>1 DEF SeenWork
        <4>3. x \in temps => x \in W
          BY <1>1 DEF TypeOK
        <4>4. QED
          BY <4>1, <4>2, <4>3 DEF Hdiffs
      <3> HIDE DEF a1, a2, a3, b1, b2, T2, T3, U1, U2, new, payload, kind, bytes
      <3>5. a1[x] <= b2[x] /\ a1[x] \in Int /\ b2[x] \in Int
        BY <3>1, <3>2, <3>3, <3>4
      <3>6. a2[x] + a3[x] <= b1[x] /\ a2[x] \in Int /\ a3[x] \in Int /\ b1[x] \in Int
        BY <3>1, <3>3, <3>4
      <3>7. QED
        BY <3>5, <3>6
    <2>2. CASE x \notin Entries
      <3>1. a1[x] = 0 /\ a2[x] = 0 /\ a3[x] = 0 /\ b1[x] = 0 /\ b2[x] = 0
        <4>1. x \notin temps /\ x \notin T2 /\ x \notin T3 /\ x \notin U1 /\ x \notin U2
          BY <1>3, <2>2
        <4> HIDE DEF T2, T3, U1, U2
        <4>2. QED
          BY <4>1 DEF Over
      <3>2. QED
        BY <3>1
    <2>3. QED
      BY <2>1, <2>2
  <1>8. /\ a1 \in [File -> Int] /\ SumOver(temps, WorkTemp) = SumOver(File, a1)
        /\ SumOver(temps, WorkTemp) \in Int
    BY <1>5, <1>6, OverIs
  <1>9. /\ a2 \in [File -> Int] /\ SumOver(T2, PayloadSize) = SumOver(File, a2)
        /\ SumOver(T2, PayloadSize) \in Int
    <2> HIDE DEF T2
    <2>1. QED
      BY <1>5, <1>6, OverIs
  <1>10. /\ a3 \in [File -> Int] /\ SumOver(T3, Staging(plan)) = SumOver(File, a3)
         /\ SumOver(T3, Staging(plan)) \in Int
    <2> HIDE DEF T3
    <2>1. QED
      BY <1>5, <1>6, OverIs
  <1>11. /\ b1 \in [File -> Int] /\ SumOver(U1, PayloadSize) = SumOver(File, b1)
         /\ SumOver(U1, PayloadSize) \in Int
    <2> HIDE DEF U1
    <2>1. QED
      BY <1>5, <1>6, OverIs
  <1>12. /\ b2 \in [File -> Int] /\ SumOver(U2, NewSize) = SumOver(File, b2)
         /\ SumOver(U2, NewSize) \in Int
    <2> HIDE DEF U2
    <2>1. QED
      BY <1>5, <1>6, OverIs
  <1>13. /\ none \in [File -> Int] /\ SumOver(File, none) = 0 /\ \A x \in File : none[x] = 0
    <2>1. none \in [File -> Int] /\ \A x \in File : none[x] = 0
      BY DEF Over
    <2> HIDE DEF none
    <2>2. SumOver(File, none) = 0
      BY <2>1, SumOfZeros
    <2>3. QED
      BY <2>1, <2>2
  <1> HIDE DEF a1, a2, a3, b1, b2, none
  <1>14. SumOver(File, a1) + SumOver(File, a2) + SumOver(File, a3) <= SumOver(File, b1) + SumOver(File, b2)
    <2>1. IsFiniteSet(File)
      BY SizeFacts
    <2>2. \A x \in File : a1[x] + a2[x] + a3[x] + none[x] + none[x] + none[x]
                            <= b1[x] + b2[x] + none[x] + none[x]
      <3> SUFFICES ASSUME NEW x \in File
                   PROVE  a1[x] + a2[x] + a3[x] + none[x] + none[x] + none[x]
                            <= b1[x] + b2[x] + none[x] + none[x]
        OBVIOUS
      <3>1. a1[x] \in Int /\ a2[x] \in Int /\ a3[x] \in Int /\ b1[x] \in Int /\ b2[x] \in Int /\ none[x] = 0
        BY <1>8, <1>9, <1>10, <1>11, <1>12, <1>13
      <3>2. a1[x] + a2[x] + a3[x] <= b1[x] + b2[x]
        BY <1>7
      <3>3. QED
        BY <3>1, <3>2
    <2>3. SumsCompare(File, a1, a2, a3, none, none, none, b1, b2, none, none)
      BY <1>8, <1>9, <1>10, <1>11, <1>12, <1>13, <2>1, <2>2, SumCompare
    <2>4. QED
      BY <1>8, <1>9, <1>10, <1>11, <1>12, <1>13, <2>3 DEF SumsCompare
  <1>15. QED
    BY <1>8, <1>9, <1>10, <1>11, <1>12, <1>14 DEF WorkBytes

\* The work directory, while the entries are applied.
LEMMA WorkSuffices ==
  ASSUME FirstRun, step = "entries", NEW E, NEW W, Between(E, W), Allowed(E, W), work
  PROVE  Used("work") - Held(check[1], check[2], "work") <= Peaks(plan, Checked, FALSE)["work"]
  <1>1. TypeOK /\ Checked \in Sized /\ Depended(plan) /\ "work" \in Volume
    BY FirstRunFacts, VolumesAre DEF Before
  <1>2. StageVolume = "work" /\ VfsVolume # "work"
    BY VolumesAre
  <1> DEFINE temp == SumOver(temps, WorkTemp)
             staging == SumOver(staged \cap Entries, PayloadSize)
             cleaned == SumOver(Writes(plan, E), Staging(plan))
             payloads == SumOver(Payloads(plan), PayloadSize)
             hdiff == SumOver(Hdiffs(plan, W), NewSize)
             was == Held(check[1], check[2], "work")
             peak == Peaks(plan, Checked, FALSE)["work"]
             level == Level(Start(plan, Checked), "work")
             spent == Spent(plan, Checked, E, E, "work")
  <1>3. /\ temp \in Int /\ staging \in Int /\ cleaned \in Int /\ payloads \in Int /\ hdiff \in Int
        /\ temp + staging + cleaned <= payloads + hdiff
    BY WorkCovered DEF WorkBytes
  <1>4. Used("work") = temp + staging
    <2>1. Held(inst, ext, "work") = 0
      <3>1. /\ Held(inst, ext, "work") = SumOver(File, HeldSizes(inst, ext, "work"))
            /\ \A f \in File : HeldSizes(inst, ext, "work")[f] = 0
        BY HeldIs
      <3> DEFINE h == HeldSizes(inst, ext, "work")
      <3> HIDE DEF h
      <3>2. (\A f \in File : h[f] = 0) => SumOver(File, h) = 0
        BY SumOfZeros
      <3>3. QED
        BY <3>1, <3>2 DEF h
    <2>2. SumOver(temps, TempSizes("work")) = temp /\ StagedBytes("work") = staging
      BY <1>2 DEF TempSizes, WorkTemp, StagedBytes
    <2>3. Used("work") = Held(inst, ext, "work") + SumOver(temps, TempSizes("work")) + StagedBytes("work")
      BY UsedIs
    <2> HIDE DEF temp, staging
    <2>4. QED
      BY <1>3, <2>1, <2>2, <2>3
  <1>5. was = 0
    BY <1>1, CheckedHeld
  <1>6. level = payloads
    <2> DEFINE s == Start(plan, Checked)
    <2>1. PICK a \in Seq(Changes), b \in Seq(Changes) : StartSplits(plan, Checked, "work", a, b)
      BY <1>1, StartLevel
    <2>2. s = a \o b /\ Level(a, "work") = payloads + 0 /\ Level(b, "work") = 0 - 0
      BY <1>2, <2>1 DEF StartSplits
    <2>3. Level(a \o b, "work") = Level(a, "work") + Level(b, "work")
      BY LevelConcat
    <2> HIDE DEF s, payloads, level
    <2>4. level = Level(a, "work") + Level(b, "work")
      BY <2>2, <2>3 DEF s, level
    <2>5. QED
      BY <1>3, <2>2, <2>4
  <1>7. spent = 0 - cleaned
    BY <1>2 DEF Spent
  <1>8. level + spent + hdiff <= peak /\ peak \in Int
    <2>1. level + spent + hdiff <= peak
      BY <1>1 DEF Allowed
    <2>2. peak \in Int
      BY <1>1, StartCovered
    <2>3. QED
      BY <2>1, <2>2
  <1> HIDE DEF temp, staging, cleaned, payloads, hdiff, was, peak, level, spent
  <1>9. Used("work") - was <= peak
    BY <1>3, <1>4, <1>5, <1>6, <1>7, <1>8
  <1>10. QED
    BY <1>9 DEF was, peak

\* The wave of an entry is the one it is in.
Waved(w, e, i) == i \in DOMAIN w /\ e \in w[i]
LEMMA WaveOfEntry ==
  ASSUME NEW p, Depended(p), Acyclic(DependsOn(p)), NEW w, w = Waves(DependsOn(p)), NEW e \in Entries
  PROVE  /\ Waved(w, e, InWave(p, e))
         /\ \A i \in DOMAIN w : e \in w[i] => InWave(p, e) = i
  <1>1. /\ Gone(w) = Entries
        /\ \A i, j \in DOMAIN w : i # j => w[i] \cap w[j] = {}
    BY WaveFacts DEF Depended
  <1>2. \E i \in DOMAIN w : e \in w[i]
    BY <1>1 DEF Gone
  <1>3. InWave(p, e) \in DOMAIN w /\ e \in w[InWave(p, e)]
    BY <1>2 DEF InWave
  <1>4. QED
    BY <1>1, <1>3 DEF Waved

\* No entry runs ahead of its wave.
Synchronised ==
  \A e \in temps \cup made \cup done, x \in Entries : InWave(plan, x) < InWave(plan, e) =>
    x \in done /\ (plan.kind[x] = "hdiff" /\ Consumers(plan, plan.base[x]) \subseteq done
                    => plan.base[x] \in released)
Fits(E, W) == Between(E, W) /\ Allowed(E, W)
LEMMA WaveInWork ==
  ASSUME FirstRun, step = "entries", Synchronised
  PROVE  \E E, W : Fits(E, W)
  <1> DEFINE w == Waves(DependsOn(plan))
             n == Len(w)
             I == {InWave(plan, e) : e \in temps \cup made \cup done}
  <1>1. /\ TypeOK /\ SeenPlan /\ Checked \in Sized /\ Depended(plan) /\ Acyclic(DependsOn(plan))
        /\ temps \cup made \cup done \subseteq Entries
    BY FirstRunFacts DEF Before, SeenPlan, TypeOK
  <1>2. /\ w \in Seq(SUBSET Entries) /\ n \in Nat /\ DOMAIN w = 1 .. n
        /\ \A i \in DOMAIN w : w[i] \cap Earlier(w, i) = {}
    BY <1>1, WaveFacts DEF Depended
  <1>3. ASSUME NEW e \in Entries
        PROVE  /\ InWave(plan, e) \in 1 .. n /\ e \in w[InWave(plan, e)]
               /\ \A i \in 1 .. n : e \in w[i] => InWave(plan, e) = i
    BY <1>1, <1>2, WaveOfEntry DEF Waved
  <1> HIDE DEF w, n
  <1>4. CASE temps \cup made \cup done = {}
    <2>1. Freed(plan, {}) = {} /\ \A v : Spent(plan, Checked, {}, {}, v) = 0
      BY <1>1, SpentNothing
    <2>2. Between({}, {})
      BY <1>4, <2>1 DEF Between
    <2>3. SumOver(Hdiffs(plan, {}), NewSize) = 0
      <3>1. Hdiffs(plan, {}) = {} /\ \A f \in File : NewSize[f] \in Int
        BY SizeFacts DEF Hdiffs, Sized
      <3>2. QED
        BY <3>1, SizesAdd
    <2>4. ASSUME NEW v \in Volume
          PROVE  /\ Spent(plan, Checked, {}, {} \cup {}, v) \in Int
                 /\ Level(Start(plan, Checked), v) + Spent(plan, Checked, {}, {} \cup {}, v)
                      <= Peaks(plan, Checked, FALSE)[v]
                 /\ Level(Start(plan, Checked), v) + Spent(plan, Checked, {}, {}, v)
                      + SumOver(Hdiffs(plan, {}), NewSize) <= Peaks(plan, Checked, FALSE)[v]
      <3>1. /\ Level(Start(plan, Checked), v) \in Int
            /\ Level(Start(plan, Checked), v) <= Peaks(plan, Checked, FALSE)[v]
        BY <1>1, StartCovered
      <3> DEFINE level == Level(Start(plan, Checked), v)
      <3>2. level + 0 = level /\ level + 0 + 0 = level
        <4>1. level \in Int
          BY <3>1
        <4> HIDE DEF level
        <4>2. QED
          BY <4>1
      <3>3. {} \cup {} = {}
        OBVIOUS
      <3> DEFINE peak == Peaks(plan, Checked, FALSE)[v]
                 hdiff == SumOver(Hdiffs(plan, {}), NewSize)
                 spent == Spent(plan, Checked, {}, {}, v)
      <3>4. /\ level <= peak /\ spent = 0 /\ hdiff = 0
            /\ Spent(plan, Checked, {}, {} \cup {}, v) = spent
        BY <2>1, <2>3, <3>1, <3>3
      <3> HIDE DEF level, peak, hdiff, spent
      <3>5. spent \in Int /\ level + spent <= peak /\ level + spent + hdiff <= peak
        BY <3>2, <3>4
      <3>6. QED
        BY <3>4, <3>5 DEF level, peak, hdiff, spent
    <2>5. Allowed({}, {})
      BY <2>4 DEF Allowed
    <2>6. Fits({}, {})
      BY <2>2, <2>5 DEF Fits
    <2>7. QED
      BY <2>6
  <1>5. CASE temps \cup made \cup done # {}
    <2> DEFINE i == Max(I)
               E == Earlier(w, i)
               W == w[i]
    <2>1. I \in SUBSET (1 .. n) /\ I # {}
      BY <1>1, <1>3, <1>5
    <2>2. i \in I /\ i \in 1 .. n /\ \A j \in I : i >= j
      <3> HIDE DEF I
      <3>1. QED
        BY <1>2, <2>1, MaxIsIn
    <2>3. PICK top \in temps \cup made \cup done : i = InWave(plan, top)
      BY <2>2
    <2> HIDE DEF i
    <2>4. E \in SUBSET Entries /\ W \in SUBSET Entries /\ E \cap W = {}
      BY <1>2, <2>2 DEF Earlier
    <2>5. ASSUME NEW x \in E
          PROVE  x \in Entries /\ InWave(plan, x) < InWave(plan, top)
      <3>1. PICK j \in 1 .. i - 1 : x \in w[j]
        BY DEF Earlier
      <3>2. x \in Entries /\ j \in 1 .. n /\ j < i
        BY <1>2, <2>2, <2>4, <3>1
      <3>3. QED
        BY <1>3, <2>3, <3>1, <3>2
    <2>6. \A x \in E : x \in done /\ (plan.kind[x] = "hdiff" /\ Consumers(plan, plan.base[x]) \subseteq done
                                       => plan.base[x] \in released)
      BY <2>3, <2>5 DEF Synchronised
    <2>7. temps \cup made \cup done \subseteq E \cup W
      <3> SUFFICES ASSUME NEW e \in temps \cup made \cup done
                   PROVE  e \in E \cup W
        OBVIOUS
      <3> DEFINE j == InWave(plan, e)
      <3>1. j \in 1 .. n /\ e \in w[j] /\ j <= i
        BY <1>1, <1>3, <2>2
      <3> HIDE DEF j
      <3>2. j = i \/ j \in 1 .. i - 1
        BY <1>2, <2>2, <3>1
      <3>3. QED
        BY <3>1, <3>2 DEF Earlier
    <2>8. Freed(plan, E) \subseteq released
      <3> SUFFICES ASSUME NEW f \in Freed(plan, E)
                   PROVE  f \in released
        OBVIOUS
      <3>1. PICK x \in Entries : plan.kind[x] = "hdiff" /\ plan.base[x] = f
        BY DEF Freed, Bases
      <3>2. Consumers(plan, f) \subseteq E
        BY DEF Freed
      <3>3. x \in E
        BY <3>1, <3>2 DEF Consumers
      <3>4. QED
        BY <2>6, <3>1, <3>2, <3>3
    <2>9. Between(E, W)
      BY <2>4, <2>6, <2>7, <2>8 DEF Between
    <2>10. Allowed(E, W)
      <3> SUFFICES ASSUME NEW v \in Volume
                   PROVE  /\ Spent(plan, Checked, E, E \cup W, v) \in Int
                          /\ Level(Start(plan, Checked), v) + Spent(plan, Checked, E, E \cup W, v)
                               <= Peaks(plan, Checked, FALSE)[v]
                          /\ work /\ v = "work" =>
                               Level(Start(plan, Checked), v) + Spent(plan, Checked, E, E, v)
                                 + SumOver(Hdiffs(plan, W), NewSize) <= Peaks(plan, Checked, FALSE)[v]
        BY DEF Allowed
      <3>1. i \in DOMAIN w /\ w = Waves(DependsOn(plan))
        BY <1>2, <2>2 DEF w
      <3>2. QED
        BY <1>1, <3>1, WaveCovered
    <2>11. Fits(E, W)
      BY <2>9, <2>10 DEF Fits
    <2>12. QED
      BY <2>11
  <1>6. QED
    BY <1>4, <1>5

\* Every volume at every step before the deletes.
LEMMA SpaceCovered ==
  ASSUME FirstRun, step \in {"extract", "relocate", "entries"}, Synchronised, NEW v \in Volume
  PROVE  Used(v) - Held(check[1], check[2], v) <= Peaks(plan, Checked, FALSE)[v]
  <1>1. CASE step = "entries" => v # VfsVolume /\ ~(work /\ v = "work")
    BY <1>1, StartSuffices
  <1>2. CASE step = "entries" /\ (v = VfsVolume \/ (work /\ v = "work"))
    <2>1. PICK E, W : Fits(E, W)
      BY <1>2, WaveInWork
    <2>2. Between(E, W) /\ Allowed(E, W)
      BY <2>1 DEF Fits
    <2>3. CASE v = VfsVolume
      BY <1>2, <2>2, <2>3, VfsSuffices
    <2>4. CASE work /\ v = "work"
      BY <1>2, <2>2, <2>4, WorkSuffices
    <2>5. QED
      BY <1>2, <2>3, <2>4
  <1>3. QED
    BY <1>1, <1>2

\* Both invariants hold for ever.
LEMMA PeakInvariant == Spec => [](IInv /\ Seen)
  <1>1. Init => IInv /\ Seen
    BY InitHolds, SeenInit
  <1>2. IInv /\ Seen /\ [Next]_vars => (IInv /\ Seen)'
    BY NextHolds, SeenNext, MissingNothing
  <1>3. QED
    BY <1>1, <1>2, PTL DEF Spec

\* While no entry runs ahead of its wave, no volume ever holds more, above what the checked tree held
\* there, than simulate_space_peaks computed before the first byte was written: not while payloads are
\* extracted, not while the tree moves to an external root, and not with any part of a wave reserved,
\* renamed or cleaned; and entry_wave_indices is exact.
THEOREM PeakIsCovered == Spec => []PeakCoversWaves
  <1>1. ASSUME IInv, Seen
        PROVE  PeakCoversWaves
    <2> DEFINE sizes == [f \in File |-> SizeOf(f, IF check[3] THEN check[2][f] ELSE check[1][f])]
    <2>1. ASSUME mode = "graph", step \in {"extract", "relocate", "entries"}, crashes = 0, faults = 0,
                 Synchronised, NEW v \in Volume
          PROVE  Used(v) - Held(check[1], check[2], v) <= Peaks(plan, sizes, check[3])[v]
      <3>1. FirstRun
        BY <1>1, <2>1 DEF FirstRun, Fresh
      <3>2. sizes = Checked /\ check[3] = FALSE
        <4>1. check[3] = FALSE
          BY <3>1, FirstRunFacts DEF SeenTree
        <4>2. QED
          BY <4>1 DEF Checked
      <3> HIDE DEF sizes
      <3>3. Used(v) - Held(check[1], check[2], v) <= Peaks(plan, Checked, FALSE)[v]
        BY <2>1, <3>1, SpaceCovered
      <3>4. QED
        BY <3>2, <3>3
    <2> HIDE DEF sizes
    <2>2. QED
      BY <2>1, WavesAreExact DEF PeakCoversWaves, Synchronised, sizes
  <1>2. QED
    BY <1>1, PeakInvariant, PTL
=============================================================================
