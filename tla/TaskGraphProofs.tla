--------------------------- MODULE TaskGraphProofs ---------------------------
(***************************************************************************)
(* Theorems about TaskGraph for every number of nodes, every set of tokens *)
(* and every set of dynamic subgraphs.                                     *)
(*                                                                         *)
(* The inductive invariant IInv says how the edges the code keeps          *)
(* (dependents, remaining) relate to the dependencies a node was created   *)
(* with; from it follow what may be offered for execution and what a       *)
(* cascade may end.                                                        *)
(***************************************************************************)
EXTENDS TaskGraph, FiniteSetTheorems, WellFoundedInduction, TLAPS

\* Nodes beyond count are blank, tokens name nodes that exist, and nothing has
\* run before Start.
Shape ==
  /\ \A n \in Node \ Existing : /\ state[n] = "Absent"
                                /\ dependents[n] = {}
                                /\ waiters[n] = {}
                                /\ deps[n] = {}
  /\ \A n \in Existing : state[n] # "Absent"
  /\ \A t \in Token : bindings[t] # NoNode => bindings[t] \in Existing
  /\ phase = "building" => \A n \in Existing : state[n] = "Pending"

\* The graph grows backwards only, and dependents mirrors deps for every
\* dependency that still has to succeed.
Edges ==
  /\ \A n \in Node : \A d \in deps[n] : d < n
  /\ \A d \in Node : \A n \in dependents[d] : d \in deps[n]
  /\ \A n \in Node : \A d \in deps[n] : state[d] # "Succeeded" => n \in dependents[d]

Unmet(n) == {d \in deps[n] : state[d] # "Succeeded"}

\* The counter of a pending node is the number of dependencies it waits for.
RemainingExact == \A n \in Node : state[n] = "Pending" => remaining[n] = Cardinality(Unmet(n))

IInv ==
  /\ TypeOK
  /\ Shape
  /\ Edges
  /\ RemainingExact
  /\ DependenciesFirst
  /\ FailureReachesDependents
  /\ UnresolvedExact

Open == {n \in Existing : state[n] \notin Terminal}

\* What a step may do to a node: nothing to one that has ended, and at most
\* dispatch one that is ready.
NodesAdvance ==
  \A x \in Node : /\ state[x] \in Terminal => state'[x] = state[x]
                  /\ state[x] = "Ready" => state'[x] \in {"Ready", "Running"}

-----------------------------------------------------------------------------
LEMMA NodeFinite == IsFiniteSet(Node) /\ \A S \in SUBSET Node : IsFiniteSet(S) /\ Cardinality(S) \in Nat
  <1>1. IsFiniteSet(Node)
    BY GraphAssumption, FS_Interval DEF Node
  <1>2. QED
    BY <1>1, FS_Subset, FS_CardinalityType

LEMMA RemoveAll ==
  ASSUME NEW S \in SUBSET Node, NEW R \in SUBSET S
  PROVE  Cardinality(S \ R) = Minus(Cardinality(S), Cardinality(R))
  <1> DEFINE T == S \ R
  <1>1. S = R \cup T /\ R \cap T = {} /\ R \in SUBSET Node /\ T \in SUBSET Node
    OBVIOUS
  <1> HIDE DEF T
  <1>2. /\ IsFiniteSet(R) /\ IsFiniteSet(T)
        /\ Cardinality(R) \in Nat /\ Cardinality(T) \in Nat
    BY <1>1, NodeFinite
  <1>3. Cardinality(R \cup T) = Cardinality(R) + Cardinality(T) - Cardinality(R \cap T)
    BY <1>2, FS_Union
  <1>4. Cardinality(S) = Cardinality(R) + Cardinality(T)
    BY <1>1, <1>2, <1>3, FS_EmptySet
  <1> QED
    BY <1>2, <1>4 DEF Minus, T

LEMMA ClosureFacts ==
  ASSUME NEW seeds \in SUBSET Node, NEW succ \in [Node -> SUBSET Node]
  PROVE  /\ Closure(seeds, succ) \in SUBSET Node
         /\ seeds \subseteq Closure(seeds, succ)
         /\ \A x \in Closure(seeds, succ) : succ[x] \subseteq Closure(seeds, succ)
         /\ \A S \in SUBSET Node :
              (seeds \subseteq S /\ \A x \in S : succ[x] \subseteq S)
                 => Closure(seeds, succ) \subseteq S
  <1>1. \A x \in Closure(seeds, succ) : succ[x] \subseteq Closure(seeds, succ)
    <2> SUFFICES ASSUME NEW x \in Closure(seeds, succ), NEW y \in succ[x],
                        NEW S \in SUBSET Node,
                        seeds \subseteq S, \A z \in S : succ[z] \subseteq S
                 PROVE  y \in Node /\ y \in S
      BY Zenon DEF Closure
    <2>1. x \in S
      BY Zenon DEF Closure
    <2> QED
      BY <2>1
  <1>2. QED
    BY <1>1, Zenon DEF Closure

\* What a cascade of failures ends: the seeds and what depends on them, and
\* nothing that is ready, runs elsewhere or has ended.
LEMMA DoomedFacts ==
  ASSUME NEW seeds \in SUBSET Node, NEW st,
         NEW dep \in [Node -> SUBSET Node], NEW wait \in [Node -> SUBSET Node],
         NEW ds \in [Node -> SUBSET Node],
         \A d \in Node : \A n \in dep[d] : d \in ds[n],
         \A n \in Node : st[n] = "Ready" => \A d \in ds[n] : st[d] = "Succeeded",
         \A n \in seeds : st[n] # "Succeeded"
  PROVE  LET D == Doomed(seeds, st, dep, wait)
         IN /\ D \in SUBSET Node
            /\ seeds \subseteq D
            /\ \A n \in D \ seeds : st[n] \in {"Pending", "Waiting"}
            /\ \A d \in D : \A n \in dep[d] : st[n] = "Pending" => n \in D
  <1> DEFINE succ == [x \in Node |->
                {d \in dep[x] : st[d] \in {"Pending", "Ready"}}
                  \cup {w \in wait[x] : st[w] = "Waiting"}]
             S == seeds \cup {n \in Node : st[n] \in {"Pending", "Waiting"}}
  <1>1. succ \in [Node -> SUBSET Node]
    OBVIOUS
  <1>2. \A x \in S : succ[x] \subseteq S
    <2> SUFFICES ASSUME NEW x \in S, NEW y \in succ[x]
                 PROVE  y \in S
      OBVIOUS
    <2>1. x \in Node /\ st[x] # "Succeeded"
      OBVIOUS
    <2>2. y \in Node /\ st[y] \in {"Pending", "Ready", "Waiting"}
      BY <2>1
    <2>3. st[y] = "Ready" => y \in dep[x]
      BY <2>1
    <2> QED
      BY <2>1, <2>2, <2>3
  <1>3. Doomed(seeds, st, dep, wait) = Closure(seeds, succ)
    BY DEF Doomed
  <1>4. S \in SUBSET Node /\ seeds \subseteq S
    OBVIOUS
  <1> HIDE DEF succ, S
  <1>5. /\ Closure(seeds, succ) \in SUBSET Node
        /\ seeds \subseteq Closure(seeds, succ)
        /\ \A x \in Closure(seeds, succ) : succ[x] \subseteq Closure(seeds, succ)
        /\ Closure(seeds, succ) \subseteq S
    BY <1>1, <1>2, <1>4, ClosureFacts, Zenon
  <1> USE DEF S
  <1>6. \A x \in Node : \A n \in dep[x] : st[n] = "Pending" => n \in succ[x]
    BY DEF succ
  <1> QED
    BY <1>3, <1>5, <1>6

\* What succeeds together with n: waiting parents that hold no task.
LEMMA SettledFacts ==
  ASSUME TypeOK, NEW n \in Node
  PROVE  /\ Settled(n) \in SUBSET Node
         /\ n \in Settled(n)
         /\ \A x \in Settled(n) \ {n} : state[x] = "Waiting" /\ x \notin resume
  <1> DEFINE succ == [x \in Node |->
                {w \in waiters[x] :
                   state[w] = "Waiting" /\ waitingLeft[w] <= 1 /\ w \notin resume}]
             S == {n} \cup {x \in Node : state[x] = "Waiting" /\ x \notin resume}
  <1>1. succ \in [Node -> SUBSET Node] /\ {n} \in SUBSET Node /\ S \in SUBSET Node
    BY DEF TypeOK
  <1>2. \A x \in S : succ[x] \subseteq S
    BY DEF TypeOK
  <1>3. Settled(n) = Closure({n}, succ)
    BY DEF Settled
  <1>4. {n} \subseteq S
    OBVIOUS
  <1> HIDE DEF succ, S
  <1>5. /\ Closure({n}, succ) \in SUBSET Node
        /\ {n} \subseteq Closure({n}, succ)
        /\ Closure({n}, succ) \subseteq S
    BY <1>1, <1>2, <1>4, ClosureFacts, Zenon
  <1> QED
    BY <1>3, <1>5 DEF S

-----------------------------------------------------------------------------
LEMMA InitIInv == Init => IInv
  BY GraphAssumption, FS_EmptySet
  DEF Init, IInv, TypeOK, Shape, Edges, RemainingExact, DependenciesFirst,
      FailureReachesDependents, UnresolvedExact, Existing, Terminal, Node, Unmet

LEMMA AddTaskIInv ==
  ASSUME IInv, NEW ds \in SUBSET Existing, AddTask(ds)
  PROVE  IInv' /\ NodesAdvance
  <1> USE DEF IInv
  <1>1. count \in Node /\ Existing \in SUBSET Node /\ Cardinality(ds) \in Nat
    BY GraphAssumption, NodeFinite DEF AddTask, TypeOK, Node, Existing
  <1>2. Existing' = Existing \cup {count}
    BY <1>1, GraphAssumption DEF AddTask, TypeOK, Node, Existing
  <1>3. \A n \in Node : n < count <=> n \in Existing
    BY GraphAssumption DEF TypeOK, Node, Existing
  <1>4. TypeOK'
    <2>1. count' \in 0 .. MaxNodes
      BY <1>1, GraphAssumption DEF AddTask, Node
    <2>2. ds \in SUBSET Node
      BY <1>1
    <2>3. dependents' \in [Node -> SUBSET Node] /\ deps' \in [Node -> SUBSET Node]
      BY <1>1, <2>2 DEF AddTask, TypeOK
    <2>4. remaining' \in [Node -> Nat] /\ unresolved' \in Nat
      BY <1>1 DEF AddTask, TypeOK
    <2> QED
      BY <1>1, <2>1, <2>3, <2>4 DEF AddTask, TypeOK
  <1>5. Shape'
    BY <1>1, <1>2 DEF AddTask, TypeOK, Shape
  <1>6. Edges'
    BY <1>1, <1>2, <1>3 DEF AddTask, TypeOK, Shape, Edges
  <1>7. RemainingExact'
    <2> SUFFICES ASSUME NEW n \in Node, state'[n] = "Pending"
                 PROVE  remaining'[n] = Cardinality(Unmet(n)')
      BY DEF RemainingExact
    <2>1. CASE n = count
      <3>1. Unmet(n)' = ds
        BY <1>1, <2>1 DEF AddTask, TypeOK, Shape, Unmet
      <3> QED
        BY <1>1, <2>1, <3>1 DEF AddTask, TypeOK
    <2>2. CASE n # count
      <3>1. Unmet(n)' = Unmet(n)
        BY <1>1, <1>3, <2>2 DEF AddTask, TypeOK, Shape, Edges, Unmet
      <3> QED
        BY <1>1, <2>2, <3>1 DEF AddTask, TypeOK, RemainingExact
    <2> QED
      BY <2>1, <2>2
  <1>8. DependenciesFirst' /\ FailureReachesDependents'
    BY <1>1, <1>2 DEF AddTask, TypeOK, Shape, DependenciesFirst, FailureReachesDependents, Bad
  <1>9. NodesAdvance
    BY <1>1 DEF AddTask, TypeOK, Shape, NodesAdvance, Terminal
  <1>10. UnresolvedExact'
    <2>1. count \notin Open /\ Open \in SUBSET Node
      <3>1. count \notin Existing
        BY GraphAssumption DEF TypeOK, Existing
      <3> QED
        BY <1>1, <3>1 DEF Open
    <2>2. Open' = Open \cup {count}
      <3>1. \A x \in Existing' : state'[x] = IF x = count THEN "Pending" ELSE state[x]
        BY <1>1, <1>2 DEF AddTask, TypeOK
      <3> QED
        BY <1>2, <3>1 DEF Open, Terminal
    <2>3. Cardinality(Open') = Cardinality(Open) + 1
      BY <2>1, <2>2, NodeFinite, FS_AddElement
    <2> QED
      BY <2>3 DEF AddTask, UnresolvedExact, Open
  <1> QED
    BY <1>4, <1>5, <1>6, <1>7, <1>8, <1>9, <1>10

LEMMA StartIInv == IInv /\ Start => IInv' /\ NodesAdvance
  <1> SUFFICES ASSUME IInv, Start PROVE IInv' /\ NodesAdvance
    OBVIOUS
  <1> USE DEF IInv
  <1>1. Existing' = Existing /\ Existing \in SUBSET Node
    BY GraphAssumption DEF Start, Existing, TypeOK, Node
  <1>2. \A n \in Node : Unmet(n)' = Unmet(n) /\ Unmet(n) = deps[n]
    BY <1>1 DEF Start, TypeOK, Shape, Edges, Unmet
  <1>3. \A n \in Node : Unmet(n) \in SUBSET Node /\ (Cardinality(Unmet(n)) = 0 <=> Unmet(n) = {})
    BY NodeFinite, FS_EmptySet DEF TypeOK, Unmet
  <1>4. TypeOK' /\ Shape'
    BY <1>1 DEF Start, TypeOK, Shape, Terminal
  <1>5. Edges'
    BY DEF Start, TypeOK, Edges, Shape
  <1>6. RemainingExact'
    BY <1>2 DEF Start, TypeOK, RemainingExact
  <1>7. DependenciesFirst' /\ FailureReachesDependents'
    BY <1>1, <1>2, <1>3
    DEF Start, TypeOK, Shape, RemainingExact, DependenciesFirst, FailureReachesDependents, Bad
  <1>8. NodesAdvance
    BY DEF Start, TypeOK, NodesAdvance, Terminal
  <1>9. UnresolvedExact'
    <2>1. Open' = Open
      BY <1>1 DEF Start, TypeOK, Open, Terminal
    <2> QED
      BY <2>1 DEF Start, UnresolvedExact, Open
  <1> QED
    BY <1>4, <1>5, <1>6, <1>7, <1>8, <1>9

LEMMA MarkRunningIInv == ASSUME IInv, NEW n \in Node, MarkRunning(n) PROVE IInv' /\ NodesAdvance
  <1> USE DEF IInv
  <1>1. Existing' = Existing /\ Existing \in SUBSET Node
    BY GraphAssumption DEF MarkRunning, Existing, TypeOK, Node
  <1>2. \A x \in Node : Unmet(x)' = Unmet(x)
    BY DEF MarkRunning, TypeOK, Unmet
  <1>3. TypeOK' /\ Shape'
    BY <1>1 DEF MarkRunning, TypeOK, Shape, Terminal
  <1>4. Edges' /\ RemainingExact'
    BY <1>2 DEF MarkRunning, TypeOK, Edges, RemainingExact
  <1>5. DependenciesFirst' /\ FailureReachesDependents'
    BY <1>1 DEF MarkRunning, TypeOK, DependenciesFirst, FailureReachesDependents, Bad
  <1>6. NodesAdvance
    BY DEF MarkRunning, TypeOK, NodesAdvance, Terminal
  <1>7. UnresolvedExact'
    <2>1. Open' = Open
      BY <1>1 DEF MarkRunning, TypeOK, Open, Terminal
    <2> QED
      BY <2>1 DEF MarkRunning, UnresolvedExact, Open
  <1> QED
    BY <1>3, <1>4, <1>5, <1>6, <1>7

LEMMA ContinueIInv == ASSUME IInv, NEW n \in Node, Continue(n) PROVE IInv' /\ NodesAdvance
  <1> USE DEF IInv
  <1>1. Existing' = Existing /\ Existing \in SUBSET Node
    BY GraphAssumption DEF Continue, Existing, TypeOK, Node
  <1>2. \A x \in Node : Unmet(x)' = Unmet(x)
    BY DEF Continue, Finishing, TypeOK, Unmet
  <1>3. TypeOK'
    BY GraphAssumption DEF Continue, Finishing, TypeOK, Terminal
  <1>4. Shape'
    BY <1>1 DEF Continue, Finishing, TypeOK, Shape
  <1>5. Edges' /\ RemainingExact'
    BY <1>2 DEF Continue, Finishing, TypeOK, Edges, RemainingExact
  <1>6. DependenciesFirst' /\ FailureReachesDependents'
    BY <1>1 DEF Continue, Finishing, TypeOK, DependenciesFirst, FailureReachesDependents, Bad
  <1>7. NodesAdvance
    BY DEF Continue, Finishing, TypeOK, NodesAdvance, Terminal
  <1>8. UnresolvedExact'
    <2>1. Open' = Open
      BY <1>1 DEF Continue, Finishing, TypeOK, Open, Terminal
    <2> QED
      BY <2>1 DEF Continue, Finishing, UnresolvedExact, Open
  <1> QED
    BY <1>3, <1>4, <1>5, <1>6, <1>7, <1>8

\* The dependencies a pending node still waits for after done succeeded.
LEMMA ReleaseExact ==
  ASSUME IInv, NEW done \in SUBSET Node, \A x \in done : state[x] # "Succeeded",
         NEW n \in Node, state[n] = "Pending"
  PROVE  /\ Minus(remaining[n], Released(done, n)) = Cardinality(Unmet(n) \ done)
         /\ Released(done, n) = 0 => Unmet(n) \ done = Unmet(n)
  <1> DEFINE R == {x \in done : n \in dependents[x]}
  <1>1. R = Unmet(n) \cap done
    BY DEF IInv, TypeOK, Edges, Unmet
  <1>2. Unmet(n) \in SUBSET Node
    BY DEF IInv, TypeOK, Unmet
  <1>3. /\ IsFiniteSet(Unmet(n)) /\ IsFiniteSet(Unmet(n) \ done) /\ IsFiniteSet(R)
        /\ Cardinality(Unmet(n)) \in Nat /\ Cardinality(Unmet(n) \ done) \in Nat
        /\ Cardinality(R) \in Nat
    BY <1>1, <1>2, NodeFinite
  <1>4. Cardinality(Unmet(n)) = Cardinality(R) + Cardinality(Unmet(n) \ done)
    <2>1. Unmet(n) = R \cup (Unmet(n) \ done) /\ R \cap (Unmet(n) \ done) = {}
      BY <1>1
    <2> HIDE DEF R
    <2> QED
      BY <1>3, <2>1, FS_Union, FS_EmptySet
  <1>5. remaining[n] = Cardinality(Unmet(n))
    BY DEF IInv, RemainingExact
  <1>6. Cardinality(R) = 0 => R = {}
    BY <1>3, FS_EmptySet
  <1> QED
    BY <1>1, <1>3, <1>4, <1>5, <1>6 DEF Minus, Released

LEMMA FinishSucceededIInv == ASSUME IInv, NEW n \in Node, FinishSucceeded(n) PROVE IInv' /\ NodesAdvance
  <1> DEFINE done == Settled(n)
  <1> USE DEF IInv
  <1>1. Existing' = Existing /\ Existing \in SUBSET Node
    BY GraphAssumption DEF FinishSucceeded, Existing, TypeOK, Node
  <1>2. /\ done \in SUBSET Node /\ n \in done
        /\ \A x \in done \ {n} : state[x] = "Waiting" /\ x \notin resume
    BY SettledFacts
  <1> HIDE DEF done
  <1>3. /\ state[n] = "Running" /\ phase = "running"
        /\ remaining' = [d \in Node |-> Minus(remaining[d], Released(done, d))]
        /\ state' = [x \in Node |->
             CASE x \in done          -> "Succeeded"
               [] x \in Resumed(done) -> "Ready"
               [] state[x] = "Pending" /\ Released(done, x) > 0 /\ remaining'[x] = 0 -> "Ready"
               [] OTHER               -> state[x]]
        /\ waitingLeft' = [w \in Node |-> IF w \in Told(done) THEN Minus(waitingLeft[w], 1)
                                                              ELSE waitingLeft[w]]
        /\ resume' = resume \ Resumed(done)
        /\ waiters' = WithoutWaiters(done, waiters)
        /\ unresolved' = Resolve(unresolved, done)
        /\ UNCHANGED <<phase, count, dependents, bindings, continues, deps, parent>>
    BY DEF FinishSucceeded, Finishing, done
  <1>4. \A x \in Resumed(done) : state[x] = "Waiting" /\ x \in Node \ done
    BY <1>2, <1>3 DEF Resumed, Told
  <1>5. \A x \in done : state[x] \in {"Running", "Waiting"}
    BY <1>2, <1>3
  <1>6. \A x \in Node : \/ x \in done /\ state'[x] = "Succeeded"
                        \/ /\ x \notin done
                           /\ \/ state'[x] = state[x]
                              \/ x \in Resumed(done) /\ state'[x] = "Ready"
                              \/ state[x] = "Pending" /\ remaining'[x] = 0 /\ state'[x] = "Ready"
    <2> TAKE x \in Node
    <2>1. state'[x] =
            CASE x \in done          -> "Succeeded"
              [] x \in Resumed(done) -> "Ready"
              [] state[x] = "Pending" /\ Released(done, x) > 0 /\ remaining'[x] = 0 -> "Ready"
              [] OTHER               -> state[x]
      BY <1>3
    <2>2. CASE x \in done
      BY <1>4, <1>5, <2>1, <2>2
    <2>3. CASE x \notin done
      BY <1>4, <2>1, <2>3
    <2> QED
      BY <2>2, <2>3
  <1>7. \A x \in Node : Unmet(x)' = Unmet(x) \ done
    <2>1. \A x \in Node : state'[x] = "Succeeded" <=> (state[x] = "Succeeded" \/ x \in done)
      BY <1>3, <1>4, <1>6
    <2>2. deps' = deps /\ deps \in [Node -> SUBSET Node]
      BY <1>3 DEF TypeOK
    <2> QED
      BY <2>1, <2>2 DEF Unmet
  <1>8. \A x \in Node : state[x] = "Pending" =>
           /\ remaining'[x] = Cardinality(Unmet(x)')
           /\ Released(done, x) = 0 => Unmet(x)' = Unmet(x)
    <2> SUFFICES ASSUME NEW x \in Node, state[x] = "Pending"
                 PROVE  /\ remaining'[x] = Cardinality(Unmet(x)')
                        /\ Released(done, x) = 0 => Unmet(x)' = Unmet(x)
      OBVIOUS
    <2>1. done \in SUBSET Node /\ \A y \in done : state[y] # "Succeeded"
      BY <1>2, <1>5
    <2>2. /\ Minus(remaining[x], Released(done, x)) = Cardinality(Unmet(x) \ done)
          /\ Released(done, x) = 0 => Unmet(x) \ done = Unmet(x)
      <3> HIDE DEF IInv
      <3> QED
        BY <2>1, ReleaseExact
    <2>3. remaining'[x] = Minus(remaining[x], Released(done, x))
      BY <1>3
    <2>4. Unmet(x)' = Unmet(x) \ done
      BY <1>7
    <2> HIDE DEF IInv
    <2> QED
      BY <2>2, <2>3, <2>4
  <1>9. TypeOK'
    <2>1. \A x \in Node : Released(done, x) \in Nat
      BY <1>2, NodeFinite DEF Released
    <2>2. Cardinality(done) \in Nat
      BY <1>2, NodeFinite
    <2>3. state' \in [Node -> {"Absent", "Pending", "Ready", "Running", "Waiting"} \cup Terminal]
      BY <1>3, <1>6 DEF TypeOK, Terminal
    <2>4. remaining' \in [Node -> Nat] /\ waitingLeft' \in [Node -> Nat] /\ unresolved' \in Nat
      BY <1>3, <2>1, <2>2 DEF TypeOK, Minus, Resolve
    <2>5. waiters' \in [Node -> SUBSET Node] /\ resume' \in SUBSET Node
      BY <1>3 DEF TypeOK, WithoutWaiters
    <2> QED
      BY <1>3, <2>3, <2>4, <2>5 DEF TypeOK
  <1>10. Shape'
    BY <1>1, <1>2, <1>3, <1>5, <1>6 DEF TypeOK, Shape, WithoutWaiters, Resumed, Told, Existing
  <1>11. Edges'
    <2>1. deps' = deps /\ dependents' = dependents
      BY <1>3
    <2>2. \A x \in Node : state'[x] # "Succeeded" => state[x] # "Succeeded"
      BY <1>4, <1>6
    <2> QED
      BY <2>1, <2>2 DEF TypeOK, Edges
  <1>12. RemainingExact'
    BY <1>4, <1>8, <1>6 DEF RemainingExact
  <1>13. \A x \in Existing : state'[x] \in {"Ready", "Running", "Waiting", "Succeeded"} =>
            Unmet(x)' = {}
    <2> SUFFICES ASSUME NEW x \in Existing,
                        state'[x] \in {"Ready", "Running", "Waiting", "Succeeded"}
                 PROVE  Unmet(x)' = {}
      OBVIOUS
    <2>1. CASE state[x] = "Pending" /\ remaining'[x] = 0
      <3>1. x \in Node
        BY <1>1
      <3>2. Cardinality(Unmet(x)') = 0
        BY <1>8, <2>1, <3>1
      <3>3. Unmet(x)' \in SUBSET Node
        BY <1>7, <3>1 DEF TypeOK, Unmet
      <3> QED
        BY <3>2, <3>3, FS_EmptySet, NodeFinite
    <2>2. CASE state[x] \in {"Ready", "Running", "Waiting", "Succeeded"}
      BY <1>1, <1>7, <2>2 DEF DependenciesFirst, Unmet
    <2> QED
      BY <1>1, <1>4, <1>5, <1>6, <2>1, <2>2
  <1>14. DependenciesFirst'
    BY <1>1, <1>3, <1>13 DEF DependenciesFirst, Unmet, TypeOK
  <1>15. FailureReachesDependents'
    BY <1>1, <1>3, <1>4, <1>5, <1>6 DEF FailureReachesDependents, TypeOK, Bad
  <1>16. NodesAdvance
    BY <1>4, <1>5, <1>6 DEF NodesAdvance, Terminal
  <1>17. UnresolvedExact'
    <2>1. Open \in SUBSET Node /\ done \in SUBSET Open
      BY <1>1, <1>2, <1>5 DEF Shape, Open, Terminal
    <2>2. Open' = Open \ done
      BY <1>1, <1>4, <1>6 DEF Open, Terminal
    <2> QED
      BY <1>3, <2>1, <2>2, RemoveAll DEF UnresolvedExact, Open, Resolve
  <1> QED
    BY <1>9, <1>10, <1>11, <1>12, <1>14, <1>15, <1>16, <1>17

LEMMA FinishUnsuccessfulIInv ==
  ASSUME IInv, NEW n \in Node, NEW end \in Bad, FinishUnsuccessful(n, end)
  PROVE  IInv' /\ NodesAdvance
  <1> DEFINE dead == Doomed({n}, state, dependents, waiters)
  <1> USE DEF IInv
  <1>1. Existing' = Existing /\ Existing \in SUBSET Node
    BY GraphAssumption DEF FinishUnsuccessful, Existing, TypeOK, Node
  <1>2. \A x \in Node : state[x] = "Ready" => \A d \in deps[x] : state[d] = "Succeeded"
    BY DEF Shape, DependenciesFirst
  <1>3. /\ dead \in SUBSET Node /\ n \in dead
        /\ \A x \in dead \ {n} : state[x] \in {"Pending", "Waiting"}
        /\ \A d \in dead : \A x \in dependents[d] : state[x] = "Pending" => x \in dead
    <2>1. /\ dependents \in [Node -> SUBSET Node] /\ waiters \in [Node -> SUBSET Node]
          /\ deps \in [Node -> SUBSET Node] /\ {n} \in SUBSET Node
          /\ \A d \in Node : \A x \in dependents[d] : d \in deps[x]
      BY DEF TypeOK, Edges
    <2>2. state[n] # "Succeeded" /\ \A x \in {n} : state[x] # "Succeeded"
      BY DEF FinishUnsuccessful, Finishing
    <2>3. /\ dead \in SUBSET Node
          /\ {n} \subseteq dead
          /\ \A x \in dead \ {n} : state[x] \in {"Pending", "Waiting"}
          /\ \A d \in dead : \A x \in dependents[d] : state[x] = "Pending" => x \in dead
      BY <1>2, <2>1, <2>2, DoomedFacts, Zenon
    <2> QED
      BY <2>3
  <1> HIDE DEF dead
  <1>4. /\ state[n] = "Running" /\ phase = "running"
        /\ state' = [AfterFailure(dead, state) EXCEPT ![n] = end]
        /\ waiters' = WithoutWaiters(dead, waiters)
        /\ resume' = resume \ dead
        /\ unresolved' = Resolve(unresolved, dead)
        /\ UNCHANGED <<phase, count, remaining, dependents, waitingLeft, bindings,
                       continues, deps, parent>>
    BY DEF FinishUnsuccessful, Finishing, dead
  <1>5. \A x \in Node : IF x \in dead THEN state'[x] \in Bad /\ state[x] # "Succeeded"
                                      ELSE state'[x] = state[x]
    BY <1>3, <1>4 DEF AfterFailure, Bad
  <1>6. \A x \in Node : Unmet(x)' = Unmet(x)
    <2>1. \A x \in Node : state'[x] = "Succeeded" <=> state[x] = "Succeeded"
      BY <1>5 DEF Bad
    <2> QED
      BY <1>4, <2>1 DEF TypeOK, Unmet
  <1>7. TypeOK'
    <2>1. Cardinality(dead) \in Nat
      BY <1>3, NodeFinite
    <2>2. state' \in [Node -> {"Absent", "Pending", "Ready", "Running", "Waiting"} \cup Terminal]
      BY <1>4, <1>5 DEF TypeOK, Terminal, Bad, AfterFailure
    <2> QED
      BY <1>4, <2>1, <2>2 DEF TypeOK, WithoutWaiters, Resolve, Minus
  <1>8. Shape'
    BY <1>1, <1>3, <1>4, <1>5 DEF TypeOK, Shape, WithoutWaiters, Bad, Existing
  <1>9. Edges'
    BY <1>4, <1>5 DEF TypeOK, Edges
  <1>10. RemainingExact'
    BY <1>4, <1>5, <1>6 DEF RemainingExact, Bad
  <1>11. DependenciesFirst'
    BY <1>1, <1>4, <1>5 DEF TypeOK, DependenciesFirst, Bad
  <1>12. FailureReachesDependents'
    <2> SUFFICES ASSUME NEW x \in Existing, state'[x] = "Pending",
                        NEW d \in deps[x], state'[d] \in Bad
                 PROVE  FALSE
      BY <1>1, <1>4 DEF FailureReachesDependents
    <2>1. x \in Node /\ d \in Node /\ x \notin dead /\ state[x] = "Pending"
      BY <1>1, <1>5 DEF TypeOK, Bad
    <2>2. d \in dead /\ state[d] # "Succeeded"
      BY <1>5, <2>1 DEF FailureReachesDependents
    <2>3. x \in dependents[d]
      BY <2>1, <2>2 DEF Edges
    <2> QED
      BY <1>3, <2>1, <2>2, <2>3
  <1>13. NodesAdvance
    BY <1>3, <1>4, <1>5 DEF NodesAdvance, Terminal
  <1>14. UnresolvedExact'
    <2>1. Open \in SUBSET Node /\ dead \in SUBSET Open
      BY <1>1, <1>3, <1>4 DEF Shape, Open, Terminal
    <2>2. Open' = Open \ dead
      BY <1>1, <1>5 DEF Open, Terminal, Bad
    <2> QED
      BY <1>4, <2>1, <2>2, RemoveAll DEF UnresolvedExact, Open, Resolve
  <1> QED
    BY <1>7, <1>8, <1>9, <1>10, <1>11, <1>12, <1>13, <1>14

-----------------------------------------------------------------------------
\* New nodes are numbered after every old one and depend on earlier nodes only.
LEMMA NewNodes ==
  ASSUME IInv, NEW exp \in Expansions, FitsNodeId(exp)
  PROVE  /\ NewIds(exp) = count .. count + Len(exp) - 1
         /\ NewIds(exp) \in SUBSET (Node \ Existing)
         /\ Len(exp) \in Nat \ {0}
         /\ \A x \in NewIds(exp) : /\ ResolvedDeps(exp, x) \in SUBSET Node
                                   /\ \A d \in ResolvedDeps(exp, x) : d < x
  <1>1. /\ Len(exp) \in Nat \ {0} /\ DOMAIN exp = 1 .. Len(exp)
        /\ \A i \in DOMAIN exp : exp[i].after \subseteq 1 .. i - 1
        /\ \A i \in DOMAIN exp : exp[i].tokens \subseteq Token
    <2>1. exp # << >> /\ exp \in Seq(ExpansionNode(Len(exp)))
      BY GraphAssumption
    <2>2. \A i \in DOMAIN exp : exp[i].after \subseteq 1 .. i - 1
      BY GraphAssumption
    <2>3. Len(exp) \in Nat \ {0} /\ DOMAIN exp = 1 .. Len(exp)
      BY <2>1
    <2>4. \A i \in 1 .. Len(exp) : exp[i] \in ExpansionNode(Len(exp))
      BY <2>1, <2>3
    <2>5. \A i \in 1 .. Len(exp) : exp[i].tokens \subseteq Token
      BY <2>4 DEF ExpansionNode
    <2> QED
      BY <2>2, <2>3, <2>5
  <1>2. count \in Nat /\ count + Len(exp) <= MaxNodes
    BY GraphAssumption DEF FitsNodeId, IInv, TypeOK
  <1>3. NewIds(exp) = count .. count + Len(exp) - 1
    <2>1. \A i \in DOMAIN exp : GlobalId(i) \in count .. count + Len(exp) - 1
      BY <1>1, <1>2 DEF GlobalId
    <2>2. \A x \in count .. count + Len(exp) - 1 :
             x - count + 1 \in DOMAIN exp /\ GlobalId(x - count + 1) = x
      BY <1>1, <1>2 DEF GlobalId
    <2> QED
      BY <2>1, <2>2 DEF NewIds
  <1>4. NewIds(exp) \in SUBSET (Node \ Existing)
    BY <1>1, <1>2, <1>3, GraphAssumption DEF Node, Existing
  <1>5. ASSUME NEW x \in NewIds(exp), NEW d \in ResolvedDeps(exp, x)
        PROVE  d \in Node /\ d < x
    <2> DEFINE i == LocalId(x)
    <2>1. i \in DOMAIN exp /\ x = count + i - 1 /\ x \in Node
      BY <1>1, <1>2, <1>3, <1>4 DEF LocalId
    <2>2. CASE \E j \in exp[i].after : d = GlobalId(j)
      BY <1>1, <1>2, <2>1, <2>2, GraphAssumption DEF GlobalId, Node
    <2>3. CASE \E t \in exp[i].tokens : bindings[t] # NoNode /\ d = bindings[t]
      <3>1. d \in Existing
        BY <1>1, <2>1, <2>3 DEF IInv, Shape
      <3> QED
        BY <1>1, <1>2, <2>1, <3>1, GraphAssumption DEF Existing, Node
    <2>4. CASE \E j \in 1 .. i - 1 : d = GlobalId(j)
      BY <1>1, <1>2, <2>1, <2>4, GraphAssumption DEF GlobalId, Node
    <2> QED
      BY <2>2, <2>3, <2>4 DEF ResolvedDeps
  <1> QED
    BY <1>1, <1>3, <1>4, <1>5

LEMMA ExpandIInv ==
  ASSUME IInv, NEW n \in Node, NEW exp \in Expansions, NEW then \in BOOLEAN,
         Expand(n, exp, then)
  PROVE  IInv' /\ NodesAdvance
  <1> DEFINE ids  == NewIds(exp)
             st   == InstalledState(n, exp)
             dep  == InstalledDependents(exp)
             wait == InstalledWaiters(n, exp)
             seed == Blocked(exp)
             dead == Doomed(seed, st, dep, wait)
  <1> USE DEF IInv
  <1>1. state[n] = "Running" /\ phase = "running" /\ FitsNodeId(exp)
    BY DEF Expand, Finishing, Rejected
  <1>2. /\ ids = count .. count + Len(exp) - 1
        /\ ids \in SUBSET (Node \ Existing)
        /\ Len(exp) \in Nat \ {0}
        /\ \A x \in ids : /\ ResolvedDeps(exp, x) \in SUBSET Node
                          /\ \A d \in ResolvedDeps(exp, x) : d < x
    BY <1>1, NewNodes
  <1>3. /\ count' = count + Len(exp)
        /\ remaining' = [x \in Node |-> IF x \in ids
                           THEN Cardinality(Outstanding(exp, x)) ELSE remaining[x]]
        /\ state' = [x \in Node |->
             IF x \in ids \ dead /\ Outstanding(exp, x) = {} THEN "Ready"
             ELSE AfterFailure(dead, st)[x]]
        /\ dependents' = dep
        /\ waiters' = WithoutWaiters(dead, wait)
        /\ waitingLeft' = [waitingLeft EXCEPT ![n] = Cardinality(Leaves(exp))]
        /\ resume' = (IF then THEN resume \cup {n} ELSE resume) \ dead
        /\ unresolved' = Resolve(unresolved + Len(exp), dead)
        /\ bindings' = [t \in Token |-> IF \E i \in DOMAIN exp : t \in exp[i].binds
                          THEN GlobalId(CHOOSE i \in DOMAIN exp : t \in exp[i].binds)
                          ELSE bindings[t]]
        /\ deps' = [x \in Node |-> IF x \in ids THEN ResolvedDeps(exp, x) ELSE deps[x]]
        /\ parent' = [x \in Node |-> IF x \in ids THEN n ELSE parent[x]]
        /\ UNCHANGED <<phase, continues>>
    BY DEF Expand
  <1>4. /\ Existing \in SUBSET Node /\ Existing' = Existing \cup ids
        /\ \A x \in ids : state[x] = "Absent" /\ x # n /\ x >= count
        /\ \A x \in Node : x < count <=> x \in Existing
        /\ \A x \in Existing : deps[x] \subseteq Existing
    <2> HIDE DEF ids, IInv
    <2>1. count \in Nat /\ count' = count + Len(exp) /\ count' <= MaxNodes
      BY <1>1, <1>3, GraphAssumption DEF IInv, TypeOK, FitsNodeId
    <2>2. Existing \in SUBSET Node /\ \A x \in Node : x < count <=> x \in Existing
      BY <1>2, <2>1, GraphAssumption DEF Existing, Node
    <2>3. Existing' = Existing \cup ids
      BY <1>2, <2>1 DEF Existing
    <2>4. \A x \in ids : x \in Node \ Existing /\ x >= count
      BY <1>2, <2>1
    <2>5. \A x \in ids : state[x] = "Absent" /\ x # n
      BY <1>1, <2>4 DEF IInv, Shape
    <2>6. \A x \in Existing : deps[x] \subseteq Existing
      BY <2>1, <2>2, GraphAssumption DEF IInv, TypeOK, Edges, Existing, Node
    <2> QED
      BY <2>2, <2>3, <2>4, <2>5, <2>6
  <1>5. /\ st \in [Node -> {"Absent", "Pending", "Ready", "Running", "Waiting"} \cup Terminal]
        /\ dep \in [Node -> SUBSET Node] /\ wait \in [Node -> SUBSET Node]
        /\ deps' \in [Node -> SUBSET Node] /\ seed \in SUBSET Node
        /\ \A x \in ids : st[x] = "Pending"
        /\ st[n] = "Waiting"
        /\ \A x \in Node \ (ids \cup {n}) : st[x] = state[x]
    BY <1>2, <1>3, <1>4
    DEF TypeOK, InstalledState, InstalledDependents, InstalledWaiters, Blocked, Terminal
  <1>6. \A d \in Node : \A x \in dep[d] : d \in deps'[x]
    BY <1>2, <1>3, <1>4 DEF InstalledDependents, Outstanding, Edges, Shape, TypeOK
  <1>7. \A x \in Node : st[x] = "Ready" => \A d \in deps'[x] : st[d] = "Succeeded"
    <2> SUFFICES ASSUME NEW x \in Node, st[x] = "Ready", NEW d \in deps'[x]
                 PROVE  st[d] = "Succeeded"
      OBVIOUS
    <2>1. x \notin ids /\ x # n /\ state[x] = "Ready" /\ d \in deps[x]
      BY <1>2, <1>3, <1>5
    <2>2. x \in Existing
      BY <2>1 DEF Shape
    <2>3. d \in Node /\ state[d] = "Succeeded"
      BY <2>1, <2>2 DEF DependenciesFirst, TypeOK
    <2> QED
      BY <1>1, <1>4, <1>5, <2>3
  <1>8. /\ dead \in SUBSET Node
        /\ seed \subseteq dead
        /\ \A x \in dead \ seed : st[x] \in {"Pending", "Waiting"}
        /\ \A d \in dead : \A x \in dep[d] : st[x] = "Pending" => x \in dead
    <2>1. \A x \in seed : st[x] # "Succeeded"
      BY <1>5 DEF Blocked
    <2> HIDE DEF st, dep, wait, seed, dead
    <2>2. dead = Doomed(seed, st, dep, wait)
      BY DEF dead
    <2> HIDE DEF IInv
    <2>3. /\ Doomed(seed, st, dep, wait) \in SUBSET Node
          /\ seed \subseteq Doomed(seed, st, dep, wait)
          /\ \A x \in Doomed(seed, st, dep, wait) \ seed : st[x] \in {"Pending", "Waiting"}
          /\ \A d \in Doomed(seed, st, dep, wait) : \A x \in dep[d] :
                st[x] = "Pending" => x \in Doomed(seed, st, dep, wait)
      BY <1>5, <1>6, <1>7, <2>1, DoomedFacts, Zenon
    <2> QED
      BY <2>2, <2>3, Zenon
  <1>9. \A x \in dead : st[x] \in {"Pending", "Waiting"}
    BY <1>5, <1>8 DEF Blocked
  <1> HIDE DEF ids, st, dep, wait, seed, dead
  <1>10. \A x \in Node : \/ x \in dead /\ state'[x] \in Bad
                         \/ x \in ids \ dead /\ Outstanding(exp, x) = {} /\ state'[x] = "Ready"
                         \/ x \in ids \ dead /\ Outstanding(exp, x) # {} /\ state'[x] = "Pending"
                         \/ x \notin ids \cup dead /\ state'[x] = st[x]
    BY <1>3, <1>5, <1>8 DEF AfterFailure, Bad
  <1>11. \A x \in Node : state'[x] = "Succeeded" <=> state[x] = "Succeeded"
    BY <1>1, <1>4, <1>5, <1>9, <1>10 DEF Bad
  <1>12. \A x \in ids : Unmet(x)' = Outstanding(exp, x)
    <2> SUFFICES ASSUME NEW x \in ids PROVE Unmet(x)' = Outstanding(exp, x)
      OBVIOUS
    <2>1. deps'[x] = ResolvedDeps(exp, x) /\ deps'[x] \in SUBSET Node
      BY <1>2, <1>3
    <2>2. \A d \in deps'[x] : state'[d] # "Succeeded" <=> (d >= count \/ state[d] # "Succeeded")
      <3>1. \A d \in Node : d >= count => state[d] # "Succeeded"
        BY <1>4 DEF Shape, TypeOK, Existing, Node
      <3> QED
        BY <1>11, <2>1, <3>1
    <2> QED
      BY <2>1, <2>2 DEF Unmet, Outstanding
  <1>13. \A x \in Node \ ids : Unmet(x)' = Unmet(x)
    BY <1>3, <1>11 DEF Unmet, TypeOK
  <1>14. TypeOK'
    <2>1. state' \in [Node -> {"Absent", "Pending", "Ready", "Running", "Waiting"} \cup Terminal]
      BY <1>3, <1>5, <1>10 DEF Terminal, Bad
    <2>2. remaining' \in [Node -> Nat] /\ waitingLeft' \in [Node -> Nat] /\ unresolved' \in Nat
      <3>1. \A x \in ids : Cardinality(Outstanding(exp, x)) \in Nat
        BY <1>2, NodeFinite DEF Outstanding
      <3>2. Cardinality(Leaves(exp)) \in Nat /\ Cardinality(dead) \in Nat
        BY <1>2, <1>8, NodeFinite DEF Leaves, ids
      <3> QED
        BY <1>2, <1>3, <3>1, <3>2 DEF TypeOK, Resolve, Minus
    <2>3. waiters' \in [Node -> SUBSET Node] /\ resume' \in SUBSET Node
      BY <1>3, <1>5 DEF TypeOK, WithoutWaiters
    <2>4. bindings' \in [Token -> Node \cup {NoNode}]
      <3>1. \A i \in DOMAIN exp : GlobalId(i) \in Node
        BY <1>2 DEF ids, NewIds
      <3> QED
        BY <1>3, <3>1 DEF TypeOK
    <2>5. count' \in 0 .. MaxNodes
      BY <1>1, <1>2, <1>3, GraphAssumption DEF TypeOK, FitsNodeId
    <2>6. parent' \in [Node -> Node \cup {NoNode}]
      BY <1>3 DEF TypeOK
    <2> QED
      BY <1>3, <1>5, <2>1, <2>2, <2>3, <2>4, <2>5, <2>6 DEF TypeOK
  <1>15. Shape'
    <2>1. \A x \in Node \ Existing' : x \notin ids /\ x \notin Existing /\ x \notin dead /\ x # n
      BY <1>1, <1>4, <1>5, <1>9 DEF Shape
    <2>2. \A x \in Node \ Existing' : /\ state'[x] = "Absent" /\ dependents'[x] = {}
                                      /\ waiters'[x] = {} /\ deps'[x] = {}
      <3> SUFFICES ASSUME NEW x \in Node \ Existing'
                   PROVE  /\ state'[x] = "Absent" /\ dependents'[x] = {}
                          /\ waiters'[x] = {} /\ deps'[x] = {}
        OBVIOUS
      <3>1. state'[x] = "Absent" /\ deps'[x] = {}
        BY <1>3, <1>5, <1>10, <2>1 DEF Shape
      <3>2. dependents'[x] = {}
        <4>1. \A y \in ids : y < x
          BY <1>2, <1>3, <1>4 DEF Existing, Node, TypeOK
        <4>2. \A y \in ids : x \notin Outstanding(exp, y)
          BY <1>2, <4>1 DEF Outstanding, Node
        <4> QED
          BY <1>3, <2>1, <4>2 DEF Shape, dep, ids, InstalledDependents
      <3>3. waiters'[x] = {}
        BY <1>3, <2>1 DEF Shape, WithoutWaiters, wait, InstalledWaiters, Leaves, ids
      <3> QED
        BY <3>1, <3>2, <3>3
    <2>3. \A x \in Existing' : state'[x] # "Absent"
      BY <1>2, <1>4, <1>5, <1>10 DEF Shape, Bad
    <2>4. \A t \in Token : bindings'[t] # NoNode => bindings'[t] \in Existing'
      <3>1. \A i \in DOMAIN exp : GlobalId(i) \in ids
        BY DEF ids, NewIds
      <3> QED
        BY <1>3, <1>4, <3>1 DEF Shape
    <2> QED
      BY <1>1, <1>3, <2>2, <2>3, <2>4 DEF Shape
  <1>16. Edges'
    <2>1. \A x \in Node : \A d \in deps'[x] : d < x
      BY <1>2, <1>3 DEF Edges
    <2>2. \A d \in Node : \A x \in dependents'[d] : d \in deps'[x]
      BY <1>3, <1>6
    <2>3. \A x \in Node : \A d \in deps'[x] : state'[d] # "Succeeded" => x \in dependents'[d]
      <3> SUFFICES ASSUME NEW x \in Node, NEW d \in deps'[x], state'[d] # "Succeeded"
                   PROVE  x \in dep[d]
        BY <1>3
      <3>1. d \in Node /\ d \in Unmet(x)'
        BY <1>5 DEF Unmet
      <3>2. CASE x \in ids
        BY <1>12, <3>1, <3>2 DEF dep, ids, InstalledDependents
      <3>3. CASE x \notin ids
        BY <1>13, <3>1, <3>3 DEF Edges, Unmet, dep, InstalledDependents
      <3> QED
        BY <3>2, <3>3
    <2> QED
      BY <2>1, <2>2, <2>3 DEF Edges
  <1>17. RemainingExact'
    BY <1>3, <1>5, <1>10, <1>12, <1>13, <1>4 DEF RemainingExact, Bad
  <1>18. DependenciesFirst'
    <2> SUFFICES ASSUME NEW x \in Existing',
                        state'[x] \in {"Ready", "Running", "Waiting", "Succeeded"}
                 PROVE  Unmet(x)' = {}
      BY DEF DependenciesFirst, Unmet
    <2>1. x \in Node /\ x \notin dead
      BY <1>2, <1>4, <1>10 DEF Bad
    <2>2. CASE x \in ids
      BY <1>10, <1>12, <2>1, <2>2
    <2>3. CASE x \notin ids
      BY <1>1, <1>4, <1>5, <1>10, <1>13, <2>1, <2>3 DEF DependenciesFirst, Unmet
    <2> QED
      BY <2>2, <2>3
  <1>19. FailureReachesDependents'
    <2> SUFFICES ASSUME NEW x \in Existing', state'[x] = "Pending",
                        NEW d \in deps'[x], state'[d] \in Bad
                 PROVE  FALSE
      BY DEF FailureReachesDependents
    <2>1. x \in Node /\ d \in Node /\ x \notin dead /\ st[x] = "Pending"
      BY <1>2, <1>4, <1>5, <1>10 DEF Bad
    <2>2. CASE d \in dead
      <3>1. x \in dep[d]
        <4>1. state'[d] # "Succeeded"
          BY DEF Bad
        <4> QED
          BY <1>3, <1>16, <2>1, <4>1 DEF Edges
      <3> QED
        BY <1>8, <2>1, <2>2, <3>1
    <2>3. CASE d \notin dead
      <3>1. state[d] \in Bad /\ d \in Existing /\ d < count
        BY <1>4, <1>5, <1>10, <2>1, <2>3 DEF Bad, Shape
      <3>2. CASE x \in ids
        BY <1>3, <1>8, <2>1, <3>1, <3>2 DEF Blocked, seed, ids
      <3>3. CASE x \notin ids
        BY <1>3, <1>4, <1>5, <2>1, <3>1, <3>3 DEF FailureReachesDependents
      <3> QED
        BY <3>2, <3>3
    <2> QED
      BY <2>2, <2>3
  <1>20. NodesAdvance
    BY <1>1, <1>4, <1>5, <1>9, <1>10 DEF NodesAdvance, Terminal
  <1>21. UnresolvedExact'
    <2>1. /\ Open \cup ids \in SUBSET Node /\ Open \cap ids = {}
          /\ dead \in SUBSET (Open \cup ids)
      <3>1. ids \in SUBSET Node /\ Open \in SUBSET Node
        BY <1>1, <1>2, <1>4, <1>5 DEF Shape, Open
      <3>2. Open \cap ids = {}
        BY <1>1, <1>2, <1>4, <1>5 DEF Shape, Open, Terminal
      <3>3. dead \in SUBSET (Open \cup ids)
        BY <1>1, <1>2, <1>4, <1>5, <1>8, <1>9 DEF Shape, Open, Terminal
      <3> QED
        BY <3>1, <3>2, <3>3
    <2>2. Open' = (Open \cup ids) \ dead
      BY <1>1, <1>2, <1>4, <1>5, <1>10 DEF Open, Terminal, Bad
    <2>3. Cardinality(ids) = Len(exp)
      <3>1. count \in Int /\ count + Len(exp) - 1 \in Int
        BY <1>2, GraphAssumption DEF TypeOK
      <3>2. Cardinality(count .. count + Len(exp) - 1) = Len(exp)
        BY <1>2, <3>1, FS_Interval, SMTT(60)
      <3> QED
        BY <1>2, <3>2
    <2>4. Cardinality(Open \cup ids) = unresolved + Len(exp)
      <3>1. /\ IsFiniteSet(Open) /\ IsFiniteSet(ids)
            /\ Cardinality(Open) \in Nat /\ Cardinality(ids) \in Nat
        BY <2>1, NodeFinite
      <3>2. Cardinality(Open \cup ids) = Cardinality(Open) + Cardinality(ids) - 0
        BY <2>1, <3>1, FS_Union, FS_EmptySet
      <3> QED
        BY <2>3, <3>1, <3>2 DEF UnresolvedExact, Open
    <2> QED
      BY <1>3, <2>1, <2>2, <2>4, RemoveAll DEF UnresolvedExact, Open, Resolve
  <1> QED
    BY <1>14, <1>15, <1>16, <1>17, <1>18, <1>19, <1>20, <1>21

-----------------------------------------------------------------------------
LEMMA StutterIInv == IInv /\ UNCHANGED vars => IInv' /\ NodesAdvance
  BY DEF IInv, vars, TypeOK, Shape, Edges, RemainingExact, DependenciesFirst,
         FailureReachesDependents, UnresolvedExact, Existing, Unmet, NodesAdvance

\* Only the phase changes when the batch returns or is aborted.
LEMMA EndIInv ==
  ASSUME IInv, phase' \in {"returned", "aborted"},
         UNCHANGED <<count, state, remaining, dependents, waiters, waitingLeft,
                     resume, unresolved, bindings, continues, deps, parent>>
  PROVE  IInv' /\ NodesAdvance
  BY DEF IInv, TypeOK, Shape, Edges, RemainingExact, DependenciesFirst,
         FailureReachesDependents, UnresolvedExact, Existing, Unmet, NodesAdvance

LEMMA FinishIInv == ASSUME IInv, NEW n \in Node, Finish(n) PROVE IInv' /\ NodesAdvance
  <1>1. CASE FinishSucceeded(n)
    BY <1>1, FinishSucceededIInv
  <1>2. CASE FinishFailed(n)
    BY <1>2, FinishUnsuccessfulIInv DEF FinishFailed, Bad
  <1>3. CASE FinishCancelled(n)
    BY <1>3, FinishUnsuccessfulIInv DEF FinishCancelled, Bad
  <1>4. CASE Continue(n)
    BY <1>4, ContinueIInv
  <1>5. CASE \E exp \in Expansions, then \in BOOLEAN : Expand(n, exp, then)
    BY <1>5, ExpandIInv
  <1>6. CASE \E exp \in Expansions : RejectExpansion(n, exp)
    BY <1>6, EndIInv DEF RejectExpansion
  <1> QED
    BY <1>1, <1>2, <1>3, <1>4, <1>5, <1>6 DEF Finish

LEMMA NextIInv == IInv /\ [Next]_vars => IInv' /\ NodesAdvance
  <1> SUFFICES ASSUME IInv, [Next]_vars PROVE IInv' /\ NodesAdvance
    OBVIOUS
  <1>1. CASE \E ds \in SUBSET Existing : AddTask(ds)
    BY <1>1, AddTaskIInv
  <1>2. CASE Start
    BY <1>2, StartIInv
  <1>3. CASE \E n \in Node : MarkRunning(n)
    BY <1>3, MarkRunningIInv
  <1>4. CASE \E n \in Node : Finish(n)
    BY <1>4, FinishIInv
  <1>5. CASE Return
    BY <1>5, EndIInv DEF Return
  <1>6. CASE Over \/ UNCHANGED vars
    BY <1>6, StutterIInv DEF Over
  <1> QED
    BY <1>1, <1>2, <1>3, <1>4, <1>5, <1>6 DEF Next

\* The inductive invariant holds of every graph the builder and the dynamic
\* expansions of node_exec.rs can reach.
THEOREM GraphInvariant == Spec => []IInv
  BY InitIInv, NextIInv, PTL DEF Spec

\* Every field of the graph keeps its type: node ids stay within the id space,
\* counters never go below zero.
THEOREM GraphTypes == Spec => []TypeOK
  BY GraphInvariant, PTL DEF IInv

\* Whatever tasks report, a node is offered for execution, runs, waits or has
\* succeeded only if all its dependencies have succeeded.
THEOREM DependencyOrder == Spec => []DependenciesFirst
  BY GraphInvariant, PTL DEF IInv

\* The cascades of finish_failed and cancel_node are complete: no node is left
\* pending behind a failed or cancelled dependency.
THEOREM FailurePropagation == Spec => []FailureReachesDependents
  BY GraphInvariant, PTL DEF IInv

\* run_graph's loop counter is the number of nodes that have not ended, so the
\* loop ends exactly when every node has.
THEOREM LoopCounter == Spec => []UnresolvedExact
  BY GraphInvariant, PTL DEF IInv

\* A node that ended never changes again: no cascade or late result reaches it.
THEOREM EndedIsFinal == Spec => TerminalIsFinal
  <1>1. IInv /\ [Next]_vars =>
          [\A n \in Node : state[n] \in Terminal => state'[n] = state[n]]_vars
    BY NextIInv DEF NodesAdvance
  <1> QED
    BY <1>1, GraphInvariant, PTL DEF Spec, TerminalIsFinal

\* A ready node is only ever dispatched: the check of run_graph for queued
\* nodes that were cancelled meanwhile (scheduler.rs:333) never finds one.
THEOREM ReadyStays == Spec => ReadyIsDispatched
  <1>1. IInv /\ [Next]_vars =>
          [\A n \in Node : state[n] = "Ready" => state'[n] \in {"Ready", "Running"}]_vars
    BY NextIInv DEF NodesAdvance
  <1> QED
    BY <1>1, GraphInvariant, PTL DEF Spec, ReadyIsDispatched

-----------------------------------------------------------------------------
(***************************************************************************)
(* Waiting parents: a parent goes on only when every node of its           *)
(* expansions has succeeded, although only the leaves report to it.        *)
(*                                                                         *)
(* A node that is not a leaf is followed by one of the same expansion that *)
(* depends on it.  So the greatest child that has not succeeded is a leaf, *)
(* and its parent still counts it.                                         *)
(***************************************************************************)

\* A leaf reports to its parent until it ends; only a node that has run has
\* children.
Reporting ==
  /\ \A c \in Node : \A p \in waiters[c] : p = parent[c] /\ state[c] \notin Terminal
  /\ \A c \in Node : parent[c] # NoNode =>
       c \in Existing /\ parent[c] \in Existing /\ state[parent[c]] # "Pending"

\* A child its waiting parent needs reports to it, or is needed by a later child.
Chained ==
  \A c \in Node :
    (parent[c] # NoNode /\ state[parent[c]] = "Waiting" /\ state[c] # "Succeeded") =>
      \/ parent[c] \in waiters[c]
      \/ \E d \in Node : parent[d] = parent[c] /\ c \in deps[d]

PInv ==
  /\ IInv
  /\ Reporting
  /\ Chained
  /\ ParentAfterChildren

Reporters(p) == {c \in Existing : p \in waiters[c]}

-----------------------------------------------------------------------------
LEMMA GreatestNode ==
  ASSUME NEW S \in SUBSET Node, S # {}
  PROVE  \E x \in S : \A y \in S : y <= x
  <1> DEFINE T == {MaxNodes - x : x \in S}
             R == OpToRel(<, Nat)
  <1>1. T \subseteq Nat /\ T # {}
    <2>1. \A x \in S : x \in Int /\ 0 <= x /\ x <= MaxNodes - 1
      BY GraphAssumption DEF Node
    <2>2. \A x \in S : MaxNodes - x \in Nat
      BY <2>1, GraphAssumption
    <2> QED
      BY <2>2
  <1>2. \E t \in T : \A u \in T : ~ (<<u, t>> \in R)
    <2>1. IsWellFoundedOn(R, Nat)
      BY NatLessThanWellFounded
    <2> HIDE DEF T, R
    <2>2. QED
      BY <1>1, <2>1, WFMin
  <1>3. \A t, u \in T : u < t => <<u, t>> \in R
    BY <1>1 DEF OpToRel
  <1>4. PICK x \in S : \A u \in T : ~ (u < MaxNodes - x)
    BY <1>2, <1>3
  <1>5. ASSUME NEW y \in S PROVE y <= x
    <2>1. x \in Int /\ y \in Int /\ MaxNodes \in Int
      BY GraphAssumption DEF Node
    <2>2. ~ (MaxNodes - y < MaxNodes - x)
      BY <1>4
    <2> QED
      BY <2>1, <2>2
  <1> QED
    BY <1>5

\* Where every node leads to at most one other, a closure of one node has one end.
LEMMA ChainEnd ==
  ASSUME NEW n \in Node, NEW succ \in [Node -> SUBSET Node],
         \A z \in Node : \A a, b \in succ[z] : a = b,
         NEW x \in Closure({n}, succ), NEW y \in Closure({n}, succ),
         succ[x] = {}, succ[y] = {}
  PROVE  x = y
  <1> DEFINE C(z) == Closure({z}, succ)
             P == {z \in Node : x \in C(z)}
  <1>1. \A z \in Node : /\ C(z) \in SUBSET Node
                        /\ z \in C(z)
                        /\ \A w \in C(z) : succ[w] \subseteq C(z)
                        /\ \A S \in SUBSET Node :
                             (z \in S /\ \A w \in S : succ[w] \subseteq S) => C(z) \subseteq S
    <2> SUFFICES ASSUME NEW z \in Node
                 PROVE  /\ C(z) \in SUBSET Node
                        /\ z \in C(z)
                        /\ \A w \in C(z) : succ[w] \subseteq C(z)
                        /\ \A S \in SUBSET Node :
                             (z \in S /\ \A w \in S : succ[w] \subseteq S) => C(z) \subseteq S
      OBVIOUS
    <2>1. {z} \in SUBSET Node /\ \A S : z \in S <=> {z} \subseteq S
      OBVIOUS
    <2>2. /\ C(z) \in SUBSET Node
          /\ {z} \subseteq C(z)
          /\ \A w \in C(z) : succ[w] \subseteq C(z)
          /\ \A S \in SUBSET Node :
               ({z} \subseteq S /\ \A w \in S : succ[w] \subseteq S) => C(z) \subseteq S
      BY <2>1, ClosureFacts, Zenon
    <2> QED
      BY <2>1, <2>2, Zenon
  <1>2. x \in Node /\ y \in Node /\ x \in C(n) /\ y \in C(n)
    BY <1>1
  <1> HIDE DEF C
  <1>3. \A z \in P : succ[z] \subseteq P
    <2> SUFFICES ASSUME NEW z \in P, NEW w \in succ[z], x \notin C(w)
                 PROVE  FALSE
      OBVIOUS
    <2>1. w \in Node /\ z \in Node /\ x \in C(z)
      OBVIOUS
    <2> DEFINE S == C(w) \cup {z}
    <2>2. S \in SUBSET Node /\ z \in S
      BY <1>1, <2>1
    <2>3. \A v \in S : succ[v] \subseteq S
      BY <1>1, <2>1
    <2>4. C(z) \subseteq S
      <3> HIDE DEF S, P
      <3> QED
        BY <1>1, <2>1, <2>2, <2>3, Zenon
    <2>5. x = z
      BY <2>1, <2>4
    <2> QED
      BY <2>5
  <1>4. C(n) \subseteq P
    BY <1>1, <1>2, <1>3
  <1>5. C(y) \subseteq {y}
    <2>1. {y} \in SUBSET Node /\ y \in {y} /\ \A w \in {y} : succ[w] \subseteq {y}
      BY <1>2
    <2> QED
      BY <1>1, <1>2, <2>1, Zenon
  <1> QED
    BY <1>2, <1>4, <1>5

\* A failure reaches every waiting parent a node reports to.
LEMMA DoomedReports ==
  ASSUME NEW seeds \in SUBSET Node, NEW st,
         NEW dep \in [Node -> SUBSET Node], NEW wait \in [Node -> SUBSET Node]
  PROVE  LET D == Doomed(seeds, st, dep, wait)
         IN \A x \in D : \A w \in wait[x] : st[w] = "Waiting" => w \in D
  <1> DEFINE succ == [x \in Node |->
                {d \in dep[x] : st[d] \in {"Pending", "Ready"}}
                  \cup {w \in wait[x] : st[w] = "Waiting"}]
  <1>1. succ \in [Node -> SUBSET Node]
    OBVIOUS
  <1>2. Doomed(seeds, st, dep, wait) = Closure(seeds, succ)
    BY DEF Doomed
  <1>3. \A x \in Node : \A w \in wait[x] : st[w] = "Waiting" => w \in succ[x]
    OBVIOUS
  <1> HIDE DEF succ
  <1>4. /\ Closure(seeds, succ) \in SUBSET Node
        /\ \A x \in Closure(seeds, succ) : succ[x] \subseteq Closure(seeds, succ)
    BY <1>1, ClosureFacts, Zenon
  <1> QED
    BY <1>2, <1>3, <1>4
-----------------------------------------------------------------------------
LEMMA InitPInv == Init => PInv
  <1> SUFFICES ASSUME Init PROVE PInv
    OBVIOUS
  <1>1. IInv
    BY InitIInv
  <1>2. Existing = {}
    BY DEF Init, Existing
  <1> QED
    BY <1>1, <1>2 DEF Init, PInv, Reporting, Chained, ParentAfterChildren

\* Before Start nothing has run, so no node has children.
LEMMA BuildingHasNoParents ==
  ASSUME PInv, phase = "building"
  PROVE  \A c \in Node : parent[c] = NoNode /\ waiters[c] = {} /\ state[c] # "Waiting"
  <1>1. \A c \in Node : state[c] \in {"Pending", "Absent"}
    BY DEF PInv, IInv, Shape
  <1>2. \A c \in Node : parent[c] = NoNode
    BY DEF PInv, IInv, Shape, Reporting
  <1>3. \A c \in Node : \A p \in waiters[c] : p \in Node /\ p = parent[c]
    BY DEF PInv, IInv, TypeOK, Reporting
  <1> QED
    BY <1>1, <1>2, <1>3, GraphAssumption

LEMMA BuildPInv ==
  ASSUME PInv, Start \/ \E ds \in SUBSET Existing : AddTask(ds)
  PROVE  PInv'
  <1>1. IInv'
    BY AddTaskIInv, StartIInv DEF PInv
  <1>2. phase = "building" /\ parent' = parent /\ waiters' = waiters
    BY DEF Start, AddTask
  <1>3. \A c \in Node : /\ parent'[c] = NoNode /\ waiters'[c] = {}
                        /\ state'[c] # "Waiting"
    <2>1. \A c \in Node : parent[c] = NoNode /\ waiters[c] = {} /\ state[c] # "Waiting"
      BY <1>2, BuildingHasNoParents
    <2>2. \A c \in Node : state'[c] \in {state[c], "Pending", "Ready"}
      BY DEF PInv, IInv, TypeOK, Start, AddTask
    <2> QED
      BY <1>2, <2>1, <2>2
  <1>4. Existing' \in SUBSET Node
    <2>1. count' \in 0 .. MaxNodes
      BY <1>1 DEF IInv, TypeOK
    <2>2. \A k \in 0 .. MaxNodes : \A x \in 0 .. k - 1 : x \in 0 .. MaxNodes - 1
      BY GraphAssumption
    <2> QED
      BY <2>1, <2>2 DEF Existing, Node
  <1> QED
    BY <1>1, <1>3, <1>4 DEF PInv, Reporting, Chained, ParentAfterChildren

\* A step that ends no node and leaves every waiting node waiting, as a dispatch or a
\* repetition, does nothing to who reports to whom.
LEMMA QuietPInv ==
  ASSUME PInv, IInv',
         UNCHANGED <<count, waiters, deps, parent>>,
         \A x \in Node : \/ state'[x] = state[x] /\ waitingLeft'[x] = waitingLeft[x]
                         \/ state[x] \in {"Ready", "Running"} /\ state'[x] \in {"Ready", "Running"}
  PROVE  PInv'
  <1>1. Existing' = Existing /\ Existing \in SUBSET Node
    BY GraphAssumption DEF PInv, IInv, TypeOK, Existing, Node
  <1>2. Reporting'
    BY <1>1 DEF PInv, IInv, TypeOK, Reporting, Terminal
  <1>3. Chained'
    BY <1>1 DEF PInv, IInv, TypeOK, Reporting, Chained
  <1>4. ParentAfterChildren'
    <2>1. ASSUME NEW c \in Existing, parent[c] # NoNode,
                 state'[parent[c]] \in {"Succeeded", "Ready", "Running"}
          PROVE  state'[c] = "Succeeded"
      <3>1. parent[c] \in Node
        BY <1>1, <2>1 DEF PInv, Reporting
      <3>2. state[parent[c]] \in {"Succeeded", "Ready", "Running"}
        BY <2>1, <3>1
      <3> QED
        BY <1>1, <2>1, <3>2 DEF PInv, ParentAfterChildren
    <2>2. ASSUME NEW p \in Existing, state'[p] = "Waiting"
          PROVE  /\ waitingLeft'[p] = Cardinality({c \in Existing : p \in waiters[c]})
                 /\ \E c \in Existing : p \in waiters[c] /\ state'[c] \notin Terminal
      <3>1. state[p] = "Waiting" /\ waitingLeft'[p] = waitingLeft[p]
        BY <1>1, <2>2
      <3> QED
        BY <1>1, <3>1 DEF PInv, ParentAfterChildren, Terminal
    <2> QED
      BY <1>1, <2>1, <2>2 DEF ParentAfterChildren
  <1> QED
    BY <1>2, <1>3, <1>4 DEF PInv

LEMMA FinishUnsuccessfulPInv ==
  ASSUME PInv, NEW n \in Node, NEW end \in Bad, FinishUnsuccessful(n, end)
  PROVE  PInv'
  <1> DEFINE dead == Doomed({n}, state, dependents, waiters)
  <1>1. IInv' /\ NodesAdvance
    BY FinishUnsuccessfulIInv DEF PInv
  <1>2. Existing' = Existing /\ Existing \in SUBSET Node
    BY GraphAssumption DEF FinishUnsuccessful, Existing, PInv, IInv, TypeOK, Node
  <1>3. /\ dead \in SUBSET Node /\ n \in dead
        /\ \A x \in dead : \A w \in waiters[x] : state[w] = "Waiting" => w \in dead
    <2>1. /\ dependents \in [Node -> SUBSET Node] /\ waiters \in [Node -> SUBSET Node]
          /\ {n} \in SUBSET Node
      BY DEF PInv, IInv, TypeOK
    <2>2. dead \in SUBSET Node /\ {n} \subseteq dead
      <3> DEFINE succ == [x \in Node |->
                {d \in dependents[x] : state[d] \in {"Pending", "Ready"}}
                  \cup {w \in waiters[x] : state[w] = "Waiting"}]
      <3>1. succ \in [Node -> SUBSET Node] /\ dead = Closure({n}, succ)
        BY <2>1 DEF Doomed
      <3> HIDE DEF succ, dead
      <3> QED
        BY <2>1, <3>1, ClosureFacts
    <2>3. \A x \in dead : \A w \in waiters[x] : state[w] = "Waiting" => w \in dead
      BY <2>1, DoomedReports, Zenon
    <2> QED
      BY <2>2, <2>3
  <1> HIDE DEF dead
  <1>4. /\ state[n] = "Running"
        /\ state' = [AfterFailure(dead, state) EXCEPT ![n] = end]
        /\ waiters' = WithoutWaiters(dead, waiters)
        /\ UNCHANGED <<count, waitingLeft, deps, parent>>
    BY DEF FinishUnsuccessful, Finishing, dead
  <1>5. \A x \in Node : IF x \in dead THEN state'[x] \in Bad /\ waiters'[x] = {}
                                      ELSE state'[x] = state[x] /\ waiters'[x] = waiters[x]
    BY <1>3, <1>4 DEF AfterFailure, WithoutWaiters, Bad
  <1>6. Reporting'
    BY <1>2, <1>4, <1>5 DEF PInv, IInv, TypeOK, Reporting, Terminal, Bad
  <1>7. Chained'
    <2> SUFFICES ASSUME NEW c \in Node, parent[c] # NoNode,
                        state'[parent[c]] = "Waiting", state'[c] # "Succeeded"
                 PROVE  \/ parent[c] \in waiters'[c]
                        \/ \E d \in Node : parent[d] = parent[c] /\ c \in deps[d]
      BY <1>4 DEF Chained
    <2>1. parent[c] \in Node
      BY <1>2 DEF PInv, Reporting
    <2>2. parent[c] \notin dead /\ state[parent[c]] = "Waiting"
      BY <1>5, <2>1 DEF Bad
    <2>3. state[c] # "Succeeded"
      BY <1>1 DEF NodesAdvance, Terminal
    <2>4. CASE parent[c] \in waiters[c]
      BY <1>3, <1>5, <2>2, <2>4
    <2> QED
      BY <2>2, <2>3, <2>4 DEF PInv, Chained
  <1>8. \A c \in Existing :
           (parent[c] # NoNode /\ state'[parent[c]] \in {"Succeeded", "Ready", "Running"})
              => state'[c] = "Succeeded"
    <2> SUFFICES ASSUME NEW c \in Existing, parent[c] # NoNode,
                        state'[parent[c]] \in {"Succeeded", "Ready", "Running"}
                 PROVE  state'[c] = "Succeeded"
      OBVIOUS
    <2>1. parent[c] \in Node /\ c \in Node
      BY <1>2 DEF PInv, Reporting
    <2>2. state[parent[c]] \in {"Succeeded", "Ready", "Running"}
      BY <1>5, <2>1 DEF Bad
    <2>3. state[c] = "Succeeded"
      BY <2>2 DEF PInv, ParentAfterChildren
    <2> QED
      BY <1>1, <2>1, <2>3 DEF NodesAdvance, Terminal
  <1>9. ASSUME NEW p \in Existing, state'[p] = "Waiting"
        PROVE  /\ waitingLeft[p] = Cardinality({c \in Existing : p \in waiters'[c]})
               /\ \E c \in Existing : p \in waiters'[c] /\ state'[c] \notin Terminal
    <2>1. p \notin dead /\ state[p] = "Waiting"
      BY <1>2, <1>5, <1>9 DEF Bad
    <2>2. \A c \in Existing : /\ p \in waiters'[c] <=> p \in waiters[c]
                              /\ p \in waiters[c] => state'[c] = state[c]
      BY <1>2, <1>3, <1>5, <2>1
    <2>3. {c \in Existing : p \in waiters'[c]} = {c \in Existing : p \in waiters[c]}
      BY <2>2
    <2>4. /\ waitingLeft[p] = Cardinality({c \in Existing : p \in waiters[c]})
          /\ \E c \in Existing : p \in waiters[c] /\ state[c] \notin Terminal
      BY <2>1 DEF PInv, ParentAfterChildren
    <2> QED
      BY <2>2, <2>3, <2>4
  <1>10. ParentAfterChildren'
    BY <1>2, <1>4, <1>8, <1>9 DEF ParentAfterChildren
  <1> QED
    BY <1>1, <1>6, <1>7, <1>10 DEF PInv
-----------------------------------------------------------------------------
\* A waiting parent that counts at most one leaf has no other than the one that ended.
LEMMA OnlyReporter ==
  ASSUME PInv, NEW p \in Node, state[p] = "Waiting", waitingLeft[p] <= 1,
         NEW x \in Node, NEW y \in Node, p \in waiters[x], p \in waiters[y]
  PROVE  x = y
  <1> DEFINE R == {c \in Existing : p \in waiters[c]}
  <1>1. p \in Existing /\ x \in Existing /\ y \in Existing
    BY DEF PInv, IInv, Shape
  <1>2. x \in R /\ y \in R
    BY <1>1
  <1>3. Cardinality(R) <= 1
    BY <1>1 DEF PInv, ParentAfterChildren
  <1>4. IsFiniteSet(R) /\ IsFiniteSet({x, y}) /\ {x, y} \subseteq R /\ Cardinality(R) \in Nat
    <2>1. R \in SUBSET Node
      BY GraphAssumption DEF PInv, IInv, TypeOK, Existing, Node
    <2> QED
      BY <1>2, <2>1, NodeFinite, FS_Subset
  <1>5. ASSUME x # y PROVE Cardinality({x, y}) = 2
    <2>1. Cardinality({x}) = 1 /\ IsFiniteSet({x})
      BY FS_Singleton
    <2>2. Cardinality({x} \cup {y}) = Cardinality({x}) + 1
      BY <1>5, <2>1, FS_AddElement
    <2>3. {x} \cup {y} = {x, y}
      OBVIOUS
    <2> QED
      BY <2>1, <2>2, <2>3
  <1>6. Cardinality({x, y}) <= Cardinality(R)
    BY <1>4, FS_Subset
  <1> HIDE DEF R
  <1> QED
    BY <1>3, <1>4, <1>5, <1>6

\* What a success settles is a chain: it ends in one node, and is closed upwards.
LEMMA SettledChain ==
  ASSUME PInv, NEW n \in Node
  PROVE  /\ \A x \in Settled(n) : \A w \in waiters[x] :
              (state[w] = "Waiting" /\ waitingLeft[w] <= 1 /\ w \notin resume) => w \in Settled(n)
         /\ \A x, y \in Settled(n), w \in Node \ Settled(n) :
              (w \in waiters[x] /\ w \in waiters[y]) => x = y
         /\ \A w \in Settled(n) \ {n} :
              waitingLeft[w] <= 1 /\ \E x \in Settled(n) : w \in waiters[x]
  <1> DEFINE succ == [x \in Node |->
                {w \in waiters[x] :
                   state[w] = "Waiting" /\ waitingLeft[w] <= 1 /\ w \notin resume}]
             done == Settled(n)
             S == {n} \cup {w \in done : waitingLeft[w] <= 1 /\ \E x \in done : w \in waiters[x]}
  <1>1. succ \in [Node -> SUBSET Node] /\ {n} \in SUBSET Node
    BY DEF PInv, IInv, TypeOK
  <1>2. done = Closure({n}, succ)
    BY DEF Settled
  <1>3. \A x \in Node : \A w \in succ[x] :
           w \in waiters[x] /\ waitingLeft[w] <= 1 /\ w = parent[x]
    BY DEF PInv, Reporting
  <1>4. \A x \in Node : \A w \in waiters[x] :
           /\ w = parent[x]
           /\ (state[w] = "Waiting" /\ waitingLeft[w] <= 1 /\ w \notin resume) => w \in succ[x]
    BY DEF PInv, Reporting
  <1> HIDE DEF succ, done
  <1>5. /\ done \in SUBSET Node /\ n \in done
        /\ \A x \in done : succ[x] \subseteq done
        /\ \A T \in SUBSET Node :
             ({n} \subseteq T /\ \A x \in T : succ[x] \subseteq T) => done \subseteq T
    <2>1. /\ done \in SUBSET Node /\ {n} \subseteq done
          /\ \A x \in done : succ[x] \subseteq done
          /\ \A T \in SUBSET Node :
               ({n} \subseteq T /\ \A x \in T : succ[x] \subseteq T) => done \subseteq T
      BY <1>1, <1>2, ClosureFacts, Zenon
    <2> QED
      BY <2>1
  <1>6. done \subseteq S
    <2>1. S \in SUBSET Node /\ {n} \subseteq S /\ S \subseteq done
      BY <1>5
    <2>2. \A x \in S : succ[x] \subseteq S
      <3> SUFFICES ASSUME NEW x \in S, NEW w \in succ[x] PROVE w \in S
        OBVIOUS
      <3>1. x \in done /\ x \in Node /\ w \in done
        BY <1>5, <2>1
      <3> QED
        BY <1>3, <3>1
    <2> HIDE DEF S
    <2> QED
      BY <1>5, <2>1, <2>2, Zenon
  <1>7. \A x \in done : \A w \in waiters[x] :
           (state[w] = "Waiting" /\ waitingLeft[w] <= 1 /\ w \notin resume) => w \in done
    BY <1>4, <1>5
  <1>8. ASSUME NEW x \in done, NEW y \in done, NEW w \in Node \ done,
               w \in waiters[x], w \in waiters[y]
        PROVE  x = y
    <2>1. \A z \in Node : \A a, b \in succ[z] : a = b
      BY <1>3
    <2>2. x \in Node /\ y \in Node /\ succ[x] = {} /\ succ[y] = {}
      BY <1>3, <1>4, <1>5, <1>8
    <2> QED
      BY <1>1, <1>2, <2>1, <2>2, ChainEnd
  <1>9. \A w \in done \ {n} : waitingLeft[w] <= 1 /\ \E x \in done : w \in waiters[x]
    BY <1>6
  <1> QED
    BY <1>7, <1>8, <1>9 DEF done
LEMMA FinishSucceededPInv ==
  ASSUME PInv, NEW n \in Node, FinishSucceeded(n)
  PROVE  PInv'
  <1> DEFINE done == Settled(n)
  <1>1. IInv' /\ NodesAdvance
    BY FinishSucceededIInv DEF PInv
  <1>2. Existing' = Existing /\ Existing \in SUBSET Node
    BY GraphAssumption DEF FinishSucceeded, Existing, PInv, IInv, TypeOK, Node
  <1>3. /\ done \in SUBSET Node /\ n \in done
        /\ \A x \in done \ {n} : state[x] = "Waiting" /\ x \notin resume
    BY SettledFacts DEF PInv, IInv
  <1>4. /\ \A x \in done : \A w \in waiters[x] :
             (state[w] = "Waiting" /\ waitingLeft[w] <= 1 /\ w \notin resume) => w \in done
        /\ \A x, y \in done, w \in Node \ done : (w \in waiters[x] /\ w \in waiters[y]) => x = y
        /\ \A w \in done \ {n} : waitingLeft[w] <= 1 /\ \E x \in done : w \in waiters[x]
    BY SettledChain
  <1> HIDE DEF done
  <1>5. /\ state[n] = "Running"
        /\ state' = [x \in Node |->
             CASE x \in done          -> "Succeeded"
               [] x \in Resumed(done) -> "Ready"
               [] state[x] = "Pending" /\ Released(done, x) > 0 /\ remaining'[x] = 0 -> "Ready"
               [] OTHER               -> state[x]]
        /\ waitingLeft' = [w \in Node |-> IF w \in Told(done) THEN Minus(waitingLeft[w], 1)
                                                              ELSE waitingLeft[w]]
        /\ waiters' = WithoutWaiters(done, waiters)
        /\ UNCHANGED <<count, deps, parent>>
    BY DEF FinishSucceeded, Finishing, done
  <1>6. \A x \in Resumed(done) : x \in Node \ done /\ state[x] = "Waiting" /\ waitingLeft[x] <= 1
                                 /\ \E y \in done : x \in waiters[y]
    BY <1>3, <1>5 DEF Resumed, Told
  <1>7. \A x \in Node : \/ x \in done /\ state'[x] = "Succeeded"
                        \/ x \in Resumed(done) /\ state'[x] = "Ready"
                        \/ /\ x \notin done /\ x \notin Resumed(done)
                           /\ \/ state'[x] = state[x]
                              \/ state[x] = "Pending" /\ state'[x] = "Ready"
    <2> TAKE x \in Node
    <2>1. state'[x] =
            CASE x \in done          -> "Succeeded"
              [] x \in Resumed(done) -> "Ready"
              [] state[x] = "Pending" /\ Released(done, x) > 0 /\ remaining'[x] = 0 -> "Ready"
              [] OTHER               -> state[x]
      BY <1>5
    <2>2. x \in done => state[x] # "Pending"
      BY <1>3, <1>5
    <2>3. CASE x \in done
      BY <1>6, <2>1, <2>2, <2>3
    <2>4. CASE x \notin done
      BY <1>6, <2>1, <2>4
    <2> QED
      BY <2>3, <2>4
  <1>8. \A x \in Node : waiters'[x] = IF x \in done THEN {} ELSE waiters[x]
    BY <1>5 DEF WithoutWaiters
  <1>9. Reporting'
    <2>1. ASSUME NEW c \in Node, NEW p \in waiters'[c]
          PROVE  p = parent[c] /\ state'[c] \notin Terminal
      <3>1. c \notin done /\ p \in waiters[c]
        BY <1>8, <2>1
      <3>2. p = parent[c] /\ state[c] \notin Terminal
        BY <3>1 DEF PInv, Reporting
      <3> QED
        BY <1>7, <3>1, <3>2 DEF Terminal
    <2>2. ASSUME NEW c \in Node, parent[c] # NoNode
          PROVE  c \in Existing /\ parent[c] \in Existing /\ state'[parent[c]] # "Pending"
      <3>1. c \in Existing /\ parent[c] \in Existing /\ state[parent[c]] # "Pending"
        BY <2>2 DEF PInv, Reporting
      <3> QED
        BY <1>2, <1>7, <3>1
    <2> QED
      BY <1>2, <1>5, <2>1, <2>2 DEF Reporting
  <1>10. Chained'
    <2> SUFFICES ASSUME NEW c \in Node, parent[c] # NoNode,
                        state'[parent[c]] = "Waiting", state'[c] # "Succeeded"
                 PROVE  \/ parent[c] \in waiters'[c]
                        \/ \E d \in Node : parent[d] = parent[c] /\ c \in deps[d]
      BY <1>5 DEF Chained
    <2>1. parent[c] \in Node
      BY <1>2 DEF PInv, Reporting
    <2>2. state[parent[c]] = "Waiting"
      BY <1>7, <2>1
    <2>3. state[c] # "Succeeded" /\ c \notin done
      BY <1>1, <1>6, <1>7 DEF NodesAdvance, Terminal
    <2> QED
      BY <1>8, <2>2, <2>3 DEF PInv, Chained
  \* The last leaf of p succeeded: all its children have.
  <1>11. ASSUME NEW p \in Node, state[p] = "Waiting", waitingLeft[p] <= 1,
                NEW y \in done, p \in waiters[y],
                NEW c \in Node, parent[c] = p
         PROVE  state'[c] = "Succeeded"
    <2> DEFINE S == {x \in Node : parent[x] = p /\ state'[x] # "Succeeded"}
    <2> SUFFICES ASSUME S # {} PROVE FALSE
      BY <1>11
    <2>1. PICK x \in S : \A z \in S : z <= x
      <3>1. S \in SUBSET Node
        OBVIOUS
      <3> HIDE DEF S
      <3> QED
        BY <3>1, GreatestNode
    <2>2. x \in Node /\ parent[x] = p /\ state'[x] # "Succeeded"
      BY <2>1
    <2>3. state[x] # "Succeeded" /\ x \notin done /\ p # NoNode
      BY <1>1, <1>6, <1>7, <1>11, <2>2, GraphAssumption DEF NodesAdvance, Terminal
    <2>4. p \notin waiters[x]
      BY <1>3, <1>11, <2>2, <2>3, OnlyReporter
    <2>5. PICK d \in Node : parent[d] = p /\ x \in deps[d]
      BY <1>11, <2>2, <2>3, <2>4 DEF PInv, Chained
    <2>6. x < d /\ d \notin S
      <3>1. x < d
        BY <2>2, <2>5 DEF PInv, IInv, Edges
      <3>2. ~ (d <= x)
        BY <2>2, <3>1, GraphAssumption DEF Node
      <3> QED
        BY <2>1, <3>1, <3>2
    <2>7. state'[d] = "Succeeded" /\ d \in Existing'
      BY <1>2, <2>3, <2>5, <2>6 DEF PInv, Reporting
    <2>8. state'[x] = "Succeeded"
      BY <1>1, <1>5, <2>5, <2>7 DEF IInv, DependenciesFirst
    <2> QED
      BY <2>2, <2>8
  <1>12. ASSUME NEW c \in Existing, parent[c] # NoNode,
                state'[parent[c]] \in {"Succeeded", "Ready", "Running"}
         PROVE  state'[c] = "Succeeded"
    <2> DEFINE p == parent[c]
    <2>1. p \in Node /\ c \in Node /\ state[p] # "Pending"
      BY <1>2, <1>12 DEF PInv, Reporting
    <2>2. CASE state[p] \in {"Succeeded", "Ready", "Running"}
      <3>1. state[c] = "Succeeded"
        BY <1>12, <2>2 DEF PInv, ParentAfterChildren
      <3> QED
        BY <1>1, <2>1, <3>1 DEF NodesAdvance, Terminal
    <2>3. CASE state[p] \notin {"Succeeded", "Ready", "Running"}
      <3>1. p \in (done \ {n}) \cup Resumed(done)
        BY <1>5, <1>7, <1>12, <2>1, <2>3
      <3>2. state[p] = "Waiting" /\ waitingLeft[p] <= 1 /\ \E y \in done : p \in waiters[y]
        BY <1>3, <1>4, <1>6, <3>1
      <3> QED
        BY <1>11, <2>1, <3>2
    <2> QED
      BY <2>2, <2>3
  <1>13. ASSUME NEW p \in Existing, state'[p] = "Waiting"
         PROVE  /\ waitingLeft'[p] = Cardinality({c \in Existing : p \in waiters'[c]})
                /\ \E c \in Existing : p \in waiters'[c] /\ state'[c] \notin Terminal
    <2> DEFINE R == {c \in Existing : p \in waiters[c]}
               N == {c \in Existing : p \in waiters'[c]}
    <2>1. p \in Node /\ p \notin done /\ p \notin Resumed(done) /\ state[p] = "Waiting"
      BY <1>2, <1>7, <1>13
    <2>2. waitingLeft[p] = Cardinality(R) /\ R # {}
      BY <2>1 DEF PInv, ParentAfterChildren
    <2>3. R \in SUBSET Node /\ N \in SUBSET Node /\ N = R \ done
      BY <1>2, <1>8
    <2>4. CASE p \notin Told(done)
      <3>1. N = R
        BY <2>1, <2>3, <2>4 DEF Told
      <3> QED
        BY <1>5, <1>9, <2>1, <2>2, <2>4, <3>1, <1>2 DEF Reporting
    <2>5. CASE p \in Told(done)
      <3>1. PICK x \in done : p \in waiters[x]
        BY <2>5 DEF Told
      <3>2. N = R \ {x} /\ x \in R
        <4>1. x \in Existing
          BY <1>3, <3>1 DEF PInv, IInv, Shape
        <4> QED
          BY <1>4, <2>1, <2>3, <3>1, <4>1
      <3>3. ~ (waitingLeft[p] <= 1)
        BY <1>4, <2>1, <2>5, <3>1 DEF Resumed
      <3>4. waitingLeft'[p] = Minus(waitingLeft[p], 1)
        BY <1>5, <2>1, <2>5
      <3>5. IsFiniteSet(R) /\ Cardinality(R) \in Nat /\ Cardinality(N) = Cardinality(R) - 1
        <4> HIDE DEF R, N
        <4> QED
          BY <2>3, <3>2, NodeFinite, FS_RemoveElement
      <3>6. waitingLeft'[p] = Cardinality(N) /\ N # {}
        <4> HIDE DEF R, N
        <4>1. waitingLeft'[p] = Cardinality(R) - 1 /\ Cardinality(R) > 1
          BY <2>2, <3>3, <3>4, <3>5 DEF Minus
        <4>2. Cardinality({}) = 0
          BY FS_EmptySet
        <4> QED
          BY <3>5, <4>1, <4>2
      <3> QED
        BY <1>2, <1>9, <3>6 DEF Reporting
    <2> QED
      BY <2>4, <2>5
  <1>14. ParentAfterChildren'
    BY <1>2, <1>5, <1>12, <1>13 DEF ParentAfterChildren
  <1> QED
    BY <1>1, <1>9, <1>10, <1>14 DEF PInv
LEMMA ExpandPInv ==
  ASSUME PInv, NEW n \in Node, NEW exp \in Expansions, NEW then \in BOOLEAN,
         Expand(n, exp, then)
  PROVE  PInv'
  <1> DEFINE ids  == NewIds(exp)
             st   == InstalledState(n, exp)
             dep  == InstalledDependents(exp)
             wait == InstalledWaiters(n, exp)
             dead == Doomed(Blocked(exp), st, dep, wait)
  <1>1. IInv' /\ NodesAdvance
    BY ExpandIInv DEF PInv
  <1>2. state[n] = "Running" /\ FitsNodeId(exp)
    BY DEF Expand, Finishing, Rejected
  <1>3. /\ ids = count .. count + Len(exp) - 1
        /\ ids \in SUBSET (Node \ Existing)
        /\ Len(exp) \in Nat \ {0}
        /\ \A x \in ids : /\ ResolvedDeps(exp, x) \in SUBSET Node
                          /\ \A d \in ResolvedDeps(exp, x) : d < x
    BY <1>2, NewNodes DEF PInv
  <1>4. /\ count' = count + Len(exp)
        /\ state' = [x \in Node |->
             IF x \in ids \ dead /\ Outstanding(exp, x) = {} THEN "Ready"
             ELSE AfterFailure(dead, st)[x]]
        /\ waiters' = WithoutWaiters(dead, wait)
        /\ waitingLeft' = [waitingLeft EXCEPT ![n] = Cardinality(Leaves(exp))]
        /\ deps' = [x \in Node |-> IF x \in ids THEN ResolvedDeps(exp, x) ELSE deps[x]]
        /\ parent' = [x \in Node |-> IF x \in ids THEN n ELSE parent[x]]
    BY DEF Expand
  <1>5. /\ Existing \in SUBSET Node /\ Existing' = Existing \cup ids
        /\ n \in Existing /\ n \notin ids
    <2>1. count \in Nat /\ Existing \in SUBSET Node
      BY GraphAssumption DEF PInv, IInv, TypeOK, Existing, Node
    <2>2. n \in Existing
      BY <1>2 DEF PInv, IInv, Shape
    <2> HIDE DEF ids
    <2>3. Existing' = Existing \cup ids
      BY <1>3, <1>4, <2>1 DEF Existing
    <2> QED
      BY <1>3, <2>1, <2>2, <2>3
  <1>6. \A x \in Node : /\ x \in ids => st[x] = "Pending"
                        /\ x = n => st[x] = "Waiting"
                        /\ x \notin ids \cup {n} => st[x] = state[x]
                        /\ wait[x] = IF x \in Leaves(exp) THEN {n} ELSE waiters[x]
    BY <1>5 DEF InstalledState, InstalledWaiters
  <1>7. /\ dead \in SUBSET Node
        /\ \A x \in dead : \A w \in wait[x] : st[w] = "Waiting" => w \in dead
    <2>1. Blocked(exp) \in SUBSET Node
      BY <1>3 DEF Blocked
    <2>2. dep \in [Node -> SUBSET Node] /\ wait \in [Node -> SUBSET Node]
      BY <1>3 DEF PInv, IInv, TypeOK, InstalledDependents, InstalledWaiters
    <2>3. dead \in SUBSET Node
      BY DEF Doomed, Closure
    <2> HIDE DEF st, dep, wait
    <2> QED
      BY <2>1, <2>2, <2>3, DoomedReports, Zenon
  <1>8. /\ Leaves(exp) \subseteq ids /\ Leaves(exp) # {}
        /\ \A x \in ids \ Leaves(exp) : \E y \in ids : x \in ResolvedDeps(exp, y)
    <2> DEFINE last == count + Len(exp) - 1
    <2>1. count \in Nat
      BY GraphAssumption DEF PInv, IInv, TypeOK
    <2>2. last \in ids /\ \A y \in ids : ~ (last < y)
      BY <1>3, <2>1
    <2>3. \A y \in ids : last \notin ResolvedDeps(exp, y)
      BY <1>3, <2>2
    <2> QED
      BY <2>2, <2>3 DEF Leaves
  <1> HIDE DEF ids, st, dep, wait, dead
  <1>9. \A x \in Node : \/ x \in dead /\ state'[x] \in Bad /\ waiters'[x] = {}
                        \/ /\ x \notin dead /\ waiters'[x] = wait[x]
                           /\ \/ x \in ids /\ state'[x] \in {"Ready", "Pending"}
                              \/ x = n /\ state'[x] = "Waiting"
                              \/ x \notin ids \cup {n} /\ state'[x] = state[x]
    BY <1>4, <1>5, <1>6 DEF AfterFailure, WithoutWaiters, Bad
  <1>10. /\ \A x \in ids : waiters[x] = {}
         /\ \A c \in Node : parent[c] # NoNode =>
              c \in Existing /\ c \notin ids /\ parent[c] \in Existing /\ parent[c] \notin ids
         /\ \A c \in Node : parent[c] = n => state[c] = "Succeeded" /\ state'[c] = "Succeeded"
    <2>1. \A x \in ids : waiters[x] = {}
      BY <1>3 DEF PInv, IInv, Shape
    <2>2. \A c \in Node : parent[c] # NoNode =>
              c \in Existing /\ c \notin ids /\ parent[c] \in Existing /\ parent[c] \notin ids
      BY <1>3 DEF PInv, Reporting
    <2>3. \A c \in Node : parent[c] = n => state[c] = "Succeeded"
      BY <1>2, <2>2, GraphAssumption DEF PInv, ParentAfterChildren
    <2> QED
      BY <1>1, <2>1, <2>2, <2>3 DEF NodesAdvance, Terminal
  \* Who reports after the step: the new leaves to n, the others as before.
  <1>11. \A c \in Node : \A p \in Node : p \notin dead =>
            /\ p = n => (p \in waiters'[c] <=> c \in Leaves(exp))
            /\ (p # n /\ state[p] = "Waiting") => (p \in waiters'[c] <=> p \in waiters[c])
    <2> SUFFICES ASSUME NEW c \in Node, NEW p \in Node, p \notin dead
                 PROVE  /\ p = n => (p \in waiters'[c] <=> c \in Leaves(exp))
                        /\ (p # n /\ state[p] = "Waiting")
                              => (p \in waiters'[c] <=> p \in waiters[c])
      OBVIOUS
    <2>1. CASE p = n
      <3>1. p \notin waiters[c]
        BY <1>10, <2>1 DEF PInv, Reporting, Terminal
      <3>2. st[p] = "Waiting"
        BY <1>6, <2>1
      <3>3. c \in Leaves(exp) => c \notin dead
        BY <1>6, <1>7, <2>1, <3>2
      <3> QED
        BY <1>6, <1>9, <2>1, <3>1, <3>3
    <2>2. CASE p # n /\ state[p] = "Waiting"
      <3>1. p \notin ids /\ st[p] = "Waiting"
        BY <1>3, <1>6, <2>2 DEF PInv, IInv, Shape
      <3>2. p \in wait[c] <=> p \in waiters[c]
        BY <1>6, <1>8, <1>10, <2>2
      <3>3. p \in wait[c] => c \notin dead
        BY <1>7, <3>1
      <3>4. p \in waiters'[c] <=> p \in waiters[c]
        BY <1>9, <3>2, <3>3
      <3> QED
        BY <2>2, <3>4
    <2> QED
      BY <2>1, <2>2
  <1>12. Reporting'
    <2>1. ASSUME NEW c \in Node, NEW p \in waiters'[c]
          PROVE  p = parent'[c] /\ state'[c] \notin Terminal
      <3>1. c \notin dead /\ p \in wait[c]
        BY <1>9, <2>1
      <3>2. CASE c \in ids
        BY <1>4, <1>6, <1>8, <1>9, <1>10, <3>1, <3>2 DEF Terminal
      <3>3. CASE c \notin ids
        <4>1. p = parent[c] /\ state[c] \notin Terminal
          BY <1>6, <1>8, <3>1, <3>3 DEF PInv, Reporting
        <4> QED
          BY <1>4, <1>9, <3>1, <3>3, <4>1 DEF Terminal
      <3> QED
        BY <3>2, <3>3
    <2>2. ASSUME NEW c \in Node, parent'[c] # NoNode
          PROVE  c \in Existing' /\ parent'[c] \in Existing' /\ state'[parent'[c]] # "Pending"
      <3>1. CASE c \in ids
        BY <1>4, <1>5, <1>9, <3>1 DEF Bad
      <3>2. CASE c \notin ids
        <4>1. parent'[c] = parent[c] /\ parent[c] # NoNode
          BY <1>4, <2>2, <3>2
        <4>2. c \in Existing /\ parent[c] \in Existing /\ state[parent[c]] # "Pending"
              /\ parent[c] \notin ids
          BY <1>10, <4>1 DEF PInv, Reporting
        <4> QED
          BY <1>5, <1>9, <4>1, <4>2 DEF Bad
      <3> QED
        BY <3>1, <3>2
    <2> QED
      BY <2>1, <2>2 DEF Reporting
  <1>13. Chained'
    <2> SUFFICES ASSUME NEW c \in Node, parent'[c] # NoNode,
                        state'[parent'[c]] = "Waiting", state'[c] # "Succeeded"
                 PROVE  \/ parent'[c] \in waiters'[c]
                        \/ \E d \in Node : parent'[d] = parent'[c] /\ c \in deps'[d]
      BY DEF Chained
    <2>1. CASE c \in ids
      <3>1. parent'[c] = n /\ n \notin dead
        BY <1>4, <1>9, <2>1 DEF Bad
      <3>2. CASE c \in Leaves(exp)
        BY <1>11, <3>1, <3>2
      <3>3. CASE c \notin Leaves(exp)
        <4>1. PICK y \in ids : c \in ResolvedDeps(exp, y)
          BY <1>8, <2>1, <3>3
        <4>2. y \in Node /\ parent'[y] = n /\ c \in deps'[y]
          BY <1>3, <1>4, <4>1
        <4> QED
          BY <3>1, <4>2
      <3> QED
        BY <3>2, <3>3
    <2>2. CASE c \notin ids
      <3>1. parent'[c] = parent[c] /\ parent[c] # NoNode /\ parent[c] # n
        BY <1>4, <1>10, <2>2
      <3>2. parent[c] \in Node /\ parent[c] \notin ids
        BY <1>5, <1>10, <3>1
      <3>3. parent[c] \notin dead /\ state[parent[c]] = "Waiting"
        BY <1>9, <3>1, <3>2 DEF Bad
      <3>4. state[c] # "Succeeded"
        BY <1>1 DEF NodesAdvance, Terminal
      <3>5. CASE parent[c] \in waiters[c]
        BY <1>11, <3>1, <3>2, <3>3, <3>5
      <3>6. CASE \E d \in Node : parent[d] = parent[c] /\ c \in deps[d]
        <4>1. PICK d \in Node : parent[d] = parent[c] /\ c \in deps[d]
          BY <3>6
        <4>2. d \notin ids
          BY <1>10, <3>1, <4>1
        <4> QED
          BY <1>4, <3>1, <4>1, <4>2
      <3> QED
        BY <3>1, <3>3, <3>4, <3>5, <3>6 DEF PInv, Chained
    <2> QED
      BY <2>1, <2>2
  <1>14. ASSUME NEW c \in Existing', parent'[c] # NoNode,
                state'[parent'[c]] \in {"Succeeded", "Ready", "Running"}
         PROVE  state'[c] = "Succeeded"
    <2>1. c \in Node
      BY <1>3, <1>5
    <2>2. c \notin ids
      BY <1>4, <1>5, <1>9, <1>14, <2>1 DEF Bad
    <2>3. parent'[c] = parent[c] /\ parent[c] \in Node /\ parent[c] \notin ids
      BY <1>4, <1>5, <1>10, <1>14, <2>1, <2>2
    <2>4. state[parent[c]] \in {"Succeeded", "Ready", "Running"}
      BY <1>2, <1>9, <1>14, <2>3 DEF Bad
    <2>5. state[c] = "Succeeded"
      BY <1>5, <1>14, <2>2, <2>3, <2>4 DEF PInv, ParentAfterChildren
    <2> QED
      BY <1>1, <2>1, <2>5 DEF NodesAdvance, Terminal
  <1>15. ASSUME NEW p \in Existing', state'[p] = "Waiting"
         PROVE  /\ waitingLeft'[p] = Cardinality({c \in Existing' : p \in waiters'[c]})
                /\ \E c \in Existing' : p \in waiters'[c] /\ state'[c] \notin Terminal
    <2>1. p \in Node /\ p \notin dead /\ p \notin ids
      BY <1>3, <1>5, <1>9, <1>15 DEF Bad
    <2>2. CASE p = n
      <3>1. {c \in Existing' : p \in waiters'[c]} = Leaves(exp)
        BY <1>3, <1>5, <1>8, <1>11, <2>1, <2>2
      <3>2. waitingLeft'[p] = Cardinality(Leaves(exp))
        BY <1>4, <2>2 DEF PInv, IInv, TypeOK
      <3>3. PICK c \in Existing' : p \in waiters'[c]
        BY <1>8, <3>1
      <3>4. state'[c] \notin Terminal
        BY <1>3, <1>5, <1>12, <3>3 DEF Reporting
      <3> QED
        BY <3>1, <3>2, <3>3, <3>4
    <2>3. CASE p # n
      <3>1. state[p] = "Waiting" /\ p \in Existing
        BY <1>5, <1>9, <1>15, <2>1, <2>3
      <3>2. \A c \in Node : /\ p \in waiters'[c] <=> p \in waiters[c]
                            /\ p \in waiters[c] => c \in Existing
        BY <1>11, <2>1, <2>3, <3>1 DEF PInv, IInv, Shape
      <3>3. {c \in Existing' : p \in waiters'[c]} = {c \in Existing : p \in waiters[c]}
        BY <1>3, <1>5, <3>2
      <3>4. /\ waitingLeft[p] = Cardinality({c \in Existing : p \in waiters[c]})
            /\ \E c \in Existing : p \in waiters[c]
        BY <3>1 DEF PInv, ParentAfterChildren
      <3>5. waitingLeft'[p] = waitingLeft[p]
        BY <1>4, <2>1, <2>3 DEF PInv, IInv, TypeOK
      <3> QED
        BY <1>5, <1>12, <3>2, <3>3, <3>4, <3>5 DEF Reporting
    <2> QED
      BY <2>2, <2>3
  <1>16. ParentAfterChildren'
    BY <1>14, <1>15 DEF ParentAfterChildren
  <1> QED
    BY <1>1, <1>12, <1>13, <1>16 DEF PInv

-----------------------------------------------------------------------------
LEMMA FinishPInv == ASSUME PInv, NEW n \in Node, Finish(n) PROVE PInv'
  <1>1. IInv'
    BY FinishIInv DEF PInv
  <1>2. CASE FinishSucceeded(n)
    BY <1>2, FinishSucceededPInv
  <1>3. CASE FinishFailed(n) \/ FinishCancelled(n)
    BY <1>3, FinishUnsuccessfulPInv DEF FinishFailed, FinishCancelled, Bad
  <1>4. CASE Continue(n)
    <2>1. \A x \in Node : \/ state'[x] = state[x] /\ waitingLeft'[x] = waitingLeft[x]
                          \/ state[x] \in {"Ready", "Running"} /\ state'[x] \in {"Ready", "Running"}
      BY <1>4 DEF PInv, IInv, TypeOK, Continue, Finishing
    <2> QED
      BY <1>1, <1>4, <2>1, QuietPInv DEF Continue
  <1>5. CASE \E exp \in Expansions, then \in BOOLEAN : Expand(n, exp, then)
    BY <1>5, ExpandPInv
  <1>6. CASE \E exp \in Expansions : RejectExpansion(n, exp)
    BY <1>1, <1>6, QuietPInv DEF RejectExpansion
  <1> QED
    BY <1>2, <1>3, <1>4, <1>5, <1>6 DEF Finish

LEMMA NextPInv == PInv /\ [Next]_vars => PInv'
  <1> SUFFICES ASSUME PInv, [Next]_vars PROVE PInv'
    OBVIOUS
  <1>1. IInv'
    BY NextIInv DEF PInv
  <1>2. CASE Start \/ \E ds \in SUBSET Existing : AddTask(ds)
    BY <1>2, BuildPInv
  <1>3. CASE \E n \in Node : MarkRunning(n)
    <2>1. PICK n \in Node : MarkRunning(n)
      BY <1>3
    <2>2. \A x \in Node : \/ state'[x] = state[x] /\ waitingLeft'[x] = waitingLeft[x]
                          \/ state[x] \in {"Ready", "Running"} /\ state'[x] \in {"Ready", "Running"}
      BY <2>1 DEF PInv, IInv, TypeOK, MarkRunning
    <2> QED
      BY <1>1, <2>1, <2>2, QuietPInv DEF MarkRunning
  <1>4. CASE \E n \in Node : Finish(n)
    BY <1>4, FinishPInv
  <1>5. CASE Return
    BY <1>1, <1>5, QuietPInv DEF Return
  <1>6. CASE Over \/ UNCHANGED vars
    BY <1>1, <1>6, QuietPInv DEF Over, vars
  <1> QED
    BY <1>2, <1>3, <1>4, <1>5, <1>6 DEF Next

-----------------------------------------------------------------------------
\* The graph always knows who reports to whom.
THEOREM ParentsInvariant == Spec => []PInv
  BY InitPInv, NextPInv, PTL DEF Spec

\* notify_waiters lets a parent succeed or resume only when every node of its
\* expansions has succeeded, however deep they nest and whichever leaf is last; while
\* it waits, waiting_remaining is the number of leaves that still report, never zero.
THEOREM ParentsComeLast == Spec => []ParentAfterChildren
  <1>1. PInv => ParentAfterChildren
    BY DEF PInv
  <1> QED
    BY <1>1, ParentsInvariant, PTL
=============================================================================
