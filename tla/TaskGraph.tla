------------------------------ MODULE TaskGraph ------------------------------
(***************************************************************************)
(* The command-scoped task DAG of griffr-runtime (task_pool/graph).        *)
(*                                                                         *)
(* A builder adds nodes that depend only on earlier nodes.  Once started,  *)
(* the graph is driven by its one owner, the coordinator: a ready node is  *)
(* marked running, and the result of its task finishes it, sends it back   *)
(* to the ready queue (Continue) or installs a dynamic subgraph and makes  *)
(* it wait (Expand, ExpandThen).  A result is applied atomically: the      *)
(* recursive cascades of the code (cancel_node, notify_waiters) run inside *)
(* one call of finish, so each is one step here, written as the least set  *)
(* closed under the recursion.                                             *)
(*                                                                         *)
(* An operator with an underscore in its name, as Doomed_Shallow, is a     *)
(* faulty variant of the definition after it.  No specification uses it;   *)
(* it shows which defect of the code a property would expose.              *)
(*                                                                         *)
(* A node is its index.  Task payloads are left out; what is kept of the   *)
(* payload of a waiting node is whether there is one (resume).             *)
(***************************************************************************)
EXTENDS Integers, FiniteSets, Sequences

CONSTANTS
  MaxNodes,       \* bound on the nodes of one graph (u32::MAX in the code)
  MaxStatic,      \* bound on the nodes the builder adds
  MaxContinues,   \* bound on Continue results, the retry budgets of the tasks
  Token,          \* dependency tokens
  Expansions,     \* the dynamic subgraphs a task may return
  NoNode          \* value of an unbound token, and the parent of a static node

Node == 0 .. MaxNodes - 1

\* Nodes of a dynamic subgraph are numbered from 1: the nodes of the same
\* expansion it depends on, the tokens it depends on and the token it binds.
ExpansionNode(len) == [after: SUBSET (1 .. len), tokens: SUBSET Token, binds: SUBSET Token]

ASSUME GraphAssumption ==
  /\ MaxNodes \in Nat
  /\ MaxStatic \in 0 .. MaxNodes
  /\ MaxContinues \in Nat
  /\ NoNode \notin Node
  /\ \A exp \in Expansions :
       /\ exp # << >>
       /\ exp \in Seq(ExpansionNode(Len(exp)))
       /\ \A i \in DOMAIN exp : /\ exp[i].after \subseteq 1 .. i - 1
                               /\ Cardinality(exp[i].binds) <= 1

VARIABLES
  phase,        \* "building", "running", "returned" or "aborted"
  count,        \* nodes.len()
  state,        \* NodeState of a node, "Absent" beyond count
  remaining,    \* remaining_dependencies
  dependents,   \* nodes to release or cancel when this one ends
  waiters,      \* the parent waiting for this terminal leaf
  waitingLeft,  \* waiting_remaining
  resume,       \* waiting nodes that hold the task to resume with
  unresolved,   \* unresolved
  bindings,     \* node bound to a token
  continues,    \* Continue results so far
  deps,         \* history: the dependencies a node was created with
  parent        \* history: the node whose expansion created a node

vars == <<phase, count, state, remaining, dependents, waiters, waitingLeft,
          resume, unresolved, bindings, continues, deps, parent>>

Terminal == {"Succeeded", "Failed", "Cancelled"}
Bad      == {"Failed", "Cancelled"}
Existing == 0 .. count - 1

-----------------------------------------------------------------------------
\* The least set that holds seeds and is closed under succ.  The code reaches
\* it by recursion or with a worklist.
Closure(seeds, succ) ==
  {n \in Node : \A S \in SUBSET Node :
      (seeds \subseteq S /\ \A x \in S : succ[x] \subseteq S) => n \in S}

Doomed_Shallow(seeds, st, dep, wait) ==
  seeds \cup UNION {dep[x] : x \in seeds} \cup UNION {wait[x] : x \in seeds}

Doomed_AnyWaiter(seeds, st, dep, wait) ==
  Closure(seeds, [x \in Node |->
      {d \in dep[x] : st[d] \in {"Pending", "Ready"}} \cup wait[x]])

\* Nodes that end when the seeds fail or are cancelled: cancel_node takes the
\* dependents that have not started, notify_waiters fails the waiting parents.
Doomed(seeds, st, dep, wait) ==
  Closure(seeds, [x \in Node |->
      {d \in dep[x] : st[d] \in {"Pending", "Ready"}}
        \cup {w \in wait[x] : st[w] = "Waiting"}])

Settled_FirstLeaf(n) ==
  Closure({n}, [x \in Node |-> {w \in waiters[x] : state[w] = "Waiting" /\ w \notin resume}])

\* Nodes that succeed together with n: the parents for which n is the last
\* terminal leaf and that have nothing to resume with, upwards.
Settled(n) ==
  Closure({n}, [x \in Node |->
      {w \in waiters[x] :
          state[w] = "Waiting" /\ waitingLeft[w] <= 1 /\ w \notin resume}])

\* Everything that can only end after n: the nodes a subgraph of n must not
\* depend on.
FinishDependents(n) ==
  Closure({n}, [x \in Node |-> dependents[x] \cup waiters[x]])

AfterFailure(dead, st) ==
  [x \in Node |-> IF x \notin dead THEN st[x]
                  ELSE IF st[x] = "Waiting" THEN "Failed" ELSE "Cancelled"]

WithoutWaiters(ended, wait) ==
  [x \in Node |-> IF x \in ended THEN {} ELSE wait[x]]

Minus(a, b) == IF a <= b THEN 0 ELSE a - b   \* saturating_sub

Resolve_Once(open, ended) == Minus(open, 1)

\* Each node that ends is taken off the unresolved count.
Resolve(open, ended) == Minus(open, Cardinality(ended))

-----------------------------------------------------------------------------
Init ==
  /\ phase = "building"
  /\ count = 0
  /\ state = [n \in Node |-> "Absent"]
  /\ remaining = [n \in Node |-> 0]
  /\ dependents = [n \in Node |-> {}]
  /\ waiters = [n \in Node |-> {}]
  /\ waitingLeft = [n \in Node |-> 0]
  /\ resume = {}
  /\ unresolved = 0
  /\ bindings = [t \in Token |-> NoNode]
  /\ continues = 0
  /\ deps = [n \in Node |-> {}]
  /\ parent = [n \in Node |-> NoNode]

\* The builder takes a node whose dependencies are all in it already.
AddTask(ds) ==
  /\ phase = "building"
  /\ count < MaxStatic
  /\ count' = count + 1
  /\ state' = [state EXCEPT ![count] = "Pending"]
  /\ remaining' = [remaining EXCEPT ![count] = Cardinality(ds)]
  /\ dependents' = [n \in Node |-> IF n \in ds THEN dependents[n] \cup {count}
                                              ELSE dependents[n]]
  /\ unresolved' = unresolved + 1
  /\ deps' = [deps EXCEPT ![count] = ds]
  /\ UNCHANGED <<phase, waiters, waitingLeft, resume, bindings, continues, parent>>

Start_EveryNode ==
  /\ phase = "building"
  /\ phase' = "running"
  /\ state' = [n \in Node |-> IF state[n] = "Pending" THEN "Ready" ELSE state[n]]
  /\ UNCHANGED <<count, remaining, dependents, waiters, waitingLeft, resume,
                 unresolved, bindings, continues, deps, parent>>

Start ==
  /\ phase = "building"
  /\ phase' = "running"
  /\ state' = [n \in Node |-> IF state[n] = "Pending" /\ remaining[n] = 0
                              THEN "Ready" ELSE state[n]]
  /\ UNCHANGED <<count, remaining, dependents, waiters, waitingLeft, resume,
                 unresolved, bindings, continues, deps, parent>>

MarkRunning(n) ==
  /\ phase = "running"
  /\ state[n] = "Ready"
  /\ state' = [state EXCEPT ![n] = "Running"]
  /\ UNCHANGED <<phase, count, remaining, dependents, waiters, waitingLeft,
                 resume, unresolved, bindings, continues, deps, parent>>

\* finish accepts the result of a running node only.
Finishing(n) == phase = "running" /\ state[n] = "Running"

\* How many of the nodes that succeed now d was waiting for.
Released(done, d) == Cardinality({x \in done : d \in dependents[x]})

\* The waiting parents that are told of a leaf that succeeds now, and those of
\* them that go on with the task they hold because it was the last one.
Told(done) == {w \in Node : state[w] = "Waiting" /\ \E x \in done : w \in waiters[x]}
Resumed(done) == {w \in Told(done) : waitingLeft[w] <= 1 /\ w \in resume}

FinishSucceeded(n) ==
  LET done == Settled(n)
  IN /\ Finishing(n)
     /\ remaining' = [d \in Node |-> Minus(remaining[d], Released(done, d))]
     /\ state' = [x \in Node |->
          CASE x \in done          -> "Succeeded"
            [] x \in Resumed(done) -> "Ready"
            [] state[x] = "Pending" /\ Released(done, x) > 0 /\ remaining'[x] = 0 -> "Ready"
            [] OTHER               -> state[x]]
     /\ waitingLeft' = [w \in Node |-> IF w \in Told(done) THEN Minus(waitingLeft[w], 1)
                                                           ELSE waitingLeft[w]]
     /\ resume' = resume \ Resumed(done)
     /\ waiters' = WithoutWaiters(done, waiters)
     /\ unresolved' = Resolve(unresolved, done)
     /\ UNCHANGED <<phase, count, dependents, bindings, continues, deps, parent>>

\* A failed task and one that reports its own cancellation differ only in the
\* state the node ends in.
FinishUnsuccessful(n, end) ==
  LET dead == Doomed({n}, state, dependents, waiters)
  IN /\ Finishing(n)
     /\ state' = [AfterFailure(dead, state) EXCEPT ![n] = end]
     /\ waiters' = WithoutWaiters(dead, waiters)
     /\ resume' = resume \ dead
     /\ unresolved' = Resolve(unresolved, dead)
     /\ UNCHANGED <<phase, count, remaining, dependents, waitingLeft, bindings,
                    continues, deps, parent>>

FinishFailed(n)    == FinishUnsuccessful(n, "Failed")
FinishCancelled(n) == FinishUnsuccessful(n, "Cancelled")

\* A retry that does not use up its budget.
Continue_Unbudgeted(n) ==
  /\ Finishing(n)
  /\ state' = [state EXCEPT ![n] = "Ready"]
  /\ waitingLeft' = [waitingLeft EXCEPT ![n] = 0]
  /\ UNCHANGED <<phase, count, remaining, dependents, waiters, resume,
                 unresolved, bindings, continues, deps, parent>>

\* The same node goes back to the ready queue with its next task.
Continue(n) ==
  /\ Finishing(n)
  /\ continues < MaxContinues
  /\ continues' = continues + 1
  /\ state' = [state EXCEPT ![n] = "Ready"]
  /\ waitingLeft' = [waitingLeft EXCEPT ![n] = 0]
  /\ UNCHANGED <<phase, count, remaining, dependents, waiters, resume,
                 unresolved, bindings, deps, parent>>

-----------------------------------------------------------------------------
\* Dynamic expansion.  An empty one is a Continue or a success and not a case of
\* its own.
FitsNodeId_Unchecked(exp) == TRUE

FitsNodeId(exp) == count + Len(exp) <= MaxNodes

DuplicateBinding(exp) ==
  \/ \E i \in DOMAIN exp : \E t \in exp[i].binds : bindings[t] # NoNode
  \/ \E i, j \in DOMAIN exp : i # j /\ exp[i].binds \cap exp[j].binds # {}

\* A token names a node bound earlier in the graph, else an earlier node of
\* the same expansion.
CycleThroughToken(n, exp) ==
  \E i \in DOMAIN exp : \E t \in exp[i].tokens : bindings[t] \in FinishDependents(n)

UnboundToken(exp) ==
  \E i \in DOMAIN exp : \E t \in exp[i].tokens :
     bindings[t] = NoNode /\ \A j \in 1 .. i - 1 : t \notin exp[j].binds

Rejected(n, exp) ==
  \/ ~FitsNodeId(exp)
  \/ DuplicateBinding(exp)
  \/ CycleThroughToken(n, exp)
  \/ UnboundToken(exp)

GlobalId(i) == count + i - 1
LocalId(x)  == x - count + 1
NewIds(exp) == {GlobalId(i) : i \in DOMAIN exp}

\* The dependencies of the new node x: those in the expansion, and the nodes its
\* tokens name.
ResolvedDeps(exp, x) ==
  LET i == LocalId(x)
  IN {GlobalId(j) : j \in exp[i].after}
       \cup {bindings[t] : t \in {u \in exp[i].tokens : bindings[u] # NoNode}}
       \cup {GlobalId(j) : j \in {k \in 1 .. i - 1 :
                \E t \in exp[i].tokens : bindings[t] = NoNode /\ t \in exp[k].binds}}

\* The new node x is recorded as a dependent of everything it still waits for.
Outstanding(exp, x) ==
  {d \in ResolvedDeps(exp, x) : d >= count \/ state[d] # "Succeeded"}

\* The new nodes no other new node waits for: their ends are the parent's.
Leaves(exp) ==
  {x \in NewIds(exp) : \A y \in NewIds(exp) : x \notin ResolvedDeps(exp, y)}

\* New nodes that depend on one that failed or was cancelled before.
Blocked(exp) ==
  {x \in NewIds(exp) : \E d \in ResolvedDeps(exp, x) : d < count /\ state[d] \in Bad}

\* The graph with the new nodes in it and n waiting for their leaves.
InstalledState(n, exp) ==
  [x \in Node |-> IF x \in NewIds(exp) THEN "Pending"
                  ELSE IF x = n THEN "Waiting" ELSE state[x]]

InstalledDependents(exp) ==
  [x \in Node |-> dependents[x] \cup {y \in NewIds(exp) : x \in Outstanding(exp, y)}]

InstalledWaiters(n, exp) ==
  [x \in Node |-> IF x \in Leaves(exp) THEN {n} ELSE waiters[x]]

\* The task returns exp; with then it also returns the task to resume with.
Expand(n, exp, then) ==
  LET dead == Doomed(Blocked(exp), InstalledState(n, exp),
                     InstalledDependents(exp), InstalledWaiters(n, exp))
  IN /\ Finishing(n)
     /\ ~Rejected(n, exp)
     /\ count' = count + Len(exp)
     /\ remaining' = [x \in Node |-> IF x \in NewIds(exp)
                        THEN Cardinality(Outstanding(exp, x)) ELSE remaining[x]]
     /\ state' = [x \in Node |->
          IF x \in NewIds(exp) \ dead /\ Outstanding(exp, x) = {} THEN "Ready"
          ELSE AfterFailure(dead, InstalledState(n, exp))[x]]
     /\ dependents' = InstalledDependents(exp)
     /\ waiters' = WithoutWaiters(dead, InstalledWaiters(n, exp))
     /\ waitingLeft' = [waitingLeft EXCEPT ![n] = Cardinality(Leaves(exp))]
     /\ resume' = (IF then THEN resume \cup {n} ELSE resume) \ dead
     /\ unresolved' = Resolve(unresolved + Len(exp), dead)
     /\ bindings' = [t \in Token |-> IF \E i \in DOMAIN exp : t \in exp[i].binds
                       THEN GlobalId(CHOOSE i \in DOMAIN exp : t \in exp[i].binds)
                       ELSE bindings[t]]
     /\ deps' = [x \in Node |-> IF x \in NewIds(exp) THEN ResolvedDeps(exp, x) ELSE deps[x]]
     /\ parent' = [x \in Node |-> IF x \in NewIds(exp) THEN n ELSE parent[x]]
     /\ UNCHANGED <<phase, continues>>

\* An expansion that breaks the token rules, or would need more node ids than
\* there are, ends the whole batch with an error; the graph is not touched.
RejectExpansion(n, exp) ==
  /\ Finishing(n)
  /\ Rejected(n, exp)
  /\ phase' = "aborted"
  /\ UNCHANGED <<count, state, remaining, dependents, waiters, waitingLeft,
                 resume, unresolved, bindings, continues, deps, parent>>

\* run_graph leaves its loop when nothing is unresolved.
Return ==
  /\ phase = "running"
  /\ unresolved = 0
  /\ phase' = "returned"
  /\ UNCHANGED <<count, state, remaining, dependents, waiters, waitingLeft,
                 resume, unresolved, bindings, continues, deps, parent>>

\* The graph is dropped; nothing follows.
Over == phase \in {"returned", "aborted"} /\ UNCHANGED vars

Finish(n) ==
  \/ FinishSucceeded(n)
  \/ FinishFailed(n)
  \/ FinishCancelled(n)
  \/ Continue(n)
  \/ \E exp \in Expansions, then \in BOOLEAN : Expand(n, exp, then)
  \/ \E exp \in Expansions : RejectExpansion(n, exp)

Next ==
  \/ \E ds \in SUBSET Existing : AddTask(ds)
  \/ Start
  \/ \E n \in Node : MarkRunning(n)
  \/ \E n \in Node : Finish(n)
  \/ Return
  \/ Over

Spec == Init /\ [][Next]_vars

\* The coordinator keeps dispatching while something is ready, every dispatched
\* task reports a result, and the loop ends when nothing is unresolved.
Fairness ==
  /\ WF_vars(Start)
  /\ WF_vars(\E n \in Node : MarkRunning(n))
  /\ \A n \in Node : WF_vars(Finish(n))
  /\ WF_vars(Return)

FairSpec == Spec /\ Fairness

-----------------------------------------------------------------------------
\* Every variable keeps its type.
TypeOK ==
  /\ phase \in {"building", "running", "returned", "aborted"}
  /\ count \in 0 .. MaxNodes
  /\ state \in [Node -> {"Absent", "Pending", "Ready", "Running", "Waiting"} \cup Terminal]
  /\ remaining \in [Node -> Nat]
  /\ dependents \in [Node -> SUBSET Node]
  /\ waiters \in [Node -> SUBSET Node]
  /\ waitingLeft \in [Node -> Nat]
  /\ resume \in SUBSET Node
  /\ unresolved \in Nat
  /\ bindings \in [Token -> Node \cup {NoNode}]
  /\ continues \in 0 .. MaxContinues
  /\ deps \in [Node -> SUBSET Node]
  /\ parent \in [Node -> Node \cup {NoNode}]

\* The counter run_graph loops on is the number of nodes that have not ended:
\* no cascade counts a node twice or forgets one.
UnresolvedExact ==
  unresolved = Cardinality({n \in Existing : state[n] \notin Terminal})

\* A node that was offered for execution has only succeeded dependencies, also
\* after retries, token dependencies and failures elsewhere in the graph.
DependenciesFirst ==
  \A n \in Existing : state[n] \in {"Ready", "Running", "Waiting", "Succeeded"} =>
    \A d \in deps[n] : state[d] = "Succeeded"

\* finish_failed and cancel_node reach every node that can no longer run: a
\* pending node has no failed or cancelled dependency.
FailureReachesDependents ==
  \A n \in Existing : state[n] = "Pending" =>
    \A d \in deps[n] : state[d] \notin Bad

\* A parent counts as succeeded, or resumes with its next task, only after every
\* node of its expansion succeeded, not only the leaves it is told about; while it
\* waits its count is the number of leaves that still report to it, at least one.
ParentAfterChildren ==
  /\ \A c \in Existing :
       (parent[c] # NoNode /\ state[parent[c]] \in {"Succeeded", "Ready", "Running"})
          => state[c] = "Succeeded"
  /\ \A p \in Existing : state[p] = "Waiting" =>
       /\ waitingLeft[p] = Cardinality({c \in Existing : p \in waiters[c]})
       /\ \E c \in Existing : p \in waiters[c] /\ state[c] \notin Terminal

\* A node that ended never changes again, whatever reports late.
TerminalIsFinal ==
  [][\A n \in Node : state[n] \in Terminal => state'[n] = state[n]]_vars

\* Nothing cancels a node that is in the ready queue: cancel_node would accept
\* one, but no cascade reaches it.
ReadyIsDispatched ==
  [][\A n \in Node : state[n] = "Ready" => state'[n] \in {"Ready", "Running"}]_vars

\* Every started batch ends, with all nodes resolved or with the error of a
\* rejected expansion.
BatchResolves == (phase = "running") ~> (phase \in {"returned", "aborted"})
=============================================================================
