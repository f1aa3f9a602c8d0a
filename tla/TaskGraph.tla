----------------------------- MODULE TaskGraph ------------------------------
(* The task graph runner, crates/agent-core/src/task_graph.rs: it validates  *)
(* the graph and then alternates between spawning every node that is ready   *)
(* and activated, each behind a semaphore permit, and joining one finished   *)
(* node.  The nodes run concurrently with the runner.  A node's run is       *)
(* spawn_and_wait of module Subagents: it returns an answer or an error.     *)
EXTENDS Naturals, FiniteSets, FiniteSetTheorems, TLAPS

CONSTANTS
    Ids,            \* names of nodes; a graph may mention names it does not define
    Graphs,         \* the graphs a caller may submit
    MaxConcurrent,  \* max_concurrent
    MayPanic,       \* the nodes whose task may be lost to a join error
    None            \* no input_from

\* node ids (the names more than one node has, and whether one has none, beside them),
\* depends_on, on_success, on_failure and input_from of each node.
GraphType ==
    [nodes : SUBSET Ids, shared : SUBSET Ids, unnamed : BOOLEAN,
     dependsOn : [Ids -> SUBSET Ids], onSuccess : [Ids -> SUBSET Ids],
     onFailure : [Ids -> SUBSET Ids], inputFrom : [Ids -> Ids \cup {None}]]

ASSUME IdsAssumption == IsFiniteSet(Ids)
ASSUME GraphsAssumption == Graphs \subseteq GraphType
ASSUME MaxConcurrentAssumption == MaxConcurrent \in Nat
ASSUME NoneAssumption == None \notin Ids

VARIABLES
    graph,      \* the submitted graph
    phase,      \* where the runner is
    toSpawn,    \* to_spawn: the nodes of this round not yet spawned
    completed, failed, activated, inFlight,   \* the runner's sets
    node,       \* what each node's task is doing
    permits,    \* free permits of the semaphore
    input       \* what resolve_input gave each node

vars == <<graph, phase, toSpawn, completed, failed, activated, inFlight, node, permits, input>>
runnerSets == <<completed, failed, activated>>

-----------------------------------------------------------------------------
(* TaskGraph::validate.                                                     *)

\* Every node has a name, and no other node has it.
HasOwnNames(g) == g.shared = {} /\ ~g.unnamed

\* Mutant: only depends_on is looked up.
KnowsItsDependencies(g) == \A n \in g.nodes : g.dependsOn[n] \subseteq g.nodes

\* Every name a node mentions is the name of a node.
KnowsItsNames(g) ==
    \A n \in g.nodes :
        /\ g.dependsOn[n] \cup g.onSuccess[n] \cup g.onFailure[n] \subseteq g.nodes
        /\ g.inputFrom[n] \in g.nodes \cup {None}

\* The nodes the work list has visited after k rounds: a node is visited once all
\* its dependencies are.
Visited(g) ==
    LET rounds[k \in 0 .. Cardinality(g.nodes)] ==
            IF k = 0 THEN {}
            ELSE {n \in g.nodes : g.dependsOn[n] \subseteq rounds[k - 1]}
    IN  rounds[Cardinality(g.nodes)]

Valid(g) == HasOwnNames(g) /\ KnowsItsNames(g) /\ Visited(g) = g.nodes

\* Init: a graph has been submitted and the runner's sets are empty.
Init ==
    /\ graph \in Graphs
    /\ phase = "validate"
    /\ toSpawn = {} /\ completed = {} /\ failed = {} /\ activated = {} /\ inFlight = {}
    /\ node = [n \in Ids |-> "idle"]
    /\ permits = IF MaxConcurrent < 1 THEN 1 ELSE MaxConcurrent
    /\ input = [n \in Ids |-> "none"]

\* validate, then seed the activated set with the roots.
Validate ==
    /\ phase = "validate"
    /\ IF Valid(graph)
       THEN /\ activated' = {n \in graph.nodes : graph.dependsOn[n] = {}}
            /\ phase' = "collect"
       ELSE /\ phase' = "rejected"
            /\ UNCHANGED activated
    /\ UNCHANGED <<graph, toSpawn, completed, failed, inFlight, node, permits, input>>

-----------------------------------------------------------------------------
(* TaskGraphRunner::run, the loop.                                          *)

\* Mutant: a dependency that failed counts as done.
ReadyAfterFailure ==
    {n \in graph.nodes : n \notin completed \cup failed /\ graph.dependsOn[n] \subseteq completed \cup failed}

\* Mutant: a failed node is ready again.
ReadyDespiteFailure == {n \in graph.nodes : n \notin completed /\ graph.dependsOn[n] \subseteq completed}

\* ready_nodes: not finished, and every dependency has succeeded.
ReadyNodes == {n \in graph.nodes : n \notin completed \cup failed /\ graph.dependsOn[n] \subseteq completed}

\* Mutant: activation is not looked at.
CollectUnactivated == ReadyNodes \ inFlight

Collected == (ReadyNodes \cap activated) \ inFlight

\* resolve_input: a node it should read from may not have an output yet.
ResolveInput(n) ==
    IF graph.inputFrom[n] = None THEN "given"
    ELSE IF graph.inputFrom[n] \in completed THEN "output" ELSE "empty"

Collect ==
    /\ phase = "collect"
    /\ toSpawn' = Collected
    /\ input' = [n \in Ids |-> IF n \in Collected THEN ResolveInput(n) ELSE input[n]]
    /\ phase' = "spawn"
    /\ UNCHANGED <<graph, runnerSets, inFlight, node, permits>>

\* Mutant: the permit is not taken along.
SpawnWithoutPermit(n) ==
    /\ phase = "spawn" /\ n \in toSpawn /\ permits > 0
    /\ toSpawn' = toSpawn \ {n}
    /\ inFlight' = inFlight \cup {n}
    /\ node' = [node EXCEPT ![n] = "running"]
    /\ UNCHANGED <<graph, phase, runnerSets, permits, input>>

\* Mutant: the spawn does not wait for a permit.
SpawnUnguarded(n) ==
    /\ phase = "spawn" /\ n \in toSpawn
    /\ permits' = permits - 1
    /\ toSpawn' = toSpawn \ {n}
    /\ inFlight' = inFlight \cup {n}
    /\ node' = [node EXCEPT ![n] = "running"]
    /\ UNCHANGED <<graph, phase, runnerSets, input>>

\* acquire_owned waits for a permit while nobody joins; the node's task holds it.
SpawnNode(n) ==
    /\ phase = "spawn" /\ n \in toSpawn /\ permits > 0
    /\ permits' = permits - 1
    /\ toSpawn' = toSpawn \ {n}
    /\ inFlight' = inFlight \cup {n}
    /\ node' = [node EXCEPT ![n] = "running"]
    /\ UNCHANGED <<graph, phase, runnerSets, input>>

\* The round is spawned: stop if the join set is empty, else wait for a task.
EndSpawn ==
    /\ phase = "spawn" /\ toSpawn = {}
    /\ phase' = IF inFlight = {} THEN "done" ELSE "join"
    /\ UNCHANGED <<graph, toSpawn, runnerSets, inFlight, node, permits, input>>

\* A node's task ends and its permit is released; the result waits in the join set.
NodeEnds(n) ==
    /\ node[n] = "running"
    /\ \E r \in {"ok", "err"} \cup (IF n \in MayPanic THEN {"panic"} ELSE {}) :
          node' = [node EXCEPT ![n] = r]
    /\ permits' = permits + 1
    /\ UNCHANGED <<graph, phase, toSpawn, runnerSets, inFlight, input>>

\* Mutant: joining a node forgets to go round again.
JoinOkAndWait(n) ==
    /\ phase = "join" /\ n \in inFlight /\ node[n] = "ok"
    /\ inFlight' = inFlight \ {n}
    /\ activated' = activated \cup graph.onSuccess[n]
    /\ completed' = completed \cup {n}
    /\ phase' = IF inFlight' = {} THEN "done" ELSE "join"
    /\ UNCHANGED <<graph, toSpawn, failed, node, permits, input>>

\* join_next, success: its on_success nodes become eligible.
JoinOk(n) ==
    /\ phase = "join" /\ n \in inFlight /\ node[n] = "ok"
    /\ inFlight' = inFlight \ {n}
    /\ activated' = activated \cup graph.onSuccess[n]
    /\ completed' = completed \cup {n}
    /\ phase' = "collect"
    /\ UNCHANGED <<graph, toSpawn, failed, node, permits, input>>

\* Mutant: a failed node is not remembered, so it is ready again.
JoinErrForgotten(n) ==
    /\ phase = "join" /\ n \in inFlight /\ node[n] = "err"
    /\ inFlight' = inFlight \ {n}
    /\ node' = [node EXCEPT ![n] = "idle"]
    /\ activated' = activated \cup graph.onFailure[n]
    /\ phase' = "collect"
    /\ UNCHANGED <<graph, toSpawn, completed, failed, permits, input>>

\* join_next, failure: its on_failure nodes become eligible.
JoinErr(n) ==
    /\ phase = "join" /\ n \in inFlight /\ node[n] = "err"
    /\ inFlight' = inFlight \ {n}
    /\ activated' = activated \cup graph.onFailure[n]
    /\ failed' = failed \cup {n}
    /\ phase' = "collect"
    /\ UNCHANGED <<graph, toSpawn, completed, node, permits, input>>

\* A join error ends the run; dropping the join set aborts the other node tasks.
JoinPanic(n) ==
    /\ phase = "join" /\ n \in inFlight /\ node[n] = "panic"
    /\ phase' = "error"
    /\ node' = [x \in Ids |-> IF node[x] = "running" THEN "aborted" ELSE node[x]]
    /\ permits' = permits + Cardinality({x \in Ids : node[x] = "running"})
    /\ UNCHANGED <<graph, toSpawn, runnerSets, inFlight, input>>

Returned == phase \in {"done", "rejected", "error"}

Quiescent == Returned /\ UNCHANGED vars

Runner == Validate \/ Collect \/ (\E n \in Ids : SpawnNode(n)) \/ EndSpawn
          \/ \E n \in Ids : JoinOk(n) \/ JoinErr(n) \/ JoinPanic(n)

Next == Runner \/ (\E n \in Ids : NodeEnds(n)) \/ Quiescent

Spec == Init /\ [][Next]_vars

\* The runner and the node tasks are scheduled; every node's run ends (its
\* subagent has a timeout).
Fairness == WF_vars(Runner) /\ \A n \in Ids : WF_vars(NodeEnds(n))

FairSpec == Spec /\ Fairness

-----------------------------------------------------------------------------
NodeStates == {"idle", "running", "ok", "err", "panic", "aborted"}

TypeOK ==
    /\ graph \in GraphType
    /\ phase \in {"validate", "rejected", "collect", "spawn", "join", "done", "error"}
    /\ toSpawn \subseteq Ids /\ completed \subseteq Ids /\ failed \subseteq Ids
    /\ activated \subseteq Ids /\ inFlight \subseteq Ids
    /\ node \in [Ids -> NodeStates]
    /\ permits \in Nat
    /\ input \in [Ids -> {"none", "given", "output", "empty"}]

\* No set of nodes in which everybody depends on somebody of the set.
Acyclic(g) ==
    \A S \in SUBSET g.nodes : S # {} => \E n \in S : g.dependsOn[n] \cap S = {}

\* validate refuses exactly the graphs with a missing, a repeated or an unknown name
\* or a dependency cycle (its work list is checked against the definition of a cycle).
ValidateIsExact ==
    /\ phase = "rejected" => ~(HasOwnNames(graph) /\ KnowsItsNames(graph) /\ Acyclic(graph))
    /\ phase \notin {"rejected", "validate"} =>
          /\ HasOwnNames(graph) /\ Acyclic(graph)
          /\ \A n \in graph.nodes : graph.onSuccess[n] \cup graph.onFailure[n] \subseteq graph.nodes

\* A node is started only when every node it depends on has succeeded, and nothing
\* that finishes later takes that back.
DependenciesFirst ==
    \A n \in Ids : node[n] # "idle" \/ n \in toSpawn => graph.dependsOn[n] \subseteq completed

\* No node is started twice, whatever activates it again while it runs or after.
StartedOnce == [][\A n \in Ids : node[n] # "idle" => node'[n] # "running" \/ node[n] = "running"]_vars

\* A node is a root, or a node that names it ended the way the link asks for.
HasReason(n) ==
    \/ graph.dependsOn[n] = {}
    \/ \E c \in completed : n \in graph.onSuccess[c]
    \/ \E f \in failed : n \in graph.onFailure[f]

\* A node runs only because it is a root or because a node that names it ended
\* the way the link asks for.
StartedForAReason == \A n \in Ids : node[n] # "idle" => HasReason(n)

\* At most max_concurrent nodes run at a time, and every permit comes back.
PermitsConserved ==
    permits + Cardinality({n \in Ids : node[n] = "running"})
    = IF MaxConcurrent < 1 THEN 1 ELSE MaxConcurrent

\* The runner does not stop early: when it is done, no activated node is ready.
NothingReadyIsLeft == phase = "done" => ReadyNodes \cap activated = {}

\* The run ends, also when it waits for a permit while finished nodes wait to be
\* joined.
RunEnds == <>Returned

\* The runner keeps its books (TaskGraphRunner::run): it refuses exactly the bad graphs,
\* gets every permit back, and stops only when nothing is left to start.
RunnerInv == TypeOK /\ ValidateIsExact /\ PermitsConserved /\ NothingReadyIsLeft

-----------------------------------------------------------------------------
(* The instances that TLC checks.                                            *)

NoLinks == [n \in Ids |-> {}]

NoInput == [n \in Ids |-> None]

Graph(nodes, deps, ok, err, inp) ==
    [nodes |-> nodes, shared |-> {}, unnamed |-> FALSE,
     dependsOn |-> deps, onSuccess |-> ok, onFailure |-> err, inputFrom |-> inp]

Dependents(deps) == [n \in Ids |-> {d \in Ids : n \in deps[d]}]

\* Every dependency relation on three names, cyclic ones included, with each node
\* activating its dependents; once with a name that is not a node.
AllDependencies ==
    {Graph(nodes, deps, Dependents(deps), NoLinks, NoInput) :
        nodes \in {Ids, Ids \ {"c"}}, deps \in [Ids -> SUBSET Ids]}

\* The acyclic ones along the order a, b, c with every pair of success and
\* failure links out of a and b.
Ordered == {deps \in [Ids -> SUBSET Ids] : deps["a"] = {} /\ deps["b"] \subseteq {"a"} /\ "c" \notin deps["c"]}

Branching ==
    {Graph(Ids, deps, [NoLinks EXCEPT !["a"] = s], [NoLinks EXCEPT !["a"] = f, !["b"] = g], NoInput) :
        deps \in Ordered, s \in SUBSET {"b", "c"}, f \in SUBSET Ids, g \in SUBSET {"a", "c"}}

\* b reads the output of a without depending on it.
Reading == {Graph({"a", "b"}, NoLinks, NoLinks, NoLinks, [NoInput EXCEPT !["b"] = "a"])}

\* Two nodes are called a, a node has no name, or both.
Misnamed ==
    {[Graph({"a", "b"}, NoLinks, NoLinks, NoLinks, NoInput) EXCEPT !.shared = s, !.unnamed = u] :
        s \in SUBSET {"a"}, u \in BOOLEAN}

MCGraphs == AllDependencies \cup Branching \cup Reading \cup Misnamed

-----------------------------------------------------------------------------
(* Proofs about TaskGraph: the scheduling order, for every graph and every   *)
(* concurrency limit.                                                        *)

\* Every activated node is a root, or was named by a node that ended that way.
ActivatedForAReason == \A n \in activated : HasReason(n)

\* A node that was ever started is in flight or joined, so it is never collected
\* again; what is collected and not yet spawned is idle and was activated for a reason.
StartedIsRemembered ==
    /\ \A n \in Ids : node[n] # "idle" => n \in completed \cup failed \cup inFlight
    /\ \A n \in toSpawn : n \in Ids /\ node[n] = "idle" /\ HasReason(n)

\* The inductive invariant of the scheduler.
SchedulerInv ==
    /\ node \in [Ids -> NodeStates]
    /\ graph \in GraphType
    /\ ActivatedForAReason /\ StartedIsRemembered /\ DependenciesFirst /\ StartedForAReason

\* A step of one node's task or of one join leaves what was collected alone.
LEMMA SchedulerStep ==
    ASSUME SchedulerInv, [Next]_vars
    PROVE  SchedulerInv'
  <1> USE DEF SchedulerInv, HasReason
  <1>1. CASE Validate
    <2>1. UNCHANGED <<graph, toSpawn, completed, failed, inFlight, node>>
      BY <1>1 DEF Validate
    <2>2. \A n \in activated' : graph.dependsOn[n] = {} \/ n \in activated
      BY <1>1 DEF Validate
    <2> QED BY <2>1, <2>2 DEF ActivatedForAReason, StartedIsRemembered, DependenciesFirst, StartedForAReason
  <1>2. CASE Collect
    <2>1. UNCHANGED <<graph, completed, failed, activated, inFlight, node>> /\ toSpawn' = Collected
      BY <1>2 DEF Collect, runnerSets
    <2>2. \A n \in Collected : /\ n \in Ids /\ n \notin completed \cup failed \cup inFlight
                               /\ n \in activated /\ graph.dependsOn[n] \subseteq completed
      BY DEF Collected, ReadyNodes, GraphType
    <2> QED BY <2>1, <2>2 DEF ActivatedForAReason, StartedIsRemembered, DependenciesFirst, StartedForAReason
  <1>3. ASSUME NEW n \in Ids, SpawnNode(n) PROVE SchedulerInv'
    <2>1. /\ UNCHANGED <<graph, completed, failed, activated>> /\ n \in toSpawn
          /\ toSpawn' = toSpawn \ {n} /\ inFlight' = inFlight \cup {n}
          /\ node' = [node EXCEPT ![n] = "running"]
      BY <1>3 DEF SpawnNode, runnerSets
    <2> QED BY <2>1 DEF ActivatedForAReason, StartedIsRemembered, DependenciesFirst, StartedForAReason, NodeStates
  <1>4. CASE EndSpawn
    BY <1>4 DEF EndSpawn, runnerSets, ActivatedForAReason, StartedIsRemembered, DependenciesFirst, StartedForAReason
  <1>5. ASSUME NEW n \in Ids, NodeEnds(n) PROVE SchedulerInv'
    <2>1. /\ UNCHANGED <<graph, completed, failed, activated, toSpawn, inFlight>> /\ node[n] = "running"
          /\ \E r \in {"ok", "err", "panic"} : node' = [node EXCEPT ![n] = r]
      BY <1>5 DEF NodeEnds, runnerSets
    <2> QED BY <2>1 DEF ActivatedForAReason, StartedIsRemembered, DependenciesFirst, StartedForAReason, NodeStates
  <1>6. ASSUME NEW n \in Ids, JoinOk(n) PROVE SchedulerInv'
    <2>1. /\ UNCHANGED <<graph, toSpawn, failed, node>> /\ inFlight' = inFlight \ {n}
          /\ activated' = activated \cup graph.onSuccess[n] /\ completed' = completed \cup {n}
      BY <1>6 DEF JoinOk
    <2> QED BY <2>1 DEF ActivatedForAReason, StartedIsRemembered, DependenciesFirst, StartedForAReason
  <1>7. ASSUME NEW n \in Ids, JoinErr(n) PROVE SchedulerInv'
    <2>1. /\ UNCHANGED <<graph, toSpawn, completed, node>> /\ inFlight' = inFlight \ {n}
          /\ activated' = activated \cup graph.onFailure[n] /\ failed' = failed \cup {n}
      BY <1>7 DEF JoinErr
    <2> QED BY <2>1 DEF ActivatedForAReason, StartedIsRemembered, DependenciesFirst, StartedForAReason
  <1>8. ASSUME NEW n \in Ids, JoinPanic(n) PROVE SchedulerInv'
    <2>1. /\ UNCHANGED <<graph, toSpawn, completed, failed, activated, inFlight>>
          /\ node' = [x \in Ids |-> IF node[x] = "running" THEN "aborted" ELSE node[x]]
      BY <1>8 DEF JoinPanic, runnerSets
    <2>2. \A x \in Ids : (node'[x] = "idle" <=> node[x] = "idle") /\ node'[x] \in NodeStates
      BY <2>1 DEF NodeStates
    <2>3. node' \in [Ids -> NodeStates]
      BY <2>1, <2>2
    <2> QED BY <2>1, <2>2, <2>3 DEF ActivatedForAReason, StartedIsRemembered, DependenciesFirst, StartedForAReason
  <1>9. CASE UNCHANGED vars
    BY <1>9 DEF vars, ActivatedForAReason, StartedIsRemembered, DependenciesFirst, StartedForAReason
  <1> QED BY <1>1, <1>2, <1>3, <1>4, <1>5, <1>6, <1>7, <1>8, <1>9 DEF Next, Runner, Quiescent

\* The scheduler invariant holds in every reachable state.
LEMMA SchedulerInvariant == Spec => []SchedulerInv
  <1>1. Init => SchedulerInv
    BY GraphsAssumption DEF Init, SchedulerInv, NodeStates, ActivatedForAReason, StartedIsRemembered,
       DependenciesFirst, StartedForAReason
  <1> QED BY <1>1, SchedulerStep, PTL DEF Spec

\* For every graph, a node is started only after all its dependencies succeeded.
THEOREM DependenciesRespected == Spec => []DependenciesFirst
  <1>1. SchedulerInv => DependenciesFirst
    BY DEF SchedulerInv
  <1> QED BY <1>1, SchedulerInvariant, PTL

\* For every graph, a node is started only as a root or along a link whose source
\* ended the way the link asks for.
THEOREM ActivationRespected == Spec => []StartedForAReason
  <1>1. SchedulerInv => StartedForAReason
    BY DEF SchedulerInv
  <1> QED BY <1>1, SchedulerInvariant, PTL

\* For every graph, no node is started twice.
THEOREM NodesStartOnce == Spec => StartedOnce
  <1>1. ASSUME SchedulerInv, [Next]_vars
        PROVE  [\A n \in Ids : node[n] # "idle" => node'[n] # "running" \/ node[n] = "running"]_vars
    <2>1. ASSUME NEW n \in Ids, node[n] # "idle", node'[n] = "running" PROVE node[n] = "running"
      <3>1. ASSUME NEW x \in Ids, SpawnNode(x) PROVE node[n] = "running"
        BY <2>1, <3>1, <1>1 DEF SpawnNode, SchedulerInv, StartedIsRemembered
      <3>2. ASSUME NEW x \in Ids, NodeEnds(x) PROVE node[n] = "running"
        BY <2>1, <3>2, <1>1 DEF NodeEnds, SchedulerInv
      <3>3. ASSUME NEW x \in Ids, JoinPanic(x) PROVE node[n] = "running"
        BY <2>1, <3>3, <1>1 DEF JoinPanic, SchedulerInv
      <3>4. CASE node' = node
        BY <2>1, <3>4
      <3> QED BY <1>1, <3>1, <3>2, <3>3, <3>4
              DEF Next, Runner, Validate, Collect, EndSpawn, JoinOk, JoinErr, Quiescent, vars
    <2> QED BY <2>1
  <1> QED BY <1>1, SchedulerInvariant, PTL DEF Spec, StartedOnce

-----------------------------------------------------------------------------
(* validate is exact.  Its work list is a recursive function; the facts      *)
(* about it go by the least counterexample, the form of induction that       *)
(* speaks of a set and not of a predicate.                                   *)

\* Every set of naturals that is not empty has a least element.
LEMMA LeastNatural == ASSUME NEW T, T \subseteq Nat, T # {} PROVE \E x \in T : \A y \in T : x <= y
  <1> DEFINE R == {ss \in Nat \X Nat : ss[1] < ss[2]}
  <1>1. IsWellFoundedOn(R, Nat)
    BY NatLessThanWellFounded, Zenon DEF OpToRel
  <1> HIDE DEF R
  <1>2. \E x \in T : \A y \in T : ~(<<y, x>> \in R)
    BY <1>1, WFMin, Zenon
  <1>3. ASSUME NEW x \in T, NEW y \in T, ~(<<y, x>> \in R) PROVE x <= y
    <2>1. <<y, x>> \in Nat \X Nat
      OBVIOUS
    <2>2. ~(y < x)
      BY <2>1, <1>3 DEF R
    <2> QED BY <2>2
  <1> QED BY <1>2, <1>3

\* f lists the nodes visited after 0, 1, ..., m rounds of the work list.
AreRounds(g, m, f) ==
    f = [k \in 0..m |-> IF k = 0 THEN {} ELSE {n \in g.nodes : g.dependsOn[n] \subseteq f[k - 1]}]

\* What a round visits, from the round before.
LEMMA RoundAt ==
    ASSUME NEW g, NEW N \in Nat, NEW f, AreRounds(g, N, f)
    PROVE  /\ f[0] = {}
           /\ \A k \in 1..N : \A n : n \in f[k] <=> n \in g.nodes /\ g.dependsOn[n] \subseteq f[k - 1]
  <1> DEFINE Visit(k) == IF k = 0 THEN {} ELSE {n \in g.nodes : g.dependsOn[n] \subseteq f[k - 1]}
  <1>1. f = [k \in 0..N |-> Visit(k)]
    BY Zenon DEF AreRounds
  <1> HIDE DEF Visit
  <1>2. \A k \in 0..N : f[k] = Visit(k)
    BY <1>1
  <1>3. f[0] = Visit(0) /\ \A k \in 1..N : k # 0 /\ f[k] = Visit(k)
    BY <1>2
  <1> QED BY <1>3, Zenon DEF Visit

\* There are rounds of every length.
LEMMA RoundsExist == ASSUME NEW g, NEW N \in Nat PROVE \E f : AreRounds(g, N, f)
  <1> DEFINE Bad == {m \in Nat : ~ \E f : AreRounds(g, m, f)}
  <1>1. ASSUME Bad # {} PROVE FALSE
    <2>1. PICK m \in Bad : \A k \in Bad : m <= k
      <3> HIDE DEF Bad
      <3>1. Bad \subseteq Nat
        BY DEF Bad
      <3> QED BY <1>1, <3>1, LeastNatural
    <2>2. m # 0
      <3> DEFINE f == [k \in 0..0 |-> {}]
      <3>1. f = [k \in 0..0 |-> IF k = 0 THEN {} ELSE {n \in g.nodes : g.dependsOn[n] \subseteq f[k - 1]}]
        OBVIOUS
      <3>2. AreRounds(g, 0, f)
        BY <3>1 DEF AreRounds
      <3> QED BY <3>2
    <2>3. m \in Nat /\ m - 1 \in Nat /\ m - 1 \notin Bad
      BY <2>1, <2>2
    <2>4. PICK f : AreRounds(g, m - 1, f)
      BY <2>3
    <2> DEFINE h == [k \in 0..m |-> IF k < m THEN f[k] ELSE {n \in g.nodes : g.dependsOn[n] \subseteq f[m - 1]}]
    <2>5. ASSUME NEW k \in 0..m
          PROVE  h[k] = IF k = 0 THEN {} ELSE {n \in g.nodes : g.dependsOn[n] \subseteq h[k - 1]}
      <3>1. CASE k < m /\ k # 0
        <4>1. h[k] = f[k] /\ h[k - 1] = f[k - 1]
          BY <2>3, <3>1
        <4>2. k \in 1..(m - 1)
          BY <2>3, <3>1
        <4>3. f[k] = {n \in g.nodes : g.dependsOn[n] \subseteq f[k - 1]}
          BY <2>3, <2>4, <4>2, RoundAt
        <4> HIDE DEF h
        <4> QED BY <3>1, <4>1, <4>3, Zenon
      <3>2. CASE k < m /\ k = 0
        BY <2>3, <2>4, <3>2, RoundAt
      <3>3. CASE k = m
        <4>1. h[k] = {n \in g.nodes : g.dependsOn[n] \subseteq f[m - 1]} /\ h[k - 1] = f[m - 1]
          BY <2>3, <3>3
        <4> HIDE DEF h
        <4> QED BY <2>2, <3>3, <4>1, Zenon
      <3> QED BY <2>3, <3>1, <3>2, <3>3
    <2>6. h = [k \in 0..m |-> IF k = 0 THEN {} ELSE {n \in g.nodes : g.dependsOn[n] \subseteq h[k - 1]}]
      <3> HIDE DEF h
      <3>1. h = [k \in 0..m |-> h[k]]
        BY DEF h
      <3> QED BY <2>5, <3>1
    <2>7. AreRounds(g, m, h)
      BY <2>6 DEF AreRounds
    <2> QED BY <2>1, <2>7
  <1> QED BY <1>1

\* Visited is the last of the rounds of the work list.
LEMMA VisitedByRounds ==
    ASSUME NEW g, Cardinality(g.nodes) \in Nat
    PROVE  \E f : AreRounds(g, Cardinality(g.nodes), f) /\ Visited(g) = f[Cardinality(g.nodes)]
  <1> DEFINE N == Cardinality(g.nodes)
  <1> DEFINE h == CHOOSE f : f = [k \in 0..N |->
                     IF k = 0 THEN {} ELSE {n \in g.nodes : g.dependsOn[n] \subseteq f[k - 1]}]
  <1>1. Visited(g) = h[N]
    BY Zenon DEF Visited
  <1>2. \E f : f = [k \in 0..N |-> IF k = 0 THEN {} ELSE {n \in g.nodes : g.dependsOn[n] \subseteq f[k - 1]}]
    <2> HIDE DEF N
    <2>1. N \in Nat
      BY DEF N
    <2>2. \E f : AreRounds(g, N, f)
      BY <2>1, RoundsExist, Zenon
    <2> QED BY <2>2, Zenon DEF AreRounds
  <1>3. h = [k \in 0..N |-> IF k = 0 THEN {} ELSE {n \in g.nodes : g.dependsOn[n] \subseteq h[k - 1]}]
    BY <1>2, Zenon
  <1>4. AreRounds(g, N, h)
    BY <1>3, Zenon DEF AreRounds
  <1> QED BY <1>1, <1>4

\* No round visits a node of a set in which everybody waits for somebody of the set.
LEMMA CycleIsNotVisited ==
    ASSUME NEW g, NEW N \in Nat, NEW f, AreRounds(g, N, f),
           NEW S, \A n \in S : \E d \in S : d \in g.dependsOn[n]
    PROVE  \A k \in 0..N : \A n \in S : n \notin f[k]
  <1>0. /\ f[0] = {}
        /\ \A k \in 1..N : \A n : n \in f[k] <=> n \in g.nodes /\ g.dependsOn[n] \subseteq f[k - 1]
    BY RoundAt
  <1> DEFINE Bad == {k \in 0..N : f[k] \cap S # {}}
  <1>1. ASSUME Bad # {} PROVE FALSE
    <2>1. PICK m \in Bad : \A k \in Bad : m <= k
      <3> HIDE DEF Bad
      <3>1. Bad \subseteq Nat
        BY DEF Bad
      <3> QED BY <1>1, <3>1, LeastNatural
    <2>2. f[m] \cap S # {} /\ m \in 0..N
      BY <2>1
    <2>3. m # 0 /\ m - 1 \in 0..N /\ m \in 1..N /\ m - 1 \notin Bad
      BY <1>0, <2>1, <2>2
    <2>4. f[m] = {n \in g.nodes : g.dependsOn[n] \subseteq f[m - 1]}
      BY <1>0, <2>3
    <2>5. f[m - 1] \cap S = {}
      BY <2>3
    <2> QED BY <2>2, <2>4, <2>5
  <1> QED BY <1>1

\* Without a cycle every round visits a node more, until all are visited.
LEMMA RoundsGrow ==
    ASSUME NEW g \in GraphType, KnowsItsNames(g), Acyclic(g), IsFiniteSet(g.nodes),
           NEW N \in Nat, NEW f, AreRounds(g, N, f)
    PROVE  \A k \in 0..N : /\ f[k] \subseteq g.nodes
                           /\ k > 0 => f[k - 1] \subseteq f[k]
                           /\ f[k] = g.nodes \/ Cardinality(f[k]) >= k
  <1>0. /\ f[0] = {}
        /\ \A k \in 1..N : \A n : n \in f[k] <=> n \in g.nodes /\ g.dependsOn[n] \subseteq f[k - 1]
    BY RoundAt
  <1> DEFINE Good(k) == /\ f[k] \subseteq g.nodes
                        /\ k > 0 => f[k - 1] \subseteq f[k]
                        /\ f[k] = g.nodes \/ Cardinality(f[k]) >= k
  <1> DEFINE Bad == {k \in 0..N : ~Good(k)}
  <1>1. ASSUME Bad # {} PROVE FALSE
    <2>1. PICK m \in Bad : \A k \in Bad : m <= k
      <3> HIDE DEF Bad
      <3>1. Bad \subseteq Nat
        BY DEF Bad
      <3> QED BY <1>1, <3>1, LeastNatural
    <2>2. m \in 0..N /\ ~Good(m) /\ f[0] = {}
      BY <1>0, <2>1
    <2>3. m # 0
      <3>1. Good(0)
        BY <2>2, FS_EmptySet
      <3> QED BY <2>2, <3>1
    <2>4. m - 1 \in 0..N /\ Good(m - 1) /\ m \in Nat
      BY <2>1, <2>2, <2>3
    <2>5. f[m] = {n \in g.nodes : g.dependsOn[n] \subseteq f[m - 1]}
      <3>1. m \in 1..N
        BY <2>2, <2>3
      <3> QED BY <1>0, <3>1
    <2>6. f[m - 1] \subseteq f[m]
      <3>1. CASE m = 1
        BY <2>2, <3>1
      <3>2. CASE m > 1
        <4>0. m - 1 \in 1..N /\ (m - 1) - 1 = m - 2 /\ m - 1 > 0
          BY <2>2, <3>2
        <4>1. f[m - 1] = {n \in g.nodes : g.dependsOn[n] \subseteq f[m - 2]}
          BY <1>0, <4>0
        <4>2. f[m - 2] \subseteq f[m - 1]
          BY <2>4, <4>0
        <4> QED BY <2>5, <4>1, <4>2
      <3> QED BY <2>3, <2>4, <3>1, <3>2
    <2>7. f[m] \subseteq g.nodes
      BY <2>5
    <2>8. CASE f[m - 1] = g.nodes
      BY <2>2, <2>6, <2>7, <2>8
    <2>9. CASE f[m - 1] # g.nodes
      <3> DEFINE S == g.nodes \ f[m - 1]
      <3>1. S # {} /\ S \subseteq g.nodes
        BY <2>4, <2>9
      <3>2. PICK n \in S : g.dependsOn[n] \cap S = {}
        BY <3>1 DEF Acyclic
      <3>3. n \in f[m] /\ n \notin f[m - 1]
        BY <2>5, <3>2 DEF KnowsItsNames
      <3>4. IsFiniteSet(f[m - 1]) /\ IsFiniteSet(f[m])
        BY <2>4, <2>7, FS_Subset
      <3>5. Cardinality(f[m - 1] \cup {n}) = Cardinality(f[m - 1]) + 1
        BY <3>3, <3>4, FS_AddElement
      <3>6. Cardinality(f[m - 1] \cup {n}) <= Cardinality(f[m])
        BY <2>6, <3>3, <3>4, FS_Subset
      <3>7. Cardinality(f[m - 1]) \in Nat /\ Cardinality(f[m]) \in Nat
        BY <3>4, FS_CardinalityType
      <3>8. Cardinality(f[m]) >= m
        BY <2>4, <2>9, <3>5, <3>6, <3>7
      <3> QED BY <2>2, <2>6, <2>7, <3>8
    <2> QED BY <2>8, <2>9
  <1> QED BY <1>1

\* The work list visits every node exactly when the dependencies have no cycle.
LEMMA WorkListIsExact ==
    ASSUME NEW g \in GraphType, KnowsItsNames(g) PROVE Visited(g) = g.nodes <=> Acyclic(g)
  <1>1. IsFiniteSet(g.nodes) /\ Cardinality(g.nodes) \in Nat
    <2>1. IsFiniteSet(g.nodes)
      BY IdsAssumption, FS_Subset DEF GraphType
    <2> QED BY <2>1, FS_CardinalityType
  <1>2. PICK f : AreRounds(g, Cardinality(g.nodes), f) /\ Visited(g) = f[Cardinality(g.nodes)]
    BY <1>1, VisitedByRounds
  <1>3. ASSUME Visited(g) = g.nodes PROVE Acyclic(g)
    <2> SUFFICES ASSUME NEW S \in SUBSET g.nodes, S # {}, \A n \in S : \E d \in S : d \in g.dependsOn[n]
                 PROVE  FALSE
      BY DEF Acyclic
    <2>1. f[Cardinality(g.nodes)] \cap S = {}
      <3> DEFINE N == Cardinality(g.nodes)
      <3> HIDE DEF N
      <3>1. N \in Nat /\ AreRounds(g, N, f) /\ N \in 0..N
        BY <1>1, <1>2 DEF N
      <3>2. \A k \in 0..N : \A n \in S : n \notin f[k]
        BY <3>1, CycleIsNotVisited
      <3> QED BY <3>1, <3>2 DEF N
    <2> QED BY <1>2, <1>3, <2>1
  <1>4. ASSUME Acyclic(g) PROVE Visited(g) = g.nodes
    <2>1. /\ Visited(g) \subseteq g.nodes
          /\ Visited(g) = g.nodes \/ Cardinality(Visited(g)) >= Cardinality(g.nodes)
      BY <1>1, <1>2, <1>4, RoundsGrow
    <2>2. Cardinality(Visited(g)) \in Nat /\ Cardinality(Visited(g)) <= Cardinality(g.nodes)
      BY <1>1, <2>1, FS_Subset, FS_CardinalityType
    <2> QED BY <1>1, <2>1, <2>2, FS_Subset
  <1> QED BY <1>3, <1>4

-----------------------------------------------------------------------------
(* The runner's books.  What is ready when a round is spawned is to be       *)
(* spawned or in flight, so that nothing is left when both are empty.        *)

Running == {n \in Ids : node[n] = "running"}
RoundIsComplete == phase = "spawn" => ReadyNodes \cap activated \subseteq toSpawn \cup inFlight

\* The inductive invariant behind RunnerInv.
BooksInv == RunnerInv /\ RoundIsComplete

\* What runs is a finite set, with one node more or less when a task starts or ends.
LEMMA RunningCounts ==
    ASSUME TypeOK
    PROVE  /\ IsFiniteSet(Running) /\ Cardinality(Running) \in Nat
           /\ \A n \in Ids : n \notin Running => Cardinality(Running \cup {n}) = Cardinality(Running) + 1
           /\ \A n \in Running : Cardinality(Running \ {n}) = Cardinality(Running) - 1
  <1>1. IsFiniteSet(Running)
    BY IdsAssumption, FS_Subset DEF Running
  <1>2. Cardinality(Running) \in Nat
    BY <1>1, FS_CardinalityType
  <1>3. \A n \in Ids : n \notin Running => Cardinality(Running \cup {n}) = Cardinality(Running) + 1
    BY <1>1, FS_AddElement
  <1>4. \A n \in Running : Cardinality(Running \ {n}) = Cardinality(Running) - 1
    BY <1>1, FS_RemoveElement
  <1> QED BY <1>1, <1>2, <1>3, <1>4

\* Every step keeps the types.
LEMMA TypeStep == ASSUME TypeOK, [Next]_vars PROVE TypeOK'
  <1>1. CASE Validate
    BY <1>1 DEF Validate, TypeOK, GraphType
  <1>2. CASE Collect
    <2>1. Collected \subseteq Ids
      BY DEF Collected, ReadyNodes, TypeOK, GraphType
    <2>2. \A n \in Ids : ResolveInput(n) \in {"none", "given", "output", "empty"}
      BY DEF ResolveInput
    <2>3. input' \in [Ids -> {"none", "given", "output", "empty"}]
      BY <1>2, <2>2 DEF Collect, TypeOK
    <2> QED BY <1>2, <2>1, <2>3 DEF Collect, TypeOK, runnerSets
  <1>3. ASSUME NEW n \in Ids, SpawnNode(n) PROVE TypeOK'
    BY <1>3 DEF SpawnNode, TypeOK, runnerSets, NodeStates
  <1>4. CASE EndSpawn
    BY <1>4 DEF EndSpawn, TypeOK, runnerSets
  <1>5. ASSUME NEW n \in Ids, NodeEnds(n) PROVE TypeOK'
    BY <1>5 DEF NodeEnds, TypeOK, runnerSets, NodeStates
  <1>6. ASSUME NEW n \in Ids, JoinOk(n) PROVE TypeOK'
    BY <1>6 DEF JoinOk, TypeOK, GraphType
  <1>7. ASSUME NEW n \in Ids, JoinErr(n) PROVE TypeOK'
    BY <1>7 DEF JoinErr, TypeOK, GraphType
  <1>8. ASSUME NEW n \in Ids, JoinPanic(n) PROVE TypeOK'
    <2>1. permits' \in Nat
      BY <1>8, RunningCounts DEF JoinPanic, TypeOK, Running
    <2>2. node' \in [Ids -> NodeStates]
      BY <1>8 DEF JoinPanic, TypeOK, NodeStates
    <2> QED BY <1>8, <2>1, <2>2 DEF JoinPanic, TypeOK, runnerSets
  <1>9. CASE UNCHANGED vars
    BY <1>9 DEF vars, TypeOK
  <1> QED BY <1>1, <1>2, <1>3, <1>4, <1>5, <1>6, <1>7, <1>8, <1>9 DEF Next, Runner, Quiescent

\* Every step keeps the permits: whoever starts takes one, whoever ends gives one back.
LEMMA PermitStep ==
    ASSUME SchedulerInv, TypeOK, PermitsConserved, [Next]_vars
    PROVE  PermitsConserved'
  <1> DEFINE Limit == IF MaxConcurrent < 1 THEN 1 ELSE MaxConcurrent
  <1>0. /\ permits \in Nat /\ Limit \in Nat /\ permits + Cardinality(Running) = Limit
        /\ Cardinality(Running) \in Nat
    BY MaxConcurrentAssumption, RunningCounts DEF TypeOK, PermitsConserved, Running
  <1>1. ASSUME permits' + Cardinality(Running') = Limit PROVE PermitsConserved'
    BY <1>1 DEF PermitsConserved, Running
  <1>2. ASSUME NEW n \in Ids, SpawnNode(n) PROVE PermitsConserved'
    <2>0. n \notin Running
      BY <1>2 DEF SpawnNode, SchedulerInv, StartedIsRemembered, Running
    <2>1. Running' = Running \cup {n} /\ permits' = permits - 1 /\ permits > 0
      BY <1>2 DEF SpawnNode, Running, TypeOK
    <2>2. Cardinality(Running') = Cardinality(Running) + 1
      BY <2>0, <2>1, RunningCounts
    <2> QED BY <1>0, <1>1, <2>1, <2>2
  <1>3. ASSUME NEW n \in Ids, NodeEnds(n) PROVE PermitsConserved'
    <2>1. Running' = Running \ {n} /\ n \in Running /\ permits' = permits + 1
      BY <1>3 DEF NodeEnds, Running, TypeOK
    <2>2. Cardinality(Running') = Cardinality(Running) - 1
      BY <2>1, RunningCounts
    <2> QED BY <1>0, <1>1, <2>1, <2>2
  <1>4. ASSUME NEW n \in Ids, JoinPanic(n) PROVE PermitsConserved'
    <2>1. Running' = {} /\ permits' = permits + Cardinality(Running)
      BY <1>4 DEF JoinPanic, Running, TypeOK
    <2> QED BY <1>0, <1>1, <2>1, FS_EmptySet
  <1>5. ASSUME UNCHANGED <<node, permits>> PROVE PermitsConserved'
    BY <1>5 DEF PermitsConserved
  <1> QED BY <1>2, <1>3, <1>4, <1>5
          DEF Next, Runner, Validate, Collect, EndSpawn, JoinOk, JoinErr, Quiescent, vars

\* validate's verdict is exact when it is given, and no later step changes the graph.
LEMMA VerdictStep == ASSUME TypeOK, ValidateIsExact, [Next]_vars PROVE ValidateIsExact'
  <1>1. CASE Validate
    <2>1. graph' = graph /\ graph \in GraphType
      BY <1>1 DEF Validate, TypeOK
    <2>2. CASE Valid(graph)
      <3>1. phase' = "collect" /\ HasOwnNames(graph) /\ KnowsItsNames(graph) /\ Acyclic(graph)
        BY <1>1, <2>1, <2>2, WorkListIsExact DEF Validate, Valid
      <3>2. \A n \in graph.nodes : graph.onSuccess[n] \cup graph.onFailure[n] \subseteq graph.nodes
        BY <3>1 DEF KnowsItsNames
      <3>3. HasOwnNames(graph') /\ Acyclic(graph')
        BY <2>1, <3>1
      <3> QED BY <2>1, <3>1, <3>2, <3>3 DEF ValidateIsExact
    <2>3. CASE ~Valid(graph)
      <3>1. phase' = "rejected" /\ ~(HasOwnNames(graph) /\ KnowsItsNames(graph) /\ Acyclic(graph))
        BY <1>1, <2>1, <2>3, WorkListIsExact DEF Validate, Valid
      <3> QED BY <2>1, <3>1 DEF ValidateIsExact
    <2> QED BY <2>2, <2>3
  <1>2. ASSUME graph' = graph, phase \notin {"rejected", "validate"}, phase' \notin {"rejected", "validate"}
        PROVE  ValidateIsExact'
    BY <1>2 DEF ValidateIsExact
  <1>3. ASSUME graph' = graph, phase' = phase PROVE ValidateIsExact'
    BY <1>3 DEF ValidateIsExact
  <1> QED BY <1>1, <1>2, <1>3
          DEF Next, Runner, Collect, SpawnNode, EndSpawn, JoinOk, JoinErr, JoinPanic, NodeEnds, Quiescent, vars

\* A round takes in everything that is ready, and the runner stops only after a round
\* that spawned nothing while nothing was in flight.
LEMMA RoundStep ==
    ASSUME TypeOK, RoundIsComplete, NothingReadyIsLeft, [Next]_vars
    PROVE  RoundIsComplete' /\ NothingReadyIsLeft'
  <1>1. CASE Collect
    <2>1. /\ phase' = "spawn" /\ toSpawn' = Collected
          /\ UNCHANGED <<graph, completed, failed, activated, inFlight>>
      BY <1>1 DEF Collect, runnerSets
    <2> QED BY <2>1 DEF RoundIsComplete, NothingReadyIsLeft, ReadyNodes, Collected
  <1>2. ASSUME NEW n \in Ids, SpawnNode(n) PROVE RoundIsComplete' /\ NothingReadyIsLeft'
    <2>1. /\ phase = "spawn" /\ phase' = "spawn" /\ toSpawn' = toSpawn \ {n} /\ inFlight' = inFlight \cup {n}
          /\ UNCHANGED <<graph, completed, failed, activated>>
      BY <1>2 DEF SpawnNode, runnerSets
    <2>2. toSpawn \cup inFlight \subseteq toSpawn' \cup inFlight'
      BY <2>1
    <2> QED BY <2>1, <2>2 DEF RoundIsComplete, NothingReadyIsLeft, ReadyNodes
  <1>3. CASE EndSpawn
    <2>1. /\ phase = "spawn" /\ toSpawn = {} /\ phase' = IF inFlight = {} THEN "done" ELSE "join"
          /\ UNCHANGED <<graph, toSpawn, completed, failed, activated, inFlight>>
      BY <1>3 DEF EndSpawn, runnerSets
    <2> QED BY <2>1 DEF RoundIsComplete, NothingReadyIsLeft, ReadyNodes
  <1>4. ASSUME phase' \notin {"spawn", "done"} PROVE RoundIsComplete' /\ NothingReadyIsLeft'
    BY <1>4 DEF RoundIsComplete, NothingReadyIsLeft
  <1>5. ASSUME UNCHANGED <<graph, phase, toSpawn, completed, failed, activated, inFlight>>
        PROVE  RoundIsComplete' /\ NothingReadyIsLeft'
    BY <1>5 DEF RoundIsComplete, NothingReadyIsLeft, ReadyNodes
  <1> QED BY <1>1, <1>2, <1>3, <1>4, <1>5
          DEF Next, Runner, Validate, JoinOk, JoinErr, JoinPanic, NodeEnds, Quiescent, vars, runnerSets

\* For every graph and every limit the runner keeps its books: validate refuses exactly
\* the graphs with an unknown name or a cycle, every permit comes back, and it stops only
\* when nothing that was activated is ready.
THEOREM BooksAreKept == Spec => []RunnerInv
  <1>1. Init => BooksInv
    <2> SUFFICES ASSUME Init PROVE BooksInv
      OBVIOUS
    <2>1. TypeOK
      BY GraphsAssumption, MaxConcurrentAssumption DEF Init, TypeOK, NodeStates
    <2>2. ValidateIsExact /\ NothingReadyIsLeft /\ RoundIsComplete
      BY DEF Init, ValidateIsExact, NothingReadyIsLeft, RoundIsComplete
    <2>3. PermitsConserved
      <3>1. {n \in Ids : node[n] = "running"} = {}
        BY DEF Init
      <3>2. Cardinality({n \in Ids : node[n] = "running"}) = 0
        BY <3>1, FS_EmptySet
      <3> QED BY <3>2, MaxConcurrentAssumption DEF Init, PermitsConserved
    <2> QED BY <2>1, <2>2, <2>3 DEF BooksInv, RunnerInv
  <1>2. SchedulerInv /\ BooksInv /\ [Next]_vars => BooksInv'
    BY TypeStep, PermitStep, VerdictStep, RoundStep DEF BooksInv, RunnerInv
  <1>3. BooksInv => RunnerInv
    BY DEF BooksInv
  <1> QED BY <1>1, <1>2, <1>3, SchedulerInvariant, PTL DEF Spec
=============================================================================
