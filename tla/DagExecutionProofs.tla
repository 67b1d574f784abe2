------------------------- MODULE DagExecutionProofs -------------------------
(***************************************************************************)
(* Proofs about DagExecution, for every graph, every number of agents and  *)
(* runner processes and every batch size.  Each step is reduced to what it *)
(* does to the nodes (Moved), to the claims and to the task; the theorems  *)
(* about the store follow from those effects alone.                        *)
(***************************************************************************)
EXTENDS DagExecution, TLAPS

\* A node that a goroutine works on has left BLOCKED for good.
Dispatched == \A r \in Runners, n \in Nodes : run[r][n] # "none" => node[n] # "BLOCKED"

\* The conjunction that is inductive.  The order of the graph needs Dispatched:
\* the transition table would let a late failure through on a BLOCKED node.
\* The last two need the order, because it is what keeps a failed node from
\* being put back in the queue.
Order == TypeOK /\ DependencyOrder /\ Dispatched

\* The inductive invariant of the task's status and of the claims.
IInv == Order /\ TaskStatusTracksNodes /\ CompletedClaimStands

-----------------------------------------------------------------------------
(* Types *)

\* What the operators of the store return.
LEMMA StatusTypes ==
  ASSUME TypeOK
  PROVE  /\ TaskRunning \in TaskStatus
         /\ \A ns : TaskStatusFromNodes(ns) \subseteq TaskStatus
         /\ \A ns : Aggregate(ns) \in TaskStatus
         /\ CloseNodes(node) \in [Nodes -> NodeStatus]
         /\ \A n \in Nodes : /\ ResolveAndUnblock(n) \in [Nodes -> NodeStatus]
                             /\ StatusAfterRelease(n) \in NodeStatus
BY DEF TypeOK, TaskRunning, TaskStatusFromNodes, Aggregate, CloseNodes, ResolveAndUnblock,
       StatusAfterRelease, TaskStatus, NodeStatus, Terminal

\* A process that is down and a batch without goroutines are well typed.
LEMMA DownTypes ==
  /\ Down \in [up : BOOLEAN, recovered : BOOLEAN, failed : BOOLEAN]
  /\ NoGoroutines \in [Nodes -> Phase]
BY DEF Down, NoGoroutines, Phase

\* The goroutine steps that only move on or return an error.
LEMMA GoroutineTypes ==
  ASSUME TypeOK, NEW r \in Runners, NEW n \in Nodes
  PROVE  /\ \A phase \in Phase : Goto(r, n, phase) => run' \in [Runners -> [Nodes -> Phase]]
         /\ Errors(r, n) => /\ run' \in [Runners -> [Nodes -> Phase]]
                            /\ proc' \in [Runners -> [up : BOOLEAN, recovered : BOOLEAN,
                                                      failed : BOOLEAN]]
<1>1. ASSUME NEW phase \in Phase, Goto(r, n, phase)
      PROVE  run' \in [Runners -> [Nodes -> Phase]]
  BY <1>1 DEF TypeOK, Goto
<1>2. ASSUME Errors(r, n)
      PROVE  proc' \in [Runners -> [up : BOOLEAN, recovered : BOOLEAN, failed : BOOLEAN]]
  BY Zenon, <1>2 DEF TypeOK, Errors
<1>3. "none" \in Phase
  BY DEF Phase
<1> QED BY <1>1, <1>2, <1>3 DEF Errors

\* Every variable keeps its type in every step.
LEMMA TypeStep == TypeOK /\ [Next]_vars => TypeOK'
<1> SUFFICES ASSUME TypeOK, [Next]_vars PROVE TypeOK'
  OBVIOUS
<1> USE StatusTypes
<1>1. ASSUME NEW a \in Agents, NEW n \in Nodes, AgentStep(a, n) PROVE TypeOK'
  <2>1. CASE ClaimNode(a, n)
    BY <2>1 DEF ClaimNode, TypeOK, NodeStatus, ClaimStatus
  <2>2. CASE ReleaseNode(a, n)
    <3>1. claim' \in [Nodes -> [agent : Agents \cup {None}, status : ClaimStatus]]
      BY Zenon, <2>2 DEF ReleaseNode, TypeOK, ClaimStatus
    <3>2. node' \in [Nodes -> NodeStatus] /\ task' \in TaskStatus
      BY <2>2 DEF ReleaseNode, TypeOK
    <3> QED BY <2>2, <3>1, <3>2 DEF ReleaseNode, TypeOK
  <2>3. CASE CompleteNode(a, n)
    <3>1. claim' \in [Nodes -> [agent : Agents \cup {None}, status : ClaimStatus]]
      BY Zenon, <2>3 DEF CompleteNode, TypeOK, ClaimStatus
    <3>2. node' \in [Nodes -> NodeStatus] /\ task' \in TaskStatus
      BY <2>3 DEF CompleteNode, TypeOK
    <3> QED BY <2>3, <3>1, <3>2 DEF CompleteNode, TypeOK
  <2> QED BY <1>1, <2>1, <2>2, <2>3 DEF AgentStep
<1>2. CASE CloseTask
  BY <1>2 DEF CloseTask, TypeOK, TaskStatus
<1>3. ASSUME NEW n \in Charged, Spend(n) PROVE TypeOK'
  BY <1>3, PartiesAssumption DEF Spend, TypeOK, NodeStatus
<1>4. ASSUME NEW r \in Runners, TickStep(r) \/ Crash(r) PROVE TypeOK'
  <2> USE DownTypes
  <2>1. CASE Start(r)
    BY Zenon, <2>1 DEF Start, TypeOK, store
  <2>2. CASE Crash(r)
    BY <2>2, BoundsAssumption DEF Crash, TypeOK, store
  <2>3. CASE Recovered(r)
    <3>1. node' \in [Nodes -> NodeStatus] /\ task' \in TaskStatus
      BY <2>3 DEF Recovered, TypeOK, NodeStatus
    <3>2. proc' \in [Runners -> [up : BOOLEAN, recovered : BOOLEAN, failed : BOOLEAN]]
      BY Zenon, <2>3 DEF Recovered, TypeOK
    <3> QED BY <2>3, <3>1, <3>2 DEF Recovered, TypeOK
  <2>4. CASE ClaimExecutableNodes(r)
    <3>1. node' \in [Nodes -> NodeStatus] /\ run' \in [Runners -> [Nodes -> Phase]]
      BY <2>4 DEF ClaimExecutableNodes, TypeOK, NodeStatus, Phase
    <3> QED BY <2>4, <3>1 DEF ClaimExecutableNodes, TypeOK
  <2>5. CASE TickRejected(r)
    BY Zenon, <2>5 DEF TickRejected, TypeOK, store
  <2>6. CASE TickFailed(r)
    BY Zenon, <2>6 DEF TickFailed, TypeOK, store
  <2> QED BY <1>4, <2>1, <2>2, <2>3, <2>4, <2>5, <2>6 DEF TickStep
<1>5. ASSUME NEW r \in Runners, NEW n \in Nodes, NodeStep(r, n) \/ NodeError(r, n)
      PROVE  TypeOK'
  <2> USE GoroutineTypes
  <2>1. CASE StartNode(r, n)
    BY <2>1 DEF StartNode, TypeOK, Phase, Errors, store
  <2>2. CASE ExecuteNode(r, n)
    BY <2>2 DEF ExecuteNode, TypeOK, Phase, store
  <2>3. CASE FinishNode(r, n)
    <3>1. "none" \in Phase /\ Outcome(run[r][n]) \in NodeStatus
      BY DEF Phase, Outcome, NodeStatus
    <3>2. CASE Errors(r, n)
      BY Zenon, <2>3, <3>2 DEF FinishNode, TypeOK, Errors, store
    <3>3. CASE ~Errors(r, n)
      <4>1. node' \in [Nodes -> NodeStatus] /\ task' \in TaskStatus
        BY Zenon, <2>3, <3>1, <3>3 DEF FinishNode, TypeOK
      <4> QED BY <2>3, <3>1, <3>3, <4>1 DEF FinishNode, TypeOK
    <3> QED BY <3>2, <3>3
  <2>4. CASE NodeError(r, n)
    <3>1. faults' \in 0 .. MaxFaults
      BY <2>4, BoundsAssumption DEF NodeError, TypeOK
    <3>2. Errors(r, n) /\ UNCHANGED <<store, lease>>
      BY <2>4 DEF NodeError, Errors
    <3> QED BY <3>1, <3>2 DEF TypeOK, store
  <2> QED BY <1>5, <2>1, <2>2, <2>3, <2>4 DEF NodeStep
<1>6. ASSUME NEW s \in LeaseStates, LoseLease(s) PROVE TypeOK'
  BY <1>6, BoundsAssumption DEF LoseLease, TypeOK, store
<1>7. CASE RegainLease
  BY <1>7, PartiesAssumption DEF RegainLease, TypeOK, store
<1>8. CASE UNCHANGED vars
  BY <1>8 DEF vars, TypeOK
<1> QED BY <1>1, <1>2, <1>3, <1>4, <1>5, <1>6, <1>7, <1>8 DEF Next

\* The initial state is well typed.
LEMMA TypeInit == Init => TypeOK
BY DownTypes, PartiesAssumption, BoundsAssumption
   DEF Init, TypeOK, TaskStatus, NodeStatus, ClaimStatus, Unclaimed

\* The rows, the lease, the processes and the goroutines always have their
\* types (tasks.status, dag_nodes.status, node_claims and the runner's state).
THEOREM DagTypeCorrect == Spec => []TypeOK
<1> QED BY TypeInit, TypeStep, PTL DEF Spec

-----------------------------------------------------------------------------
(* Effects *)

\* What a step may do to a node: nothing; cancel it; or move it on, and then
\* its dependencies are resolved.  Only a node that is not terminal changes.
Moved(n) ==
  \/ node'[n] = node[n]
  \/ node[n] \notin Terminal /\ node'[n] = "CANCELLED"
  \/ /\ node[n] \notin Terminal
     /\ node'[n] \in {"PENDING", "RUNNING", "RESOLVED", "FAILED"}
     /\ \A d \in Deps[n] : node'[d] = "RESOLVED"

\* Changing one node whose dependencies are resolved moves every node as
\* described: no node is its own resolved dependency while it changes.
LEMMA OneMoves ==
  ASSUME TypeOK, NEW n \in Nodes, node[n] \notin Terminal,
         \A d \in Deps[n] : node[d] = "RESOLVED",
         NEW s \in {"PENDING", "RUNNING", "RESOLVED", "FAILED"},
         node' = [node EXCEPT ![n] = s]
  PROVE  \A m \in Nodes : Moved(m)
BY GraphAssumption DEF Moved, TypeOK, Terminal

\* Releasing a claim on a RUNNING or PENDING node queues it again: the
\* BLOCKED branch of the release is never taken.
LEMMA ReleaseQueues ==
  ASSUME TypeOK, DependencyOrder, NEW n \in Nodes
  PROVE  \/ StatusAfterRelease(n) = node[n]
         \/ /\ node[n] = "RUNNING"
            /\ StatusAfterRelease(n) = "PENDING"
            /\ \A d \in Deps[n] : node[d] = "RESOLVED"
BY DEF TypeOK, DependencyOrder, StatusAfterRelease, DepsResolved, NodeStatus

\* Completing a RUNNING node resolves it and queues BLOCKED dependents; a
\* dependent in any other status had n resolved before.
LEMMA CompletionMoves ==
  ASSUME TypeOK, DependencyOrder, NEW n \in Nodes, node[n] = "RUNNING",
         node' = ResolveAndUnblock(n)
  PROVE  /\ \A m \in Nodes : Moved(m)
         /\ node'[n] = "RESOLVED"
<1>1. n \notin Deps[n]
  BY DEF DependencyOrder
<1>2. node'[n] = "RESOLVED"
  BY <1>1 DEF ResolveAndUnblock, TypeOK
<1>3. ASSUME NEW m \in Nodes PROVE node[m] = "RESOLVED" => node'[m] = "RESOLVED"
  BY <1>3, <1>2 DEF ResolveAndUnblock, DependencyOrder, TypeOK
<1>4. ASSUME NEW m \in Nodes, m # n PROVE Moved(m)
  <2>1. CASE node'[m] = node[m]
    BY <2>1 DEF Moved
  <2>2. CASE node'[m] # node[m]
    <3>1. n \in Deps[m] /\ node'[m] = "PENDING"
      BY <1>4, <2>2 DEF ResolveAndUnblock, TypeOK
    <3>2. DepsResolved(m, [node EXCEPT ![n] = "RESOLVED"])
      BY <1>4, <2>2 DEF ResolveAndUnblock, TypeOK
    <3>3. \A d \in Deps[m] : node'[d] = "RESOLVED"
      BY <3>2, <1>2, <1>3, GraphAssumption DEF DepsResolved, TypeOK
    <3>4. node[m] \notin {"PENDING", "RUNNING", "RESOLVED", "FAILED"}
      BY <3>1 DEF DependencyOrder
    <3>5. node[m] # "CANCELLED"
      BY <1>4, <2>2 DEF ResolveAndUnblock, TypeOK, ValidNodeTransition, NodeTransitions,
                        NodeStatus
    <3> QED BY <3>1, <3>3, <3>4, <3>5 DEF Moved, Terminal
  <2> QED BY <2>1, <2>2
<1>5. Moved(n)
  <2>1. \A d \in Deps[n] : node'[d] = "RESOLVED"
    BY <1>3, GraphAssumption DEF DependencyOrder
  <2> QED BY <1>2, <2>1 DEF Moved, Terminal
<1> QED BY <1>2, <1>4, <1>5

\* Every step moves nodes only as described.
LEMMA StepMoves ==
  ASSUME TypeOK, DependencyOrder, Dispatched, [Next]_vars
  PROVE  \A m \in Nodes : Moved(m)
<1>0. ASSUME UNCHANGED node PROVE \A m \in Nodes : Moved(m)
  BY <1>0 DEF Moved
<1>1. ASSUME NEW a \in Agents, NEW n \in Nodes, AgentStep(a, n)
      PROVE  \A m \in Nodes : Moved(m)
  <2>1. CASE ClaimNode(a, n)
    <3>1. node[n] \notin Terminal /\ \A d \in Deps[n] : node[d] = "RESOLVED"
      BY <2>1 DEF ClaimNode, DependencyOrder, Terminal
    <3> QED BY Zenon, <2>1, <3>1, OneMoves DEF ClaimNode
  <2>2. CASE ReleaseNode(a, n)
    <3>1. CASE StatusAfterRelease(n) = node[n]
      BY <2>2, <3>1 DEF ReleaseNode, Moved, TypeOK
    <3>2. CASE StatusAfterRelease(n) # node[n]
      BY Zenon, <2>2, <3>2, ReleaseQueues, OneMoves DEF ReleaseNode, Terminal
    <3> QED BY <3>1, <3>2
  <2>3. CASE CompleteNode(a, n)
    BY <2>3, CompletionMoves DEF CompleteNode
  <2> QED BY <1>1, <2>1, <2>2, <2>3 DEF AgentStep
<1>2. CASE CloseTask
  BY <1>2 DEF CloseTask, CloseNodes, Moved, TypeOK
<1>3. ASSUME NEW n \in Charged, Spend(n) PROVE \A m \in Nodes : Moved(m)
  <2>1. n \in Nodes /\ node[n] \in {"PENDING", "RUNNING"}
    BY <1>3, PartiesAssumption
       DEF Spend, ValidNodeTransition, NodeTransitions, TypeOK, NodeStatus
  <2>2. node[n] \notin Terminal /\ \A d \in Deps[n] : node[d] = "RESOLVED"
    BY <2>1 DEF DependencyOrder, Terminal
  <2> QED BY Zenon, <1>3, <2>1, <2>2, OneMoves DEF Spend
<1>4. ASSUME NEW r \in Runners, TickStep(r) \/ Crash(r) PROVE \A m \in Nodes : Moved(m)
  <2>1. CASE Recovered(r)
    <3>1. \A n \in Nodes : \/ node'[n] = node[n]
                           \/ node[n] = "RUNNING" /\ node'[n] = "PENDING"
      <4> DEFINE found == IF lease = "away" THEN {} ELSE Reclaimable
      <4>1. node' = [n \in Nodes |-> IF n \in found THEN "PENDING" ELSE node[n]]
        BY <2>1 DEF Recovered
      <4>2. \A n \in found : node[n] = "RUNNING"
        BY DEF Reclaimable
      <4> HIDE DEF found
      <4> QED BY <4>1, <4>2
    <3> QED BY <3>1, GraphAssumption DEF Moved, DependencyOrder, Terminal
  <2>2. CASE ClaimExecutableNodes(r)
    <3>1. \A n \in Nodes : \/ node'[n] = node[n]
                           \/ /\ node[n] \in {"PENDING", "BLOCKED"} /\ node'[n] = "RUNNING"
                              /\ \A d \in Deps[n] : node[d] = "RESOLVED"
      <4>1. PICK batch \in SUBSET Executable :
              node' = [n \in Nodes |-> IF n \in batch THEN "RUNNING" ELSE node[n]]
        BY <2>2 DEF ClaimExecutableNodes
      <4> QED BY <4>1 DEF Executable, DepsResolved
    <3> QED BY <3>1, GraphAssumption DEF Moved, Terminal
  <2>3. CASE ~Recovered(r) /\ ~ClaimExecutableNodes(r)
    BY <1>4, <2>3, <1>0 DEF TickStep, Start, Crash, TickRejected, TickFailed, store
  <2> QED BY <2>1, <2>2, <2>3
<1>5. ASSUME NEW r \in Runners, NEW n \in Nodes, NodeStep(r, n) \/ NodeError(r, n)
      PROVE  \A m \in Nodes : Moved(m)
  <2>1. CASE UNCHANGED node
    BY <2>1, <1>0
  <2>2. CASE ~UNCHANGED node
    <3>1. FinishNode(r, n) /\ ~Errors(r, n)
      BY <1>5, <2>2 DEF NodeStep, NodeError, StartNode, ExecuteNode, FinishNode, Errors, store
    <3>2. PICK s \in {"RESOLVED", "FAILED"} :
            /\ ValidNodeTransition(node[n], s)
            /\ node' = [node EXCEPT ![n] = s]
      BY <3>1 DEF FinishNode, Outcome
    <3>3. node[n] # s
      BY <2>2, <3>2 DEF TypeOK
    <3>4. CASE node[n] \in {"PENDING", "RUNNING"}
      BY Zenon, <3>2, <3>4, OneMoves DEF DependencyOrder, Terminal
    <3>5. node[n] # "BLOCKED"
      BY <3>1 DEF FinishNode, Dispatched
    <3> QED BY <3>2, <3>3, <3>4, <3>5 DEF ValidNodeTransition, NodeTransitions, TypeOK, NodeStatus
  <2> QED BY <2>1, <2>2
<1>6. ASSUME NEW s \in LeaseStates, LoseLease(s) PROVE \A m \in Nodes : Moved(m)
  BY <1>6, <1>0 DEF LoseLease, store
<1>7. CASE RegainLease
  BY <1>7, <1>0 DEF RegainLease, store
<1>8. CASE UNCHANGED vars
  BY <1>8, <1>0 DEF vars
<1> QED BY <1>1, <1>2, <1>3, <1>4, <1>5, <1>6, <1>7, <1>8 DEF Next

\* Nothing that is terminal changes.
LEMMA MovesKeepTerminal ==
  ASSUME NEW n \in Nodes, Moved(n), node[n] \in Terminal
  PROVE  node'[n] = node[n]
BY DEF Moved

\* The goroutines of a step: those there were, and those of a new batch, whose
\* nodes it sets RUNNING.
LEMMA StepGoroutines ==
  ASSUME TypeOK, [Next]_vars, NEW r \in Runners, NEW n \in Nodes, run'[r][n] # "none"
  PROVE  run[r][n] # "none" \/ node'[n] = "RUNNING"
<1>1. CASE \E q \in Runners : ClaimExecutableNodes(q)
  BY <1>1 DEF ClaimExecutableNodes, Ticking, Quiet, TypeOK
<1>2. CASE \E q \in Runners : Crash(q)
  BY <1>2 DEF Crash, NoGoroutines, TypeOK
<1>3. CASE \E q \in Runners, m \in Nodes : NodeStep(q, m) \/ NodeError(q, m)
  <2>1. PICK q \in Runners, m \in Nodes : NodeStep(q, m) \/ NodeError(q, m)
    BY <1>3
  <2>2. run[q][m] # "none" /\ \E phase : run' = [run EXCEPT ![q][m] = phase]
    BY <2>1 DEF NodeStep, NodeError, StartNode, ExecuteNode, FinishNode, Errors, Goto
  <2> QED BY <2>2 DEF TypeOK
<1>4. CASE UNCHANGED run
  BY <1>4
<1> QED BY <1>1, <1>2, <1>3, <1>4
        DEF Next, AgentStep, ClaimNode, ReleaseNode, CompleteNode, CloseTask, Spend, TickStep,
            Start, Recovered, TickRejected, TickFailed, LoseLease, RegainLease, vars

\* The order of the graph is inductive.
LEMMA OrderStep == Order /\ [Next]_vars => Order'
<1> SUFFICES ASSUME Order, [Next]_vars PROVE Order'
  OBVIOUS
<1>1. \A m \in Nodes : Moved(m)
  BY StepMoves DEF Order
<1>2. TypeOK'
  BY TypeStep DEF Order
<1>3. DependencyOrder'
  <2> SUFFICES ASSUME NEW n \in Nodes,
                      node'[n] \in {"PENDING", "RUNNING", "RESOLVED", "FAILED"},
                      NEW d \in Deps[n]
               PROVE  node'[d] = "RESOLVED"
    BY DEF DependencyOrder
  <2>1. d \in Nodes
    BY GraphAssumption
  <2>2. CASE node'[n] = node[n]
    <3>1. node[d] = "RESOLVED"
      BY <2>2 DEF Order, DependencyOrder
    <3> QED BY <3>1, <2>1, <1>1, MovesKeepTerminal DEF Terminal
  <2>3. CASE node'[n] # node[n]
    BY <2>3, <1>1 DEF Moved
  <2> QED BY <2>2, <2>3
<1>4. Dispatched'
  <2> SUFFICES ASSUME NEW r \in Runners, NEW n \in Nodes, run'[r][n] # "none"
               PROVE  node'[n] # "BLOCKED"
    BY DEF Dispatched
  <2>1. CASE run[r][n] # "none"
    BY <2>1, <1>1 DEF Order, Dispatched, Moved
  <2>2. CASE node'[n] = "RUNNING"
    BY <2>2
  <2> QED BY <2>1, <2>2, StepGoroutines DEF Order
<1> QED BY <1>2, <1>3, <1>4 DEF Order

\* It holds initially: a node with dependencies starts BLOCKED.
LEMMA OrderInit == Init => Order
BY TypeInit DEF Init, Order, DependencyOrder, Dispatched, NoGoroutines

\* In every graph, no node is queued, runs or ends before all its dependencies
\* are resolved (DependencyOrder), whichever of the daemon, the agents, the
\* restart recovery and `finops spend` moved it.
THEOREM GraphOrderKept == Spec => []DependencyOrder
<1>1. Order => DependencyOrder
  BY DEF Order
<1> QED BY OrderInit, OrderStep, <1>1, PTL DEF Spec

\* No step changes a RESOLVED, FAILED or CANCELLED node (TerminalNodesFinal):
\* late executor results, releases, completions, recoveries and cancellations
\* leave it as it is.
THEOREM TerminalNodesAreFinal == Spec => TerminalNodesFinal
<1>1. Order /\ [Next]_vars => [\A n \in Nodes : node[n] \in Terminal => node'[n] = node[n]]_vars
  BY StepMoves, MovesKeepTerminal DEF Order
<1> QED BY OrderInit, OrderStep, <1>1, PTL DEF Spec, TerminalNodesFinal

-----------------------------------------------------------------------------
(* The graph run *)

\* Moves of nodes that GraphRun sees as admissions, or not at all: a node stays
\* as it is, goes from one of the two admitted statuses to the other, or leaves
\* BLOCKED when its dependencies are resolved.
AdmitsOnly ==
  \A m \in Nodes :
    \/ node'[m] = node[m]
    \/ node[m] \in {"PENDING", "RUNNING"} /\ node'[m] \in {"PENDING", "RUNNING"}
    \/ /\ node[m] = "BLOCKED" /\ node'[m] \in {"PENDING", "RUNNING"}
       /\ \A d \in Deps[m] : node[d] = "RESOLVED"

LEMMA AdmissionStep ==
  ASSUME TypeOK, TypeOK', AdmitsOnly
  PROVE  Graph!Next
<1> DEFINE ready == {m \in Nodes : node[m] = "BLOCKED" /\ node'[m] # "BLOCKED"}
<1>1. \A m \in ready : Stage[m] = "BLOCKED" /\ \A d \in Deps[m] : Stage[d] = "RESOLVED"
  BY GraphAssumption DEF AdmitsOnly, Stage
<1>2. \A m \in Nodes : Stage'[m] = IF m \in ready THEN "ADMITTED" ELSE Stage[m]
  BY DEF AdmitsOnly, Stage
<1>3. Stage' = [m \in Nodes |-> IF m \in ready THEN "ADMITTED" ELSE Stage[m]]
  BY <1>2 DEF Stage
<1>4. Graph!Admit(ready)
  BY <1>1, <1>3 DEF Graph!Admit, Graph!Ready, Graph!Admitting
<1> QED BY <1>4 DEF Graph!Next

\* A node ends RESOLVED, with some of its dependents admitted.
LEMMA ResolutionStep ==
  ASSUME TypeOK, TypeOK', NEW n \in Nodes,
         node[n] \in {"PENDING", "RUNNING"}, node'[n] = "RESOLVED",
         \A m \in Nodes \ {n} :
           \/ node'[m] = node[m]
           \/ /\ node[m] = "BLOCKED" /\ node'[m] = "PENDING" /\ n \in Deps[m]
              /\ \A d \in Deps[m] : d = n \/ node[d] = "RESOLVED"
  PROVE  Graph!Next
<1> DEFINE ready == {m \in Nodes \ {n} : node'[m] # node[m]}
           resolved == [Stage EXCEPT ![n] = "RESOLVED"]
<1>1. Stage[n] = "ADMITTED" /\ \A m \in ready : n \in Deps[m]
  BY DEF Stage
<1>2. \A m \in Nodes : resolved[m] = IF m = n THEN "RESOLVED" ELSE Stage[m]
  BY DEF Stage
<1>3. \A m \in ready : resolved[m] = "BLOCKED" /\ \A d \in Deps[m] : resolved[d] = "RESOLVED"
  BY <1>2, GraphAssumption DEF Stage
<1>4. \A m \in Nodes : Stage'[m] = IF m \in ready THEN "ADMITTED" ELSE resolved[m]
  BY <1>2 DEF Stage
<1>5. Stage' = [m \in Nodes |-> IF m \in ready THEN "ADMITTED" ELSE resolved[m]]
  BY <1>4 DEF Stage
<1>6. Graph!Resolve(n, ready)
  BY <1>1, <1>3, <1>5 DEF Graph!Resolve, Graph!Ready, Graph!Admitting
<1> QED BY <1>6 DEF Graph!Next

LEMMA FailureStep ==
  ASSUME TypeOK, NEW n \in Nodes, node[n] \in {"PENDING", "RUNNING"},
         node' = [node EXCEPT ![n] = "FAILED"]
  PROVE  Graph!Next
<1>1. Stage[n] = "ADMITTED" /\ Stage' = [Stage EXCEPT ![n] = "FAILED"]
  BY DEF Stage, TypeOK
<1> QED BY <1>1 DEF Graph!Next, Graph!Fail

LEMMA CancellationStep == ASSUME TypeOK, CloseTask PROVE Graph!Next
<1>1. \A m \in Nodes :
        Stage'[m] = IF Stage[m] \in {"BLOCKED", "ADMITTED"} THEN "CANCELLED" ELSE Stage[m]
  BY DEF CloseTask, CloseNodes, Stage, TypeOK, Terminal, NodeStatus
<1>2. Stage' = [m \in Nodes |-> IF Stage[m] \in {"BLOCKED", "ADMITTED"}
                                THEN "CANCELLED" ELSE Stage[m]]
  BY <1>1 DEF Stage
<1> QED BY <1>2 DEF Graph!Next, Graph!Cancel

\* Completing a claim is a resolution: what it changes of the dependents is
\* that BLOCKED ones are queued.
LEMMA CompletionStep ==
  ASSUME TypeOK, TypeOK', DependencyOrder, NEW n \in Nodes, node[n] = "RUNNING",
         node' = ResolveAndUnblock(n)
  PROVE  Graph!Next
<1>1. node'[n] = "RESOLVED" /\ \A m \in Nodes : Moved(m)
  BY CompletionMoves
<1>2. ASSUME NEW m \in Nodes \ {n}, node'[m] # node[m]
      PROVE  /\ node[m] = "BLOCKED" /\ node'[m] = "PENDING" /\ n \in Deps[m]
             /\ \A d \in Deps[m] : d = n \/ node[d] = "RESOLVED"
  <2>1. n \in Deps[m] /\ node'[m] = "PENDING"
    BY <1>2 DEF ResolveAndUnblock, TypeOK
  <2>2. DepsResolved(m, [node EXCEPT ![n] = "RESOLVED"])
    BY <1>2 DEF ResolveAndUnblock, TypeOK
  <2>3. \A d \in Deps[m] : d = n \/ node[d] = "RESOLVED"
    BY <2>2, GraphAssumption DEF DepsResolved, TypeOK
  <2>4. node[m] \notin Terminal /\ node[m] \notin {"PENDING", "RUNNING"}
    BY <1>1, <1>2, <2>1 DEF Moved, DependencyOrder
  <2>5. node[m] = "BLOCKED"
    BY <2>4 DEF TypeOK, NodeStatus, Terminal
  <2> QED BY <2>1, <2>3, <2>5
<1> QED BY <1>1, <1>2, ResolutionStep

\* Every step of the store, the runners and the agents is a step of GraphRun.
LEMMA GraphStep == ASSUME Order, [Next]_vars PROVE Graph!Next
<1> USE DEF Order
<1>1. TypeOK'
  BY TypeStep
<1>2. ASSUME UNCHANGED node PROVE AdmitsOnly
  BY <1>2 DEF AdmitsOnly
<1>3. ASSUME NEW a \in Agents, NEW n \in Nodes, AgentStep(a, n) PROVE Graph!Next
  <2>1. CASE ClaimNode(a, n)
    <3>1. AdmitsOnly
      BY <2>1 DEF ClaimNode, AdmitsOnly, TypeOK
    <3> QED BY <1>1, <3>1, AdmissionStep
  <2>2. CASE ReleaseNode(a, n)
    <3>1. AdmitsOnly
      BY <2>2, ReleaseQueues DEF ReleaseNode, AdmitsOnly, TypeOK
    <3> QED BY <1>1, <3>1, AdmissionStep
  <2>3. CASE CompleteNode(a, n)
    BY <1>1, <2>3, CompletionStep DEF CompleteNode
  <2> QED BY <1>3, <2>1, <2>2, <2>3 DEF AgentStep
<1>4. ASSUME NEW n \in Charged, Spend(n) PROVE AdmitsOnly
  <2>1. n \in Nodes /\ node[n] \in {"PENDING", "RUNNING"}
    BY <1>4, PartiesAssumption
       DEF Spend, ValidNodeTransition, NodeTransitions, TypeOK, NodeStatus
  <2> QED BY <1>4, <2>1 DEF Spend, AdmitsOnly, TypeOK
<1>5. ASSUME NEW r \in Runners, TickStep(r) \/ Crash(r) PROVE AdmitsOnly
  <2>1. CASE Recovered(r)
    <3> DEFINE found == IF lease = "away" THEN {} ELSE Reclaimable
    <3>1. node' = [n \in Nodes |-> IF n \in found THEN "PENDING" ELSE node[n]]
      BY <2>1 DEF Recovered
    <3>2. \A n \in found : node[n] = "RUNNING"
      BY DEF Reclaimable
    <3> HIDE DEF found
    <3> QED BY <3>1, <3>2 DEF AdmitsOnly
  <2>2. CASE ClaimExecutableNodes(r)
    <3>1. PICK batch \in SUBSET Executable :
            node' = [n \in Nodes |-> IF n \in batch THEN "RUNNING" ELSE node[n]]
      BY <2>2 DEF ClaimExecutableNodes
    <3> QED BY <3>1 DEF AdmitsOnly, Executable, DepsResolved
  <2>3. CASE ~Recovered(r) /\ ~ClaimExecutableNodes(r)
    BY <1>5, <2>3, <1>2 DEF TickStep, Start, Crash, TickRejected, TickFailed, store
  <2> QED BY <2>1, <2>2, <2>3
<1>6. ASSUME NEW r \in Runners, NEW n \in Nodes, NodeStep(r, n) \/ NodeError(r, n),
             ~UNCHANGED node
      PROVE  Graph!Next
  <2>1. FinishNode(r, n) /\ ~Errors(r, n)
    BY <1>6 DEF NodeStep, NodeError, StartNode, ExecuteNode, FinishNode, Errors, store
  <2>2. PICK s \in {"RESOLVED", "FAILED"} :
          /\ ValidNodeTransition(node[n], s)
          /\ node' = [node EXCEPT ![n] = s]
    BY <2>1 DEF FinishNode, Outcome
  <2>3. node[n] # s /\ node[n] # "BLOCKED"
    BY <1>6, <2>1, <2>2 DEF TypeOK, FinishNode, Dispatched
  <2>4. node[n] \in {"PENDING", "RUNNING"}
    BY <2>2, <2>3 DEF ValidNodeTransition, NodeTransitions, TypeOK, NodeStatus
  <2>5. CASE s = "FAILED"
    BY <2>2, <2>4, <2>5, FailureStep
  <2>6. CASE s = "RESOLVED"
    <3>1. node'[n] = "RESOLVED" /\ \A m \in Nodes \ {n} : node'[m] = node[m]
      BY <2>2, <2>6 DEF TypeOK
    <3> QED BY <1>1, <2>4, <3>1, ResolutionStep
  <2> QED BY <2>5, <2>6
<1>7. ASSUME AdmitsOnly PROVE Graph!Next
  BY <1>1, <1>7, AdmissionStep
<1>8. CASE CloseTask
  BY <1>8, CancellationStep
<1>9. CASE (\E s \in LeaseStates : LoseLease(s)) \/ RegainLease \/ UNCHANGED vars
  BY <1>2, <1>7, <1>9 DEF LoseLease, RegainLease, store, vars
<1> QED BY <1>2, <1>3, <1>4, <1>5, <1>6, <1>7, <1>8, <1>9 DEF Next

\* The execution implements GraphRun, for every graph and any number of agents
\* and runner processes: initial states map to initial states, and each step of
\* a runner, an agent, the recovery or the operator is a step of the graph run.
THEOREM RunsTheGraph == Spec => ImplementsGraphRun
<1>1. Init => Graph!Init
  <2> SUFFICES ASSUME Init PROVE Stage = [n \in Nodes |-> IF Deps[n] = {} THEN "ADMITTED" ELSE "BLOCKED"]
    BY DEF Graph!Init
  <2> QED BY DEF Init, Stage
<1>2. Order /\ [Next]_vars => [Graph!Next]_Stage
  BY GraphStep
<1> QED BY <1>1, <1>2, OrderInit, OrderStep, PTL DEF Spec, ImplementsGraphRun, Graph!Spec

-----------------------------------------------------------------------------
(* The task's status *)

\* The aggregate, by what the nodes are.
LEMMA AggregateCases ==
  ASSUME NEW ns \in [Nodes -> NodeStatus]
  PROVE  /\ Aggregate(ns) = "FAILED" <=> \E n \in Nodes : ns[n] = "FAILED"
         /\ Aggregate(ns) \in {"RESOLVED", "CANCELLED"}
              <=> \A n \in Nodes : ns[n] \in {"RESOLVED", "CANCELLED"}
         /\ Aggregate(ns) \in {"FAILED", "RESOLVED", "CANCELLED", "RUNNING", "PENDING"}
         /\ (\E n \in Nodes : ns[n] = "RUNNING") => Aggregate(ns) \in {"FAILED", "RUNNING"}
BY DEF Aggregate

\* A FAILED task stays the aggregate of its nodes, whatever moves.
LEMMA FailureIsKept ==
  ASSUME TypeOK, TypeOK', TaskStatusTracksNodes, \A m \in Nodes : Moved(m)
  PROVE  task = "FAILED" => Aggregate(node) = "FAILED" /\ Aggregate(node') = "FAILED"
<1> SUFFICES ASSUME task = "FAILED"
             PROVE  Aggregate(node) = "FAILED" /\ Aggregate(node') = "FAILED"
  OBVIOUS
<1>1. Aggregate(node) = "FAILED"
  BY DEF TaskStatusTracksNodes, Open
<1>2. PICK n \in Nodes : node[n] = "FAILED"
  BY <1>1, AggregateCases DEF TypeOK
<1>3. node'[n] = "FAILED"
  BY <1>2, MovesKeepTerminal DEF Terminal
<1> QED BY <1>1, <1>3, AggregateCases DEF TypeOK

\* What a step does to the task: recompute it from the nodes; nothing, with the
\* nodes unchanged; set it running, with a queued node, if it was pending;
\* leave it, with a queued node set running; or cancel it with its nodes.
TaskEffect ==
  \/ task' \in TaskStatusFromNodes(node')
  \/ UNCHANGED <<task, node>>
  \/ /\ task' \in {task, TaskRunning}
     /\ \E n \in Nodes : node[n] \in {"PENDING", "BLOCKED"} /\ node'[n] = "RUNNING"
     /\ \A n \in Nodes : node'[n] \in {node[n], "RUNNING"}
  \/ task \notin Terminal /\ task' = "CANCELLED" /\ node' = CloseNodes(node)

\* Every step does one of these.
LEMMA StepTask == ASSUME TypeOK, [Next]_vars PROVE TaskEffect
<1>1. ASSUME NEW a \in Agents, NEW n \in Nodes, AgentStep(a, n) PROVE TaskEffect
  <2>1. CASE ClaimNode(a, n)
    BY <2>1 DEF ClaimNode, TaskEffect, TypeOK
  <2>2. CASE ReleaseNode(a, n) \/ CompleteNode(a, n)
    BY <2>2 DEF ReleaseNode, CompleteNode, TaskEffect
  <2> QED BY <1>1, <2>1, <2>2 DEF AgentStep
<1>2. CASE CloseTask
  BY <1>2 DEF CloseTask, TaskEffect
<1>3. ASSUME NEW n \in Charged, Spend(n) PROVE TaskEffect
  <2>1. n \in Nodes /\ node[n] \in {"PENDING", "RUNNING"}
    BY <1>3, PartiesAssumption
       DEF Spend, ValidNodeTransition, NodeTransitions, TypeOK, NodeStatus
  <2>2. node' = [node EXCEPT ![n] = "RUNNING"] /\ task' = task
    BY <1>3 DEF Spend
  <2>3. CASE node[n] = "RUNNING"
    <3>1. node' = node
      BY <2>1, <2>2, <2>3 DEF TypeOK
    <3> QED BY <2>2, <3>1 DEF TaskEffect
  <2>4. CASE node[n] = "PENDING"
    BY <2>1, <2>2, <2>4 DEF TaskEffect, TypeOK
  <2> QED BY <2>1, <2>3, <2>4
<1>4. ASSUME NEW r \in Runners, TickStep(r) \/ Crash(r) PROVE TaskEffect
  <2>1. CASE Recovered(r)
    <3> DEFINE found == IF lease = "away" THEN {} ELSE Reclaimable
    <3>1. /\ node' = [n \in Nodes |-> IF n \in found THEN "PENDING" ELSE node[n]]
          /\ task' = IF found = {} THEN task ELSE Aggregate(node')
      BY <2>1 DEF Recovered
    <3> HIDE DEF found
    <3>2. CASE found = {}
      BY <3>1, <3>2 DEF TaskEffect, TypeOK
    <3>3. CASE found # {}
      BY <3>1, <3>3 DEF TaskEffect, TaskStatusFromNodes
    <3> QED BY <3>2, <3>3
  <2>2. CASE ClaimExecutableNodes(r)
    <3>1. PICK batch \in SUBSET Executable :
            /\ batch # {}
            /\ node' = [n \in Nodes |-> IF n \in batch THEN "RUNNING" ELSE node[n]]
      BY <2>2 DEF ClaimExecutableNodes
    <3>2. task' = TaskRunning
      BY <2>2 DEF ClaimExecutableNodes
    <3> QED BY <3>1, <3>2 DEF Executable, TaskEffect
  <2>3. CASE ~Recovered(r) /\ ~ClaimExecutableNodes(r)
    BY <1>4, <2>3 DEF TickStep, Start, Crash, TickRejected, TickFailed, store, TaskEffect
  <2> QED BY <2>1, <2>2, <2>3
<1>5. ASSUME NEW r \in Runners, NEW n \in Nodes, NodeStep(r, n) \/ NodeError(r, n)
      PROVE  TaskEffect
  BY <1>5 DEF NodeStep, NodeError, StartNode, ExecuteNode, FinishNode, Errors, store, TaskEffect
<1>6. ASSUME NEW s \in LeaseStates, LoseLease(s) PROVE TaskEffect
  BY <1>6 DEF LoseLease, store, TaskEffect
<1>7. CASE RegainLease
  BY <1>7 DEF RegainLease, store, TaskEffect
<1>8. CASE UNCHANGED vars
  BY <1>8 DEF vars, TaskEffect
<1> QED BY <1>1, <1>2, <1>3, <1>4, <1>5, <1>6, <1>7, <1>8 DEF Next

\* Each effect keeps the task in step with the nodes.
LEMMA TracksStep ==
  ASSUME TypeOK, TypeOK', TaskStatusTracksNodes, TaskEffect, \A m \in Nodes : Moved(m)
  PROVE  TaskStatusTracksNodes'
<1>1. CASE task' \in TaskStatusFromNodes(node')
  BY <1>1, FailureIsKept DEF TaskStatusFromNodes, TaskStatusTracksNodes
<1>2. CASE UNCHANGED <<task, node>>
  BY <1>2 DEF TaskStatusTracksNodes, Aggregate
<1>3. CASE /\ task' \in {task, TaskRunning}
           /\ \E n \in Nodes : node[n] \in {"PENDING", "BLOCKED"} /\ node'[n] = "RUNNING"
           /\ \A n \in Nodes : node'[n] \in {node[n], "RUNNING"}
  <2>1. Aggregate(node) \notin {"RESOLVED", "CANCELLED"}
    BY Zenon, <1>3, AggregateCases DEF TypeOK
  <2>2. CASE Aggregate(node) = "FAILED"
    <3>1. task = "FAILED"
      BY <2>2 DEF TaskStatusTracksNodes, Open
    <3> QED BY <1>3, <3>1, FailureIsKept DEF TaskRunning, TaskStatusTracksNodes
  <2>3. CASE Aggregate(node) # "FAILED"
    <3>1. task' \in Open
      BY <1>3, <2>1, <2>3, AggregateCases DEF TaskStatusTracksNodes, TypeOK, Open, TaskRunning
    <3>2. Aggregate(node') # "FAILED"
      BY <1>3, <2>3, AggregateCases DEF TypeOK
    <3>3. Aggregate(node') = "RUNNING"
      BY <1>3, <3>2, AggregateCases DEF TypeOK
    <3> QED BY <3>1, <3>3 DEF TaskStatusTracksNodes, Open
  <2> QED BY <2>2, <2>3
<1>4. CASE task \notin Terminal /\ task' = "CANCELLED" /\ node' = CloseNodes(node)
  <2>1. Aggregate(node) # "FAILED"
    BY <1>4 DEF TaskStatusTracksNodes, Terminal, Open
  <2>2. \A n \in Nodes : node'[n] \in {"RESOLVED", "CANCELLED"}
    BY <1>4, <2>1, AggregateCases DEF CloseNodes, Terminal, TypeOK
  <2>3. Aggregate(node') \in {"RESOLVED", "CANCELLED"}
    BY <2>2, AggregateCases DEF TypeOK
  <2> QED BY <1>4, <2>3 DEF TaskStatusTracksNodes
<1> QED BY <1>1, <1>2, <1>3, <1>4 DEF TaskEffect

-----------------------------------------------------------------------------
(* The claims *)

\* What a step may do to a claim: complete it with its node; give it to nobody
\* else while it is active.
ClaimEffect(n) ==
  /\ claim'[n].status = "COMPLETED"
       => claim[n].status = "COMPLETED" \/ node'[n] = "RESOLVED"
  /\ claim[n].status = "CLAIMED" => claim'[n].agent = claim[n].agent

\* Every step treats every claim so.
LEMMA StepClaims == ASSUME TypeOK, [Next]_vars PROVE \A m \in Nodes : ClaimEffect(m)
<1> SUFFICES ASSUME NEW m \in Nodes PROVE ClaimEffect(m)
  OBVIOUS
<1>0. ASSUME UNCHANGED claim PROVE ClaimEffect(m)
  BY <1>0 DEF ClaimEffect
<1>1. ASSUME NEW a \in Agents, NEW n \in Nodes, AgentStep(a, n) PROVE ClaimEffect(m)
  <2>1. CASE ClaimNode(a, n)
    BY <2>1 DEF ClaimNode, ClaimEffect, TypeOK
  <2>2. CASE ReleaseNode(a, n)
    <3>1. claim' = [claim EXCEPT ![n].status = "RELEASED"]
      BY <2>2 DEF ReleaseNode
    <3> QED BY <3>1 DEF ClaimEffect, TypeOK
  <2>3. CASE CompleteNode(a, n)
    <3>1. claim' = [claim EXCEPT ![n].status = "COMPLETED"]
      BY <2>3 DEF CompleteNode
    <3>2. node'[n] = "RESOLVED"
      <4>1. node' = ResolveAndUnblock(n) /\ node[n] = "RUNNING"
        BY <2>3 DEF CompleteNode
      <4> QED BY <4>1, GraphAssumption
              DEF ResolveAndUnblock, ValidNodeTransition, NodeTransitions, NodeStatus, TypeOK
    <3> QED BY <3>1, <3>2 DEF ClaimEffect, TypeOK
  <2> QED BY <1>1, <2>1, <2>2, <2>3 DEF AgentStep
<1>2. CASE CloseTask
  BY <1>0, <1>2 DEF CloseTask
<1>3. ASSUME NEW n \in Charged, Spend(n) PROVE ClaimEffect(m)
  BY <1>0, <1>3 DEF Spend
<1>4. ASSUME NEW r \in Runners, TickStep(r) \/ Crash(r) PROVE ClaimEffect(m)
  BY <1>0, <1>4 DEF TickStep, Start, Crash, TickRejected, TickFailed, store, Recovered,
                    ClaimExecutableNodes
<1>5. ASSUME NEW r \in Runners, NEW n \in Nodes, NodeStep(r, n) \/ NodeError(r, n)
      PROVE  ClaimEffect(m)
  BY <1>0, <1>5 DEF NodeStep, NodeError, StartNode, ExecuteNode, FinishNode, Errors, store
<1>6. ASSUME NEW s \in LeaseStates, LoseLease(s) PROVE ClaimEffect(m)
  BY <1>0, <1>6 DEF LoseLease, store
<1>7. CASE RegainLease
  BY <1>0, <1>7 DEF RegainLease, store
<1>8. CASE UNCHANGED vars
  BY <1>0, <1>8 DEF vars
<1> QED BY <1>1, <1>2, <1>3, <1>4, <1>5, <1>6, <1>7, <1>8 DEF Next

\* A completed claim was complete, and its RESOLVED node is final, or the node
\* is resolved by the step that completes it.
LEMMA ClaimsStep ==
  ASSUME CompletedClaimStands, \A m \in Nodes : ClaimEffect(m) /\ Moved(m)
  PROVE  CompletedClaimStands'
BY MovesKeepTerminal DEF CompletedClaimStands, ClaimEffect, Terminal

-----------------------------------------------------------------------------
(* The theorems about the task and the claims *)

\* Nothing is claimed or computed in the initial states.
LEMMA TracksInit == Init => TaskStatusTracksNodes /\ CompletedClaimStands
<1> SUFFICES ASSUME Init PROVE TaskStatusTracksNodes /\ CompletedClaimStands
  OBVIOUS
<1>1. CompletedClaimStands
  BY DEF Init, CompletedClaimStands, Unclaimed
<1>2. node \in [Nodes -> NodeStatus]
  BY TypeInit DEF TypeOK
<1>3. \A n \in Nodes : node[n] \in {"PENDING", "BLOCKED"}
  BY DEF Init
<1>4. Nodes # {}
  BY GraphAssumption
<1>5. Aggregate(node) = "PENDING"
  BY <1>2, <1>3, <1>4 DEF Aggregate
<1> QED BY <1>1, <1>5 DEF Init, TaskStatusTracksNodes, Open

\* IInv is inductive.
LEMMA InvStep == IInv /\ [Next]_vars => IInv'
<1> SUFFICES ASSUME IInv, [Next]_vars PROVE IInv'
  OBVIOUS
<1>1. Order'
  BY OrderStep DEF IInv
<1>2. \A m \in Nodes : Moved(m)
  BY StepMoves DEF IInv, Order
<1>3. TaskStatusTracksNodes'
  BY <1>1, <1>2, StepTask, TracksStep DEF IInv, Order
<1>4. CompletedClaimStands'
  BY <1>2, StepClaims, ClaimsStep DEF IInv, Order
<1> QED BY <1>1, <1>3, <1>4 DEF IInv

\* The stored status of a task is never in conflict with its nodes
\* (TaskStatusTracksNodes), although claims, spends and cancellations write it
\* without the recomputation of updateTaskStatusFromNodesTx.
THEOREM TaskStatusTracked == Spec => []TaskStatusTracksNodes
<1>1. Init => IInv
  BY OrderInit, TracksInit DEF IInv
<1>2. IInv => TaskStatusTracksNodes
  BY DEF IInv
<1> QED BY <1>1, <1>2, InvStep, PTL DEF Spec

\* A RESOLVED or CANCELLED task has no node left to run (ClosedTaskQuiet).
THEOREM ClosedTaskIsQuiet == Spec => []ClosedTaskQuiet
<1>1. Init => IInv
  BY OrderInit, TracksInit DEF IInv
<1>2. IInv => ClosedTaskQuiet
  BY AggregateCases
     DEF IInv, Order, TypeOK, TaskStatusTracksNodes, ClosedTaskQuiet, Open, Terminal
<1> QED BY <1>1, <1>2, InvStep, PTL DEF Spec

\* The node of a COMPLETED claim is RESOLVED for good (CompletedClaimStands).
THEOREM CompletedClaimsStand == Spec => []CompletedClaimStands
<1>1. Init => IInv
  BY OrderInit, TracksInit DEF IInv
<1>2. IInv => CompletedClaimStands
  BY DEF IInv
<1> QED BY <1>1, <1>2, InvStep, PTL DEF Spec

\* No step gives an active claim to another agent (ClaimNotStolen).
THEOREM ClaimsAreNotStolen == Spec => ClaimNotStolen
<1>1. Order /\ [Next]_vars
        => [\A n \in Nodes : claim[n].status = "CLAIMED"
                               => claim'[n].agent = claim[n].agent]_vars
  BY StepClaims DEF Order, ClaimEffect
<1> QED BY OrderInit, OrderStep, <1>1, PTL DEF Spec, ClaimNotStolen

-----------------------------------------------------------------------------
(* One runner process *)

\* Without agents and with one runner, a step leaves the nodes of its goroutines
\* alone until they are finished: the recovery and the next batch wait for them.
LEMMA ExecutingStep ==
  ASSUME Agents = {}, \A q, r \in Runners : q = r,
         TypeOK, ExecutingNodeRunning, [Next]_vars
  PROVE  ExecutingNodeRunning'
<1> SUFFICES ASSUME NEW r \in Runners, NEW n \in Nodes, run'[r][n] # "none"
             PROVE  node'[n] \in {"RUNNING", "CANCELLED"}
  BY DEF ExecutingNodeRunning
<1>0. CASE run[r][n] = "none"
  <2>1. node'[n] = "RUNNING"
    BY <1>0, StepGoroutines
  <2> QED BY <2>1
<1> SUFFICES ASSUME run[r][n] # "none" PROVE node'[n] \in {"RUNNING", "CANCELLED"}
  BY <1>0
<1>1. node[n] \in {"RUNNING", "CANCELLED"}
  BY DEF ExecutingNodeRunning
<1>2. ~Quiet(r)
  BY DEF Quiet, NoGoroutines
<1>3. CASE CloseTask
  BY <1>1, <1>3 DEF CloseTask, CloseNodes, Terminal
<1>4. ASSUME NEW m \in Charged, Spend(m) PROVE node'[n] \in {"RUNNING", "CANCELLED"}
  BY <1>1, <1>4 DEF Spend, TypeOK
<1>5. ASSUME NEW q \in Runners, TickStep(q) \/ Crash(q)
      PROVE  node'[n] \in {"RUNNING", "CANCELLED"}
  <2>1. ~Recovered(q) /\ ~ClaimExecutableNodes(q)
    BY <1>2 DEF Recovered, ClaimExecutableNodes, Ticking
  <2> QED BY <1>1, <1>5, <2>1 DEF TickStep, Start, Crash, TickRejected, TickFailed, store
<1>6. ASSUME NEW q \in Runners, NEW m \in Nodes, NodeStep(q, m) \/ NodeError(q, m)
      PROVE  node'[n] \in {"RUNNING", "CANCELLED"}
  <2>1. CASE UNCHANGED node
    BY <1>1, <2>1
  <2>2. CASE ~UNCHANGED node
    <3>1. FinishNode(q, m) /\ ~Errors(q, m)
      BY <1>6, <2>2 DEF NodeStep, NodeError, StartNode, ExecuteNode, FinishNode, Errors, store
    <3>2. Goto(q, m, "none") /\ \E s : node' = [node EXCEPT ![m] = s]
      BY <3>1 DEF FinishNode
    <3>3. q = r
      OBVIOUS
    <3>4. m # n
      BY <3>2, <3>3 DEF Goto, TypeOK
    <3> QED BY <1>1, <3>2, <3>4 DEF TypeOK
  <2> QED BY <2>1, <2>2
<1>7. CASE UNCHANGED node
  BY <1>1, <1>7
<1> QED BY <1>3, <1>4, <1>5, <1>6, <1>7 DEF Next, LoseLease, RegainLease, store, vars

\* A daemon that is the only one to run nodes never queues or finishes a node
\* under a goroutine that works on it (ExecutingNodeRunning): RunOnce waits for
\* its batch before it recovers or claims again.
THEOREM ExecutingNodesRun ==
  ASSUME Agents = {}, \A q, r \in Runners : q = r
  PROVE  Spec => []ExecutingNodeRunning
<1>1. Init => ExecutingNodeRunning
  BY DEF Init, ExecutingNodeRunning, NoGoroutines
<1>2. TypeOK /\ ExecutingNodeRunning /\ [Next]_vars => ExecutingNodeRunning'
  BY ExecutingStep
<1> QED BY <1>1, <1>2, TypeInit, TypeStep, PTL DEF Spec

=============================================================================
