---------------------------- MODULE DagExecution ----------------------------
(***************************************************************************)
(* Execution of one task's node graph (rows of tasks, dag_nodes,           *)
(* node_dependencies and node_claims), driven by                           *)
(*   - runner processes (internal/daemon/runner.go): the DAG daemon of     *)
(*     `rhizome serve`, `rhizome daemon` and `rhizome task run`, each with *)
(*     a start-up recovery and one goroutine per claimed node;             *)
(*   - agents that claim, release and complete nodes over RPC              *)
(*     (internal/storage/sqlite/node_claims.go);                           *)
(*   - the operator, who cancels the task or charges a node.               *)
(* Every store operation is one IMMEDIATE transaction, hence one step.  A  *)
(* step that the code rolls back is no step.  The workspace lease that     *)
(* fences the transactions is modelled in WorkspaceAuthority; here it is   *)
(* what the fence of the local node would answer:                          *)
(*   live    the fence holds,                                              *)
(*   lapsed  the row names the local node but the fence rejects,           *)
(*   away    another node is the holder.                                   *)
(* attempt_count, the audit rows and the operation ledger are left out: no *)
(* guard reads them.                                                       *)
(* The task is one that nobody claims as a whole (task_claims) and that    *)
(* stands for no project receipt: those transactions, which close all the  *)
(* nodes of a task at once, are outside this module.                       *)
(***************************************************************************)
EXTENDS Naturals, FiniteSets

CONSTANTS Nodes,        \* the task's nodes
          Deps,         \* [Nodes -> SUBSET Nodes], node_dependencies
          Agents,       \* agents working on nodes over RPC
          Runners,      \* processes that own a daemon.Runner
          Exits,        \* those that end when a tick returns an error
          Charged,      \* nodes the operator may charge with `finops spend`
          LeaseStates,  \* answers of the fence that may occur
          MaxNodesPerTick,
          MaxFaults,    \* bound on crashes, node errors and lease losses
          None          \* no agent

ASSUME GraphAssumption ==
    /\ Nodes # {}
    /\ Deps \in [Nodes -> SUBSET Nodes]
ASSUME PartiesAssumption ==
    /\ None \notin Agents
    /\ Exits \subseteq Runners
    /\ Charged \subseteq Nodes
    /\ LeaseStates \subseteq {"live", "lapsed", "away"}
    /\ "live" \in LeaseStates
ASSUME BoundsAssumption ==
    MaxNodesPerTick \in Nat \ {0} /\ MaxFaults \in Nat

VARIABLES task,    \* tasks.status
          node,    \* dag_nodes.status
          claim,   \* node_claims: [agent, status]
          lease,   \* the fence's answer for the local node
          proc,    \* per runner process: [up, recovered, failed]
          run,     \* per runner process and node: the goroutine's phase
          faults   \* faults so far

store == <<task, node, claim>>
vars  == <<task, node, claim, lease, proc, run, faults>>

NodeStatus   == {"BLOCKED", "PENDING", "RUNNING", "RESOLVED", "FAILED", "CANCELLED"}
TaskStatus   == {"PENDING", "RUNNING", "RESOLVED", "FAILED", "CANCELLED"}
Terminal     == {"RESOLVED", "FAILED", "CANCELLED"}
Open         == {"PENDING", "RUNNING"}
ClaimStatus  == {"NONE", "CLAIMED", "RELEASED", "COMPLETED"}
Phase        == {"none", "claimed", "executing", "retrying", "resolving", "failing"}
Unclaimed    == [agent |-> None, status |-> "NONE"]
Down         == [up |-> FALSE, recovered |-> FALSE, failed |-> FALSE]
NoGoroutines == [n \in Nodes |-> "none"]

-----------------------------------------------------------------------------
(* Operators of the store *)

\* Mutant: a late failure may overwrite a result.
NodeTransitionsLateFailure ==
    [s \in NodeStatus |->
        CASE s = "PENDING"  -> {"RUNNING", "FAILED", "CANCELLED"}
          [] s = "BLOCKED"  -> {"PENDING", "FAILED", "CANCELLED"}
          [] s = "RUNNING"  -> {"PENDING", "BLOCKED", "RESOLVED", "FAILED", "CANCELLED"}
          [] s = "FAILED"   -> {"PENDING", "CANCELLED"}
          [] s = "RESOLVED" -> {"FAILED"}
          [] OTHER          -> {}]

\* nodeTransitions; no code writes AWAITING_FUNDS, so its row and column are
\* left out.  Rewriting the same status is allowed.
NodeTransitions ==
    [s \in NodeStatus |->
        CASE s = "PENDING" -> {"RUNNING", "FAILED", "CANCELLED"}
          [] s = "BLOCKED" -> {"PENDING", "FAILED", "CANCELLED"}
          [] s = "RUNNING" -> {"PENDING", "BLOCKED", "RESOLVED", "FAILED", "CANCELLED"}
          [] s = "FAILED"  -> {"PENDING", "CANCELLED"}
          [] OTHER         -> {}]

ValidNodeTransition(from, to) == from = to \/ to \in NodeTransitions[from]

\* Mutant: a dependency that is over counts as resolved.
DepsOver(n, ns) == \A d \in Deps[n] : ns[d] \in Terminal

DepsResolved(n, ns) == \A d \in Deps[n] : ns[d] = "RESOLVED"

Aggregate(ns) ==
    LET some(S) == \E n \in Nodes : ns[n] \in S IN
    IF some({"FAILED"}) THEN "FAILED"
    ELSE IF \A n \in Nodes : ns[n] \in {"RESOLVED", "CANCELLED"}
         THEN IF some({"RESOLVED"}) THEN "RESOLVED" ELSE "CANCELLED"
    ELSE IF some({"RUNNING", "RESOLVED"}) THEN "RUNNING"
    ELSE "PENDING"

\* Mutant: the contract may refuse every status.
TaskStatusRefusable(ns) == {Aggregate(ns), task}

\* updateTaskStatusFromNodesTx: what the recomputed status may be.  The
\* completion contract may refuse RESOLVED, and then the status is kept.
TaskStatusFromNodes(ns) ==
    {Aggregate(ns)} \cup (IF Aggregate(ns) = "RESOLVED" THEN {task} ELSE {})

\* The claiming transactions only move a PENDING task.
TaskRunning == IF task = "PENDING" THEN "RUNNING" ELSE task

\* Mutant: results already recorded are cancelled too.
CloseAllNodes(ns) == [n \in Nodes |-> "CANCELLED"]

\* Mutant: a node that is executing is left to finish.
CloseQueuedNodes(ns) ==
    [n \in Nodes |-> IF ns[n] \in Terminal \cup {"RUNNING"} THEN ns[n] ELSE "CANCELLED"]

CloseNodes(ns) == [n \in Nodes |-> IF ns[n] \in Terminal THEN ns[n] ELSE "CANCELLED"]

\* Mutant: the other dependencies of a dependent are not looked at.
ResolveAndUnblockAll(n) ==
    [m \in Nodes |-> IF m = n THEN "RESOLVED"
                     ELSE IF n \in Deps[m] /\ ValidNodeTransition(node[m], "PENDING")
                     THEN "PENDING" ELSE node[m]]

\* completeNodeClaimWithEvent: n is resolved, and each dependent whose
\* dependencies are now all resolved is set PENDING if that is a transition.
ResolveAndUnblock(n) ==
    LET resolved == [node EXCEPT ![n] = "RESOLVED"] IN
    [m \in Nodes |->
        IF /\ n \in Deps[m]
           /\ DepsResolved(m, resolved)
           /\ ValidNodeTransition(resolved[m], "PENDING")
        THEN "PENDING" ELSE resolved[m]]

Executable == {n \in Nodes : /\ task \in Open
                             /\ node[n] \in {"PENDING", "BLOCKED"}
                             /\ DepsResolved(n, node)}
Reclaimable == {n \in Nodes : task \in Open /\ node[n] = "RUNNING"}

-----------------------------------------------------------------------------
(* Agents, over RPC *)

ClaimedBy(a, n) == claim[n] = [agent |-> a, status |-> "CLAIMED"]

\* Mutant: the claim of another agent is overwritten.
ClaimNodeOver(a, n) ==
    /\ lease = "live"
    /\ node[n] = "PENDING"
    /\ claim' = [claim EXCEPT ![n] = [agent |-> a, status |-> "CLAIMED"]]
    /\ node' = [node EXCEPT ![n] = "RUNNING"]
    /\ task' = TaskRunning
    /\ UNCHANGED <<lease, proc, run, faults>>

ClaimNode(a, n) ==
    /\ lease = "live"
    /\ node[n] = "PENDING"
    /\ claim[n].status = "CLAIMED" => claim[n].agent = a
    /\ claim' = [claim EXCEPT ![n] = [agent |-> a, status |-> "CLAIMED"]]
    /\ node' = [node EXCEPT ![n] = "RUNNING"]
    /\ task' = TaskRunning
    /\ UNCHANGED <<lease, proc, run, faults>>

\* Only a node that is still RUNNING or PENDING goes back to the queue.
StatusAfterRelease(n) ==
    IF node[n] \notin {"RUNNING", "PENDING"} THEN node[n]
    ELSE IF DepsResolved(n, node) THEN "PENDING" ELSE "BLOCKED"

ReleaseNode(a, n) ==
    /\ lease = "live"
    /\ ClaimedBy(a, n)
    /\ ValidNodeTransition(node[n], StatusAfterRelease(n))
    /\ claim' = [claim EXCEPT ![n].status = "RELEASED"]
    /\ node' = [node EXCEPT ![n] = StatusAfterRelease(n)]
    /\ task' \in TaskStatusFromNodes(node')
    /\ UNCHANGED <<lease, proc, run, faults>>

CompleteNode(a, n) ==
    /\ lease = "live"
    /\ ClaimedBy(a, n)
    /\ node[n] = "RUNNING"
    /\ claim' = [claim EXCEPT ![n].status = "COMPLETED"]
    /\ node' = ResolveAndUnblock(n)
    /\ task' \in TaskStatusFromNodes(node')
    /\ UNCHANGED <<lease, proc, run, faults>>

-----------------------------------------------------------------------------
(* The operator *)

\* An execution task can only be closed as CANCELLED; repeating that changes
\* nothing here, and any other terminal status refuses it.
CloseTask ==
    /\ lease = "live"
    /\ task \notin Terminal
    /\ node' = CloseNodes(node)
    /\ task' = "CANCELLED"
    /\ UNCHANGED <<claim, lease, proc, run, faults>>

\* `finops spend` ends in an unfenced SetNodeStatus(RUNNING) that neither
\* looks at the dependencies nor recomputes the task.
Spend(n) ==
    /\ ValidNodeTransition(node[n], "RUNNING")
    /\ node' = [node EXCEPT ![n] = "RUNNING"]
    /\ UNCHANGED <<task, claim, lease, proc, run, faults>>

-----------------------------------------------------------------------------
(* Runner processes *)

\* Mutant: the next tick does not wait for the batch.
QuietAlways(r) == TRUE

\* RunOnce waits for the goroutines of its batch.
Quiet(r) == run[r] = NoGoroutines

Ticking(r) == proc[r].up /\ ~proc[r].failed /\ Quiet(r)

Start(r) ==
    /\ ~proc[r].up
    /\ proc' = [proc EXCEPT ![r].up = TRUE]
    /\ UNCHANGED <<store, lease, run, faults>>

\* The process dies, or stops between ticks.
Crash(r) ==
    /\ proc[r].up
    /\ faults < MaxFaults
    /\ faults' = faults + 1
    /\ proc' = [proc EXCEPT ![r] = Down]
    /\ run' = [run EXCEPT ![r] = NoGoroutines]
    /\ UNCHANGED <<store, lease>>

\* ensureStartupRecovery: the nodes found RUNNING, whoever runs them, go
\* back to PENDING.  Without a row that names the local node there is nothing
\* to do and the recovery counts as done.
Recovered(r) ==
    /\ Ticking(r)
    /\ ~proc[r].recovered
    /\ LET found == IF lease = "away" THEN {} ELSE Reclaimable IN
       /\ found # {} => lease = "live"
       /\ node' = [n \in Nodes |-> IF n \in found THEN "PENDING" ELSE node[n]]
       /\ task' = IF found = {} THEN task ELSE Aggregate(node')
    /\ proc' = [proc EXCEPT ![r].recovered = TRUE]
    /\ UNCHANGED <<claim, lease, run, faults>>

\* ClaimExecutableNodes: one batch of the tick, a goroutine for each node.
\* node_claims is not consulted.
ClaimExecutableNodes(r) ==
    /\ Ticking(r)
    /\ proc[r].recovered
    /\ lease = "live"
    /\ \E batch \in SUBSET Executable :
        /\ batch # {}
        /\ Cardinality(batch) <= MaxNodesPerTick
        /\ batch # Executable => Cardinality(batch) = MaxNodesPerTick
        /\ node' = [n \in Nodes |-> IF n \in batch THEN "RUNNING" ELSE node[n]]
        /\ run' = [run EXCEPT ![r] = [n \in Nodes |-> IF n \in batch THEN "claimed" ELSE "none"]]
    /\ task' = TaskRunning
    /\ UNCHANGED <<claim, lease, proc, faults>>

\* Mutant: the recovery counts as done before it is tried.
TickRejectedRecovered(r) ==
    /\ Ticking(r)
    /\ lease = "lapsed"
    /\ IF proc[r].recovered THEN Executable # {} ELSE Reclaimable # {}
    /\ proc' = [proc EXCEPT ![r].failed = TRUE, ![r].recovered = TRUE]
    /\ UNCHANGED <<store, lease, run, faults>>

\* The fence rejects the recovery or the batch: the tick returns an error.
TickRejected(r) ==
    /\ Ticking(r)
    /\ lease = "lapsed"
    /\ IF proc[r].recovered THEN Executable # {} ELSE Reclaimable # {}
    /\ proc' = [proc EXCEPT ![r].failed = TRUE]
    /\ UNCHANGED <<store, lease, run, faults>>

\* Mutant: `daemon` goes on after a failed tick.
TickFailedGoesOn(r) ==
    /\ proc[r].failed
    /\ Quiet(r)
    /\ proc' = [proc EXCEPT ![r].failed = FALSE]
    /\ UNCHANGED <<store, lease, run, faults>>

\* After a failed tick `daemon` and `task run` end; `serve` logs and goes on.
TickFailed(r) ==
    /\ proc[r].failed
    /\ Quiet(r)
    /\ proc' = [proc EXCEPT ![r] = IF r \in Exits THEN Down ELSE [@ EXCEPT !.failed = FALSE]]
    /\ UNCHANGED <<store, lease, run, faults>>

-----------------------------------------------------------------------------
(* A goroutine of a batch: runNode *)

Goto(r, n, phase) == run' = [run EXCEPT ![r][n] = phase]

\* The goroutine returns an error; the node keeps its status.
Errors(r, n) ==
    /\ Goto(r, n, "none")
    /\ proc' = [proc EXCEPT ![r].failed = TRUE]
    /\ UNCHANGED store

\* The first transaction recomputes the task.  A missing script or a disabled
\* executor fails the node without running it.
StartNode(r, n) ==
    /\ run[r][n] = "claimed"
    /\ \/ /\ lease = "live"
          /\ task' \in TaskStatusFromNodes(node)
          /\ \E phase \in {"executing", "failing"} : Goto(r, n, phase)
          /\ UNCHANGED <<node, claim, proc>>
       \/ lease # "live" /\ Errors(r, n)
    /\ UNCHANGED <<lease, faults>>

\* runNodeWithRetry: a timeout or a runner crash is retried once.
ExecuteNode(r, n) ==
    /\ run[r][n] \in {"executing", "retrying"}
    /\ \E phase \in {"resolving", "failing"} \cup
                    (IF run[r][n] = "executing" THEN {"retrying"} ELSE {}) :
            Goto(r, n, phase)
    /\ UNCHANGED <<store, lease, proc, faults>>

Outcome(phase) == IF phase = "resolving" THEN "RESOLVED" ELSE "FAILED"

\* SetNodeStatusAndUpdateTaskStatusWithWorkspaceAuthority.
FinishNode(r, n) ==
    /\ run[r][n] \in {"resolving", "failing"}
    /\ LET status == Outcome(run[r][n]) IN
       \/ /\ lease = "live"
          /\ ValidNodeTransition(node[n], status)
          /\ node' = [node EXCEPT ![n] = status]
          /\ task' \in TaskStatusFromNodes(node')
          /\ Goto(r, n, "none")
          /\ UNCHANGED <<claim, proc>>
       \/ /\ lease # "live" \/ ~ValidNodeTransition(node[n], status)
          /\ Errors(r, n)
    /\ UNCHANGED <<lease, faults>>

\* A ledger, audit or database error, or the end of the tick's deadline.
NodeError(r, n) ==
    /\ run[r][n] # "none"
    /\ faults < MaxFaults
    /\ faults' = faults + 1
    /\ Errors(r, n)
    /\ UNCHANGED lease

-----------------------------------------------------------------------------
(* The lease *)

LoseLease(s) ==
    /\ s # "live" /\ s # lease
    /\ faults < MaxFaults
    /\ faults' = faults + 1
    /\ lease' = s
    /\ UNCHANGED <<store, proc, run>>

RegainLease ==
    /\ lease # "live"
    /\ lease' = "live"
    /\ UNCHANGED <<store, proc, run, faults>>

-----------------------------------------------------------------------------
Init ==
    /\ task = "PENDING"
    /\ node = [n \in Nodes |-> IF Deps[n] = {} THEN "PENDING" ELSE "BLOCKED"]
    /\ claim = [n \in Nodes |-> Unclaimed]
    /\ lease = "live"
    /\ proc = [r \in Runners |-> Down]
    /\ run = [r \in Runners |-> NoGoroutines]
    /\ faults = 0

AgentStep(a, n) == ClaimNode(a, n) \/ ReleaseNode(a, n) \/ CompleteNode(a, n)
TickStep(r) == Start(r) \/ Recovered(r) \/ ClaimExecutableNodes(r) \/ TickRejected(r) \/ TickFailed(r)
NodeStep(r, n) == StartNode(r, n) \/ ExecuteNode(r, n) \/ FinishNode(r, n)

Next ==
    \/ \E a \in Agents, n \in Nodes : AgentStep(a, n)
    \/ CloseTask
    \/ \E n \in Charged : Spend(n)
    \/ \E r \in Runners : TickStep(r) \/ Crash(r)
    \/ \E r \in Runners, n \in Nodes : NodeStep(r, n) \/ NodeError(r, n)
    \/ \E s \in LeaseStates : LoseLease(s)
    \/ RegainLease

Spec == Init /\ [][Next]_vars

\* The loops of a live process keep ticking, its goroutines run, the executor
\* answers or its time-out does, a process that is down is started again, and a
\* lost lease comes back.  Nothing is assumed of agents and operators.
Fairness ==
    /\ \A r \in Runners :
        /\ WF_vars(TickStep(r))
        /\ \A n \in Nodes : WF_vars(NodeStep(r, n))
    /\ WF_vars(RegainLease)

FairSpec == Spec /\ Fairness

-----------------------------------------------------------------------------
(* Properties *)

\* The columns hold the values the transactions may write, and the state of a
\* runner and of its goroutines is one the tick can be in.
TypeOK ==
    /\ task \in TaskStatus
    /\ node \in [Nodes -> NodeStatus]
    /\ claim \in [Nodes -> [agent : Agents \cup {None}, status : ClaimStatus]]
    /\ lease \in LeaseStates
    /\ proc \in [Runners -> [up : BOOLEAN, recovered : BOOLEAN, failed : BOOLEAN]]
    /\ run \in [Runners -> [Nodes -> Phase]]
    /\ faults \in 0 .. MaxFaults

\* A node that was ever put in the queue, runs, succeeded or failed has all its
\* dependencies resolved, although the daemon, the release and completion of
\* claims, the restart recovery and `finops spend` decide this separately and
\* the last two look at no dependency.
DependencyOrder ==
    \A n \in Nodes : node[n] \in {"PENDING", "RUNNING", "RESOLVED", "FAILED"}
                        => \A d \in Deps[n] : node[d] = "RESOLVED"

\* No late executor result, release, completion, recovery or cancellation
\* changes a node that is RESOLVED, FAILED or CANCELLED.  The transition table
\* does allow FAILED -> PENDING, and completing a node asks for it on every
\* dependent: only the order of the graph keeps that from happening.
TerminalNodesFinal ==
    [][\A n \in Nodes : node[n] \in Terminal => node'[n] = node[n]]_vars

\* A node that is queued or runs has been admitted, by whoever queued or
\* claimed it; claims, batches, recoveries and retries do not show.
Stage ==
    [n \in Nodes |-> IF node[n] \in {"PENDING", "RUNNING"} THEN "ADMITTED" ELSE node[n]]

Graph == INSTANCE GraphRun WITH stage <- Stage

\* Runners, agents, recovery, `finops spend` and the cancellation, each with
\* transactions of its own, together run the graph as GraphRun promises: no
\* node ends that was not admitted, none is admitted early or taken back, and a
\* cancellation (CloseTask) leaves none behind.
ImplementsGraphRun == Graph!Spec

\* tasks.status, which five transactions maintain and two do not, says what
\* the nodes say: FAILED exactly when a node failed, closed only when all nodes
\* are terminal, open only when one is not -- unless the completion contract
\* refuses RESOLVED or the operator cancelled the rest.
TaskStatusTracksNodes ==
    \/ task = Aggregate(node)
    \/ task \in Open /\ Aggregate(node) \in Open
    \/ Aggregate(node) = "RESOLVED" /\ task # "FAILED"

\* Once a task is RESOLVED or CANCELLED none of its nodes is queued or running,
\* and none ever will be, whatever goroutines and claims are still around.
ClosedTaskQuiet ==
    task \in {"RESOLVED", "CANCELLED"} => \A n \in Nodes : node[n] \in Terminal

\* A claim recorded COMPLETED stays backed by a RESOLVED node: the late result
\* of a runner that executed the same node cannot take it back.
CompletedClaimStands ==
    \A n \in Nodes : claim[n].status = "COMPLETED" => node[n] = "RESOLVED"

\* An agent's active claim is never handed to another agent, even after a
\* restart recovery put the claimed node back in the queue.
ClaimNotStolen ==
    [][\A n \in Nodes : claim[n].status = "CLAIMED"
                            => claim'[n].agent = claim[n].agent]_vars

\* With one runner process and no agents, a node that a goroutine works on is
\* RUNNING, or was cancelled under it: it is never queued for a second time.
ExecutingNodeRunning ==
    \A r \in Runners, n \in Nodes :
        run[r][n] # "none" => node[n] \in {"RUNNING", "CANCELLED"}

Worked(n) == \E r \in Runners : run[r][n] # "none"

\* What a runner process leaves RUNNING when it dies is taken back from there
\* after the restart, even if the lease lapses in between and the first
\* recovery is rejected.
RestartReclaims ==
    \A r \in Runners, n \in Nodes :
        (~proc[r].up /\ node[n] = "RUNNING" /\ task \in Open)
            ~> (node[n] # "RUNNING" \/ task \notin Open)

\* Under `rhizome daemon`, whose process ends on a failed tick and is started
\* again, every queued or running node of an open task is executed to an end,
\* through crashes, goroutine errors and lapses of the lease.
DaemonSettles ==
    \A n \in Nodes : (node[n] \in {"PENDING", "RUNNING"} /\ task \in Open)
                        ~> (node[n] \in Terminal \/ task \notin Open)

\* A terminal task status is never rewritten.
TerminalTaskFinal == [][(task \in Terminal) => (task' = task)]_vars

\* A node that an agent holds an active claim on is not dispatched by a runner.
ClaimedNodeNotDispatched ==
    \A n \in Nodes : claim[n].status = "CLAIMED" => ~Worked(n)
=============================================================================
