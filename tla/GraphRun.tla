------------------------------ MODULE GraphRun ------------------------------
(***************************************************************************)
(* What the execution of a task promises of its node graph, whoever claims *)
(* and executes the nodes: a node is admitted once its dependencies are    *)
(* resolved, only an admitted node comes to an end, an end is final, and a *)
(* cancellation ends all the nodes that had not ended.                     *)
(***************************************************************************)
CONSTANTS Nodes, Deps

VARIABLE stage  \* per node: BLOCKED, ADMITTED, RESOLVED, FAILED or CANCELLED

Init == stage = [n \in Nodes |-> IF Deps[n] = {} THEN "ADMITTED" ELSE "BLOCKED"]

\* With the stages s, nothing keeps the nodes of ready waiting.
Ready(ready, s) ==
  \A n \in ready : s[n] = "BLOCKED" /\ \A d \in Deps[n] : s[d] = "RESOLVED"

Admitting(ready, s) == [n \in Nodes |-> IF n \in ready THEN "ADMITTED" ELSE s[n]]

Admit(ready) == Ready(ready, stage) /\ stage' = Admitting(ready, stage)

\* A node is resolved; some of those that waited for it may be admitted with it.
Resolve(n, ready) ==
  LET resolved == [stage EXCEPT ![n] = "RESOLVED"] IN
  /\ stage[n] = "ADMITTED"
  /\ \A m \in ready : n \in Deps[m]
  /\ Ready(ready, resolved)
  /\ stage' = Admitting(ready, resolved)

Fail(n) == stage[n] = "ADMITTED" /\ stage' = [stage EXCEPT ![n] = "FAILED"]

Cancel ==
  stage' = [n \in Nodes |-> IF stage[n] \in {"BLOCKED", "ADMITTED"}
                            THEN "CANCELLED" ELSE stage[n]]

Next ==
  \/ \E ready \in SUBSET Nodes : Admit(ready) \/ \E n \in Nodes : Resolve(n, ready)
  \/ \E n \in Nodes : Fail(n)
  \/ Cancel

Spec == Init /\ [][Next]_stage
=============================================================================
