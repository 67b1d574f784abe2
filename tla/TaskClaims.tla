----------------------------- MODULE TaskClaims -----------------------------
(***************************************************************************)
(* Whole-task claims of the sqlite store: who may work on a task, how      *)
(* blocking human actions suspend a claim and give it back, how task       *)
(* frontiers admit a claim, how a task is closed and what deleting an      *)
(* agent takes with it.  Module AgentSessions adds the agents' sessions    *)
(* and the maintenance pass that reclaims what silent agents still hold.   *)
(*                                                                         *)
(* Every operation runs in one immediate sqlite transaction and is one     *)
(* action.  The workspace authority fence is assumed held (it is modelled  *)
(* in WorkspaceAuthority).  Task dependencies, project admission and the   *)
(* supersession check only refuse a request; a refused request changes     *)
(* nothing, so they are left to the environment.                           *)
(***************************************************************************)
EXTENDS Integers, FiniteSets

CONSTANTS Agents, Tasks, Sessions, Actions, Generations,
          Carriers,     \* the tasks that carry an authority handoff
          Sidecars,     \* the tasks whose claims may take in a shared sidecar path
          Removable,    \* bound: the agents an operator may delete
          Resolutions,  \* bound: the resolutions a task may be closed with
          Grace,        \* localOwnershipReclaimGrace, in ticks
          None

ASSUME TaskClaimsAssumption ==
    /\ IsFiniteSet(Agents) /\ IsFiniteSet(Tasks) /\ IsFiniteSet(Sessions)
    /\ Carriers \subseteq Tasks /\ Sidecars \subseteq Tasks
    /\ Removable \subseteq Agents
    /\ Resolutions \subseteq {"RESOLVED", "FAILED", "CANCELLED"}
    /\ Grace \in Nat
    /\ None \notin Agents \cup Tasks \cup Sessions \cup Generations

VARIABLES
    registered,  \* rows of agents
    seen,        \* age of agents.last_seen_at
    task,        \* tasks.status
    claim,       \* the task_claims row of a task
    wide,        \* the tasks whose claim has a shared sidecar in its write scope
    blocker,     \* the task_claim_blockers row of a task
    action,      \* the blocking rows of human_actions
    frontier,    \* the agent_task_frontiers row of a generation
    session,     \* the agent_sessions row with its latest update
    signal,      \* the handoff signal posted for a carrier
    sweep,       \* the running maintenance pass
    stale        \* history: tasks left with a blocker row and no block, or
                 \* running without a claim row

claimVars == <<task, claim, wide, blocker, action, frontier>>
vars == <<registered, seen, claimVars, session, signal, sweep, stale>>

TerminalTask == {"RESOLVED", "FAILED", "CANCELLED"}
TerminalClaim == {"COMPLETED", "FAILED", "CANCELLED"}
LiveClaim == {"CLAIMED", "BLOCKED"}
ActiveSession == {"ACTIVE", "HANDOFF_PENDING"}

\* Time is kept as ages.  No comparison tells an age beyond Oldest from it.
Oldest == Grace + 1

NoClaim == [status |-> "NONE", agent |-> None, age |-> 0]
NoBlocker == [kind |-> "NONE", status |-> "NONE", agent |-> None]
NoSession == [status |-> "NONE", agent |-> None, task |-> None,
              to |-> None, age |-> 0, rank |-> 0]
NoAction == [status |-> "NONE", task |-> None]
NoSignal == [status |-> "NONE", age |-> 0]
NoFrontier == [state |-> "NONE", agent |-> None, task |-> None, fresh |-> FALSE]

\* The claim status a task resolution forces on the claim.
ClaimStatusFor(resolution) ==
    IF resolution = "RESOLVED" THEN "COMPLETED" ELSE resolution

Row(status, agent) == [status |-> status, agent |-> agent, age |-> 0]

SessionsOf(t, a) ==
    {s \in Sessions : session[s].task = t /\ session[s].agent = a}

HasActiveSession(t, a) ==
    \E s \in SessionsOf(t, a) : session[s].status \in ActiveSession

\* An agent that has had a session on the task speaks for the claim only
\* through its latest one; an ended one still allows a block and a reclaim.
SessionAuthority(t, a, kind) ==
    \A s \in SessionsOf(t, a) :
        \/ \E r \in SessionsOf(t, a) : session[r].rank > session[s].rank
        \/ session[s].status \in ActiveSession
        \/ kind \in {"reclaim_release", "block"}

\* The claim moves on and the blocker snapshot, if there is one, stays.
SnapshotStays(t) == stale' = IF blocker[t] = NoBlocker THEN stale ELSE stale \cup {t}

-----------------------------------------------------------------------------
(* Agents                                                                  *)

RegisterAgent(a) ==
    /\ a \notin registered
    /\ registered' = registered \cup {a}
    /\ UNCHANGED <<seen, claimVars, session, signal, sweep, stale>>

\* RecordAgentHeartbeat and TouchAgentActivity.
Heartbeat(a) ==
    /\ a \in registered
    /\ seen[a] # 0
    /\ seen' = [seen EXCEPT ![a] = 0]
    /\ UNCHANGED <<registered, claimVars, session, signal, sweep, stale>>

\* The agents row goes and takes its task_claims and agent_updates rows with
\* it, handoff signals included; sessions, human actions, blocker snapshots
\* and frontiers stay.  A session without updates falls back on its start
\* time and has no handoff.
DeleteAgent(a) ==
    /\ a \in registered
    /\ registered' = registered \ {a}
    /\ seen' = [seen EXCEPT ![a] = Oldest]
    /\ claim' = [t \in Tasks |-> IF claim[t].agent = a THEN NoClaim ELSE claim[t]]
    /\ \E first \in 0..Oldest :
         session' = [s \in Sessions |->
           IF session[s].agent = a /\ session[s].status \in ActiveSession
             THEN [session[s] EXCEPT !.to = None,
                     !.age = IF @ < first THEN first ELSE @]
             ELSE session[s]]
    /\ \E posted \in SUBSET Carriers :
         signal' = [t \in Carriers |-> IF t \in posted THEN NoSignal ELSE signal[t]]
    /\ stale' = stale \cup
         {t \in Tasks : claim[t].agent = a /\ (task[t] = "RUNNING" \/ blocker[t] # NoBlocker)}
    /\ wide' = {t \in wide : claim[t].agent # a}
    /\ UNCHANGED <<task, blocker, action, frontier, sweep>>

-----------------------------------------------------------------------------
(* Task frontiers                                                          *)

\* A frontier offered to an agent, or offered to it again before it decided;
\* of the candidates the model keeps the one task the agent may select.
OfferFrontier(g, a, t) ==
    /\ frontier[g] = NoFrontier \/ (frontier[g].state = "offered" /\ frontier[g].agent = a)
    /\ frontier' = [frontier EXCEPT ![g] =
         [state |-> "offered", agent |-> a, task |-> t, fresh |-> TRUE]]
    /\ UNCHANGED <<registered, seen, task, claim, blocker, action, session, signal, sweep, stale, wide>>

\* Nothing reads more than the state of a frontier that is through.
Decided(state) == [NoFrontier EXCEPT !.state = state]

\* RecordAgentTaskFrontierDecision: an expired frontier takes no decision.
\* "declined" stands for every decision that ends an offer, "claim_failed" for
\* every one that ends a selection.
DecideFrontier(g, decision) ==
    /\ frontier[g].fresh
    /\ \/ frontier[g].state = "offered" /\ decision \in {"selected", "declined"}
       \/ frontier[g].state = "selected" /\ decision = "claim_failed"
    /\ frontier' = [frontier EXCEPT ![g] =
         IF decision = "selected" THEN [@ EXCEPT !.state = decision] ELSE Decided(decision)]
    /\ UNCHANGED <<registered, seen, task, claim, blocker, action, session, signal, sweep, stale, wide>>

\* expires_at passes, while something still depends on it.
ExpireFrontier(g) ==
    /\ frontier[g].fresh
    /\ frontier' = [frontier EXCEPT ![g].fresh = FALSE]
    /\ UNCHANGED <<registered, seen, task, claim, blocker, action, session, signal, sweep, stale, wide>>

Selected(g, a, t) ==
    frontier[g].state = "selected" /\ frontier[g].agent = a /\ frontier[g].task = t

\* Without a frontier a claim is refused while a selection of this agent for
\* this task waits, expired or not; with one the selection must be fresh.
FrontierAdmits(g, a, t) ==
    IF g = None
      THEN \A h \in Generations : ~Selected(h, a, t)
      ELSE Selected(g, a, t) /\ frontier[g].fresh

\* invalidateSelectedTaskFrontierGenerationsTx
WithoutSelections(t) ==
    [g \in Generations |->
       IF frontier[g].state = "selected" /\ frontier[g].task = t
         THEN Decided("claim_failed") ELSE frontier[g]]

-----------------------------------------------------------------------------
(* Claiming, releasing and completing                                      *)

\* Mutant: the snapshot stays.
KeepOwnBlock(t) == UNCHANGED blocker

\* An agent that claims its own BLOCKED claim again clears the snapshot.
ClearOwnBlock(t) ==
    blocker' = IF claim[t].status = "BLOCKED"
                 THEN [blocker EXCEPT ![t] = NoBlocker] ELSE blocker

ClaimTask(a, t, g) ==
    /\ a \in registered
    /\ task[t] \in {"PENDING", "RUNNING"}
    /\ FrontierAdmits(g, a, t)
    /\ task[t] = "RUNNING" => claim[t].status \notin {"NONE", "RELEASED"}
    /\ \/ claim[t].status \in {"NONE", "RELEASED"}
       \/ claim[t].status = "BLOCKED" /\ claim[t].agent = a
    /\ claim' = [claim EXCEPT ![t] = Row("CLAIMED", a)]
    /\ \E scope \in SUBSET ({t} \cap Sidecars) : wide' = (wide \ {t}) \cup scope
    /\ ClearOwnBlock(t)
    /\ task' = [task EXCEPT ![t] = "RUNNING"]
    /\ frontier' = IF g = None THEN frontier
                     ELSE [frontier EXCEPT ![g] = Decided("consumed")]
    /\ UNCHANGED <<registered, seen, action, session, signal, sweep, stale>>

\* Mutant: the task keeps running without an owner.
ReleaseEffectNoReset(t) ==
    /\ claim' = [claim EXCEPT ![t] = Row("RELEASED", claim[t].agent)]
    /\ frontier' = WithoutSelections(t)
    /\ UNCHANGED task

\* Mutant: the task is reset whatever it was.
ReleaseEffectForced(t) ==
    /\ claim' = [claim EXCEPT ![t] = Row("RELEASED", claim[t].agent)]
    /\ task' = [task EXCEPT ![t] = "PENDING"]
    /\ frontier' = WithoutSelections(t)

\* Mutant: selections of the task survive.
ReleaseEffectKeepsSelections(t) ==
    /\ claim' = [claim EXCEPT ![t] = Row("RELEASED", claim[t].agent)]
    /\ task' = [task EXCEPT ![t] = IF @ = "RUNNING" THEN "PENDING" ELSE @]
    /\ UNCHANGED frontier

\* releaseTaskClaimWithAuthorityActorTx: a task that is no longer RUNNING
\* keeps its status.
ReleaseEffect(t) ==
    /\ claim' = [claim EXCEPT ![t] = Row("RELEASED", claim[t].agent)]
    /\ task' = [task EXCEPT ![t] = IF @ = "RUNNING" THEN "PENDING" ELSE @]
    /\ frontier' = WithoutSelections(t)

ReleaseTask(a, t) ==
    /\ claim[t].agent = a
    /\ claim[t].status \in LiveClaim
    /\ SessionAuthority(t, a, "release")
    /\ ReleaseEffect(t)
    /\ SnapshotStays(t)
    /\ UNCHANGED <<registered, seen, blocker, action, session, signal, sweep, wide>>

\* Mutant: the claim completes whatever became of the task.
CompleteTaskUnchecked(a, t) ==
    /\ claim[t].agent = a
    /\ claim[t].status \in LiveClaim
    /\ SessionAuthority(t, a, "transition")
    /\ claim' = [claim EXCEPT ![t] = Row("COMPLETED", a)]
    /\ task' = [task EXCEPT ![t] = IF @ = "RUNNING" THEN "RESOLVED" ELSE @]
    /\ SnapshotStays(t)
    /\ UNCHANGED <<registered, seen, blocker, action, frontier, session, signal, sweep, wide>>

\* transitionTaskClaimWithEvent towards COMPLETED.
CompleteTask(a, t) ==
    /\ claim[t].agent = a
    /\ claim[t].status \in LiveClaim
    /\ task[t] = "RUNNING"
    /\ SessionAuthority(t, a, "transition")
    /\ claim' = [claim EXCEPT ![t] = Row("COMPLETED", a)]
    /\ task' = [task EXCEPT ![t] = "RESOLVED"]
    /\ SnapshotStays(t)
    /\ UNCHANGED <<registered, seen, blocker, action, frontier, session, signal, sweep, wide>>

\* transitionTaskClaimWithEvent towards BLOCKED: no snapshot is taken.
BlockTask(a, t) ==
    /\ claim[t].agent = a
    /\ claim[t].status = "CLAIMED"
    /\ SessionAuthority(t, a, "block")
    /\ claim' = [claim EXCEPT ![t] = Row("BLOCKED", a)]
    /\ UNCHANGED <<registered, seen, task, blocker, action, frontier, session, signal, sweep, stale, wide>>

-----------------------------------------------------------------------------
(* Blocking human actions                                                  *)

\* blockTaskClaimTx: a snapshot that is already there is kept.
BlockClaim(t, a) ==
    \/ /\ claim[t].status = "BLOCKED"
       /\ UNCHANGED <<claim, blocker>>
    \/ /\ claim[t].status # "BLOCKED"
       /\ claim[t].status = "NONE" => a \in registered
       /\ claim' = [claim EXCEPT ![t] =
            Row("BLOCKED", IF claim[t].status = "NONE" THEN a ELSE claim[t].agent)]
       /\ blocker' = [blocker EXCEPT ![t] =
            IF @ # NoBlocker THEN @
            ELSE [kind |-> IF claim[t].status = "NONE" THEN "ABSENT" ELSE "ROW",
                  status |-> claim[t].status, agent |-> claim[t].agent]]

\* unblockTaskClaimTx: the snapshot is written back over whatever the claim
\* is by now, except that an absent claim only replaces a BLOCKED one.
UnblockClaim(t) ==
    LET prior == blocker[t] IN
    \/ prior.kind = "NONE" /\ UNCHANGED <<claim, wide, blocker>>
    \/ /\ prior.kind = "ABSENT"
       /\ IF claim[t].status = "BLOCKED"
            THEN claim' = [claim EXCEPT ![t] = NoClaim] /\ wide' = wide \ {t}
            ELSE UNCHANGED <<claim, wide>>
       /\ blocker' = [blocker EXCEPT ![t] = NoBlocker]
    \/ /\ prior.kind = "ROW"
       /\ prior.agent \in registered
       /\ claim' = [claim EXCEPT ![t] = Row(prior.status, prior.agent)]
       /\ blocker' = [blocker EXCEPT ![t] = NoBlocker]
       /\ UNCHANGED wide

PendingOn(t) == {x \in Actions : action[x] = [status |-> "PENDING", task |-> t]}

CreateHumanAction(x, a, t) ==
    /\ action[x] = NoAction
    /\ BlockClaim(t, a)
    /\ action' = [action EXCEPT ![x] = [status |-> "PENDING", task |-> t]]
    /\ UNCHANGED <<registered, seen, task, frontier, session, signal, sweep, stale, wide>>

\* A FAILED resolution that leaves follow-up queue work preserves the block.
ResolveHumanAction(x, preserveBlocking) ==
    LET t == action[x].task IN
    /\ action[x].status = "PENDING"
    /\ IF PendingOn(t) = {x} /\ ~preserveBlocking
         THEN UnblockClaim(t) ELSE UNCHANGED <<claim, wide, blocker>>
    /\ action' = [action EXCEPT ![x].status = "DONE"]
    /\ UNCHANGED <<registered, seen, task, frontier, session, signal, sweep, stale>>

-----------------------------------------------------------------------------
(* Closing a task                                                          *)

\* The claim, if there is one, follows the task whatever it was.
ForceClaim(t, resolution) ==
    claim' = [claim EXCEPT ![t] =
      IF @.status = "NONE" THEN @ ELSE Row(ClaimStatusFor(resolution), @.agent)]

\* closeTaskTx: closing again with the same resolution re-aligns the claim.
CloseTask(t, resolution) ==
    /\ task[t] \notin TerminalTask \ {resolution}
    /\ task' = [task EXCEPT ![t] = resolution]
    /\ ForceClaim(t, resolution)
    /\ SnapshotStays(t)
    /\ UNCHANGED <<registered, seen, blocker, action, frontier, session, signal, sweep, wide>>

\* terminalizeAgentWorkRequiredReceiptTask: a receipt closes the task its
\* caller does not hold; what else it may close is the caller's option.
TerminalizeTask(t, resolution, allowed) ==
    /\ task[t] \notin TerminalTask
    /\ claim[t].status \in {"NONE", "RELEASED"} \cup TerminalClaim \cup allowed
    /\ task' = [task EXCEPT ![t] = resolution]
    /\ ForceClaim(t, resolution)
    /\ SnapshotStays(t)
    /\ UNCHANGED <<registered, seen, blocker, action, frontier, session, signal, sweep, wide>>
=============================================================================
