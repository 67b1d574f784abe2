---------------------------- MODULE AgentSessions ----------------------------
(***************************************************************************)
(* The sessions in which agents work on claimed tasks, the handover of a   *)
(* session to another agent, and the maintenance pass of `rhizome serve`   *)
(* that ends the sessions of silent agents, frees the claims nobody works  *)
(* on and blocks handoff carriers that never started.                      *)
(*                                                                         *)
(* A pass takes one reference time and then lists and treats sessions,     *)
(* claims and carriers, one transaction per candidate, so agents act       *)
(* between the listing and the treatment of a candidate.  The pass         *)
(* compares every time with its reference time, so ages do not grow while  *)
(* it runs; what is written meanwhile has age 0.                           *)
(***************************************************************************)
EXTENDS TaskClaims

Init ==
    /\ registered = Agents
    /\ seen = [a \in Agents |-> Oldest]
    /\ task = [t \in Tasks |-> "PENDING"]
    /\ claim = [t \in Tasks |-> NoClaim]
    /\ wide = {}
    /\ blocker = [t \in Tasks |-> NoBlocker]
    /\ action = [x \in Actions |-> NoAction]
    /\ frontier = [g \in Generations |-> NoFrontier]
    /\ session = [s \in Sessions |-> NoSession]
    /\ signal = [t \in Carriers |-> NoSignal]
    /\ sweep = [phase |-> "DUE", left |-> {}]
    /\ stale = {}

-----------------------------------------------------------------------------
(* Sessions                                                                *)

\* requireLiveSameOwnerClaimForSessionStartTx
LiveSameOwnerClaim(t, a) ==
    claim[t].status = "CLAIMED" /\ claim[t].agent = a /\ task[t] = "RUNNING"

NextRank == 1 + Cardinality({s \in Sessions : session[s].status # "NONE"})

\* Session ids are fresh: which of the unused ones is taken does not matter.
FreshSession(s) ==
    session[s] = NoSession /\ s = CHOOSE r \in Sessions : session[r] = NoSession

Started(a, t) == [status |-> "ACTIVE", agent |-> a, task |-> t,
                  to |-> None, age |-> 0, rank |-> NextRank]

Ended(s) == [session[s] EXCEPT !.status = "ENDED", !.to = None, !.age = 0]

StartSession(s, a, t) ==
    /\ FreshSession(s)
    /\ a \in registered
    /\ LiveSameOwnerClaim(t, a)
    /\ session' = [session EXCEPT ![s] = Started(a, t)]
    /\ UNCHANGED <<registered, seen, claimVars, signal, sweep, stale>>

\* A start, status, blocked, decision or keepalive event of a session, with
\* the agent it is handed to, if any.
UpdateSession(s, to) ==
    LET status == IF to = None THEN "ACTIVE" ELSE "HANDOFF_PENDING" IN
    /\ session[s].status \in ActiveSession
    /\ session[s].agent \in registered
    /\ to = None \/ to \in registered \ {session[s].agent}
    /\ LiveSameOwnerClaim(session[s].task, session[s].agent)
    /\ session' = [session EXCEPT ![s] =
         [@ EXCEPT !.status = status, !.to = to, !.age = 0]]
    /\ UNCHANGED <<registered, seen, claimVars, signal, sweep, stale>>

\* An end needs no claim.  A session end event restores the row of a deleted
\* agent; an agent loop that records its own outcome does not.
EndSession(s) ==
    /\ session[s].status \in ActiveSession
    /\ session' = [session EXCEPT ![s] = Ended(s)]
    /\ registered' \in {registered, registered \cup {session[s].agent}}
    /\ UNCHANGED <<seen, claimVars, signal, sweep, stale>>

\* Mutant: the source need not have named the agent.
NotOwnSession(s, a) == session[s].agent # a

HandedTo(s, a) == session[s].agent # a /\ session[s].to = a

TakeOverSession(s, successor, a) ==
    LET t == session[s].task IN
    /\ session[s].status \in ActiveSession
    /\ a \in registered
    /\ HandedTo(s, a)
    /\ FreshSession(successor)
    /\ task[t] \notin TerminalTask
    /\ claim[t].status = "CLAIMED" /\ claim[t].agent = session[s].agent
    /\ session' = [session EXCEPT ![s] = Ended(s), ![successor] = Started(a, t)]
    /\ claim' = [claim EXCEPT ![t] = Row("CLAIMED", a)]
    /\ task' = [task EXCEPT ![t] = "RUNNING"]
    /\ registered' = registered \cup {session[s].agent}
    /\ UNCHANGED <<seen, blocker, action, frontier, signal, sweep, stale, wide>>

\* A delegation update that names a carrier task.
PostSignal(t) ==
    /\ signal[t] = NoSignal
    /\ signal' = [signal EXCEPT ![t] = [status |-> "POSTED", age |-> 0]]
    /\ UNCHANGED <<registered, seen, claimVars, session, sweep, stale>>

-----------------------------------------------------------------------------
(* The maintenance pass                                                    *)

\* Mutant: a heartbeat does not count.
AbandonedUnseen(age, a) == age > Grace

\* localSessionOwnershipAbandoned: both times are before the reference time
\* less the grace.
Abandoned(age, a) ==
    age > Grace /\ seen[a] > Grace

BeginPass ==
    /\ sweep.phase = "DUE"
    /\ sweep' = [phase |-> "SESSIONS",
                 left |-> {s \in Sessions : session[s].status \in ActiveSession}]
    /\ UNCHANGED <<registered, seen, claimVars, session, signal, stale>>

\* Mutant: blocked claims are nobody's business.
ListClaimedOnly ==
    /\ sweep.phase = "SESSIONS" /\ sweep.left = {}
    /\ sweep' = [sweep EXCEPT !.phase = "CLAIMS",
                 !.left = {t \in Tasks : claim[t].status = "CLAIMED"}]
    /\ UNCHANGED <<registered, seen, claimVars, session, signal, stale>>

ListClaims ==
    /\ sweep.phase = "SESSIONS" /\ sweep.left = {}
    /\ sweep' = [sweep EXCEPT !.phase = "CLAIMS",
                 !.left = {t \in Tasks : claim[t].status \in LiveClaim}]
    /\ UNCHANGED <<registered, seen, claimVars, session, signal, stale>>

\* listStaleProjectClaimLiberationNarrowCandidates: claims in the way of
\* another task, whose owner left a release request unanswered.
ListNarrow ==
    /\ sweep.phase = "CLAIMS" /\ sweep.left = {}
    /\ \E asked \in SUBSET {t \in wide : claim[t].status \in LiveClaim} :
         sweep' = [sweep EXCEPT !.phase = "NARROW", !.left = {<<t, claim[t].agent>> : t \in asked}]
    /\ UNCHANGED <<registered, seen, claimVars, session, signal, stale>>

RunnableSession(t) ==
    \E s \in Sessions : session[s].task = t /\ session[s].status \in ActiveSession

\* Mutant: only carriers nobody ever claimed.
StaleCarriersUnclaimed ==
    {t \in Carriers : /\ signal[t].status = "POSTED"
                      /\ signal[t].age >= Grace
                      /\ task[t] \notin TerminalTask
                      /\ claim[t].status = "NONE"
                      /\ ~RunnableSession(t)}

\* listStaleAuthorityHandoffCarrierCandidates
StaleCarriers ==
    {t \in Carriers : /\ signal[t].status = "POSTED"
                      /\ signal[t].age >= Grace
                      /\ task[t] \notin TerminalTask
                      /\ claim[t].status \notin LiveClaim
                      /\ ~RunnableSession(t)}

ListCarriers ==
    /\ sweep.phase = "NARROW" /\ sweep.left = {}
    /\ sweep' = [sweep EXCEPT !.phase = "CARRIERS", !.left = StaleCarriers]
    /\ UNCHANGED <<registered, seen, claimVars, session, signal, stale>>

EndPass ==
    /\ sweep.phase = "CARRIERS" /\ sweep.left = {}
    /\ sweep' = [phase |-> "IDLE", left |-> {}]
    /\ UNCHANGED <<registered, seen, claimVars, session, signal, stale>>

\* A listing fails or the server restarts: the rest of the pass is given up.
AbandonPass ==
    /\ sweep.phase \notin {"IDLE", "DUE"}
    /\ sweep' = [phase |-> "IDLE", left |-> {}]
    /\ UNCHANGED <<registered, seen, claimVars, session, signal, stale>>

Treated(x) == sweep' = [sweep EXCEPT !.left = @ \ {x}]

\* The transaction of a candidate cannot begin or its fence is refused.
SkipCandidate(x) ==
    /\ x \in sweep.left
    /\ Treated(x)
    /\ UNCHANGED <<registered, seen, claimVars, session, signal, stale>>

\* ReclaimAbandonedSessionOwnership.  held stands for running work of the task
\* or reviewers too scarce to lose one.
ReclaimSession(s, held) ==
    LET a == session[s].agent
        t == session[s].task
        free == /\ claim[t].status = "CLAIMED" /\ claim[t].agent = a
                /\ \A r \in SessionsOf(t, a) \ {s} : session[r].status \notin ActiveSession
                /\ ~held
    IN
    /\ sweep.phase = "SESSIONS" /\ s \in sweep.left
    /\ session[s].status \in ActiveSession
    /\ Abandoned(session[s].age, a)
    /\ Treated(s)
    /\ session' = [session EXCEPT ![s] = Ended(s)]
    /\ registered' = registered \cup {a}
    /\ IF free THEN ReleaseEffect(t) ELSE UNCHANGED <<claim, task, frontier>>
    /\ UNCHANGED <<seen, blocker, action, signal, stale, wide>>

\* ReclaimOrphanedClaimedTasks looks at whoever holds the claim by now.
Orphaned(t, evidence) ==
    /\ claim[t].status \in LiveClaim
    /\ ~HasActiveSession(t, claim[t].agent)
    /\ ~evidence
    /\ claim[t].status = "BLOCKED" => PendingOn(t) = {}

\* The snapshot of a block nothing waits for goes even when the claim stays.
ReclaimClaim(t, evidence, scarce) ==
    /\ sweep.phase = "CLAIMS" /\ t \in sweep.left
    /\ Orphaned(t, evidence)
    /\ Treated(t)
    /\ blocker' = IF claim[t].status = "BLOCKED"
                    THEN [blocker EXCEPT ![t] = NoBlocker] ELSE blocker
    /\ IF Abandoned(claim[t].age, claim[t].agent) /\ ~scarce
         THEN ReleaseEffect(t) ELSE UNCHANGED <<claim, task, frontier>>
    /\ UNCHANGED <<registered, seen, action, session, signal, stale, wide>>

\* NarrowProjectClaimAndBranchScopeWithEvent: the shared sidecar goes from the
\* claim of the agent that was listed; the write makes the claim young again.
NarrowClaim(t, a) ==
    /\ sweep.phase = "NARROW" /\ <<t, a>> \in sweep.left
    /\ claim[t].status \in LiveClaim /\ claim[t].agent = a
    /\ t \in wide
    /\ ~HasActiveSession(t, a)
    /\ Abandoned(claim[t].age, a)
    /\ Treated(<<t, a>>)
    /\ wide' = wide \ {t}
    /\ claim' = [claim EXCEPT ![t] = Row(@.status, a)]
    /\ UNCHANGED <<registered, seen, task, blocker, action, frontier, session, signal, stale>>

\* terminalizeStaleAuthorityHandoffCarrier: the claim and the sessions are
\* looked at again, the task is not.
BlockCarrier(t) ==
    /\ sweep.phase = "CARRIERS" /\ t \in sweep.left
    /\ claim[t].status \notin LiveClaim \cup {"NONE"}
    /\ ~RunnableSession(t)
    /\ Treated(t)
    /\ claim' = [claim EXCEPT ![t] = Row("BLOCKED", @.agent)]
    /\ signal' = [signal EXCEPT ![t].status = "BLOCKED"]
    /\ UNCHANGED <<registered, seen, task, blocker, action, frontier, session, stale, wide>>

Older(age, oldest) == IF age < oldest THEN age + 1 ELSE age

\* The loop's ticker fires.  Only the ages something still compares grow.
Tick ==
    /\ sweep.phase \in {"IDLE", "DUE"}
    /\ sweep' = [sweep EXCEPT !.phase = "DUE"]
    /\ seen' = [a \in Agents |-> Older(seen[a], Oldest)]
    /\ claim' = [t \in Tasks |-> IF claim[t].status \in LiveClaim
                  THEN [claim[t] EXCEPT !.age = Older(@, Oldest)] ELSE claim[t]]
    /\ session' = [s \in Sessions |-> IF session[s].status \in ActiveSession
                  THEN [session[s] EXCEPT !.age = Older(@, Oldest)] ELSE session[s]]
    /\ signal' = [t \in Carriers |-> IF signal[t].status = "POSTED"
                  THEN [signal[t] EXCEPT !.age = Older(@, Grace)] ELSE signal[t]]
    /\ UNCHANGED <<registered, task, blocker, action, frontier, stale, wide>>

-----------------------------------------------------------------------------
AgentStep ==
    \/ \E a \in Agents : RegisterAgent(a) \/ Heartbeat(a)
    \/ \E a \in Removable : DeleteAgent(a)
    \/ \E a \in Agents, t \in Tasks :
         \/ \E g \in Generations \cup {None} : ClaimTask(a, t, g)
         \/ ReleaseTask(a, t) \/ CompleteTask(a, t) \/ BlockTask(a, t)
         \/ \E g \in Generations : OfferFrontier(g, a, t)
         \/ \E s \in Sessions : StartSession(s, a, t)
         \/ \E x \in Actions : CreateHumanAction(x, a, t)
    \/ \E g \in Generations :
         \/ \E d \in {"selected", "declined", "claim_failed"} : DecideFrontier(g, d)
         \/ ExpireFrontier(g)
    \/ \E s \in Sessions :
         \/ \E to \in Agents \cup {None} : UpdateSession(s, to)
         \/ EndSession(s)
         \/ \E r \in Sessions, a \in Agents : TakeOverSession(s, r, a)
    \/ \E t \in Carriers : PostSignal(t)

OperatorStep ==
    \/ \E x \in Actions, preserve \in BOOLEAN : ResolveHumanAction(x, preserve)
    \/ \E t \in Tasks, resolution \in Resolutions :
         \/ CloseTask(t, resolution)
         \/ \E allowed \in SUBSET LiveClaim : TerminalizeTask(t, resolution, allowed)

ReclaimStep ==
    \/ \E s \in Sessions, held \in BOOLEAN : ReclaimSession(s, held)
    \/ \E t \in Tasks, evidence, scarce \in BOOLEAN : ReclaimClaim(t, evidence, scarce)
    \/ \E t \in Tasks, a \in Agents : NarrowClaim(t, a)
    \/ \E t \in Carriers : BlockCarrier(t)

PassStep == BeginPass \/ ListClaims \/ ListNarrow \/ ListCarriers \/ EndPass

Candidates == Sessions \cup Tasks \cup (Tasks \X Agents)

Next ==
    \/ AgentStep \/ OperatorStep \/ ReclaimStep \/ PassStep \/ AbandonPass \/ Tick
    \/ \E x \in Candidates : SkipCandidate(x)

Spec == Init /\ [][Next]_vars

\* The serve loop brings passes to their end again and again, however many it
\* breaks off, and neither failing transactions nor running work nor scarce
\* reviewers hold a candidate back for ever.
Fairness ==
    /\ []<><<EndPass>>_vars
    /\ \A s \in Sessions : SF_vars(ReclaimSession(s, FALSE))
    /\ \A t \in Tasks : SF_vars(ReclaimClaim(t, FALSE, FALSE))
    /\ \A t \in Carriers : SF_vars(BlockCarrier(t))

FairSpec == Spec /\ Fairness

-----------------------------------------------------------------------------
(* Properties                                                              *)

TaskStatus == {"PENDING", "RUNNING"} \cup TerminalTask
ClaimStatus == LiveClaim \cup TerminalClaim \cup {"RELEASED"}
Ages == 0..Oldest

ClaimRows == {NoClaim} \cup [status : ClaimStatus, agent : Agents, age : Ages]
BlockerRows == {NoBlocker, [NoBlocker EXCEPT !.kind = "ABSENT"]}
    \cup [kind : {"ROW"}, status : ClaimStatus \ {"BLOCKED"}, agent : Agents]
ActionRows == {NoAction} \cup [status : {"PENDING", "DONE"}, task : Tasks]
FrontierRows ==
    [state : {"NONE", "offered", "selected", "declined", "claim_failed", "consumed"},
     agent : Agents \cup {None}, task : Tasks \cup {None}, fresh : BOOLEAN]
SessionRows == {NoSession}
    \cup [status : ActiveSession \cup {"ENDED"}, agent : Agents, task : Tasks,
          to : Agents \cup {None}, age : Ages, rank : Nat]
SignalRows == [status : {"NONE", "POSTED", "BLOCKED"}, age : Ages]
Sweeps == [phase : {"IDLE", "DUE", "SESSIONS", "CLAIMS", "NARROW", "CARRIERS"},
           left : SUBSET Candidates]

\* Every variable has its type: the rows hold what the tables' columns hold,
\* and a blocker snapshot never records a BLOCKED claim.
TypeOK ==
    /\ registered \subseteq Agents
    /\ seen \in [Agents -> Ages]
    /\ task \in [Tasks -> TaskStatus]
    /\ claim \in [Tasks -> ClaimRows]
    /\ wide \subseteq Tasks
    /\ blocker \in [Tasks -> BlockerRows]
    /\ action \in [Actions -> ActionRows]
    /\ frontier \in [Generations -> FrontierRows]
    /\ session \in [Sessions -> SessionRows]
    /\ signal \in [Carriers -> SignalRows]
    /\ sweep \in Sweeps
    /\ stale \subseteq Tasks

\* A running task has an owner, who holds it or is blocked on it, and whoever
\* holds a claim works on a running task: claiming, releasing, taking over,
\* blocking, unblocking, closing and reclaiming keep tasks.status and
\* task_claims together.  (A snapshot that outlived its block, or the deletion
\* of the owner, breaks the tie.)
RunningHasOwner ==
    \A t \in Tasks \ stale :
        /\ task[t] = "RUNNING" => claim[t].status \in LiveClaim
        /\ claim[t].status = "CLAIMED" => task[t] = "RUNNING"

\* What a human block will give back is still what was taken: the claim is
\* BLOCKED for the agent of the snapshot, and the snapshot is of a held claim
\* just when the task runs.
SnapshotRestores ==
    \A t \in Tasks \ stale : blocker[t] # NoBlocker =>
        /\ claim[t].status = "BLOCKED"
        /\ blocker[t].kind = "ABSENT" => task[t] # "RUNNING"
        /\ blocker[t].kind = "ROW" => /\ blocker[t].agent = claim[t].agent
                                      /\ (blocker[t].status = "CLAIMED") <=> (task[t] = "RUNNING")

\* A claim that reports an outcome reports the outcome of its task, also after
\* an unblock wrote back a snapshot that closing or releasing left behind.
TerminalAgreement ==
    \A t \in Tasks : claim[t].status \in TerminalClaim =>
        task[t] \in TerminalTask /\ claim[t].status = ClaimStatusFor(task[t])

\* No release, reclaim, unblock or late completion brings a closed task back
\* or changes its outcome.
TerminalStays ==
    [][\A t \in Tasks : task[t] \in TerminalTask => task'[t] = task[t]]_vars

\* When a task goes back to PENDING nobody keeps a selection of it from before:
\* a claim after the release needs a new decision.
SelectionsDie ==
    [][\A t \in Tasks, g \in Generations :
         task[t] = "RUNNING" /\ task'[t] = "PENDING"
           => ~(frontier'[g].state = "selected" /\ frontier'[g].task = t)]_vars

\* A held claim passes to another agent only by a takeover from a session of
\* its owner that was handed to that agent.
TakeoverInvited ==
    [][\A t \in Tasks \ stale :
         claim[t].status = "CLAIMED" /\ claim'[t].status = "CLAIMED"
           => \/ claim'[t].agent = claim[t].agent
              \/ \E s \in SessionsOf(t, claim[t].agent) :
                   session[s].status \in ActiveSession /\ session[s].to = claim'[t].agent]_vars

\* The pass frees or narrows a claim only of an agent that was silent for the
\* grace and has no active session left on the task, whatever happened since
\* the listing.
ReclaimSparesLiving ==
    [][\A t \in Tasks :
         sweep' # sweep /\ claim[t].status \in LiveClaim
           /\ (claim'[t].status = "RELEASED" \/ t \in wide \ wide')
         => /\ seen[claim[t].agent] > Grace
            /\ \A s \in SessionsOf(t, claim[t].agent) :
                 session'[s].status \notin ActiveSession]_vars

\* The owner of a claim is not heard of any more, in heartbeats or session
\* updates, and no human is awaited.
Silent(t) ==
    /\ claim[t].status \in LiveClaim /\ PendingOn(t) = {}
    /\ seen[claim[t].agent] = Oldest
    /\ \A s \in SessionsOf(t, claim[t].agent) :
         session[s].status \in ActiveSession => session[s].age = Oldest

\* Somebody else than the pass writes the claim.
ClaimWritten(t) == claim'[t].age < claim[t].age /\ sweep' = sweep

\* The pass frees the claim of an agent that stays silent: if its session is
\* still open the pass ends it first, in this pass or a later one, and the
\* pass's own narrowing of the claim does not put that off for ever.
SilentClaimFreed == \A t \in Tasks : []<>~Silent(t) \/ []<><<ClaimWritten(t)>>_vars

\* A handoff was signalled long ago, and the carrier's last owner has let go
\* of it with nobody working on it.
Stuck(t) ==
    /\ signal[t].status = "POSTED" /\ signal[t].age = Grace
    /\ task[t] \notin TerminalTask
    /\ claim[t].status \notin LiveClaim \cup {"NONE"}
    /\ \A s \in Sessions : (session[s].status \in ActiveSession /\ session[s].task = t)
         => session[s].age = Oldest /\ seen[session[s].agent] = Oldest

\* A carrier nobody takes up after its handoff signal is blocked by the
\* watchdog, once the sessions that silent agents left open on it are ended.
HandoffSettles == \A t \in Carriers : []<>~Stuck(t)
=============================================================================
