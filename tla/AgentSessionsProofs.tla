------------------------ MODULE AgentSessionsProofs -------------------------
(***************************************************************************)
(* The inductive invariant of TaskClaims and AgentSessions, the safety     *)
(* invariants that follow from it, and the action properties.              *)
(***************************************************************************)
EXTENDS AgentSessionsTypes

-----------------------------------------------------------------------------
(* The inductive invariant                                                 *)

\* RunningHasOwner and SnapshotRestores for one task.
Tied(t) ==
    /\ task[t] = "RUNNING" => claim[t].status \in LiveClaim
    /\ claim[t].status = "CLAIMED" => task[t] = "RUNNING"
    /\ blocker[t].kind # "NONE" => claim[t].status = "BLOCKED"
    /\ blocker[t].kind = "ABSENT" => task[t] # "RUNNING"
    /\ blocker[t].kind = "ROW" => /\ blocker[t].agent = claim[t].agent
                                  /\ (blocker[t].status = "CLAIMED") <=> (task[t] = "RUNNING")

Reports(t, status) == task[t] \in TerminalTask /\ status = ClaimStatusFor(task[t])

\* TerminalAgreement for one task, with what it needs of a snapshot that an
\* unblock may write back long after its block has gone.
TaskInv(t) ==
    /\ t \notin stale => Tied(t)
    /\ claim[t].status \in TerminalClaim => Reports(t, claim[t].status)
    /\ blocker[t].kind = "ROW" /\ blocker[t].status \in TerminalClaim
         => Reports(t, blocker[t].status)

IInv == TypeOK /\ \A t \in Tasks : TaskInv(t)

\* What a step does not touch keeps its invariant.
Alike(t) ==
    /\ claim'[t].status = claim[t].status /\ claim'[t].agent = claim[t].agent
    /\ blocker'[t] = blocker[t]
    /\ task'[t] = task[t]
    /\ t \in stale => t \in stale'

LEMMA AlikeKeeps ==
  ASSUME NEW t \in Tasks, TaskInv(t), Alike(t)
  PROVE  TaskInv(t)'
BY DEF TaskInv, Tied, Reports, Alike

\* NoBlocker is told from a snapshot by its kind.
LEMMA BlockerKinds ==
  ASSUME TypeOK, NEW t \in Tasks
  PROVE  /\ blocker[t].kind \in {"NONE", "ABSENT", "ROW"}
         /\ blocker[t] = NoBlocker <=> blocker[t].kind = "NONE"
         /\ NoBlocker.kind = "NONE"
BY BlockerRowFields DEF TypeOK, NoBlocker

\* A step that frees t's claim, with its snapshot gone or its task stale.
LEMMA ReleaseKeeps ==
  ASSUME IInv, NEW t \in Tasks, ReleaseEffect(t),
         \A u \in Tasks \ {t} : blocker'[u] = blocker[u],
         blocker'[t] \in {blocker[t], NoBlocker},
         stale \subseteq stale',
         t \in stale' \/ blocker'[t] = NoBlocker
  PROVE  \A u \in Tasks : TaskInv(u)'
<1>1. /\ claim'[t].status = "RELEASED"
      /\ task'[t] = IF task[t] = "RUNNING" THEN "PENDING" ELSE task[t]
  BY RowFields DEF ReleaseEffect, IInv, TypeOK
<1>2. TaskInv(t)'
  BY <1>1, Statuses, BlockerKinds DEF IInv, TaskInv, Tied, Reports
<1>3. ASSUME NEW u \in Tasks, u # t  PROVE TaskInv(u)'
  <2>1. Alike(u)
    BY <1>3 DEF ReleaseEffect, Alike, IInv, TypeOK
  <2> QED  BY <2>1, AlikeKeeps DEF IInv
<1> QED  BY <1>2, <1>3

LEMMA ClaimKeeps ==
  ASSUME IInv, NEW a \in Agents, NEW t \in Tasks,
         \/ \E g \in Generations \cup {None} : ClaimTask(a, t, g)
         \/ ReleaseTask(a, t) \/ CompleteTask(a, t) \/ BlockTask(a, t)
  PROVE  \A u \in Tasks : TaskInv(u)'
<1> USE DEF IInv
<1>1. ASSUME NEW g \in Generations \cup {None}, ClaimTask(a, t, g)
      PROVE  \A u \in Tasks : TaskInv(u)'
  <2>1. claim'[t].status = "CLAIMED" /\ task'[t] = "RUNNING" /\ stale' = stale
    BY <1>1, RowFields DEF ClaimTask, TypeOK
  <2>2. blocker'[t] = IF claim[t].status = "BLOCKED" THEN NoBlocker ELSE blocker[t]
    BY <1>1 DEF ClaimTask, ClearOwnBlock, TypeOK
  <2>3. task[t] \notin TerminalTask
    BY <1>1, Statuses DEF ClaimTask
  <2>4. TaskInv(t)'
    BY <2>1, <2>2, <2>3, Statuses, BlockerKinds DEF TaskInv, Tied, Reports
  <2>5. ASSUME NEW u \in Tasks, u # t  PROVE TaskInv(u)'
    <3>1. Alike(u)
      BY <1>1, <2>5 DEF ClaimTask, ClearOwnBlock, Alike, TypeOK
    <3> QED  BY <3>1, AlikeKeeps
  <2> QED  BY <2>4, <2>5
<1>2. CASE ReleaseTask(a, t)
  BY Zenon, <1>2, ReleaseKeeps DEF ReleaseTask, SnapshotStays
<1>3. CASE CompleteTask(a, t)
  <2>1. claim'[t].status = "COMPLETED" /\ task'[t] = "RESOLVED" /\ blocker' = blocker
    BY <1>3, RowFields DEF CompleteTask, TypeOK
  <2>2. (t \in stale' \/ blocker[t] = NoBlocker) /\ task[t] = "RUNNING"
    BY <1>3 DEF CompleteTask, SnapshotStays
  <2>3. TaskInv(t)'
    BY <2>1, <2>2, Statuses, BlockerKinds DEF TaskInv, Tied, Reports
  <2>4. ASSUME NEW u \in Tasks, u # t  PROVE TaskInv(u)'
    <3>1. Alike(u)
      BY <1>3, <2>4 DEF CompleteTask, SnapshotStays, Alike, TypeOK
    <3> QED  BY <3>1, AlikeKeeps
  <2> QED  BY <2>3, <2>4
<1>4. CASE BlockTask(a, t)
  <2>1. claim'[t].status = "BLOCKED" /\ claim'[t].agent = claim[t].agent /\ claim[t].status = "CLAIMED"
    BY <1>4, RowFields DEF BlockTask, TypeOK
  <2>2. UNCHANGED <<task, blocker, stale>>
    BY <1>4 DEF BlockTask
  <2>3. TaskInv(t)'
    BY <2>1, <2>2, Statuses DEF TaskInv, Tied, Reports
  <2>4. ASSUME NEW u \in Tasks, u # t  PROVE TaskInv(u)'
    <3>1. Alike(u)
      BY <1>4, <2>4 DEF BlockTask, Alike, TypeOK
    <3> QED  BY <3>1, AlikeKeeps
  <2> QED  BY <2>3, <2>4
<1> QED  BY <1>1, <1>2, <1>3, <1>4

\* The claim of a task that a blocking action suspends: its snapshot says what
\* it was.
LEMMA BlockKeeps ==
  ASSUME IInv, NEW a \in Agents, NEW t \in Tasks, BlockClaim(t, a), UNCHANGED <<task, stale>>
  PROVE  \A u \in Tasks : TaskInv(u)'
<1> USE DEF IInv
<1>1. CASE claim[t].status = "BLOCKED"
  BY <1>1, AlikeKeeps DEF BlockClaim, Alike
<1>2. CASE claim[t].status # "BLOCKED"
  <2>1. /\ claim'[t].status = "BLOCKED"
        /\ claim[t].status # "NONE" => claim'[t].agent = claim[t].agent
    BY <1>2, RowFields DEF BlockClaim, TypeOK
  <2>2. blocker'[t] = IF blocker[t] # NoBlocker THEN blocker[t]
          ELSE [kind |-> IF claim[t].status = "NONE" THEN "ABSENT" ELSE "ROW",
                status |-> claim[t].status, agent |-> claim[t].agent]
    BY <1>2 DEF BlockClaim, TypeOK
  <2>3. ASSUME blocker[t] # NoBlocker  PROVE TaskInv(t)'
    BY <1>2, <2>1, <2>2, <2>3, Statuses, BlockerKinds DEF TaskInv, Tied, Reports
  <2>4. ASSUME blocker[t] = NoBlocker  PROVE TaskInv(t)'
    <3>1. /\ blocker'[t].kind = IF claim[t].status = "NONE" THEN "ABSENT" ELSE "ROW"
          /\ blocker'[t].status = claim[t].status /\ blocker'[t].agent = claim[t].agent
      BY <2>2, <2>4
    <3> QED
      BY <1>2, <2>1, <2>4, <3>1, Statuses DEF TaskInv, Tied, Reports
  <2>5. ASSUME NEW u \in Tasks, u # t  PROVE TaskInv(u)'
    <3>1. Alike(u)
      BY <1>2, <2>5 DEF BlockClaim, Alike, TypeOK
    <3> QED  BY <3>1, AlikeKeeps
  <2> QED  BY <2>3, <2>4, <2>5
<1> QED  BY <1>1, <1>2

LEMMA UnblockOthers ==
  ASSUME IInv, NEW t \in Tasks, UnblockClaim(t), UNCHANGED <<task, stale>>,
         NEW u \in Tasks, u # t
  PROVE  TaskInv(u)'
<1>1. Alike(u)
  BY DEF UnblockClaim, Alike, IInv, TypeOK
<1> QED  BY <1>1, AlikeKeeps DEF IInv

LEMMA UnblockKeeps ==
  ASSUME IInv, NEW t \in Tasks, UnblockClaim(t), UNCHANGED <<task, stale>>
  PROVE  \A u \in Tasks : TaskInv(u)'
<1> USE DEF IInv
<1>1. CASE blocker[t].kind = "NONE"
  BY <1>1, AlikeKeeps DEF UnblockClaim, Alike
<1>2. CASE blocker[t].kind = "ABSENT"
  <2>1. /\ blocker'[t] = NoBlocker
        /\ claim'[t] = IF claim[t].status = "BLOCKED" THEN NoClaim ELSE claim[t]
    BY <1>2 DEF UnblockClaim, TypeOK
  <2>2. NoClaim.status = "NONE"
    BY DEF NoClaim
  <2>3. TaskInv(t)'
    BY <1>2, <2>1, <2>2, Statuses, BlockerKinds DEF TaskInv, Tied, Reports
  <2> QED  BY <2>3, UnblockOthers
<1>3. CASE blocker[t].kind = "ROW"
  <2>1. /\ blocker'[t] = NoBlocker
        /\ claim'[t].status = blocker[t].status
    BY <1>3, RowFields DEF UnblockClaim, TypeOK
  <2>2. TaskInv(t)'
    <3>1. blocker'[t].kind = "NONE" /\ task' = task /\ stale' = stale
      BY <2>1 DEF NoBlocker
    <3>2. ASSUME t \notin stale  PROVE Tied(t)'
      <4>1. (blocker[t].status = "CLAIMED") <=> (task[t] = "RUNNING")
        BY <1>3, <3>2 DEF TaskInv, Tied
      <4> QED  BY Zenon, <2>1, <3>1, <4>1, Statuses DEF Tied
    <3>3. claim'[t].status \in TerminalClaim
            => task'[t] \in TerminalTask /\ claim'[t].status = ClaimStatusFor(task'[t])
      BY <1>3, <2>1, <3>1 DEF TaskInv, Reports
    <3> QED  BY Zenon, <3>1, <3>2, <3>3 DEF TaskInv, Reports
  <2> QED  BY <2>2, UnblockOthers
<1> QED  BY <1>1, <1>2, <1>3, BlockerKinds

LEMMA CloseKeeps ==
  ASSUME IInv, NEW t \in Tasks, NEW resolution \in Resolutions,
         \/ CloseTask(t, resolution)
         \/ \E allowed \in SUBSET LiveClaim : TerminalizeTask(t, resolution, allowed)
  PROVE  \A u \in Tasks : TaskInv(u)'
<1> USE DEF IInv
<1>1. resolution \in TerminalTask
  BY TaskClaimsAssumption DEF TerminalTask
<1>2. /\ task[t] \in TerminalTask => task[t] = resolution
      /\ task'[t] = resolution /\ blocker' = blocker
      /\ t \in stale' \/ blocker[t] = NoBlocker
  BY DEF CloseTask, TerminalizeTask, SnapshotStays, TypeOK
<1>3. claim'[t].status = IF claim[t].status = "NONE" THEN "NONE" ELSE ClaimStatusFor(resolution)
  BY RowFields DEF CloseTask, TerminalizeTask, ForceClaim, TypeOK
<1>4. TaskInv(t)'
  BY <1>1, <1>2, <1>3, ForcedStatus, Statuses, BlockerKinds DEF TaskInv, Tied, Reports
<1>5. ASSUME NEW u \in Tasks, u # t  PROVE TaskInv(u)'
  <2>1. Alike(u)
    BY <1>5 DEF CloseTask, TerminalizeTask, ForceClaim, SnapshotStays, Alike, TypeOK
  <2> QED  BY <2>1, AlikeKeeps
<1> QED  BY <1>4, <1>5

LEMMA DeleteKeeps ==
  ASSUME IInv, NEW a \in Agents, DeleteAgent(a)
  PROVE  \A u \in Tasks : TaskInv(u)'
<1> USE DEF IInv
<1>1. SUFFICES ASSUME NEW t \in Tasks  PROVE TaskInv(t)'
  OBVIOUS
<1>2. CASE claim[t].agent = a
  <2>1. claim'[t] = NoClaim /\ UNCHANGED <<task, blocker>>
    BY Zenon, <1>2 DEF DeleteAgent
  <2>2. t \in stale' \/ (task[t] # "RUNNING" /\ blocker[t] = NoBlocker)
    BY Zenon, <1>2 DEF DeleteAgent
  <2>3. NoClaim.status = "NONE"
    BY DEF NoClaim
  <2> QED
    BY <2>1, <2>2, <2>3, Statuses, BlockerKinds DEF TaskInv, Tied, Reports
<1>3. CASE claim[t].agent # a
  BY Zenon, <1>3, AlikeKeeps DEF DeleteAgent, Alike
<1> QED  BY <1>2, <1>3

LEMMA TakeOverKeeps ==
  ASSUME IInv, NEW s \in Sessions, NEW r \in Sessions, NEW a \in Agents, TakeOverSession(s, r, a)
  PROVE  \A u \in Tasks : TaskInv(u)'
<1> USE DEF IInv
<1>1. PICK t \in Tasks : t = session[s].task
  BY Zenon, SessionRowFields DEF TakeOverSession, TypeOK
<1>2. /\ claim'[t].status = "CLAIMED" /\ claim[t].status = "CLAIMED"
      /\ task'[t] = "RUNNING" /\ task[t] \notin TerminalTask
      /\ UNCHANGED <<blocker, stale>>
  BY Zenon, <1>1, RowFields DEF TakeOverSession, TypeOK
<1>3. TaskInv(t)'
  BY Zenon, <1>2, Statuses, BlockerKinds DEF TaskInv, Tied, Reports
<1>4. ASSUME NEW u \in Tasks, u # t  PROVE TaskInv(u)'
  <2>1. Alike(u)
    BY Zenon, <1>1, <1>4 DEF TakeOverSession, Alike, TypeOK
  <2> QED  BY <2>1, AlikeKeeps
<1> QED  BY <1>3, <1>4

\* Narrowing leaves claims with their owners.
LEMMA NarrowClaims ==
  ASSUME TypeOK, NEW t \in Tasks, NEW a \in Agents, NarrowClaim(t, a), NEW u \in Tasks
  PROVE  claim'[u].status = claim[u].status /\ claim'[u].agent = claim[u].agent
<1>1. claim' = [claim EXCEPT ![t] = Row(claim[t].status, a)] /\ claim[t].agent = a
  BY Zenon DEF NarrowClaim
<1>2. claim \in [Tasks -> ClaimRows]
  BY DEF TypeOK
<1>3. CASE u = t
  BY <1>1, <1>2, <1>3, RowFields
<1>4. CASE u # t
  BY <1>1, <1>2, <1>4
<1> QED  BY <1>3, <1>4

LEMMA ReclaimKeeps ==
  ASSUME IInv, ReclaimStep
  PROVE  \A u \in Tasks : TaskInv(u)'
<1> USE DEF IInv
<1>1. ASSUME NEW s \in Sessions, NEW h \in BOOLEAN, ReclaimSession(s, h)
      PROVE  \A u \in Tasks : TaskInv(u)'
  <2>1. PICK t \in Tasks : t = session[s].task
    BY Zenon, <1>1, SessionRowFields DEF ReclaimSession, TypeOK
  <2>2. UNCHANGED <<blocker, stale>>
    BY Zenon, <1>1 DEF ReclaimSession
  <2>3. CASE UNCHANGED <<claim, task, frontier>>
    BY <2>2, <2>3, AlikeKeeps DEF Alike
  <2>4. CASE claim[t].status = "CLAIMED" /\ ReleaseEffect(t)
    <3>1. t \in stale \/ blocker[t] = NoBlocker
      BY <2>4, BlockerKinds DEF TaskInv, Tied
    <3> QED  BY <2>2, <2>4, <3>1, ReleaseKeeps
  <2> QED  BY <1>1, <2>1, <2>3, <2>4 DEF ReclaimSession
<1>2. ASSUME NEW t \in Tasks, NEW h \in BOOLEAN, NEW e \in BOOLEAN, ReclaimClaim(t, h, e)
      PROVE  \A u \in Tasks : TaskInv(u)'
  <2>1. /\ stale' = stale
        /\ \A u \in Tasks \ {t} : blocker'[u] = blocker[u]
        /\ blocker'[t] = IF claim[t].status = "BLOCKED" THEN NoBlocker ELSE blocker[t]
    BY Zenon, <1>2 DEF ReclaimClaim, TypeOK
  <2>2. claim[t].status \in {"CLAIMED", "BLOCKED"}
    BY Zenon, <1>2, Statuses DEF ReclaimClaim, Orphaned
  <2>3. t \in stale' \/ blocker'[t] = NoBlocker
    BY <2>1, <2>2, BlockerKinds DEF TaskInv, Tied
  <2>4. CASE UNCHANGED <<claim, task, frontier>>
    <3>1. TaskInv(t)'
      BY <2>1, <2>4, BlockerKinds DEF TaskInv, Tied, Reports
    <3>2. ASSUME NEW u \in Tasks, u # t  PROVE TaskInv(u)'
      BY <2>1, <2>4, <3>2, AlikeKeeps DEF Alike
    <3> QED  BY <3>1, <3>2
  <2>5. CASE ReleaseEffect(t)
    BY <2>1, <2>3, <2>5, ReleaseKeeps
  <2> QED  BY Zenon, <1>2, <2>4, <2>5 DEF ReclaimClaim
<1>3. ASSUME NEW t \in Carriers, BlockCarrier(t)
      PROVE  \A u \in Tasks : TaskInv(u)'
  <2>1. t \in Tasks
    BY TaskClaimsAssumption
  <2>2. /\ claim'[t].status = "BLOCKED" /\ claim'[t].agent = claim[t].agent
        /\ claim[t].status \notin LiveClaim
        /\ UNCHANGED <<task, blocker, stale>>
    BY <1>3, <2>1, RowFields DEF BlockCarrier, TypeOK
  <2>3. TaskInv(t)'
    BY <2>1, <2>2, Statuses DEF TaskInv, Tied, Reports
  <2>4. ASSUME NEW u \in Tasks, u # t  PROVE TaskInv(u)'
    <3>1. Alike(u)
      BY <1>3, <2>4 DEF BlockCarrier, Alike, TypeOK
    <3> QED  BY <3>1, AlikeKeeps
  <2> QED  BY <2>1, <2>3, <2>4
<1>4. ASSUME NEW t \in Tasks, NEW a \in Agents, NarrowClaim(t, a)
      PROVE  \A u \in Tasks : TaskInv(u)'
  BY Zenon, <1>4, NarrowClaims, AlikeKeeps DEF NarrowClaim, Alike
<1> QED  BY <1>1, <1>2, <1>3, <1>4 DEF ReclaimStep

\* A tick leaves claims with their owners.
LEMMA TickClaims ==
  ASSUME TypeOK, Tick, NEW t \in Tasks
  PROVE  claim'[t].status = claim[t].status /\ claim'[t].agent = claim[t].agent
<1>1. CASE claim[t].status \in LiveClaim
  <2>1. claim[t] \in [status : ClaimStatus, agent : Agents, age : Ages]
    BY <1>1 DEF TypeOK, ClaimRows, NoClaim, LiveClaim
  <2>2. claim'[t] = [claim[t] EXCEPT !.age = Older(claim[t].age, Oldest)]
    BY <1>1 DEF Tick
  <2> QED  BY <2>1, <2>2
<1>2. CASE claim[t].status \notin LiveClaim
  BY <1>2 DEF Tick
<1> QED  BY <1>1, <1>2

LEMMA TickKeeps ==
  ASSUME IInv, Tick
  PROVE  \A u \in Tasks : TaskInv(u)'
BY TickClaims, AlikeKeeps DEF Tick, Alike, IInv

-----------------------------------------------------------------------------
(* Steps                                                                   *)

\* The steps that touch a task, a claim or a snapshot.
LEMMA NextCases ==
  ASSUME [Next]_vars
  PROVE  \/ UNCHANGED <<task, claim, blocker, stale>>
         \/ \E a \in Agents : DeleteAgent(a)
         \/ \E a \in Agents, t \in Tasks :
              \/ \E g \in Generations \cup {None} : ClaimTask(a, t, g)
              \/ ReleaseTask(a, t) \/ CompleteTask(a, t) \/ BlockTask(a, t)
              \/ \E x \in Actions : CreateHumanAction(x, a, t)
         \/ \E x \in Actions, preserve \in BOOLEAN : ResolveHumanAction(x, preserve)
         \/ \E t \in Tasks, resolution \in Resolutions :
              \/ CloseTask(t, resolution)
              \/ \E allowed \in SUBSET LiveClaim : TerminalizeTask(t, resolution, allowed)
         \/ \E s \in Sessions, r \in Sessions, a \in Agents : TakeOverSession(s, r, a)
         \/ ReclaimStep
         \/ Tick
<1>1. CASE UNCHANGED vars
  BY <1>1 DEF vars, claimVars
<1>2. CASE AgentStep
  <2>1. ASSUME NEW a \in Agents, RegisterAgent(a) \/ Heartbeat(a)
        PROVE  UNCHANGED <<task, claim, blocker, stale>>
    BY <2>1 DEF RegisterAgent, Heartbeat, claimVars
  <2>2. ASSUME NEW g \in Generations,
               \/ \E a \in Agents, t \in Tasks : OfferFrontier(g, a, t)
               \/ \E d \in {"selected", "declined", "claim_failed"} : DecideFrontier(g, d)
               \/ ExpireFrontier(g)
        PROVE  UNCHANGED <<task, claim, blocker, stale>>
    BY <2>2 DEF OfferFrontier, DecideFrontier, ExpireFrontier
  <2>3. ASSUME NEW s \in Sessions,
               \/ \E a \in Agents, t \in Tasks : StartSession(s, a, t)
               \/ \E to \in Agents \cup {None} : UpdateSession(s, to)
               \/ EndSession(s)
        PROVE  UNCHANGED <<task, claim, blocker, stale>>
    BY Zenon, <2>3 DEF StartSession, UpdateSession, EndSession, claimVars
  <2>4. ASSUME NEW t \in Carriers, PostSignal(t)
        PROVE  UNCHANGED <<task, claim, blocker, stale>>
    BY <2>4 DEF PostSignal, claimVars
  <2> QED  BY <1>2, <2>1, <2>2, <2>3, <2>4, TaskClaimsAssumption DEF AgentStep
<1>3. CASE OperatorStep
  BY <1>3 DEF OperatorStep
<1>4. CASE PassStep \/ AbandonPass \/ \E x \in Candidates : SkipCandidate(x)
  BY Zenon, <1>4 DEF PassStep, BeginPass, ListClaims, ListNarrow, ListCarriers, EndPass, AbandonPass, SkipCandidate,
                claimVars
<1> QED
  BY <1>1, <1>2, <1>3, <1>4 DEF Next

LEMMA InitIInv == Init => IInv
<1> SUFFICES ASSUME Init PROVE IInv
  OBVIOUS
<1>1. ASSUME NEW t \in Tasks  PROVE TaskInv(t)
  <2>1. /\ claim[t].status = "NONE" /\ blocker[t].kind = "NONE" /\ task[t] = "PENDING"
    BY DEF Init, NoClaim, NoBlocker
  <2> QED  BY <2>1, Statuses DEF TaskInv, Tied
<1> QED  BY <1>1, TypeInit DEF IInv

LEMMA NextIInv == IInv /\ [Next]_vars => IInv'
<1> SUFFICES ASSUME IInv, [Next]_vars PROVE IInv'
  OBVIOUS
<1>1. SUFFICES \A u \in Tasks : TaskInv(u)'
  BY TypeNext DEF IInv
<1>2. CASE UNCHANGED <<task, claim, blocker, stale>>
  BY Zenon, <1>2, AlikeKeeps DEF Alike, IInv
<1>3. ASSUME NEW a \in Agents, DeleteAgent(a)
      PROVE  \A u \in Tasks : TaskInv(u)'
  BY <1>3, DeleteKeeps
<1>4. ASSUME NEW a \in Agents, NEW t \in Tasks,
             \/ \E g \in Generations \cup {None} : ClaimTask(a, t, g)
             \/ ReleaseTask(a, t) \/ CompleteTask(a, t) \/ BlockTask(a, t)
      PROVE  \A u \in Tasks : TaskInv(u)'
  BY <1>4, ClaimKeeps
<1>5. ASSUME NEW a \in Agents, NEW t \in Tasks, NEW x \in Actions, CreateHumanAction(x, a, t)
      PROVE  \A u \in Tasks : TaskInv(u)'
  BY <1>5, BlockKeeps DEF CreateHumanAction
<1>6. ASSUME NEW x \in Actions, NEW preserve \in BOOLEAN, ResolveHumanAction(x, preserve)
      PROVE  \A u \in Tasks : TaskInv(u)'
  <2>1. action[x].task \in Tasks /\ UNCHANGED <<task, stale>>
    BY <1>6 DEF ResolveHumanAction, IInv, TypeOK, ActionRows, NoAction
  <2>2. CASE UNCHANGED <<claim, wide, blocker>>
    BY <2>1, <2>2, AlikeKeeps DEF Alike, IInv
  <2>3. CASE UnblockClaim(action[x].task)
    BY <2>1, <2>3, UnblockKeeps
  <2> QED  BY <1>6, <2>2, <2>3 DEF ResolveHumanAction
<1>7. ASSUME NEW s \in Sessions, NEW r \in Sessions, NEW a \in Agents, TakeOverSession(s, r, a)
      PROVE  \A u \in Tasks : TaskInv(u)'
  BY <1>7, TakeOverKeeps
<1> QED
  BY <1>2, <1>3, <1>4, <1>5, <1>6, <1>7, CloseKeeps, ReclaimKeeps, TickKeeps, NextCases

-----------------------------------------------------------------------------
(* Theorems                                                                *)


LEMMA AlwaysIInv == Spec => []IInv
BY InitIInv, NextIInv, PTL DEF Spec

\* A running task has an owner and a held claim a running task: no order of
\* claims, releases, blocks, takeovers, closures and reclaims parts them, other
\* than a left-over snapshot or the deletion of the owner.
THEOREM RunningTasksOwned == Spec => []RunningHasOwner
<1>1. IInv => RunningHasOwner
  BY DEF IInv, TaskInv, Tied, RunningHasOwner
<1> QED  BY <1>1, AlwaysIInv, PTL

\* The snapshot of a human block stays restorable until the block ends.
THEOREM SnapshotsRestorable == Spec => []SnapshotRestores
<1>1. IInv => SnapshotRestores
  BY BlockerKinds DEF IInv, TaskInv, Tied, SnapshotRestores
<1> QED  BY <1>1, AlwaysIInv, PTL

\* A claim that reports an outcome reports the outcome of its task.
THEOREM OutcomesAgree == Spec => []TerminalAgreement
<1>1. IInv => TerminalAgreement
  BY DEF IInv, TaskInv, Reports, TerminalAgreement
<1> QED  BY <1>1, AlwaysIInv, PTL

-----------------------------------------------------------------------------
(* What a step never does: the action properties                           *)

\* What a step may do to a task.
TaskStep(t) ==
    \/ task'[t] = task[t]
    \/ task[t] \notin TerminalTask /\ task'[t] # "PENDING"
    \/ /\ task[t] = "RUNNING"
       /\ \A g \in Generations : ~(frontier'[g].state = "selected" /\ frontier'[g].task = t)

\* A release that takes a running task back leaves no selection of it.
LEMMA ReleaseTaskStep ==
  ASSUME TypeOK, NEW t \in Tasks, ReleaseEffect(t), NEW u \in Tasks
  PROVE  TaskStep(u)
<1>1. \A g \in Generations : ~(frontier'[g].state = "selected" /\ frontier'[g].task = t)
  BY DEF ReleaseEffect, WithoutSelections, Decided, NoFrontier
<1> QED  BY <1>1 DEF ReleaseEffect, TypeOK, TaskStep

LEMMA NextTaskStep ==
  ASSUME TypeOK, [Next]_vars, NEW u \in Tasks
  PROVE  TaskStep(u)
<1>1. CASE UNCHANGED task
  BY <1>1 DEF TaskStep
<1>2. ASSUME NEW a \in Agents, NEW t \in Tasks,
             \/ \E g \in Generations \cup {None} : ClaimTask(a, t, g)
             \/ CompleteTask(a, t)
      PROVE  TaskStep(u)
  BY <1>2, Statuses DEF ClaimTask, CompleteTask, TypeOK, TaskStep
<1>3. ASSUME NEW a \in Agents, NEW t \in Tasks, ReleaseTask(a, t)
      PROVE  TaskStep(u)
  BY <1>3, ReleaseTaskStep DEF ReleaseTask
<1>4. ASSUME NEW t \in Tasks, NEW resolution \in Resolutions,
             \/ CloseTask(t, resolution)
             \/ \E allowed \in SUBSET LiveClaim : TerminalizeTask(t, resolution, allowed)
      PROVE  TaskStep(u)
  <2>1. resolution # "PENDING"
    BY TaskClaimsAssumption
  <2> QED  BY Zenon, <1>4, <2>1 DEF CloseTask, TerminalizeTask, TypeOK, TaskStep
<1>5. ASSUME NEW s \in Sessions, NEW r \in Sessions, NEW a \in Agents, TakeOverSession(s, r, a)
      PROVE  TaskStep(u)
  BY Zenon, <1>5 DEF TakeOverSession, TypeOK, TaskStep
<1>6. ASSUME NEW s \in Sessions, NEW h \in BOOLEAN, ReclaimSession(s, h)
      PROVE  TaskStep(u)
  <2>1. session[s].task \in Tasks
    BY Zenon, <1>6, SessionRowFields DEF ReclaimSession, TypeOK
  <2> QED  BY Zenon, <1>1, <1>6, <2>1, ReleaseTaskStep DEF ReclaimSession
<1>7. ASSUME NEW t \in Tasks, NEW h \in BOOLEAN, NEW e \in BOOLEAN, ReclaimClaim(t, h, e)
      PROVE  TaskStep(u)
  BY Zenon, <1>1, <1>7, ReleaseTaskStep DEF ReclaimClaim
<1>8. CASE ReclaimStep
  BY Zenon, <1>1, <1>6, <1>7, <1>8 DEF ReclaimStep, BlockCarrier, NarrowClaim
<1>9. CASE \E a \in Agents : DeleteAgent(a)
  BY Zenon, <1>1, <1>9 DEF DeleteAgent
<1>10. ASSUME NEW a \in Agents, NEW t \in Tasks,
              BlockTask(a, t) \/ \E x \in Actions : CreateHumanAction(x, a, t)
       PROVE  TaskStep(u)
  BY <1>1, <1>10 DEF BlockTask, CreateHumanAction
<1>11. CASE \E x \in Actions, preserve \in BOOLEAN : ResolveHumanAction(x, preserve)
  BY <1>1, <1>11 DEF ResolveHumanAction
<1>12. CASE Tick
  BY <1>1, <1>12 DEF Tick
<1> QED
  BY <1>1, <1>2, <1>3, <1>4, <1>5, <1>8, <1>9, <1>10, <1>11, <1>12, NextCases

\* No step brings a closed task back or changes its outcome.
THEOREM ClosedTasksStay == Spec => TerminalStays
<1>1. TypeOK /\ [Next]_vars
        => [\A t \in Tasks : task[t] \in TerminalTask => task'[t] = task[t]]_vars
  BY NextTaskStep, Statuses DEF TaskStep
<1> QED  BY <1>1, TypeCorrect, PTL DEF Spec, TerminalStays

\* A task that goes back to PENDING leaves no selection behind.
THEOREM ReleasedSelectionsDie == Spec => SelectionsDie
<1>1. TypeOK /\ [Next]_vars
        => [\A t \in Tasks, g \in Generations :
              task[t] = "RUNNING" /\ task'[t] = "PENDING"
                => ~(frontier'[g].state = "selected" /\ frontier'[g].task = t)]_vars
  BY NextTaskStep DEF TaskStep
<1> QED  BY <1>1, TypeCorrect, PTL DEF Spec, SelectionsDie

\* How a claim that is held before and after a step changes its owner.
Invited(t) ==
    claim[t].status = "CLAIMED" /\ claim'[t].status = "CLAIMED"
      => \/ claim'[t].agent = claim[t].agent
         \/ \E s \in SessionsOf(t, claim[t].agent) :
              session[s].status \in ActiveSession /\ session[s].to = claim'[t].agent

LEMMA NextInvited ==
  ASSUME IInv, [Next]_vars, NEW u \in Tasks, u \notin stale
  PROVE  Invited(u)
<1> USE DEF IInv
<1>1. CASE claim'[u] = claim[u]
  BY <1>1 DEF Invited
<1>2. ASSUME NEW a \in Agents, DeleteAgent(a)
      PROVE  Invited(u)
  <2>1. NoClaim.status # "CLAIMED"
    BY DEF NoClaim
  <2> QED  BY Zenon, <1>1, <1>2, <2>1 DEF DeleteAgent, Invited
<1>3. ASSUME NEW a \in Agents, NEW t \in Tasks,
             \/ \E g \in Generations \cup {None} : ClaimTask(a, t, g)
             \/ ReleaseTask(a, t) \/ CompleteTask(a, t) \/ BlockTask(a, t)
      PROVE  Invited(u)
  <2>1. CASE u # t
    BY Zenon, <1>1, <1>3, <2>1 DEF ClaimTask, ReleaseTask, ReleaseEffect, CompleteTask, BlockTask, TypeOK
  <2>2. ASSUME NEW g \in Generations \cup {None}, ClaimTask(a, t, g)
        PROVE  claim[t].status # "CLAIMED"
    BY <2>2 DEF ClaimTask
  <2>3. CASE ReleaseTask(a, t) \/ CompleteTask(a, t) \/ BlockTask(a, t)
    <3>1. claim'[t].status # "CLAIMED"
      BY <2>3, RowFields DEF ReleaseTask, ReleaseEffect, CompleteTask, BlockTask, TypeOK
    <3> QED  BY Zenon, <2>1, <3>1 DEF Invited
  <2> QED  BY Zenon, <1>3, <2>1, <2>2, <2>3 DEF Invited
<1>4. ASSUME NEW a \in Agents, NEW t \in Tasks, NEW x \in Actions, CreateHumanAction(x, a, t)
      PROVE  Invited(u)
  <2>1. CASE u # t
    BY Zenon, <1>1, <1>4, <2>1 DEF CreateHumanAction, BlockClaim, TypeOK
  <2>2. CASE u = t
    <3>1. claim'[t] = claim[t] \/ claim'[t].status = "BLOCKED"
      BY <1>4, RowFields DEF CreateHumanAction, BlockClaim, TypeOK
    <3> QED  BY Zenon, <1>1, <2>2, <3>1 DEF Invited
  <2> QED  BY <2>1, <2>2
<1>5. ASSUME NEW x \in Actions, NEW preserve \in BOOLEAN, ResolveHumanAction(x, preserve)
      PROVE  Invited(u)
  <2>1. action[x].task \in Tasks
    BY <1>5 DEF ResolveHumanAction, TypeOK, ActionRows, NoAction
  <2>2. CASE UNCHANGED claim
    BY <1>1, <2>2
  <2>3. CASE UnblockClaim(action[x].task) /\ u # action[x].task
    BY Zenon, <1>1, <2>1, <2>3 DEF UnblockClaim, TypeOK
  <2>4. CASE UnblockClaim(u)
    <3>1. claim[u].status = "CLAIMED" => blocker[u].kind = "NONE"
      BY BlockerKinds DEF TaskInv, Tied
    <3> QED  BY Zenon, <1>1, <2>4, <3>1 DEF UnblockClaim, Invited
  <2> QED  BY <1>5, <2>2, <2>3, <2>4 DEF ResolveHumanAction
<1>6. ASSUME NEW t \in Tasks, NEW resolution \in Resolutions, ForceClaim(t, resolution)
      PROVE  Invited(u)
  <2>1. ClaimStatusFor(resolution) # "CLAIMED"
    BY TaskClaimsAssumption DEF ClaimStatusFor
  <2>2. claim'[t].status # "CLAIMED" \/ claim'[t] = claim[t]
    BY <1>6, <2>1, RowFields DEF ForceClaim, TypeOK
  <2>3. u # t => claim'[u] = claim[u]
    BY <1>6 DEF ForceClaim, TypeOK
  <2> QED  BY <1>1, <2>2, <2>3 DEF Invited
<1>7. ASSUME NEW s \in Sessions, NEW r \in Sessions, NEW a \in Agents, TakeOverSession(s, r, a)
      PROVE  Invited(u)
  <2>1. CASE u # session[s].task
    BY Zenon, <1>1, <1>7, <2>1 DEF TakeOverSession, TypeOK
  <2>2. CASE u = session[s].task
    <3>1. claim'[u].agent = a /\ session[s].to = a /\ session[s].status \in ActiveSession
      BY Zenon, <1>7, <2>2, RowFields DEF TakeOverSession, HandedTo, TypeOK
    <3>2. s \in SessionsOf(u, claim[u].agent)
      BY Zenon, <1>7, <2>2 DEF TakeOverSession, SessionsOf
    <3> QED  BY Zenon, <3>1, <3>2 DEF Invited
  <2> QED  BY <2>1, <2>2
<1>8. ASSUME NEW t \in Tasks, ReleaseEffect(t)
      PROVE  Invited(u)
  BY Zenon, <1>1, <1>8, RowFields DEF ReleaseEffect, TypeOK, Invited
<1>9. CASE ReclaimStep
  <2>1. ASSUME NEW s \in Sessions, NEW h \in BOOLEAN, ReclaimSession(s, h)
        PROVE  Invited(u)
    <3>1. session[s].task \in Tasks
      BY Zenon, <2>1, SessionRowFields DEF ReclaimSession, TypeOK
    <3> QED  BY <1>1, <1>8, <2>1, <3>1 DEF ReclaimSession
  <2>2. ASSUME NEW t \in Tasks, NEW h \in BOOLEAN, NEW e \in BOOLEAN, ReclaimClaim(t, h, e)
        PROVE  Invited(u)
    BY Zenon, <1>1, <1>8, <2>2 DEF ReclaimClaim
  <2>3. ASSUME NEW t \in Carriers, BlockCarrier(t)
        PROVE  Invited(u)
    BY <1>1, <2>3, RowFields, TaskClaimsAssumption DEF BlockCarrier, TypeOK, Invited
  <2>4. ASSUME NEW t \in Tasks, NEW a \in Agents, NarrowClaim(t, a)
        PROVE  Invited(u)
    BY <2>4, NarrowClaims DEF Invited
  <2> QED  BY <1>9, <2>1, <2>2, <2>3, <2>4 DEF ReclaimStep
<1>10. CASE Tick
  BY <1>10, TickClaims DEF Invited
<1>11. ASSUME NEW t \in Tasks, NEW resolution \in Resolutions,
              \/ CloseTask(t, resolution)
              \/ \E allowed \in SUBSET LiveClaim : TerminalizeTask(t, resolution, allowed)
       PROVE  Invited(u)
  BY <1>6, <1>11 DEF CloseTask, TerminalizeTask
<1> QED
  BY <1>1, <1>2, <1>3, <1>4, <1>5, <1>7, <1>9, <1>10, <1>11, NextCases

\* A held claim changes hands only by an invited takeover.
THEOREM TakeoversInvited == Spec => TakeoverInvited
<1>1. IInv /\ [Next]_vars => [\A t \in Tasks \ stale : Invited(t)]_vars
  BY NextInvited
<1> QED  BY <1>1, AlwaysIInv, PTL DEF Spec, TakeoverInvited, Invited

\* Only the maintenance loop moves the pass on.
LEMMA SweepSteps ==
  ASSUME [Next]_vars, sweep' # sweep
  PROVE  UNCHANGED <<claim, wide>> \/ ReclaimStep \/ Tick
<1>1. CASE UNCHANGED vars
  BY <1>1 DEF vars, claimVars
<1>2. CASE AgentStep
  <2>1. ASSUME NEW a \in Agents, RegisterAgent(a) \/ Heartbeat(a) \/ DeleteAgent(a)
        PROVE  sweep' = sweep
    BY Zenon, <2>1 DEF RegisterAgent, Heartbeat, DeleteAgent
  <2>2. ASSUME NEW a \in Agents, NEW t \in Tasks,
               \/ \E g \in Generations \cup {None} : ClaimTask(a, t, g)
               \/ ReleaseTask(a, t) \/ CompleteTask(a, t) \/ BlockTask(a, t)
               \/ \E g \in Generations : OfferFrontier(g, a, t)
               \/ \E s \in Sessions : StartSession(s, a, t)
               \/ \E x \in Actions : CreateHumanAction(x, a, t)
        PROVE  sweep' = sweep
    BY Zenon, <2>2
    DEF ClaimTask, ReleaseTask, CompleteTask, BlockTask, OfferFrontier, StartSession,
        CreateHumanAction
  <2>3. ASSUME NEW g \in Generations,
               \/ \E d \in {"selected", "declined", "claim_failed"} : DecideFrontier(g, d)
               \/ ExpireFrontier(g)
        PROVE  sweep' = sweep
    BY <2>3 DEF DecideFrontier, ExpireFrontier
  <2>4. ASSUME NEW s \in Sessions,
               \/ \E to \in Agents \cup {None} : UpdateSession(s, to)
               \/ EndSession(s)
               \/ \E r \in Sessions, a \in Agents : TakeOverSession(s, r, a)
        PROVE  sweep' = sweep
    BY Zenon, <2>4 DEF UpdateSession, EndSession, TakeOverSession
  <2>5. ASSUME NEW t \in Carriers, PostSignal(t)
        PROVE  sweep' = sweep
    BY <2>5 DEF PostSignal
  <2> QED  BY <1>2, <2>1, <2>2, <2>3, <2>4, <2>5, TaskClaimsAssumption DEF AgentStep
<1>3. CASE OperatorStep
  BY <1>3 DEF OperatorStep, ResolveHumanAction, CloseTask, TerminalizeTask
<1>4. CASE PassStep \/ AbandonPass \/ \E x \in Candidates : SkipCandidate(x)
  BY Zenon, <1>4 DEF PassStep, BeginPass, ListClaims, ListNarrow, ListCarriers, EndPass, AbandonPass, SkipCandidate,
                claimVars
<1> QED  BY <1>1, <1>2, <1>3, <1>4 DEF Next

\* What the pass knows of the owner of a claim it frees or narrows.
Spared(t) ==
    sweep' # sweep /\ claim[t].status \in LiveClaim
      /\ (claim'[t].status = "RELEASED" \/ t \in wide \ wide')
    => /\ seen[claim[t].agent] > Grace
       /\ \A s \in SessionsOf(t, claim[t].agent) :
            session'[s].status \notin ActiveSession

LEMMA NextSpared ==
  ASSUME TypeOK, [Next]_vars, NEW u \in Tasks
  PROVE  Spared(u)
<1>1. CASE claim'[u].status = claim[u].status /\ wide' = wide
  BY <1>1, Statuses DEF Spared
<1>2. ASSUME NEW s \in Sessions, NEW h \in BOOLEAN, ReclaimSession(s, h)
      PROVE  Spared(u)
  <2>1. CASE UNCHANGED <<claim, wide>>
    BY <1>1, <2>1
  <2>2. CASE /\ ReleaseEffect(session[s].task)
             /\ claim[session[s].task].agent = session[s].agent
             /\ \A r \in SessionsOf(session[s].task, session[s].agent) \ {s} :
                  session[r].status \notin ActiveSession
    <3>1. CASE u # session[s].task
      BY Zenon, <1>1, <1>2, <2>2, <3>1 DEF ReclaimSession, ReleaseEffect, TypeOK
    <3>2. CASE u = session[s].task
      <4>1. seen[claim[u].agent] > Grace
        BY Zenon, <1>2, <2>2, <3>2 DEF ReclaimSession, Abandoned
      <4>2. session'[s].status = "ENDED"
        <5>1. session[s] \in [status : ActiveSession \cup {"ENDED"}, agent : Agents, task : Tasks,
                              to : Agents \cup {None}, age : Ages, rank : Nat]
          BY Zenon, <1>2, ActiveSessionRow DEF ReclaimSession, TypeOK
        <5>2. Ended(s).status = "ENDED"
          BY <5>1 DEF Ended
        <5> QED  BY Zenon, <1>2, <5>2 DEF ReclaimSession, TypeOK
      <4>3. "ENDED" \notin ActiveSession
        BY DEF ActiveSession
      <4>4. \A r \in Sessions \ {s} : session'[r] = session[r]
        BY Zenon, <1>2 DEF ReclaimSession, TypeOK
      <4> QED
        BY Zenon, <2>2, <3>2, <4>1, <4>2, <4>3, <4>4 DEF Spared, SessionsOf
    <3> QED  BY <3>1, <3>2
  <2> QED  BY Zenon, <1>2, <2>1, <2>2 DEF ReclaimSession
<1>3. ASSUME NEW t \in Tasks, NEW h \in BOOLEAN, NEW e \in BOOLEAN, ReclaimClaim(t, h, e)
      PROVE  Spared(u)
  <2>1. CASE UNCHANGED <<claim, wide>>
    BY <1>1, <2>1
  <2>2. CASE ReleaseEffect(t) /\ Abandoned(claim[t].age, claim[t].agent)
    <3>1. CASE u # t
      BY Zenon, <1>1, <1>3, <2>2, <3>1 DEF ReclaimClaim, ReleaseEffect, TypeOK
    <3>2. CASE u = t
      BY Zenon, <1>3, <2>2, <3>2 DEF ReclaimClaim, Orphaned, HasActiveSession, Abandoned, Spared
    <3> QED  BY <3>1, <3>2
  <2> QED  BY Zenon, <1>3, <2>1, <2>2 DEF ReclaimClaim
<1>4. ASSUME NEW t \in Carriers, BlockCarrier(t)
      PROVE  Spared(u)
  BY <1>1, <1>4, RowFields, TaskClaimsAssumption DEF BlockCarrier, TypeOK, Spared
<1>5. CASE Tick
  BY <1>1, <1>5, TickClaims DEF Tick
<1>6. CASE sweep' = sweep
  BY <1>6 DEF Spared
<1>7. ASSUME NEW t \in Tasks, NEW a \in Agents, NarrowClaim(t, a)
      PROVE  Spared(u)
  <2>1. CASE u # t
    BY Zenon, <1>7, <2>1, NarrowClaims, Statuses DEF NarrowClaim, Spared
  <2>2. CASE u = t
    BY Zenon, <1>7, <2>2, NarrowClaims DEF NarrowClaim, HasActiveSession, Abandoned, Spared
  <2> QED  BY <2>1, <2>2
<1> QED
  BY <1>1, <1>2, <1>3, <1>4, <1>5, <1>6, <1>7, SweepSteps DEF ReclaimStep

\* The pass frees or narrows no claim of an agent that was heard of within the grace or
\* still has an active session on the task, whatever happened between the
\* listing and the candidate's transaction.
THEOREM ReclaimsSpareLiving == Spec => ReclaimSparesLiving
<1>1. TypeOK /\ [Next]_vars => [\A t \in Tasks : Spared(t)]_vars
  BY NextSpared
<1> QED  BY <1>1, TypeCorrect, PTL DEF Spec, ReclaimSparesLiving, Spared
=============================================================================
