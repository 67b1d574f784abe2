------------------------- MODULE AgentSessionsTypes -------------------------
(***************************************************************************)
(* Type correctness of TaskClaims and AgentSessions, for any agents, tasks,*)
(* sessions, actions and frontiers, and the lemmas about rows it rests on. *)
(***************************************************************************)
EXTENDS AgentSessions, FiniteSetTheorems, TLAPS

-----------------------------------------------------------------------------
(* Lemmas about rows.                                                      *)

\* A claim row written by an operation holds what it was given.
LEMMA RowFields ==
  ASSUME NEW st, NEW a
  PROVE  Row(st, a).status = st /\ Row(st, a).agent = a
BY DEF Row

LEMMA OldestNat == Oldest \in Nat /\ Oldest = Grace + 1 /\ 0 \in Ages /\ Oldest \in Ages
BY TaskClaimsAssumption DEF Oldest, Ages

LEMMA RowTyped ==
  ASSUME NEW st \in ClaimStatus, NEW a \in Agents
  PROVE  Row(st, a) \in ClaimRows
BY OldestNat DEF Row, ClaimRows

\* A claim row with a status has an owner.
LEMMA ClaimRowFields ==
  ASSUME NEW r \in ClaimRows
  PROVE  /\ r.status # "NONE" => r.status \in ClaimStatus /\ r.agent \in Agents
         /\ r.agent \in Agents => r.status \in ClaimStatus
         /\ r.status = "NONE" => r = NoClaim
         /\ r.age \in Ages
BY TaskClaimsAssumption, OldestNat
   DEF ClaimRows, NoClaim, ClaimStatus, LiveClaim, TerminalClaim

LEMMA BlockerRowFields ==
  ASSUME NEW r \in BlockerRows
  PROVE  /\ r.kind \in {"NONE", "ABSENT", "ROW"}
         /\ r.kind = "ROW" => r.status \in ClaimStatus \ {"BLOCKED"} /\ r.agent \in Agents
         /\ r.kind = "NONE" <=> r = NoBlocker
         /\ r.kind = "ABSENT" => r.status = "NONE"
BY DEF BlockerRows, NoBlocker

\* A session row with a status belongs to an agent and a task.
LEMMA SessionRowFields ==
  ASSUME NEW r \in SessionRows
  PROVE  /\ r.status \in ActiveSession => r.agent \in Agents /\ r.task \in Tasks
         /\ r.age \in Ages
         /\ r # NoSession => /\ r.status \in ActiveSession \cup {"ENDED"}
                             /\ r.agent \in Agents /\ r.task \in Tasks
                             /\ r.to \in Agents \cup {None} /\ r.rank \in Nat
BY OldestNat DEF SessionRows, NoSession, ActiveSession

LEMMA ActiveSessionRow ==
  ASSUME NEW r \in SessionRows, r.status \in ActiveSession
  PROVE  r \in [status : ActiveSession \cup {"ENDED"}, agent : Agents, task : Tasks,
               to : Agents \cup {None}, age : Ages, rank : Nat]
BY DEF SessionRows, NoSession, ActiveSession

LEMMA SessionRowMade ==
  ASSUME NEW r \in SessionRows, r.status \in ActiveSession,
         NEW st \in ActiveSession \cup {"ENDED"}, NEW to \in Agents \cup {None}, NEW age \in Ages
  PROVE  [r EXCEPT !.status = st, !.to = to, !.age = age] \in SessionRows
<1>1. r \in [status : ActiveSession \cup {"ENDED"}, agent : Agents, task : Tasks,
             to : Agents \cup {None}, age : Ages, rank : Nat]
  BY ActiveSessionRow
<1>2. [r EXCEPT !.status = st, !.to = to, !.age = age]
        \in [status : ActiveSession \cup {"ENDED"}, agent : Agents, task : Tasks,
             to : Agents \cup {None}, age : Ages, rank : Nat]
  BY Zenon, <1>1
<1> QED  BY <1>2 DEF SessionRows

LEMMA RowsExist ==
  /\ NoClaim \in ClaimRows /\ NoBlocker \in BlockerRows
  /\ NoSession \in SessionRows /\ NoSignal \in SignalRows
  /\ NoFrontier \in FrontierRows
  /\ {"CLAIMED", "BLOCKED", "RELEASED", "COMPLETED"} \subseteq ClaimStatus
  /\ TerminalClaim \subseteq ClaimStatus
  /\ LiveClaim \subseteq ClaimStatus /\ "NONE" \notin ClaimStatus
  /\ {"PENDING", "RUNNING", "RESOLVED"} \subseteq TaskStatus /\ TerminalTask \subseteq TaskStatus
BY OldestNat
   DEF NoClaim, ClaimRows, NoBlocker, BlockerRows, NoSession, SessionRows, NoSignal,
       SignalRows, NoFrontier, FrontierRows, ClaimStatus, LiveClaim, TerminalClaim, TaskStatus,
       TerminalTask

\* The claim statuses are told apart.
LEMMA Statuses ==
  /\ "CLAIMED" \in LiveClaim /\ "BLOCKED" \in LiveClaim
  /\ \A st \in TerminalClaim : st \notin LiveClaim \cup {"NONE", "RELEASED"}
  /\ \A st \in LiveClaim : st \in {"CLAIMED", "BLOCKED"}
  /\ "RELEASED" \notin LiveClaim /\ "NONE" \notin LiveClaim
  /\ "RUNNING" \notin TerminalTask /\ "PENDING" \notin TerminalTask
  /\ "RESOLVED" \in TerminalTask /\ "COMPLETED" = ClaimStatusFor("RESOLVED")
BY DEF LiveClaim, TerminalClaim, TerminalTask, ClaimStatusFor

LEMMA DecidedTyped ==
  ASSUME NEW st \in {"declined", "claim_failed", "consumed"}
  PROVE  Decided(st) \in FrontierRows
BY Zenon DEF Decided, NoFrontier, FrontierRows

LEMMA ForcedStatus ==
  ASSUME NEW resolution \in TerminalTask
  PROVE  ClaimStatusFor(resolution) \in TerminalClaim
BY DEF ClaimStatusFor, TerminalTask, TerminalClaim

\* invalidateSelectedTaskFrontierGenerationsTx keeps the frontiers' type.
LEMMA WithoutSelectionsTyped ==
  ASSUME frontier \in [Generations -> FrontierRows], NEW t
  PROVE  WithoutSelections(t) \in [Generations -> FrontierRows]
BY DecidedTyped DEF WithoutSelections

\* A release keeps the types of what it writes.
LEMMA ReleaseTyped ==
  ASSUME TypeOK, NEW t \in Tasks, claim[t].status # "NONE", ReleaseEffect(t)
  PROVE  /\ claim' \in [Tasks -> ClaimRows]
         /\ task' \in [Tasks -> TaskStatus]
         /\ frontier' \in [Generations -> FrontierRows]
<1>1. Row("RELEASED", claim[t].agent) \in ClaimRows
  BY ClaimRowFields, RowTyped, RowsExist DEF TypeOK
<1> QED
  BY <1>1, WithoutSelectionsTyped, RowsExist DEF ReleaseEffect, TypeOK

\* Forcing a claim to its task's outcome keeps its type.
LEMMA ForceTyped ==
  ASSUME TypeOK, NEW t \in Tasks, NEW resolution \in TerminalTask, ForceClaim(t, resolution)
  PROVE  claim' \in [Tasks -> ClaimRows]
<1>1. claim[t].status # "NONE" => Row(ClaimStatusFor(resolution), claim[t].agent) \in ClaimRows
  BY ClaimRowFields, RowTyped, RowsExist, ForcedStatus DEF TypeOK
<1> QED
  BY <1>1 DEF ForceClaim, TypeOK

-----------------------------------------------------------------------------
(* Types                                                                   *)

LEMMA AgentTypes ==
  ASSUME TypeOK, NEW a \in Agents, RegisterAgent(a) \/ Heartbeat(a) \/ DeleteAgent(a)
  PROVE  TypeOK'
<1>1. CASE RegisterAgent(a) \/ Heartbeat(a)
  BY <1>1, OldestNat DEF RegisterAgent, Heartbeat, TypeOK, claimVars
<1>2. CASE DeleteAgent(a)
  <2>1. session' \in [Sessions -> SessionRows]
    <3>1. PICK first \in Ages : session' = [s \in Sessions |->
           IF session[s].agent = a /\ session[s].status \in ActiveSession
             THEN [session[s] EXCEPT !.to = None,
                     !.age = IF @ < first THEN first ELSE @]
             ELSE session[s]]
      BY Zenon, <1>2 DEF DeleteAgent, Ages
    <3>2. ASSUME NEW s \in Sessions, session[s].status \in ActiveSession
          PROVE  [session[s] EXCEPT !.to = None, !.age = IF @ < first THEN first ELSE @] \in SessionRows
      <4>1. session[s] \in [status : ActiveSession \cup {"ENDED"}, agent : Agents, task : Tasks,
                            to : Agents \cup {None}, age : Ages, rank : Nat]
        BY <3>2, ActiveSessionRow DEF TypeOK
      <4> QED
        BY Zenon, <4>1, <3>1 DEF SessionRows
    <3> QED
      BY Zenon, <3>1, <3>2 DEF TypeOK
  <2>2. signal' \in [Carriers -> SignalRows]
    BY Zenon, <1>2, RowsExist DEF DeleteAgent, TypeOK
  <2>3. claim' \in [Tasks -> ClaimRows]
    BY Zenon, <1>2, RowsExist DEF DeleteAgent, TypeOK
  <2> QED
    BY Zenon, <1>2, <2>1, <2>2, <2>3, OldestNat DEF DeleteAgent, TypeOK
<1> QED  BY <1>1, <1>2

LEMMA FrontierTypes ==
  ASSUME TypeOK, NEW g \in Generations,
         \/ \E a \in Agents, t \in Tasks : OfferFrontier(g, a, t)
         \/ \E d : DecideFrontier(g, d)
         \/ ExpireFrontier(g)
  PROVE  TypeOK'
<1>1. frontier[g] \in FrontierRows
  BY DEF TypeOK
<1>2. frontier' \in [Generations -> FrontierRows]
  <2>1. ASSUME NEW a \in Agents, NEW t \in Tasks, OfferFrontier(g, a, t)
        PROVE  frontier' \in [Generations -> FrontierRows]
    <3>1. [state |-> "offered", agent |-> a, task |-> t, fresh |-> TRUE] \in FrontierRows
      BY DEF FrontierRows
    <3> QED  BY <2>1, <3>1 DEF OfferFrontier, TypeOK
  <2>2. ASSUME NEW d, DecideFrontier(g, d)
        PROVE  frontier' \in [Generations -> FrontierRows]
    <3>1. [frontier[g] EXCEPT !.state = "selected"] \in FrontierRows
      BY <1>1 DEF FrontierRows
    <3>2. d \in {"selected", "declined", "claim_failed"}
      BY <2>2 DEF DecideFrontier
    <3>3. (IF d = "selected" THEN [frontier[g] EXCEPT !.state = d] ELSE Decided(d)) \in FrontierRows
      BY <3>1, <3>2, DecidedTyped
    <3> QED  BY <2>2, <3>3 DEF DecideFrontier, TypeOK
  <2>3. CASE ExpireFrontier(g)
    <3>1. [frontier[g] EXCEPT !.fresh = FALSE] \in FrontierRows
      BY Zenon, <1>1 DEF FrontierRows
    <3> QED  BY <2>3, <3>1 DEF ExpireFrontier, TypeOK
  <2> QED  BY <2>1, <2>2, <2>3
<1> QED
  BY <1>2 DEF OfferFrontier, DecideFrontier, ExpireFrontier, TypeOK

LEMMA ClaimTypes ==
  ASSUME TypeOK, NEW a \in Agents, NEW t \in Tasks, NEW g \in Generations \cup {None},
         \/ ClaimTask(a, t, g) \/ ReleaseTask(a, t)
         \/ CompleteTask(a, t) \/ BlockTask(a, t)
  PROVE  TypeOK'
<1>1. CASE ClaimTask(a, t, g)
  <2>1. claim' \in [Tasks -> ClaimRows] /\ task' \in [Tasks -> TaskStatus]
    BY <1>1, RowTyped, RowsExist DEF ClaimTask, TypeOK
  <2>2. blocker' \in [Tasks -> BlockerRows]
    BY <1>1, RowsExist DEF ClaimTask, ClearOwnBlock, TypeOK
  <2>3. frontier' \in [Generations -> FrontierRows]
    BY <1>1, DecidedTyped DEF ClaimTask, TypeOK
  <2> QED  BY <1>1, <2>1, <2>2, <2>3 DEF ClaimTask, TypeOK
<1>2. CASE ReleaseTask(a, t)
  <2>1. claim[t].status # "NONE"
    BY <1>2, RowsExist DEF ReleaseTask
  <2> QED  BY <1>2, <2>1, ReleaseTyped DEF ReleaseTask, SnapshotStays, TypeOK
<1>3. CASE CompleteTask(a, t) \/ BlockTask(a, t)
  <2>1. claim' \in [Tasks -> ClaimRows] /\ task' \in [Tasks -> TaskStatus]
    BY <1>3, RowTyped, RowsExist DEF CompleteTask, BlockTask, TypeOK
  <2> QED  BY <1>3, <2>1 DEF CompleteTask, BlockTask, SnapshotStays, TypeOK
<1> QED  BY <1>1, <1>2, <1>3

LEMMA BlockClaimTyped ==
  ASSUME TypeOK, NEW t \in Tasks, NEW a \in Agents, BlockClaim(t, a)
  PROVE  claim' \in [Tasks -> ClaimRows] /\ blocker' \in [Tasks -> BlockerRows]
<1>1. CASE claim[t].status = "BLOCKED"
  BY <1>1 DEF BlockClaim, TypeOK
<1>2. CASE claim[t].status # "BLOCKED"
  <2> DEFINE snapshot == [kind |-> IF claim[t].status = "NONE" THEN "ABSENT" ELSE "ROW",
                          status |-> claim[t].status, agent |-> claim[t].agent]
  <2>1. snapshot \in BlockerRows
    <3>1. CASE claim[t].status = "NONE"
      <4>1. claim[t] = NoClaim
        BY <3>1, ClaimRowFields DEF TypeOK
      <4> QED  BY <4>1 DEF NoClaim, BlockerRows, NoBlocker
    <3>2. CASE claim[t].status # "NONE"
      BY <1>2, <3>2, ClaimRowFields DEF TypeOK, BlockerRows
    <3> QED  BY <3>1, <3>2
  <2>2. Row("BLOCKED", IF claim[t].status = "NONE" THEN a ELSE claim[t].agent) \in ClaimRows
    BY ClaimRowFields, RowTyped, RowsExist DEF TypeOK
  <2> HIDE DEF snapshot
  <2>3. blocker' = [blocker EXCEPT ![t] = IF @ # NoBlocker THEN @ ELSE snapshot]
    BY <1>2 DEF BlockClaim, snapshot
  <2>4. claim' = [claim EXCEPT ![t] =
            Row("BLOCKED", IF claim[t].status = "NONE" THEN a ELSE claim[t].agent)]
    BY <1>2 DEF BlockClaim
  <2> QED  BY <2>1, <2>2, <2>3, <2>4 DEF TypeOK
<1> QED  BY <1>1, <1>2

LEMMA UnblockClaimTyped ==
  ASSUME TypeOK, NEW t \in Tasks, UnblockClaim(t)
  PROVE  /\ claim' \in [Tasks -> ClaimRows] /\ blocker' \in [Tasks -> BlockerRows]
         /\ wide' \subseteq Tasks
<1>1. blocker[t].kind = "ROW" => Row(blocker[t].status, blocker[t].agent) \in ClaimRows
  BY BlockerRowFields, RowTyped DEF TypeOK
<1> QED
  BY <1>1, RowsExist DEF UnblockClaim, TypeOK

LEMMA ActionTypes ==
  ASSUME TypeOK, NEW x \in Actions,
         \/ \E a \in Agents, t \in Tasks : CreateHumanAction(x, a, t)
         \/ \E preserve \in BOOLEAN : ResolveHumanAction(x, preserve)
  PROVE  TypeOK'
<1>1. ASSUME NEW a \in Agents, NEW t \in Tasks, CreateHumanAction(x, a, t)
      PROVE  TypeOK'
  <2>1. [status |-> "PENDING", task |-> t] \in ActionRows
    BY DEF ActionRows
  <2>2. action' \in [Actions -> ActionRows]
    BY <1>1, <2>1 DEF CreateHumanAction, TypeOK
  <2>3. BlockClaim(t, a)
    BY <1>1 DEF CreateHumanAction
  <2> QED  BY <1>1, <2>2, <2>3, BlockClaimTyped DEF CreateHumanAction, TypeOK
<1>2. ASSUME NEW preserve \in BOOLEAN, ResolveHumanAction(x, preserve)
      PROVE  TypeOK'
  <2>1. action[x] \in [status : {"PENDING", "DONE"}, task : Tasks]
    BY <1>2 DEF ResolveHumanAction, TypeOK, ActionRows, NoAction
  <2>2. action' \in [Actions -> ActionRows]
    <3>1. [action[x] EXCEPT !.status = "DONE"] \in ActionRows
      BY <2>1 DEF ActionRows
    <3> QED  BY <1>2, <3>1 DEF ResolveHumanAction, TypeOK
  <2>3. /\ claim' \in [Tasks -> ClaimRows] /\ blocker' \in [Tasks -> BlockerRows]
        /\ wide' \subseteq Tasks
    <3>1. CASE UNCHANGED <<claim, wide, blocker>>
      BY <3>1 DEF TypeOK
    <3>2. CASE UnblockClaim(action[x].task)
      BY <2>1, <3>2, UnblockClaimTyped
    <3> QED  BY <1>2, <3>1, <3>2 DEF ResolveHumanAction
  <2> QED  BY <1>2, <2>2, <2>3 DEF ResolveHumanAction, TypeOK
<1> QED  BY <1>1, <1>2

LEMMA CloseTypes ==
  ASSUME TypeOK, NEW t \in Tasks, NEW resolution \in Resolutions,
         \/ CloseTask(t, resolution)
         \/ \E allowed \in SUBSET LiveClaim : TerminalizeTask(t, resolution, allowed)
  PROVE  TypeOK'
<1>1. resolution \in TerminalTask
  BY TaskClaimsAssumption DEF TerminalTask
<1>2. claim' \in [Tasks -> ClaimRows]
  BY <1>1, ForceTyped DEF CloseTask, TerminalizeTask
<1>3. task' \in [Tasks -> TaskStatus]
  BY <1>1, RowsExist DEF CloseTask, TerminalizeTask, TypeOK
<1> QED
  BY <1>2, <1>3 DEF CloseTask, TerminalizeTask, SnapshotStays, TypeOK

\* The rows that a session's start and end write.
LEMMA SessionRowsWritten ==
  ASSUME TypeOK
  PROVE  /\ \A a \in Agents, t \in Tasks : Started(a, t) \in SessionRows
         /\ \A s \in Sessions : session[s].status \in ActiveSession => Ended(s) \in SessionRows
<1>1. NextRank \in Nat
  <2>1. IsFiniteSet({s \in Sessions : session[s].status # "NONE"})
    BY TaskClaimsAssumption, FS_Subset
  <2> QED  BY <2>1, FS_CardinalityType DEF NextRank
<1>2. ASSUME NEW a \in Agents, NEW t \in Tasks  PROVE Started(a, t) \in SessionRows
  BY <1>1, OldestNat DEF Started, SessionRows, ActiveSession
<1>3. ASSUME NEW s \in Sessions, session[s].status \in ActiveSession
      PROVE  Ended(s) \in SessionRows
  BY Zenon, <1>3, SessionRowMade, OldestNat DEF Ended, TypeOK
<1> QED  BY <1>2, <1>3

LEMMA SessionTypes ==
  ASSUME TypeOK, NEW s \in Sessions,
         \/ \E a \in Agents, t \in Tasks : StartSession(s, a, t)
         \/ \E to \in Agents \cup {None} : UpdateSession(s, to)
         \/ EndSession(s)
         \/ \E r \in Sessions, a \in Agents : TakeOverSession(s, r, a)
  PROVE  TypeOK'
<1>1. ASSUME NEW a \in Agents, NEW t \in Tasks, StartSession(s, a, t)
      PROVE  TypeOK'
  BY <1>1, SessionRowsWritten DEF StartSession, TypeOK, claimVars
<1>2. ASSUME NEW to \in Agents \cup {None}, UpdateSession(s, to)
      PROVE  TypeOK'
  <2> DEFINE row == [session[s] EXCEPT
        !.status = IF to = None THEN "ACTIVE" ELSE "HANDOFF_PENDING", !.to = to, !.age = 0]
  <2>1. row \in SessionRows
    BY Zenon, <1>2, SessionRowMade, OldestNat DEF UpdateSession, TypeOK, ActiveSession
  <2>2. session' = [session EXCEPT ![s] = row]
    BY Zenon, <1>2 DEF UpdateSession
  <2> HIDE DEF row
  <2>3. session' \in [Sessions -> SessionRows]
    BY <2>1, <2>2 DEF TypeOK
  <2> QED  BY Zenon, <1>2, <2>3 DEF UpdateSession, TypeOK, claimVars
<1>3. CASE EndSession(s)
  BY <1>3, SessionRowsWritten, SessionRowFields DEF EndSession, TypeOK, claimVars
<1>4. ASSUME NEW r \in Sessions, NEW a \in Agents, TakeOverSession(s, r, a)
      PROVE  TypeOK'
  <2>1. session[s].task \in Tasks /\ session[s].agent \in Agents
    BY <1>4, SessionRowFields DEF TakeOverSession, TypeOK
  <2>2. session' \in [Sessions -> SessionRows]
    BY <1>4, <2>1, SessionRowsWritten DEF TakeOverSession, TypeOK
  <2>3. claim' \in [Tasks -> ClaimRows] /\ task' \in [Tasks -> TaskStatus]
    BY <1>4, <2>1, RowTyped, RowsExist DEF TakeOverSession, TypeOK
  <2> QED  BY <1>4, <2>1, <2>2, <2>3 DEF TakeOverSession, TypeOK
<1> QED  BY <1>1, <1>2, <1>3, <1>4

LEMMA PassTypes ==
  ASSUME TypeOK,
         \/ \E c \in Carriers : PostSignal(c)
         \/ PassStep \/ AbandonPass \/ \E x \in Candidates : SkipCandidate(x)
  PROVE  TypeOK'
<1>1. ASSUME NEW c \in Carriers, PostSignal(c)
      PROVE  TypeOK'
  <2>1. [status |-> "POSTED", age |-> 0] \in SignalRows
    BY OldestNat DEF SignalRows
  <2>2. signal' \in [Carriers -> SignalRows]
    BY <1>1, <2>1 DEF PostSignal, TypeOK
  <2> QED  BY <1>1, <2>2 DEF PostSignal, TypeOK, claimVars
<1>2. CASE PassStep \/ AbandonPass \/ \E x \in Candidates : SkipCandidate(x)
  <2>1. sweep' \in Sweeps
    <3>1. StaleCarriers \subseteq Candidates
      BY TaskClaimsAssumption DEF StaleCarriers, Candidates
    <3>2. CASE BeginPass \/ EndPass \/ AbandonPass
      BY <3>2 DEF BeginPass, EndPass, AbandonPass, Sweeps, Candidates
    <3>3. CASE ListClaims \/ ListCarriers
      <4>1. sweep \in Sweeps
        BY DEF TypeOK
      <4> QED  BY Zenon, <3>1, <3>3, <4>1 DEF ListClaims, ListCarriers, Sweeps, Candidates
    <3>5. CASE ListNarrow
      <4>1. PICK asked \in SUBSET {t \in wide : claim[t].status \in LiveClaim} :
              sweep' = [sweep EXCEPT !.phase = "NARROW",
                                     !.left = {<<t, claim[t].agent>> : t \in asked}]
        BY Zenon, <3>5 DEF ListNarrow
      <4>2. {<<t, claim[t].agent>> : t \in asked} \subseteq Candidates
        <5>1. ASSUME NEW t \in asked  PROVE <<t, claim[t].agent>> \in Tasks \X Agents
          BY ClaimRowFields, RowsExist, Statuses DEF TypeOK
        <5> QED  BY <5>1 DEF Candidates
      <4>3. sweep \in Sweeps
        BY DEF TypeOK
      <4> QED  BY Zenon, <4>1, <4>2, <4>3 DEF Sweeps
    <3>4. CASE \E x \in Candidates : SkipCandidate(x)
      BY <3>4 DEF SkipCandidate, Treated, TypeOK, Sweeps
    <3> QED  BY <1>2, <3>2, <3>3, <3>4, <3>5 DEF PassStep
  <2> QED
    BY Zenon, <1>2, <2>1
    DEF PassStep, BeginPass, ListClaims, ListNarrow, ListCarriers, EndPass, AbandonPass, SkipCandidate,
        TypeOK, claimVars
<1> QED  BY <1>1, <1>2

LEMMA TreatedTyped ==
  ASSUME TypeOK, NEW x, Treated(x)
  PROVE  sweep' \in Sweeps
BY DEF Treated, TypeOK, Sweeps

LEMMA ReclaimTypes ==
  ASSUME TypeOK, ReclaimStep
  PROVE  TypeOK'
<1>1. ASSUME NEW s \in Sessions, NEW h \in BOOLEAN, ReclaimSession(s, h)
      PROVE  TypeOK'
  <2>1. session[s].agent \in Agents /\ session[s].task \in Tasks
    BY <1>1, SessionRowFields DEF ReclaimSession, TypeOK
  <2>2. /\ claim' \in [Tasks -> ClaimRows] /\ task' \in [Tasks -> TaskStatus]
        /\ frontier' \in [Generations -> FrontierRows]
    <3>1. CASE UNCHANGED <<claim, task, frontier>>
      BY <3>1 DEF TypeOK
    <3>2. CASE claim[session[s].task].status = "CLAIMED" /\ ReleaseEffect(session[s].task)
      BY <2>1, <3>2, ReleaseTyped
    <3> QED  BY <1>1, <3>1, <3>2 DEF ReclaimSession
  <2>3. session' \in [Sessions -> SessionRows]
    BY <1>1, SessionRowsWritten DEF ReclaimSession, TypeOK
  <2>4. sweep' \in Sweeps
    BY <1>1, TreatedTyped DEF ReclaimSession
  <2> QED  BY <1>1, <2>1, <2>2, <2>3, <2>4 DEF ReclaimSession, TypeOK
<1>2. ASSUME NEW t \in Tasks, NEW h \in BOOLEAN, NEW e \in BOOLEAN, ReclaimClaim(t, h, e)
      PROVE  TypeOK'
  <2>1. claim[t].status # "NONE"
    BY <1>2, RowsExist DEF ReclaimClaim, Orphaned
  <2>2. /\ claim' \in [Tasks -> ClaimRows] /\ task' \in [Tasks -> TaskStatus]
        /\ frontier' \in [Generations -> FrontierRows]
    <3>1. CASE UNCHANGED <<claim, task, frontier>>
      BY <3>1 DEF TypeOK
    <3>2. CASE ReleaseEffect(t)
      BY <2>1, <3>2, ReleaseTyped
    <3> QED  BY <1>2, <3>1, <3>2 DEF ReclaimClaim
  <2>3. blocker' \in [Tasks -> BlockerRows]
    BY <1>2, RowsExist DEF ReclaimClaim, TypeOK
  <2>4. sweep' \in Sweeps
    BY <1>2, TreatedTyped DEF ReclaimClaim
  <2> QED  BY <1>2, <2>2, <2>3, <2>4 DEF ReclaimClaim, TypeOK
<1>3. ASSUME NEW c \in Carriers, BlockCarrier(c)
      PROVE  TypeOK'
  <2>1. c \in Tasks
    BY TaskClaimsAssumption
  <2>2. claim' \in [Tasks -> ClaimRows]
    BY <1>3, <2>1, ClaimRowFields, RowTyped, RowsExist DEF BlockCarrier, TypeOK
  <2>3. signal' \in [Carriers -> SignalRows]
    <3>1. [signal[c] EXCEPT !.status = "BLOCKED"] \in SignalRows
      BY DEF TypeOK, SignalRows
    <3> QED  BY <1>3, <3>1 DEF BlockCarrier, TypeOK
  <2>4. sweep' \in Sweeps
    BY <1>3, TreatedTyped DEF BlockCarrier
  <2> QED  BY <1>3, <2>2, <2>3, <2>4 DEF BlockCarrier, TypeOK
<1>4. ASSUME NEW t \in Tasks, NEW a \in Agents, NarrowClaim(t, a)
      PROVE  TypeOK'
  <2>1. claim' \in [Tasks -> ClaimRows]
    BY <1>4, RowTyped, RowsExist DEF NarrowClaim, TypeOK
  <2>2. sweep' \in Sweeps
    BY <1>4, TreatedTyped DEF NarrowClaim
  <2> QED  BY <1>4, <2>1, <2>2 DEF NarrowClaim, TypeOK
<1> QED  BY <1>1, <1>2, <1>3, <1>4 DEF ReclaimStep

LEMMA OlderTyped ==
  ASSUME NEW age \in Ages
  PROVE  Older(age, Oldest) \in Ages /\ Older(age, Grace) \in Ages
BY OldestNat, TaskClaimsAssumption DEF Older, Ages

LEMMA TickTypes ==
  ASSUME TypeOK, Tick
  PROVE  TypeOK'
<1>1. sweep' \in Sweeps
  BY DEF Tick, TypeOK, Sweeps
<1>2. seen' \in [Agents -> Ages]
  BY OlderTyped DEF Tick, TypeOK
<1>3. claim' \in [Tasks -> ClaimRows]
  <2>1. ASSUME NEW t \in Tasks, claim[t].status \in LiveClaim
        PROVE  [claim[t] EXCEPT !.age = Older(claim[t].age, Oldest)] \in ClaimRows
    <3>1. claim[t] \in [status : ClaimStatus, agent : Agents, age : Ages]
      <4>1. claim[t] \in ClaimRows
        BY DEF TypeOK
      <4>2. claim[t] # NoClaim
        BY <2>1 DEF NoClaim, LiveClaim
      <4> QED  BY <4>1, <4>2 DEF ClaimRows
    <3>2. Older(claim[t].age, Oldest) \in Ages
      BY <3>1, OlderTyped
    <3> QED  BY <3>1, <3>2 DEF ClaimRows
  <2> QED  BY <2>1 DEF Tick, TypeOK
<1>4. session' \in [Sessions -> SessionRows]
  <2>1. ASSUME NEW s \in Sessions, session[s].status \in ActiveSession
        PROVE  [session[s] EXCEPT !.age = Older(session[s].age, Oldest)] \in SessionRows
    <3>1. session[s] \in [status : ActiveSession \cup {"ENDED"}, agent : Agents, task : Tasks,
                          to : Agents \cup {None}, age : Ages, rank : Nat]
      BY <2>1, ActiveSessionRow DEF TypeOK
    <3>2. Older(session[s].age, Oldest) \in Ages
      BY <3>1, OlderTyped
    <3> QED  BY <3>1, <3>2 DEF SessionRows
  <2> QED  BY <2>1 DEF Tick, TypeOK
<1>5. signal' \in [Carriers -> SignalRows]
  <2>1. ASSUME NEW t \in Carriers
        PROVE  [signal[t] EXCEPT !.age = Older(signal[t].age, Grace)] \in SignalRows
    <3>1. signal[t] \in [status : {"NONE", "POSTED", "BLOCKED"}, age : Ages]
      BY DEF TypeOK, SignalRows
    <3>2. Older(signal[t].age, Grace) \in Ages
      BY <3>1, OlderTyped
    <3> QED  BY <3>1, <3>2 DEF SignalRows
  <2> QED  BY <2>1 DEF Tick, TypeOK
<1> QED
  BY <1>1, <1>2, <1>3, <1>4, <1>5 DEF Tick, TypeOK

LEMMA TypeInit == Init => TypeOK
<1> SUFFICES ASSUME Init PROVE TypeOK
  OBVIOUS
<1>1. NoAction \in ActionRows
  BY DEF ActionRows
<1>2. sweep \in Sweeps
  BY DEF Init, Sweeps
<1> QED
  BY <1>1, <1>2, RowsExist, OldestNat DEF Init, TypeOK

LEMMA TypeNext == TypeOK /\ [Next]_vars => TypeOK'
<1> SUFFICES ASSUME TypeOK, [Next]_vars PROVE TypeOK'
  OBVIOUS
<1>1. CASE UNCHANGED vars
  BY <1>1 DEF vars, claimVars, TypeOK
<1>2. CASE AgentStep
  <2>1. CASE \E a \in Agents : RegisterAgent(a) \/ Heartbeat(a)
    BY <2>1, AgentTypes
  <2>2. CASE \E a \in Removable : DeleteAgent(a)
    BY <2>2, AgentTypes, TaskClaimsAssumption
  <2>3. ASSUME NEW a \in Agents, NEW t \in Tasks,
               \/ \E g \in Generations \cup {None} : ClaimTask(a, t, g)
               \/ ReleaseTask(a, t) \/ CompleteTask(a, t) \/ BlockTask(a, t)
        PROVE  TypeOK'
    BY <2>3, ClaimTypes
  <2>4. ASSUME NEW a \in Agents, NEW t \in Tasks, NEW g \in Generations, OfferFrontier(g, a, t)
        PROVE  TypeOK'
    BY <2>4, FrontierTypes
  <2>5. ASSUME NEW a \in Agents, NEW t \in Tasks, NEW s \in Sessions, StartSession(s, a, t)
        PROVE  TypeOK'
    BY <2>5, SessionTypes
  <2>6. ASSUME NEW a \in Agents, NEW t \in Tasks, NEW x \in Actions, CreateHumanAction(x, a, t)
        PROVE  TypeOK'
    BY <2>6, ActionTypes
  <2>7. ASSUME NEW g \in Generations,
               \/ \E d \in {"selected", "declined", "claim_failed"} : DecideFrontier(g, d)
               \/ ExpireFrontier(g)
        PROVE  TypeOK'
    BY <2>7, FrontierTypes
  <2>8. ASSUME NEW s \in Sessions, NEW to \in Agents \cup {None}, UpdateSession(s, to)
        PROVE  TypeOK'
    BY <2>8, SessionTypes
  <2>9. ASSUME NEW s \in Sessions, EndSession(s)
        PROVE  TypeOK'
    BY <2>9, SessionTypes
  <2>10. ASSUME NEW s \in Sessions, NEW r \in Sessions, NEW a \in Agents, TakeOverSession(s, r, a)
         PROVE  TypeOK'
    BY <2>10, SessionTypes
  <2>11. CASE \E t \in Carriers : PostSignal(t)
    BY <2>11, PassTypes
  <2> QED
    BY <1>2, <2>1, <2>2, <2>3, <2>4, <2>5, <2>6, <2>7, <2>8, <2>9, <2>10, <2>11 DEF AgentStep
<1>3. CASE OperatorStep
  <2>1. ASSUME NEW x \in Actions, NEW preserve \in BOOLEAN, ResolveHumanAction(x, preserve)
        PROVE  TypeOK'
    BY <2>1, ActionTypes
  <2> QED  BY <1>3, <2>1, CloseTypes DEF OperatorStep
<1>4. CASE ReclaimStep
  BY <1>4, ReclaimTypes
<1>5. CASE PassStep \/ AbandonPass \/ \E x \in Candidates : SkipCandidate(x)
  BY <1>5, PassTypes
<1>6. CASE Tick
  BY <1>6, TickTypes
<1> QED
  BY <1>1, <1>2, <1>3, <1>4, <1>5, <1>6 DEF Next

\* The variables keep their types, and a blocker snapshot never records a
\* BLOCKED claim, for any number of agents, tasks, sessions, human actions and
\* frontiers.
THEOREM TypeCorrect == Spec => []TypeOK
BY TypeInit, TypeNext, PTL DEF Spec
=============================================================================
