---------------------- MODULE WorkspaceAuthorityProofs ----------------------
(***************************************************************************)
(* Proofs about WorkspaceAuthority, for every set of nodes and goroutines, *)
(* every lease length and every bound.                                     *)
(***************************************************************************)
EXTENDS WorkspaceAuthority, TLAPS

\* max returns one of its arguments, and neither is larger (the upsert's
\* MAX(...) and the choice between journal head and watermark).
LEMMA MaxIsUpperBound ==
  ASSUME NEW a \in Nat, NEW b \in Nat
  PROVE  MaxInt64(a, b) \in Nat /\ MaxInt64(a, b) >= a /\ MaxInt64(a, b) >= b
BY DEF MaxInt64

\* A goroutine that serves no call has a well-formed record.
LEMMA IdleIsPending == Idle \in Pending
BY DEF Idle, Pending, Calls

\* updated_at of a transition is a time.
LEMMA TransitionTimestampType ==
  ASSUME TypeOK, NEW ref \in Nat
  PROVE  NextTransitionTimestamp(auth, ref) \in Nat
BY MaxIsUpperBound DEF NextTransitionTimestamp, TypeOK, WorkspaceAuthorityRecord, MaxInt64

\* The journal stays a sequence of events when one is appended.
LEMMA JournalType ==
  ASSUME TypeOK, NEW type \in {"write", "granted", "expired", "transferred"},
         NEW node \in Nodes \union {NoNode}, NEW term \in Nat,
         Journal(type, node, term)
  PROVE  head' \in Nat /\ journal' \in Seq(RuntimeEventRecord)
BY DEF TypeOK, Journal, RuntimeEventRecord

\* A call that returns leaves well-formed records.
LEMMA ReturnType ==
  ASSUME TypeOK, NEW p \in Procs, Return(p)
  PROVE  op' \in [Procs -> Pending]
BY IdleIsPending DEF TypeOK, Return

\* The arguments of a lease operation form a pending call.
LEMMA LeaseCallType ==
  ASSUME NEW call \in Calls, NEW at \in Nat, NEW token \in Nat, NEW term \in Nat,
         NEW expires \in Nat, NEW commit \in Nat, NEW applied \in Nat,
         NEW to \in Nodes \union {NoNode}
  PROVE  LeaseCall(call, at, token, term, expires, commit, applied, to) \in Pending
BY DEF LeaseCall, Pending

\* Replacing the pending call of one goroutine keeps the type of all.
LEMMA PendingUpdate ==
  ASSUME TypeOK, NEW p \in Procs, NEW r \in Pending, op' = [op EXCEPT ![p] = r]
  PROVE  op' \in [Procs -> Pending]
BY DEF TypeOK

\* The columns of the row have the types of the table.
LEMMA RowFields ==
  ASSUME TypeOK
  PROVE  /\ auth \in WorkspaceAuthorityRecord
         /\ auth.holder \in Nodes \union {NoNode} /\ auth.status \in Statuses
         /\ auth.token \in Nat /\ auth.term \in Nat /\ auth.expires \in Nat
         /\ auth.commit \in Nat /\ auth.applied \in Nat /\ auth.updated \in Nat
BY DEF TypeOK, WorkspaceAuthorityRecord

\* The fields of a pending call have their types.
LEMMA PendingFields ==
  ASSUME TypeOK, NEW p \in Procs
  PROVE  /\ op[p] \in Pending
         /\ op[p].ref \in Nat /\ op[p].head \in Nat /\ op[p].at \in Nat
         /\ op[p].token \in Nat /\ op[p].term \in Nat /\ op[p].expires \in Nat
         /\ op[p].commit \in Nat /\ op[p].applied \in Nat
         /\ op[p].to \in Nodes \union {NoNode}
<1>1. op[p] \in Pending
  BY DEF TypeOK
<1> QED BY <1>1 DEF Pending

\* The upsert's watermarks are no lower than the stored and the new ones.
LEMMA Watermarks ==
  ASSUME TypeOK, NEW commit \in Nat, NEW applied \in Nat
  PROVE  /\ MaxInt64(auth.commit, commit) \in Nat /\ MaxInt64(auth.applied, applied) \in Nat
         /\ MaxInt64(auth.commit, commit) >= auth.commit /\ MaxInt64(auth.commit, commit) >= commit
         /\ MaxInt64(auth.applied, applied) >= auth.applied
BY Zenon, RowFields, MaxIsUpperBound

\* A granted claim makes the caller's node the holder of the claimed term.
LEMMA GrantedRow ==
  ASSUME TypeOK, NEW p \in Procs, GrantClaim(p)
  PROVE  /\ auth' \in WorkspaceAuthorityRecord
         /\ auth'.holder = NodeOf[p] /\ NodeOf[p] \in Nodes
         /\ auth'.term = op[p].term /\ auth'.status = "ACTIVE"
         /\ auth'.commit >= auth.commit /\ auth'.applied >= auth.applied
<1>1. Upsert(NodeOf[p], Len(journal) + 1, op[p].term, op[p].expires,
             op[p].commit, op[p].applied, "ACTIVE", now)
  BY DEF GrantClaim
<1>2. NodeOf[p] \in Nodes /\ Len(journal) + 1 \in Nat /\ now \in Nat
  BY ConstantsAssumption DEF TypeOK
<1>3. /\ MaxInt64(auth.commit, op[p].commit) \in Nat
      /\ MaxInt64(auth.applied, op[p].applied) \in Nat
      /\ MaxInt64(auth.commit, op[p].commit) >= auth.commit
      /\ MaxInt64(auth.applied, op[p].applied) >= auth.applied
  BY PendingFields, Watermarks
<1>4. op[p].term \in Nat /\ op[p].expires \in Nat
  BY PendingFields
<1> QED BY <1>1, <1>2, <1>3, <1>4 DEF Upsert, WorkspaceAuthorityRecord, Statuses

\* A renewal keeps holder, token, term and status, and raises the watermarks.
LEMMA RenewedRow ==
  ASSUME TypeOK, NEW p \in Procs, Renew(p)
  PROVE  /\ auth' \in WorkspaceAuthorityRecord
         /\ auth'.holder = auth.holder /\ auth'.token = auth.token
         /\ auth'.term = auth.term /\ auth'.status = auth.status
         /\ auth'.commit >= auth.commit /\ auth'.applied >= auth.applied
<1>1. PICK srv \in op[p].at .. now :
        Upsert(auth.holder, auth.token, auth.term, op[p].expires, op[p].commit,
               op[p].applied, auth.status, NextTransitionTimestamp(auth, srv))
  BY DEF Renew
<1>2. op[p].at \in Nat /\ now \in Nat
  BY PendingFields DEF TypeOK
<1>3. srv \in Nat
  BY <1>2
<1>4. NextTransitionTimestamp(auth, srv) \in Nat
  BY <1>3, TransitionTimestampType
<1>5. /\ MaxInt64(auth.commit, op[p].commit) \in Nat
      /\ MaxInt64(auth.applied, op[p].applied) \in Nat
      /\ MaxInt64(auth.commit, op[p].commit) >= auth.commit
      /\ MaxInt64(auth.applied, op[p].applied) >= auth.applied
  BY PendingFields, Watermarks
<1>6. op[p].expires \in Nat
  BY PendingFields
<1> QED BY <1>1, <1>4, <1>5, <1>6, RowFields DEF Upsert, WorkspaceAuthorityRecord

\* An expiry changes the status and raises the watermarks.
LEMMA ExpiredRow ==
  ASSUME TypeOK, NEW p \in Procs, Expire(p)
  PROVE  /\ auth' \in WorkspaceAuthorityRecord
         /\ auth'.holder = auth.holder /\ auth'.token = auth.token
         /\ auth'.term = auth.term /\ auth'.status = "EXPIRED"
         /\ auth'.commit >= auth.commit /\ auth'.applied >= auth.applied
<1>1. Upsert(auth.holder, auth.token, auth.term, auth.expires, op[p].commit,
             op[p].applied, "EXPIRED", NextTransitionTimestamp(auth, op[p].at))
  BY DEF Expire
<1>2. NextTransitionTimestamp(auth, op[p].at) \in Nat /\ "EXPIRED" \in Statuses
  BY PendingFields, TransitionTimestampType DEF Statuses
<1>3. /\ MaxInt64(auth.commit, op[p].commit) \in Nat
      /\ MaxInt64(auth.applied, op[p].applied) \in Nat
      /\ MaxInt64(auth.commit, op[p].commit) >= auth.commit
      /\ MaxInt64(auth.applied, op[p].applied) >= auth.applied
  BY PendingFields, Watermarks
<1> QED BY <1>1, <1>2, <1>3, RowFields DEF Upsert, WorkspaceAuthorityRecord

\* A transfer makes the target the holder of the next term.
LEMMA TransferredRow ==
  ASSUME TypeOK, NEW p \in Procs, Transfer(p)
  PROVE  /\ auth' \in WorkspaceAuthorityRecord
         /\ auth'.holder = op[p].to /\ op[p].to \in Nodes
         /\ op[p].term = auth.term /\ auth'.term = auth.term + 1
         /\ auth'.status = "ACTIVE"
         /\ auth'.commit >= auth.commit /\ auth'.applied >= auth.applied
         /\ auth'.commit >= head
<1>1. PICK srv \in op[p].at .. now :
        /\ op[p].to \in nodes
        /\ CallFenceHolds(p)
        /\ TransferAdmitted(p)
        /\ Upsert(op[p].to, Len(journal) + 1, op[p].term + 1, op[p].expires, op[p].commit,
                  op[p].applied, "ACTIVE", NextTransitionTimestamp(auth, srv))
  BY DEF Transfer
<1>2. op[p].at \in Nat /\ now \in Nat /\ head \in Nat
  BY PendingFields DEF TypeOK
<1>3. srv \in Nat
  BY <1>2
<1>4. NextTransitionTimestamp(auth, srv) \in Nat
  BY <1>3, TransitionTimestampType
<1>5. Len(journal) + 1 \in Nat
  BY DEF TypeOK
<1>6. op[p].term = auth.term /\ op[p].to \in Nodes
  BY <1>1 DEF CallFenceHolds, FenceHolds, TypeOK
<1>7. /\ MaxInt64(auth.commit, op[p].commit) \in Nat
      /\ MaxInt64(auth.applied, op[p].applied) \in Nat
      /\ MaxInt64(auth.commit, op[p].commit) >= auth.commit
      /\ MaxInt64(auth.commit, op[p].commit) >= op[p].commit
      /\ MaxInt64(auth.applied, op[p].applied) >= auth.applied
  BY PendingFields, Watermarks
<1>8. op[p].expires \in Nat /\ op[p].commit \in Nat /\ op[p].commit >= head
  BY <1>1, PendingFields DEF TransferAdmitted
<1>9. /\ auth' \in WorkspaceAuthorityRecord
      /\ auth'.holder = op[p].to /\ auth'.term = auth.term + 1 /\ auth'.status = "ACTIVE"
      /\ auth'.commit = MaxInt64(auth.commit, op[p].commit)
      /\ auth'.applied = MaxInt64(auth.applied, op[p].applied)
  BY <1>1, <1>4, <1>5, <1>6, <1>7, <1>8, RowFields DEF Upsert, WorkspaceAuthorityRecord, Statuses
<1> QED BY <1>2, <1>6, <1>7, <1>8, <1>9

\* A force-break that finds an ACTIVE row ends it like an expiry.
LEMMA BrokenRow ==
  ASSUME TypeOK, NEW n \in Nodes, ForceBreak(n), ~UNCHANGED <<auth, head, journal>>
  PROVE  /\ auth' \in WorkspaceAuthorityRecord
         /\ auth'.holder = auth.holder /\ auth'.token = auth.token
         /\ auth'.term = auth.term /\ auth'.status = "EXPIRED"
         /\ auth'.commit >= auth.commit /\ auth'.applied >= auth.applied
<1>1. Upsert(auth.holder, auth.token, auth.term, auth.expires,
             MaxInt64(auth.commit, head), MaxInt64(auth.applied, head), "EXPIRED", now)
  BY DEF ForceBreak
<1> DEFINE commit == MaxInt64(auth.commit, head)
           applied == MaxInt64(auth.applied, head)
<1>2. commit \in Nat /\ applied \in Nat /\ now \in Nat
  BY Zenon, RowFields, MaxIsUpperBound DEF TypeOK
<1> HIDE DEF commit, applied
<1>3. /\ MaxInt64(auth.commit, commit) \in Nat /\ MaxInt64(auth.applied, applied) \in Nat
      /\ MaxInt64(auth.commit, commit) >= auth.commit
      /\ MaxInt64(auth.applied, applied) >= auth.applied
  BY <1>2, Watermarks
<1>4. Upsert(auth.holder, auth.token, auth.term, auth.expires, commit, applied, "EXPIRED", now)
  BY <1>1 DEF commit, applied
<1> QED BY <1>2, <1>3, <1>4, RowFields DEF Upsert, WorkspaceAuthorityRecord, Statuses

-----------------------------------------------------------------------------
\* Type correctness of the row, the journal and the pending calls.
THEOREM TypeCorrect == Spec => []TypeOK
<1>1. Init => TypeOK
  BY IdleIsPending DEF Init, TypeOK, MissingAuthority, WorkspaceAuthorityRecord,
     Statuses, RuntimeEventRecord
<1>2. ASSUME TypeOK, [Next]_vars PROVE TypeOK'
  <2> USE <1>2, ConstantsAssumption
  <2>1. ASSUME NEW p \in Procs, BeginWrite(p) PROVE TypeOK'
    <3>1. [Idle EXCEPT !.call = "write", !.token = auth.token, !.term = auth.term] \in Pending
      BY Zenon, RowFields DEF Idle, Pending, Calls
    <3>2. op' \in [Procs -> Pending]
      BY Zenon, <2>1, <3>1, PendingUpdate DEF BeginWrite
    <3> QED BY <2>1, <3>2 DEF TypeOK, BeginWrite, Request
  <2>2. ASSUME NEW p \in Procs, BeginEnsure(p) PROVE TypeOK'
    <3>1. [Idle EXCEPT !.call = "ensure", !.ref = now, !.head = head] \in Pending
      BY Zenon DEF TypeOK, Idle, Pending, Calls
    <3>2. op' \in [Procs -> Pending]
      BY Zenon, <2>2, <3>1, PendingUpdate DEF BeginEnsure
    <3> QED BY <2>2, <3>2 DEF TypeOK, BeginEnsure
  <2>3. ASSUME NEW p \in Procs, NEW to \in Nodes, BeginTransfer(p, to) PROVE TypeOK'
    <3>0. now + LeaseTTL \in Nat /\ now \in Nat /\ head \in Nat /\ "transfer" \in Calls
      BY DEF TypeOK, Calls
    <3>1. LeaseCall("transfer", now, auth.token, auth.term, now + LeaseTTL, head, head, to)
            \in Pending
      BY Zenon, <3>0, RowFields, LeaseCallType
    <3>2. op' \in [Procs -> Pending]
      BY Zenon, <2>3, <3>1, PendingUpdate DEF BeginTransfer
    <3> QED BY <2>3, <3>2 DEF TypeOK, BeginTransfer, Request
  <2>4. ASSUME NEW p \in Procs, BeginMaintenance(p) PROVE TypeOK'
    <3>1. [Idle EXCEPT !.call = "maintain", !.ref = now] \in Pending
      BY Zenon DEF TypeOK, Idle, Pending, Calls
    <3>2. op' \in [Procs -> Pending]
      BY Zenon, <2>4, <3>1, PendingUpdate DEF BeginMaintenance
    <3> QED BY <2>4, <3>2 DEF TypeOK, BeginMaintenance
  <2>5. ASSUME NEW p \in Procs, EnsureDecide(p) PROVE TypeOK'
    <3>0. op[p].ref + LeaseTTL \in Nat /\ now \in Nat /\ {"claim", "renew"} \subseteq Calls
      BY PendingFields DEF TypeOK, Calls
    <3>1. /\ MaxInt64(op[p].head, auth.commit) \in Nat
          /\ MaxInt64(op[p].head, auth.applied) \in Nat
      BY Zenon, RowFields, PendingFields, MaxIsUpperBound
    <3>3. ASSUME NEW term \in Nat, EnsureClaim(p, term) PROVE op' \in [Procs -> Pending]
      <4> DEFINE journalHead == MaxInt64(op[p].head, auth.commit)
      <4>1. LeaseCall("claim", now, 0, term, op[p].ref + LeaseTTL,
                      journalHead, journalHead, NoNode) \in Pending
        BY Zenon, <3>0, <3>1, LeaseCallType
      <4> QED BY Zenon, <3>3, <4>1, PendingUpdate DEF EnsureClaim
    <3>4. ASSUME EnsureRenew(p) PROVE op' \in [Procs -> Pending]
      <4>1. LeaseCall("renew", now, auth.token, auth.term, op[p].ref + LeaseTTL,
                      MaxInt64(op[p].head, auth.commit),
                      MaxInt64(op[p].head, auth.applied), NoNode) \in Pending
        BY Zenon, <3>0, <3>1, RowFields, LeaseCallType
      <4> QED BY Zenon, <3>4, <4>1, PendingUpdate DEF EnsureRenew
    <3>5. auth.term + 1 \in Nat
      BY RowFields
    <3>6. op' \in [Procs -> Pending]
      BY <2>5, <3>3, <3>4, <3>5, ReturnType DEF EnsureDecide
    <3> QED BY <2>5, <3>6 DEF EnsureDecide, TypeOK
  <2>6. ASSUME NEW p \in Procs, MaintenanceDecide(p) PROVE TypeOK'
    <3>0. op[p].ref + LeaseTTL \in Nat /\ now \in Nat /\ {"claim", "renew"} \subseteq Calls
      BY PendingFields DEF TypeOK, Calls
    <3>2. ASSUME MaintenanceRenew(p) PROVE op' \in [Procs -> Pending]
      <4>1. LeaseCall("renew", now, auth.token, auth.term, op[p].ref + LeaseTTL,
                      auth.commit, auth.applied, NoNode) \in Pending
        BY Zenon, <3>0, RowFields, LeaseCallType
      <4> QED BY Zenon, <3>2, <4>1, PendingUpdate DEF MaintenanceRenew
    <3>3. ASSUME MaintenanceExpire(p) PROVE op' \in [Procs -> Pending]
      <4>1. LeaseCall("expire", op[p].ref, auth.token, auth.term, 0,
                      auth.commit, auth.applied, NoNode) \in Pending
        BY Zenon, PendingFields, RowFields, LeaseCallType DEF Calls
      <4> QED BY Zenon, <3>3, <4>1, PendingUpdate DEF MaintenanceExpire
    <3>4. op' \in [Procs -> Pending]
      BY <2>6, <3>2, <3>3, ReturnType DEF MaintenanceDecide
    <3> QED BY <2>6, <3>4 DEF MaintenanceDecide, TypeOK
  <2>7. ASSUME NEW p \in Procs, GrantClaim(p) PROVE TypeOK'
    <3>1. auth' \in WorkspaceAuthorityRecord /\ NodeOf[p] \in Nodes
      BY <2>7, GrantedRow
    <3>2. head' \in Nat /\ journal' \in Seq(RuntimeEventRecord)
      BY <2>7, <3>1, PendingFields, JournalType DEF GrantClaim
    <3> QED BY <2>7, <3>1, <3>2, ReturnType DEF GrantClaim, TypeOK
  <2>8. ASSUME NEW p \in Procs, Renew(p) PROVE TypeOK'
    <3>1. auth' \in WorkspaceAuthorityRecord
      BY <2>8, RenewedRow
    <3> QED BY <2>8, <3>1, ReturnType DEF Renew, JournalOther, TypeOK
  <2>9. ASSUME NEW p \in Procs, Expire(p) PROVE TypeOK'
    <3>1. auth' \in WorkspaceAuthorityRecord
      BY <2>9, ExpiredRow
    <3>2. head' \in Nat /\ journal' \in Seq(RuntimeEventRecord)
      BY <2>9, PendingFields, JournalType DEF Expire
    <3> QED BY <2>9, <3>1, <3>2, ReturnType DEF Expire, TypeOK
  <2>10. ASSUME NEW p \in Procs, Transfer(p) PROVE TypeOK'
    <3>1. auth' \in WorkspaceAuthorityRecord
      BY <2>10, TransferredRow
    <3>2. op[p].term + 1 \in Nat
      BY PendingFields
    <3>3. head' \in Nat /\ journal' \in Seq(RuntimeEventRecord)
      BY <2>10, <3>2, PendingFields, JournalType DEF Transfer
    <3> QED BY <2>10, <3>1, <3>3, ReturnType DEF Transfer, TypeOK
  <2>11. ASSUME NEW p \in Procs, Write(p) PROVE TypeOK'
    <3>1. op[p].term \in Nat
      BY DEF TypeOK, Pending
    <3>2. head' \in Nat /\ journal' \in Seq(RuntimeEventRecord)
      BY <2>11, <3>1, JournalType DEF Write
    <3> QED BY <2>11, <3>2, ReturnType DEF Write, TypeOK
  <2>12. ASSUME NEW p \in Procs, FenceReject(p) PROVE TypeOK'
    <3>1. [Idle EXCEPT !.call = "reject"] \in Pending
      BY DEF Idle, Pending, Calls
    <3>2. op' \in [Procs -> Pending]
      BY Zenon, <2>12, <3>1, PendingUpdate DEF FenceReject
    <3> QED BY <2>12, <3>2 DEF TypeOK, FenceReject
  <2>13. ASSUME NEW p \in Procs, JournalReject(p) PROVE TypeOK'
    BY <2>13, ReturnType DEF JournalReject, JournalOther, TypeOK
  <2>14. ASSUME NEW p \in Procs,
                RefuseClaim(p) \/ RefuseRenew(p) \/ RefuseExpire(p) \/ RefuseTransfer(p) \/ Abandon(p)
         PROVE TypeOK'
    BY <2>14, ReturnType DEF RefuseClaim, RefuseRenew, RefuseExpire, RefuseTransfer, Abandon, TypeOK
  <2>15. ASSUME NEW n \in Nodes, ForceBreak(n) PROVE TypeOK'
    <3>1. CASE UNCHANGED <<auth, head, journal>>
      BY <2>15, <3>1 DEF ForceBreak, Break, TypeOK
    <3>2. CASE ~UNCHANGED <<auth, head, journal>>
      <4>1. auth' \in WorkspaceAuthorityRecord
        BY <2>15, <3>2, BrokenRow
      <4>2. Journal("expired", auth.holder, auth.term)
        BY <2>15, <3>2 DEF ForceBreak
      <4>3. head' \in Nat /\ journal' \in Seq(RuntimeEventRecord)
        BY <4>2, RowFields, JournalType
      <4> QED BY <2>15, <4>1, <4>3 DEF ForceBreak, Break, TypeOK
    <3> QED BY <3>1, <3>2
  <2>16. ASSUME NEW n \in Nodes, DeleteNode(n) PROVE TypeOK'
    <3>1. [auth EXCEPT !.holder = NoNode] \in WorkspaceAuthorityRecord
      BY RowFields DEF WorkspaceAuthorityRecord
    <3>2. auth' \in WorkspaceAuthorityRecord
      BY <2>16, <3>1, RowFields DEF DeleteNode
    <3> QED BY <2>16, <3>2 DEF DeleteNode, Break, TypeOK
  <2>17. CASE Tick
    BY <2>17 DEF Tick, TypeOK
  <2>18. CASE UNCHANGED vars
    BY <2>18 DEF vars, TypeOK
  <2> QED BY <2>1, <2>2, <2>3, <2>4, <2>5, <2>6, <2>7, <2>8, <2>9, <2>10, <2>11, <2>12,
             <2>13, <2>14, <2>15, <2>16, <2>17, <2>18 DEF Next, Step, Procs
<1> QED BY <1>1, <1>2, PTL DEF Spec

-----------------------------------------------------------------------------
(***************************************************************************)
(* What a step does to the row and to the journal.  Seventeen kinds of     *)
(* step have five effects; the safety proofs reason about the effects.     *)
(***************************************************************************)

\* A claim is prepared from a row that was read: its term is at most one
\* above the row's, however late it arrives.
ClaimTerms == \A p \in Procs : op[p].call = "claim" => op[p].term <= auth.term + 1

SameTurn == auth'.term = auth.term /\ auth'.holder = auth.holder /\ auth'.status = auth.status

Entry(type, node, term) == [type |-> type, node |-> node, term |-> term]

QuietEffect == SameTurn /\ journal' = journal

GrantEffect ==
  \E n \in Nodes, type \in {"granted", "transferred"} :
    /\ auth'.term = auth.term + 1 /\ auth'.holder = n /\ auth'.status = "ACTIVE"
    /\ journal' = Append(journal, Entry(type, n, auth.term + 1))

EndEffect ==
  /\ auth'.term = auth.term /\ auth'.holder = auth.holder /\ auth'.status = "EXPIRED"
  /\ \E n \in Nodes \union {NoNode} : journal' = Append(journal, Entry("expired", n, auth.term))

WriteEffect ==
  /\ SameTurn /\ auth.status = "ACTIVE" /\ auth.holder \in Nodes
  /\ journal' = Append(journal, Entry("write", auth.holder, auth.term))

OrphanEffect ==
  /\ auth'.term = auth.term /\ auth'.holder = NoNode /\ auth'.status = auth.status
  /\ journal' = journal

Effect == QuietEffect \/ GrantEffect \/ EndEffect \/ WriteEffect \/ OrphanEffect

\* Every step of the specification has one of the five effects.
LEMMA StepEffect ==
  ASSUME TypeOK, ClaimTerms, [Next]_vars
  PROVE  Effect
<1> USE ConstantsAssumption
<1>1. ASSUME UNCHANGED <<auth, journal>> PROVE Effect
  BY <1>1 DEF Effect, QuietEffect, SameTurn
<1>2. ASSUME NEW p \in Procs, GrantClaim(p) PROVE Effect
  <2>1. journal' = Append(journal, Entry("granted", NodeOf[p], op[p].term))
    BY <1>2 DEF GrantClaim, Journal, Entry
  <2>2. op[p].term = auth.term + 1
    BY <1>2, RowFields, PendingFields DEF GrantClaim, ClaimAdmitted, ClaimTerms
  <2> QED BY <1>2, <2>1, <2>2, GrantedRow DEF Effect, GrantEffect
<1>3. ASSUME NEW p \in Procs, Renew(p) PROVE Effect
  BY <1>3, RenewedRow DEF Renew, JournalOther, Effect, QuietEffect, SameTurn
<1>4. ASSUME NEW p \in Procs, Expire(p) PROVE Effect
  <2>1. journal' = Append(journal, Entry("expired", NodeOf[p], auth.term))
    BY <1>4 DEF Expire, ExpireAdmitted, Journal, Entry
  <2> QED BY <1>4, <2>1, ExpiredRow DEF Effect, EndEffect
<1>5. ASSUME NEW p \in Procs, Transfer(p) PROVE Effect
  <2>1. journal' = Append(journal, Entry("transferred", op[p].to, op[p].term + 1))
    BY <1>5 DEF Transfer, Journal, Entry
  <2> QED BY <1>5, <2>1, TransferredRow DEF Effect, GrantEffect
<1>6. ASSUME NEW p \in Procs, Write(p) PROVE Effect
  BY <1>6 DEF Write, Journal, Entry, CallFenceHolds, FenceHolds, Effect, WriteEffect, SameTurn
<1>7. ASSUME NEW p \in Procs, JournalReject(p) PROVE Effect
  BY <1>1, <1>7 DEF JournalReject, JournalOther
<1>8. ASSUME NEW n \in Nodes, ForceBreak(n) PROVE Effect
  <2>1. CASE UNCHANGED <<auth, head, journal>>
    BY <1>1, <2>1
  <2>2. CASE ~UNCHANGED <<auth, head, journal>>
    <3>1. journal' = Append(journal, Entry("expired", auth.holder, auth.term))
      BY <1>8, <2>2 DEF ForceBreak, Journal, Entry
    <3> QED BY <1>8, <2>2, <3>1, BrokenRow, RowFields DEF Effect, EndEffect
  <2> QED BY <2>1, <2>2
<1>9. ASSUME NEW n \in Nodes, DeleteNode(n) PROVE Effect
  <2>1. CASE auth.holder = n
    <3>1. /\ [auth EXCEPT !.holder = NoNode].term = auth.term
          /\ [auth EXCEPT !.holder = NoNode].holder = NoNode
          /\ [auth EXCEPT !.holder = NoNode].status = auth.status
      BY RowFields DEF WorkspaceAuthorityRecord
    <3> QED BY <1>9, <2>1, <3>1 DEF DeleteNode, Effect, OrphanEffect
  <2>2. CASE auth.holder # n
    BY <1>1, <1>9, <2>2 DEF DeleteNode
  <2> QED BY <2>1, <2>2
<1>10. ASSUME NEW p \in Procs, NEW to \in Nodes,
              BeginWrite(p) \/ BeginEnsure(p) \/ BeginTransfer(p, to) \/ BeginMaintenance(p)
       PROVE Effect
  BY <1>1, <1>10 DEF BeginWrite, BeginEnsure, BeginTransfer, BeginMaintenance
<1>11. ASSUME NEW p \in Procs,
              EnsureDecide(p) \/ MaintenanceDecide(p) \/ FenceReject(p) \/ Abandon(p)
       PROVE Effect
  BY <1>1, <1>11 DEF EnsureDecide, MaintenanceDecide, FenceReject, Abandon
<1>12. ASSUME NEW p \in Procs,
              RefuseClaim(p) \/ RefuseRenew(p) \/ RefuseExpire(p) \/ RefuseTransfer(p)
       PROVE Effect
  BY <1>1, <1>12 DEF RefuseClaim, RefuseRenew, RefuseExpire, RefuseTransfer
<1>13. CASE Tick \/ UNCHANGED vars
  BY <1>1, <1>13 DEF Tick, vars
<1>14. ASSUME NEW p \in Procs, Step(p) PROVE Effect
  BY <1>2, <1>3, <1>4, <1>5, <1>6, <1>7, <1>11, <1>12, <1>14 DEF Step
<1>15. ASSUME NEW p \in Procs, BeginWrite(p) \/ BeginEnsure(p) \/ BeginMaintenance(p) PROVE Effect
  BY <1>1, <1>15 DEF BeginWrite, BeginEnsure, BeginMaintenance
<1> QED BY <1>8, <1>9, <1>10, <1>11, <1>13, <1>14, <1>15 DEF Next, Procs

-----------------------------------------------------------------------------
(***************************************************************************)
(* Safety of the turns.                                                    *)
(***************************************************************************)

\* No entry is of a term above the row's; the writes of the row's own term
\* are its holder's, unless the holder was deleted; and a term whose end is
\* journaled is not ACTIVE again.
TurnInv ==
  /\ \A i \in 1 .. Len(journal) : journal[i].term <= auth.term
  /\ \A i \in 1 .. Len(journal) :
       journal[i].type = "write" /\ journal[i].term = auth.term
         => auth.holder \in {journal[i].node, NoNode}
  /\ \A i \in 1 .. Len(journal) :
       journal[i].type = "expired" /\ journal[i].term = auth.term => auth.status # "ACTIVE"

\* An append keeps the journal and adds its entry at the end.
LEMMA AppendEntry ==
  ASSUME TypeOK, NEW e \in RuntimeEventRecord, journal' = Append(journal, e)
  PROVE  /\ Len(journal) \in Nat
         /\ Len(journal') = Len(journal) + 1
         /\ journal'[Len(journal) + 1] = e
         /\ \A i \in 1 .. Len(journal) : journal'[i] = journal[i]
         /\ \A i \in 1 .. Len(journal') : i \in 1 .. Len(journal) \/ i = Len(journal) + 1
BY DEF TypeOK

\* The entry that Journal appends, field by field.
LEMMA EntryType ==
  ASSUME NEW type \in {"write", "granted", "expired", "transferred"},
         NEW node \in Nodes \union {NoNode}, NEW term \in Nat
  PROVE  /\ Entry(type, node, term) \in RuntimeEventRecord
         /\ Entry(type, node, term).type = type
         /\ Entry(type, node, term).node = node
         /\ Entry(type, node, term).term = term
BY DEF Entry, RuntimeEventRecord

\* The entries of the journal have a term and a node.
LEMMA EntryFields ==
  ASSUME TypeOK
  PROVE  \A i \in 1 .. Len(journal) :
           journal[i].term \in Nat /\ journal[i].node \in Nodes \union {NoNode}
<1>1. ASSUME NEW i \in 1 .. Len(journal) PROVE journal[i] \in RuntimeEventRecord
  BY <1>1 DEF TypeOK
<1> QED BY <1>1 DEF RuntimeEventRecord

\* The five effects preserve the invariant and the two properties of the
\* journal it is there for.
LEMMA EffectKeepsTurns ==
  ASSUME TypeOK, TypeOK', TurnInv, OneWriterPerTerm, StaleWriterSilenced, Effect
  PROVE  TurnInv' /\ OneWriterPerTerm' /\ StaleWriterSilenced'
<1> USE ConstantsAssumption
<1>1. CASE QuietEffect
  BY <1>1 DEF QuietEffect, SameTurn, TurnInv, OneWriterPerTerm, StaleWriterSilenced
<1>2. CASE OrphanEffect
  BY <1>2 DEF OrphanEffect, TurnInv, OneWriterPerTerm, StaleWriterSilenced
<1>3. CASE GrantEffect
  <2>1. PICK n \in Nodes, type \in {"granted", "transferred"} :
          /\ auth'.term = auth.term + 1 /\ auth'.holder = n /\ auth'.status = "ACTIVE"
          /\ journal' = Append(journal, Entry(type, n, auth.term + 1))
    BY <1>3 DEF GrantEffect
  <2> DEFINE e == Entry(type, n, auth.term + 1)
  <2>2. e \in RuntimeEventRecord /\ e.type = type /\ e.term = auth.term + 1
    BY EntryType, RowFields
  <2> HIDE DEF e
  <2>3. /\ Len(journal) \in Nat /\ Len(journal') = Len(journal) + 1
        /\ journal'[Len(journal) + 1] = e
        /\ \A i \in 1 .. Len(journal) : journal'[i] = journal[i]
        /\ \A i \in 1 .. Len(journal') : i \in 1 .. Len(journal) \/ i = Len(journal) + 1
    BY <2>1, <2>2, AppendEntry DEF e
  <2>4. TurnInv'
    <3>1. \A i \in 1 .. Len(journal) : journal'[i].term <= auth.term /\ journal'[i].term \in Nat
      BY <2>3, EntryFields DEF TurnInv
    <3>2. \A i \in 1 .. Len(journal) : journal'[i].term < auth'.term
      BY <2>1, <3>1, RowFields
    <3>3. \A i \in 1 .. Len(journal') :
            /\ journal'[i].term <= auth'.term
            /\ journal'[i].type \in {"write", "expired"} => journal'[i].term # auth'.term
      <4> SUFFICES ASSUME NEW i \in 1 .. Len(journal')
                   PROVE  /\ journal'[i].term <= auth'.term
                          /\ journal'[i].type \in {"write", "expired"}
                               => journal'[i].term # auth'.term
        OBVIOUS
      <4>1. CASE i \in 1 .. Len(journal)
        BY <2>1, <3>1, <3>2, <4>1, RowFields
      <4>2. CASE i = Len(journal) + 1
        BY <2>1, <2>2, <2>3, <4>2, RowFields
      <4> QED BY <2>3, <4>1, <4>2
    <3> QED BY <3>3 DEF TurnInv
  <2>5. OneWriterPerTerm'
    BY <2>2, <2>3 DEF OneWriterPerTerm
  <2>6. StaleWriterSilenced'
    BY <2>2, <2>3 DEF StaleWriterSilenced
  <2> QED BY <2>4, <2>5, <2>6
<1>4. CASE EndEffect
  <2>1. PICK n \in Nodes \union {NoNode} : journal' = Append(journal, Entry("expired", n, auth.term))
    BY <1>4 DEF EndEffect
  <2> DEFINE e == Entry("expired", n, auth.term)
  <2>2. e \in RuntimeEventRecord /\ e.type = "expired" /\ e.term = auth.term
    BY EntryType, RowFields
  <2> HIDE DEF e
  <2>3. /\ Len(journal) \in Nat /\ Len(journal') = Len(journal) + 1
        /\ journal'[Len(journal) + 1] = e
        /\ \A i \in 1 .. Len(journal) : journal'[i] = journal[i]
        /\ \A i \in 1 .. Len(journal') : i \in 1 .. Len(journal) \/ i = Len(journal) + 1
    BY <2>1, <2>2, AppendEntry DEF e
  <2>4. TurnInv'
    BY <1>4, <2>2, <2>3, RowFields DEF TurnInv, EndEffect
  <2>5. OneWriterPerTerm'
    BY <2>2, <2>3 DEF OneWriterPerTerm
  <2>6. StaleWriterSilenced'
    BY <2>2, <2>3 DEF StaleWriterSilenced
  <2> QED BY <2>4, <2>5, <2>6
<1>5. CASE WriteEffect
  <2> DEFINE e == Entry("write", auth.holder, auth.term)
  <2>2. e \in RuntimeEventRecord /\ e.type = "write" /\ e.term = auth.term /\ e.node = auth.holder
    BY EntryType, RowFields
  <2> HIDE DEF e
  <2>3. /\ Len(journal) \in Nat /\ Len(journal') = Len(journal) + 1
        /\ journal'[Len(journal) + 1] = e
        /\ \A i \in 1 .. Len(journal) : journal'[i] = journal[i]
        /\ \A i \in 1 .. Len(journal') : i \in 1 .. Len(journal) \/ i = Len(journal) + 1
    BY <1>5, <2>2, AppendEntry DEF e, WriteEffect
  <2>4. TurnInv'
    BY <1>5, <2>2, <2>3, RowFields DEF TurnInv, WriteEffect, SameTurn
  <2>5. \A i \in 1 .. Len(journal) :
          journal[i].type = "write" /\ journal[i].term = e.term => journal[i].node = e.node
    BY <1>5, <2>2 DEF TurnInv, WriteEffect
  <2>6. OneWriterPerTerm'
    BY <2>3, <2>5 DEF OneWriterPerTerm
  <2>7. \A i \in 1 .. Len(journal) :
          /\ journal[i].term <= e.term
          /\ journal[i].type = "expired" => journal[i].term < e.term
    BY <1>5, <2>2, RowFields, EntryFields DEF TurnInv, WriteEffect
  <2>8. StaleWriterSilenced'
    BY <2>3, <2>7 DEF StaleWriterSilenced
  <2> QED BY <2>4, <2>6, <2>8
<1> QED BY <1>1, <1>2, <1>3, <1>4, <1>5 DEF Effect

\* Pending claims survive a step, or are new.
ClaimsKept == \A q \in Procs : op'[q].call = "claim" => op'[q] = op[q]

\* A goroutine that does not begin a claim leaves the pending claims alone.
LEMMA UpdateKeepsClaims ==
  ASSUME TypeOK, NEW p \in Procs, NEW r \in Pending, r.call # "claim",
         op' = [op EXCEPT ![p] = r]
  PROVE  ClaimsKept
BY DEF ClaimsKept, TypeOK

\* Neither does one that returns begin a claim.
LEMMA ReturnKeepsClaims ==
  ASSUME TypeOK, NEW p \in Procs, Return(p)
  PROVE  ClaimsKept
<1>1. Idle \in Pending /\ Idle.call # "claim"
  BY IdleIsPending DEF Idle
<1> QED BY Zenon, <1>1, UpdateKeepsClaims DEF Return

\* A pending claim is at most one term ahead of the row, in every state.
LEMMA StepKeepsClaimTerms ==
  ASSUME TypeOK, TypeOK', ClaimTerms, [Next]_vars
  PROVE  ClaimTerms'
<1> USE ConstantsAssumption
<1>1. auth.term \in Nat /\ auth'.term \in Nat /\ auth'.term >= auth.term
  <2>1. auth.term \in Nat
    BY RowFields
  <2>2. Effect
    BY StepEffect
  <2>3. auth'.term = auth.term \/ auth'.term = auth.term + 1
    BY <2>2 DEF Effect, QuietEffect, GrantEffect, EndEffect, WriteEffect, OrphanEffect, SameTurn
  <2> QED BY <2>1, <2>3
<1>2. ASSUME ClaimsKept PROVE ClaimTerms'
  <2>1. \A q \in Procs : op[q].term \in Nat
    BY PendingFields
  <2> QED BY <1>1, <1>2, <2>1 DEF ClaimsKept, ClaimTerms
<1>3. ASSUME NEW p \in Procs, NEW term \in Nat, term <= auth.term + 1,
             EnsureClaim(p, term), auth' = auth
      PROVE ClaimTerms'
  <2> DEFINE journalHead == MaxInt64(op[p].head, auth.commit)
  <2> DEFINE r == LeaseCall("claim", now, 0, term, op[p].ref + LeaseTTL,
                            journalHead, journalHead, NoNode)
  <2>1. op' = [op EXCEPT ![p] = r] /\ r.term = term
    BY <1>3 DEF EnsureClaim, LeaseCall
  <2> HIDE DEF r
  <2>2. ASSUME NEW q \in Procs, op'[q].call = "claim" PROVE op'[q].term <= auth'.term + 1
    <3>1. CASE q = p
      BY <1>3, <2>1, <3>1 DEF TypeOK
    <3>2. CASE q # p
      BY <1>3, <2>1, <2>2, <3>2 DEF TypeOK, ClaimTerms
    <3> QED BY <3>1, <3>2
  <2> QED BY <2>2 DEF ClaimTerms
<1>4. ASSUME NEW p \in Procs, EnsureDecide(p) PROVE ClaimTerms'
  <2>1. CASE EnsureClaim(p, 1)
    BY <1>1, <1>3, <1>4, <2>1 DEF EnsureDecide
  <2>2. CASE EnsureClaim(p, auth.term + 1)
    BY <1>1, <1>3, <1>4, <2>2 DEF EnsureDecide
  <2>3. CASE EnsureRenew(p)
    <3> DEFINE r == LeaseCall("renew", now, auth.token, auth.term, op[p].ref + LeaseTTL,
                              MaxInt64(op[p].head, auth.commit),
                              MaxInt64(op[p].head, auth.applied), NoNode)
    <3>1. op' = [op EXCEPT ![p] = r] /\ r.call # "claim"
      BY <2>3 DEF EnsureRenew, LeaseCall
    <3> HIDE DEF r
    <3>2. ClaimsKept
      BY <3>1 DEF ClaimsKept, TypeOK
    <3> QED BY <1>2, <3>2
  <2>4. CASE Return(p)
    BY <1>2, <2>4, ReturnKeepsClaims
  <2> QED BY <1>4, <2>1, <2>2, <2>3, <2>4 DEF EnsureDecide
<1>5. ASSUME NEW p \in Procs, MaintenanceDecide(p) PROVE ClaimTerms'
  <2>1. CASE MaintenanceRenew(p)
    <3> DEFINE r == LeaseCall("renew", now, auth.token, auth.term, op[p].ref + LeaseTTL,
                              auth.commit, auth.applied, NoNode)
    <3>1. op' = [op EXCEPT ![p] = r] /\ r.call # "claim"
      BY <2>1 DEF MaintenanceRenew, LeaseCall
    <3> HIDE DEF r
    <3>2. ClaimsKept
      BY <3>1 DEF ClaimsKept, TypeOK
    <3> QED BY <1>2, <3>2
  <2>2. CASE MaintenanceExpire(p)
    <3> DEFINE r == LeaseCall("expire", op[p].ref, auth.token, auth.term, 0,
                              auth.commit, auth.applied, NoNode)
    <3>1. op' = [op EXCEPT ![p] = r] /\ r.call # "claim"
      BY <2>2 DEF MaintenanceExpire, LeaseCall
    <3> HIDE DEF r
    <3>2. ClaimsKept
      BY <3>1 DEF ClaimsKept, TypeOK
    <3> QED BY <1>2, <3>2
  <2>3. CASE Return(p)
    BY <1>2, <2>3, ReturnKeepsClaims
  <2> QED BY <1>5, <2>1, <2>2, <2>3 DEF MaintenanceDecide
<1>6. ASSUME NEW p \in Procs, BeginWrite(p) \/ BeginEnsure(p) \/ BeginMaintenance(p)
      PROVE ClaimTerms'
  <2>1. ClaimsKept
    BY Zenon, <1>6 DEF BeginWrite, BeginEnsure, BeginMaintenance, ClaimsKept, TypeOK, Idle
  <2> QED BY <1>2, <2>1
<1>7. ASSUME NEW p \in Procs, NEW to \in Nodes, BeginTransfer(p, to) PROVE ClaimTerms'
  <2>1. ClaimsKept
    BY <1>7 DEF BeginTransfer, LeaseCall, ClaimsKept, TypeOK
  <2> QED BY <1>2, <2>1
<1>8. ASSUME NEW p \in Procs,
             \/ GrantClaim(p) \/ RefuseClaim(p) \/ Renew(p) \/ RefuseRenew(p)
             \/ Expire(p) \/ RefuseExpire(p) \/ Transfer(p) \/ RefuseTransfer(p)
             \/ Write(p) \/ JournalReject(p) \/ Abandon(p)
      PROVE ClaimTerms'
  <2>1. Return(p)
    BY <1>8 DEF GrantClaim, RefuseClaim, Renew, RefuseRenew, Expire, RefuseExpire, Transfer,
       RefuseTransfer, Write, JournalReject, Abandon
  <2> QED BY <1>2, <2>1, ReturnKeepsClaims
<1>9. ASSUME NEW p \in Procs, FenceReject(p) PROVE ClaimTerms'
  <2>1. ClaimsKept
    BY <1>9 DEF FenceReject, ClaimsKept, TypeOK, Idle
  <2> QED BY <1>2, <2>1
<1>10. CASE \/ \E n \in Nodes : ForceBreak(n) \/ DeleteNode(n)
            \/ Tick \/ UNCHANGED vars
  <2>1. ClaimsKept
    BY <1>10 DEF ForceBreak, DeleteNode, Tick, vars, ClaimsKept
  <2> QED BY <1>2, <2>1
<1> QED BY <1>4, <1>5, <1>6, <1>7, <1>8, <1>9, <1>10 DEF Next, Step, Procs

\* The inductive invariant.
IInv == TypeOK /\ ClaimTerms /\ TurnInv /\ OneWriterPerTerm /\ StaleWriterSilenced

\* The inductive invariant: types, the terms of pending claims, the turn that
\* the row and the journal are in, and the two safety properties.
THEOREM Invariance == Spec => []IInv
<1>1. Init => ClaimTerms /\ TurnInv /\ OneWriterPerTerm /\ StaleWriterSilenced
  <2>1. Idle.call # "claim"
    BY DEF Idle
  <2> QED BY <2>1 DEF Init, ClaimTerms, TurnInv, OneWriterPerTerm, StaleWriterSilenced
<1>2. ASSUME ClaimTerms, TurnInv, OneWriterPerTerm, StaleWriterSilenced,
             TypeOK, TypeOK', [Next]_vars
      PROVE  ClaimTerms' /\ TurnInv' /\ OneWriterPerTerm' /\ StaleWriterSilenced'
  BY <1>2, StepEffect, EffectKeepsTurns, StepKeepsClaimTerms
<1> QED BY <1>1, <1>2, TypeCorrect, PTL DEF Spec, IInv

\* No term ever has two writers, for any number of nodes and calls, however
\* they interleave with expiries, force-breaks and node deletions.
THEOREM OneWriter == Spec => []OneWriterPerTerm
BY Invariance, PTL DEF IInv

\* No writer writes after its term was superseded or its end journaled.
THEOREM StaleWriterIsSilenced == Spec => []StaleWriterSilenced
BY Invariance, PTL DEF IInv

-----------------------------------------------------------------------------
(***************************************************************************)
(* The authority spine implements SingleWriter.                            *)
(***************************************************************************)

\* Appending an event adds to the written turns what a fenced write wrote.
LEMMA AppendToWritten ==
  ASSUME TypeOK, NEW e \in RuntimeEventRecord, journal' = Append(journal, e)
  PROVE  /\ e.type # "write" => Written' = Written
         /\ e.type = "write" => Written' = Written \union {<<e.term, e.node>>}
<1>1. /\ Len(journal) \in Nat /\ Len(journal') = Len(journal) + 1
      /\ journal'[Len(journal) + 1] = e
      /\ \A i \in 1 .. Len(journal) : journal'[i] = journal[i]
      /\ \A i \in 1 .. Len(journal') : i \in 1 .. Len(journal) \/ i = Len(journal) + 1
  BY AppendEntry
<1>2. ASSUME NEW x \in Written PROVE x \in Written'
  <2>1. PICK k \in 1 .. Len(journal) :
          journal[k].type = "write" /\ x = <<journal[k].term, journal[k].node>>
    BY <1>2 DEF Written
  <2>2. k \in 1 .. Len(journal') /\ journal'[k] = journal[k]
    BY <1>1
  <2> QED BY <2>1, <2>2 DEF Written
<1>3. ASSUME NEW x \in Written'
      PROVE  x \in Written \/ (e.type = "write" /\ x = <<e.term, e.node>>)
  <2>1. PICK k \in 1 .. Len(journal') :
          journal'[k].type = "write" /\ x = <<journal'[k].term, journal'[k].node>>
    BY <1>3 DEF Written
  <2>2. CASE k \in 1 .. Len(journal)
    BY <1>1, <2>1, <2>2 DEF Written
  <2>3. CASE k = Len(journal) + 1
    BY <1>1, <2>1, <2>3
  <2> QED BY <1>1, <2>2, <2>3
<1>4. ASSUME e.type = "write" PROVE <<e.term, e.node>> \in Written'
  <2>1. Len(journal) + 1 \in 1 .. Len(journal')
    BY <1>1
  <2> QED BY <1>1, <1>4, <2>1 DEF Written
<1> QED BY Zenon, <1>2, <1>3, <1>4

\* Initial states map to initial states, and each of the five effects is a
\* step of SingleWriter or changes nothing it can see.
THEOREM Refinement == Spec => ImplementsSingleWriter
<1> USE ConstantsAssumption
<1>1. Init => Abstract!Init
  BY DEF Init, Abstract!Init, MissingAuthority, Owner, Written
<1>2. ASSUME TypeOK, ClaimTerms, [Next]_vars PROVE [Abstract!Next]_(Abstract!vars)
  <2>1. Effect
    BY <1>2, StepEffect
  <2>2. CASE QuietEffect
    <3>1. Written' = Written
      BY <2>2 DEF QuietEffect, Written
    <3> QED BY <2>2, <3>1 DEF QuietEffect, SameTurn, Abstract!vars, Owner
  <2>3. CASE OrphanEffect
    <3>1. Written' = Written
      BY <2>3 DEF OrphanEffect, Written
    <3> QED BY <2>3, <3>1 DEF OrphanEffect, Abstract!Next, Abstract!Revoke, Owner
  <2>4. CASE EndEffect
    <3>1. PICK n \in Nodes \union {NoNode} : journal' = Append(journal, Entry("expired", n, auth.term))
      BY <2>4 DEF EndEffect
    <3>2. Entry("expired", n, auth.term) \in RuntimeEventRecord
          /\ Entry("expired", n, auth.term).type = "expired"
      BY <1>2, EntryType, RowFields
    <3>3. Written' = Written
      BY <1>2, <3>1, <3>2, AppendToWritten
    <3> QED BY <2>4, <3>3 DEF EndEffect, Abstract!Next, Abstract!Revoke, Owner
  <2>5. CASE GrantEffect
    <3>1. PICK n \in Nodes, type \in {"granted", "transferred"} :
            /\ auth'.term = auth.term + 1 /\ auth'.holder = n /\ auth'.status = "ACTIVE"
            /\ journal' = Append(journal, Entry(type, n, auth.term + 1))
      BY <2>5 DEF GrantEffect
    <3>2. Entry(type, n, auth.term + 1) \in RuntimeEventRecord
          /\ Entry(type, n, auth.term + 1).type # "write"
      BY <1>2, EntryType, RowFields
    <3>3. Written' = Written
      BY <1>2, <3>1, <3>2, AppendToWritten
    <3> QED BY <3>1, <3>3 DEF Abstract!Next, Abstract!Grant, Owner
  <2>6. CASE WriteEffect
    <3>1. /\ Entry("write", auth.holder, auth.term) \in RuntimeEventRecord
          /\ Entry("write", auth.holder, auth.term).type = "write"
          /\ Entry("write", auth.holder, auth.term).node = auth.holder
          /\ Entry("write", auth.holder, auth.term).term = auth.term
      BY <1>2, EntryType, RowFields
    <3>2. Written' = Written \union {<<auth.term, auth.holder>>}
      BY <1>2, <2>6, <3>1, AppendToWritten DEF WriteEffect
    <3> QED BY <2>6, <3>2 DEF WriteEffect, SameTurn, Abstract!Next, Abstract!Write, Owner
  <2> QED BY <2>1, <2>2, <2>3, <2>4, <2>5, <2>6 DEF Effect
<1> QED BY <1>1, <1>2, Invariance, PTL DEF Spec, IInv, ImplementsSingleWriter, Abstract!Spec
=============================================================================
