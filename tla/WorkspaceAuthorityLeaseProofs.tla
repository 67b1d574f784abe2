-------------------- MODULE WorkspaceAuthorityLeaseProofs --------------------
(***************************************************************************)
(* Proofs about how the lease changes hands: terms and watermarks advance, *)
(* a live lease is not taken, a hand-over covers the journal, the lease    *)
(* loop ends only dead leases.                                             *)
(***************************************************************************)
EXTENDS WorkspaceAuthorityProofs

\* The steps that may write the row.
LEMMA RowStep ==
  ASSUME [Next]_vars
  PROVE  \/ UNCHANGED auth
         \/ \E p \in Procs : GrantClaim(p) \/ Renew(p) \/ Expire(p) \/ Transfer(p)
         \/ \E n \in Nodes : ForceBreak(n) /\ ~UNCHANGED <<auth, head, journal>>
         \/ \E n \in Nodes : DeleteNode(n)
<1>1. CASE UNCHANGED vars
  BY <1>1 DEF vars
<1>2. CASE \E p \in Handlers : \/ BeginWrite(p) \/ BeginEnsure(p)
                               \/ \E to \in Nodes : BeginTransfer(p, to)
  BY <1>2 DEF BeginWrite, BeginEnsure, BeginTransfer
<1>3. CASE \E p \in Loops : BeginMaintenance(p)
  BY <1>3 DEF BeginMaintenance
<1>4. ASSUME NEW p \in Procs, Step(p)
      PROVE  UNCHANGED auth \/ GrantClaim(p) \/ Renew(p) \/ Expire(p) \/ Transfer(p)
  BY <1>4 DEF Step, EnsureDecide, MaintenanceDecide, RefuseClaim, RefuseRenew, RefuseExpire,
     RefuseTransfer, Write, FenceReject, JournalReject
<1>5. CASE \E p \in Procs : Step(p) \/ Abandon(p)
  BY <1>4, <1>5 DEF Abandon
<1>6. CASE \E n \in Nodes : ForceBreak(n) \/ DeleteNode(n)
  BY <1>6
<1>7. CASE Tick
  BY <1>7 DEF Tick
<1> QED BY <1>1, <1>2, <1>3, <1>5, <1>6, <1>7 DEF Next

\* A claim is granted under a higher term, for a lease that is dead at the
\* time of the transaction.
LEMMA ClaimAdvances ==
  ASSUME TypeOK, NEW p \in Procs, GrantClaim(p)
  PROVE  auth'.term > auth.term /\ ~LiveAt(auth, now)
<1>1. PICK srv \in op[p].at .. now : ClaimAdmitted(p, srv)
  BY DEF GrantClaim
<1>2. op[p].at \in Nat /\ now \in Nat /\ auth.expires \in Nat
  BY PendingFields, RowFields DEF TypeOK
<1>3. ~LiveAt(auth, now)
  BY <1>1, <1>2 DEF ClaimAdmitted, LiveAt
<1>4. auth'.term = op[p].term /\ op[p].term > auth.term
  BY <1>1, GrantedRow DEF ClaimAdmitted
<1> QED BY <1>3, <1>4

\* The deletion of a node only clears the holder of the row.
LEMMA DeletionRow ==
  ASSUME TypeOK, NEW n \in Nodes, DeleteNode(n)
  PROVE  /\ auth'.token = auth.token /\ auth'.term = auth.term
         /\ auth'.commit = auth.commit /\ auth'.applied = auth.applied
         /\ auth'.status = auth.status /\ auth'.updated = auth.updated
         /\ auth'.expires = auth.expires
BY DEF DeleteNode, TypeOK, WorkspaceAuthorityRecord

\* Terms and watermarks never go back and a new token comes with a new term,
\* whatever the calls read before their transactions.
THEOREM TermsAlwaysAdvance == Spec => TermsAdvance
<1>1. ASSUME TypeOK, [Next]_vars
      PROVE  /\ auth'.term >= auth.term
             /\ auth'.commit >= auth.commit
             /\ auth'.applied >= auth.applied
             /\ auth'.token # auth.token => auth'.term > auth.term
  <2>1. auth.term \in Nat /\ auth.commit \in Nat /\ auth.applied \in Nat
    BY <1>1, RowFields
  <2>2. CASE UNCHANGED auth
    BY <2>1, <2>2
  <2>3. ASSUME NEW p \in Procs, GrantClaim(p)
        PROVE  /\ auth'.commit >= auth.commit /\ auth'.applied >= auth.applied
               /\ auth'.term > auth.term /\ auth'.term \in Nat
    <3>1. auth'.term = op[p].term /\ op[p].term \in Nat
      BY <1>1, <2>3, GrantedRow, PendingFields
    <3> QED BY <1>1, <2>3, <3>1, GrantedRow, ClaimAdvances
  <2>4. ASSUME NEW p \in Procs, Renew(p) \/ Expire(p)
        PROVE  /\ auth'.commit >= auth.commit /\ auth'.applied >= auth.applied
               /\ auth'.term = auth.term /\ auth'.token = auth.token
    BY <1>1, <2>4, RenewedRow, ExpiredRow
  <2>5. ASSUME NEW p \in Procs, Transfer(p)
        PROVE  /\ auth'.commit >= auth.commit /\ auth'.applied >= auth.applied
               /\ auth'.term = auth.term + 1
    BY <1>1, <2>5, TransferredRow
  <2>6. ASSUME NEW n \in Nodes, ForceBreak(n), ~UNCHANGED <<auth, head, journal>>
        PROVE  /\ auth'.commit >= auth.commit /\ auth'.applied >= auth.applied
               /\ auth'.term = auth.term /\ auth'.token = auth.token
    BY <1>1, <2>6, BrokenRow
  <2>7. CASE \E n \in Nodes : DeleteNode(n)
    BY <1>1, <2>1, <2>7, DeletionRow
  <2> QED BY <1>1, <2>1, <2>2, <2>3, <2>4, <2>5, <2>6, <2>7, RowStep
<1> QED BY <1>1, TypeCorrect, PTL DEF Spec, TermsAdvance

\* A live lease gets another token only by its own holder's transfer: a claim
\* that judged it at an older time found it live too.
THEOREM LiveLeaseIsNotStolen == Spec => LiveLeaseNotStolen
<1>1. ASSUME TypeOK, [Next]_vars, LiveAt(auth, now), auth'.token # auth.token
      PROVE  \E p \in Procs : NodeOf[p] = auth.holder /\ op[p].call = "transfer"
  <2>1. ASSUME NEW p \in Procs, GrantClaim(p) PROVE FALSE
    BY <1>1, <2>1, ClaimAdvances
  <2>2. ASSUME NEW p \in Procs, Renew(p) \/ Expire(p) PROVE FALSE
    BY <1>1, <2>2, RenewedRow, ExpiredRow
  <2>3. ASSUME NEW p \in Procs, Transfer(p)
        PROVE  NodeOf[p] = auth.holder /\ op[p].call = "transfer"
    BY <2>3 DEF Transfer, CallFenceHolds, FenceHolds
  <2>4. ASSUME NEW n \in Nodes, ForceBreak(n), ~UNCHANGED <<auth, head, journal>> PROVE FALSE
    BY <1>1, <2>4, BrokenRow
  <2>5. ASSUME NEW n \in Nodes, DeleteNode(n) PROVE FALSE
    BY <1>1, <2>5, DeletionRow
  <2> QED BY <1>1, <2>1, <2>2, <2>3, <2>4, <2>5, RowStep
<1> QED BY <1>1, TypeCorrect, PTL DEF Spec, LiveLeaseNotStolen

-----------------------------------------------------------------------------
(***************************************************************************)
(* The journal and the watermarks.                                         *)
(***************************************************************************)

\* The steps that may append to the journal or move its head.
LEMMA JournalStep ==
  ASSUME [Next]_vars
  PROVE  \/ UNCHANGED <<head, journal>>
         \/ \E p \in Procs : GrantClaim(p) \/ Expire(p) \/ Transfer(p) \/ Write(p)
         \/ \E n \in Nodes : ForceBreak(n) /\ ~UNCHANGED <<auth, head, journal>>
         \/ JournalOther
<1>1. CASE UNCHANGED vars
  BY <1>1 DEF vars
<1>2. CASE \E p \in Handlers : \/ BeginWrite(p) \/ BeginEnsure(p)
                               \/ \E to \in Nodes : BeginTransfer(p, to)
  BY <1>2 DEF BeginWrite, BeginEnsure, BeginTransfer
<1>3. CASE \E p \in Loops : BeginMaintenance(p)
  BY <1>3 DEF BeginMaintenance
<1>4. ASSUME NEW p \in Procs, Step(p)
      PROVE  \/ UNCHANGED <<head, journal>> \/ JournalOther
             \/ GrantClaim(p) \/ Expire(p) \/ Transfer(p) \/ Write(p)
  BY <1>4 DEF Step, EnsureDecide, MaintenanceDecide, RefuseClaim, Renew, RefuseRenew,
     RefuseExpire, RefuseTransfer, FenceReject, JournalReject
<1>5. CASE \E p \in Procs : Step(p) \/ Abandon(p)
  BY <1>4, <1>5 DEF Abandon
<1>6. CASE \E n \in Nodes : ForceBreak(n) \/ DeleteNode(n)
  BY <1>6 DEF DeleteNode
<1>7. CASE Tick
  BY <1>7 DEF Tick
<1> QED BY <1>1, <1>2, <1>3, <1>5, <1>6, <1>7 DEF Next

\* The event a step appends is the last of the journal.
LEMMA LastEntry ==
  ASSUME TypeOK, NEW type \in {"write", "granted", "expired", "transferred"},
         NEW node \in Nodes \union {NoNode}, NEW term \in Nat,
         Journal(type, node, term)
  PROVE  journal'[Len(journal')].type = type /\ head' = head + 1
<1> DEFINE e == [type |-> type, node |-> node, term |-> term]
<1>1. e \in RuntimeEventRecord /\ e.type = type
  BY DEF RuntimeEventRecord
<1>2. journal' = Append(journal, e) /\ head' = head + 1
  BY DEF Journal
<1> HIDE DEF e
<1>3. Len(journal') = Len(journal) + 1 /\ journal'[Len(journal) + 1] = e
  BY <1>1, <1>2, AppendEntry
<1> QED BY <1>1, <1>2, <1>3

\* What each journaling transaction appends.
LEMMA Appended ==
  ASSUME TypeOK, NEW p \in Procs
  PROVE  /\ GrantClaim(p) => journal'[Len(journal')].type = "granted" /\ head' = head + 1
         /\ Expire(p) => journal'[Len(journal')].type = "expired" /\ head' = head + 1
         /\ Write(p) => journal'[Len(journal')].type = "write" /\ head' = head + 1
         /\ Transfer(p) => head' = head + 1
<1>1. NodeOf[p] \in Nodes \union {NoNode} /\ op[p].term \in Nat
  BY ConstantsAssumption, PendingFields
<1>2. ASSUME GrantClaim(p)
      PROVE  journal'[Len(journal')].type = "granted" /\ head' = head + 1
  <2>1. Journal("granted", NodeOf[p], op[p].term)
    BY <1>2 DEF GrantClaim
  <2> QED BY Zenon, <1>1, <2>1, LastEntry
<1>3. ASSUME Expire(p)
      PROVE  journal'[Len(journal')].type = "expired" /\ head' = head + 1
  <2>1. Journal("expired", NodeOf[p], op[p].term)
    BY <1>3 DEF Expire
  <2> QED BY Zenon, <1>1, <2>1, LastEntry
<1>4. ASSUME Write(p)
      PROVE  journal'[Len(journal')].type = "write" /\ head' = head + 1
  <2>1. Journal("write", NodeOf[p], op[p].term)
    BY <1>4 DEF Write
  <2> QED BY Zenon, <1>1, <2>1, LastEntry
<1>5. ASSUME Transfer(p) PROVE head' = head + 1
  BY <1>5 DEF Transfer, Journal
<1> QED BY <1>2, <1>3, <1>4, <1>5

\* A force-break that ends a lease journals the end.
LEMMA BreakAppends ==
  ASSUME TypeOK, NEW n \in Nodes, ForceBreak(n), ~UNCHANGED <<auth, head, journal>>
  PROVE  journal'[Len(journal')].type = "expired" /\ head' = head + 1
<1>1. Journal("expired", auth.holder, auth.term)
  BY DEF ForceBreak
<1> QED BY <1>1, RowFields, LastEntry

\* A transfer installs a commit watermark that covers every event journaled
\* before it, although its caller read the head earlier.
THEOREM TransferAlwaysCoversJournal == Spec => TransferCoversJournal
<1>1. ASSUME TypeOK, [Next]_vars, journal' # journal,
             journal'[Len(journal')].type = "transferred"
      PROVE  auth'.commit >= head
  <2>1. ASSUME NEW p \in Procs, GrantClaim(p) \/ Expire(p) \/ Write(p) PROVE FALSE
    BY <1>1, <2>1, Appended
  <2>2. ASSUME NEW p \in Procs, Transfer(p) PROVE auth'.commit >= head
    BY <1>1, <2>2, TransferredRow
  <2>3. ASSUME NEW n \in Nodes, ForceBreak(n), ~UNCHANGED <<auth, head, journal>> PROVE FALSE
    BY <1>1, <2>3, BreakAppends
  <2>4. ~JournalOther /\ ~UNCHANGED <<head, journal>>
    BY <1>1 DEF JournalOther
  <2> QED BY <1>1, <2>1, <2>2, <2>3, <2>4, JournalStep
<1> QED BY <1>1, TypeCorrect, PTL DEF Spec, TransferCoversJournal

-----------------------------------------------------------------------------
(***************************************************************************)
(* What a pending call carries stays true of the store it was read from:   *)
(* positions the journal has reached, and, for an expiry, a lease that was *)
(* dead when the pass took its reference time.                             *)
(***************************************************************************)

\* The positions a call read or computed are positions of the journal.
PendingWithinJournal ==
  \A p \in Procs : op[p].head <= head /\ op[p].commit <= head /\ op[p].applied <= head

\* Reference times are in the past.
RefsPast == \A p \in Procs : op[p].ref <= now

\* A lease of this term that was not updated since time at is dead at it.
DeadAt(term, at) ==
  /\ at <= now
  /\ term <= auth.term
  /\ term = auth.term /\ auth.status = "ACTIVE" /\ auth.updated <= at => auth.expires <= at

\* The lease loop's expiries are of such leases.
ExpiriesOfDead == \A p \in Procs : op[p].call = "expire" => DeadAt(op[p].term, op[p].at)

CallInv == PendingWithinJournal /\ WatermarksWithinJournal /\ RefsPast /\ ExpiriesOfDead

\* The steps that may change a pending call.
LEMMA CallStep ==
  ASSUME [Next]_vars
  PROVE  \/ UNCHANGED op
         \/ \E p \in Procs :
              \/ Return(p) \/ FenceReject(p)
              \/ BeginWrite(p) \/ BeginEnsure(p) \/ BeginMaintenance(p)
              \/ \E to \in Nodes : BeginTransfer(p, to)
              \/ EnsureDecide(p) \/ MaintenanceDecide(p)
<1>1. CASE UNCHANGED vars
  BY <1>1 DEF vars
<1>2. CASE \E p \in Handlers : \/ BeginWrite(p) \/ BeginEnsure(p)
                               \/ \E to \in Nodes : BeginTransfer(p, to)
  BY <1>2 DEF Procs
<1>3. CASE \E p \in Loops : BeginMaintenance(p)
  BY <1>3 DEF Procs
<1>4. ASSUME NEW p \in Procs, Step(p)
      PROVE  Return(p) \/ FenceReject(p) \/ EnsureDecide(p) \/ MaintenanceDecide(p)
  BY <1>4 DEF Step, GrantClaim, RefuseClaim, Renew, RefuseRenew, Expire, RefuseExpire,
     Transfer, RefuseTransfer, Write, JournalReject
<1>5. CASE \E p \in Procs : Step(p) \/ Abandon(p)
  BY <1>4, <1>5 DEF Abandon
<1>6. CASE \E n \in Nodes : ForceBreak(n) \/ DeleteNode(n)
  BY <1>6 DEF ForceBreak, DeleteNode
<1>7. CASE Tick
  BY <1>7 DEF Tick
<1> QED BY <1>1, <1>2, <1>3, <1>5, <1>6, <1>7 DEF Next

\* The clock and the head of the journal do not go back.
LEMMA ClockAndHead ==
  ASSUME TypeOK, [Next]_vars
  PROVE  /\ now \in Nat /\ now' \in Nat /\ now' >= now
         /\ head \in Nat /\ head' \in Nat /\ head' >= head
<1>1. now \in Nat /\ head \in Nat
  BY DEF TypeOK
<1>2. now' = now \/ now' = now + 1
  <2>1. ASSUME NEW p \in Procs, Step(p) PROVE now' = now
    BY <2>1 DEF Step, EnsureDecide, MaintenanceDecide, GrantClaim, RefuseClaim, Renew,
       RefuseRenew, Expire, RefuseExpire, Transfer, RefuseTransfer, Write, FenceReject,
       JournalReject
  <2> QED BY <2>1 DEF Next, vars, BeginWrite, BeginEnsure, BeginTransfer, BeginMaintenance,
       Abandon, ForceBreak, DeleteNode, Tick
<1>3. head' = head \/ head' = head + 1
  BY JournalStep, Appended, BreakAppends DEF JournalOther
<1> QED BY <1>1, <1>2, <1>3

\* A pending call that starts or goes on with positions of the journal and a
\* past reference time.
CallWithin(r) == r.head <= head /\ r.commit <= head /\ r.applied <= head /\ r.ref <= now

\* Replacing one call by such a call keeps the positions within the journal.
LEMMA WithinUpdate ==
  ASSUME TypeOK, PendingWithinJournal, RefsPast, [Next]_vars,
         NEW p \in Procs, NEW r \in Pending, CallWithin(r), op' = [op EXCEPT ![p] = r]
  PROVE  PendingWithinJournal' /\ RefsPast'
<1>1. /\ now \in Nat /\ now' \in Nat /\ now' >= now
      /\ head \in Nat /\ head' \in Nat /\ head' >= head
  BY ClockAndHead
<1>2. ASSUME NEW q \in Procs
      PROVE  /\ op'[q] \in Pending
             /\ op'[q].head <= head /\ op'[q].commit <= head /\ op'[q].applied <= head
             /\ op'[q].ref <= now
  <2>1. op'[q] = IF q = p THEN r ELSE op[q]
    BY DEF TypeOK
  <2>2. op[q] \in Pending
    BY PendingFields
  <2> QED BY <2>1, <2>2 DEF PendingWithinJournal, RefsPast, CallWithin
<1>3. ASSUME NEW r2 \in Pending
      PROVE  r2.head \in Nat /\ r2.commit \in Nat /\ r2.applied \in Nat /\ r2.ref \in Nat
  BY <1>3 DEF Pending
<1>4. ASSUME NEW q \in Procs
      PROVE  /\ op'[q].head <= head' /\ op'[q].commit <= head' /\ op'[q].applied <= head'
             /\ op'[q].ref <= now'
  <2>1. op'[q].head \in Nat /\ op'[q].commit \in Nat /\ op'[q].applied \in Nat
        /\ op'[q].ref \in Nat
    BY <1>2, <1>3
  <2> QED BY <1>1, <1>2, <2>1
<1> QED BY <1>4 DEF PendingWithinJournal, RefsPast

\* The arguments of a lease operation are within the journal when its
\* watermarks are.
LEMMA LeaseCallWithin ==
  ASSUME TypeOK, NEW call \in Calls, NEW at \in Nat, NEW token \in Nat, NEW term \in Nat,
         NEW expires \in Nat, NEW commit \in Nat, NEW applied \in Nat,
         NEW to \in Nodes \union {NoNode}, commit <= head, applied <= head
  PROVE  /\ LeaseCall(call, at, token, term, expires, commit, applied, to) \in Pending
         /\ CallWithin(LeaseCall(call, at, token, term, expires, commit, applied, to))
<1>1. LeaseCall(call, at, token, term, expires, commit, applied, to) \in Pending
  BY LeaseCallType
<1>2. head \in Nat /\ now \in Nat
  BY DEF TypeOK
<1> QED BY <1>1, <1>2 DEF LeaseCall, CallWithin

\* The larger of two positions of the journal is one.
LEMMA MaxWithin ==
  ASSUME NEW a \in Nat, NEW b \in Nat, NEW h \in Nat, a <= h, b <= h
  PROVE  MaxInt64(a, b) \in Nat /\ MaxInt64(a, b) <= h
BY DEF MaxInt64

\* What EnsureLocal decides to do is within the journal.
LEMMA EnsureWithin ==
  ASSUME TypeOK, PendingWithinJournal, WatermarksWithinJournal, NEW p \in Procs, EnsureDecide(p)
  PROVE  \E r \in Pending : CallWithin(r) /\ op' = [op EXCEPT ![p] = r] /\ r.call # "expire"
<1>1. /\ now \in Nat /\ head \in Nat /\ op[p].head \in Nat /\ op[p].ref + LeaseTTL \in Nat
      /\ auth.commit \in Nat /\ auth.applied \in Nat /\ auth.token \in Nat /\ auth.term \in Nat
      /\ op[p].head <= head /\ auth.commit <= head /\ auth.applied <= head
  BY PendingFields, RowFields, ConstantsAssumption
     DEF TypeOK, PendingWithinJournal, WatermarksWithinJournal
<1> DEFINE commit == MaxInt64(op[p].head, auth.commit)
           applied == MaxInt64(op[p].head, auth.applied)
<1>2. commit \in Nat /\ commit <= head /\ applied \in Nat /\ applied <= head
  BY Zenon, <1>1, MaxWithin
<1>3. NoNode \in Nodes \union {NoNode} /\ "claim" \in Calls /\ "renew" \in Calls
  BY DEF Calls
<1>4. ASSUME NEW term \in Nat, EnsureClaim(p, term)
      PROVE  \E r \in Pending : CallWithin(r) /\ op' = [op EXCEPT ![p] = r] /\ r.call # "expire"
  <2> DEFINE r == LeaseCall("claim", now, 0, term, op[p].ref + LeaseTTL, commit, commit, NoNode)
  <2>1. op' = [op EXCEPT ![p] = r]
    BY <1>4 DEF EnsureClaim
  <2>2. r.call = "claim"
    BY DEF LeaseCall
  <2> HIDE DEF commit
  <2>3. r \in Pending /\ CallWithin(r)
    BY Zenon, <1>1, <1>2, <1>3, LeaseCallWithin
  <2> HIDE DEF r
  <2> QED BY Zenon, <2>1, <2>2, <2>3
<1>5. ASSUME EnsureRenew(p)
      PROVE  \E r \in Pending : CallWithin(r) /\ op' = [op EXCEPT ![p] = r] /\ r.call # "expire"
  <2> DEFINE r == LeaseCall("renew", now, auth.token, auth.term, op[p].ref + LeaseTTL,
                            commit, applied, NoNode)
  <2>1. op' = [op EXCEPT ![p] = r]
    BY <1>5 DEF EnsureRenew
  <2>2. r.call = "renew"
    BY DEF LeaseCall
  <2> HIDE DEF commit, applied
  <2>3. r \in Pending /\ CallWithin(r)
    BY Zenon, <1>1, <1>2, <1>3, LeaseCallWithin
  <2> HIDE DEF r
  <2> QED BY Zenon, <2>1, <2>2, <2>3
<1>6. Idle \in Pending /\ CallWithin(Idle) /\ Idle.call # "expire"
  BY <1>1, IdleIsPending DEF CallWithin, Idle
<1>7. EnsureClaim(p, 1) \/ EnsureClaim(p, auth.term + 1) \/ EnsureRenew(p) \/ Return(p)
  BY DEF EnsureDecide
<1>8. 1 \in Nat /\ auth.term + 1 \in Nat
  BY <1>1
<1>9. Return(p) => op' = [op EXCEPT ![p] = Idle]
  BY DEF Return
<1> QED BY <1>4, <1>5, <1>6, <1>7, <1>8, <1>9

\* What the lease loop decides to do is within the journal, and it expires
\* only a lease that is dead at its reference time.
LEMMA MaintenanceWithin ==
  ASSUME TypeOK, PendingWithinJournal, WatermarksWithinJournal, RefsPast,
         NEW p \in Procs, MaintenanceDecide(p)
  PROVE  \E r \in Pending :
           /\ CallWithin(r) /\ op' = [op EXCEPT ![p] = r]
           /\ r.call = "expire" => DeadAt(r.term, r.at)
<1>1. /\ now \in Nat /\ head \in Nat /\ op[p].ref \in Nat /\ op[p].ref <= now
      /\ op[p].ref + LeaseTTL \in Nat /\ auth.expires \in Nat /\ ExpiryGrace \in Nat
      /\ auth.commit \in Nat /\ auth.applied \in Nat /\ auth.token \in Nat /\ auth.term \in Nat
      /\ auth.commit <= head /\ auth.applied <= head
  BY PendingFields, RowFields, ConstantsAssumption DEF TypeOK, WatermarksWithinJournal, RefsPast
<1>2. NoNode \in Nodes \union {NoNode} /\ "expire" \in Calls /\ "renew" \in Calls
  BY DEF Calls
<1>3. ASSUME MaintenanceRenew(p)
      PROVE  \E r \in Pending : CallWithin(r) /\ op' = [op EXCEPT ![p] = r] /\ r.call # "expire"
  <2> DEFINE r == LeaseCall("renew", now, auth.token, auth.term, op[p].ref + LeaseTTL,
                            auth.commit, auth.applied, NoNode)
  <2>1. op' = [op EXCEPT ![p] = r]
    BY <1>3 DEF MaintenanceRenew
  <2>2. r.call = "renew"
    BY DEF LeaseCall
  <2>3. r \in Pending /\ CallWithin(r)
    BY Zenon, <1>1, <1>2, LeaseCallWithin
  <2> HIDE DEF r
  <2> QED BY Zenon, <2>1, <2>2, <2>3
<1>4. ASSUME MaintenanceExpire(p), ~(op[p].ref < auth.expires + ExpiryGrace)
      PROVE  \E r \in Pending :
               /\ CallWithin(r) /\ op' = [op EXCEPT ![p] = r]
               /\ DeadAt(r.term, r.at)
  <2> DEFINE r == LeaseCall("expire", op[p].ref, auth.token, auth.term, 0,
                            auth.commit, auth.applied, NoNode)
  <2>1. op' = [op EXCEPT ![p] = r]
    BY <1>4 DEF MaintenanceExpire
  <2>2. r.term = auth.term /\ r.at = op[p].ref
    BY DEF LeaseCall
  <2>3. r \in Pending /\ CallWithin(r)
    BY Zenon, <1>1, <1>2, LeaseCallWithin
  <2> HIDE DEF r
  <2>4. auth.expires <= op[p].ref
    BY <1>1, <1>4
  <2>5. DeadAt(r.term, r.at)
    BY <1>1, <2>2, <2>4 DEF DeadAt
  <2> QED BY Zenon, <2>1, <2>3, <2>5
<1>5. Idle \in Pending /\ CallWithin(Idle) /\ Idle.call # "expire"
  BY <1>1, IdleIsPending DEF CallWithin, Idle
<1>6. \/ MaintenanceRenew(p) \/ Return(p)
      \/ MaintenanceExpire(p) /\ ~(op[p].ref < auth.expires + ExpiryGrace)
  BY DEF MaintenanceDecide
<1>7. Return(p) => op' = [op EXCEPT ![p] = Idle]
  BY DEF Return
<1> QED BY <1>3, <1>4, <1>5, <1>6, <1>7

\* Every step leaves the calls alone or replaces one by a call that is true
\* of the store.
LEMMA CallChange ==
  ASSUME TypeOK, CallInv, [Next]_vars
  PROVE  \/ UNCHANGED op
         \/ \E p \in Procs, r \in Pending :
              /\ CallWithin(r) /\ op' = [op EXCEPT ![p] = r]
              /\ r.call = "expire" => DeadAt(r.term, r.at)
<1>1. now \in Nat /\ head \in Nat /\ auth.token \in Nat /\ auth.term \in Nat
      /\ now + LeaseTTL \in Nat
  BY RowFields, ConstantsAssumption DEF TypeOK
<1>2. ASSUME NEW p \in Procs, Return(p)
      PROVE  \E r \in Pending : CallWithin(r) /\ op' = [op EXCEPT ![p] = r] /\ r.call # "expire"
  <2>1. Idle \in Pending /\ CallWithin(Idle) /\ Idle.call # "expire"
    BY <1>1, IdleIsPending DEF CallWithin, Idle
  <2> QED BY Zenon, <1>2, <2>1 DEF Return
<1>3. ASSUME NEW p \in Procs, FenceReject(p)
      PROVE  \E r \in Pending : CallWithin(r) /\ op' = [op EXCEPT ![p] = r] /\ r.call # "expire"
  <2> DEFINE r == [Idle EXCEPT !.call = "reject"]
  <2>1. r \in Pending /\ r.call # "expire"
    BY DEF Idle, Pending, Calls
  <2>2. CallWithin(r)
    BY <1>1 DEF CallWithin, Idle
  <2>3. op' = [op EXCEPT ![p] = r]
    BY <1>3 DEF FenceReject
  <2> HIDE DEF r
  <2> QED BY Zenon, <2>1, <2>2, <2>3
<1>4. ASSUME NEW p \in Procs, BeginWrite(p)
      PROVE  \E r \in Pending : CallWithin(r) /\ op' = [op EXCEPT ![p] = r] /\ r.call # "expire"
  <2> DEFINE r == [Idle EXCEPT !.call = "write", !.token = auth.token, !.term = auth.term]
  <2>1. r \in Pending /\ r.call # "expire"
    BY <1>1, Zenon DEF Idle, Pending, Calls
  <2>2. CallWithin(r)
    BY <1>1 DEF CallWithin, Idle
  <2>3. op' = [op EXCEPT ![p] = r]
    BY <1>4 DEF BeginWrite
  <2> HIDE DEF r
  <2> QED BY Zenon, <2>1, <2>2, <2>3
<1>5. ASSUME NEW p \in Procs, BeginEnsure(p)
      PROVE  \E r \in Pending : CallWithin(r) /\ op' = [op EXCEPT ![p] = r] /\ r.call # "expire"
  <2> DEFINE r == [Idle EXCEPT !.call = "ensure", !.ref = now, !.head = head]
  <2>1. r \in Pending /\ r.call # "expire"
    BY <1>1, Zenon DEF Idle, Pending, Calls
  <2>2. CallWithin(r)
    BY <1>1 DEF CallWithin, Idle
  <2>3. op' = [op EXCEPT ![p] = r]
    BY <1>5 DEF BeginEnsure
  <2> HIDE DEF r
  <2> QED BY Zenon, <2>1, <2>2, <2>3
<1>6. ASSUME NEW p \in Procs, BeginMaintenance(p)
      PROVE  \E r \in Pending : CallWithin(r) /\ op' = [op EXCEPT ![p] = r] /\ r.call # "expire"
  <2> DEFINE r == [Idle EXCEPT !.call = "maintain", !.ref = now]
  <2>1. r \in Pending /\ r.call # "expire"
    BY <1>1, Zenon DEF Idle, Pending, Calls
  <2>2. CallWithin(r)
    BY <1>1 DEF CallWithin, Idle
  <2>3. op' = [op EXCEPT ![p] = r]
    BY <1>6 DEF BeginMaintenance
  <2> HIDE DEF r
  <2> QED BY Zenon, <2>1, <2>2, <2>3
<1>7. ASSUME NEW p \in Procs, NEW to \in Nodes, BeginTransfer(p, to)
      PROVE  \E r \in Pending : CallWithin(r) /\ op' = [op EXCEPT ![p] = r] /\ r.call # "expire"
  <2> DEFINE r == LeaseCall("transfer", now, auth.token, auth.term, now + LeaseTTL, head, head, to)
  <2>1. op' = [op EXCEPT ![p] = r]
    BY <1>7 DEF BeginTransfer
  <2>2. r.call = "transfer"
    BY DEF LeaseCall
  <2>3. "transfer" \in Calls /\ to \in Nodes \union {NoNode} /\ head <= head
    BY <1>1 DEF Calls
  <2>4. r \in Pending /\ CallWithin(r)
    BY Zenon, <1>1, <2>3, LeaseCallWithin
  <2> HIDE DEF r
  <2> QED BY Zenon, <2>1, <2>2, <2>4
<1>8. ASSUME NEW p \in Procs, EnsureDecide(p)
      PROVE  \E r \in Pending : CallWithin(r) /\ op' = [op EXCEPT ![p] = r] /\ r.call # "expire"
  BY <1>8, EnsureWithin DEF CallInv
<1>9. ASSUME NEW p \in Procs, MaintenanceDecide(p)
      PROVE  \E r \in Pending :
               /\ CallWithin(r) /\ op' = [op EXCEPT ![p] = r]
               /\ r.call = "expire" => DeadAt(r.term, r.at)
  BY <1>9, MaintenanceWithin DEF CallInv
<1> QED BY <1>2, <1>3, <1>4, <1>5, <1>6, <1>7, <1>8, <1>9, CallStep

\* A renewal moves updated_at and finds the lease live at the clock.
LEMMA RenewalMovesRow ==
  ASSUME TypeOK, NEW p \in Procs, Renew(p)
  PROVE  auth'.updated >= auth.updated + 1 /\ auth.expires > now
<1>1. PICK srv \in op[p].at .. now :
        /\ CallFenceHolds(p)
        /\ Upsert(auth.holder, auth.token, auth.term, op[p].expires, op[p].commit,
                  op[p].applied, auth.status, NextTransitionTimestamp(auth, srv))
  BY DEF Renew
<1>2. op[p].at \in Nat /\ now \in Nat /\ auth.updated \in Nat
  BY PendingFields, RowFields DEF TypeOK
<1>3. srv \in Nat
  BY <1>2
<1>4. NextTransitionTimestamp(auth, srv) >= auth.updated + 1
  BY <1>2, <1>3 DEF NextTransitionTimestamp, MaxInt64
<1>5. auth'.updated = NextTransitionTimestamp(auth, srv)
  BY <1>1 DEF Upsert
<1> QED BY <1>1, <1>4, <1>5 DEF CallFenceHolds, FenceHolds, LiveAt

\* A lease that was dead at a time does not come back to life unless the row
\* moves past that time or to another term.
LEMMA DeadStaysDead ==
  ASSUME TypeOK, [Next]_vars, NEW term \in Nat, NEW at \in Nat, DeadAt(term, at)
  PROVE  DeadAt(term, at)'
<1>1. /\ now \in Nat /\ now' \in Nat /\ now' >= now
      /\ auth.term \in Nat /\ auth.updated \in Nat /\ auth.expires \in Nat
  BY ClockAndHead, RowFields
<1>2. at <= now'
  BY <1>1 DEF DeadAt
<1>3. CASE UNCHANGED auth
  BY <1>2, <1>3 DEF DeadAt
<1>4. ASSUME NEW p \in Procs, GrantClaim(p) PROVE DeadAt(term, at)'
  <2>1. auth'.term > auth.term /\ auth'.term \in Nat
    BY <1>4, ClaimAdvances, GrantedRow, PendingFields
  <2> QED BY <1>1, <1>2, <2>1 DEF DeadAt
<1>5. ASSUME NEW p \in Procs, Renew(p) PROVE DeadAt(term, at)'
  <2>1. /\ auth'.term = auth.term /\ auth'.status = auth.status
        /\ auth'.updated >= auth.updated + 1 /\ auth.expires > now
    BY <1>5, RenewedRow, RenewalMovesRow
  <2>2. auth' \in WorkspaceAuthorityRecord
    BY <1>5, RenewedRow
  <2>3. auth'.updated \in Nat
    BY <2>2 DEF WorkspaceAuthorityRecord
  <2> QED BY <1>1, <1>2, <2>1, <2>3 DEF DeadAt
<1>6. ASSUME NEW p \in Procs, Expire(p) PROVE DeadAt(term, at)'
  <2>1. auth'.term = auth.term /\ auth'.status = "EXPIRED"
    BY <1>6, ExpiredRow
  <2> QED BY <1>1, <1>2, <2>1 DEF DeadAt
<1>7. ASSUME NEW p \in Procs, Transfer(p) PROVE DeadAt(term, at)'
  <2>1. auth'.term = auth.term + 1
    BY <1>7, TransferredRow
  <2> QED BY <1>1, <1>2, <2>1 DEF DeadAt
<1>8. ASSUME NEW n \in Nodes, ForceBreak(n), ~UNCHANGED <<auth, head, journal>>
      PROVE  DeadAt(term, at)'
  <2>1. auth'.term = auth.term /\ auth'.status = "EXPIRED"
    BY <1>8, BrokenRow
  <2> QED BY <1>1, <1>2, <2>1 DEF DeadAt
<1>9. ASSUME NEW n \in Nodes, DeleteNode(n) PROVE DeadAt(term, at)'
  BY <1>2, <1>9, DeletionRow DEF DeadAt
<1> QED BY <1>3, <1>4, <1>5, <1>6, <1>7, <1>8, <1>9, RowStep

\* The positions the row advertises stay within the journal.
LEMMA RowWithin ==
  ASSUME TypeOK, CallInv, [Next]_vars
  PROVE  WatermarksWithinJournal'
<1>1. /\ head \in Nat /\ head' \in Nat /\ head' >= head
      /\ auth.commit \in Nat /\ auth.applied \in Nat
      /\ auth.commit <= head /\ auth.applied <= head
  BY ClockAndHead, RowFields DEF CallInv, WatermarksWithinJournal
<1>2. ASSUME NEW commit \in Nat, NEW applied \in Nat, commit <= head, applied <= head,
             auth'.commit = MaxInt64(auth.commit, commit),
             auth'.applied = MaxInt64(auth.applied, applied)
      PROVE  WatermarksWithinJournal'
  <2>1. /\ MaxInt64(auth.commit, commit) \in Nat /\ MaxInt64(auth.commit, commit) <= head
        /\ MaxInt64(auth.applied, applied) \in Nat /\ MaxInt64(auth.applied, applied) <= head
    BY Zenon, <1>1, <1>2, MaxWithin
  <2> QED BY <1>1, <1>2, <2>1 DEF WatermarksWithinJournal
<1>3. CASE UNCHANGED auth
  BY <1>1, <1>3 DEF WatermarksWithinJournal
<1>4. ASSUME NEW p \in Procs, GrantClaim(p) \/ Renew(p) \/ Expire(p) \/ Transfer(p)
      PROVE  WatermarksWithinJournal'
  <2>1. /\ op[p].commit \in Nat /\ op[p].applied \in Nat
        /\ op[p].commit <= head /\ op[p].applied <= head
    BY PendingFields DEF CallInv, PendingWithinJournal
  <2>2. /\ auth'.commit = MaxInt64(auth.commit, op[p].commit)
        /\ auth'.applied = MaxInt64(auth.applied, op[p].applied)
    BY <1>4 DEF GrantClaim, Renew, Expire, Transfer, Upsert
  <2> QED BY <1>2, <2>1, <2>2
<1>5. ASSUME NEW n \in Nodes, ForceBreak(n), ~UNCHANGED <<auth, head, journal>>
      PROVE  WatermarksWithinJournal'
  <2>1. /\ MaxInt64(auth.commit, head) \in Nat /\ MaxInt64(auth.commit, head) <= head
        /\ MaxInt64(auth.applied, head) \in Nat /\ MaxInt64(auth.applied, head) <= head
    BY <1>1 DEF MaxInt64
  <2>2. /\ auth'.commit = MaxInt64(auth.commit, MaxInt64(auth.commit, head))
        /\ auth'.applied = MaxInt64(auth.applied, MaxInt64(auth.applied, head))
    BY <1>5 DEF ForceBreak, Upsert
  <2> QED BY <1>2, <2>1, <2>2
<1>6. ASSUME NEW n \in Nodes, DeleteNode(n) PROVE WatermarksWithinJournal'
  BY <1>1, <1>6, DeletionRow DEF WatermarksWithinJournal
<1> QED BY <1>3, <1>4, <1>5, <1>6, RowStep

\* What is true of the pending calls stays true of them.
LEMMA CallsKeepTrue ==
  ASSUME TypeOK, CallInv, [Next]_vars
  PROVE  PendingWithinJournal' /\ RefsPast' /\ ExpiriesOfDead'
<1>1. CASE UNCHANGED op
  <2>1. /\ now \in Nat /\ now' \in Nat /\ now' >= now
        /\ head \in Nat /\ head' \in Nat /\ head' >= head
    BY ClockAndHead
  <2>2. ASSUME NEW q \in Procs
        PROVE  /\ op[q].head <= head' /\ op[q].commit <= head' /\ op[q].applied <= head'
               /\ op[q].ref <= now'
    <3>1. /\ op[q].head \in Nat /\ op[q].commit \in Nat /\ op[q].applied \in Nat
          /\ op[q].ref \in Nat
      BY PendingFields
    <3>2. /\ op[q].head <= head /\ op[q].commit <= head /\ op[q].applied <= head
          /\ op[q].ref <= now
      BY DEF CallInv, PendingWithinJournal, RefsPast
    <3> QED BY <2>1, <3>1, <3>2
  <2>3. ASSUME NEW q \in Procs, op[q].call = "expire" PROVE DeadAt(op[q].term, op[q].at)'
    <3>1. op[q].term \in Nat /\ op[q].at \in Nat /\ DeadAt(op[q].term, op[q].at)
      BY <2>3, PendingFields DEF CallInv, ExpiriesOfDead
    <3> DEFINE t == op[q].term
               a == op[q].at
    <3>2. t' = t /\ a' = a
      BY <1>1
    <3> QED BY <1>1, <2>1, <3>1, <3>2, DeadStaysDead DEF DeadAt
  <2> QED BY <1>1, <2>2, <2>3 DEF PendingWithinJournal, RefsPast, ExpiriesOfDead
<1>2. ASSUME NEW p \in Procs, NEW r \in Pending, CallWithin(r), op' = [op EXCEPT ![p] = r],
             r.call = "expire" => DeadAt(r.term, r.at)
      PROVE  PendingWithinJournal' /\ RefsPast' /\ ExpiriesOfDead'
  <2>1. PendingWithinJournal' /\ RefsPast'
    BY Zenon, <1>2, WithinUpdate DEF CallInv
  <2>2. ASSUME NEW q \in Procs, op'[q].call = "expire"
        PROVE  DeadAt(op[q].term, op[q].at)'
    <3> DEFINE c == op'[q]
    <3>1. c \in Pending /\ c.call = "expire" /\ DeadAt(c.term, c.at)
      <4>1. c = IF q = p THEN r ELSE op[q]
        BY <1>2 DEF TypeOK
      <4>2. op[q].call = "expire" => DeadAt(op[q].term, op[q].at)
        BY DEF CallInv, ExpiriesOfDead
      <4>3. op[q] \in Pending
        BY PendingFields
      <4> QED BY <1>2, <2>2, <4>1, <4>2, <4>3
    <3>2. c.term \in Nat /\ c.at \in Nat
      BY <3>1 DEF Pending
    <3> QED BY <3>1, <3>2, DeadStaysDead DEF DeadAt
  <2> QED BY <2>1, <2>2 DEF ExpiriesOfDead
<1> QED BY <1>1, <1>2, CallChange

\* The inductive invariant of the pending calls.
THEOREM CallsStayTrue == Spec => []CallInv
<1>1. Init => CallInv
  <2>1. Idle.head = 0 /\ Idle.commit = 0 /\ Idle.applied = 0 /\ Idle.ref = 0
        /\ Idle.call # "expire"
    BY DEF Idle
  <2> QED BY <2>1 DEF Init, CallInv, PendingWithinJournal, WatermarksWithinJournal, RefsPast,
       ExpiriesOfDead, MissingAuthority
<1>2. ASSUME TypeOK, CallInv, [Next]_vars PROVE CallInv'
  BY <1>2, RowWithin, CallsKeepTrue DEF CallInv
<1> QED BY <1>1, <1>2, TypeCorrect, PTL DEF Spec

\* The row never advertises a position the journal has not reached, although
\* the calls compute their watermarks from what they read earlier.
THEOREM WatermarksStayWithinJournal == Spec => []WatermarksWithinJournal
BY CallsStayTrue, PTL DEF CallInv

\* The lease loop never expires a live lease, however long ago it listed the
\* rows and whatever was renewed, claimed or transferred since.
THEOREM MaintenanceExpiresOnlyDeadLeases == Spec => MaintenanceExpiresDeadLeases
<1>1. ASSUME TypeOK, CallInv, [Next]_vars, NEW p \in Procs, op[p].call = "expire",
             op'[p].call = "idle", auth'.status # auth.status
      PROVE  ~LiveAt(auth, now)
  <2>1. DeadAt(op[p].term, op[p].at) /\ op[p].at \in Nat /\ now \in Nat /\ auth.expires \in Nat
    BY <1>1, PendingFields, RowFields DEF CallInv, ExpiriesOfDead, TypeOK
  <2>2. ASSUME NEW q \in Procs, Return(q) PROVE q = p
    BY <1>1, <2>2 DEF Return, TypeOK
  <2>3. ASSUME NEW q \in Procs, GrantClaim(q) \/ Renew(q) \/ Transfer(q) PROVE FALSE
    BY <1>1, <2>2, <2>3 DEF GrantClaim, Renew, Transfer
  <2>4. ASSUME NEW q \in Procs, Expire(q) PROVE ~LiveAt(auth, now)
    <3>1. q = p
      BY <2>2, <2>4 DEF Expire
    <3>2. auth.term = op[p].term /\ auth.updated <= op[p].at
      BY <2>4, <3>1 DEF Expire, ExpireAdmitted
    <3>3. auth.status = "ACTIVE" => auth.expires <= op[p].at /\ op[p].at <= now
      BY <2>1, <3>2 DEF DeadAt
    <3> QED BY <2>1, <3>3 DEF LiveAt
  <2>5. ASSUME NEW n \in Nodes, ForceBreak(n) PROVE FALSE
    BY <1>1, <2>5 DEF ForceBreak
  <2>6. ASSUME NEW n \in Nodes, DeleteNode(n) PROVE FALSE
    BY <1>1, <2>6, DeletionRow
  <2>7. ~UNCHANGED auth
    BY <1>1
  <2> QED BY <1>1, <2>3, <2>4, <2>5, <2>6, <2>7, RowStep
<1>2. ASSUME TypeOK, CallInv, [Next]_vars
      PROVE  \A p \in Procs :
               op[p].call = "expire" /\ op'[p].call = "idle" /\ auth'.status # auth.status
                 => ~LiveAt(auth, now)
  BY <1>1, <1>2
<1> QED BY <1>2, TypeCorrect, CallsStayTrue, PTL DEF Spec, MaintenanceExpiresDeadLeases

=============================================================================
