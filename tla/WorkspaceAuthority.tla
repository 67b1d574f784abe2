------------------------- MODULE WorkspaceAuthority -------------------------
(***************************************************************************)
(* The workspace authority spine: one row of workspace_authority (one      *)
(* workspace, scope "workspace") that says which runtime node may write,   *)
(* and the operations that grant, renew, expire, transfer, break and check *)
(* it (internal/storage/sqlite/authority_spine.go,                         *)
(* authority_lease_manager.go).                                            *)
(*                                                                         *)
(* Every transaction runs on the single write connection, so it is one     *)
(* step.  What the code reads or times OUTSIDE its transaction (the        *)
(* current row, the journal head, time.Now) is a step of its own, kept in  *)
(* op[p] until the transaction runs, and anything may happen in between.   *)
(***************************************************************************)
EXTENDS Integers, Sequences

CONSTANTS
  Nodes,        \* authority node ids
  NoNode,       \* the NULL holder_authority_node_id
  Handlers,     \* goroutines that serve RPC and CLI calls
  Loops,        \* goroutines that run the lease loop
  NodeOf,       \* the node whose store a goroutine uses
  LeaseTTL,     \* localAuthorityLeaseTTL, in clock ticks
  RenewLead,    \* localAuthorityRenewLead
  ExpiryGrace,  \* localAuthorityExpiryGrace
  MaxTime,      \* bound on the clock
  MaxRequests,  \* bound on fenced mutations and transfers
  MaxBreaks     \* bound on force-breaks and node deletions

Procs == Handlers \union Loops

ASSUME ConstantsAssumption ==
  /\ NoNode \notin Nodes
  /\ \A p \in Procs : NodeOf[p] \in Nodes
  /\ LeaseTTL \in Nat \ {0}
  /\ RenewLead \in Nat
  /\ ExpiryGrace \in Nat
  /\ MaxTime \in Nat
  /\ MaxRequests \in Nat
  /\ MaxBreaks \in Nat

VARIABLES
  now,       \* the wall clock
  nodes,     \* runtime_nodes rows (all ONLINE: the code writes no other status)
  auth,      \* the workspace_authority row
  head,      \* MAX(ingest_seq) of the workspace's runtime_events
  journal,   \* those that grant, end or use a lease, in ingest_seq order
  op,        \* what each goroutine has read so far
  requests,  \* mutations and transfers begun
  breaks     \* force-breaks and deletions made

vars == <<now, nodes, auth, head, journal, op, requests, breaks>>

-----------------------------------------------------------------------------
(* The row, the journal and the pending calls.                             *)

Statuses == {"MISSING", "ACTIVE", "EXPIRED"}

\* No row.  TRANSFERRING, REJECTED and RECOVERING are declared by the code
\* but no operation writes them to the row.
MissingAuthority ==
  [holder |-> NoNode, token |-> 0, term |-> 0, expires |-> 0,
   commit |-> 0, applied |-> 0, status |-> "MISSING", updated |-> 0]

WorkspaceAuthorityRecord ==
  [holder : Nodes \union {NoNode}, token : Nat, term : Nat, expires : Nat,
   commit : Nat, applied : Nat, status : Statuses, updated : Nat]

RuntimeEventRecord ==
  [type : {"write", "granted", "expired", "transferred"},
   node : Nodes \union {NoNode}, term : Nat]

\* A runtime event is appended to the journal and takes the next ingest_seq.
\* Renewals and rejects only advance the head here: no property is about
\* their place in the journal.
Journal(type, node, term) ==
  /\ head' = head + 1
  /\ journal' = Append(journal, [type |-> type, node |-> node, term |-> term])

JournalOther == head' = head + 1 /\ UNCHANGED journal

Calls == {"idle", "ensure", "maintain", "claim", "renew", "expire",
          "transfer", "write", "reject"}

Pending ==
  [call : Calls, ref : Nat, head : Nat, at : Nat, token : Nat, term : Nat,
   expires : Nat, commit : Nat, applied : Nat, to : Nodes \union {NoNode}]

Idle ==
  [call |-> "idle", ref |-> 0, head |-> 0, at |-> 0, token |-> 0, term |-> 0,
   expires |-> 0, commit |-> 0, applied |-> 0, to |-> NoNode]

\* The arguments of a claim, a renewal, an expiry or a transfer; at is the
\* reference time the caller passes.
LeaseCall(call, at, token, term, expires, commit, applied, to) ==
  [call |-> call, ref |-> 0, head |-> 0, at |-> at, token |-> token, term |-> term,
   expires |-> expires, commit |-> commit, applied |-> applied, to |-> to]

MaxInt64(a, b) == IF a >= b THEN a ELSE b

-----------------------------------------------------------------------------
(* Predicates of the row.                                                  *)

\* A lease is live strictly before its expiry, and only while it has a holder.
LiveAt(r, t) == r.status = "ACTIVE" /\ r.holder # NoNode /\ r.expires > t

\* Mutant: an ACTIVE row without a holder counts as incomplete.
LeaseStateNoOrphan(r, local, t) ==
  CASE r.status = "MISSING" -> "missing"
    [] r.status # "MISSING" /\ r.holder = NoNode -> "incomplete"
    [] LiveAt(r, t) /\ r.holder # local -> "foreign_live"
    [] LiveAt(r, t) /\ r.holder = local /\ r.expires - t <= RenewLead -> "renew_due"
    [] LiveAt(r, t) /\ r.holder = local /\ r.expires - t > RenewLead -> "healthy"
    [] OTHER -> "stale"

\* The classification that EnsureLocal and the lease loop act on.
LeaseState(r, local, t) ==
  CASE r.status = "MISSING" -> "missing"
    [] r.status = "ACTIVE" /\ r.holder = NoNode -> "orphaned_holder"
    [] r.status = "EXPIRED" /\ r.holder = NoNode -> "incomplete"
    [] LiveAt(r, t) /\ r.holder # local -> "foreign_live"
    [] LiveAt(r, t) /\ r.holder = local /\ r.expires - t <= RenewLead -> "renew_due"
    [] LiveAt(r, t) /\ r.holder = local /\ r.expires - t > RenewLead -> "healthy"
    [] OTHER -> "stale"

\* Mutant: the fence trusts the caller's node id.
FenceHoldsAnyHolder(r, registered, holder, token, term, t) ==
  holder \in registered /\ r.token = token /\ r.term = term /\ LiveAt(r, t)

\* Mutant: the fence checks the holder but not the token and the term.
FenceHoldsAnyTerm(r, registered, holder, token, term, t) ==
  r.holder = holder /\ holder \in registered /\ LiveAt(r, t)

\* The fence of a write: it names the holder, the token and the term it
\* expects, and is judged at the later of its own reference and the clock.
FenceHolds(r, registered, holder, token, term, t) ==
  /\ r.status = "ACTIVE"
  /\ r.holder = holder
  /\ holder \in registered
  /\ r.token = token
  /\ r.term = term
  /\ LiveAt(r, t)

WatermarksMonotonic(r, commit, applied) ==
  commit >= r.commit /\ applied >= r.applied

\* updated_at of a renewal, an expiry or a transfer: after the row's own
\* updated_at and after the caller's reference, even when the clock is not.
NextTransitionTimestamp(r, ref) ==
  MaxInt64(now, MaxInt64(r.updated + 1, ref + 1))

\* ON CONFLICT DO UPDATE: watermarks never go down.
Upsert(holder, token, term, expires, commit, applied, status, updated) ==
  auth' = [holder |-> holder, token |-> token, term |-> term, expires |-> expires,
           commit |-> MaxInt64(auth.commit, commit),
           applied |-> MaxInt64(auth.applied, applied),
           status |-> status, updated |-> updated]

-----------------------------------------------------------------------------
Init ==
  /\ now = 0
  /\ nodes = {}
  /\ auth = MissingAuthority
  /\ head = 0
  /\ journal = << >>
  /\ op = [p \in Procs |-> Idle]
  /\ requests = 0
  /\ breaks = 0

Return(p) == op' = [op EXCEPT ![p] = Idle]

Request == requests < MaxRequests /\ requests' = requests + 1

Break == breaks < MaxBreaks /\ breaks' = breaks + 1

-----------------------------------------------------------------------------
(* Reads made before a transaction.                                        *)

\* A fenced mutation reads the token and the term of the row as it is,
\* whoever holds it, and will claim to be the local node.
BeginWrite(p) ==
  /\ op[p].call = "idle"
  /\ auth.status # "MISSING"
  /\ Request
  /\ nodes' = nodes \union {NodeOf[p]}
  /\ op' = [op EXCEPT ![p] = [Idle EXCEPT !.call = "write", !.token = auth.token,
                                          !.term = auth.term]]
  /\ UNCHANGED <<now, auth, head, journal, breaks>>

\* EnsureLocal takes its reference time, registers the node and reads the
\* journal head before it reads the row.
BeginEnsure(p) ==
  /\ op[p].call = "idle"
  /\ nodes' = nodes \union {NodeOf[p]}
  /\ op' = [op EXCEPT ![p] = [Idle EXCEPT !.call = "ensure", !.ref = now,
                                          !.head = head]]
  /\ UNCHANGED <<now, auth, head, journal, requests, breaks>>

\* Mutant: the position that the first mutation after the claim will have.
EnsureClaimNextPosition(p, term) ==
  op' = [op EXCEPT ![p] = LeaseCall("claim", now, 0, term, op[p].ref + LeaseTTL,
                                    op[p].head + 2, op[p].head + 2, NoNode)]

EnsureClaim(p, term) ==
  LET journalHead == MaxInt64(op[p].head, auth.commit) IN
  op' = [op EXCEPT ![p] = LeaseCall("claim", now, 0, term, op[p].ref + LeaseTTL,
                                    journalHead, journalHead, NoNode)]

EnsureRenew(p) ==
  op' = [op EXCEPT ![p] = LeaseCall("renew", now, auth.token, auth.term,
                                    op[p].ref + LeaseTTL,
                                    MaxInt64(op[p].head, auth.commit),
                                    MaxInt64(op[p].head, auth.applied), NoNode)]

\* EnsureLocal reads the row and decides.  A live foreign lease and an
\* incomplete row are refused.
EnsureDecide(p) ==
  LET state == LeaseState(auth, NodeOf[p], op[p].ref) IN
  /\ op[p].call = "ensure"
  /\ \/ state = "missing" /\ EnsureClaim(p, 1)
     \/ state \in {"stale", "orphaned_holder"} /\ EnsureClaim(p, auth.term + 1)
     \/ state = "renew_due" /\ EnsureRenew(p)
     \/ state \in {"healthy", "foreign_live", "incomplete"} /\ Return(p)
  /\ UNCHANGED <<now, nodes, auth, head, journal, requests, breaks>>

\* A pass of the lease loop takes its reference time first.
BeginMaintenance(p) ==
  /\ op[p].call = "idle"
  /\ nodes' = nodes \union {NodeOf[p]}
  /\ op' = [op EXCEPT ![p] = [Idle EXCEPT !.call = "maintain", !.ref = now]]
  /\ UNCHANGED <<now, auth, head, journal, requests, breaks>>

MaintenanceRenew(p) ==
  op' = [op EXCEPT ![p] = LeaseCall("renew", now, auth.token, auth.term,
                                    op[p].ref + LeaseTTL, auth.commit, auth.applied,
                                    NoNode)]

\* Mutant: a lapsed lease is left for the next pass, every time.
MaintenanceExpireLater(p) == Return(p)

MaintenanceExpire(p) ==
  op' = [op EXCEPT ![p] = LeaseCall("expire", op[p].ref, auth.token, auth.term, 0,
                                    auth.commit, auth.applied, NoNode)]

\* The pass lists the rows its node holds and renews, expires or leaves each.
MaintenanceDecide(p) ==
  LET state == LeaseState(auth, NodeOf[p], op[p].ref)
      held  == auth.status = "ACTIVE" /\ auth.holder = NodeOf[p]
      grace == op[p].ref < auth.expires + ExpiryGrace
  IN
  /\ op[p].call = "maintain"
  /\ \/ held /\ state = "renew_due" /\ MaintenanceRenew(p)
     \/ held /\ state = "stale" /\ ~grace /\ MaintenanceExpire(p)
     \/ ~(held /\ (state = "renew_due" \/ (state = "stale" /\ ~grace))) /\ Return(p)
  /\ UNCHANGED <<now, nodes, auth, head, journal, requests, breaks>>

\* The holder of a lease prepares its transfer from what it reads.
BeginTransfer(p, to) ==
  /\ op[p].call = "idle"
  /\ auth.status # "MISSING"
  /\ to # NodeOf[p]
  /\ Request
  /\ op' = [op EXCEPT ![p] = LeaseCall("transfer", now, auth.token, auth.term,
                                       now + LeaseTTL, head, head, to)]
  /\ UNCHANGED <<now, nodes, auth, head, journal, breaks>>

-----------------------------------------------------------------------------
(* The transactions.  srv is the server reference time a call takes before *)
(* it waits for the write connection.                                      *)

\* Mutant: the claim trusts what was read before its transaction.
ClaimAdmittedUnchecked(p, srv) == op[p].expires > srv /\ NodeOf[p] \in nodes

ClaimAdmitted(p, srv) ==
  /\ op[p].expires > srv
  /\ NodeOf[p] \in nodes
  /\ ~LiveAt(auth, srv)
  /\ op[p].term > auth.term
  /\ WatermarksMonotonic(auth, op[p].commit, op[p].applied)

\* ClaimWorkspaceAuthority commits.  nextID gives a lease token never used
\* before (here: the position of the grant in the journal); updated_at is
\* the plain clock.
GrantClaim(p) ==
  /\ op[p].call = "claim"
  /\ \E srv \in op[p].at .. now : ClaimAdmitted(p, srv)
  /\ Upsert(NodeOf[p], Len(journal) + 1, op[p].term, op[p].expires,
            op[p].commit, op[p].applied, "ACTIVE", now)
  /\ Journal("granted", NodeOf[p], op[p].term)
  /\ Return(p)
  /\ UNCHANGED <<now, nodes, requests, breaks>>

\* ClaimWorkspaceAuthority is refused and rolls back; nothing is journaled.
RefuseClaim(p) ==
  /\ op[p].call = "claim"
  /\ \E srv \in op[p].at .. now : ~ClaimAdmitted(p, srv)
  /\ Return(p)
  /\ UNCHANGED <<now, nodes, auth, head, journal, requests, breaks>>

CallFenceHolds(p) ==
  FenceHolds(auth, nodes, NodeOf[p], op[p].token, op[p].term, now)

\* RenewWorkspaceAuthority commits.
Renew(p) ==
  /\ op[p].call = "renew"
  /\ \E srv \in op[p].at .. now :
       /\ op[p].expires > srv
       /\ CallFenceHolds(p)
       /\ WatermarksMonotonic(auth, op[p].commit, op[p].applied)
       /\ Upsert(auth.holder, auth.token, auth.term, op[p].expires, op[p].commit,
                 op[p].applied, auth.status, NextTransitionTimestamp(auth, srv))
  /\ JournalOther
  /\ Return(p)
  /\ UNCHANGED <<now, nodes, requests, breaks>>

\* RenewWorkspaceAuthority is refused for a lease that would be born expired,
\* an unregistered node or regressing watermarks; nothing is journaled.
RefuseRenew(p) ==
  /\ op[p].call = "renew"
  /\ \/ op[p].expires <= now
     \/ NodeOf[p] \notin nodes
     \/ CallFenceHolds(p) /\ ~WatermarksMonotonic(auth, op[p].commit, op[p].applied)
  /\ Return(p)
  /\ UNCHANGED <<now, nodes, auth, head, journal, requests, breaks>>

\* Mutant: the expiry does not compare the token and the term.
ExpireAdmittedAnyTerm(p) ==
  auth.holder = NodeOf[p] /\ auth.updated <= op[p].at /\ auth.status # "EXPIRED"

\* ExpireWorkspaceAuthority: no liveness check, only that the row has not
\* moved past the caller's reference.
ExpireAdmitted(p) ==
  /\ auth.holder = NodeOf[p]
  /\ auth.token = op[p].token
  /\ auth.term = op[p].term
  /\ auth.updated <= op[p].at
  /\ auth.status # "EXPIRED"
  /\ WatermarksMonotonic(auth, op[p].commit, op[p].applied)

Expire(p) ==
  /\ op[p].call = "expire"
  /\ ExpireAdmitted(p)
  /\ Upsert(auth.holder, auth.token, auth.term, auth.expires, op[p].commit,
            op[p].applied, "EXPIRED", NextTransitionTimestamp(auth, op[p].at))
  /\ Journal("expired", NodeOf[p], op[p].term)
  /\ Return(p)
  /\ UNCHANGED <<now, nodes, requests, breaks>>

RefuseExpire(p) ==
  /\ op[p].call = "expire"
  /\ ~ExpireAdmitted(p)
  /\ Return(p)
  /\ UNCHANGED <<now, nodes, auth, head, journal, requests, breaks>>

\* Mutant: the new holder need not have caught up with the journal.
TransferAdmittedBehind(p) ==
  WatermarksMonotonic(auth, op[p].commit, op[p].applied)

TransferAdmitted(p) ==
  /\ op[p].commit >= head
  /\ WatermarksMonotonic(auth, op[p].commit, op[p].applied)

\* TransferWorkspaceAuthority commits: a fresh token and a higher term for
\* the new holder, whose commit watermark covers the journal.
Transfer(p) ==
  /\ op[p].call = "transfer"
  /\ \E srv \in op[p].at .. now :
       /\ op[p].expires > srv
       /\ op[p].to \in nodes
       /\ CallFenceHolds(p)
       /\ TransferAdmitted(p)
       /\ Upsert(op[p].to, Len(journal) + 1, op[p].term + 1, op[p].expires, op[p].commit,
                 op[p].applied, "ACTIVE", NextTransitionTimestamp(auth, srv))
  /\ Journal("transferred", op[p].to, op[p].term + 1)
  /\ Return(p)
  /\ UNCHANGED <<now, nodes, requests, breaks>>

RefuseTransfer(p) ==
  /\ op[p].call = "transfer"
  /\ \/ op[p].expires <= now
     \/ op[p].to \notin nodes
     \/ CallFenceHolds(p) /\ ~TransferAdmitted(p)
  /\ Return(p)
  /\ UNCHANGED <<now, nodes, auth, head, journal, requests, breaks>>

\* WithFencedWorkspaceAuthority: the fence and the mutation are one
\* transaction, and the mutation appends its runtime event.  The entry keeps
\* the term the mutation was prepared under.
Write(p) ==
  /\ op[p].call = "write"
  /\ CallFenceHolds(p)
  /\ Journal("write", NodeOf[p], op[p].term)
  /\ Return(p)
  /\ UNCHANGED <<now, nodes, auth, requests, breaks>>

\* The fence rejects a write, a renewal or a transfer: the transaction rolls
\* back and the reject is journaled in a transaction of its own.
FenceReject(p) ==
  /\ op[p].call \in {"write", "renew", "transfer"}
  /\ op[p].call = "renew" => NodeOf[p] \in nodes
  /\ op[p].call = "transfer" => op[p].to \in nodes
  /\ op[p].call # "write" => op[p].expires > op[p].at
  /\ ~CallFenceHolds(p)
  /\ op' = [op EXCEPT ![p] = [Idle EXCEPT !.call = "reject"]]
  /\ UNCHANGED <<now, nodes, auth, head, journal, requests, breaks>>

JournalReject(p) ==
  /\ op[p].call = "reject"
  /\ JournalOther
  /\ Return(p)
  /\ UNCHANGED <<now, nodes, auth, requests, breaks>>

\* A row without a holder is refused by force-break.
ForceBreakRefused(r) == r.status # "MISSING" /\ r.holder = NoNode

\* ForceBreakWorkspaceAuthority at node n: everything in one transaction.
\* A missing or an already expired row is left alone.
ForceBreak(n) ==
  /\ Break
  /\ nodes' = nodes \union {n}
  /\ \/ /\ auth.status = "ACTIVE" /\ ~ForceBreakRefused(auth)
        /\ Upsert(auth.holder, auth.token, auth.term, auth.expires,
                  MaxInt64(auth.commit, head), MaxInt64(auth.applied, head), "EXPIRED", now)
        /\ Journal("expired", auth.holder, auth.term)
     \/ /\ auth.status # "ACTIVE" \/ ForceBreakRefused(auth)
        /\ UNCHANGED <<auth, head, journal>>
  /\ UNCHANGED <<now, op, requests>>

-----------------------------------------------------------------------------
(* The environment.                                                        *)

\* An operator deletes a runtime_nodes row; the foreign key sets the holder
\* of a row that names it to NULL.
DeleteNode(n) ==
  /\ n \in nodes
  /\ Break
  /\ nodes' = nodes \ {n}
  /\ auth' = IF auth.holder = n THEN [auth EXCEPT !.holder = NoNode] ELSE auth
  /\ UNCHANGED <<now, head, journal, op, requests>>

\* A call is lost with its process, or its context is cancelled, between
\* two transactions.
Abandon(p) ==
  /\ op[p].call # "idle"
  /\ Return(p)
  /\ UNCHANGED <<now, nodes, auth, head, journal, requests, breaks>>

Tick ==
  /\ now < MaxTime
  /\ now' = now + 1
  /\ UNCHANGED <<nodes, auth, head, journal, op, requests, breaks>>

Step(p) ==
  \/ EnsureDecide(p) \/ MaintenanceDecide(p)
  \/ GrantClaim(p) \/ RefuseClaim(p)
  \/ Renew(p) \/ RefuseRenew(p)
  \/ Expire(p) \/ RefuseExpire(p)
  \/ Transfer(p) \/ RefuseTransfer(p)
  \/ Write(p) \/ FenceReject(p) \/ JournalReject(p)

Next ==
  \/ \E p \in Handlers :
       \/ BeginWrite(p) \/ BeginEnsure(p)
       \/ \E to \in Nodes : BeginTransfer(p, to)
  \/ \E p \in Loops : BeginMaintenance(p)
  \/ \E p \in Procs : Step(p) \/ Abandon(p)
  \/ \E n \in Nodes : ForceBreak(n) \/ DeleteNode(n)
  \/ Tick

Spec == Init /\ [][Next]_vars

\* The lease loop ticks every 30 seconds for as long as the server runs; a
\* pass that is started is not cancelled every single time.
LoopFairness ==
  /\ WF_vars(Tick)
  /\ \A p \in Loops :
       /\ WF_vars(BeginMaintenance(p))
       /\ SF_vars(MaintenanceDecide(p))
       /\ SF_vars(Expire(p))
       /\ WF_vars(Step(p))

\* The same of EnsureLocal, which its callers retry.
HandlerFairness ==
  \A p \in Handlers :
    /\ WF_vars(BeginEnsure(p))
    /\ SF_vars(EnsureDecide(p))
    /\ SF_vars(GrantClaim(p))
    /\ WF_vars(Step(p))

LoopFairSpec == Spec /\ LoopFairness

-----------------------------------------------------------------------------
(* Properties.                                                             *)

\* Every variable has its type: the row, the journal and the pending calls
\* are records of the tables' columns.
TypeOK ==
  /\ now \in Nat
  /\ nodes \subseteq Nodes
  /\ auth \in WorkspaceAuthorityRecord
  /\ head \in Nat
  /\ journal \in Seq(RuntimeEventRecord)
  /\ op \in [Procs -> Pending]
  /\ requests \in Nat
  /\ breaks \in Nat

\* Split-brain is impossible: two fenced mutations journaled under the same
\* term come from the same node (checkWorkspaceAuthorityFenceTx).
OneWriterPerTerm ==
  \A i, j \in 1 .. Len(journal) :
    /\ journal[i].type = "write" /\ journal[j].type = "write"
    /\ journal[i].term = journal[j].term
    => journal[i].node = journal[j].node

\* A writer that lost its lease never writes again: once a later term is
\* granted, or the term's own expiry is journaled, no mutation of the old
\* term follows in the journal.
StaleWriterSilenced ==
  \A i, j \in 1 .. Len(journal) :
    i < j /\ journal[j].type = "write" =>
      /\ journal[i].type \in {"write", "granted", "transferred"}
           => journal[i].term <= journal[j].term
      /\ journal[i].type = "expired" => journal[i].term < journal[j].term

\* The authority spine implements the turn-taking of SingleWriter: a term is
\* an epoch, and the holder of an ACTIVE row owns it until the row expires,
\* is broken or loses its holder (a lapsed row stays owned, without a writer,
\* until then).
Owner == IF auth.status = "ACTIVE" THEN auth.holder ELSE NoNode

Written ==
  {<<journal[i].term, journal[i].node>> :
     i \in {k \in 1 .. Len(journal) : journal[k].type = "write"}}

Abstract ==
  INSTANCE SingleWriter WITH Writers <- Nodes, NoWriter <- NoNode,
    epoch <- auth.term, owner <- Owner, written <- Written

ImplementsSingleWriter == Abstract!Spec

\* The watermarks the row advertises are positions the journal has reached.
WatermarksWithinJournal ==
  auth.commit <= head /\ auth.applied <= head

\* Terms and watermarks never go back, and a new lease token always comes
\* with a higher term (ClaimWorkspaceAuthority, TransferWorkspaceAuthority).
TermsAdvance ==
  [][/\ auth'.term >= auth.term
     /\ auth'.commit >= auth.commit
     /\ auth'.applied >= auth.applied
     /\ auth'.token # auth.token => auth'.term > auth.term]_vars

\* Nobody takes a live lease from its holder: while the lease is live on the
\* clock, only its own holder's transfer installs another token, although a
\* claim judges liveness at a time it took before it waited for the database.
LiveLeaseNotStolen ==
  [][LiveAt(auth, now) /\ auth'.token # auth.token =>
       \E p \in Procs : NodeOf[p] = auth.holder /\ op[p].call = "transfer"]_vars

\* The lease loop never expires a lease that is live, however long ago it
\* listed the rows: only an operator's force-break does.
MaintenanceExpiresDeadLeases ==
  [][\A p \in Procs :
       op[p].call = "expire" /\ op'[p].call = "idle" /\ auth'.status # auth.status
         => ~LiveAt(auth, now)]_vars

\* A hand-over loses nothing: the commit watermark a transfer installs covers
\* every event journaled before it.
TransferCoversJournal ==
  [][journal' # journal /\ journal'[Len(journal')].type = "transferred"
       => auth'.commit >= head]_vars

Orphaned == auth.status = "ACTIVE" /\ auth.holder = NoNode

\* A lease whose holder's node row was deleted does not stay orphaned, as long
\* as handlers keep coming (HandlerFairness): a later EnsureLocal adopts it
\* under a new term.
OrphanAdopted == HandlerFairness => (Orphaned ~> ~Orphaned)

\* Lapsed beyond the grace.  (updated_at may be ahead of the clock, and the
\* bounded clock may stop before it catches up; such a row does not count.)
Lapsed(n) ==
  /\ auth.status = "ACTIVE"
  /\ auth.holder = n
  /\ now >= auth.expires + ExpiryGrace
  /\ now >= auth.updated

\* A lease that lapsed beyond its grace does not stay ACTIVE at a node whose
\* lease loop runs (RunLocalWorkspaceAuthorityLeaseMaintenance).
LapsedLeaseRetired == \A p \in Loops : Lapsed(NodeOf[p]) ~> ~Lapsed(NodeOf[p])

\* When EnsureLocal refuses a row because it "requires force-break before
\* local reclaim", force-break accepts the row.
ForceBreakRecovers ==
  \A n \in Nodes : LeaseState(auth, n, now) = "incomplete" => ~ForceBreakRefused(auth)
=============================================================================
