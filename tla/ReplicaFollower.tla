-------------------------- MODULE ReplicaFollower --------------------------
(***************************************************************************)
(* The follower replicas of one workspace: the install of a base state,    *)
(* the batches of journal events a follower applies, and the retry and     *)
(* dead-letter line of its failures (internal/storage/sqlite/              *)
(* replica_install.go, replica_apply.go, replica_apply_state.go,           *)
(* replica_state.go).                                                      *)
(*                                                                         *)
(* Every operation is one transaction.  What arrives is arbitrary: a batch *)
(* or a failure report may be late, repeated, reordered or of an old term, *)
(* so its fields are taken from all the values in use.                     *)
(***************************************************************************)
EXTENDS Integers, Sequences

CONSTANTS
  Nodes,        \* authority node ids
  Replicas,     \* those that may follow
  NoNode,       \* no leader, or an event that no authority backs
  MaxFailures,  \* workspaceReplicaApplyMaxFailures
  RetryBase,    \* workspaceReplicaApplyRetryBase, in clock ticks
  RetryMax,     \* workspaceReplicaApplyRetryMax
  MaxHead,      \* bound on the journal
  MaxTerm,      \* bound on the authority's terms
  MaxTime,      \* bound on the clock
  MaxReports    \* bound on the failures of a line

ASSUME ReplicaAssumption ==
  /\ Replicas \subseteq Nodes
  /\ NoNode \notin Nodes
  /\ MaxFailures \in Nat \ {0}
  /\ RetryBase \in Nat
  /\ RetryMax \in Nat
  /\ MaxHead \in Nat
  /\ MaxTerm \in Nat
  /\ MaxTime \in Nat
  /\ MaxReports \in Nat

VARIABLES
  now,        \* the wall clock
  auth,       \* the workspace_authority row
  journal,    \* runtime_events by ingest_seq: who backs each event, and its term
  install,    \* workspace_replica_install_state, by replica
  replica,    \* workspace_replica_state
  transport,  \* workspace_replica_transport_state
  line,       \* workspace_replica_apply_state
  seen        \* history: the events each replica was ever given

vars == <<now, auth, journal, install, replica, transport, line, seen>>

-----------------------------------------------------------------------------
(* The rows.  NONE (or term 0) stands for a row that does not exist.       *)

Line == [leader : Nodes \union {NoNode}, term : Nat]

AuthorityRow ==
  [status : {"NONE", "ACTIVE", "EXPIRED"}, leader : Nodes \union {NoNode},
   term : Nat, commit : Nat]

InstallRow ==
  [status : {"NONE", "PENDING", "INSTALLED"}, leader : Nodes \union {NoNode},
   term : Nat, base : Nat]

ReplicaRow ==
  [role : {"NONE", "HOLDER", "FOLLOWER"}, leader : Nodes \union {NoNode},
   term : Nat, commit : Nat, applied : Nat]

TransportRow ==
  [leader : Nodes \union {NoNode}, term : Nat,
   exported : Nat, fetched : Nat, acked : Nat]

ApplyStatuses == {"NONE", "IDLE", "RETRY_PENDING", "DEAD_LETTER"}

ApplyRow ==
  [status : ApplyStatuses, leader : Nodes \union {NoNode}, term : Nat,
   exported : Nat, attempted : Nat, failures : Nat, retryAt : Nat]

JournalHead == Len(journal)

MaxInt64(a, b) == IF a > b THEN a ELSE b

\* The leader and term that a batch, an install or a failure report names are
\* those of the ACTIVE authority row.
CurrentLine(r, leader, term) ==
  /\ leader # r
  /\ auth.status = "ACTIVE"
  /\ auth.leader = leader
  /\ auth.term = term

\* Mutant: the follower's row is enough, whatever base state is installed.
InstalledLineAnyInstall(r, leader, term) ==
  /\ CurrentLine(r, leader, term)
  /\ replica[r].role = "FOLLOWER"
  /\ replica[r].leader = leader /\ replica[r].term = term

\* Mutant: the follower row and the installed base state are enough.
InstalledLineAnyAuthority(r, leader, term) ==
  /\ leader # r
  /\ install[r].status = "INSTALLED"
  /\ install[r].leader = leader /\ install[r].term = term
  /\ replica[r].role = "FOLLOWER"
  /\ replica[r].leader = leader /\ replica[r].term = term

\* ... and those of the installed base state and of the follower's row.
InstalledLine(r, leader, term) ==
  /\ CurrentLine(r, leader, term)
  /\ install[r].status = "INSTALLED"
  /\ install[r].leader = leader /\ install[r].term = term
  /\ replica[r].role = "FOLLOWER"
  /\ replica[r].leader = leader /\ replica[r].term = term

-----------------------------------------------------------------------------
(* The authority and the journal, as far as replicas read them.            *)

\* A claim or a transfer: the next term, watermarks that do not regress, and
\* a runtime event of the new line.
GrantAuthority(n, commit) ==
  /\ auth.term < MaxTerm /\ JournalHead < MaxHead
  /\ commit >= auth.commit
  /\ auth' = [status |-> "ACTIVE", leader |-> n, term |-> auth.term + 1,
              commit |-> commit]
  /\ journal' = Append(journal, [leader |-> n, term |-> auth.term + 1])
  /\ UNCHANGED <<now, install, replica, transport, line, seen>>

\* An expiry ends the line; its event is the last one of the term.
ExpireAuthority ==
  /\ auth.status = "ACTIVE" /\ JournalHead < MaxHead
  /\ auth' = [auth EXCEPT !.status = "EXPIRED"]
  /\ journal' = Append(journal, [leader |-> auth.leader, term |-> auth.term])
  /\ UNCHANGED <<now, install, replica, transport, line, seen>>

\* A renewal moves commit_watermark up to what its caller had read.
RenewAuthority(commit) ==
  /\ auth.status = "ACTIVE" /\ JournalHead < MaxHead
  /\ commit >= auth.commit
  /\ auth' = [auth EXCEPT !.commit = commit]
  /\ journal' = Append(journal, [leader |-> auth.leader, term |-> auth.term])
  /\ UNCHANGED <<now, install, replica, transport, line, seen>>

\* An event recorded under the authority, or by code that does not use it.
RecordRuntimeEvent(backed) ==
  /\ JournalHead < MaxHead
  /\ backed => auth.status = "ACTIVE"
  /\ journal' = Append(journal, IF backed
                                THEN [leader |-> auth.leader, term |-> auth.term]
                                ELSE [leader |-> NoNode, term |-> 0])
  /\ UNCHANGED <<now, auth, install, replica, transport, line, seen>>

Tick ==
  /\ now < MaxTime
  /\ now' = now + 1
  /\ UNCHANGED <<auth, journal, install, replica, transport, line, seen>>

-----------------------------------------------------------------------------
(* The follower's row.                                                     *)

\* Mutant: the row is written without a look at the one it replaces.
UpsertAdmittedAlways(r, row) == row.applied <= row.commit

\* upsertWorkspaceReplicaStateTx refuses to move a row back.
UpsertAdmitted(r, row) ==
  /\ row.applied <= row.commit
  /\ replica[r].role # "NONE" =>
       /\ row.term >= replica[r].term
       /\ row.commit >= replica[r].commit
       /\ row.applied >= replica[r].applied

\* The holder of the authority registers itself at its own watermark.
UpsertHolder(r) ==
  LET row == [role |-> "HOLDER", leader |-> r, term |-> auth.term,
              commit |-> auth.commit, applied |-> auth.commit] IN
  /\ auth.status = "ACTIVE" /\ auth.leader = r
  /\ UpsertAdmitted(r, row)
  /\ replica' = [replica EXCEPT ![r] = row]
  /\ seen' = [seen EXCEPT ![r] = @ \union 1..auth.commit]
  /\ UNCHANGED <<now, auth, journal, install, transport, line>>

\* A membership change: the row follows another leader or term, and keeps its
\* watermarks.
UpsertMembership(r, leader, term) ==
  LET row == [role |-> "FOLLOWER", leader |-> leader, term |-> term,
              commit |-> replica[r].commit, applied |-> replica[r].applied] IN
  /\ leader # r /\ term # 0
  /\ UpsertAdmitted(r, row)
  /\ replica' = [replica EXCEPT ![r] = row]
  /\ UNCHANGED <<now, auth, journal, install, transport, line, seen>>

-----------------------------------------------------------------------------
(* Installing a base state.                                                *)

\* The authority's line, a base it has committed, and no way back from a
\* later term, a higher base or INSTALLED.
InstallAdmitted(r, leader, term, base) ==
  /\ CurrentLine(r, leader, term)
  /\ base <= auth.commit
  /\ install[r].status # "NONE" =>
       /\ term >= install[r].term
       /\ base >= install[r].base
       /\ install[r].status # "INSTALLED"

BeginInstall(r, leader, term, base) ==
  /\ InstallAdmitted(r, leader, term, base)
  /\ install' = [install EXCEPT ![r] =
       [status |-> "PENDING", leader |-> leader, term |-> term, base |-> base]]
  /\ UNCHANGED <<now, auth, journal, replica, transport, line, seen>>

\* The completion of the pending install, with the follower's row at its
\* base.  Completing it again changes nothing.
CompleteInstall(r, leader, term, base) ==
  LET row == [role |-> "FOLLOWER", leader |-> leader, term |-> term,
              commit |-> base, applied |-> base] IN
  /\ CurrentLine(r, leader, term)
  /\ base <= auth.commit
  /\ install[r] = [status |-> "PENDING", leader |-> leader, term |-> term, base |-> base]
  /\ UpsertAdmitted(r, row)
  /\ install' = [install EXCEPT ![r].status = "INSTALLED"]
  /\ replica' = [replica EXCEPT ![r] = row]
  /\ seen' = [seen EXCEPT ![r] = @ \union 1..base]
  /\ UNCHANGED <<now, auth, journal, transport, line>>

-----------------------------------------------------------------------------
(* Applying a batch.                                                       *)

\* Mutant: a dead-lettered line may be retried like any other.
GateOpenForDead(r, leader, term, at) ==
  \/ line[r].status = "NONE"
  \/ line[r].term < term
  \/ line[r].term = term /\ line[r].leader = leader /\ at >= line[r].retryAt

\* The failures of the same term keep the gate closed, for good or until the
\* retry window opens.
GateOpen(r, leader, term, at) ==
  \/ line[r].status = "NONE"
  \/ line[r].term < term
  \/ /\ line[r].term = term
     /\ line[r].leader = leader
     /\ line[r].status # "DEAD_LETTER"
     /\ line[r].status = "RETRY_PENDING" => at >= line[r].retryAt

\* Where the next event of the follower is expected.
BaselineApplied(r) == MaxInt64(replica[r].applied, install[r].base)

\* The exported head, which a late batch of the same term does not lower.
EffectiveExported(r, term, exported) ==
  IF transport[r].term = term THEN MaxInt64(transport[r].exported, exported) ELSE exported

First(ids) == CHOOSE i \in ids : \A j \in ids : i <= j

Through(ids) == CHOOSE i \in ids : \A j \in ids : j <= i

Contiguous(ids) == \E lo, hi \in ids : ids = lo..hi

\* Mutant: the batch only has to start below the exported head.
BatchValidWithGap(r, leader, term, exported, ids) ==
  /\ ids \subseteq 1..JournalHead
  /\ \A i \in ids : journal[i] = [leader |-> leader, term |-> term]
  /\ Contiguous(ids)
  /\ Through(ids) <= EffectiveExported(r, term, exported)

\* The events exist, are backed by the line, are contiguous, leave no gap to
\* what was applied and stay within the exported head.
BatchValid(r, leader, term, exported, ids) ==
  /\ ids \subseteq 1..JournalHead
  /\ \A i \in ids : journal[i] = [leader |-> leader, term |-> term]
  /\ Contiguous(ids)
  /\ First(ids) <= BaselineApplied(r) + 1
  /\ Through(ids) <= EffectiveExported(r, term, exported)

NextTransport(r, leader, term, exported, ids) ==
  LET same == transport[r].term = term IN
  [leader |-> leader, term |-> term, exported |-> EffectiveExported(r, term, exported),
   fetched |-> IF same THEN MaxInt64(transport[r].fetched, Through(ids)) ELSE Through(ids),
   acked |-> IF same THEN MaxInt64(transport[r].acked, Through(ids)) ELSE Through(ids)]

NextReplica(r, leader, term, exported, ids) ==
  [role |-> "FOLLOWER", leader |-> leader, term |-> term,
   commit |-> MaxInt64(replica[r].commit, EffectiveExported(r, term, exported)),
   applied |-> MaxInt64(replica[r].applied, Through(ids))]

\* clearWorkspaceReplicaApplyStateTx: success resets the failures.  The
\* watermarks are the largest ever, of earlier terms too.
ClearedLine(r, leader, term, exported, applied) ==
  [status |-> "IDLE", leader |-> leader, term |-> term,
   exported |-> MaxInt64(line[r].exported, exported),
   attempted |-> MaxInt64(line[r].attempted, applied),
   failures |-> 0, retryAt |-> 0]

\* The upserts of transport and line refuse to move back within a term.
TransportAdmitted(r, t) ==
  /\ t.acked <= t.fetched /\ t.fetched <= t.exported
  /\ t.term >= transport[r].term
  /\ t.term = transport[r].term =>
       /\ t.exported >= transport[r].exported
       /\ t.fetched >= transport[r].fetched
       /\ t.acked >= transport[r].acked

LineAdmitted(r, c) ==
  /\ c.attempted <= c.exported
  /\ c.term >= line[r].term
  /\ c.term = line[r].term =>
       c.exported >= line[r].exported /\ c.attempted >= line[r].attempted

\* A batch that changes neither row returns before the line is cleared: that
\* call changes nothing, and is a stuttering step.
ApplyBatch(r, leader, term, exported, ids, at) ==
  LET t == NextTransport(r, leader, term, exported, ids)
      f == NextReplica(r, leader, term, exported, ids)
      c == ClearedLine(r, leader, term, t.exported, f.applied) IN
  /\ InstalledLine(r, leader, term)
  /\ exported <= JournalHead
  /\ GateOpen(r, leader, term, at)
  /\ BatchValid(r, leader, term, exported, ids)
  /\ TransportAdmitted(r, t) /\ UpsertAdmitted(r, f) /\ LineAdmitted(r, c)
  /\ transport' = [transport EXCEPT ![r] = t]
  /\ replica' = [replica EXCEPT ![r] = f]
  /\ line' = [line EXCEPT ![r] = c]
  /\ seen' = [seen EXCEPT ![r] = @ \union ids]
  /\ UNCHANGED <<now, auth, journal, install>>

-----------------------------------------------------------------------------
(* Recording a failure.                                                    *)

\* The failures of the line in this term, this one included.
FailureCount(r, term) ==
  IF line[r].status # "NONE" /\ line[r].term = term THEN line[r].failures + 1 ELSE 1

RetryAt(at, count) ==
  at + (IF count * RetryBase > RetryMax THEN RetryMax ELSE count * RetryBase)

FailedLine(r, leader, term, exported, attempted, at, retryable) ==
  LET same == line[r].status # "NONE" /\ line[r].term = term
      count == FailureCount(r, term)
      dead == ~retryable \/ count >= MaxFailures IN
  [status |-> IF dead THEN "DEAD_LETTER" ELSE "RETRY_PENDING",
   leader |-> leader, term |-> term,
   exported |-> IF same THEN MaxInt64(line[r].exported, exported) ELSE exported,
   attempted |-> IF same THEN MaxInt64(line[r].attempted, attempted) ELSE attempted,
   failures |-> count,
   retryAt |-> IF dead THEN 0 ELSE RetryAt(at, count)]

\* Mutant: a report may claim an exported head beyond the journal.
RecordFailureAnyHead(r, leader, term, exported, attempted, at, retryable) ==
  LET c == FailedLine(r, leader, term, exported, attempted, at, retryable) IN
  /\ InstalledLine(r, leader, term)
  /\ attempted <= exported
  /\ line[r].failures < MaxReports
  /\ LineAdmitted(r, c)
  /\ line' = [line EXCEPT ![r] = c]
  /\ UNCHANGED <<now, auth, journal, install, replica, transport, seen>>

RecordFailure(r, leader, term, exported, attempted, at, retryable) ==
  LET c == FailedLine(r, leader, term, exported, attempted, at, retryable) IN
  /\ InstalledLine(r, leader, term)
  /\ attempted <= exported /\ exported <= JournalHead
  /\ line[r].failures < MaxReports
  /\ LineAdmitted(r, c)
  /\ line' = [line EXCEPT ![r] = c]
  /\ UNCHANGED <<now, auth, journal, install, replica, transport, seen>>

-----------------------------------------------------------------------------
(* What replay is told of a follower.                                      *)

NonNegativeLag(head, current) == IF head <= current THEN 0 ELSE head - current

\* The transport row wins; the apply line speaks for a follower without one.
ExportedHead(r) ==
  IF transport[r].term # 0 THEN transport[r].exported ELSE line[r].exported

ExportLag(r) == NonNegativeLag(JournalHead, ExportedHead(r))

\* Mutant: the lag behind what was fetched.
ApplyLagOfFetched(r) == NonNegativeLag(transport[r].fetched, replica[r].applied)

ApplyLag(r) == NonNegativeLag(ExportedHead(r), replica[r].applied)

-----------------------------------------------------------------------------
Init ==
  /\ now = 0
  /\ auth = [status |-> "NONE", leader |-> NoNode, term |-> 0, commit |-> 0]
  /\ journal = <<>>
  /\ install = [r \in Replicas |-> [status |-> "NONE", leader |-> NoNode, term |-> 0, base |-> 0]]
  /\ replica = [r \in Replicas |-> [role |-> "NONE", leader |-> NoNode, term |-> 0,
                                 commit |-> 0, applied |-> 0]]
  /\ transport = [r \in Replicas |-> [leader |-> NoNode, term |-> 0,
                                   exported |-> 0, fetched |-> 0, acked |-> 0]]
  /\ line = [r \in Replicas |-> [status |-> "NONE", leader |-> NoNode, term |-> 0, exported |-> 0,
                              attempted |-> 0, failures |-> 0, retryAt |-> 0]]
  /\ seen = [r \in Replicas |-> {}]

Next ==
  \/ Tick
  \/ ExpireAuthority
  \/ \E backed \in BOOLEAN : RecordRuntimeEvent(backed)
  \/ \E commit \in 0..JournalHead : RenewAuthority(commit)
  \/ \E n \in Nodes, commit \in 0..JournalHead : GrantAuthority(n, commit)
  \/ \E r \in Replicas : UpsertHolder(r)
  \/ \E r \in Replicas, leader \in Nodes, term \in 0..auth.term :
       \/ UpsertMembership(r, leader, term)
       \/ \E base \in 0..JournalHead+1 :
            BeginInstall(r, leader, term, base) \/ CompleteInstall(r, leader, term, base)
       \/ /\ InstalledLine(r, leader, term)  \* of both actions; others are refused
          /\ \E exported \in 0..JournalHead+1, at \in 0..now :
               \/ \E ids \in SUBSET (1..JournalHead) :
                    ApplyBatch(r, leader, term, exported, ids, at)
               \/ \E attempted \in 0..JournalHead+1, retryable \in BOOLEAN :
                    RecordFailure(r, leader, term, exported, attempted, at, retryable)

Spec == Init /\ [][Next]_vars

-----------------------------------------------------------------------------
(* Properties.                                                             *)

\* The rows have their types.
TypeOK ==
  /\ now \in Nat
  /\ auth \in AuthorityRow
  /\ journal \in Seq(Line)
  /\ install \in [Replicas -> InstallRow]
  /\ replica \in [Replicas -> ReplicaRow]
  /\ transport \in [Replicas -> TransportRow]
  /\ line \in [Replicas -> ApplyRow]
  /\ seen \in [Replicas -> SUBSET Nat]

\* What a follower calls applied leaves no gap: every event up to its applied
\* watermark was in a base state it installed or in a batch it accepted,
\* whatever order the batches came in (validateReplicaApplyRuntimeEvents).
NoGapApplied ==
  \A r \in Replicas : 1..replica[r].applied \subseteq seen[r]

\* The watermarks of a follower are ordered and lie in the journal:
\* acknowledged <= fetched <= exported, applied <= commit, attempted <=
\* exported, and nothing is acknowledged that was not applied.
WatermarkChain ==
  \A r \in Replicas :
    /\ transport[r].acked <= transport[r].fetched
    /\ transport[r].fetched <= transport[r].exported
    /\ transport[r].exported <= JournalHead
    /\ transport[r].acked <= replica[r].applied
    /\ replica[r].applied <= replica[r].commit
    /\ replica[r].commit <= JournalHead
    /\ line[r].attempted <= line[r].exported
    /\ line[r].exported <= JournalHead

\* Transport and apply line never run ahead of the install they belong to,
\* nor the install of the authority; in the same term they name the same
\* leader, so the gate's check of the leader cannot be what stops a batch.
LinesFollowInstall ==
  \A r \in Replicas :
    /\ transport[r].term <= install[r].term
    /\ line[r].term <= install[r].term
    /\ install[r].term <= auth.term
    /\ transport[r].term # 0 => transport[r].leader = install[r].leader
    /\ line[r].status # "NONE" => line[r].leader = install[r].leader

\* A follower that freshness reports without export and apply lag has been
\* given the whole journal.
FreshMeansCurrent ==
  \A r \in Replicas :
    ExportLag(r) = 0 /\ ApplyLag(r) = 0 => 1..JournalHead \subseteq seen[r]

\* Batches only bring events of the line that holds the authority at that
\* moment: when the applied watermark of an installed follower moves, each new
\* event is backed by the ACTIVE leader and term.
AppliedFromCurrentLine ==
  [][\A r \in Replicas :
       /\ replica'[r].applied > replica[r].applied
       /\ install'[r] = install[r] /\ replica'[r].role = "FOLLOWER"
       => /\ auth.status = "ACTIVE"
          /\ \A i \in BaselineApplied(r)+1 .. replica'[r].applied :
               journal[i] = [leader |-> auth.leader, term |-> auth.term]]_vars

\* Late and repeated batches never take back what was applied, committed,
\* fetched or acknowledged, except that a new term starts the transport anew.
ProgressKept ==
  [][\A r \in Replicas :
       /\ replica'[r].applied >= replica[r].applied
       /\ replica'[r].commit >= replica[r].commit
       /\ transport'[r].term = transport[r].term =>
            /\ transport'[r].exported >= transport[r].exported
            /\ transport'[r].fetched >= transport[r].fetched
            /\ transport'[r].acked >= transport[r].acked]_vars

\* Nothing is applied on a dead-lettered line.
DeadLineAppliesNothing ==
  [][\A r \in Replicas :
       /\ line[r].status = "DEAD_LETTER" /\ line[r].term = install[r].term
       /\ install'[r] = install[r] /\ replica'[r].role = "FOLLOWER"
       => replica'[r].applied = replica[r].applied]_vars

=============================================================================
