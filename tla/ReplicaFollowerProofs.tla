----------------------- MODULE ReplicaFollowerProofs -----------------------
(***************************************************************************)
(* Proofs about ReplicaFollower, for any set of nodes, any journal length  *)
(* and any number of terms.                                                *)
(***************************************************************************)
EXTENDS ReplicaFollower, TLAPS

\* What ties the rows of one replica together, beyond the properties: its
\* base lies in the journal and was applied once the install is finished, and
\* only a finished install has a transport row or an apply line.
RowTied(r) ==
  /\ install[r].base <= JournalHead
  /\ install[r].status = "INSTALLED" => install[r].base <= replica[r].applied
  /\ transport[r].term # 0 => install[r].status = "INSTALLED"
  /\ line[r].status # "NONE" => install[r].status = "INSTALLED"
  /\ line[r].status = "NONE" => line[r].term = 0
  /\ replica[r].role = "NONE" => replica[r].applied = 0
  /\ replica[r].role = "NONE" => replica[r].commit = 0

\* The conjuncts of the properties for one replica.
RowChain(r) ==
  /\ transport[r].acked <= transport[r].fetched
  /\ transport[r].fetched <= transport[r].exported
  /\ transport[r].exported <= JournalHead
  /\ transport[r].acked <= replica[r].applied
  /\ replica[r].applied <= replica[r].commit
  /\ replica[r].commit <= JournalHead
  /\ line[r].attempted <= line[r].exported
  /\ line[r].exported <= JournalHead

RowLines(r) ==
  /\ transport[r].term <= install[r].term
  /\ line[r].term <= install[r].term
  /\ install[r].term <= auth.term
  /\ transport[r].term # 0 => transport[r].leader = install[r].leader
  /\ line[r].status # "NONE" => line[r].leader = install[r].leader

RowInv(r) ==
  1..replica[r].applied \subseteq seen[r] /\ RowChain(r) /\ RowLines(r) /\ RowTied(r)

\* The inductive invariant.
IInv ==
  /\ TypeOK
  /\ auth.commit <= JournalHead
  /\ \A r \in Replicas : RowInv(r)

-----------------------------------------------------------------------------
(* Lemmas about the operators.                                             *)

\* MaxInt64 (replica_apply.go) is the larger of its arguments.
LEMMA MaxInt64Nat ==
  \A a, b \in Nat : /\ MaxInt64(a, b) \in Nat
                    /\ MaxInt64(a, b) >= a /\ MaxInt64(a, b) >= b
                    /\ MaxInt64(a, b) \in {a, b}
BY DEF MaxInt64

\* The last event of a contiguous batch is its largest, and its first event
\* its smallest: validateReplicaApplyRuntimeEvents reads them off the sorted
\* batch.
LEMMA ContiguousBounds ==
  ASSUME NEW ids \in SUBSET Nat, Contiguous(ids)
  PROVE  /\ First(ids) \in ids /\ Through(ids) \in ids
         /\ ids = First(ids)..Through(ids)
<1>1. PICK lo \in ids, hi \in ids : ids = lo..hi  BY DEF Contiguous
<1>2. lo \in Nat /\ hi \in Nat  OBVIOUS
<1>3. \A j \in ids : lo <= j /\ j <= hi  BY <1>1, <1>2
<1>4. First(ids) \in ids /\ \A j \in ids : First(ids) <= j
  <2>1. \E i \in ids : \A j \in ids : i <= j  BY <1>1, <1>3
  <2> QED  BY Zenon, <2>1 DEF First
<1>5. Through(ids) \in ids /\ \A j \in ids : j <= Through(ids)
  <2>1. \E i \in ids : \A j \in ids : j <= i  BY <1>1, <1>3
  <2> QED  BY Zenon, <2>1 DEF Through
<1>6. First(ids) = lo /\ Through(ids) = hi  BY <1>1, <1>2, <1>3, <1>4, <1>5
<1> QED  BY <1>1, <1>4, <1>5, <1>6

-----------------------------------------------------------------------------
(* The invariant.                                                          *)

\* The journal's length is a natural number.
LEMMA HeadNat == TypeOK => JournalHead \in Nat
BY DEF TypeOK, JournalHead

\* An appended event makes the journal one longer.
LEMMA AppendHead ==
  ASSUME TypeOK, NEW e \in Line, journal' = Append(journal, e)
  PROVE  journal' \in Seq(Line) /\ JournalHead' = JournalHead + 1
BY DEF TypeOK, JournalHead

\* Rows that no operation touches stay tied together while the journal and
\* the authority's term grow.
LEMMA RowKept ==
  ASSUME IInv, NEW r \in Replicas,
         JournalHead' \in Nat, JournalHead <= JournalHead',
         auth'.term \in Nat, auth.term <= auth'.term,
         install'[r] = install[r], replica'[r] = replica[r],
         transport'[r] = transport[r], line'[r] = line[r], seen'[r] = seen[r]
  PROVE  RowInv(r)'
<1>1. TypeOK /\ RowInv(r)  BY DEF IInv
<1>2. JournalHead \in Nat  BY <1>1, HeadNat
<1>3. /\ install[r] \in InstallRow /\ replica[r] \in ReplicaRow
      /\ transport[r] \in TransportRow /\ line[r] \in ApplyRow /\ auth \in AuthorityRow
  BY <1>1 DEF TypeOK
<1>4. (1..replica[r].applied \subseteq seen[r])'  BY <1>1 DEF RowInv
<1>5. RowChain(r)'
  BY <1>1, <1>2, <1>3 DEF RowInv, RowChain, TransportRow, ReplicaRow, ApplyRow
<1>6. RowLines(r)'
  BY <1>1, <1>3 DEF RowInv, RowLines, TransportRow, InstallRow, ApplyRow, AuthorityRow
<1>7. RowTied(r)'
  BY <1>1, <1>2, <1>3 DEF RowInv, RowTied, TransportRow, InstallRow, ApplyRow, ReplicaRow
<1> QED  BY <1>4, <1>5, <1>6, <1>7 DEF RowInv

\* The initial state satisfies the invariant.
LEMMA InitIInv == Init => IInv
<1> SUFFICES ASSUME Init PROVE IInv  OBVIOUS
<1>1. TypeOK
  BY DEF Init, TypeOK, AuthorityRow, InstallRow, ReplicaRow, TransportRow, ApplyRow, ApplyStatuses
<1>2. JournalHead = 0  BY DEF Init, JournalHead
<1>3. ASSUME NEW r \in Replicas PROVE RowInv(r)
  <2>1. 1..replica[r].applied \subseteq seen[r]  BY DEF Init
  <2>2. RowChain(r)  BY <1>2 DEF Init, RowChain
  <2>3. RowLines(r)  BY DEF Init, RowLines
  <2>4. RowTied(r)  BY <1>2 DEF Init, RowTied
  <2> QED  BY <2>1, <2>2, <2>3, <2>4 DEF RowInv
<1> QED  BY <1>1, <1>2, <1>3 DEF IInv, Init

\* The steps of the authority, of the journal and of the clock only make the
\* journal and the term grow.
LEMMA SpineStep ==
  ASSUME IInv,
         \/ Tick \/ ExpireAuthority
         \/ \E backed \in BOOLEAN : RecordRuntimeEvent(backed)
         \/ \E commit \in 0..JournalHead : RenewAuthority(commit)
         \/ \E n \in Nodes, commit \in 0..JournalHead : GrantAuthority(n, commit)
  PROVE  IInv'
<1>0. TypeOK /\ JournalHead \in Nat /\ auth.commit <= JournalHead  BY HeadNat DEF IInv
<1>1. UNCHANGED <<install, replica, transport, line, seen>>
  BY Zenon DEF Tick, ExpireAuthority, RecordRuntimeEvent, RenewAuthority, GrantAuthority
<1>2. now' \in Nat
  <2>1. now' = now + 1 \/ now' = now
    BY Zenon DEF Tick, ExpireAuthority, RecordRuntimeEvent, RenewAuthority, GrantAuthority
  <2> QED  BY <2>1, <1>0 DEF TypeOK
<1> DEFINE Grown ==
      /\ auth' \in AuthorityRow /\ auth.term <= auth'.term
      /\ journal' \in Seq(Line)
      /\ JournalHead' \in Nat /\ JournalHead <= JournalHead'
      /\ auth'.commit <= JournalHead'
<1>3. Grown
  <2>a. auth \in AuthorityRow /\ journal \in Seq(Line)  BY <1>0 DEF TypeOK
  <2>1. CASE Tick  BY <2>1, <2>a, <1>0 DEF Tick, JournalHead, AuthorityRow
  <2>2. CASE ExpireAuthority
    <3>1. journal' = Append(journal, [leader |-> auth.leader, term |-> auth.term])
      BY <2>2 DEF ExpireAuthority
    <3>2. [leader |-> auth.leader, term |-> auth.term] \in Line  BY <2>a DEF AuthorityRow, Line
    <3>3. journal' \in Seq(Line) /\ JournalHead' = JournalHead + 1  BY <3>1, <3>2, <1>0, AppendHead
    <3>4. auth' \in AuthorityRow /\ auth'.term = auth.term /\ auth'.commit = auth.commit
      BY <2>2, <2>a DEF ExpireAuthority, AuthorityRow
    <3> QED  BY <3>3, <3>4, <2>a, <1>0 DEF AuthorityRow
  <2>3. ASSUME NEW backed \in BOOLEAN, RecordRuntimeEvent(backed) PROVE Grown
    <3>1. PICK e \in Line : journal' = Append(journal, e)
      <4>1. [leader |-> auth.leader, term |-> auth.term] \in Line  BY <2>a DEF AuthorityRow, Line
      <4>2. [leader |-> NoNode, term |-> 0] \in Line  BY DEF Line
      <4> QED  BY <4>1, <4>2, <2>3 DEF RecordRuntimeEvent
    <3>2. journal' \in Seq(Line) /\ JournalHead' = JournalHead + 1  BY <3>1, <1>0, AppendHead
    <3> QED  BY <3>2, <2>3, <2>a, <1>0 DEF RecordRuntimeEvent, AuthorityRow
  <2>4. ASSUME NEW commit \in 0..JournalHead, RenewAuthority(commit) PROVE Grown
    <3>1. journal' = Append(journal, [leader |-> auth.leader, term |-> auth.term])
      BY <2>4 DEF RenewAuthority
    <3>2. [leader |-> auth.leader, term |-> auth.term] \in Line  BY <2>a DEF AuthorityRow, Line
    <3>3. journal' \in Seq(Line) /\ JournalHead' = JournalHead + 1  BY <3>1, <3>2, <1>0, AppendHead
    <3>4. auth' \in AuthorityRow /\ auth'.term = auth.term /\ auth'.commit = commit
      BY <2>4, <2>a, <1>0 DEF RenewAuthority, AuthorityRow
    <3> QED  BY <3>3, <3>4, <2>a, <1>0 DEF AuthorityRow
  <2>5. ASSUME NEW n \in Nodes, NEW commit \in 0..JournalHead, GrantAuthority(n, commit)
        PROVE Grown
    <3>1. journal' = Append(journal, [leader |-> n, term |-> auth.term + 1])
      BY <2>5 DEF GrantAuthority
    <3>2. [leader |-> n, term |-> auth.term + 1] \in Line  BY <2>a DEF AuthorityRow, Line
    <3>3. journal' \in Seq(Line) /\ JournalHead' = JournalHead + 1  BY <3>1, <3>2, <1>0, AppendHead
    <3>4. auth' \in AuthorityRow /\ auth'.term = auth.term + 1 /\ auth'.commit = commit
      BY <2>5, <2>a, <1>0 DEF GrantAuthority, AuthorityRow
    <3> QED  BY <3>3, <3>4, <2>a, <1>0 DEF AuthorityRow
  <2> QED  BY <2>1, <2>2, <2>3, <2>4, <2>5
<1>4. TypeOK'  BY <1>0, <1>1, <1>2, <1>3 DEF TypeOK
<1>5. auth'.term \in Nat  BY <1>3 DEF AuthorityRow
<1>6. ASSUME NEW r \in Replicas PROVE RowInv(r)'  BY <1>1, <1>3, <1>5, RowKept
<1> QED  BY <1>3, <1>4, <1>6 DEF IInv

\* What an operation on one replica leaves to prove: that it wrote rows of
\* their types, no row of another replica, and rows that are tied together.
LEMMA ReplicaStep ==
  ASSUME IInv, NEW r \in Replicas,
         UNCHANGED <<auth, journal>>, TypeOK', RowInv(r)',
         \A x \in Replicas : x # r =>
           /\ install'[x] = install[x] /\ replica'[x] = replica[x]
           /\ transport'[x] = transport[x] /\ line'[x] = line[x] /\ seen'[x] = seen[x]
  PROVE  IInv'
<1>1. TypeOK /\ JournalHead \in Nat  BY HeadNat DEF IInv
<1>2. JournalHead' = JournalHead  BY DEF JournalHead
<1>3. ASSUME NEW x \in Replicas, x # r PROVE RowInv(x)'
  <2>1. auth'.term \in Nat /\ auth.term <= auth'.term  BY <1>1 DEF TypeOK, AuthorityRow
  <2> QED  BY <2>1, <1>1, <1>2, <1>3, RowKept
<1>4. (auth.commit <= JournalHead)'  BY <1>2 DEF IInv
<1> QED  BY <1>3, <1>4 DEF IInv

\* The rows of one replica, with their types.
LEMMA Rows ==
  ASSUME IInv, NEW r \in Replicas
  PROVE  /\ TypeOK /\ RowInv(r) /\ JournalHead \in Nat /\ auth.commit <= JournalHead
         /\ auth \in AuthorityRow
         /\ install[r] \in InstallRow /\ replica[r] \in ReplicaRow
         /\ transport[r] \in TransportRow /\ line[r] \in ApplyRow
         /\ seen[r] \in SUBSET Nat
<1>1. TypeOK /\ RowInv(r) /\ JournalHead \in Nat /\ auth.commit <= JournalHead
  BY HeadNat DEF IInv
<1>2. /\ auth \in AuthorityRow
      /\ install[r] \in InstallRow /\ replica[r] \in ReplicaRow
      /\ transport[r] \in TransportRow /\ line[r] \in ApplyRow
      /\ seen[r] \in SUBSET Nat
  BY <1>1 DEF TypeOK
<1> QED  BY <1>1, <1>2

\* An upsert that was admitted does not take back what was applied.
LEMMA UpsertForward ==
  ASSUME IInv, NEW r \in Replicas, NEW f \in ReplicaRow, UpsertAdmitted(r, f)
  PROVE  /\ f.applied <= f.commit /\ f.applied >= replica[r].applied
         /\ f.commit >= replica[r].commit
<1>1. replica[r] \in ReplicaRow /\ RowTied(r)  BY Rows DEF RowInv
<1>2. CASE replica[r].role = "NONE"
  BY <1>1, <1>2 DEF UpsertAdmitted, ReplicaRow, RowTied
<1>3. CASE replica[r].role # "NONE"  BY <1>3 DEF UpsertAdmitted
<1> QED  BY <1>2, <1>3

\* A new row of the follower keeps the rest tied to it when it moves forward,
\* stays in the journal and was given what it calls applied.
LEMMA RowForward ==
  ASSUME IInv, NEW r \in Replicas, NEW f \in ReplicaRow, NEW e \in SUBSET Nat,
         f.role # "NONE", f.applied <= f.commit, f.commit <= JournalHead,
         f.applied >= replica[r].applied,
         1..f.applied \subseteq seen[r] \union e,
         auth' = auth, JournalHead' = JournalHead,
         install'[r] = install[r], transport'[r] = transport[r], line'[r] = line[r],
         replica'[r] = f, seen'[r] = seen[r] \union e
  PROVE  RowInv(r)'
<1>1. /\ RowInv(r) /\ JournalHead \in Nat
      /\ install[r] \in InstallRow /\ transport[r] \in TransportRow
      /\ line[r] \in ApplyRow /\ replica[r] \in ReplicaRow
  BY Rows
<1>2. (1..replica[r].applied \subseteq seen[r])'  OBVIOUS
<1>3. RowChain(r)'  BY <1>1 DEF RowInv, RowChain, ReplicaRow, TransportRow
<1>4. RowLines(r)'  BY <1>1 DEF RowInv, RowLines
<1>5. RowTied(r)'  BY <1>1 DEF RowInv, RowTied, ReplicaRow, InstallRow
<1> QED  BY <1>2, <1>3, <1>4, <1>5 DEF RowInv

\* Writing a row of the follower and what it was given keeps the types and
\* the other replicas.
LEMMA WriteRow ==
  ASSUME IInv, NEW r \in Replicas, NEW f \in ReplicaRow, NEW e \in SUBSET Nat,
         replica' = [replica EXCEPT ![r] = f],
         seen' = [seen EXCEPT ![r] = seen[r] \union e]
  PROVE  /\ replica' \in [Replicas -> ReplicaRow] /\ seen' \in [Replicas -> SUBSET Nat]
         /\ replica'[r] = f /\ seen'[r] = seen[r] \union e
         /\ \A x \in Replicas : x # r => replica'[x] = replica[x] /\ seen'[x] = seen[x]
<1>1. replica \in [Replicas -> ReplicaRow] /\ seen \in [Replicas -> SUBSET Nat]
  BY DEF IInv, TypeOK
<1>2. seen[r] \union e \in SUBSET Nat  BY Zenon, <1>1
<1> QED  BY <1>1, <1>2

\* Upserts of the follower's row keep the invariant.
LEMMA UpsertStep ==
  ASSUME IInv, NEW r \in Replicas,
         \/ UpsertHolder(r)
         \/ \E leader \in Nodes, term \in 0..auth.term : UpsertMembership(r, leader, term)
  PROVE  IInv'
<1>1. ASSUME NEW f \in ReplicaRow, NEW e \in SUBSET Nat,
             f.role # "NONE", f.applied <= f.commit, f.commit <= JournalHead,
             f.applied >= replica[r].applied,
             1..f.applied \subseteq seen[r] \union e,
             replica' = [replica EXCEPT ![r] = f],
             seen' = [seen EXCEPT ![r] = seen[r] \union e],
             UNCHANGED <<now, auth, journal, install, transport, line>>
      PROVE  IInv'
  <2>1. /\ replica' \in [Replicas -> ReplicaRow] /\ seen' \in [Replicas -> SUBSET Nat]
        /\ replica'[r] = f /\ seen'[r] = seen[r] \union e
        /\ \A x \in Replicas : x # r => replica'[x] = replica[x] /\ seen'[x] = seen[x]
    BY Zenon, <1>1, WriteRow
  <2>2. TypeOK'  BY <2>1, <1>1, Rows DEF TypeOK
  <2>3. JournalHead' = JournalHead  BY <1>1 DEF JournalHead
  <2>4. RowInv(r)'  BY <2>1, <2>3, <1>1, RowForward
  <2> QED  BY <1>1, <2>1, <2>2, <2>4, ReplicaStep
<1>2. CASE UpsertHolder(r)
  <2> DEFINE f == [role |-> "HOLDER", leader |-> r, term |-> auth.term,
                   commit |-> auth.commit, applied |-> auth.commit]
             e == 1..auth.commit
  <2>1. /\ UpsertAdmitted(r, f) /\ replica' = [replica EXCEPT ![r] = f]
        /\ seen' = [seen EXCEPT ![r] = seen[r] \union e]
        /\ UNCHANGED <<now, auth, journal, install, transport, line>>
    BY <1>2 DEF UpsertHolder
  <2>2. f \in ReplicaRow /\ f.role # "NONE" /\ f.commit <= JournalHead
    BY Rows, ReplicaAssumption DEF ReplicaRow, AuthorityRow
  <2>3. e \in SUBSET Nat /\ 1..f.applied \subseteq seen[r] \union e
    BY Rows DEF AuthorityRow
  <2> HIDE DEF f, e
  <2>4. f.applied <= f.commit /\ f.applied >= replica[r].applied  BY <2>1, <2>2, UpsertForward
  <2> QED  BY Zenon, <2>1, <2>2, <2>3, <2>4, <1>1
<1>3. ASSUME NEW leader \in Nodes, NEW term \in 0..auth.term, UpsertMembership(r, leader, term)
      PROVE  IInv'
  <2> DEFINE f == [role |-> "FOLLOWER", leader |-> leader, term |-> term,
                   commit |-> replica[r].commit, applied |-> replica[r].applied]
             e == {}
  <2>1. /\ replica' = [replica EXCEPT ![r] = f]
        /\ UNCHANGED <<now, auth, journal, install, transport, line, seen>>
    BY <1>3 DEF UpsertMembership
  <2>2. f \in ReplicaRow /\ f.role # "NONE"
    BY Rows DEF ReplicaRow, AuthorityRow
  <2>3. /\ f.commit <= JournalHead /\ f.applied <= f.commit /\ f.applied >= replica[r].applied
        /\ 1..f.applied \subseteq seen[r] \union e
    BY Rows DEF ReplicaRow, RowInv, RowChain
  <2>4. e \in SUBSET Nat /\ seen' = [seen EXCEPT ![r] = seen[r] \union e]
    <3>1. seen \in [Replicas -> SUBSET Nat]  BY DEF IInv, TypeOK
    <3>2. seen[r] \union e = seen[r]  OBVIOUS
    <3> QED  BY <3>1, <3>2, <2>1
  <2> HIDE DEF f, e
  <2> QED  BY Zenon, <2>1, <2>2, <2>3, <2>4, <1>1
<1> QED  BY <1>2, <1>3

\* The start of an install: no transport row and no apply line exists yet.
LEMMA BeginStep ==
  ASSUME IInv, NEW r \in Replicas, NEW leader \in Nodes, NEW term \in Nat, NEW base \in Nat,
         BeginInstall(r, leader, term, base)
  PROVE  IInv'
<1> DEFINE i == [status |-> "PENDING", leader |-> leader, term |-> term, base |-> base]
<1>1. /\ install' = [install EXCEPT ![r] = i]
      /\ UNCHANGED <<now, auth, journal, replica, transport, line, seen>>
  BY DEF BeginInstall
<1>2. /\ term = auth.term /\ base <= auth.commit
      /\ install[r].status # "INSTALLED"
  <2>1. InstallAdmitted(r, leader, term, base)  BY DEF BeginInstall
  <2>2. CASE install[r].status = "NONE"  BY <2>1, <2>2 DEF InstallAdmitted, CurrentLine
  <2>3. CASE install[r].status # "NONE"  BY <2>1, <2>3 DEF InstallAdmitted, CurrentLine
  <2> QED  BY <2>2, <2>3
<1>3. i \in InstallRow  BY DEF InstallRow
<1>4. /\ install' \in [Replicas -> InstallRow] /\ install'[r] = i
      /\ \A x \in Replicas : x # r => install'[x] = install[x]
  BY <1>1, <1>3, Rows DEF TypeOK
<1>5. TypeOK'  BY <1>1, <1>4, Rows DEF TypeOK
<1>6. JournalHead' = JournalHead  BY <1>1 DEF JournalHead
<1>7. /\ RowInv(r) /\ JournalHead \in Nat /\ auth.commit <= JournalHead
      /\ transport[r] \in TransportRow /\ line[r] \in ApplyRow
      /\ replica[r] \in ReplicaRow /\ auth \in AuthorityRow
  BY Rows
<1>8. transport[r].term = 0 /\ line[r].status = "NONE" /\ line[r].term = 0
  BY <1>2, <1>7 DEF RowInv, RowTied
<1>9. RowInv(r)'
  <2>1. (1..replica[r].applied \subseteq seen[r])'  BY <1>1, <1>7 DEF RowInv
  <2>2. RowChain(r)'  BY <1>1, <1>6, <1>7 DEF RowInv, RowChain
  <2>3. RowLines(r)'  BY <1>1, <1>2, <1>4, <1>8 DEF RowLines
  <2>4. base <= JournalHead  BY <1>2, <1>7 DEF AuthorityRow
  <2>5. RowTied(r)'  BY <1>1, <1>4, <1>6, <1>7, <1>8, <2>4 DEF RowInv, RowTied
  <2> QED  BY <2>1, <2>2, <2>3, <2>5 DEF RowInv
<1> QED  BY <1>1, <1>4, <1>5, <1>9, ReplicaStep

\* The end of an install: the follower is given the base state.
LEMMA CompleteStep ==
  ASSUME IInv, NEW r \in Replicas, NEW leader \in Nodes, NEW term \in Nat, NEW base \in Nat,
         CompleteInstall(r, leader, term, base)
  PROVE  IInv'
<1> DEFINE f == [role |-> "FOLLOWER", leader |-> leader, term |-> term,
                 commit |-> base, applied |-> base]
           e == 1..base
           i == [status |-> "INSTALLED", leader |-> leader, term |-> term, base |-> base]
<1>1. /\ term = auth.term /\ base <= auth.commit
      /\ install[r] = [status |-> "PENDING", leader |-> leader, term |-> term, base |-> base]
      /\ UpsertAdmitted(r, f)
      /\ install' = [install EXCEPT ![r].status = "INSTALLED"]
      /\ replica' = [replica EXCEPT ![r] = f]
      /\ seen' = [seen EXCEPT ![r] = seen[r] \union e]
      /\ UNCHANGED <<now, auth, journal, transport, line>>
  BY DEF CompleteInstall, CurrentLine
<1>2. f \in ReplicaRow /\ e \in SUBSET Nat  BY DEF ReplicaRow
<1>3. f.applied = base /\ f.commit = base /\ f.role = "FOLLOWER" /\ e = 1..base  OBVIOUS
<1>4. i \in InstallRow /\ i.status = "INSTALLED" /\ i.leader = leader /\ i.term = term /\ i.base = base
  BY DEF InstallRow
<1>5. /\ install' \in [Replicas -> InstallRow] /\ install'[r] = i
      /\ \A x \in Replicas : x # r => install'[x] = install[x]
  BY <1>1, <1>4, Rows DEF TypeOK
<1> HIDE DEF f, e, i
<1>6. /\ replica' \in [Replicas -> ReplicaRow] /\ seen' \in [Replicas -> SUBSET Nat]
      /\ replica'[r] = f /\ seen'[r] = seen[r] \union e
      /\ \A x \in Replicas : x # r => replica'[x] = replica[x] /\ seen'[x] = seen[x]
  BY Zenon, <1>1, <1>2, WriteRow
<1>7. TypeOK'  BY <1>1, <1>5, <1>6, Rows DEF TypeOK
<1>8. JournalHead' = JournalHead  BY <1>1 DEF JournalHead
<1>9. base >= replica[r].applied  BY <1>1, <1>2, <1>3, UpsertForward
<1>10. /\ RowInv(r) /\ JournalHead \in Nat /\ auth.commit <= JournalHead
       /\ transport[r] \in TransportRow /\ line[r] \in ApplyRow
       /\ replica[r] \in ReplicaRow /\ auth \in AuthorityRow
  BY Rows
<1>11. transport[r].term = 0 /\ line[r].status = "NONE" /\ line[r].term = 0
  BY <1>1, <1>10 DEF RowInv, RowTied
<1>12. RowInv(r)'
  <2>1. (1..replica[r].applied \subseteq seen[r])'  BY <1>3, <1>6
  <2>2. base <= JournalHead  BY <1>1, <1>10 DEF AuthorityRow
  <2>3. RowChain(r)'
    BY <1>1, <1>3, <1>6, <1>8, <1>9, <1>10, <2>2 DEF RowInv, RowChain, TransportRow, ReplicaRow
  <2>4. RowLines(r)'  BY <1>1, <1>4, <1>5, <1>11 DEF RowLines
  <2>5. RowTied(r)'
    BY <1>1, <1>3, <1>4, <1>5, <1>6, <1>8, <1>10, <1>11, <2>2 DEF RowInv, RowTied
  <2> QED  BY <2>1, <2>3, <2>4, <2>5 DEF RowInv
<1> QED  BY <1>1, <1>5, <1>6, <1>7, <1>12, ReplicaStep

\* What a valid batch tells: it starts at most one past what was applied, and
\* its last event is in the journal and within the exported head.
LEMMA BatchBounds ==
  ASSUME IInv, NEW r \in Replicas, NEW leader \in Nodes, NEW term \in Nat, NEW exported \in Nat,
         NEW ids \in SUBSET (1..JournalHead), exported <= JournalHead,
         InstalledLine(r, leader, term), BatchValid(r, leader, term, exported, ids)
  PROVE  /\ Through(ids) \in Nat /\ Through(ids) <= EffectiveExported(r, term, exported)
         /\ EffectiveExported(r, term, exported) \in Nat
         /\ EffectiveExported(r, term, exported) <= JournalHead
         /\ EffectiveExported(r, term, exported) >= exported
         /\ transport[r].term = term =>
              EffectiveExported(r, term, exported) >= transport[r].exported
         /\ replica[r].applied + 1 .. Through(ids) \subseteq ids
<1>1. /\ RowInv(r) /\ JournalHead \in Nat /\ install[r] \in InstallRow
      /\ replica[r] \in ReplicaRow /\ transport[r] \in TransportRow
  BY Rows
<1>2. ids \in SUBSET Nat  BY <1>1
<1>3. First(ids) \in ids /\ Through(ids) \in ids /\ ids = First(ids)..Through(ids)
  BY <1>2, ContiguousBounds DEF BatchValid
<1>4. First(ids) \in Nat /\ Through(ids) \in Nat  BY Zenon, <1>2, <1>3
<1>5. /\ EffectiveExported(r, term, exported) \in Nat
      /\ EffectiveExported(r, term, exported) <= JournalHead
      /\ EffectiveExported(r, term, exported) >= exported
      /\ transport[r].term = term =>
           EffectiveExported(r, term, exported) >= transport[r].exported
  <2>1. transport[r].exported \in Nat /\ transport[r].exported <= JournalHead
    BY <1>1 DEF TransportRow, RowInv, RowChain
  <2> QED  BY <2>1, <1>1 DEF EffectiveExported, MaxInt64
<1>6. BaselineApplied(r) = replica[r].applied
  <2>1. install[r].base <= replica[r].applied  BY <1>1 DEF InstalledLine, RowInv, RowTied
  <2>2. install[r].base \in Nat /\ replica[r].applied \in Nat  BY <1>1 DEF InstallRow, ReplicaRow
  <2> QED  BY <2>1, <2>2 DEF BaselineApplied, MaxInt64
<1>7. First(ids) <= replica[r].applied + 1  BY <1>6 DEF BatchValid
<1>8. replica[r].applied + 1 .. Through(ids) \subseteq First(ids)..Through(ids)
  <2>1. replica[r].applied \in Nat  BY <1>1 DEF ReplicaRow
  <2> QED  BY <2>1, <1>4, <1>7
<1> QED  BY <1>3, <1>4, <1>5, <1>8 DEF BatchValid

\* The batch: transport, follower and apply line move together.
LEMMA ApplyStep ==
  ASSUME IInv, NEW r \in Replicas, NEW leader \in Nodes, NEW term \in Nat, NEW exported \in Nat,
         NEW ids \in SUBSET (1..JournalHead), NEW at \in Nat,
         ApplyBatch(r, leader, term, exported, ids, at)
  PROVE  IInv'
<1> DEFINE x == EffectiveExported(r, term, exported)
           last == Through(ids)
           t == NextTransport(r, leader, term, exported, ids)
           f == NextReplica(r, leader, term, exported, ids)
           c == ClearedLine(r, leader, term, t.exported, f.applied)
<1>1. /\ InstalledLine(r, leader, term) /\ exported <= JournalHead
      /\ BatchValid(r, leader, term, exported, ids)
      /\ TransportAdmitted(r, t) /\ UpsertAdmitted(r, f) /\ LineAdmitted(r, c)
      /\ transport' = [transport EXCEPT ![r] = t]
      /\ replica' = [replica EXCEPT ![r] = f]
      /\ line' = [line EXCEPT ![r] = c]
      /\ seen' = [seen EXCEPT ![r] = seen[r] \union ids]
      /\ UNCHANGED <<now, auth, journal, install>>
  BY DEF ApplyBatch
<1>2. /\ last \in Nat /\ last <= x /\ x \in Nat /\ x <= JournalHead /\ x >= exported
      /\ replica[r].applied + 1 .. last \subseteq ids
  BY <1>1, BatchBounds
<1>3. /\ RowInv(r) /\ JournalHead \in Nat /\ install[r] \in InstallRow
      /\ replica[r] \in ReplicaRow /\ transport[r] \in TransportRow /\ line[r] \in ApplyRow
      /\ seen[r] \in SUBSET Nat
  BY Rows
<1>4. /\ install[r].status = "INSTALLED" /\ install[r].leader = leader /\ install[r].term = term
      /\ term = auth.term
  BY <1>1 DEF InstalledLine, CurrentLine
<1>5. /\ t.leader = leader /\ t.term = term /\ t.exported = x
      /\ t.fetched = IF transport[r].term = term THEN MaxInt64(transport[r].fetched, last) ELSE last
      /\ t.acked = IF transport[r].term = term THEN MaxInt64(transport[r].acked, last) ELSE last
      /\ t = [leader |-> leader, term |-> term, exported |-> x, fetched |-> t.fetched, acked |-> t.acked]
  BY DEF NextTransport
<1>6. /\ f.role = "FOLLOWER" /\ f.leader = leader /\ f.term = term
      /\ f.commit = MaxInt64(replica[r].commit, x) /\ f.applied = MaxInt64(replica[r].applied, last)
      /\ f = [role |-> "FOLLOWER", leader |-> leader, term |-> term,
              commit |-> f.commit, applied |-> f.applied]
  BY DEF NextReplica
<1>7. /\ t.fetched \in Nat /\ t.acked \in Nat /\ t.acked <= t.fetched /\ t.fetched <= x
  <2>1. transport[r].fetched \in Nat /\ transport[r].acked \in Nat  BY <1>3 DEF TransportRow
  <2>2. t.fetched \in Nat /\ t.acked \in Nat  BY <1>2, <1>5, <2>1, MaxInt64Nat
  <2> QED  BY <2>2, <1>1, <1>5 DEF TransportAdmitted
<1>8. t.acked <= f.applied
  <2>1. transport[r].acked <= replica[r].applied  BY <1>3 DEF RowInv, RowChain
  <2>2. transport[r].acked \in Nat /\ replica[r].applied \in Nat  BY <1>3 DEF TransportRow, ReplicaRow
  <2> QED  BY <2>1, <2>2, <1>2, <1>5, <1>6, MaxInt64Nat DEF MaxInt64
<1>9. /\ f.applied \in Nat /\ f.commit \in Nat /\ f.applied <= f.commit /\ f.commit <= JournalHead
      /\ f.applied >= replica[r].applied /\ f.applied <= JournalHead
  <2>1. replica[r].applied \in Nat /\ replica[r].commit \in Nat  BY <1>3 DEF ReplicaRow
  <2>2. replica[r].applied <= replica[r].commit /\ replica[r].commit <= JournalHead
    BY <1>3 DEF RowInv, RowChain
  <2> QED  BY <2>1, <2>2, <1>2, <1>3, <1>6 DEF MaxInt64
<1>10. /\ c.status = "IDLE" /\ c.leader = leader /\ c.term = term
       /\ c.exported = MaxInt64(line[r].exported, x) /\ c.attempted = MaxInt64(line[r].attempted, f.applied)
       /\ c = [status |-> "IDLE", leader |-> leader, term |-> term, exported |-> c.exported,
               attempted |-> c.attempted, failures |-> 0, retryAt |-> 0]
  BY <1>5 DEF ClearedLine
<1>11. /\ c.exported \in Nat /\ c.attempted \in Nat
       /\ c.attempted <= c.exported /\ c.exported <= JournalHead
  <2>1. /\ line[r].exported \in Nat /\ line[r].attempted \in Nat /\ line[r].exported <= JournalHead
    BY <1>3 DEF ApplyRow, RowInv, RowChain
  <2>2. c.attempted <= c.exported  BY <1>1 DEF LineAdmitted
  <2> QED  BY <2>1, <2>2, <1>2, <1>3, <1>9, <1>10 DEF MaxInt64
<1>12. t \in TransportRow  BY <1>2, <1>5, <1>7 DEF TransportRow
<1>13. f \in ReplicaRow  BY <1>6, <1>9 DEF ReplicaRow
<1>14. c \in ApplyRow  BY <1>10, <1>11 DEF ApplyRow, ApplyStatuses
<1> HIDE DEF t, f, c, x, last
<1>15. ids \in SUBSET Nat  BY <1>3
<1>16. /\ replica' \in [Replicas -> ReplicaRow] /\ seen' \in [Replicas -> SUBSET Nat]
       /\ replica'[r] = f /\ seen'[r] = seen[r] \union ids
       /\ \A y \in Replicas : y # r => replica'[y] = replica[y] /\ seen'[y] = seen[y]
  BY Zenon, <1>1, <1>13, <1>15, WriteRow
<1>17. /\ transport' \in [Replicas -> TransportRow] /\ transport'[r] = t
       /\ \A y \in Replicas : y # r => transport'[y] = transport[y]
  BY <1>1, <1>12 DEF IInv, TypeOK
<1>18. /\ line' \in [Replicas -> ApplyRow] /\ line'[r] = c
       /\ \A y \in Replicas : y # r => line'[y] = line[y]
  BY <1>1, <1>14 DEF IInv, TypeOK
<1>19. TypeOK'  BY <1>1, <1>16, <1>17, <1>18, Rows DEF TypeOK
<1>20. JournalHead' = JournalHead  BY <1>1 DEF JournalHead
<1>21. RowInv(r)'
  <2>1. (1..replica[r].applied \subseteq seen[r])'
    <3>1. 1..replica[r].applied \subseteq seen[r]  BY <1>3 DEF RowInv
    <3>2. replica[r].applied \in Nat  BY <1>3 DEF ReplicaRow
    <3>3. f.applied = replica[r].applied \/ f.applied = last  BY <3>2, <1>2, <1>6, MaxInt64Nat
    <3>4. 1..f.applied \subseteq seen[r] \union ids  BY <3>1, <3>2, <3>3, <1>2
    <3> QED  BY <3>4, <1>16
  <2>2. RowChain(r)'
    BY <1>2, <1>5, <1>7, <1>8, <1>9, <1>11, <1>16, <1>17, <1>18, <1>20 DEF RowChain
  <2>3. RowLines(r)'
    BY <1>1, <1>3, <1>4, <1>5, <1>10, <1>17, <1>18 DEF RowLines, InstallRow
  <2>4. RowTied(r)'
    <3>1. /\ install[r].base <= JournalHead /\ install[r].base <= replica[r].applied
          /\ install[r].base \in Nat /\ replica[r].applied \in Nat
      BY <1>3, <1>4 DEF RowInv, RowTied, InstallRow, ReplicaRow
    <3> QED  BY <3>1, <1>1, <1>4, <1>5, <1>6, <1>9, <1>10, <1>16, <1>17, <1>18, <1>20 DEF RowTied
  <2> QED  BY <2>1, <2>2, <2>3, <2>4 DEF RowInv
<1> QED  BY <1>1, <1>16, <1>17, <1>18, <1>19, <1>21, ReplicaStep

\* A failure report only writes the apply line.
LEMMA FailureStep ==
  ASSUME IInv, NEW r \in Replicas, NEW leader \in Nodes, NEW term \in Nat, NEW exported \in Nat,
         NEW attempted \in Nat, NEW at \in Nat, NEW retryable \in BOOLEAN,
         RecordFailure(r, leader, term, exported, attempted, at, retryable)
  PROVE  IInv'
<1> DEFINE c == FailedLine(r, leader, term, exported, attempted, at, retryable)
           same == line[r].status # "NONE" /\ line[r].term = term
<1>1. /\ InstalledLine(r, leader, term) /\ exported <= JournalHead /\ LineAdmitted(r, c)
      /\ line' = [line EXCEPT ![r] = c]
      /\ UNCHANGED <<now, auth, journal, install, replica, transport, seen>>
  BY DEF RecordFailure
<1>2. /\ RowInv(r) /\ JournalHead \in Nat /\ install[r] \in InstallRow /\ line[r] \in ApplyRow
  BY Rows
<1>3. /\ line[r].exported \in Nat /\ line[r].attempted \in Nat /\ line[r].failures \in Nat
      /\ line[r].exported <= JournalHead
  BY <1>2 DEF ApplyRow, RowInv, RowChain
<1>4. /\ install[r].status = "INSTALLED" /\ install[r].leader = leader /\ install[r].term = term
  BY <1>1 DEF InstalledLine
<1>5. /\ c.leader = leader /\ c.term = term
      /\ c.exported = IF same THEN MaxInt64(line[r].exported, exported) ELSE exported
      /\ c.attempted = IF same THEN MaxInt64(line[r].attempted, attempted) ELSE attempted
      /\ c.failures = FailureCount(r, term)
      /\ c.retryAt \in {0, RetryAt(at, FailureCount(r, term))}
      /\ c.status \in {"DEAD_LETTER", "RETRY_PENDING"}
      /\ c = [status |-> c.status, leader |-> leader, term |-> term, exported |-> c.exported,
              attempted |-> c.attempted, failures |-> c.failures, retryAt |-> c.retryAt]
  BY DEF FailedLine
<1>6. c.exported \in Nat /\ c.attempted \in Nat /\ c.exported <= JournalHead
  BY <1>1, <1>2, <1>3, <1>5 DEF MaxInt64
<1>7. c.attempted <= c.exported  BY <1>1 DEF LineAdmitted
<1>8. FailureCount(r, term) \in Nat  BY <1>3 DEF FailureCount
<1>9. RetryAt(at, FailureCount(r, term)) \in Nat
  BY <1>8, ReplicaAssumption DEF RetryAt
<1>10. c \in ApplyRow  BY <1>5, <1>6, <1>8, <1>9 DEF ApplyRow, ApplyStatuses
<1> HIDE DEF c
<1>11. /\ line' \in [Replicas -> ApplyRow] /\ line'[r] = c
       /\ \A y \in Replicas : y # r => line'[y] = line[y]
  BY <1>1, <1>10 DEF IInv, TypeOK
<1>12. TypeOK'  BY <1>1, <1>11, Rows DEF TypeOK
<1>13. JournalHead' = JournalHead  BY <1>1 DEF JournalHead
<1>14. RowInv(r)'
  <2>1. (1..replica[r].applied \subseteq seen[r])'  BY <1>1, <1>2 DEF RowInv
  <2>2. RowChain(r)'  BY <1>1, <1>2, <1>6, <1>7, <1>11, <1>13 DEF RowInv, RowChain
  <2>3. RowLines(r)'
    BY <1>1, <1>2, <1>4, <1>5, <1>11 DEF RowInv, RowLines, InstallRow
  <2>4. RowTied(r)'
    <3>1. c.status # "NONE"  BY <1>5
    <3> QED  BY <3>1, <1>1, <1>2, <1>4, <1>11, <1>13 DEF RowInv, RowTied
  <2> QED  BY <2>1, <2>2, <2>3, <2>4 DEF RowInv
<1> QED  BY <1>1, <1>11, <1>12, <1>14, ReplicaStep

\* What the bound variables of Next range over.
LEMMA Ranges ==
  ASSUME IInv
  PROVE  /\ 0..auth.term \subseteq Nat /\ 0..JournalHead+1 \subseteq Nat /\ 0..now \subseteq Nat
<1>1. TypeOK /\ JournalHead \in Nat  BY HeadNat DEF IInv
<1>2. auth.term \in Nat /\ now \in Nat  BY <1>1 DEF TypeOK, AuthorityRow
<1> QED  BY <1>1, <1>2

\* The operations of one replica, as Next offers them.
ReplicaNext(r, leader, term) ==
  \/ UpsertMembership(r, leader, term)
  \/ \E base \in 0..JournalHead+1 :
       BeginInstall(r, leader, term, base) \/ CompleteInstall(r, leader, term, base)
  \/ \E exported \in 0..JournalHead+1, at \in 0..now :
       \/ \E ids \in SUBSET (1..JournalHead) : ApplyBatch(r, leader, term, exported, ids, at)
       \/ \E attempted \in 0..JournalHead+1, retryable \in BOOLEAN :
            RecordFailure(r, leader, term, exported, attempted, at, retryable)

\* Every step keeps the invariant.
LEMMA StepIInv == IInv /\ [Next]_vars => IInv'
<1> SUFFICES ASSUME IInv, [Next]_vars PROVE IInv'  OBVIOUS
<1>1. CASE UNCHANGED vars
  BY <1>1 DEF vars, IInv, TypeOK, RowInv, RowChain, RowLines, RowTied, JournalHead
<1>2. CASE \/ Tick \/ ExpireAuthority
           \/ \E backed \in BOOLEAN : RecordRuntimeEvent(backed)
           \/ \E commit \in 0..JournalHead : RenewAuthority(commit)
           \/ \E n \in Nodes, commit \in 0..JournalHead : GrantAuthority(n, commit)
  BY <1>2, SpineStep
<1>3. ASSUME NEW r \in Replicas, UpsertHolder(r) PROVE IInv'  BY <1>3, UpsertStep
<1>4. ASSUME NEW r \in Replicas, NEW leader \in Nodes, NEW term \in 0..auth.term,
             ReplicaNext(r, leader, term)
      PROVE  IInv'
  <2>0. term \in Nat /\ 0..JournalHead+1 \subseteq Nat /\ 0..now \subseteq Nat  BY Ranges
  <2>1. CASE UpsertMembership(r, leader, term)  BY <2>1, UpsertStep
  <2>2. ASSUME NEW base \in 0..JournalHead+1, BeginInstall(r, leader, term, base) PROVE IInv'
    BY <2>0, <2>2, BeginStep
  <2>3. ASSUME NEW base \in 0..JournalHead+1, CompleteInstall(r, leader, term, base) PROVE IInv'
    BY <2>0, <2>3, CompleteStep
  <2>4. ASSUME NEW exported \in 0..JournalHead+1, NEW at \in 0..now,
               NEW ids \in SUBSET (1..JournalHead), ApplyBatch(r, leader, term, exported, ids, at)
        PROVE  IInv'
    BY <2>0, <2>4, ApplyStep
  <2>5. ASSUME NEW exported \in 0..JournalHead+1, NEW at \in 0..now,
               NEW attempted \in 0..JournalHead+1, NEW retryable \in BOOLEAN,
               RecordFailure(r, leader, term, exported, attempted, at, retryable)
        PROVE  IInv'
    BY <2>0, <2>5, FailureStep
  <2> QED  BY <1>4, <2>1, <2>2, <2>3, <2>4, <2>5 DEF ReplicaNext
<1> QED  BY <1>1, <1>2, <1>3, <1>4 DEF Next, ReplicaNext

\* The inductive invariant holds of every behaviour.
LEMMA AlwaysIInv == Spec => []IInv
<1>1. Init => IInv  BY InitIInv
<1>2. IInv /\ [Next]_vars => IInv'  BY StepIInv
<1> QED  BY <1>1, <1>2, PTL DEF Spec

-----------------------------------------------------------------------------
(* The invariants.                                                         *)

\* The rows keep their types, for any number of nodes, terms and events.
THEOREM ReplicaTypeCorrect == Spec => []TypeOK
<1>1. IInv => TypeOK  BY DEF IInv
<1> QED  BY <1>1, AlwaysIInv, PTL

\* A follower's applied watermark never covers an event it was not given.
THEOREM NoGapAppliedAlways == Spec => []NoGapApplied
<1>1. IInv => NoGapApplied  BY DEF IInv, RowInv, NoGapApplied
<1> QED  BY <1>1, AlwaysIInv, PTL

\* The watermarks of transport, follower and apply line stay ordered.
THEOREM WatermarksChained == Spec => []WatermarkChain
<1>1. IInv => WatermarkChain  BY DEF IInv, RowInv, RowChain, WatermarkChain
<1> QED  BY <1>1, AlwaysIInv, PTL

\* Transport and apply line stay behind the install, and the install behind
\* the authority.
THEOREM LinesBehindInstall == Spec => []LinesFollowInstall
<1>1. IInv => LinesFollowInstall  BY DEF IInv, RowInv, RowLines, LinesFollowInstall
<1> QED  BY <1>1, AlwaysIInv, PTL

\* A follower without lag was given the whole journal.
THEOREM FreshMeansCurrentAlways == Spec => []FreshMeansCurrent
<1>1. ASSUME IInv PROVE FreshMeansCurrent
  <2> SUFFICES ASSUME NEW r \in Replicas, ExportLag(r) = 0, ApplyLag(r) = 0
               PROVE  1..JournalHead \subseteq seen[r]
    BY DEF FreshMeansCurrent
  <2>1. /\ RowInv(r) /\ JournalHead \in Nat /\ replica[r] \in ReplicaRow
        /\ transport[r] \in TransportRow /\ line[r] \in ApplyRow
    BY <1>1, Rows
  <2>2. ExportedHead(r) \in Nat /\ replica[r].applied \in Nat
    BY <2>1 DEF ExportedHead, TransportRow, ApplyRow, ReplicaRow
  <2>3. JournalHead <= ExportedHead(r)  BY <2>1, <2>2 DEF ExportLag, NonNegativeLag
  <2>4. ExportedHead(r) <= replica[r].applied  BY <2>2 DEF ApplyLag, NonNegativeLag
  <2>5. 1..replica[r].applied \subseteq seen[r]  BY <2>1 DEF RowInv
  <2> QED  BY <2>1, <2>2, <2>3, <2>4, <2>5
<1> QED  BY <1>1, AlwaysIInv, PTL

-----------------------------------------------------------------------------
(* The action properties.                                                  *)

\* An operation of one replica leaves the others' rows alone.
LEMMA OthersUntouched ==
  ASSUME IInv, NEW r \in Replicas, NEW leader \in Nodes, NEW term \in 0..auth.term,
         ReplicaNext(r, leader, term) \/ UpsertHolder(r),
         NEW y \in Replicas, y # r
  PROVE  replica'[y] = replica[y] /\ transport'[y] = transport[y]
<1>1. /\ replica \in [Replicas -> ReplicaRow] /\ transport \in [Replicas -> TransportRow]
  BY DEF IInv, TypeOK
<1>2. \/ replica' = replica
      \/ \E f : replica' = [replica EXCEPT ![r] = f]
  BY Zenon DEF ReplicaNext, UpsertHolder, UpsertMembership, BeginInstall, CompleteInstall,
         ApplyBatch, RecordFailure
<1>3. \/ transport' = transport
      \/ \E f : transport' = [transport EXCEPT ![r] = f]
  BY Zenon DEF ReplicaNext, UpsertHolder, UpsertMembership, BeginInstall, CompleteInstall,
         ApplyBatch, RecordFailure
<1>4. replica'[y] = replica[y]  BY <1>1, <1>2
<1>5. transport'[y] = transport[y]  BY <1>1, <1>3
<1> QED  BY <1>4, <1>5

\* A step of Next belongs to the authority and the journal, or to one replica.
LEMMA StepKinds ==
  ASSUME IInv, [Next]_vars
  PROVE  \/ replica' = replica /\ transport' = transport
         \/ \E r \in Replicas : UpsertHolder(r)
         \/ \E r \in Replicas, leader \in Nodes, term \in 0..auth.term :
              ReplicaNext(r, leader, term)
BY Zenon DEF Next, ReplicaNext, vars, Tick, ExpireAuthority, RecordRuntimeEvent, RenewAuthority, GrantAuthority

\* A follower's applied watermark moves, outside an install, in a batch only.
LEMMA OnlyBatchesApply ==
  ASSUME IInv, [Next]_vars, NEW r \in Replicas,
         install'[r] = install[r], replica'[r].role = "FOLLOWER",
         replica'[r].applied # replica[r].applied
  PROVE  \E leader \in Nodes, term \in Nat, exported \in Nat, at \in Nat,
            ids \in SUBSET (1..JournalHead) :
              ApplyBatch(r, leader, term, exported, ids, at)
<1>0. /\ TypeOK /\ replica[r] \in ReplicaRow /\ install[r] \in InstallRow  BY Rows
<1>1. CASE replica' = replica  BY <1>1
<1>2. ASSUME NEW x \in Replicas, UpsertHolder(x) PROVE FALSE
  <2>1. x = r
    <3>1. CASE x # r
      <4>1. replica \in [Replicas -> ReplicaRow]  BY <1>0 DEF TypeOK
      <4> QED  BY <1>2, <3>1, <4>1 DEF UpsertHolder
    <3> QED  BY <3>1
  <2> DEFINE f == [role |-> "HOLDER", leader |-> r, term |-> auth.term,
                   commit |-> auth.commit, applied |-> auth.commit]
  <2>2. replica' = [replica EXCEPT ![r] = f]  BY <1>2, <2>1 DEF UpsertHolder
  <2>3. f.role = "HOLDER"  OBVIOUS
  <2> HIDE DEF f
  <2>4. replica'[r] = f  BY <2>2, <1>0 DEF TypeOK
  <2> QED  BY <2>3, <2>4
<1>3. ASSUME NEW x \in Replicas, NEW leader \in Nodes, NEW term \in 0..auth.term,
             ReplicaNext(x, leader, term)
      PROVE  \E exported \in Nat, at \in Nat, ids \in SUBSET (1..JournalHead) :
               ApplyBatch(r, leader, term, exported, ids, at)
  <2>1. x = r  BY <1>3, OthersUntouched
  <2>2. ~UpsertMembership(r, leader, term)
    <3> SUFFICES ASSUME UpsertMembership(r, leader, term) PROVE FALSE  OBVIOUS
    <3> DEFINE f == [role |-> "FOLLOWER", leader |-> leader, term |-> term,
                     commit |-> replica[r].commit, applied |-> replica[r].applied]
    <3>1. replica' = [replica EXCEPT ![r] = f] /\ f.applied = replica[r].applied
      BY DEF UpsertMembership
    <3> HIDE DEF f
    <3>2. replica'[r] = f  BY <3>1, <1>0 DEF TypeOK
    <3> QED  BY <3>1, <3>2
  <2>3. ASSUME NEW base \in 0..JournalHead+1, BeginInstall(r, leader, term, base) PROVE FALSE
    BY <2>3 DEF BeginInstall
  <2>4. ASSUME NEW base \in 0..JournalHead+1, CompleteInstall(r, leader, term, base) PROVE FALSE
    <3> DEFINE i == [install[r] EXCEPT !.status = "INSTALLED"]
    <3>1. install[r] = [status |-> "PENDING", leader |-> leader, term |-> term, base |-> base]
      BY <2>4 DEF CompleteInstall
    <3>2. install' = [install EXCEPT ![r] = i]  BY <2>4 DEF CompleteInstall
    <3>3. i.status = "INSTALLED"  BY <3>1
    <3>4. install[r].status = "PENDING"  BY <3>1
    <3> HIDE DEF i
    <3>5. install'[r] = i  BY <3>2, <1>0 DEF TypeOK
    <3> QED  BY <3>3, <3>4, <3>5
  <2>5. ASSUME NEW exported \in 0..JournalHead+1, NEW at \in 0..now,
               NEW attempted \in 0..JournalHead+1, NEW retryable \in BOOLEAN,
               RecordFailure(r, leader, term, exported, attempted, at, retryable)
        PROVE  FALSE
    BY <2>5 DEF RecordFailure
  <2>6. PICK exported \in 0..JournalHead+1, at \in 0..now, ids \in SUBSET (1..JournalHead) :
          ApplyBatch(r, leader, term, exported, ids, at)
    BY <1>3, <2>1, <2>2, <2>3, <2>4, <2>5 DEF ReplicaNext
  <2> QED  BY <2>6, Ranges
<1> QED  BY <1>1, <1>2, <1>3, StepKinds, Ranges

\* What a batch does to the rows of its follower.
LEMMA BatchEffect ==
  ASSUME IInv, NEW r \in Replicas, NEW leader \in Nodes, NEW term \in Nat, NEW exported \in Nat,
         NEW at \in Nat, NEW ids \in SUBSET (1..JournalHead),
         ApplyBatch(r, leader, term, exported, ids, at)
  PROVE  /\ replica'[r].applied = MaxInt64(replica[r].applied, Through(ids))
         /\ replica[r].applied + 1 .. Through(ids) \subseteq ids
         /\ Through(ids) \in Nat
<1> DEFINE f == NextReplica(r, leader, term, exported, ids)
<1>1. replica' = [replica EXCEPT ![r] = f]  BY DEF ApplyBatch
<1>2. f.applied = MaxInt64(replica[r].applied, Through(ids))  BY DEF NextReplica
<1> HIDE DEF f
<1>3. replica'[r] = f  BY <1>1 DEF IInv, TypeOK
<1>4. /\ replica[r].applied + 1 .. Through(ids) \subseteq ids /\ Through(ids) \in Nat
  <2>1. /\ InstalledLine(r, leader, term) /\ exported <= JournalHead
        /\ BatchValid(r, leader, term, exported, ids)
    BY DEF ApplyBatch
  <2> QED  BY <2>1, BatchBounds
<1> QED  BY <1>2, <1>3, <1>4

\* Batches bring only events of the line that holds the authority.
THEOREM AppliesFromCurrentLine == Spec => AppliedFromCurrentLine
<1> DEFINE Moved(r) ==
      /\ replica'[r].applied > replica[r].applied
      /\ install'[r] = install[r] /\ replica'[r].role = "FOLLOWER"
      => /\ auth.status = "ACTIVE"
         /\ \A i \in BaselineApplied(r)+1 .. replica'[r].applied :
              journal[i] = [leader |-> auth.leader, term |-> auth.term]
<1>1. ASSUME IInv, [Next]_vars, NEW r \in Replicas PROVE Moved(r)
  <2> SUFFICES ASSUME replica'[r].applied > replica[r].applied,
                      install'[r] = install[r], replica'[r].role = "FOLLOWER"
               PROVE  /\ auth.status = "ACTIVE"
                      /\ \A i \in BaselineApplied(r)+1 .. replica'[r].applied :
                           journal[i] = [leader |-> auth.leader, term |-> auth.term]
    OBVIOUS
  <2>0. /\ replica[r].applied \in Nat /\ install[r].base \in Nat
        /\ RowTied(r)
    BY <1>1, Rows DEF ReplicaRow, InstallRow, RowInv
  <2>1. replica'[r].applied # replica[r].applied
    <3>1. TypeOK'  BY <1>1, StepIInv DEF IInv
    <3>2. replica'[r].applied \in Nat  BY <3>1 DEF TypeOK, ReplicaRow
    <3> QED  BY <3>2, <2>0
  <2>2. PICK leader \in Nodes, term \in Nat, exported \in Nat, at \in Nat,
             ids \in SUBSET (1..JournalHead) :
               ApplyBatch(r, leader, term, exported, ids, at)
    BY <1>1, <2>1, OnlyBatchesApply
  <2>3. /\ InstalledLine(r, leader, term) /\ BatchValid(r, leader, term, exported, ids)
    BY <2>2 DEF ApplyBatch
  <2>4. auth.status = "ACTIVE" /\ auth.leader = leader /\ auth.term = term
    BY <2>3 DEF InstalledLine, CurrentLine
  <2>5. BaselineApplied(r) = replica[r].applied
    <3>1. install[r].base <= replica[r].applied  BY <2>0, <2>3 DEF InstalledLine, RowTied
    <3> QED  BY <3>1, <2>0 DEF BaselineApplied, MaxInt64
  <2>6. /\ replica'[r].applied = MaxInt64(replica[r].applied, Through(ids))
        /\ replica[r].applied + 1 .. Through(ids) \subseteq ids /\ Through(ids) \in Nat
    BY <1>1, <2>2, BatchEffect
  <2>7. replica'[r].applied = Through(ids)  BY Zenon, <2>0, <2>1, <2>6, MaxInt64Nat
  <2>8. \A i \in ids : journal[i] = [leader |-> leader, term |-> term]  BY <2>3 DEF BatchValid
  <2> QED  BY <2>4, <2>5, <2>6, <2>7, <2>8
<1>2. IInv /\ [Next]_vars => [\A r \in Replicas : Moved(r)]_vars  BY <1>1
<1> QED  BY <1>2, AlwaysIInv, PTL DEF Spec, AppliedFromCurrentLine

\* A batch gate that is closed by a dead letter lets nothing through.
THEOREM DeadLinesApplyNothing == Spec => DeadLineAppliesNothing
<1> DEFINE Dead(r) ==
      /\ line[r].status = "DEAD_LETTER" /\ line[r].term = install[r].term
      /\ install'[r] = install[r] /\ replica'[r].role = "FOLLOWER"
      => replica'[r].applied = replica[r].applied
<1>1. ASSUME IInv, [Next]_vars, NEW r \in Replicas PROVE Dead(r)
  <2> SUFFICES ASSUME line[r].status = "DEAD_LETTER", line[r].term = install[r].term,
                      install'[r] = install[r], replica'[r].role = "FOLLOWER",
                      replica'[r].applied # replica[r].applied
               PROVE  FALSE
    OBVIOUS
  <2>1. PICK leader \in Nodes, term \in Nat, exported \in Nat, at \in Nat,
             ids \in SUBSET (1..JournalHead) :
               ApplyBatch(r, leader, term, exported, ids, at)
    BY <1>1, OnlyBatchesApply
  <2>2. InstalledLine(r, leader, term) /\ GateOpen(r, leader, term, at)  BY <2>1 DEF ApplyBatch
  <2>3. install[r].term = term  BY <2>2 DEF InstalledLine
  <2> QED  BY <2>2, <2>3 DEF GateOpen
<1>2. IInv /\ [Next]_vars => [\A r \in Replicas : Dead(r)]_vars  BY <1>1
<1> QED  BY <1>2, AlwaysIInv, PTL DEF Spec, DeadLineAppliesNothing

\* Progress is kept by the step of the replica that takes it.
LEMMA OwnProgress ==
  ASSUME IInv, NEW r \in Replicas, NEW f \in ReplicaRow,
         UpsertAdmitted(r, f), replica' = [replica EXCEPT ![r] = f]
  PROVE  replica'[r].applied >= replica[r].applied /\ replica'[r].commit >= replica[r].commit
<1>1. replica'[r] = f  BY DEF IInv, TypeOK
<1> QED  BY <1>1, UpsertForward

\* No step takes back what a follower applied, committed, fetched or
\* acknowledged.
THEOREM ProgressIsKept == Spec => ProgressKept
<1> DEFINE Kept(r) ==
      /\ replica'[r].applied >= replica[r].applied
      /\ replica'[r].commit >= replica[r].commit
      /\ transport'[r].term = transport[r].term =>
           /\ transport'[r].exported >= transport[r].exported
           /\ transport'[r].fetched >= transport[r].fetched
           /\ transport'[r].acked >= transport[r].acked
<1>1. ASSUME IInv, [Next]_vars, NEW r \in Replicas PROVE Kept(r)
  <2>0. replica[r] \in ReplicaRow /\ transport[r] \in TransportRow /\ auth \in AuthorityRow
    BY <1>1, Rows
  <2>a. ASSUME replica'[r] = replica[r]
        PROVE  replica'[r].applied >= replica[r].applied /\ replica'[r].commit >= replica[r].commit
    BY <2>0, <2>a DEF ReplicaRow
  <2>b. ASSUME transport'[r] = transport[r]
        PROVE  /\ transport'[r].exported >= transport[r].exported
               /\ transport'[r].fetched >= transport[r].fetched
               /\ transport'[r].acked >= transport[r].acked
    BY <2>0, <2>b DEF TransportRow
  <2>1. CASE replica' = replica /\ transport' = transport  BY <2>1, <2>a, <2>b
  <2>2. ASSUME NEW x \in Replicas, UpsertHolder(x) PROVE Kept(r)
    <3> DEFINE f == [role |-> "HOLDER", leader |-> x, term |-> auth.term,
                     commit |-> auth.commit, applied |-> auth.commit]
    <3>1. /\ UpsertAdmitted(x, f) /\ replica' = [replica EXCEPT ![x] = f] /\ transport' = transport
      BY <2>2 DEF UpsertHolder
    <3>2. f \in ReplicaRow  BY <2>0, ReplicaAssumption DEF ReplicaRow, AuthorityRow
    <3> HIDE DEF f
    <3>3. CASE x # r
      <4>1. replica'[r] = replica[r]  BY <3>1, <3>3, <1>1 DEF IInv, TypeOK
      <4> QED  BY <4>1, <3>1, <2>a, <2>b
    <3>4. CASE x = r
      <4>1. replica'[r].applied >= replica[r].applied /\ replica'[r].commit >= replica[r].commit
        BY Zenon, <1>1, <3>1, <3>2, <3>4, OwnProgress
      <4> QED  BY <4>1, <3>1, <2>b
    <3> QED  BY <3>3, <3>4
  <2>3. ASSUME NEW x \in Replicas, NEW leader \in Nodes, NEW term \in 0..auth.term,
               ReplicaNext(x, leader, term), x # r
        PROVE  Kept(r)
    <3>1. replica'[r] = replica[r] /\ transport'[r] = transport[r]
      BY <1>1, <2>3, OthersUntouched
    <3> QED  BY <3>1, <2>a, <2>b
  <2>4. ASSUME NEW leader \in Nodes, NEW term \in 0..auth.term, ReplicaNext(r, leader, term)
        PROVE  Kept(r)
    <3>0. term \in Nat /\ 0..JournalHead+1 \subseteq Nat /\ 0..now \subseteq Nat  BY <1>1, Ranges
    <3>1. CASE UpsertMembership(r, leader, term)
      <4> DEFINE f == [role |-> "FOLLOWER", leader |-> leader, term |-> term,
                       commit |-> replica[r].commit, applied |-> replica[r].applied]
      <4>1. /\ replica' = [replica EXCEPT ![r] = f] /\ transport' = transport
            /\ f.applied = replica[r].applied /\ f.commit = replica[r].commit
        BY <3>1 DEF UpsertMembership
      <4> HIDE DEF f
      <4>2. replica'[r] = f  BY <4>1, <1>1 DEF IInv, TypeOK
      <4> QED  BY <4>1, <4>2, <2>0, <2>b DEF ReplicaRow
    <3>2. ASSUME NEW base \in 0..JournalHead+1, BeginInstall(r, leader, term, base) PROVE Kept(r)
      BY <3>2, <2>a, <2>b DEF BeginInstall
    <3>3. ASSUME NEW base \in 0..JournalHead+1, CompleteInstall(r, leader, term, base)
          PROVE  Kept(r)
      <4> DEFINE f == [role |-> "FOLLOWER", leader |-> leader, term |-> term,
                       commit |-> base, applied |-> base]
      <4>1. UpsertAdmitted(r, f) /\ replica' = [replica EXCEPT ![r] = f] /\ transport' = transport
        BY <3>3 DEF CompleteInstall
      <4>2. f \in ReplicaRow  BY <3>0 DEF ReplicaRow
      <4> HIDE DEF f
      <4>3. replica'[r].applied >= replica[r].applied /\ replica'[r].commit >= replica[r].commit
        BY Zenon, <1>1, <4>1, <4>2, OwnProgress
      <4> QED  BY <4>1, <4>3, <2>b
    <3>4. ASSUME NEW exported \in 0..JournalHead+1, NEW at \in 0..now,
                 NEW ids \in SUBSET (1..JournalHead), ApplyBatch(r, leader, term, exported, ids, at)
          PROVE  Kept(r)
      <4> DEFINE t == NextTransport(r, leader, term, exported, ids)
                 f == NextReplica(r, leader, term, exported, ids)
      <4>1. /\ TransportAdmitted(r, t) /\ UpsertAdmitted(r, f)
            /\ transport' = [transport EXCEPT ![r] = t] /\ replica' = [replica EXCEPT ![r] = f]
        BY <3>4 DEF ApplyBatch
      <4>2. t.term = term /\ f.applied = MaxInt64(replica[r].applied, Through(ids))
            /\ f.commit = MaxInt64(replica[r].commit, EffectiveExported(r, term, exported))
        BY DEF NextTransport, NextReplica
      <4>3. Through(ids) \in Nat /\ EffectiveExported(r, term, exported) \in Nat
        <5>1. /\ InstalledLine(r, leader, term) /\ exported <= JournalHead
              /\ BatchValid(r, leader, term, exported, ids)
          BY <3>4 DEF ApplyBatch
        <5>2. exported \in Nat  BY <3>0
        <5> QED  BY <1>1, <3>0, <5>1, <5>2, BatchBounds
      <4> HIDE DEF t, f
      <4>4. transport'[r] = t /\ replica'[r] = f  BY <4>1, <1>1 DEF IInv, TypeOK
      <4>5. replica'[r].applied >= replica[r].applied /\ replica'[r].commit >= replica[r].commit
        <5>1. replica[r].applied \in Nat /\ replica[r].commit \in Nat  BY <2>0 DEF ReplicaRow
        <5> QED  BY <4>2, <4>3, <4>4, <5>1 DEF MaxInt64
      <4> QED  BY <4>1, <4>4, <4>5 DEF TransportAdmitted
    <3>5. ASSUME NEW exported \in 0..JournalHead+1, NEW at \in 0..now,
                 NEW attempted \in 0..JournalHead+1, NEW retryable \in BOOLEAN,
                 RecordFailure(r, leader, term, exported, attempted, at, retryable)
          PROVE  Kept(r)
      BY <3>5, <2>a, <2>b DEF RecordFailure
    <3> QED  BY <2>4, <3>1, <3>2, <3>3, <3>4, <3>5 DEF ReplicaNext
  <2> QED  BY <1>1, <2>1, <2>2, <2>3, <2>4, StepKinds
<1>2. IInv /\ [Next]_vars => [\A r \in Replicas : Kept(r)]_vars  BY <1>1
<1> QED  BY <1>2, AlwaysIInv, PTL DEF Spec, ProgressKept

=============================================================================
