------------------------- MODULE BudgetLedgerProofs -------------------------
(***************************************************************************)
(* For every number of calls, every limit and every cost: the books        *)
(* balance, the account stays within its limit, an answer is charged, and  *)
(* an open reservation that is left behind had a failure.                  *)
(***************************************************************************)
EXTENDS BudgetLedgerBooks

-----------------------------------------------------------------------------
(* The books *)

\* The steps of the calls and of the processes leave the server's rows alone.
LEMMA QuietStepKeepsBooks ==
  ASSUME BooksInv, UNCHANGED serverVars, call' \in [Calls -> Rows],
         cleaner' = cleaner \/ cleaner'.left = {},
         cleaner' \in [phase : {"IDLE", "LIST", "RELEASE"}, left : SUBSET Requests],
         net' \subseteq Requests, \A r \in net' : r \in net \/ r.kind # "STOP"
  PROVE  BooksInv'
<1>1. TypeOK'
  BY DEF BooksInv, TypeOK, serverVars
<1>2. Listed'
  BY DEF BooksInv, Listed, Unspent, serverVars
<1> QED
  BY <1>1, <1>2, ServerFrame DEF BooksInv

LEMMA CallStepsKeepBooks ==
  ASSUME BooksInv, NEW c \in Calls,
         \/ BeginCall(c)
         \/ \E returned \in BOOLEAN, cost \in Costs : ProviderEnds(c, returned, cost)
         \/ AttemptFails(c)
  PROVE  BooksInv'
<1>1. /\ TypeOK /\ net \subseteq Requests
      /\ cleaner \in [phase : {"IDLE", "LIST", "RELEASE"}, left : SUBSET Requests]
  BY DEF BooksInv, TypeOK
<1>2. UNCHANGED <<serverVars, cleaner>> /\ call' \in [Calls -> Rows]
  BY <1>1, CallBegun, ProviderEnded, AttemptFailed
<1>3. \E r \in Requests : (net' = net \/ net' = net \cup {r}) /\ r.kind # "STOP"
  <2>1. CASE BeginCall(c)
    BY <1>1, <2>1, CallBegun
  <2>2. CASE \E returned \in BOOLEAN, cost \in Costs : ProviderEnds(c, returned, cost)
    BY <1>1, <2>2, ProviderEnded
  <2>3. CASE AttemptFails(c)
    BY <1>1, <2>3, AttemptFailed DEF Waiting
  <2> QED
    BY <2>1, <2>2, <2>3
<1> QED
  BY <1>1, <1>2, <1>3, QuietStepKeepsBooks

LEMMA ProcessStepsKeepBooks ==
  ASSUME BooksInv, AgentDies \/ StopAgent \/ StartAgent \/ EndCleanup
  PROVE  BooksInv'
<1>1. /\ TypeOK /\ net' = net /\ net \subseteq Requests
      /\ cleaner \in [phase : {"IDLE", "LIST", "RELEASE"}, left : SUBSET Requests]
      /\ UNCHANGED serverVars
  BY DEF BooksInv, TypeOK, AgentDies, StopAgent, StartAgent, EndCleanup
<1>2. call' \in [Calls -> Rows]
  <2>1. call' = Killed \/ call' = call
    BY DEF AgentDies, StopAgent, StartAgent, EndCleanup
  <2> QED
    BY <1>1, <2>1, KilledCalls DEF TypeOK
<1>3. /\ cleaner' = cleaner \/ cleaner'.left = {}
      /\ cleaner' \in [phase : {"IDLE", "LIST", "RELEASE"}, left : SUBSET Requests]
  BY <1>1 DEF AgentDies, StopAgent, StartAgent, EndCleanup
<1> QED
  BY <1>1, <1>2, <1>3, QuietStepKeepsBooks

LEMMA ListingKeepsBooks ==
  ASSUME BooksInv, ListOpenReservations
  PROVE  BooksInv'
<1> USE DEF BooksInv, ListOpenReservations
<1>1. \A c \in Calls : reservation[c].status = "OPEN" =>
        Request("STOP", c, Unspent(c), 1) \in Requests
  BY DEF Request, Requests, Recorded, Unspent, TypeOK, Reservations
<1>2. \A r \in cleaner'.left : \E c \in Calls :
        /\ reservation[c].status = "OPEN" /\ r = Request("STOP", c, Unspent(c), 1)
  OBVIOUS
<1>3. TypeOK'
  BY <1>1, <1>2 DEF TypeOK, Request, serverVars
<1>4. Listed'
  BY <1>2 DEF Listed, Request, Unspent, TypeOK, Reservations, serverVars
<1> QED
  BY <1>3, <1>4, ServerFrame

LEMMA ReleasingKeepsBooks ==
  ASSUME BooksInv, NEW r \in cleaner.left, ReleaseListed(r)
  PROVE  BooksInv'
<1> USE DEF BooksInv, ReleaseListed
<1>1. TypeOK' /\ Listed'
  BY DEF TypeOK, Listed, Unspent, serverVars
<1> QED
  BY <1>1, ServerFrame

LEMMA ExecuteKeepsBooks ==
  ASSUME BooksInv, NEW r \in net, Execute(r)
  PROVE  BooksInv'
<1>1. /\ r.call \in Calls /\ r.amount \in Nat
      /\ r.kind \in {"RESERVE", "SPEND", "RELEASE", "STOP"}
  BY DEF BooksInv, TypeOK, Requests
<1>0. Entry(r.kind, r.call, r.call, r.amount) \in Entries
  BY <1>1 DEF Entry, Entries
<1>2. PICK ok \in BOOLEAN : Answer(r, ok)
  BY Executed, Zenon
<1>3. /\ call' \in [Calls -> Rows] /\ net' \subseteq Requests /\ cleaner' = cleaner
      /\ \A q \in net' : q.kind = "STOP" => q \in net
  <2>1. Rest(r.call).kind = "RELEASE"
    BY DEF Rest, Request
  <2> QED
    BY <1>2, <2>1, Answered, Executed, Zenon DEF BooksInv
<1>4. CASE UNCHANGED serverVars
  <2>1. TypeOK'
    BY <1>3, <1>4 DEF BooksInv, TypeOK, serverVars
  <2>2. Listed'
    BY <1>3, <1>4 DEF BooksInv, serverVars, Listed, Unspent
  <2> QED
    BY <1>4, <2>1, <2>2, ServerFrame DEF BooksInv
<1>5. CASE ~Known(r.kind, r.call) /\ Apply(r)
  <2> DEFINE x == reservation[r.call]
  <2>1. /\ account.active /\ account'.active /\ account' \in Accounts /\ WithinLimit'
        /\ ledger' = ledger \cup {Entry(r.kind, r.call, r.call, r.amount)}
        /\ reservation' \in [Calls -> Reservations]
        /\ \A d \in Calls \ {r.call} : reservation'[d] = reservation[d]
    BY <1>5, Booked, Zenon
  <2>2. r.kind = "RESERVE" =>
          /\ x.status = "NONE"
          /\ reservation'[r.call] =
               [status |-> "OPEN", amount |-> r.amount, spent |-> 0, released |-> 0]
    BY <1>5, Booked
  <2>3. r.kind # "RESERVE" =>
          /\ x.status # "NONE" /\ r.amount <= Unspent(r.call)
          /\ Unspent(r.call)' = Unspent(r.call) - r.amount
          /\ reservation'[r.call].status # "NONE"
    BY <1>5, Booked, Zenon
  <2>4. TypeOK' /\ Unopened' /\ WithinLimit'
    BY <1>0, <1>3, <2>1 DEF BooksInv, TypeOK, Unopened
  <2>5. \A d \in Calls : Unspent(d) \in Int /\ Unspent(d)' \in Int
    BY <2>1 DEF BooksInv, TypeOK, Reservations, Unspent
  <2>6. Recorded'
    <3> SUFFICES ASSUME NEW d \in Calls
                 PROVE  /\ reservation'[d].status # "NONE" <=> Known("RESERVE", d)'
                        /\ Unspent(d)' >= 0
      BY DEF Recorded
    <3>1. CASE d # r.call
      BY <2>1, <3>1, KnownAfter DEF BooksInv, Recorded, Unspent
    <3>2. CASE d = r.call /\ r.kind = "RESERVE"
      <4>1. Known("RESERVE", d)'
        <5> DEFINE e == Entry(r.kind, r.call, r.call, r.amount)
        <5>1. e \in ledger' /\ e.kind = "RESERVE" /\ e.by = d
          BY <2>1, <3>2 DEF Entry
        <5> QED
          BY <5>1 DEF Known
      <4> QED
        BY <1>1, <2>2, <3>2, <4>1 DEF Unspent
    <3>3. CASE d = r.call /\ r.kind # "RESERVE"
      <4>1. Known("RESERVE", d)' <=> Known("RESERVE", d)
        BY <2>1, <3>3, KnownAfter
      <4> QED
        BY <1>1, <2>3, <2>5, <3>3, <4>1 DEF BooksInv, Recorded
    <3> QED
      BY <3>1, <3>2, <3>3
  <2>7. Listed'
    <3> SUFFICES ASSUME NEW q \in net \cup cleaner.left, q.kind = "STOP"
                 PROVE  /\ reservation'[q.call].status # "NONE"
                        /\ Unspent(q.call)' <= q.amount
      BY <1>3 DEF Listed
    <3>1. /\ q.call \in Calls /\ q.amount \in Nat
          /\ reservation[q.call].status # "NONE" /\ Unspent(q.call) <= q.amount
      BY DEF BooksInv, TypeOK, Requests, Listed
    <3>2. CASE q.call # r.call
      BY <2>1, <3>1, <3>2 DEF Unspent
    <3>3. CASE q.call = r.call
      BY <1>1, <2>2, <2>3, <2>5, <3>1, <3>3
    <3> QED
      BY <3>2, <3>3
  <2> QED
    BY <1>5, <2>4, <2>6, <2>7, BookedBalances DEF BooksInv
<1> QED
  BY <1>4, <1>5, Executed, Zenon

LEMMA StepBooks == BooksInv /\ [Next]_vars => BooksInv'
<1> SUFFICES ASSUME BooksInv, [Next]_vars PROVE BooksInv'
  OBVIOUS
<1>1. ASSUME NEW limit \in Limits, EnsureBudgetAccount(limit) PROVE BooksInv'
  BY <1>1, EnsureKeepsBooks
<1>2. ASSUME NEW f \in Refunds, NEW c \in Calls, NEW amount \in RefundAmounts,
             RefundBudgetSpend(f, c, amount)
      PROVE  BooksInv'
  BY <1>2, RefundKeepsBooks
<1>3. ASSUME NEW r \in net, Execute(r) PROVE BooksInv'
  BY <1>3, ExecuteKeepsBooks
<1>4. ASSUME NEW c \in Calls,
             \/ BeginCall(c)
             \/ \E returned \in BOOLEAN, cost \in Costs : ProviderEnds(c, returned, cost)
             \/ AttemptFails(c)
      PROVE  BooksInv'
  BY <1>4, CallStepsKeepBooks
<1>5. CASE AgentDies \/ StopAgent \/ StartAgent \/ EndCleanup
  BY <1>5, ProcessStepsKeepBooks
<1>6. CASE ListOpenReservations
  BY <1>6, ListingKeepsBooks
<1>7. ASSUME NEW r \in cleaner.left, ReleaseListed(r) PROVE BooksInv'
  BY <1>7, ReleasingKeepsBooks
<1>8. CASE UNCHANGED vars
  <2>1. TypeOK' /\ Listed' /\ UNCHANGED serverVars
    BY <1>8 DEF vars, serverVars, BooksInv, TypeOK, Listed, Unspent
  <2> QED
    BY <2>1, ServerFrame DEF BooksInv
<1> QED
  BY <1>1, <1>2, <1>3, <1>4, <1>5, <1>6, <1>7, <1>8 DEF Next

\* The rows have their types, and the books are in order.
THEOREM BooksInvariant == Spec => []BooksInv
BY InitBooks, StepBooks, PTL DEF Spec

\* The counters of the account and the rows of the reservations are what the
\* ledger's entries add up to (applyBudgetReservationDelta, RefundBudgetSpend),
\* for any number of calls and of replays (handleExistingBudgetEntryTx).
THEOREM BooksAlwaysBalance == Spec => []BooksBalance
<1>1. BooksInv => BooksBalance
  BY DEF BooksInv
<1> QED
  BY <1>1, BooksInvariant, PTL

\* The account stays within its hard limit (ReserveBudget, EnsureBudgetAccount),
\* whatever limits, costs and refunds there are.
THEOREM AccountWithinLimit == Spec => []WithinLimit
<1>1. BooksInv => WithinLimit
  BY DEF BooksInv
<1> QED
  BY <1>1, BooksInvariant, PTL

-----------------------------------------------------------------------------
(* The calls: the inductive invariant *)

\* A spend under way is the one that the call's cost gives.
SpendsExact ==
  \A r \in net :
    r.kind = "SPEND" => /\ r.amount = Charge(call[r.call].cost)
                        /\ call[r.call].phase \notin {"IDLE", "RESERVE", "PROVIDER"}

\* A call that has its answer has charged it before it releases the rest.
Charged ==
  \A c \in Calls :
    \/ call[c].phase = "RELEASE" /\ call[c].returned
    \/ call[c].phase = "ANSWERED"
    => /\ Entry("SPEND", c, c, Charge(call[c].cost)) \in ledger
       /\ call[c].cost <= Reserve

\* A call without failures has at most the request it waits for under way, and
\* unless it was released by a clean-up its reservation is as the call left it.
Orderly(c) ==
  ~call[c].faulted =>
    /\ call[c].phase # "DEAD"
    /\ \A r \in net : r.call = c /\ r.kind # "STOP" => Awaited(r) /\ r.amount = Asked(c)
    /\ call[c].phase \in {"IDLE", "RESERVE"} => reservation[c].status = "NONE"
    /\ call[c].phase \in {"IDLE", "RESERVE", "PROVIDER", "SPEND"} => ~Known("SPEND", c)
    /\ call[c].phase \in {"IDLE"} \cup Running => ~Known("RELEASE", c)
    /\ call[c].phase \in {"PROVIDER", "SPEND"} /\ reservation[c].status = "OPEN" =>
         reservation[c] = [status |-> "OPEN", amount |-> Reserve, spent |-> 0, released |-> 0]
    /\ call[c].phase = "RELEASE" /\ reservation[c].status = "OPEN" => Unspent(c) = Asked(c)
    /\ call[c].phase \in {"ANSWERED", "FAILED"} => reservation[c].status # "OPEN"

CallsInv == SpendsExact /\ Charged /\ \A c \in Calls : Orderly(c)

IInv == BooksInv /\ CallsInv

-----------------------------------------------------------------------------
(* The operators and the processes *)

\* A step of one call leaves the others as they were.
LEMMA OthersOrderly ==
  ASSUME IInv, NEW d \in Calls, call'[d] = call[d], reservation'[d] = reservation[d],
         \A kind \in {"RESERVE", "SPEND", "RELEASE"} : Known(kind, d)' <=> Known(kind, d),
         \A r \in net' : r \in net \/ r.call # d \/ r.kind = "STOP"
  PROVE  Orderly(d)'
BY DEF IInv, CallsInv, Orderly, Awaited, Asked, Unspent

\* The operators and the clean-up change neither the calls nor the reservations.
LEMMA CallsFrame ==
  ASSUME IInv, UNCHANGED <<reservation, call>>, ledger \subseteq ledger',
         \A kind \in {"RESERVE", "SPEND", "RELEASE"}, c \in Calls :
            Known(kind, c)' <=> Known(kind, c),
         \A r \in net' : r \in net \/ r.kind = "STOP"
  PROVE  CallsInv'
<1>1. SpendsExact' /\ Charged'
  BY DEF IInv, CallsInv, SpendsExact, Charged
<1>2. ASSUME NEW c \in Calls PROVE Orderly(c)'
  <2>1. call'[c] = call[c] /\ reservation'[c] = reservation[c]
    OBVIOUS
  <2> QED
    BY <2>1, OthersOrderly
<1> QED
  BY <1>1, <1>2 DEF CallsInv

LEMMA OperatorsKeepCalls ==
  ASSUME IInv,
         \/ \E limit \in Limits : EnsureBudgetAccount(limit)
         \/ \E f \in Refunds, c \in Calls, amount \in RefundAmounts : RefundBudgetSpend(f, c, amount)
  PROVE  CallsInv'
<1>1. /\ UNCHANGED <<reservation, call, net>> /\ ledger \subseteq ledger'
      /\ \A e \in ledger' : e \in ledger \/ e.kind = "REFUND"
  <2>1. ASSUME NEW limit \in Limits, EnsureBudgetAccount(limit)
        PROVE  UNCHANGED <<reservation, call, net, ledger>>
    BY <2>1, Zenon DEF EnsureBudgetAccount
  <2>2. ASSUME NEW f \in Refunds, NEW c \in Calls, NEW amount \in RefundAmounts,
               RefundBudgetSpend(f, c, amount)
        PROVE  /\ UNCHANGED <<reservation, call, net>>
               /\ ledger' = ledger \cup {Entry("REFUND", f, c, amount)}
               /\ Entry("REFUND", f, c, amount).kind = "REFUND"
    BY <2>2 DEF RefundBudgetSpend, Entry
  <2> QED
    BY <2>1, <2>2
<1>2. \A kind \in {"RESERVE", "SPEND", "RELEASE"}, c \in Calls : Known(kind, c)' <=> Known(kind, c)
  BY <1>1 DEF Known
<1> QED
  BY <1>1, <1>2, CallsFrame

LEMMA CleanupKeepsCalls ==
  ASSUME IInv,
         StartAgent \/ ListOpenReservations \/ EndCleanup
           \/ \E r \in cleaner.left : ReleaseListed(r)
  PROVE  CallsInv'
<1>1. UNCHANGED <<serverVars, call>> /\ net' \subseteq net \cup cleaner.left
  BY DEF StartAgent, ListOpenReservations, EndCleanup, ReleaseListed
<1>2. \A r \in net' : r \in net \/ r.kind = "STOP"
  BY <1>1 DEF IInv, BooksInv, TypeOK
<1> QED
  BY <1>1, <1>2, CallsFrame DEF Known, serverVars

LEMMA DeathKeepsCalls ==
  ASSUME IInv, AgentDies \/ StopAgent
  PROVE  CallsInv'
<1>1. call' = Killed /\ UNCHANGED <<serverVars, net>>
  BY DEF AgentDies, StopAgent
<1>2. \A c \in Calls : \/ call'[c] = call[c]
                       \/ /\ call'[c].phase = "DEAD" /\ call'[c].faulted
                          /\ call'[c].cost = call[c].cost
  BY <1>1, KilledCalls DEF IInv, BooksInv
<1>3. SpendsExact'
  BY <1>1, <1>2 DEF IInv, CallsInv, SpendsExact, BooksInv, TypeOK, Requests
<1>4. Charged'
  BY <1>1, <1>2 DEF IInv, CallsInv, Charged, serverVars
<1>5. ASSUME NEW c \in Calls PROVE Orderly(c)'
  <2>1. CASE call'[c] = call[c]
    BY <1>1, <2>1, OthersOrderly DEF Known, serverVars
  <2>2. CASE call'[c].faulted
    BY <2>2 DEF Orderly
  <2> QED
    BY <1>2, <2>1, <2>2
<1> QED
  BY <1>3, <1>4, <1>5 DEF CallsInv

-----------------------------------------------------------------------------
(* The steps of a call *)

LEMMA BeginCallKeepsCalls ==
  ASSUME IInv, NEW c \in Calls, BeginCall(c)
  PROVE  CallsInv'
<1>0. TypeOK
  BY DEF IInv, BooksInv
<1>1. /\ call[c].phase = "IDLE" /\ UNCHANGED serverVars
      /\ \A d \in Calls \ {c} : call'[d] = call[d]
      /\ call'[c].phase = "RESERVE" /\ call'[c].attempt = 1 /\ call'[c].cost = call[c].cost
      /\ call'[c].faulted = call[c].faulted
  BY <1>0, CallBegun
<1>2. PICK r \in Requests :
        net' = net \cup {r} /\ r.kind = "RESERVE" /\ r.call = c /\ r.amount = Reserve /\ r.attempt = 1
  BY <1>0, CallBegun
<1>3. SpendsExact'
  BY <1>0, <1>1, <1>2 DEF IInv, CallsInv, TypeOK, Requests, SpendsExact
<1>4. Charged'
  BY <1>1 DEF IInv, CallsInv, Charged, serverVars
<1>5. ASSUME NEW d \in Calls PROVE Orderly(d)'
  <2>1. CASE d # c
    BY <1>1, <1>2, <2>1, OthersOrderly DEF Known, serverVars
  <2>2. CASE d = c
    <3>1. \A q \in net : q.call = c => q.kind = "STOP" \/ call[c].faulted
      BY <1>0, <1>1 DEF IInv, CallsInv, TypeOK, Requests, Orderly, Awaited
    <3>2. Asked(c)' = Reserve
      BY <1>1 DEF Asked
    <3> QED
      BY <1>1, <1>2, <2>2, <3>1, <3>2
      DEF IInv, CallsInv, Orderly, Awaited, Known, Running, Waiting, serverVars
  <2> QED
    BY <2>1, <2>2
<1> QED
  BY <1>3, <1>4, <1>5 DEF CallsInv

LEMMA ProviderEndsKeepsCalls ==
  ASSUME IInv, NEW c \in Calls, NEW returned \in BOOLEAN, NEW cost \in Costs,
         ProviderEnds(c, returned, cost)
  PROVE  CallsInv'
<1>0. TypeOK
  BY DEF IInv, BooksInv
<1>1. /\ call[c].phase = "PROVIDER" /\ UNCHANGED serverVars
      /\ \A d \in Calls \ {c} : call'[d] = call[d]
      /\ call'[c].attempt = 1 /\ call'[c].cost = cost
      /\ call'[c].returned = returned /\ call'[c].faulted = call[c].faulted
  BY <1>0, ProviderEnded
<1>2. PICK r \in Requests :
        /\ net' = net \cup {r}
        /\ call'[c].phase = r.kind /\ r.call = c /\ r.attempt = 1
        /\ \/ r.kind = "SPEND" /\ r.amount = Charge(cost)
           \/ r.kind = "RELEASE" /\ r.amount = Reserve /\ ~returned /\ cost = 0
  BY <1>0, ProviderEnded
<1>3. SpendsExact'
  BY <1>0, <1>1, <1>2 DEF IInv, CallsInv, TypeOK, Requests, SpendsExact
<1>4. Charged'
  BY <1>1, <1>2 DEF IInv, CallsInv, Charged, serverVars
<1>5. ASSUME NEW d \in Calls PROVE Orderly(d)'
  <2>1. CASE d # c
    BY <1>1, <1>2, <2>1, OthersOrderly DEF Known, serverVars
  <2>2. CASE d = c
    <3>1. \A q \in net : q.call = c => q.kind = "STOP" \/ call[c].faulted
      BY <1>0, <1>1 DEF IInv, CallsInv, TypeOK, Requests, Orderly, Awaited
    <3>2. Asked(c)' = r.amount
      BY <1>1, <1>2 DEF Asked
    <3>3. reservation[c].status = "OPEN" /\ ~call[c].faulted => Unspent(c)' = Reserve
      BY <1>1, BudgetAssumption DEF IInv, CallsInv, Orderly, Unspent, serverVars
    <3> QED
      BY <1>1, <1>2, <2>2, <3>1, <3>2, <3>3
      DEF IInv, CallsInv, Orderly, Awaited, Known, Running, Waiting, serverVars
  <2> QED
    BY <2>1, <2>2
<1> QED
  BY <1>3, <1>4, <1>5 DEF CallsInv

LEMMA AttemptFailsKeepsCalls ==
  ASSUME IInv, NEW c \in Calls, AttemptFails(c)
  PROVE  CallsInv'
<1>0. TypeOK
  BY DEF IInv, BooksInv
<1>1. /\ call[c].phase \in Waiting /\ UNCHANGED serverVars
      /\ \A d \in Calls \ {c} : call'[d] = call[d]
      /\ call'[c].cost = call[c].cost /\ call'[c].returned = call[c].returned
      /\ call'[c].faulted
      /\ \/ call'[c].phase = call[c].phase
         \/ call'[c].phase = "FAILED"
         \/ call[c].phase = "RELEASE" /\ call[c].returned /\ call'[c].phase = "ANSWERED"
  BY <1>0, AttemptFailed
<1>2. PICK r \in Requests : /\ net' = net \/ net' = net \cup {r}
                            /\ r.kind = call[c].phase /\ r.call = c /\ r.amount = Asked(c)
  BY <1>0, AttemptFailed
<1>3. SpendsExact'
  BY <1>0, <1>1, <1>2 DEF IInv, CallsInv, TypeOK, Requests, SpendsExact, Asked
<1>4. Charged'
  BY <1>1 DEF IInv, CallsInv, Charged, Waiting, serverVars
<1>5. ASSUME NEW d \in Calls PROVE Orderly(d)'
  <2>1. CASE d # c
    BY <1>1, <1>2, <2>1, OthersOrderly DEF Known, serverVars
  <2>2. CASE d = c
    BY <1>1, <2>2 DEF Orderly
  <2> QED
    BY <2>1, <2>2
<1> QED
  BY <1>3, <1>4, <1>5 DEF CallsInv

-----------------------------------------------------------------------------
(* The server's transactions *)

LEMMA ExecutePreservesCharges ==
  ASSUME IInv, NEW r \in net, Execute(r)
  PROVE  SpendsExact' /\ Charged'
<1>1. /\ r.call \in Calls /\ call[r.call].phase \in Phases
      /\ r.kind \in {"RESERVE", "SPEND", "RELEASE", "STOP"}
  BY DEF IInv, BooksInv, TypeOK, Requests, Rows
<1>0. BooksInv /\ TypeOK
  BY DEF IInv, BooksInv
<1>2. PICK ok \in BOOLEAN :
        /\ Answer(r, ok)
        /\ ok => Entry(r.kind, r.call, r.call, r.amount) \in ledger'
  <2>1. Apply(r) /\ ~Known(r.kind, r.call) =>
          Entry(r.kind, r.call, r.call, r.amount) \in ledger'
    BY <1>0, Booked, Zenon
  <2> QED
    BY <2>1, Executed, Zenon DEF serverVars
<1>3. ledger \subseteq ledger'
  BY <1>0, Booked, Executed, Zenon DEF serverVars
<1>4. /\ \A d \in Calls \ {r.call} : call'[d] = call[d]
      /\ call'[r.call].cost = call[r.call].cost
      /\ call'[r.call].returned = call[r.call].returned
      /\ ~Awaited(r) => call' = call
      /\ Awaited(r) => call'[r.call].phase = After(r.call, ok)
      /\ \A q \in net' : q \in net \/ q.kind = "RELEASE"
  BY <1>0, <1>2, Answered DEF Rest, Request
<1>5. SpendsExact'
  <2> SUFFICES ASSUME NEW q \in net', q.kind = "SPEND"
               PROVE  /\ q.amount = Charge(call'[q.call].cost)
                      /\ call'[q.call].phase \notin {"IDLE", "RESERVE", "PROVIDER"}
    BY DEF SpendsExact
  <2>1. q \in net /\ q.call \in Calls
    BY <1>4 DEF IInv, BooksInv, TypeOK, Requests
  <2>2. /\ q.amount = Charge(call[q.call].cost)
        /\ call[q.call].phase \notin {"IDLE", "RESERVE", "PROVIDER"}
    BY <2>1 DEF IInv, CallsInv, SpendsExact
  <2>3. CASE q.call # r.call \/ ~Awaited(r)
    BY <1>4, <2>1, <2>2, <2>3
  <2>4. CASE q.call = r.call /\ Awaited(r)
    <3>1. After(r.call, ok) \in {"RELEASE", "ANSWERED", "FAILED"}
      BY <2>2, <2>4 DEF After, Outcome
    <3> QED
      BY <1>4, <2>2, <2>4, <3>1
  <2> QED
    BY <2>3, <2>4
<1>6. Charged'
  <2> SUFFICES ASSUME NEW c \in Calls,
                      \/ call'[c].phase = "RELEASE" /\ call'[c].returned
                      \/ call'[c].phase = "ANSWERED"
               PROVE  /\ Entry("SPEND", c, c, Charge(call'[c].cost)) \in ledger'
                      /\ call'[c].cost <= Reserve
    BY DEF Charged, Entry
  <2>1. CASE c # r.call \/ ~Awaited(r)
    BY <1>3, <1>4, <2>1 DEF IInv, CallsInv, Charged
  <2>2. CASE c = r.call /\ Awaited(r)
    <3>1. \/ r.kind = "SPEND" /\ ok /\ call[c].cost <= Reserve
          \/ call[c].phase = "RELEASE" /\ call[c].returned
      <4>1. call[c].cost \in Nat /\ Reserve \in Nat
        BY BudgetAssumption DEF IInv, BooksInv, TypeOK, Rows
      <4>2. call[c].phase \in Waiting /\ call[c].phase = r.kind
        BY <1>1, <2>2 DEF Awaited, Phases, Running, Waiting
      <4>3. /\ call'[c].phase = After(c, ok) /\ call'[c].returned = call[c].returned
            /\ After(c, ok) = "ANSWERED" \/ (After(c, ok) = "RELEASE" /\ call[c].returned)
        BY <1>4, <2>2
      <4>4. CASE call[c].phase = "RESERVE"
        BY <4>3, <4>4 DEF After
      <4>5. CASE call[c].phase = "SPEND"
        BY <4>1, <4>2, <4>3, <4>5 DEF After
      <4>6. CASE call[c].phase = "RELEASE"
        BY <4>3, <4>6 DEF After, Outcome
      <4> QED
        BY <4>2, <4>4, <4>5, <4>6 DEF Waiting
    <3>2. CASE r.kind = "SPEND" /\ ok /\ call[c].cost <= Reserve
      <4>1. r.amount = Charge(call[c].cost)
        BY <2>2, <3>2 DEF IInv, CallsInv, SpendsExact
      <4> QED
        BY <1>2, <1>4, <2>2, <3>2, <4>1
    <3>3. CASE call[c].phase = "RELEASE" /\ call[c].returned
      BY <1>3, <1>4, <2>2, <3>3 DEF IInv, CallsInv, Charged
    <3> QED
      BY <3>1, <3>2, <3>3
  <2> QED
    BY <2>1, <2>2
<1> QED
  BY <1>5, <1>6

\* What executing a request of a call that met no failure comes to: it is
\* answered ok or refused, it is no replay, and of the requests of its call only
\* the release of the rest of a charged call follows it.
Served(r, ok) ==
  /\ ~Known(r.kind, r.call)
  /\ ledger' = ledger \/ ledger' = ledger \cup {Entry(r.kind, r.call, r.call, r.amount)}
  /\ IF ok THEN Apply(r) ELSE ~Admits(r) /\ UNCHANGED serverVars
  /\ \A q \in net' : q.call = r.call /\ q.kind # "STOP" =>
        After(r.call, ok) = "RELEASE" /\ q = Rest(r.call)
  /\ call'[r.call].phase = After(r.call, ok)
  /\ call'[r.call].attempt = 1 /\ call'[r.call].cost = call[r.call].cost

\* A request of a call that met no failure is the one the call waits for.
LEMMA RequestAwaited ==
  ASSUME IInv, NEW r \in net, ~call[r.call].faulted, r.kind # "STOP"
  PROVE  /\ r \in Requests /\ r.call \in Calls /\ call[r.call] \in Rows /\ BooksInv
         /\ Awaited(r) /\ r.amount = Asked(r.call) /\ call[r.call].phase = r.kind
         /\ Orderly(r.call) /\ r.kind \in {"RESERVE", "SPEND", "RELEASE"}
<1>1. r \in Requests /\ r.call \in Calls /\ call[r.call] \in Rows /\ BooksInv
  BY DEF IInv, BooksInv, TypeOK, Requests
<1>2. Orderly(r.call) /\ Awaited(r) /\ r.amount = Asked(r.call)
  BY <1>1 DEF IInv, CallsInv, Orderly
<1> QED
  BY <1>1, <1>2 DEF Awaited, Requests

LEMMA ExecuteServes ==
  ASSUME IInv, NEW r \in net, Execute(r), ~call[r.call].faulted, r.kind # "STOP"
  PROVE  \E ok \in BOOLEAN : Served(r, ok)
<1> DEFINE c == r.call
<1>1. /\ r \in Requests /\ c \in Calls /\ call[c] \in Rows /\ BooksInv
      /\ Awaited(r) /\ r.amount = Asked(c) /\ call[c].phase = r.kind /\ Orderly(c)
      /\ r.kind \in {"RESERVE", "SPEND", "RELEASE"}
  BY RequestAwaited
<1>2. ledger' = ledger \/ ledger' = ledger \cup {Entry(r.kind, c, c, r.amount)}
  BY <1>1, Booked, Executed, Zenon DEF serverVars
<1>3. PICK ok \in BOOLEAN :
        /\ Answer(r, ok)
        /\ ~ok => UNCHANGED serverVars
        /\ ~Known(r.kind, c) => IF ok THEN Apply(r) ELSE ~Admits(r)
  BY Executed, Zenon
<1>4. /\ call'[c].cost = call[c].cost
      /\ call'[c].phase = After(c, ok) /\ call'[c].attempt = 1
      /\ \A q \in net' \ net : After(c, ok) = "RELEASE" /\ q = Rest(c)
      /\ r \in net' => r = Rest(c) /\ After(c, ok) = "RELEASE"
  BY <1>1, <1>3, Answered DEF BooksInv
<1>5. \A q \in net : q.call = c /\ q.kind # "STOP" => q = r
  <2> SUFFICES ASSUME NEW q \in net, q.call = c, q.kind # "STOP" PROVE q = r
    OBVIOUS
  <2>1. q \in Requests /\ Awaited(q) /\ q.amount = Asked(c)
    BY RequestAwaited
  <2>2. q.kind = r.kind /\ q.call = r.call /\ q.amount = r.amount /\ q.attempt = r.attempt
    BY <1>1, <2>1 DEF Awaited
  <2> QED
    BY <1>1, <2>1, <2>2 DEF Requests
<1>6. ~Known(r.kind, c)
  BY <1>1 DEF Orderly, BooksInv, Recorded, Running, Waiting
<1>7. \A q \in net' : q.call = c /\ q.kind # "STOP" => After(c, ok) = "RELEASE" /\ q = Rest(c)
  BY <1>4, <1>5
<1> QED
  BY <1>2, <1>3, <1>4, <1>6, <1>7 DEF Served

LEMMA ReserveKeepsOrder ==
  ASSUME IInv, NEW r \in net, ~call[r.call].faulted, r.kind = "RESERVE",
         NEW ok \in BOOLEAN, Served(r, ok), NEW c \in Calls, c = r.call
  PROVE  Orderly(c)'
<1>1. /\ r \in Requests /\ call[c] \in Rows /\ BooksInv /\ r.kind = "RESERVE"
      /\ Awaited(r) /\ r.amount = Asked(c) /\ call[c].phase = r.kind /\ Orderly(c)
      /\ ~call[c].faulted
  BY RequestAwaited
<1>2. /\ ~Known(r.kind, c)
      /\ ledger' = ledger \/ ledger' = ledger \cup {Entry(r.kind, c, c, r.amount)}
      /\ IF ok THEN Apply(r) ELSE ~Admits(r) /\ UNCHANGED serverVars
      /\ \A q \in net' : q.call = c /\ q.kind # "STOP" =>
            After(c, ok) = "RELEASE" /\ q = Rest(c)
      /\ call'[c].phase = After(c, ok)
      /\ call'[c].attempt = 1 /\ call'[c].cost = call[c].cost
  BY DEF Served
<1>3. /\ call[c].cost \in Nat /\ Reserve \in Nat \ {0} /\ Unspent(c) \in Int /\ r.amount \in Int
      /\ Charge(call[c].cost) \in Nat /\ Charge(call[c].cost) <= Reserve
  BY <1>1, ChargeBound, BudgetAssumption DEF BooksInv, TypeOK, Reservations, Unspent, Rows, Requests
<1>4. /\ reservation[c].status = "NONE" /\ ~Known("SPEND", c) /\ ~Known("RELEASE", c)
      /\ r.amount = Reserve
  BY <1>1 DEF Orderly, Running, Waiting, Asked
<1>5. ~Known("SPEND", c)' /\ ~Known("RELEASE", c)'
  BY <1>2, <1>1, <1>4, KnownAfter
<1>6. After(c, ok) = IF ok THEN "PROVIDER" ELSE "FAILED"
  BY <1>1 DEF After
<1>7. IF ok THEN reservation'[c] = [status |-> "OPEN", amount |-> Reserve,
                                    spent |-> 0, released |-> 0]
            ELSE reservation'[c].status = "NONE"
  BY <1>1, <1>2, <1>4, Booked, Zenon DEF serverVars
<1> QED
  BY <1>2, <1>5, <1>6, <1>7 DEF Orderly, Running, Waiting

LEMMA SpendKeepsOrder ==
  ASSUME IInv, NEW r \in net, ~call[r.call].faulted, r.kind = "SPEND",
         NEW ok \in BOOLEAN, Served(r, ok), NEW c \in Calls, c = r.call
  PROVE  Orderly(c)'
<1>1. /\ r \in Requests /\ call[c] \in Rows /\ BooksInv /\ r.kind = "SPEND"
      /\ Awaited(r) /\ r.amount = Asked(c) /\ call[c].phase = r.kind /\ Orderly(c)
      /\ ~call[c].faulted
  BY RequestAwaited
<1>2. /\ ~Known(r.kind, c)
      /\ ledger' = ledger \/ ledger' = ledger \cup {Entry(r.kind, c, c, r.amount)}
      /\ IF ok THEN Apply(r) ELSE ~Admits(r) /\ UNCHANGED serverVars
      /\ \A q \in net' : q.call = c /\ q.kind # "STOP" =>
            After(c, ok) = "RELEASE" /\ q = Rest(c)
      /\ call'[c].phase = After(c, ok)
      /\ call'[c].attempt = 1 /\ call'[c].cost = call[c].cost
  BY DEF Served
<1>3. /\ call[c].cost \in Nat /\ Reserve \in Nat \ {0} /\ Unspent(c) \in Int /\ r.amount \in Int
      /\ Charge(call[c].cost) \in Nat /\ Charge(call[c].cost) <= Reserve
  BY <1>1, ChargeBound, BudgetAssumption DEF BooksInv, TypeOK, Reservations, Unspent, Rows, Requests
<1>4. /\ r.amount = Charge(call[c].cost) /\ ~Known("RELEASE", c)
      /\ reservation[c].status = "OPEN" => Unspent(c) = Reserve
  BY <1>1, <1>3 DEF Orderly, Running, Waiting, Asked, Unspent
<1>5. ~Known("RELEASE", c)'
  BY <1>2, <1>1, <1>4, KnownAfter, Zenon
<1>6. /\ Asked(c)' = (IF call[c].cost = 0 THEN Reserve ELSE Reserve - Charge(call[c].cost))
           \/ call'[c].phase # "RELEASE"
      /\ Rest(c).amount = Reserve - Charge(call[c].cost)
      /\ Rest(c).kind = "RELEASE" /\ Rest(c).call = c /\ Rest(c).attempt = 1
  BY <1>2 DEF Asked, Rest, Request
<1>7. CASE ~ok
  <2>1. After(c, ok) = "FAILED"
    BY <1>1, <1>7 DEF After
  <2>2. reservation'[c] = reservation[c] /\ reservation[c].status # "OPEN"
    BY <1>1, <1>2, <1>3, <1>4, <1>7, Zenon DEF Admits, CanCharge, serverVars
  <2> QED
    BY <1>2, <2>1, <2>2 DEF Orderly, Running, Waiting
<1>8. CASE ok
  <2>1. /\ Unspent(c)' = Unspent(c) - Charge(call[c].cost)
        /\ reservation'[c].status =
             IF Unspent(c) <= Charge(call[c].cost) THEN "CLOSED" ELSE reservation[c].status
    BY <1>1, <1>2, <1>4, <1>8, Booked, Zenon
  <2>2. CASE Charge(call[c].cost) < Reserve
    <3>1. After(c, ok) = "RELEASE" /\ call[c].cost # 0
      BY <1>1, <1>3, <1>8, <2>2 DEF After, Charge
    <3>2. Asked(c)' = Reserve - Charge(call[c].cost)
      BY <1>2, <1>6, <3>1
    <3>3. reservation'[c].status = "OPEN" => Unspent(c)' = Asked(c)'
      BY <1>4, <2>1, <3>2
    <3>4. \A q \in net' : q.call = c /\ q.kind # "STOP" =>
            Awaited(q)' /\ q.amount = Asked(c)'
      BY <1>2, <1>6, <3>1, <3>2 DEF Awaited
    <3> QED
      BY <1>2, <1>5, <3>1, <3>3, <3>4 DEF Orderly, Running, Waiting
  <2>3. CASE ~(Charge(call[c].cost) < Reserve)
    <3>1. After(c, ok) \in {"FAILED", "ANSWERED"}
      BY <1>1, <1>3, <1>8, <2>3 DEF After, Outcome
    <3>2. Charge(call[c].cost) = Reserve
      BY <1>3, <2>3
    <3>3. reservation'[c].status # "OPEN"
      <4>1. CASE reservation[c].status = "OPEN"
        <5>1. Unspent(c) <= Charge(call[c].cost)
          BY <1>3, <1>4, <3>2, <4>1
        <5> QED
          BY <2>1, <5>1
      <4>2. CASE reservation[c].status # "OPEN"
        BY <2>1, <4>2
      <4> QED
        BY <4>1, <4>2
    <3> QED
      BY <1>2, <3>1, <3>3, Zenon DEF Orderly, Running, Waiting
  <2> QED
    BY <2>2, <2>3
<1> QED
  BY <1>7, <1>8

LEMMA ReleaseKeepsOrder ==
  ASSUME IInv, NEW r \in net, ~call[r.call].faulted, r.kind = "RELEASE",
         NEW ok \in BOOLEAN, Served(r, ok), NEW c \in Calls, c = r.call
  PROVE  Orderly(c)'
<1>1. /\ r \in Requests /\ call[c] \in Rows /\ BooksInv /\ r.kind = "RELEASE"
      /\ Awaited(r) /\ r.amount = Asked(c) /\ call[c].phase = r.kind /\ Orderly(c)
      /\ ~call[c].faulted
  BY RequestAwaited
<1>2. /\ ~Known(r.kind, c)
      /\ ledger' = ledger \/ ledger' = ledger \cup {Entry(r.kind, c, c, r.amount)}
      /\ IF ok THEN Apply(r) ELSE ~Admits(r) /\ UNCHANGED serverVars
      /\ \A q \in net' : q.call = c /\ q.kind # "STOP" =>
            After(c, ok) = "RELEASE" /\ q = Rest(c)
      /\ call'[c].phase = After(c, ok)
      /\ call'[c].attempt = 1 /\ call'[c].cost = call[c].cost
  BY DEF Served
<1>3. /\ call[c].cost \in Nat /\ Reserve \in Nat \ {0} /\ Unspent(c) \in Int /\ r.amount \in Int
      /\ Charge(call[c].cost) \in Nat /\ Charge(call[c].cost) <= Reserve
  BY <1>1, ChargeBound, BudgetAssumption DEF BooksInv, TypeOK, Reservations, Unspent, Rows, Requests
<1>4. After(c, ok) \in {"FAILED", "ANSWERED"}
  BY <1>1 DEF After, Outcome
<1>5. reservation[c].status = "OPEN" => Unspent(c) <= r.amount /\ r.amount <= Unspent(c)
  <2>1. reservation[c].status = "OPEN" => Unspent(c) = r.amount
    BY <1>1 DEF Orderly
  <2> QED
    BY <1>3, <2>1
<1>6. reservation'[c].status # "OPEN"
  <2>1. CASE ~ok
    <3>1. reservation' = reservation /\ ~CanCharge(c, r.amount)
      BY <1>1, <1>2, <2>1 DEF Admits, serverVars
    <3> QED
      BY <1>5, <3>1 DEF CanCharge
  <2>2. CASE ok
    <3>1. reservation'[c].status =
            IF Unspent(c) <= r.amount THEN "CLOSED" ELSE reservation[c].status
      BY <1>1, <1>2, <2>2, Booked, Zenon
    <3> QED
      BY <1>5, <3>1
  <2> QED
    BY <2>1, <2>2
<1> QED
  BY <1>2, <1>4, <1>6 DEF Orderly, Running, Waiting

LEMMA ExecutePreservesOrder ==
  ASSUME IInv, NEW r \in net, Execute(r), NEW c \in Calls
  PROVE  Orderly(c)'
<1>1. /\ r \in Requests /\ r.call \in Calls /\ r.amount \in Nat /\ call[r.call] \in Rows
      /\ r.kind \in {"RESERVE", "SPEND", "RELEASE", "STOP"}
  BY DEF IInv, BooksInv, TypeOK, Requests
<1>0. BooksInv /\ TypeOK
  BY DEF IInv, BooksInv
<1>2. /\ \/ ledger' = ledger \/ ledger' = ledger \cup {Entry(r.kind, r.call, r.call, r.amount)}
      /\ \A d \in Calls \ {r.call} : reservation'[d] = reservation[d]
  BY <1>0, Booked, Executed, Zenon DEF serverVars
<1>3. PICK ok \in BOOLEAN :
        /\ Answer(r, ok)
        /\ ~ok => UNCHANGED serverVars
        /\ ~Known(r.kind, r.call) =>
             IF ok THEN Apply(r) ELSE ~Admits(r)
  BY Executed, Zenon
<1>4. /\ \A d \in Calls \ {r.call} : call'[d] = call[d]
      /\ call'[r.call].cost = call[r.call].cost
      /\ call'[r.call].returned = call[r.call].returned
      /\ call'[r.call].faulted = call[r.call].faulted
      /\ ~Awaited(r) => call' = call /\ net' = net \ {r}
      /\ \A q \in net' \ net : /\ Awaited(r) /\ After(r.call, ok) = "RELEASE"
                              /\ q = Rest(r.call)
      /\ r \in net' => Awaited(r) /\ r = Rest(r.call) /\ After(r.call, ok) = "RELEASE"
  BY <1>0, <1>3, Answered
<1>5. CASE c # r.call
  <2>1. \A kind : Known(kind, c)' <=> Known(kind, c)
    BY <1>2, <1>5, KnownAfter
  <2>2. Rest(r.call).call = r.call
    BY DEF Rest, Request
  <2>3. \A q \in net' : q \in net \/ q.call # c
    BY <1>4, <1>5, <2>2
  <2> QED
    BY <1>2, <1>4, <1>5, <2>1, <2>3, OthersOrderly
<1>6. CASE c = r.call /\ call[c].faulted
  BY <1>4, <1>6 DEF Orderly
<1>7. CASE c = r.call /\ ~call[c].faulted /\ r.kind = "STOP"
  <2>1. ~Awaited(r)
    BY <1>1, <1>7 DEF Awaited, Rows, Phases, Running, Waiting
  <2>2. call' = call /\ net' = net \ {r}
    BY <1>4, <2>1
  <2>3. \A kind \in {"RESERVE", "SPEND", "RELEASE"} : Known(kind, c)' <=> Known(kind, c)
    BY <1>2, <1>7, KnownAfter
  <2>4. \/ reservation' = reservation
        \/ reservation[c].status # "NONE" /\ reservation'[c].status # "OPEN"
    <3>1. Unspent(c) <= r.amount
      BY <1>7 DEF IInv, BooksInv, Listed
    <3>2. Apply(r) /\ ~Known(r.kind, r.call) =>
            /\ reservation[c].status # "NONE"
            /\ reservation'[c].status =
                  IF Unspent(c) <= r.amount THEN "CLOSED" ELSE reservation[c].status
      BY <1>0, <1>7, Booked, Zenon
    <3> QED
      BY <3>1, <3>2, Executed, Zenon DEF serverVars
  <2>5. CASE reservation' = reservation
    BY <2>2, <2>3, <2>5 DEF IInv, CallsInv, Orderly, Awaited, Asked, Unspent
  <2>6. CASE reservation[c].status # "NONE" /\ reservation'[c].status # "OPEN"
    BY <2>2, <2>3, <2>6 DEF IInv, CallsInv, Orderly, Awaited, Asked
  <2> QED
    BY <2>4, <2>5, <2>6
<1>8. CASE c = r.call /\ ~call[c].faulted /\ r.kind # "STOP"
  <2>1. PICK served \in BOOLEAN : Served(r, served)
    BY <1>8, ExecuteServes
  <2> QED
    BY <1>1, <1>8, <2>1, ReserveKeepsOrder, SpendKeepsOrder, ReleaseKeepsOrder
<1> QED
  BY <1>5, <1>6, <1>7, <1>8

-----------------------------------------------------------------------------
(* The theorems *)

LEMMA InitCalls == Init => CallsInv
BY DEF Init, CallsInv, SpendsExact, Charged, Orderly, NoReservation, Known

LEMMA StepInvariant == IInv /\ [Next]_vars => IInv'
<1> SUFFICES ASSUME IInv, [Next]_vars PROVE CallsInv'
  BY StepBooks DEF IInv
<1>1. CASE \/ \E limit \in Limits : EnsureBudgetAccount(limit)
           \/ \E f \in Refunds, c \in Calls, amount \in RefundAmounts : RefundBudgetSpend(f, c, amount)
  BY <1>1, OperatorsKeepCalls
<1>2. ASSUME NEW c \in Calls, BeginCall(c) PROVE CallsInv'
  BY <1>2, BeginCallKeepsCalls
<1>3. ASSUME NEW c \in Calls, NEW returned \in BOOLEAN, NEW cost \in Costs,
             ProviderEnds(c, returned, cost)
      PROVE  CallsInv'
  BY <1>3, ProviderEndsKeepsCalls
<1>4. ASSUME NEW r \in net, Execute(r) PROVE CallsInv'
  BY <1>4, ExecutePreservesCharges, ExecutePreservesOrder DEF CallsInv
<1>5. ASSUME NEW c \in Calls, AttemptFails(c) PROVE CallsInv'
  BY <1>5, AttemptFailsKeepsCalls
<1>6. CASE AgentDies \/ StopAgent
  BY <1>6, DeathKeepsCalls
<1>7. CASE StartAgent \/ ListOpenReservations \/ EndCleanup
             \/ \E r \in cleaner.left : ReleaseListed(r)
  BY <1>7, CleanupKeepsCalls
<1>8. CASE UNCHANGED vars
  BY <1>8, CallsFrame DEF vars, Known
<1> QED
  BY <1>1, <1>2, <1>3, <1>4, <1>5, <1>6, <1>7, <1>8 DEF Next

\* The books are in order, and every call is where its requests leave it.
THEOREM LedgerInvariant == Spec => []IInv
<1>1. Init => IInv
  BY InitBooks, InitCalls DEF IInv
<1> QED
  BY <1>1, StepInvariant, PTL DEF Spec

\* Every answer that Chat returns has been charged in full to its reservation
\* (captureLLMCallSpend), for any number of retries and of stops.
THEOREM AnswersCharged == Spec => []AnswerCharged
<1>1. IInv => AnswerCharged
  BY DEF IInv, CallsInv, Charged, AnswerCharged
<1> QED
  BY <1>1, LedgerInvariant, PTL

\* A finished call leaves its reservation open only after a failure
\* (captureLLMCallSpend, releaseLLMCallBudget).
THEOREM LeaksNeedFaults == Spec => []LeakNeedsFault
<1>1. IInv => LeakNeedsFault
  BY DEF IInv, CallsInv, Orderly, LeakNeedsFault
<1> QED
  BY <1>1, LedgerInvariant, PTL
=============================================================================
