---------------------------- MODULE BudgetLedger ----------------------------
(***************************************************************************)
(* The budget of an agent's model calls: the account, the reservations and *)
(* the ledger entries of the server (budget_ledger.go), the calls of one   *)
(* agent process that reserve, spend and release over RPC, with its        *)
(* retries (runtime_budget.go), and the clean-up of the manager that stops *)
(* the process (web.go).  Amounts are micros.                              *)
(*                                                                         *)
(* A request stays in net until the server executes it, and a request may  *)
(* be executed after its sender gave up waiting, or never.                 *)
(***************************************************************************)
EXTENDS Integers, FiniteSets, FiniteSetsExt

CONSTANTS
  Calls,          \* model calls; the identifiers of their entries derive from them
  Reserve,        \* BudgetReserveMicros, what a call reserves
  Costs,          \* what a provider may report; 0 is no report
  Limits,         \* hard limits that the account is given
  Refunds,        \* identifiers of refunds
  RefundAmounts,  \* what an operator may refund
  MaxAttempts,    \* runtimeBudgetCleanupMaxAttempts
  MaxFaults,      \* bound: failed attempts and deaths of the process
  MaxStops        \* bound: stops by the manager

ASSUME BudgetAssumption ==
  /\ IsFiniteSet(Calls)
  /\ Reserve \in Nat \ {0} /\ Costs \subseteq Nat /\ Limits \subseteq Nat
  /\ RefundAmounts \subseteq Nat \ {0}
  /\ MaxAttempts \in Nat \ {0} /\ MaxFaults \in Nat /\ MaxStops \in Nat

VARIABLES
  account,        \* the budget_accounts row
  reservation,    \* the budget_reservations row of each call
  ledger,         \* the budget_ledger_entries rows
  call,           \* the agent's goroutine of each call
  net,            \* requests that the server has not executed
  agent,          \* whether the agent process runs
  cleaner,        \* the manager's clean-up after a stop
  faults, stops   \* counters for the bounds

vars == <<account, reservation, ledger, call, net, agent, cleaner, faults, stops>>
serverVars == <<account, reservation, ledger>>

Waiting == {"RESERVE", "SPEND", "RELEASE"}
Running == Waiting \cup {"PROVIDER"}

NoReservation == [status |-> "NONE", amount |-> 0, spent |-> 0, released |-> 0]

Init ==
  /\ account = [active |-> FALSE, limit |-> 0, reserved |-> 0, spent |-> 0, refunded |-> 0]
  /\ reservation = [c \in Calls |-> NoReservation]
  /\ ledger = {}
  /\ call = [c \in Calls |-> [phase |-> "IDLE", attempt |-> 0, cost |-> 0,
                              returned |-> FALSE, faulted |-> FALSE]]
  /\ net = {}
  /\ agent = TRUE
  /\ cleaner = [phase |-> "IDLE", left |-> {}]
  /\ faults = 0 /\ stops = 0

-----------------------------------------------------------------------------
(* The server *)

Committed == account.spent - account.refunded + account.reserved
budgetAvailableMicros == account.limit - Committed

Unspent(c) == reservation[c].amount - reservation[c].spent - reservation[c].released

\* A ledger entry.  kind and by give its identifier and its idempotency key:
\* a call has one entry of each kind, the clean-up's release ("STOP") included.
Entry(kind, by, of, amount) == [kind |-> kind, by |-> by, of |-> of, amount |-> amount]

Known(kind, by) == \E e \in ledger : e.kind = kind /\ e.by = by

\* Mutant: open reservations are forgotten when the limit is lowered.
EnsureBudgetAccountSpentOnly(limit) ==
  /\ account.active => limit # account.limit /\ limit >= account.spent - account.refunded
  /\ account' = [account EXCEPT !.active = TRUE, !.limit = limit]
  /\ UNCHANGED <<reservation, ledger, call, net, agent, cleaner, faults, stops>>

\* EnsureBudgetAccount: create the account, or give it another limit.
EnsureBudgetAccount(limit) ==
  /\ account.active => limit # account.limit /\ limit >= Committed
  /\ account' = [account EXCEPT !.active = TRUE, !.limit = limit]
  /\ UNCHANGED <<reservation, ledger, call, net, agent, cleaner, faults, stops>>

CanReserve(amount) == account.active /\ amount <= budgetAvailableMicros
CanCharge(c, amount) == reservation[c].status # "NONE" /\ amount <= Unspent(c)

\* ReserveBudget
ReserveBudget(c, amount) ==
  /\ CanReserve(amount)
  /\ reservation' = [reservation EXCEPT ![c] =
        [status |-> "OPEN", amount |-> amount, spent |-> 0, released |-> 0]]
  /\ account' = [account EXCEPT !.reserved = @ + amount]
  /\ ledger' = ledger \cup {Entry("RESERVE", c, c, amount)}

StatusAfter(c, amount) ==
  IF reservation[c].spent + reservation[c].released + amount >= reservation[c].amount
  THEN "CLOSED" ELSE reservation[c].status

\* applyBudgetReservationDelta
applyBudgetReservationDelta(kind, c, amount) ==
  /\ CanCharge(c, amount)
  /\ \/ /\ kind = "SPEND"
        /\ reservation' = [reservation EXCEPT ![c] =
              [reservation[c] EXCEPT !.spent = @ + amount, !.status = StatusAfter(c, amount)]]
        /\ account' = [account EXCEPT !.reserved = @ - amount, !.spent = @ + amount]
     \/ /\ kind \in {"RELEASE", "STOP"}
        /\ reservation' = [reservation EXCEPT ![c] =
              [reservation[c] EXCEPT !.released = @ + amount, !.status = StatusAfter(c, amount)]]
        /\ account' = [account EXCEPT !.reserved = @ - amount]
  /\ ledger' = ledger \cup {Entry(kind, c, c, amount)}

\* The transaction of a request that is not a replay.
Apply(r) ==
  \/ r.kind = "RESERVE" /\ ReserveBudget(r.call, r.amount)
  \/ r.kind # "RESERVE" /\ applyBudgetReservationDelta(r.kind, r.call, r.amount)

Admits(r) ==
  IF r.kind = "RESERVE" THEN CanReserve(r.amount) ELSE CanCharge(r.call, r.amount)

\* The sum of the values of a function, and of the amounts of entries.
Total(f) == MapThenSumSet(LAMBDA x : f[x], DOMAIN f)
Amounts(entries) == Total([e \in entries |-> e.amount])

RefundedOf(c) == Amounts({e \in ledger : e.kind = "REFUND" /\ e.of = c})

\* RefundBudgetSpend: an operator gives back part of a spend.
RefundBudgetSpend(f, c, amount) ==
  /\ ~Known("REFUND", f)
  /\ \E e \in ledger : /\ e.kind = "SPEND" /\ e.by = c
                       /\ amount <= e.amount - RefundedOf(c)
  /\ account' = [account EXCEPT !.refunded = @ + amount]
  /\ ledger' = ledger \cup {Entry("REFUND", f, c, amount)}
  /\ UNCHANGED <<reservation, call, net, agent, cleaner, faults, stops>>

-----------------------------------------------------------------------------
(* The agent *)

Request(kind, c, amount, attempt) ==
  [kind |-> kind, call |-> c, amount |-> amount, attempt |-> attempt]

\* What captureLLMCallSpend charges for a reported cost.
Charge(cost) == IF cost = 0 \/ cost > Reserve THEN Reserve ELSE cost

\* What the request of a waiting call asks for.
Asked(c) ==
  CASE call[c].phase = "RESERVE" -> Reserve
    [] call[c].phase = "SPEND" -> Charge(call[c].cost)
    [] OTHER -> IF call[c].cost = 0 THEN Reserve ELSE Reserve - Charge(call[c].cost)

Outcome(c) == IF call[c].returned THEN "ANSWERED" ELSE "FAILED"

\* Chat up to reserveLLMCallBudget's request.
BeginCall(c) ==
  /\ agent /\ call[c].phase = "IDLE"
  /\ call' = [call EXCEPT ![c] = [@ EXCEPT !.phase = "RESERVE", !.attempt = 1]]
  /\ net' = net \cup {Request("RESERVE", c, Reserve, 1)}
  /\ UNCHANGED <<serverVars, agent, cleaner, faults, stops>>

\* The provider's call ends, with an answer or an error.  Without an answer and
\* without reported usage the reservation is released, and so it is when the
\* guard after the reservation forbids the call.
ProviderEnds(c, returned, cost) ==
  LET next == IF returned \/ cost > 0 THEN "SPEND" ELSE "RELEASE"
  IN  /\ call[c].phase = "PROVIDER"
      /\ call' = [call EXCEPT ![c] =
            [@ EXCEPT !.phase = next, !.attempt = 1, !.cost = cost, !.returned = returned]]
      /\ net' = net \cup {Request(next, c, IF next = "SPEND" THEN Charge(cost) ELSE Reserve, 1)}
      /\ UNCHANGED <<serverVars, agent, cleaner, faults, stops>>

\* Mutant: a cost above the reservation does not fail the call.
AfterCapped(c, ok) ==
  CASE call[c].phase = "RESERVE" -> IF ok THEN "PROVIDER" ELSE "FAILED"
    [] call[c].phase = "SPEND" /\ ~ok -> "FAILED"
    [] call[c].phase = "SPEND" /\ ok /\ Charge(call[c].cost) < Reserve -> "RELEASE"
    [] OTHER -> Outcome(c)

\* Mutant: the rest is released for answered calls only.
AfterAnswered(c, ok) ==
  CASE call[c].phase = "RESERVE" -> IF ok THEN "PROVIDER" ELSE "FAILED"
    [] call[c].phase = "SPEND" /\ (~ok \/ call[c].cost > Reserve \/ ~call[c].returned) -> "FAILED"
    [] call[c].phase = "SPEND" /\ ok /\ call[c].returned
         /\ call[c].cost <= Reserve /\ Charge(call[c].cost) < Reserve -> "RELEASE"
    [] OTHER -> Outcome(c)

\* Where a waiting call continues on the server's answer: after a spend the rest
\* is released, except that a cost above the reservation fails the call; after
\* a refused spend the reservation is left as it is.
After(c, ok) ==
  CASE call[c].phase = "RESERVE" -> IF ok THEN "PROVIDER" ELSE "FAILED"
    [] call[c].phase = "SPEND" /\ (~ok \/ call[c].cost > Reserve) -> "FAILED"
    [] call[c].phase = "SPEND" /\ ok /\ call[c].cost <= Reserve
         /\ Charge(call[c].cost) < Reserve -> "RELEASE"
    [] OTHER -> Outcome(c)

\* The answer reaches the call if it still waits for this attempt.
Awaited(r) == call[r.call].phase = r.kind /\ call[r.call].attempt = r.attempt

Rest(c) == Request("RELEASE", c, Reserve - Charge(call[c].cost), 1)

Answer(r, ok) ==
  IF Awaited(r)
  THEN /\ call' = [call EXCEPT ![r.call] =
              [@ EXCEPT !.phase = After(r.call, ok), !.attempt = 1]]
       /\ net' = (net \ {r}) \cup
              (IF After(r.call, ok) = "RELEASE" THEN {Rest(r.call)} ELSE {})
  ELSE call' = call /\ net' = net \ {r}

\* Mutant: the ledger is not searched for the key of a retried spend.
ExecuteAgain(r) ==
  /\ \/ ~Admits(r) /\ Answer(r, FALSE) /\ UNCHANGED serverVars
     \/ Apply(r) /\ Answer(r, TRUE)
  /\ UNCHANGED <<agent, cleaner, faults, stops>>

\* The server executes a request.  A key that the ledger knows is a replay and
\* changes nothing; it succeeds if the entry is the one that was asked for.
Execute(r) ==
  /\ \/ /\ Known(r.kind, r.call)
        /\ Answer(r, Entry(r.kind, r.call, r.call, r.amount) \in ledger)
        /\ UNCHANGED serverVars
     \/ /\ ~Known(r.kind, r.call) /\ ~Admits(r)
        /\ Answer(r, FALSE)
        /\ UNCHANGED serverVars
     \/ ~Known(r.kind, r.call) /\ Apply(r) /\ Answer(r, TRUE)
  /\ UNCHANGED <<agent, cleaner, faults, stops>>

\* An attempt fails in transport or in time.  callRuntimeBudgetCleanupWithRetry
\* makes another one, with the same key and body, or gives up; the reservation
\* itself is asked for once.
AttemptFails(c) ==
  /\ call[c].phase \in Waiting /\ faults < MaxFaults
  /\ faults' = faults + 1
  /\ \/ /\ call[c].phase # "RESERVE" /\ call[c].attempt < MaxAttempts
        /\ call' = [call EXCEPT ![c] =
              [call[c] EXCEPT !.attempt = @ + 1, !.faulted = TRUE]]
        /\ net' = net \cup {Request(call[c].phase, c, Asked(c), call[c].attempt + 1)}
     \/ /\ call' = [call EXCEPT ![c] =
              [@ EXCEPT !.phase = IF call[c].phase = "RELEASE" THEN Outcome(c) ELSE "FAILED",
                        !.faulted = TRUE]]
        /\ net' = net
  /\ UNCHANGED <<serverVars, agent, cleaner, stops>>

-----------------------------------------------------------------------------
(* The agent process and its manager *)

Killed == [c \in Calls |-> IF call[c].phase \in Running
                           THEN [call[c] EXCEPT !.phase = "DEAD", !.faulted = TRUE]
                           ELSE call[c]]

\* The process dies, or is restarted, which cleans nothing up.
AgentDies ==
  /\ agent /\ faults < MaxFaults
  /\ agent' = FALSE /\ call' = Killed
  /\ faults' = faults + 1
  /\ UNCHANGED <<serverVars, net, cleaner, stops>>

StartAgent ==
  /\ ~agent
  /\ agent' = TRUE
  /\ UNCHANGED <<serverVars, call, net, cleaner, faults, stops>>

\* The manager stops the process, whether it still runs or not, and then cleans
\* up.  Nothing keeps the process from being started again meanwhile.
StopAgent ==
  /\ cleaner.phase = "IDLE" /\ stops < MaxStops
  /\ agent' = FALSE /\ call' = Killed
  /\ cleaner' = [phase |-> "LIST", left |-> {}]
  /\ stops' = stops + 1
  /\ UNCHANGED <<serverVars, net, faults>>

\* listManagedAgentOpenBudgetReservationsForStop
ListOpenReservations ==
  /\ cleaner.phase = "LIST"
  /\ cleaner' = [phase |-> "RELEASE",
                 left |-> {Request("STOP", c, Unspent(c), 1) :
                             c \in {d \in Calls : reservation[d].status = "OPEN"}}]
  /\ UNCHANGED <<serverVars, call, net, agent, faults, stops>>

\* The release of one of them is sent; what comes of it is only reported.
ReleaseListed(r) ==
  /\ cleaner.phase = "RELEASE" /\ r \in cleaner.left
  /\ cleaner' = [cleaner EXCEPT !.left = @ \ {r}]
  /\ net' = net \cup {r}
  /\ UNCHANGED <<serverVars, call, agent, faults, stops>>

\* The clean-up ends, early if its time is over or the listing failed.
EndCleanup ==
  /\ cleaner.phase # "IDLE"
  /\ cleaner' = [phase |-> "IDLE", left |-> {}]
  /\ UNCHANGED <<serverVars, call, net, agent, faults, stops>>

-----------------------------------------------------------------------------
Next ==
  \/ \E limit \in Limits : EnsureBudgetAccount(limit)
  \/ \E c \in Calls : BeginCall(c)
  \/ \E c \in Calls, returned \in BOOLEAN, cost \in Costs : ProviderEnds(c, returned, cost)
  \/ \E r \in net : Execute(r)
  \/ \E c \in Calls : AttemptFails(c)
  \/ \E f \in Refunds, c \in Calls, amount \in RefundAmounts : RefundBudgetSpend(f, c, amount)
  \/ AgentDies
  \/ StartAgent
  \/ StopAgent
  \/ ListOpenReservations
  \/ \E r \in cleaner.left : ReleaseListed(r)
  \/ EndCleanup

Spec == Init /\ [][Next]_vars

-----------------------------------------------------------------------------
(* Properties *)

SumOf(kind) == Amounts({e \in ledger : e.kind = kind})
SumFor(kind, c) == Amounts({e \in ledger : e.kind = kind /\ e.of = c})

\* The account's counters and the reservations are what the ledger's entries
\* add up to, whatever was retried, replayed or came late
\* (applyBudgetReservationDelta, handleExistingBudgetEntryTx), and no spend is
\* refunded beyond its amount (RefundBudgetSpend).
BooksBalance ==
  /\ account.reserved = Total([c \in Calls |-> Unspent(c)])
  /\ account.spent = SumOf("SPEND") /\ account.refunded = SumOf("REFUND")
  /\ \A c \in Calls :
       /\ reservation[c].amount = SumFor("RESERVE", c)
       /\ reservation[c].spent = SumFor("SPEND", c)
       /\ reservation[c].released = SumFor("RELEASE", c) + SumFor("STOP", c)
       /\ SumFor("REFUND", c) <= SumFor("SPEND", c)

\* No account is overspent in the sense of GetBudgetLedgerHealthSnapshot: what
\* is reserved and spent stays within the limit, also when limits are lowered
\* and amounts refunded between the calls.
WithinLimit == Committed <= account.limit

\* The agent gets a provider's answer only when its cost has been charged in
\* full and was within the reservation (Chat, captureLLMCallSpend: "failing
\* closed"), although the spend may have been retried, and the reservation
\* released by the manager under the call.
AnswerCharged ==
  \A c \in Calls :
    call[c].phase = "ANSWERED" =>
      /\ Entry("SPEND", c, c, Charge(call[c].cost)) \in ledger
      /\ call[c].cost <= Reserve

\* A call that is over leaves a reservation open only if one of its requests
\* failed or the process died: no path through Chat and captureLLMCallSpend
\* forgets a rest, and no refusal by a clean-up in between leaves one.
LeakNeedsFault ==
  \A c \in Calls :
    call[c].phase \in {"ANSWERED", "FAILED"} /\ reservation[c].status = "OPEN"
      => call[c].faulted
=============================================================================
