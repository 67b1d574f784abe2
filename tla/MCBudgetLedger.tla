--------------------------- MODULE MCBudgetLedger ---------------------------
(* Calls and refunds are interchangeable. *)
EXTENDS BudgetLedger, TLC

Interchangeable == Permutations(Calls) \cup Permutations(Refunds)
=============================================================================
