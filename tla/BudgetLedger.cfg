\* Two calls against one account, with changing limits, failures and stops.
CONSTANTS
  Calls = {c1, c2}
  Reserve = 3
  Costs = {0, 1, 4}
  Limits = {3, 5}
  Refunds = {f1, f2}
  RefundAmounts = {2}
  MaxAttempts = 2
  MaxFaults = 2
  MaxStops = 2
SPECIFICATION Spec
SYMMETRY Interchangeable
INVARIANTS BooksBalance WithinLimit AnswerCharged LeakNeedsFault
CHECK_DEADLOCK FALSE
