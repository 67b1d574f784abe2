--------------------------- MODULE MCDagExecution ---------------------------
EXTENDS DagExecution, TLC

CONSTANTS a, b, c

\* c needs both others.
Join == (a :> {}) @@ (b :> {}) @@ (c :> {a, b})

\* c needs a; b stands alone.
Pair == (a :> {}) @@ (b :> {}) @@ (c :> {a})
=============================================================================
