--------------------------- MODULE MCAgentSessions ---------------------------
EXTENDS AgentSessions, TLC
CONSTANTS a1, a2, t1, s1, s2, x1, g1
Symmetry == Permutations({a1, a2})
=============================================================================
