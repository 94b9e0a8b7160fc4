--------------------------- MODULE MCAgentManager ---------------------------
\* Instances of AgentManager for TLC.
EXTENDS AgentManager

CONSTANTS s1, s2, c1, c2, x1, l1, l2, l3

TwoSessions == {s1, s2}
TwoCallers == {c1, c2}
OneRemover == {x1}
ThreeLocks == {l1, l2, l3}
=============================================================================
