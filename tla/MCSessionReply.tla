--------------------------- MODULE MCSessionReply ---------------------------
\* Instances of SessionReply for TLC.
EXTENDS SessionReply

CONSTANTS t1, t2, t3, r1, r2, r3

ThreeTasks == {t1, t2, t3}
ThreeIds == {r1, r2, r3}
=============================================================================
