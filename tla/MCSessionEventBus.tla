------------------------- MODULE MCSessionEventBus -------------------------
\* Instances of SessionEventBus for TLC.
EXTENDS SessionEventBus

CONSTANTS p1, p2, c1

TwoPublishers == {p1, p2}
OneClient == {c1}
=============================================================================
