----------------------------- MODULE MCToolTurn -----------------------------
\* Instances of ToolTurn for TLC: an agent that may delegate d1 to its
\* subagent, which makes the call n1, and makes the call r1 itself.
EXTENDS ToolTurn

CONSTANTS main, sub, d1, r1, n1, tool

TwoAgents == {main, sub}
ThreeRequests == {d1, r1, n1}
OneTool == {tool}
Owner == [r \in ThreeRequests |-> IF r = n1 THEN sub ELSE main]
Delegation == [r \in ThreeRequests |-> IF r = d1 THEN sub ELSE NoAgent]
OneOrTwo == {1, 2}
Calls == [r \in ThreeRequests |-> tool]
=============================================================================
