---------------------------- MODULE MCElicitation ----------------------------
\* Instances of Elicitation for TLC: responders are interchangeable, and so
\* are the questions and the sessions.
EXTENDS Elicitation, TLC

CONSTANTS q1, q2, d1, d2, d3, s1, s2

OneQuestion == {q1}
TwoQuestions == {q1, q2}
TwoResponders == {d1, d2}
ThreeResponders == {d1, d2, d3}
TwoSessions == {s1, s2}

Symmetry == Permutations(TwoQuestions) \cup Permutations(TwoResponders)
                \cup Permutations(TwoSessions)
=============================================================================
