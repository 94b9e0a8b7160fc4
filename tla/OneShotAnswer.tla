---------------------------- MODULE OneShotAnswer ----------------------------
(***************************************************************************)
(* What an elicitation promises, without locks, channels or a registry:    *)
(* each question is decided once, by one answer, by its timeout or because *)
(* its asker is gone, and both sides are told what was decided.            *)
(***************************************************************************)
CONSTANTS
    Questions,
    Answers,        \* attempts to answer
    Undecided, Expired, Abandoned

VARIABLES
    decision,       \* question -> its outcome
    told,           \* question -> outcome its asker was given
    acknowledged    \* answers whose sender was told they were accepted

vars == <<decision, told, acknowledged>>

Outcomes == Answers \cup {Undecided, Expired, Abandoned}

TypeOK ==
    /\ decision \in [Questions -> Outcomes]
    /\ told \in [Questions -> Outcomes]
    /\ acknowledged \subseteq Answers

Init ==
    /\ decision = [q \in Questions |-> Undecided]
    /\ told = [q \in Questions |-> Undecided]
    /\ acknowledged = {}

\* An answer decides an open question, and its sender is told so.
Accept(q, a) ==
    /\ decision[q] = Undecided
    /\ decision' = [decision EXCEPT ![q] = a]
    /\ acknowledged' = acknowledged \cup {a}
    /\ UNCHANGED told

Expire(q) ==
    /\ decision[q] = Undecided
    /\ decision' = [decision EXCEPT ![q] = Expired]
    /\ told' = [told EXCEPT ![q] = Expired]
    /\ UNCHANGED acknowledged

\* The asker goes away: no answer can decide the question any more.
Abandon(q) ==
    /\ decision[q] = Undecided
    /\ decision' = [decision EXCEPT ![q] = Abandoned]
    /\ UNCHANGED <<told, acknowledged>>

TellAsker(q) ==
    /\ decision[q] \in Answers
    /\ told[q] = Undecided
    /\ told' = [told EXCEPT ![q] = decision[q]]
    /\ UNCHANGED <<decision, acknowledged>>

Next ==
    \E q \in Questions :
        \/ \E a \in Answers \ acknowledged : Accept(q, a)
        \/ Expire(q)
        \/ Abandon(q)
        \/ TellAsker(q)

Spec == Init /\ [][Next]_vars
=============================================================================
