---------------------------- MODULE MCAgentReply ----------------------------
\* Instances of AgentReply for TLC.  A reply with a final output tool never
\* gets to look at its goal, grind or attempts: there, one value is enough.
EXTENDS AgentReply

NoRetry == -1

MCInit == Init /\ (final_output # "absent" => ~goal /\ ~grind /\ attempts = 0)

MCSpec == MCInit /\ [][Next]_vars /\ WF_vars(Progress)
=============================================================================
