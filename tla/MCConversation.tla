--------------------------- MODULE MCConversation ---------------------------
\* Instances of Conversation for TLC.
EXTENDS Conversation

CONSTANTS a, b

SomeIds == {a, b}

Of(role, item) == [role |-> role, visible |-> TRUE, item |-> item]

\* Two tool calls, which may be made by the wrong role and answered early, late,
\* twice, emptily or not at all, and texts around them, blank ones among them.
SomeDeltas ==
    {Of("user", Text(1, FALSE)),
     Of("assistant", Text(1, TRUE)),
     Of("assistant", Text(0, TRUE)),
     Of("assistant", Item("request", a)),
     Of("assistant", Item("request", b)),
     Of("user", Item("request", a)),
     Of("user", Response(a, FALSE)),
     Of("user", Response(b, TRUE)),
     [role |-> "user", visible |-> FALSE, item |-> Text(1, FALSE)]}
=============================================================================
