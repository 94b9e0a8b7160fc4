SPECIFICATION FairSpec
CONSTANTS
    q1 = q1
    q2 = q2
    d1 = d1
    d2 = d2
    d3 = d3
    s1 = s1
    s2 = s2
    None = None
    Requests <- TwoQuestions
    Responders <- TwoResponders
    Sessions <- TwoSessions
INVARIANT RecordedAnswerWins
INVARIANT OneRecordedAnswer
INVARIANT SidesAgree
PROPERTY ImplementsOneShotAnswer
PROPERTY WaitEnds
CHECK_DEADLOCK FALSE
