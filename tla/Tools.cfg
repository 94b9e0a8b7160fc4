SPECIFICATION FairSpec
CONSTANTS
    main = main
    sub = sub
    d1 = d1
    r1 = r1
    n1 = n1
    tool = tool
    NoAgent = NoAgent
    NoRequest = NoRequest
    Agents <- TwoAgents
    Requests <- ThreeRequests
    Tools <- OneTool
    AgentOf <- Owner
    SubagentOf <- Delegation
    ToolOf <- Calls
    Caps <- OneOrTwo
    Timeout = TRUE
INVARIANT TypeOK
INVARIANT PermitsBalance
INVARIANT RunsOnlyIfAllowed
INVARIANT AnsweredOnce
INVARIANT DenialStands
PROPERTY TurnEnds
CHECK_DEADLOCK FALSE
