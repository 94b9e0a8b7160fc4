------------------------------ MODULE ToolTurn ------------------------------
(***************************************************************************)
(* The tool calls of one response after another: the part of the agent     *)
(* loop that inspects them, asks the user, runs them and collects their    *)
(* responses (agents/agent.rs), with the confirmation router               *)
(* (tool_confirmation_router.rs), the approvals (tool_execution.rs), the   *)
(* mixing of the inspectors' results (tool_inspection.rs) and the governor *)
(* that bounds running tools (tool_governor.rs).                           *)
(*                                                                         *)
(* A call may delegate to a subagent, whose own calls go through the same  *)
(* steps while the delegating call is polled; governor and permissions are *)
(* shared by all agents of the process.  A request is made once.           *)
(***************************************************************************)
EXTENDS Integers, Sequences, FiniteSets

CONSTANTS
    Agents,
    NoAgent,
    Requests,       \* tool requests, by their ids
    NoRequest,
    Tools,
    AgentOf,        \* request -> the agent whose model makes it
    SubagentOf,     \* request -> the subagent it delegates to, or NoAgent
    ToolOf,         \* request -> the tool it calls
    Caps,           \* values of BHARATCODE_TOOL_MAX_INFLIGHT
    Timeout         \* whether BHARATCODE_TOOL_TIMEOUT_SECS is set

ASSUME ToolAssumption ==
    /\ IsFiniteSet(Requests)
    /\ NoRequest \notin Requests
    /\ NoAgent \notin Agents
    /\ AgentOf \in [Requests -> Agents]
    /\ SubagentOf \in [Requests -> Agents \cup {NoAgent}]
    /\ ToolOf \in [Requests -> Tools]
    /\ Caps \subseteq Nat \ {0}
    /\ Timeout \in BOOLEAN
    /\ \A r \in Requests : SubagentOf[r] # AgentOf[r]
    /\ \A r, q \in Requests :
          SubagentOf[r] # NoAgent =>
             /\ SubagentOf[r] = SubagentOf[q] => r = q
             /\ SubagentOf[r] = AgentOf[q] => SubagentOf[q] = NoAgent

VARIABLES
    mode,           \* the mode of the agents
    max_in_flight,  \* the governor's limit, read once
    user_permission,\* tool -> the level the user has set
    pc,             \* agent -> where its turn is
    batch,          \* agent -> the requests of the current turn
    cancelled,      \* agent -> its cancel token
    lists,          \* request -> the lists inspection has put it on
    to_ask,         \* agent -> requests the user has yet to be asked about
    asking,         \* agent -> the request whose confirmation it awaits
    confirmation,   \* agent -> what its receiver holds, or "none"
    pending,        \* agent -> entries of its confirmation router
    stream,         \* request -> the stream of its call
    permits,        \* free permits of the governor
    answers,        \* request -> its responses
    \* History variables.
    recorded,       \* requests whose turn has been recorded ...
    cut,            \* ... and of these, those of a cancelled turn
    said,           \* request -> what the user was heard to say
    ruled,          \* tool -> what the user last said for good
    rule_at         \* request -> what that was when it was inspected

turnVars     == <<pc, batch, cancelled, lists, to_ask>>
approvalVars == <<user_permission, asking, confirmation, pending>>
runVars      == <<stream, permits>>
historyVars  == <<recorded, cut, said, ruled, rule_at>>
config == <<mode, max_in_flight>>
vars == <<config, turnVars, approvalVars, runVars, answers, historyVars>>

Permissions == {"allow_once", "always_allow", "deny_once", "always_deny"}
Levels == {"unset", "always_allow", "ask_before", "never_allow"}

Delegates(a) == {r \in Requests : SubagentOf[r] = a}

\* A subagent has no user to ask, and takes a turn only while it is polled.
Unattended(a) == Delegates(a) # {}
Polled(a) == \A r \in Delegates(a) : stream[r] = "running"

\* A subagent has the cancel token of the call that delegated to it.
Cancelled(a) ==
    \/ cancelled[a]
    \/ \E r \in Delegates(a) : cancelled[AgentOf[r]]

Init ==
    /\ mode \in {"auto", "approve", "chat"}
    /\ user_permission \in [Tools -> Levels]
    /\ pc = [a \in Agents |-> "idle"]
    /\ batch = [a \in Agents |-> {}]
    /\ cancelled = [a \in Agents |-> FALSE]
    /\ lists = [r \in Requests |-> {}]
    /\ to_ask = [a \in Agents |-> {}]
    /\ asking = [a \in Agents |-> NoRequest]
    /\ confirmation = [a \in Agents |-> "none"]
    /\ pending = [a \in Agents |-> {}]
    /\ stream = [r \in Requests |-> "none"]
    /\ max_in_flight \in Caps
    /\ permits = max_in_flight
    /\ answers = [r \in Requests |-> <<>>]
    /\ recorded = {}
    /\ cut = {}
    /\ said = [r \in Requests |-> "none"]
    /\ ruled = [t \in Tools |-> "none"]
    /\ rule_at = [r \in Requests |-> "none"]

-----------------------------------------------------------------------------
\* The permission inspector: a level the user has set decides; else the mode
\* ("approve" is also smart approve), the tool's annotations, the cache or the
\* judge do.
Baseline(r) ==
    LET level == user_permission[ToolOf[r]]
    IN  IF mode = "auto" \/ level = "always_allow" THEN {"approved"}
        ELSE IF level = "never_allow" THEN {"denied"}
        ELSE IF level = "ask_before" THEN {"needs_approval"}
        ELSE {"approved", "denied", "needs_approval"}

\* Mutant of Mix: an alert does not take the request off the approved list.
MixAlert(l, action) ==
    IF action = "deny" THEN {"denied"}
    ELSE IF action = "require_approval" THEN l \cup {"needs_approval"}
    ELSE l

\* apply_inspection_results_to_permissions, for one result of one request.
Mix(l, action) ==
    IF action = "deny" THEN {"denied"}
    ELSE IF action = "require_approval"
         THEN (l \ {"approved"}) \cup {"needs_approval"}
    ELSE l

\* The lists a request may come out on: the security, egress and adversary
\* inspectors override the permission inspector, in this order.
Outcomes(r) ==
    {Mix(Mix(Mix({b}, security), egress), adversary) :
        b \in Baseline(r),
        security \in {"allow", "require_approval"},
        egress \in {"allow", "require_approval", "deny"},
        adversary \in {"allow", "deny"}}

Fresh(a) ==
    {r \in Requests : AgentOf[r] = a /\ lists[r] = {}}

\* Mutant of Denials: a denied request gets no response.
NoDenials(a, l) == <<>>

\* deny_unattended_approvals and handle_denied_tools: a response for each time
\* the request is on the list of denied ones.
Denials(a, l) ==
    (IF "denied" \in l THEN <<"declined">> ELSE <<>>)
      \o (IF Unattended(a) /\ "needs_approval" \in l THEN <<"declined">>
                                                     ELSE <<>>)

\* A response with tool calls: inspect them all, dispatch the approved ones,
\* answer the denied ones.
StartTurn(a) ==
    /\ mode # "chat"
    /\ pc[a] = "idle"
    /\ Polled(a)
    /\ ~Cancelled(a)
    /\ \E B \in SUBSET Fresh(a) \ {{}} :
       \E l \in [B -> UNION {Outcomes(r) : r \in B}] :
          /\ \A r \in B : l[r] \in Outcomes(r)
          /\ batch' = [batch EXCEPT ![a] = B]
          /\ lists' = [r \in Requests |-> IF r \in B THEN l[r] ELSE lists[r]]
          /\ rule_at' = [r \in Requests |->
                IF r \in B THEN ruled[ToolOf[r]] ELSE rule_at[r]]
          /\ stream' = [r \in Requests |->
                IF r \in B /\ "approved" \in l[r] THEN "queued" ELSE stream[r]]
          /\ answers' = [r \in Requests |->
                IF r \in B THEN Denials(a, l[r]) ELSE answers[r]]
          /\ to_ask' = [to_ask EXCEPT ![a] =
                IF Unattended(a) THEN {}
                ELSE {r \in B : "needs_approval" \in l[r]}]
    /\ pc' = [pc EXCEPT ![a] = "approve"]
    /\ UNCHANGED <<config, cancelled, approvalVars, permits, recorded, cut, said,
                   ruled>>

\* In chat mode every call is skipped, and answered with that.
ChatTurn(a) ==
    /\ mode = "chat"
    /\ pc[a] = "idle"
    /\ Polled(a)
    /\ ~Cancelled(a)
    /\ \E B \in SUBSET Fresh(a) \ {{}} :
          /\ lists' = [r \in Requests |->
                IF r \in B THEN {"skipped"} ELSE lists[r]]
          /\ answers' = [r \in Requests |->
                IF r \in B THEN <<"skipped">> ELSE answers[r]]
          /\ recorded' = recorded \cup B
    /\ UNCHANGED <<config, pc, batch, cancelled, to_ask, approvalVars, runVars,
                   cut, said, ruled, rule_at>>

-----------------------------------------------------------------------------
\* Somebody waits for the entry: its sender is not closed.
Open(a, r) == asking[a] = r

\* The router takes another request, sweeps closed entries, and the user is
\* asked.  The receiver is awaited whether the turn is cancelled or not.
Ask(a) ==
    /\ pc[a] = "approve"
    /\ \E r \in to_ask[a] :
          /\ asking' = [asking EXCEPT ![a] = r]
          /\ to_ask' = [to_ask EXCEPT ![a] = @ \ {r}]
          /\ pending' = [pending EXCEPT ![a] = {q \in @ : Open(a, q)} \cup {r}]
    /\ pc' = [pc EXCEPT ![a] = "ask"]
    /\ UNCHANGED <<config, batch, cancelled, lists, user_permission,
                   confirmation, runVars, answers, historyVars>>

\* deliver: the user confirms the request that is asked about ...
Confirm(a) ==
    /\ asking[a] \in pending[a]
    /\ \E p \in Permissions :
          /\ confirmation' = [confirmation EXCEPT ![a] = p]
          /\ said' = [said EXCEPT ![asking[a]] = p]
    /\ pending' = [pending EXCEPT ![a] = @ \ {asking[a]}]
    /\ UNCHANGED <<config, turnVars, user_permission, asking, runVars, answers,
                   recorded, cut, ruled, rule_at>>

\* ... or one whose turn was dropped meanwhile.  (A confirmation that comes
\* before the question, or a second time, finds no entry and changes nothing.)
ConfirmLate(a) ==
    /\ \E r \in pending[a] \ {asking[a]} :
          pending' = [pending EXCEPT ![a] = @ \ {r}]
    /\ UNCHANGED <<config, turnVars, user_permission, asking, confirmation,
                   runVars, answers, historyVars>>

Allows(p) == p \in {"allow_once", "always_allow"}

\* Mutants of NewLevel: an answer for good is not kept, kept as it is.
SameLevel(level, p) == level
AnswerAsLevel(level, p) == p

\* update_permission_manager.
NewLevel(level, p) ==
    CASE p = "always_allow" -> "always_allow"
      [] p = "always_deny"  -> "never_allow"
      [] OTHER              -> level

\* The answer is taken: dispatch the call or decline it, and keep the answer
\* if it was given for good.
Decide(a) ==
    LET r == asking[a]
        p == confirmation[a]
        t == ToolOf[r]
    IN  /\ pc[a] = "ask"
        /\ p # "none"
        /\ IF Allows(p)
           THEN /\ stream' = [stream EXCEPT ![r] = "queued"]
                /\ UNCHANGED answers
           ELSE /\ answers' = [answers EXCEPT ![r] = Append(@, "declined")]
                /\ UNCHANGED stream
        /\ user_permission' = [user_permission EXCEPT ![t] = NewLevel(@, p)]
        /\ ruled' = [ruled EXCEPT ![t] =
                        IF p \in {"always_allow", "always_deny"} THEN p ELSE @]
        /\ asking' = [asking EXCEPT ![a] = NoRequest]
        /\ confirmation' = [confirmation EXCEPT ![a] = "none"]
        /\ pc' = [pc EXCEPT ![a] = "approve"]
        /\ UNCHANGED <<config, batch, cancelled, lists, to_ask, pending, permits,
                       recorded, cut, said, rule_at>>

\* All approvals are settled: from now on the streams are polled.
RunTools(a) ==
    /\ pc[a] = "approve"
    /\ to_ask[a] = {}
    /\ pc' = [pc EXCEPT ![a] = "run"]
    /\ UNCHANGED <<config, batch, cancelled, lists, to_ask, approvalVars,
                   runVars, answers, historyVars>>

-----------------------------------------------------------------------------
\* wrap_stream: the call starts when it gets a permit of the governor.
Acquire(r) ==
    /\ pc[AgentOf[r]] = "run"
    /\ stream[r] = "queued"
    /\ permits > 0
    /\ permits' = permits - 1
    /\ stream' = [stream EXCEPT ![r] = "running"]
    /\ UNCHANGED <<config, turnVars, approvalVars, answers, historyVars>>

\* The agents that are dropped with the streams in S: their subagents.
Subagents(S) ==
    {SubagentOf[r] : r \in {q \in S : stream[q] = "running"}} \ {NoAgent}

\* The streams that are dropped with those in S.
Below(S) == S \cup UNION {batch[a] : a \in Subagents(S)}

\* Mutant of Released: the streams of a subagent keep their permits.
ReleasedAtTop(S) ==
    Cardinality({r \in S : stream[r] = "running"})

\* The permits that come back when the streams in S and below are dropped.
Released(S) ==
    Cardinality({r \in Below(S) : stream[r] = "running"})

DropStreams(S) ==
    [r \in Requests |->
        IF r \in Below(S) /\ stream[r] \in {"queued", "running"}
        THEN "dropped" ELSE stream[r]]

\* What becomes of the subagents dropped with the streams in S: they are gone.
Stop(A) == pc' = [a \in Agents |-> IF a \in A THEN "idle" ELSE pc[a]]

\* A call returns its result; one that delegates, when its subagent is done.
Return(r) ==
    /\ stream[r] = "running"
    /\ SubagentOf[r] # NoAgent => pc[SubagentOf[r]] = "idle"
    /\ stream' = [stream EXCEPT ![r] = "done"]
    /\ permits' = permits + 1
    /\ answers' = [answers EXCEPT ![r] = Append(@, "result")]
    /\ UNCHANGED <<config, turnVars, approvalVars, historyVars>>

\* Mutant of MayTimeOut: a call that delegates never times out.
MayTimeOutAlone(r) == Timeout /\ SubagentOf[r] = NoAgent

MayTimeOut(r) == Timeout

\* A call takes too long: an error is its result, and what ran is dropped.
\* The clock starts with the permit.
TimeOut(r) ==
    /\ MayTimeOut(r)
    /\ stream[r] = "running"
    /\ stream' = [DropStreams({r}) EXCEPT ![r] = "done"]
    /\ permits' = permits + Released({r})
    /\ answers' = [answers EXCEPT ![r] = Append(@, "result")]
    /\ Stop(Subagents({r}))
    /\ UNCHANGED <<config, batch, cancelled, lists, to_ask, approvalVars,
                   historyVars>>

-----------------------------------------------------------------------------
\* The user cancels the reply.
Cancel(a) ==
    /\ ~Unattended(a)
    /\ pc[a] # "idle"
    /\ ~cancelled[a]
    /\ cancelled' = [cancelled EXCEPT ![a] = TRUE]
    /\ UNCHANGED <<config, pc, batch, lists, to_ask, approvalVars, runVars,
                   answers, historyVars>>

Finished(a) == \A r \in batch[a] : stream[r] \notin {"queued", "running"}

\* All streams have ended, or the loop sees the cancellation: the requests
\* are recorded with the responses there are.
EndTurn(a) ==
    /\ pc[a] = "run"
    /\ Cancelled(a) \/ Finished(a)
    /\ Stop({a} \cup Subagents(batch[a]))
    /\ stream' = DropStreams(batch[a])
    /\ permits' = permits + Released(batch[a])
    /\ recorded' = recorded \cup batch[a]
    /\ cut' = IF Cancelled(a) THEN cut \cup batch[a] ELSE cut
    /\ cancelled' = [cancelled EXCEPT ![a] = FALSE]
    /\ UNCHANGED <<config, batch, lists, to_ask, approvalVars, answers, said,
                   ruled, rule_at>>

\* The client goes away: the stream of the reply is dropped where it stands,
\* the receiver and the streams of the calls with it.
DropReply(a) ==
    /\ ~Unattended(a)
    /\ pc[a] # "idle"
    /\ Stop({a} \cup Subagents(batch[a]))
    /\ stream' = DropStreams(batch[a])
    /\ permits' = permits + Released(batch[a])
    /\ asking' = [asking EXCEPT ![a] = NoRequest]
    /\ confirmation' = [confirmation EXCEPT ![a] = "none"]
    /\ to_ask' = [to_ask EXCEPT ![a] = {}]
    /\ cancelled' = [cancelled EXCEPT ![a] = FALSE]
    /\ UNCHANGED <<config, batch, lists, user_permission, pending, answers,
                   historyVars>>

-----------------------------------------------------------------------------
Turn(a) == Ask(a) \/ Decide(a) \/ RunTools(a) \/ EndTurn(a)

Next ==
    \/ \E a \in Agents :
          \/ StartTurn(a) \/ ChatTurn(a) \/ Turn(a)
          \/ Confirm(a) \/ ConfirmLate(a) \/ Cancel(a) \/ DropReply(a)
    \/ \E r \in Requests : Acquire(r) \/ Return(r) \/ TimeOut(r)

Spec == Init /\ [][Next]_vars

\* The stream of the reply is polled, the user answers what is asked, a permit
\* that is free is handed out, and a call that runs too long times out.  Tools
\* owe nothing: a call may hang.
Fairness ==
    /\ \A a \in Agents : WF_vars(Turn(a)) /\ WF_vars(Confirm(a))
    /\ WF_vars(\E r \in Requests : Acquire(r))
    /\ \A r \in Requests : WF_vars(TimeOut(r))

FairSpec == Spec /\ Fairness

-----------------------------------------------------------------------------
ListNames == {"approved", "needs_approval", "denied", "skipped"}

\* Types of the variables.
TypeOK ==
    /\ mode \in {"auto", "approve", "chat"}
    /\ user_permission \in [Tools -> Levels]
    /\ pc \in [Agents -> {"idle", "approve", "ask", "run"}]
    /\ batch \in [Agents -> SUBSET Requests]
    /\ cancelled \in [Agents -> BOOLEAN]
    /\ lists \in [Requests -> SUBSET ListNames]
    /\ to_ask \in [Agents -> SUBSET Requests]
    /\ asking \in [Agents -> Requests \cup {NoRequest}]
    /\ confirmation \in [Agents -> Permissions \cup {"none"}]
    /\ pending \in [Agents -> SUBSET Requests]
    /\ stream \in [Requests -> {"none", "queued", "running", "done", "dropped"}]
    /\ max_in_flight \in Caps
    /\ permits \in 0..max_in_flight
    /\ answers \in [Requests -> Seq({"declined", "result", "skipped"})]
    /\ recorded \subseteq Requests
    /\ cut \subseteq Requests
    /\ said \in [Requests -> Permissions \cup {"none"}]
    /\ ruled \in [Tools -> {"none", "always_allow", "always_deny"}]
    /\ rule_at \in [Requests -> {"none", "always_allow", "always_deny"}]

Running == {r \in Requests : stream[r] = "running"}

\* "dropping it (on completion or cancellation) releases the slot"
\* (tool_governor.rs): however calls end, in whatever agent, every permit is
\* either free or held by one running call.
PermitsBalance == permits + Cardinality(Running) = max_in_flight

\* The user allows the call.
Yes == {"allow_once", "always_allow"}

\* A call is only dispatched if the inspectors approved it and none of them
\* wants the user asked, or if the user said yes to this very request.
RunsOnlyIfAllowed ==
    \A r \in Requests : stream[r] # "none" =>
        lists[r] = {"approved"} \/ said[r] \in Yes

\* Each request of a turn that is recorded and was not cancelled has exactly
\* one response, whichever way it went, as providers demand.  The exception is
\* a request that is denied and, by a later inspector, to be asked about, too:
\* it is declined, and asked about, and may run.
AnsweredOnce ==
    \A r \in recorded \ cut :
        {"denied", "needs_approval"} \subseteq lists[r] \/ Len(answers[r]) = 1

\* What the user answers for good holds for the calls of that tool inspected
\* later, in any agent: a denial (but in auto mode) until they say yes again.
DenialStands ==
    \A r \in Requests :
        /\ mode # "auto"
        /\ rule_at[r] = "always_deny"
        /\ stream[r] # "none"
        => said[r] \in Yes

\* A turn ends, even if tools hang and a delegated call holds the permit the
\* calls of its subagent wait for: "so the turn can make progress instead of
\* blocking forever on the slow tool" (tool_governor.rs).
TurnEnds == \A a \in Agents : (pc[a] # "idle") ~> (pc[a] = "idle")
=============================================================================
