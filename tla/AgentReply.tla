----------------------------- MODULE AgentReply -----------------------------
(***************************************************************************)
(* The agent loop of bharatcode-core: Agent::reply_internal in             *)
(* agents/agent.rs with the retry logic of agents/retry.rs, over a         *)
(* sequence of replies in one session.                                     *)
(*                                                                         *)
(* An iteration asks the provider once, runs the tools it calls, decides   *)
(* whether to go on, saves the new messages, and asks the Stop hook before *)
(* it ends.  The user may cancel, or steer with another message, between   *)
(* any two steps.  A message is its kind; one exchange of tool calls and   *)
(* their responses is the single message "tools".                          *)
(***************************************************************************)
EXTENDS Integers, Sequences

CONSTANTS
    MaxTurns,       \* max_turns
    StopCap,        \* BHARATCODE_STOP_HOOK_BLOCK_CAP
    RetryLimit,     \* max_retries of the recipe's retry_config, -1 for none
    MaxItems,       \* bound: items of one provider stream
    MaxSteers,      \* bound: steering messages
    MaxReplies      \* bound: replies of the session

ASSUME AgentAssumption ==
    /\ MaxTurns \in Nat
    /\ StopCap \in Nat
    /\ RetryLimit \in Nat \cup {-1}
    /\ MaxItems \in Nat
    /\ MaxSteers \in Nat
    /\ MaxReplies \in Nat

VARIABLES
    \* The agent and its session, which outlive a reply.
    store,          \* the conversation in the session store
    steers,         \* pending_steers of the session
    final_output,   \* the recipe's final_output_tool: "absent" if it has
                    \* none, "empty" or "full"
    goal, grind,    \* whether one is set
    attempts,       \* RetryManager's attempts
    \* The locals of reply_internal.
    pc,
    cancelled,      \* the cancel token
    conversation, initial_messages, messages_to_add,
    turns_taken, compaction_attempts, consecutive_stop_hook_blocks,
    goal_check_pending, retrying, can_drain, stop_hook_handled,
    exit_chat, no_tools_called, did_recovery_compact,
    tool_pair_summarization_done,
    \* Bounds and history.
    items,          \* items of the current stream
    steered,        \* steering messages so far
    replies,        \* replies so far
    calls,          \* provider calls of this reply
    retries,        \* times this reply has started over
    verdict,        \* how the provider ended this reply, if it did
    saw_cancel,     \* this reply has broken off because it was cancelled
    late,           \* steers queued since the last look at the queue
    ending          \* how the last reply ended

sessionVars == <<store, steers, final_output, goal, grind, attempts>>
convVars    == <<conversation, initial_messages, messages_to_add>>
countVars   == <<turns_taken, compaction_attempts,
                 consecutive_stop_hook_blocks, retrying>>
exitVars    == <<exit_chat, no_tools_called, did_recovery_compact,
                 tool_pair_summarization_done>>
boundVars   == <<items, steered, replies>>
historyVars == <<calls, retries, verdict, saw_cancel, late, ending>>
vars == <<sessionVars, pc, cancelled, convVars, countVars, goal_check_pending,
          can_drain, stop_hook_handled, exitVars, boundVars, historyVars>>

MayRetry == attempts < RetryLimit

\* Mutant of CountAttempt: a denied stop sets the count back.
RecountAttempts ==
    attempts' = IF consecutive_stop_hook_blocks > 0 THEN 0 ELSE attempts + 1

CountAttempt == attempts' = attempts + 1

Repeat(m, n) == [i \in 1..n |-> m]

Init ==
    /\ store \in {<<>>, <<"tools">>}
    /\ steers = 0
    /\ final_output \in {"absent", "empty"}
    /\ goal \in BOOLEAN
    /\ grind \in BOOLEAN
    /\ attempts \in 0..RetryLimit \cup {0}     \* as earlier replies left it
    /\ pc = "idle"
    /\ cancelled = FALSE
    /\ conversation = <<>>
    /\ initial_messages = <<>>
    /\ messages_to_add = <<>>
    /\ turns_taken = 0
    /\ compaction_attempts = 0
    /\ consecutive_stop_hook_blocks = 0
    /\ goal_check_pending = FALSE
    /\ retrying = FALSE
    /\ can_drain = FALSE
    /\ stop_hook_handled = FALSE
    /\ exit_chat = FALSE
    /\ no_tools_called = TRUE
    /\ did_recovery_compact = FALSE
    /\ tool_pair_summarization_done = FALSE
    /\ items = 0
    /\ steered = 0
    /\ replies = 0
    /\ calls = 0
    /\ retries = 0
    /\ verdict = "none"
    /\ saw_cancel = FALSE
    /\ late = 0
    /\ ending = "none"

\* reply: save the user's message, compact the conversation when it is near
\* the context limit, and enter the loop with fresh locals.
StartReply ==
    /\ pc = "idle"
    /\ replies < MaxReplies
    /\ replies' = replies + 1
    /\ store' \in {Append(store, "user"), <<"summary">>}
    /\ conversation' = store'
    /\ initial_messages' = store'
    /\ messages_to_add' = <<>>
    /\ attempts' = 0
    /\ pc' = "top"
    /\ turns_taken' = 0
    /\ compaction_attempts' = 0
    /\ consecutive_stop_hook_blocks' = 0
    /\ goal_check_pending' = FALSE
    /\ retrying' = FALSE
    /\ can_drain' = FALSE
    /\ stop_hook_handled' = FALSE
    /\ calls' = 0
    /\ retries' = 0
    /\ verdict' = "none"
    /\ saw_cancel' = FALSE
    /\ late' = 0
    /\ tool_pair_summarization_done' = FALSE
    /\ UNCHANGED <<steers, final_output, goal, grind, cancelled, exit_chat,
                   no_tools_called, did_recovery_compact, items, steered,
                   ending>>

\* The reply fails before the loop: the message cannot be stored, compacting
\* fails, or what follows a compaction does.
FailToStart ==
    /\ pc = "idle"
    /\ replies < MaxReplies
    /\ replies' = replies + 1
    /\ store' \in {store, Append(store, "user"), <<"summary">>}
    /\ ending' = "failed"
    /\ UNCHANGED <<steers, final_output, goal, grind, attempts, pc, cancelled,
                   convVars, countVars, goal_check_pending, can_drain,
                   stop_hook_handled, exitVars, items, steered, calls,
                   retries, verdict, saw_cancel, late>>

\* The user cancels the reply.
Cancel ==
    /\ pc # "idle"
    /\ ~cancelled
    /\ cancelled' = TRUE
    /\ UNCHANGED <<sessionVars, pc, convVars, countVars, goal_check_pending,
                   can_drain, stop_hook_handled, exitVars, boundVars,
                   historyVars>>

\* Agent::steer, while a run is active.  The loop looks at the queue at its
\* top and before it ends; what comes after that look is late.
Steer ==
    /\ pc # "idle"
    /\ steered < MaxSteers
    /\ steered' = steered + 1
    /\ steers' = steers + 1
    /\ late' = IF pc \in {"final", "hook", "after"} THEN late + 1 ELSE late
    /\ UNCHANGED <<store, final_output, goal, grind, attempts, pc, cancelled,
                   convVars, countVars, goal_check_pending, can_drain,
                   stop_hook_handled, exitVars, items, replies, calls,
                   retries, verdict, saw_cancel, ending>>

-----------------------------------------------------------------------------
\* The top of the loop: leave if cancelled, else take what was steered.
Top ==
    /\ pc = "top"
    /\ IF cancelled
       THEN /\ pc' = "after"
            /\ saw_cancel' = TRUE
            /\ UNCHANGED <<store, conversation, steers, late>>
       ELSE LET drained == IF can_drain THEN Repeat("steer", steers) ELSE <<>>
            IN  /\ pc' = "final"
                /\ store' = store \o drained
                /\ conversation' = conversation \o drained
                /\ steers' = IF can_drain THEN 0 ELSE steers
                /\ late' = 0
                /\ UNCHANGED saw_cancel
    /\ UNCHANGED <<final_output, goal, grind, attempts, cancelled,
                   initial_messages, messages_to_add, countVars,
                   goal_check_pending, can_drain, stop_hook_handled, exitVars,
                   boundVars, calls, retries, verdict, ending>>

\* The final output tool was called in the previous iteration.
TakeFinalOutput ==
    /\ pc = "final"
    /\ final_output = "full"
    /\ final_output' = "empty"
    /\ store' = Append(store, "final")
    /\ conversation' = Append(conversation, "final")
    /\ pc' = "hook"
    /\ UNCHANGED <<steers, goal, grind, attempts, cancelled, initial_messages,
                   messages_to_add, countVars, goal_check_pending, can_drain,
                   stop_hook_handled, exitVars, boundVars, historyVars>>

\* Mutant of NextTurn: a retry after a denied stop is never counted.
FreeTurn == IF consecutive_stop_hook_blocks > 0 THEN turns_taken
                                                 ELSE turns_taken + 1

\* A retry the Stop hook asked for is not counted as a turn.
NextTurn == IF retrying THEN turns_taken ELSE turns_taken + 1

\* Count the turn; past the limit the loop ends, else it calls the provider.
BeginTurn ==
    /\ pc = "final"
    /\ final_output # "full"
    /\ turns_taken' = NextTurn
    /\ retrying' = FALSE
    /\ IF NextTurn > MaxTurns
       THEN pc' = "after" /\ UNCHANGED calls
       ELSE pc' = "stream" /\ calls' = calls + 1
    /\ items' = 0
    /\ messages_to_add' = <<>>
    /\ exit_chat' = FALSE
    /\ no_tools_called' = TRUE
    /\ did_recovery_compact' = FALSE
    /\ UNCHANGED tool_pair_summarization_done
    /\ UNCHANGED <<sessionVars, cancelled, conversation, initial_messages,
                   compaction_attempts, consecutive_stop_hook_blocks,
                   goal_check_pending, can_drain, stop_hook_handled, steered,
                   replies, retries, verdict, saw_cancel, late, ending>>

-----------------------------------------------------------------------------
\* The loop reads another item: it is not cancelled and not about to exit.
Reading ==
    /\ pc = "stream"
    /\ ~cancelled
    /\ ~exit_chat

\* An item that is a response; it proves that the context fits again.
Response ==
    /\ Reading
    /\ items < MaxItems
    /\ items' = items + 1
    /\ compaction_attempts' = 0
    /\ UNCHANGED <<store, steers, goal, grind, attempts, pc, cancelled,
                   conversation, initial_messages, turns_taken,
                   consecutive_stop_hook_blocks, retrying, can_drain,
                   stop_hook_handled, did_recovery_compact,
                   tool_pair_summarization_done, steered, replies,
                   historyVars>>

Text ==
    /\ Response
    /\ messages_to_add' = Append(messages_to_add, "text")
    /\ UNCHANGED <<final_output, exit_chat, no_tools_called,
                   goal_check_pending>>

\* Tools are run; one may be the final output tool.
RunTools ==
    /\ Response
    /\ no_tools_called' = FALSE
    /\ goal_check_pending' = FALSE
    /\ final_output' \in {final_output} \cup
                         (IF final_output = "absent" THEN {} ELSE {"full"})

ToolCalls ==
    /\ RunTools
    /\ messages_to_add' = Append(messages_to_add, "tools")
    /\ UNCHANGED exit_chat

\* A call that cannot be parsed ends the chat after this response; the calls
\* after it have run like the others but are not recorded.
UnparsableCall ==
    /\ RunTools
    /\ messages_to_add' \in
           {messages_to_add, Append(messages_to_add, "tools")}
    /\ exit_chat' = TRUE

\* Leaving the stream; from now on steers may be drained.
LeaveStream ==
    /\ pc = "stream"
    /\ pc' = "decide"
    /\ can_drain' = TRUE
    /\ UNCHANGED <<steers, final_output, goal, grind, attempts, cancelled,
                   initial_messages, messages_to_add, turns_taken,
                   consecutive_stop_hook_blocks, retrying, goal_check_pending,
                   stop_hook_handled, no_tools_called,
                   tool_pair_summarization_done, boundVars, calls, retries,
                   late, ending>>

\* Mutant of StreamEnds: nothing interrupts a stream that is cancelled.
StreamOutlivesCancel ==
    /\ ~cancelled
    /\ LeaveStream
    /\ UNCHANGED <<store, conversation, compaction_attempts, exit_chat,
                   did_recovery_compact, verdict, saw_cancel>>

\* The stream ends, or the loop or its StreamGuard sees the cancellation, or
\* the provider fails with an error that only ends the stream.
StreamEnds ==
    /\ LeaveStream
    /\ saw_cancel' = (saw_cancel \/ cancelled)
    /\ UNCHANGED <<store, conversation, compaction_attempts, exit_chat,
                   did_recovery_compact, verdict>>

\* A refusal, or a provider that stalls past its deadline: exit the chat.
Abort(how) ==
    /\ Reading
    /\ LeaveStream
    /\ exit_chat' = TRUE
    /\ verdict' = how
    /\ UNCHANGED <<store, conversation, compaction_attempts,
                   did_recovery_compact, saw_cancel>>

\* The context is exceeded: compact once and go on, unless that fails or
\* a compaction just before did not help.
ContextExceeded ==
    /\ Reading
    /\ LeaveStream
    /\ compaction_attempts' = compaction_attempts + 1
    /\ \/ /\ compaction_attempts' < 2
          /\ store' = <<"summary">>
          /\ conversation' = <<"summary">>
          /\ did_recovery_compact' = TRUE
       \/ UNCHANGED <<store, conversation, did_recovery_compact>>
    /\ UNCHANGED <<exit_chat, verdict, saw_cancel>>

-----------------------------------------------------------------------------
\* What every branch of the decision after the stream leaves alone.
Deciding ==
    /\ pc = "decide"
    /\ pc' = "save"
    /\ UNCHANGED <<steers, cancelled, initial_messages, countVars, can_drain,
                   stop_hook_handled, no_tools_called, did_recovery_compact,
                   tool_pair_summarization_done, boundVars, calls, verdict,
                   saw_cancel, late, ending>>

\* Only a turn without tools, and not about to exit, is at its end.
AtEnd == no_tools_called /\ ~exit_chat

NothingToDecide ==
    /\ ~AtEnd
    /\ Deciding
    /\ UNCHANGED <<store, conversation, messages_to_add, final_output, goal,
                   grind, attempts, retries, exit_chat, goal_check_pending>>

\* With a final output tool: ask for it, or take it and exit.
DecideFinalOutput ==
    /\ AtEnd
    /\ final_output # "absent"
    /\ Deciding
    /\ LET full == final_output = "full"
       IN  /\ messages_to_add' =
                Append(messages_to_add, IF full THEN "final" ELSE "nudge")
           /\ exit_chat' = full
    /\ final_output' = "empty"
    /\ UNCHANGED <<store, conversation, goal, grind, attempts,
                   retries, goal_check_pending>>

\* Go on after a recovery compaction, or with what was steered.
GoOn ==
    /\ AtEnd
    /\ final_output = "absent"
    /\ did_recovery_compact \/ steers > 0
    /\ Deciding
    /\ UNCHANGED <<store, conversation, messages_to_add, final_output, goal,
                   grind, attempts, retries, exit_chat, goal_check_pending>>

NothingPending ==
    /\ AtEnd
    /\ final_output = "absent"
    /\ ~did_recovery_compact
    /\ steers = 0

GoalDue == goal /\ ~goal_check_pending

\* Ask once whether the goal is met, and keep grinding.
Nudge ==
    /\ NothingPending
    /\ GoalDue \/ grind
    /\ Deciding
    /\ goal_check_pending' = (goal_check_pending \/ GoalDue)
    /\ messages_to_add' = Append(messages_to_add, "nudge")
    /\ UNCHANGED <<store, conversation, final_output, goal, grind, attempts,
                   retries, exit_chat>>

Concluding ==
    /\ NothingPending
    /\ ~GoalDue
    /\ ~grind
    /\ Deciding
    /\ goal' = FALSE
    /\ grind' = FALSE
    /\ UNCHANGED <<final_output, goal_check_pending>>

\* handle_retry_logic: no retry_config, its checks pass or they cannot run.
Conclude ==
    /\ Concluding
    /\ exit_chat' = TRUE
    /\ UNCHANGED <<store, conversation, messages_to_add, attempts, retries>>

\* handle_retry_logic: the checks fail and no attempt is left.
RetriesExceeded ==
    /\ RetryLimit # -1
    /\ ~MayRetry
    /\ Concluding
    /\ exit_chat' = TRUE
    /\ conversation' = Append(conversation, "exceeded")
    /\ UNCHANGED <<store, messages_to_add, attempts, retries>>

\* handle_retry_logic: the checks fail; start over from the first messages.
Retry ==
    /\ RetryLimit # -1
    /\ MayRetry
    /\ Concluding
    /\ CountAttempt
    /\ retries' = retries + 1
    /\ conversation' = initial_messages
    /\ store' = initial_messages
    /\ messages_to_add' = <<>>
    /\ UNCHANGED exit_chat

-----------------------------------------------------------------------------
\* Mutant of Leaving: does not look for steers before it exits.
LeavingBlindly == exit_chat

\* A steer that came in meanwhile keeps the chat going.
Leaving == exit_chat /\ steers = 0

\* Tool calls of earlier replies that the conversation still holds: the task
\* started with this iteration has summarized some, the first time there is
\* something to summarize.  The summaries are for the next reply.
PairSummaries ==
    IF /\ ~tool_pair_summarization_done
       /\ Len(initial_messages) <= Len(conversation)
       /\ SubSeq(conversation, 1, Len(initial_messages)) = initial_messages
       /\ \E i \in 1..Len(initial_messages) : initial_messages[i] = "tools"
    THEN {<<>>, <<"pair_summary">>} ELSE {<<>>}

\* Save the messages of this iteration, then exit or go on.
Save ==
    /\ pc = "save"
    /\ \E summaries \in PairSummaries :
          /\ store' = store \o summaries \o messages_to_add
          /\ tool_pair_summarization_done' =
                (tool_pair_summarization_done \/ summaries # <<>>)
    /\ conversation' = conversation \o messages_to_add
    /\ messages_to_add' = <<>>
    /\ exit_chat' = Leaving
    /\ pc' = IF Leaving THEN "hook" ELSE "top"
    /\ UNCHANGED <<steers, final_output, goal, grind, attempts, cancelled,
                   initial_messages, countVars, goal_check_pending, can_drain,
                   stop_hook_handled, no_tools_called, did_recovery_compact,
                   boundVars, historyVars>>

-----------------------------------------------------------------------------
(***************************************************************************)
(* Every call of the store, the provider or a tool inspector may fail: the *)
(* error leaves the loop at once, whatever was written stays written, and  *)
(* the Stop hook is not told.                                              *)
(***************************************************************************)
Fail ==
    /\ pc' = "idle"
    /\ steers' = 0
    /\ cancelled' = FALSE
    /\ ending' = "failed"
    /\ UNCHANGED <<grind, convVars, countVars, goal_check_pending, can_drain,
                   stop_hook_handled, exitVars, boundVars, calls, verdict,
                   saw_cancel, late>>

\* A steer cannot be stored: it and those after it are lost.
DrainFails ==
    /\ pc = "top"
    /\ ~cancelled
    /\ can_drain
    /\ \E n \in 0..(steers - 1) : store' = store \o Repeat("steer", n)
    /\ Fail
    /\ UNCHANGED <<final_output, goal, attempts, retries>>

\* The final output is taken from the tool but cannot be stored.
FinalOutputFails ==
    /\ pc = "final"
    /\ final_output = "full"
    /\ final_output' = "empty"
    /\ Fail
    /\ UNCHANGED <<store, goal, attempts, retries>>

\* The conversation is reset for a retry but cannot be stored.
RetryFails ==
    /\ pc = "decide"
    /\ NothingPending
    /\ ~GoalDue
    /\ ~grind
    /\ RetryLimit # -1
    /\ MayRetry
    /\ CountAttempt
    /\ retries' = retries + 1
    /\ goal' = FALSE
    /\ Fail
    /\ UNCHANGED <<store, final_output>>

\* The provider gives no stream, a tool cannot be inspected, the tools cannot
\* be listed again, a compacted conversation or a denial cannot be stored.
CallFails ==
    /\ pc \in {"stream", "decide", "hook"}
    /\ Fail
    /\ UNCHANGED <<store, final_output, goal, attempts, retries>>

\* A summary or a message of the iteration cannot be stored: nor are those
\* after it.
SaveFails ==
    /\ pc = "save"
    /\ \/ /\ PairSummaries # {<<>>}
          /\ UNCHANGED store
       \/ \E summaries \in PairSummaries, n \in 0..(Len(messages_to_add) - 1) :
             store' = store \o summaries \o SubSeq(messages_to_add, 1, n)
    /\ Fail
    /\ UNCHANGED <<final_output, goal, attempts, retries>>

-----------------------------------------------------------------------------

\* The Stop hook lets the reply end.
StopAllowed ==
    /\ pc = "hook"
    /\ stop_hook_handled' = TRUE
    /\ pc' = "after"
    /\ UNCHANGED <<sessionVars, cancelled, convVars, countVars,
                   goal_check_pending, can_drain, exitVars, boundVars,
                   historyVars>>

\* Mutant of Heard: the denial reaches the agent but not the store.
HeardOnly(m) == conversation' = Append(conversation, m) /\ UNCHANGED store

\* Mutant of Heard: files the denial with the plugin that made it.
HeardFrom(m) ==
    /\ conversation' = Append(conversation, <<m, "plugin">>)
    /\ store' = Append(store, <<m, "plugin">>)

Heard(m) ==
    /\ conversation' = Append(conversation, m)
    /\ store' = Append(store, m)

OverCap(n) == n > StopCap

\* The Stop hook denies: go on with its reason, unless it did too often.
StopDenied ==
    /\ pc = "hook"
    /\ consecutive_stop_hook_blocks' = consecutive_stop_hook_blocks + 1
    /\ IF OverCap(consecutive_stop_hook_blocks')
       THEN /\ store' = Append(store, "cap_warning")
            /\ stop_hook_handled' = TRUE
            /\ pc' = "after"
            /\ UNCHANGED <<conversation, retrying>>
       ELSE /\ Heard("denial")
            /\ retrying' = TRUE
            /\ pc' = "top"
            /\ UNCHANGED stop_hook_handled
    /\ UNCHANGED <<steers, final_output, goal, grind, attempts, cancelled,
                   initial_messages, messages_to_add, turns_taken,
                   compaction_attempts, goal_check_pending, can_drain,
                   exitVars, boundVars, historyVars>>

\* The end of the stream: the owner of the run drops steers it left behind.
EndReply ==
    /\ pc = "after"
    /\ pc' = "idle"
    /\ steers' = 0
    /\ cancelled' = FALSE
    /\ ending' = IF saw_cancel THEN "cancelled"
                 ELSE IF stop_hook_handled THEN "stopped" ELSE "out_of_turns"
    /\ UNCHANGED <<store, final_output, goal, grind, attempts, convVars,
                   countVars, goal_check_pending, can_drain,
                   stop_hook_handled, exitVars, boundVars, calls, retries,
                   verdict, saw_cancel, late>>

-----------------------------------------------------------------------------
Progress ==
    \/ Top \/ TakeFinalOutput \/ BeginTurn
    \/ Text \/ ToolCalls \/ UnparsableCall
    \/ StreamEnds \/ Abort("refused") \/ Abort("stalled") \/ ContextExceeded
    \/ NothingToDecide \/ DecideFinalOutput \/ GoOn \/ Nudge
    \/ Conclude \/ RetriesExceeded \/ Retry
    \/ Save \/ StopAllowed \/ StopDenied \/ EndReply

Failure ==
    \/ DrainFails \/ FinalOutputFails \/ RetryFails \/ CallFails \/ SaveFails

Next == StartReply \/ FailToStart \/ Cancel \/ Steer \/ Progress \/ Failure

Spec == Init /\ [][Next]_vars

\* The stream of the reply is polled, the provider stream ends (StreamGuard)
\* and the store, the hook and the retry commands answer; no failure is needed
\* for the loop to go on.
FairSpec == Spec /\ WF_vars(Progress)

-----------------------------------------------------------------------------
Kinds == {"user", "text", "tools", "nudge", "final", "denial", "steer",
          "summary", "pair_summary", "exceeded", "cap_warning"}

ConversationTypes ==
    /\ store \in Seq(Kinds)
    /\ conversation \in Seq(Kinds)
    /\ initial_messages \in Seq(Kinds)
    /\ messages_to_add \in Seq(Kinds)

FlagTypes ==
    /\ final_output \in {"absent", "empty", "full"}
    /\ pc \in {"idle", "top", "final", "stream", "decide", "save", "hook",
               "after"}
    /\ verdict \in {"none", "refused", "stalled"}
    /\ ending \in {"none", "stopped", "cancelled", "out_of_turns", "failed"}
    /\ {goal, grind, cancelled, goal_check_pending, retrying, can_drain,
        stop_hook_handled, exit_chat, no_tools_called, did_recovery_compact,
        tool_pair_summarization_done, saw_cancel} \subseteq BOOLEAN

CounterTypes ==
    /\ steers \in Nat
    /\ attempts \in Nat
    /\ turns_taken \in Nat
    /\ compaction_attempts \in Nat
    /\ consecutive_stop_hook_blocks \in Nat
    /\ items \in Nat
    /\ steered \in Nat
    /\ replies \in Nat
    /\ calls \in Nat
    /\ retries \in Nat
    /\ late \in Nat

\* Types of the variables.
TypeOK == ConversationTypes /\ FlagTypes /\ CounterTypes

\* Nudges, retries, compactions, steers and denied stops together never make
\* the loop call the provider more often than the two limits allow.
CallsBounded == calls <= MaxTurns + StopCap

\* A reply starts over at most max_retries times, and it says that it has run
\* out of attempts only after max_retries of its own: however often a Stop
\* hook or a steer sends the loop round again after the last attempt, and
\* whatever an earlier reply left in the agent's counter.
RetriesBounded ==
    /\ RetryLimit # -1 => retries <= RetryLimit
    /\ \A i \in 1..Len(conversation) :
           conversation[i] = "exceeded" => retries = RetryLimit

\* The messages that only one of the store and the conversation has.
Private == {"exceeded", "pair_summary"}

\* The first n messages of s without the private ones.
SharedUpTo(s) ==
    LET kept[n \in 0..Len(s)] ==
            IF n = 0 THEN <<>>
            ELSE IF s[n] \in Private THEN kept[n - 1]
                 ELSE Append(kept[n - 1], s[n])
    IN  kept

Shared(s) == SharedUpTo(s)[Len(s)]

\* Between iterations the agent works on what the store holds, so that the
\* next reply, which starts from the store, continues the same conversation.
\* The message that retries are exhausted is the one that is never saved, and
\* summaries of earlier tool calls are only for the replies to come.
StoreIsConversation ==
    pc \notin {"idle", "after"} => Shared(store) = Shared(conversation)

\* A steer that was queued before the loop's last look is not dropped by a
\* reply that ends of its own accord: only one that comes during the final
\* Stop hook, after the look, is.  (A reply that only gives out a stale final
\* output, see FinalOutputGivenOut, ends without a look.)
SteersServed ==
    pc = "after" /\ stop_hook_handled /\ calls > 0 => steers <= late

\* final_output is "the final output collected for the user" (FinalOutputTool)
\* of the reply whose tool call collected it: a reply that was not cancelled
\* and did not fail leaves none behind, which the next reply would show in
\* place of an answer.
FinalOutputGivenOut ==
    pc = "idle" /\ final_output = "full" => ending \in {"cancelled", "failed"}

\* The loop ends.
ReplyTerminates == pc = "top" ~> pc = "idle"

\* "a refused request must not be resent" (refusal_exits_turn_without_
\* recipe_retry): after a refusal the reply calls the provider no more.
RefusedNotResent == [][verdict = "refused" => calls' <= calls]_vars
=============================================================================
