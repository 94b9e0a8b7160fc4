-------------------------- MODULE AgentReplyProofs --------------------------
(***************************************************************************)
(* What the agent loop guarantees for any limits: how often it calls the   *)
(* provider and how often it retries, that early steers are served, and    *)
(* that the loop works on the conversation the store holds.                *)
(*                                                                         *)
(* Each iteration is paid for by a turn, or by a denial of the Stop hook   *)
(* whose retry is still due: calls <= turns + denials, one less while a    *)
(* retry is due.  The two limits bound the right-hand side wherever the    *)
(* loop can go on.                                                         *)
(*                                                                         *)
(* The last part needs what Shared computes, which is defined message by   *)
(* message: Induction is proved first, from NatLessThanWellFounded, for    *)
(* sets of naturals.                                                       *)
(***************************************************************************)
EXTENDS AgentReply, WellFoundedInduction, TLAPS

\* The kinds of messages the actions name.
LEMMA KindsOfActions ==
    /\ "user" \in Kinds /\ "text" \in Kinds /\ "tools" \in Kinds
    /\ "nudge" \in Kinds /\ "final" \in Kinds /\ "denial" \in Kinds
    /\ "steer" \in Kinds /\ "summary" \in Kinds /\ "pair_summary" \in Kinds
    /\ "exceeded" \in Kinds /\ "cap_warning" \in Kinds
  BY DEF Kinds

\* The short conversations the actions name.
LEMMA ShortConversations ==
    /\ <<>> \in Seq(Kinds)
    /\ <<"tools">> \in Seq(Kinds)
    /\ <<"summary">> \in Seq(Kinds)
    /\ <<"pair_summary">> \in Seq(Kinds)
<1>1. ASSUME NEW m \in Kinds
      PROVE  <<m>> \in Seq(Kinds)
  OBVIOUS
<1> QED
  BY <1>1, KindsOfActions

\* A conversation with one more message.
LEMMA OneMore ==
    ASSUME NEW s \in Seq(Kinds), NEW m \in Kinds
    PROVE  Append(s, m) \in Seq(Kinds)
  OBVIOUS

\* Two conversations one after the other.
LEMMA Joined ==
    ASSUME NEW s \in Seq(Kinds), NEW t \in Seq(Kinds)
    PROVE  s \o t \in Seq(Kinds)
  OBVIOUS

\* What is drained from the queue of steers is a conversation.
LEMMA RepeatSteer ==
    ASSUME NEW n \in Nat
    PROVE  Repeat("steer", n) \in Seq(Kinds)
  BY KindsOfActions DEF Repeat

-----------------------------------------------------------------------------
\* The type invariant holds at the start, for any limits.
LEMMA TypeInit == Init => TypeOK
<1> SUFFICES ASSUME Init
             PROVE  TypeOK
  OBVIOUS
<1>1. ConversationTypes
  BY ShortConversations DEF Init, ConversationTypes
<1>2. FlagTypes
  BY DEF Init, FlagTypes
<1>3. CounterTypes
  BY AgentAssumption DEF Init, CounterTypes
<1> QED
  BY <1>1, <1>2, <1>3 DEF TypeOK

\* The loop only appends to conversations, or replaces them by others.
LEMMA ConversationStep ==
    ASSUME TypeOK, Next
    PROVE  ConversationTypes'
<1>0. ConversationTypes /\ steers \in Nat
  BY DEF TypeOK, CounterTypes
<1> USE KindsOfActions, ShortConversations, OneMore
<1>1. CASE StartReply
  <2>1. store' \in Seq(Kinds)
    BY <1>0, <1>1 DEF StartReply, ConversationTypes
  <2>2. conversation' = store' /\ initial_messages' = store'
        /\ messages_to_add' = <<>>
    BY <1>1 DEF StartReply
  <2> QED
    BY <2>1, <2>2 DEF ConversationTypes
<1>2. CASE FailToStart
  BY <1>0, <1>2 DEF FailToStart, convVars, ConversationTypes
<1>3. CASE Cancel \/ Steer \/ StopAllowed \/ EndReply
  BY <1>0, <1>3 DEF Cancel, Steer, StopAllowed, EndReply, sessionVars,
                    convVars, ConversationTypes
<1>4. CASE Top
  <2>1. Repeat("steer", steers) \in Seq(Kinds)
    BY <1>0, RepeatSteer
  <2>2. \/ UNCHANGED <<store, conversation>>
        \/ \E drained \in {<<>>, Repeat("steer", steers)} :
              /\ store' = store \o drained
              /\ conversation' = conversation \o drained
    BY <1>4 DEF Top
  <2>3. UNCHANGED <<initial_messages, messages_to_add>>
    BY <1>4 DEF Top
  <2>4. store' \in Seq(Kinds) /\ conversation' \in Seq(Kinds)
    <3>1. CASE UNCHANGED <<store, conversation>>
      BY <1>0, <3>1 DEF ConversationTypes
    <3>2. CASE ~UNCHANGED <<store, conversation>>
      <4>1. PICK drained \in {<<>>, Repeat("steer", steers)} :
               /\ store' = store \o drained
               /\ conversation' = conversation \o drained
        BY <2>2, <3>2
      <4>2. drained \in Seq(Kinds)
        BY <2>1, <4>1
      <4> QED
        BY <1>0, <4>1, <4>2, Joined DEF ConversationTypes
    <3> QED
      BY <3>1, <3>2
  <2> QED
    BY <1>0, <2>3, <2>4 DEF ConversationTypes
<1>5. CASE TakeFinalOutput \/ BeginTurn
  BY <1>0, <1>5 DEF TakeFinalOutput, BeginTurn, sessionVars, ConversationTypes
<1>6. CASE Text \/ ToolCalls \/ UnparsableCall
  <2>1. UNCHANGED <<store, conversation, initial_messages>>
    BY <1>6 DEF Text, ToolCalls, UnparsableCall, RunTools, Response
  <2>2. messages_to_add' \in Seq(Kinds)
    BY <1>0, <1>6 DEF Text, ToolCalls, UnparsableCall, ConversationTypes
  <2> QED
    BY <1>0, <2>1, <2>2 DEF ConversationTypes
<1>7. CASE StreamEnds \/ Abort("refused") \/ Abort("stalled") \/ ContextExceeded
  <2>1. UNCHANGED <<initial_messages, messages_to_add>>
    BY <1>7 DEF StreamEnds, Abort, ContextExceeded, LeaveStream
  <2>2. \/ UNCHANGED <<store, conversation>>
        \/ store' = <<"summary">> /\ conversation' = <<"summary">>
    BY <1>7 DEF StreamEnds, Abort, ContextExceeded
  <2> QED
    BY <1>0, <2>1, <2>2 DEF ConversationTypes
<1>8. CASE NothingToDecide \/ DecideFinalOutput \/ GoOn \/ Nudge
  <2>1. UNCHANGED <<store, conversation, initial_messages>>
    BY <1>8 DEF NothingToDecide, DecideFinalOutput, GoOn, Nudge, Deciding
  <2>2. \/ UNCHANGED messages_to_add
        \/ \E m \in Kinds : messages_to_add' = Append(messages_to_add, m)
    BY <1>8 DEF NothingToDecide, DecideFinalOutput, GoOn, Nudge
  <2> QED
    BY <1>0, <2>1, <2>2 DEF ConversationTypes
<1>9. CASE Conclude \/ RetriesExceeded \/ Retry
  BY <1>0, <1>9 DEF Conclude, RetriesExceeded, Retry, Concluding, Deciding,
                    ConversationTypes
<1>10. CASE Save
  <2>1. PICK summaries \in PairSummaries :
           store' = store \o summaries \o messages_to_add
    BY <1>10 DEF Save
  <2>2. summaries \in Seq(Kinds)
    <3>1. summaries \in {<<>>, <<"pair_summary">>}
      BY DEF PairSummaries
    <3> QED
      BY <3>1
  <2> QED
    BY <1>0, <1>10, <2>1, <2>2 DEF Save, ConversationTypes
<1>11. CASE StopDenied
  BY <1>0, <1>11 DEF StopDenied, Heard, ConversationTypes
<1>12. CASE DrainFails
  <2>1. PICK n \in 0..(steers - 1) : store' = store \o Repeat("steer", n)
    BY <1>12 DEF DrainFails
  <2>2. Repeat("steer", n) \in Seq(Kinds)
    BY <1>0, RepeatSteer
  <2> QED
    BY <1>0, <1>12, <2>1, <2>2, Joined DEF DrainFails, Fail, convVars,
                                   ConversationTypes
<1>13. CASE FinalOutputFails \/ RetryFails \/ CallFails
  BY <1>0, <1>13 DEF FinalOutputFails, RetryFails, CallFails, Fail, convVars,
                     ConversationTypes
<1>14. CASE SaveFails
  <2>1. CASE UNCHANGED store
    BY <1>0, <1>14, <2>1 DEF SaveFails, Fail, convVars, ConversationTypes
  <2>2. CASE store' # store
    <3>1. PICK summaries \in PairSummaries,
               n \in 0..(Len(messages_to_add) - 1) :
             store' = store \o summaries \o SubSeq(messages_to_add, 1, n)
      BY <1>14, <2>2 DEF SaveFails
    <3>2. summaries \in {<<>>, <<"pair_summary">>}
      BY DEF PairSummaries
    <3>3. SubSeq(messages_to_add, 1, n) \in Seq(Kinds)
      BY <1>0 DEF ConversationTypes
    <3>4. summaries \in Seq(Kinds) /\ store \in Seq(Kinds)
      BY <1>0, <3>2 DEF ConversationTypes
    <3> DEFINE saved == SubSeq(messages_to_add, 1, n)
    <3>5. store' = store \o summaries \o saved /\ saved \in Seq(Kinds)
      BY <3>1, <3>3
    <3> HIDE DEF saved
    <3>6. store' \in Seq(Kinds)
      BY <3>4, <3>5, Joined
    <3> QED
      BY <1>0, <1>14, <3>6 DEF SaveFails, Fail, convVars, ConversationTypes
  <2> QED
    BY <2>1, <2>2
<1> QED
  BY <1>1, <1>2, <1>3, <1>4, <1>5, <1>6, <1>7, <1>8, <1>9, <1>10, <1>11,
     <1>12, <1>13, <1>14 DEF Next, Progress, Failure

\* Flags and enumerated values.
LEMMA FlagStep ==
    ASSUME TypeOK, Next
    PROVE  FlagTypes'
<1>0. FlagTypes
  BY DEF TypeOK
<1> USE DEF FlagTypes
<1>1. CASE StartReply \/ FailToStart
  BY <1>0, <1>1 DEF StartReply, FailToStart, countVars, exitVars
<1>2. CASE Cancel \/ Steer
  BY <1>0, <1>2 DEF Cancel, Steer, sessionVars, convVars, countVars, exitVars,
                    historyVars
<1>3. CASE Top
  BY <1>0, <1>3 DEF Top, countVars, exitVars
<1>4. CASE TakeFinalOutput \/ BeginTurn
  BY <1>0, <1>4 DEF TakeFinalOutput, BeginTurn, sessionVars, countVars,
                    exitVars, historyVars
<1>5. CASE Text \/ ToolCalls \/ UnparsableCall
  BY <1>0, <1>5 DEF Text, ToolCalls, UnparsableCall, RunTools, Response,
                    Reading, historyVars
<1>6. CASE StreamEnds \/ Abort("refused") \/ Abort("stalled") \/ ContextExceeded
  BY <1>0, <1>6 DEF StreamEnds, Abort, ContextExceeded, LeaveStream, Reading
<1>7. CASE \/ NothingToDecide \/ DecideFinalOutput \/ GoOn \/ Nudge
           \/ Conclude \/ RetriesExceeded \/ Retry
  <2>1. Deciding
    BY <1>7 DEF NothingToDecide, DecideFinalOutput, GoOn, Nudge, Conclude,
                RetriesExceeded, Retry, Concluding
  <2>2. /\ final_output' \in {"absent", "empty", "full"}
        /\ {goal', grind', goal_check_pending', exit_chat'} \subseteq BOOLEAN
    BY <1>0, <1>7 DEF NothingToDecide, DecideFinalOutput, GoOn, Nudge,
       GoalDue, Conclude, RetriesExceeded, Retry, Concluding
  <2> QED
    BY <1>0, <2>1, <2>2 DEF Deciding, countVars, historyVars
<1>8. CASE Save
  BY <1>0, <1>8 DEF Save, Leaving, countVars, historyVars
<1>9. CASE StopAllowed \/ EndReply
  BY <1>0, <1>9 DEF StopAllowed, EndReply, sessionVars, countVars, exitVars,
                    historyVars
<1>10. CASE StopDenied
  BY <1>0, <1>10 DEF StopDenied, exitVars, historyVars
<1>11. CASE DrainFails \/ FinalOutputFails \/ RetryFails \/ CallFails \/ SaveFails
  <2>1. Fail /\ final_output' \in {"absent", "empty", "full"}
             /\ goal' \in BOOLEAN
    BY <1>0, <1>11 DEF DrainFails, FinalOutputFails, RetryFails, CallFails,
                       SaveFails
  <2> QED
    BY <1>0, <2>1 DEF Fail, countVars, exitVars
<1> QED
  BY <1>1, <1>2, <1>3, <1>4, <1>5, <1>6, <1>7, <1>8, <1>9, <1>10, <1>11
     DEF Next, Progress, Failure

\* Counters.
LEMMA CounterStep ==
    ASSUME TypeOK, Next
    PROVE  CounterTypes'
<1>0. CounterTypes
  BY DEF TypeOK
<1> USE DEF CounterTypes
<1>1. CASE StartReply \/ FailToStart
  <2>1. CASE StartReply
    BY <1>0, <2>1 DEF StartReply
  <2>2. CASE FailToStart
    BY <1>0, <2>2 DEF FailToStart, countVars
  <2> QED
    BY <1>1, <2>1, <2>2
<1>2. CASE Cancel \/ Steer
  BY <1>0, <1>2 DEF Cancel, Steer, sessionVars, countVars, boundVars,
                    historyVars
<1>3. CASE Top
  <2>1. steers' \in {0, steers} /\ late' \in {0, late}
    BY <1>3 DEF Top
  <2>2. UNCHANGED <<attempts, countVars, boundVars, calls, retries>>
    BY <1>3 DEF Top
  <2> QED
    BY <1>0, <2>1, <2>2 DEF countVars, boundVars
<1>4. CASE TakeFinalOutput
  BY <1>0, <1>4 DEF TakeFinalOutput, countVars, boundVars, historyVars
<1>5. CASE BeginTurn
  <2>1. turns_taken' \in Nat /\ calls' \in Nat
    <3>1. turns_taken' = NextTurn /\ calls' \in {calls, calls + 1}
      BY <1>5 DEF BeginTurn
    <3>2. NextTurn \in Nat
      BY <1>0 DEF NextTurn
    <3> QED
      BY <1>0, <3>1, <3>2
  <2>2. /\ items' = 0
        /\ UNCHANGED <<steers, attempts, compaction_attempts,
                       consecutive_stop_hook_blocks, steered, replies, retries,
                       late>>
    BY <1>5 DEF BeginTurn, sessionVars
  <2> QED
    BY <1>0, <2>1, <2>2
<1>6. CASE Text \/ ToolCalls \/ UnparsableCall
  <2>1. Response
    BY <1>6 DEF Text, ToolCalls, UnparsableCall, RunTools
  <2>2. items' = items + 1 /\ compaction_attempts' = 0
    BY <2>1 DEF Response
  <2>3. UNCHANGED <<steers, attempts, turns_taken,
                    consecutive_stop_hook_blocks, steered, replies, calls,
                    retries, late>>
    BY <2>1 DEF Response, historyVars
  <2> QED
    BY <1>0, <2>2, <2>3
<1>7. CASE StreamEnds \/ Abort("refused") \/ Abort("stalled") \/ ContextExceeded
  BY <1>0, <1>7 DEF StreamEnds, Abort, ContextExceeded, LeaveStream, boundVars
<1>8. CASE \/ NothingToDecide \/ DecideFinalOutput \/ GoOn \/ Nudge
           \/ Conclude \/ RetriesExceeded \/ Retry
  <2>1. Deciding /\ attempts' \in Nat /\ retries' \in Nat
    BY <1>0, <1>8 DEF NothingToDecide, DecideFinalOutput, GoOn, Nudge,
       Conclude, RetriesExceeded, Retry, Concluding, CountAttempt
  <2> QED
    BY <1>0, <2>1 DEF Deciding, countVars, boundVars, historyVars
<1>9. CASE Save \/ StopAllowed \/ EndReply
  <2>1. CASE Save
    BY <1>0, <2>1 DEF Save, countVars, boundVars, historyVars
  <2>2. CASE StopAllowed \/ EndReply
    BY <1>0, <2>2 DEF StopAllowed, EndReply, sessionVars, countVars,
                      boundVars, historyVars
  <2> QED
    BY <1>9, <2>1, <2>2
<1>10. CASE StopDenied
  BY <1>0, <1>10 DEF StopDenied, boundVars, historyVars
<1>11. CASE DrainFails \/ FinalOutputFails \/ RetryFails \/ CallFails \/ SaveFails
  <2>1. Fail /\ attempts' \in Nat /\ retries' \in Nat
    BY <1>0, <1>11 DEF DrainFails, FinalOutputFails, RetryFails, CallFails,
                       SaveFails, CountAttempt
  <2> QED
    BY <1>0, <2>1 DEF Fail, countVars, boundVars
<1> QED
  BY <1>1, <1>2, <1>3, <1>4, <1>5, <1>6, <1>7, <1>8, <1>9, <1>10, <1>11
     DEF Next, Progress, Failure

\* Every step keeps the types.
LEMMA TypeStep ==
    ASSUME TypeOK, [Next]_vars
    PROVE  TypeOK'
<1>1. CASE UNCHANGED vars
  BY <1>1 DEF vars, TypeOK, ConversationTypes, FlagTypes, CounterTypes,
     sessionVars, convVars, countVars, exitVars, boundVars, historyVars
<1>2. CASE Next
  BY <1>2, ConversationStep, FlagStep, CounterStep DEF TypeOK
<1> QED
  BY <1>1, <1>2

\* The variables of the loop keep their types, for any limits and any session.
THEOREM TypeCorrect == Spec => []TypeOK
<1>1. TypeOK /\ [Next]_vars => TypeOK'
  BY TypeStep
<1> QED
  BY <1>1, TypeInit, PTL DEF Spec

-----------------------------------------------------------------------------
\* A retry the Stop hook asked for and the loop has not begun.
DueRetries == IF retrying THEN 1 ELSE 0

\* Every call was paid for by a turn or by a denial.
CallsArePaid == calls + DueRetries <= turns_taken + consecutive_stop_hook_blocks

\* Where the loop can go on neither limit is passed.
WithinLimits ==
    pc \notin {"idle", "after"} =>
        /\ turns_taken <= MaxTurns
        /\ consecutive_stop_hook_blocks <= StopCap

CallsInv == TypeOK /\ CallsArePaid /\ WithinLimits /\ CallsBounded

\* No call has been made at the start.
LEMMA CallsInit == Init => CallsInv
  BY TypeInit, AgentAssumption
     DEF Init, CallsInv, CallsArePaid, DueRetries, WithinLimits, CallsBounded

\* The steps that count neither calls, turns nor denials.
LEMMA OtherSteps ==
    ASSUME TypeOK, [Next]_vars, ~StartReply, ~BeginTurn, ~StopDenied
    PROVE  /\ UNCHANGED <<calls, turns_taken, consecutive_stop_hook_blocks,
                          retrying>>
           /\ pc \in {"idle", "after"} => pc' \in {"idle", "after"}
<1>1. CASE UNCHANGED vars
  BY <1>1 DEF vars, countVars, historyVars
<1>2. CASE FailToStart \/ Cancel \/ Steer
  BY <1>2 DEF FailToStart, Cancel, Steer, countVars, historyVars
<1>3. CASE Top \/ TakeFinalOutput
  BY <1>3 DEF Top, TakeFinalOutput, countVars, historyVars
<1>4. CASE Text \/ ToolCalls \/ UnparsableCall
  BY <1>4 DEF Text, ToolCalls, UnparsableCall, RunTools, Response, Reading,
     historyVars
<1>5. CASE StreamEnds \/ Abort("refused") \/ Abort("stalled") \/ ContextExceeded
  BY <1>5 DEF StreamEnds, Abort, ContextExceeded, LeaveStream
<1>6. CASE \/ NothingToDecide \/ DecideFinalOutput \/ GoOn \/ Nudge
           \/ Conclude \/ RetriesExceeded \/ Retry
  <2>1. Deciding
    BY <1>6 DEF NothingToDecide, DecideFinalOutput, GoOn, Nudge, Conclude,
                RetriesExceeded, Retry, Concluding
  <2> QED
    BY <2>1 DEF Deciding, countVars, historyVars
<1>7. CASE Save \/ StopAllowed \/ EndReply
  BY <1>7 DEF Save, StopAllowed, EndReply, countVars, historyVars
<1>8. CASE DrainFails \/ FinalOutputFails \/ RetryFails \/ CallFails \/ SaveFails
  <2>1. Fail
    BY <1>8 DEF DrainFails, FinalOutputFails, RetryFails, CallFails, SaveFails
  <2> QED
    BY <2>1 DEF Fail, countVars
<1> QED
  BY <1>1, <1>2, <1>3, <1>4, <1>5, <1>6, <1>7, <1>8 DEF Next, Progress, Failure

\* The arithmetic of beginning a turn.
LEMMA OnePaidCall ==
    ASSUME NEW c \in Nat, NEW d \in Nat, NEW t \in Nat, NEW u \in Nat,
           NEW b \in Nat, c + d <= t + b, u + d = t + 1
    PROVE  c + 1 <= u + b
  OBVIOUS

\* Every step keeps the calls paid for and both limits in force.
LEMMA CallsStep ==
    ASSUME CallsInv, [Next]_vars
    PROVE  CallsInv'
<1>1. TypeOK /\ TypeOK' /\ CallsArePaid /\ WithinLimits /\ CallsBounded
  BY TypeStep DEF CallsInv
<1> USE AgentAssumption
<1>2. CASE StartReply
  BY <1>1, <1>2 DEF StartReply, CallsInv, CallsArePaid, DueRetries,
     WithinLimits, CallsBounded
<1>3. CASE BeginTurn
  <2>1. /\ turns_taken' + DueRetries = turns_taken + 1
        /\ ~retrying'
        /\ UNCHANGED consecutive_stop_hook_blocks
        /\ consecutive_stop_hook_blocks <= StopCap
    BY <1>1, <1>3 DEF BeginTurn, NextTurn, DueRetries, WithinLimits, TypeOK, CounterTypes, FlagTypes
  <2>2. CASE turns_taken' > MaxTurns
    BY <1>1, <1>3, <2>1, <2>2 DEF BeginTurn, CallsInv, CallsArePaid,
       DueRetries, WithinLimits, CallsBounded, TypeOK,
       CounterTypes, FlagTypes
  <2>3. CASE ~(turns_taken' > MaxTurns)
    <3>1. calls' = calls + 1
      BY <1>3, <2>3 DEF BeginTurn
    <3>2. calls' <= turns_taken' + consecutive_stop_hook_blocks'
      <4>1. DueRetries \in Nat
        BY DEF DueRetries
      <4>2. /\ calls \in Nat /\ turns_taken \in Nat /\ turns_taken' \in Nat
            /\ consecutive_stop_hook_blocks \in Nat
        BY <1>1 DEF TypeOK, CounterTypes
      <4>3. calls + DueRetries <= turns_taken + consecutive_stop_hook_blocks
        BY <1>1 DEF CallsArePaid
      <4>4. /\ turns_taken' + DueRetries = turns_taken + 1
            /\ consecutive_stop_hook_blocks' = consecutive_stop_hook_blocks
        BY <2>1
      <4> QED
        BY <3>1, <4>1, <4>2, <4>3, <4>4, OnePaidCall
    <3> QED
      BY <1>1, <2>1, <2>3, <3>2 DEF CallsInv, CallsArePaid, DueRetries,
         WithinLimits, CallsBounded, TypeOK,
       CounterTypes, FlagTypes
  <2> QED
    BY <2>2, <2>3
<1>4. CASE StopDenied
  <2>1. /\ UNCHANGED <<calls, turns_taken>>
        /\ consecutive_stop_hook_blocks' = consecutive_stop_hook_blocks + 1
    BY <1>4 DEF StopDenied, historyVars
  <2>2. \/ consecutive_stop_hook_blocks' <= StopCap
        \/ pc' = "after" /\ UNCHANGED retrying
    BY <1>1, <2>1, <1>4 DEF StopDenied, OverCap, TypeOK, CounterTypes
  <2>3. turns_taken <= MaxTurns
    BY <1>1, <1>4 DEF StopDenied, WithinLimits
  <2> QED
    BY <1>1, <2>1, <2>2, <2>3 DEF CallsInv, CallsArePaid, DueRetries,
       WithinLimits, CallsBounded, TypeOK,
       CounterTypes, FlagTypes
<1>5. CASE ~StartReply /\ ~BeginTurn /\ ~StopDenied
  <2>1. /\ UNCHANGED <<calls, turns_taken, consecutive_stop_hook_blocks,
                       retrying>>
        /\ pc \in {"idle", "after"} => pc' \in {"idle", "after"}
    BY <1>1, <1>5, OtherSteps
  <2> QED
    BY <1>1, <2>1 DEF CallsInv, CallsArePaid, DueRetries, WithinLimits,
       CallsBounded
<1> QED
  BY <1>2, <1>3, <1>4, <1>5

\* However nudges, compactions, retries, steers and denied stops combine, one
\* reply calls the provider at most max_turns + stop_hook_block_cap times.
THEOREM ProviderCallsBounded == Spec => []CallsBounded
<1>1. CallsInv /\ [Next]_vars => CallsInv'
  BY CallsStep
<1>2. CallsInv => CallsBounded
  BY DEF CallsInv
<1> QED
  BY <1>1, <1>2, CallsInit, PTL DEF Spec

-----------------------------------------------------------------------------
\* The kinds of messages but the one that says that the attempts are used up.
Others == Kinds \ {"exceeded"}

\* Within a reply the agent's counter counts the times the reply has started
\* over, and only a reply that has made them all works on a conversation that
\* says so.  That message is never stored, nor among those of an iteration.
RetryInv ==
    /\ pc # "idle" => retries = attempts
    /\ RetryLimit # -1 => retries <= RetryLimit
    /\ store \in Seq(Others)
    /\ initial_messages \in Seq(Others)
    /\ messages_to_add \in Seq(Others)
    /\ retries = RetryLimit \/ conversation \in Seq(Others)

\* What the actions put together of such messages.
LEMMA OthersTogether ==
    /\ <<>> \in Seq(Others) /\ <<"tools">> \in Seq(Others)
    /\ <<"summary">> \in Seq(Others) /\ <<"pair_summary">> \in Seq(Others)
    /\ \A n \in Nat : Repeat("steer", n) \in Seq(Others)
    /\ \A s \in Seq(Others), m \in Others : Append(s, m) \in Seq(Others)
    /\ \A s, t \in Seq(Others) : s \o t \in Seq(Others)
<1>1. ASSUME NEW m \in Others
      PROVE  <<m>> \in Seq(Others)
  OBVIOUS
<1>2. /\ "tools" \in Others /\ "summary" \in Others
      /\ "pair_summary" \in Others /\ "steer" \in Others
  BY DEF Others, Kinds
<1>3. ASSUME NEW n \in Nat
      PROVE  Repeat("steer", n) \in Seq(Others)
  BY <1>2 DEF Repeat
<1>4. \A s \in Seq(Others), m \in Others : Append(s, m) \in Seq(Others)
  OBVIOUS
<1>5. \A s, t \in Seq(Others) : s \o t \in Seq(Others)
  OBVIOUS
<1> QED
  BY <1>1, <1>2, <1>3, <1>4, <1>5

\* At the start the store holds nothing or a tool call.
LEMMA RetryInit == Init => RetryInv
<1> SUFFICES ASSUME Init
             PROVE  RetryInv
  OBVIOUS
<1>1. /\ pc = "idle" /\ retries = 0 /\ store \in {<<>>, <<"tools">>}
      /\ conversation = <<>> /\ initial_messages = <<>> /\ messages_to_add = <<>>
  BY DEF Init
<1>2. RetryLimit # -1 => retries <= RetryLimit
  BY <1>1, AgentAssumption
<1>3. store \in Seq(Others)
  BY <1>1, OthersTogether
<1>4. <<>> \in Seq(Others)
  BY OthersTogether
<1> QED
  BY <1>1, <1>2, <1>3, <1>4 DEF RetryInv

\* Steps that neither count nor start over leave the counters alone.
LEMMA OtherCounts ==
    ASSUME [Next]_vars, ~StartReply, ~Retry, ~RetryFails
    PROVE  UNCHANGED <<attempts, retries>>
<1>1. CASE UNCHANGED vars
  BY <1>1 DEF vars, sessionVars, historyVars
<1>2. CASE \/ FailToStart \/ Cancel \/ Steer \/ Top \/ TakeFinalOutput
           \/ BeginTurn \/ Save \/ StopAllowed \/ StopDenied \/ EndReply
  BY <1>2 DEF FailToStart, Cancel, Steer, Top, TakeFinalOutput, BeginTurn, Save,
     StopAllowed, StopDenied, EndReply, sessionVars, historyVars
<1>3. CASE \/ Text \/ ToolCalls \/ UnparsableCall \/ StreamEnds
           \/ Abort("refused") \/ Abort("stalled") \/ ContextExceeded
  BY <1>3 DEF Text, ToolCalls, UnparsableCall, RunTools, Response, StreamEnds,
     Abort, ContextExceeded, LeaveStream, historyVars
<1>4. CASE \/ NothingToDecide \/ DecideFinalOutput \/ GoOn \/ Nudge \/ Conclude
           \/ RetriesExceeded
  BY <1>4 DEF NothingToDecide, DecideFinalOutput, GoOn, Nudge, Conclude,
     RetriesExceeded
<1>5. CASE DrainFails \/ FinalOutputFails \/ CallFails \/ SaveFails
  BY <1>5 DEF DrainFails, FinalOutputFails, CallFails, SaveFails, Fail
<1> QED
  BY <1>1, <1>2, <1>3, <1>4, <1>5 DEF Next, Progress, Failure

\* Only a fresh reply leaves the idle state, and it sets both counters to 0.
LEMMA CountStep ==
    ASSUME TypeOK, RetryInv, [Next]_vars
    PROVE  /\ pc' # "idle" => retries' = attempts'
           /\ RetryLimit # -1 => retries' <= RetryLimit
<1>0. attempts \in Nat /\ retries \in Nat /\ RetryLimit \in Nat \cup {-1}
  BY AgentAssumption DEF TypeOK, CounterTypes
<1>1. CASE StartReply
  BY <1>0, <1>1 DEF StartReply
<1>2. CASE Retry \/ RetryFails
  <2>1. pc = "decide"
    BY <1>2 DEF Retry, RetryFails, Concluding, Deciding
  <2>2. attempts' = attempts + 1 /\ retries' = retries + 1 /\ attempts < RetryLimit
    BY <1>2 DEF Retry, RetryFails, CountAttempt, MayRetry
  <2> QED
    BY <1>0, <2>1, <2>2 DEF RetryInv
<1>3. CASE ~StartReply /\ ~Retry /\ ~RetryFails
  <2>1. UNCHANGED <<attempts, retries>>
    BY <1>3, OtherCounts
  <2>2. pc' # "idle" => pc # "idle"
    <3>1. CASE UNCHANGED vars
      BY <3>1 DEF vars
    <3>2. CASE Progress
      BY <3>2 DEF Progress, Top, TakeFinalOutput, BeginTurn, Text, ToolCalls,
         UnparsableCall, RunTools, Response, Reading, StreamEnds, Abort,
         ContextExceeded, LeaveStream, NothingToDecide, DecideFinalOutput, GoOn,
         Nudge, Conclude, RetriesExceeded, Retry, Concluding, Deciding, Save,
         StopAllowed, StopDenied, EndReply
    <3>3. CASE FailToStart \/ Cancel \/ Steer
      BY <3>3 DEF FailToStart, Cancel, Steer
    <3>4. CASE Failure
      BY <3>4 DEF Failure, DrainFails, FinalOutputFails, RetryFails, CallFails,
         SaveFails, Fail
    <3> QED
      BY <1>3, <3>1, <3>2, <3>3, <3>4 DEF Next
  <2> QED
    BY <1>0, <2>1, <2>2 DEF RetryInv
<1> QED
  BY <1>1, <1>2, <1>3

\* The store and the messages of an iteration get other messages only.
LEMMA OthersStep ==
    ASSUME TypeOK, RetryInv, [Next]_vars
    PROVE  /\ store' \in Seq(Others)
           /\ initial_messages' \in Seq(Others)
           /\ messages_to_add' \in Seq(Others)
<1>0. /\ store \in Seq(Others) /\ initial_messages \in Seq(Others)
      /\ messages_to_add \in Seq(Others) /\ steers \in Nat
  BY DEF RetryInv, TypeOK, CounterTypes
<1> USE OthersTogether
<1>1. CASE UNCHANGED vars
  BY <1>0, <1>1 DEF vars, sessionVars, convVars
<1>2. CASE StartReply \/ FailToStart
  <2>1. "user" \in Others
    BY DEF Others, Kinds
  <2>2. store' \in Seq(Others)
    BY <1>0, <1>2, <2>1 DEF StartReply, FailToStart
  <2> QED
    BY <1>0, <1>2, <2>2 DEF StartReply, FailToStart, convVars
<1>3. CASE Cancel \/ Steer \/ StopAllowed \/ EndReply
  BY <1>0, <1>3 DEF Cancel, Steer, StopAllowed, EndReply, sessionVars, convVars
<1>4. CASE Top
  <2>1. \/ UNCHANGED store
        \/ \E drained \in Seq(Others) : store' = store \o drained
    BY <1>0, <1>4 DEF Top
  <2> QED
    BY <1>0, <1>4, <2>1 DEF Top
<1>5. CASE TakeFinalOutput \/ BeginTurn
  <2>1. "final" \in Others
    BY DEF Others, Kinds
  <2> QED
    BY <1>0, <1>5, <2>1 DEF TakeFinalOutput, BeginTurn, sessionVars
<1>6. CASE Text \/ ToolCalls \/ UnparsableCall
  <2>1. UNCHANGED <<store, initial_messages>>
    BY <1>6 DEF Text, ToolCalls, UnparsableCall, RunTools, Response
  <2>2. "text" \in Others /\ "tools" \in Others
    BY DEF Others, Kinds
  <2>3. messages_to_add' \in Seq(Others)
    BY <1>0, <1>6, <2>2 DEF Text, ToolCalls, UnparsableCall
  <2> QED
    BY <1>0, <2>1, <2>3
<1>7. CASE StreamEnds \/ Abort("refused") \/ Abort("stalled") \/ ContextExceeded
  BY <1>0, <1>7 DEF StreamEnds, Abort, ContextExceeded, LeaveStream
<1>8. CASE NothingToDecide \/ DecideFinalOutput \/ GoOn \/ Nudge
  <2>1. UNCHANGED <<store, initial_messages>>
    BY <1>8 DEF NothingToDecide, DecideFinalOutput, GoOn, Nudge, Deciding
  <2>2. "final" \in Others /\ "nudge" \in Others
    BY DEF Others, Kinds
  <2>3. \/ UNCHANGED messages_to_add
        \/ \E m \in Others : messages_to_add' = Append(messages_to_add, m)
    BY <1>8, <2>2 DEF NothingToDecide, DecideFinalOutput, GoOn, Nudge
  <2> QED
    BY <1>0, <2>1, <2>3
<1>9. CASE Conclude \/ RetriesExceeded \/ Retry
  BY <1>0, <1>9 DEF Conclude, RetriesExceeded, Retry, Concluding, Deciding
<1>10. CASE Save
  <2>1. PICK summaries \in {<<>>, <<"pair_summary">>} :
           store' = store \o summaries \o messages_to_add
    BY <1>10 DEF Save, PairSummaries
  <2>2. store \o summaries \in Seq(Others)
    BY <1>0
  <2>3. store' \in Seq(Others)
    BY <1>0, <2>1, <2>2
  <2> QED
    BY <1>0, <1>10, <2>3 DEF Save
<1>11. CASE StopDenied
  <2>1. "cap_warning" \in Others /\ "denial" \in Others
    BY DEF Others, Kinds
  <2> QED
    BY <1>0, <1>11, <2>1 DEF StopDenied, Heard
<1>12. CASE DrainFails
  <2>1. PICK n \in 0..(steers - 1) : store' = store \o Repeat("steer", n)
    BY <1>12 DEF DrainFails
  <2>2. Repeat("steer", n) \in Seq(Others)
    BY <1>0
  <2> QED
    BY <1>0, <1>12, <2>1, <2>2 DEF DrainFails, Fail, convVars
<1>13. CASE FinalOutputFails \/ RetryFails \/ CallFails
  BY <1>0, <1>13 DEF FinalOutputFails, RetryFails, CallFails, Fail, convVars
<1>14. CASE SaveFails
  <2>1. CASE UNCHANGED store
    BY <1>0, <1>14, <2>1 DEF SaveFails, Fail, convVars
  <2>2. CASE store' # store
    <3>1. PICK summaries \in {<<>>, <<"pair_summary">>},
               n \in 0..(Len(messages_to_add) - 1) :
             store' = store \o summaries \o SubSeq(messages_to_add, 1, n)
      BY <1>14, <2>2 DEF SaveFails, PairSummaries
    <3> DEFINE saved == SubSeq(messages_to_add, 1, n)
    <3>2. saved \in Seq(Others)
      BY <1>0
    <3>3. store \o summaries \in Seq(Others)
      BY <1>0
    <3>4. store' = (store \o summaries) \o saved
      BY <3>1
    <3> HIDE DEF saved
    <3>5. store' \in Seq(Others)
      BY <3>2, <3>3, <3>4
    <3> QED
      BY <1>0, <1>14, <3>5 DEF SaveFails, Fail, convVars
  <2> QED
    BY <2>1, <2>2
<1> QED
  BY <1>1, <1>2, <1>3, <1>4, <1>5, <1>6, <1>7, <1>8, <1>9, <1>10, <1>11,
     <1>12, <1>13, <1>14 DEF Next, Progress, Failure

\* The loop's own conversation says that the attempts are used up only when
\* this reply has made them.
LEMMA ToldStep ==
    ASSUME TypeOK, RetryInv, [Next]_vars
    PROVE  retries' = RetryLimit \/ conversation' \in Seq(Others)
<1>0. /\ attempts \in Nat /\ retries \in Nat /\ RetryLimit \in Nat \cup {-1}
      /\ messages_to_add \in Seq(Others) /\ initial_messages \in Seq(Others)
      /\ steers \in Nat
  BY AgentAssumption DEF RetryInv, TypeOK, CounterTypes
<1>1. CASE StartReply
  BY <1>1, OthersStep DEF StartReply
<1>2. CASE RetriesExceeded
  <2>1. /\ pc = "decide" /\ RetryLimit # -1 /\ ~(attempts < RetryLimit)
        /\ retries' = retries
    BY <1>2 DEF RetriesExceeded, Concluding, Deciding, MayRetry
  <2> QED
    BY <1>0, <2>1 DEF RetryInv
<1>3. CASE Retry
  BY <1>0, <1>3 DEF Retry
<1>4. CASE RetryFails
  <2>1. pc = "decide" /\ attempts < RetryLimit /\ UNCHANGED conversation
    BY <1>4 DEF RetryFails, MayRetry, Fail, convVars
  <2> QED
    BY <1>0, <2>1 DEF RetryInv
<1>5. CASE ~StartReply /\ ~RetriesExceeded /\ ~Retry /\ ~RetryFails
  <2>1. UNCHANGED retries
    BY <1>5, OtherCounts
  <2> SUFFICES ASSUME conversation \in Seq(Others)
               PROVE  conversation' \in Seq(Others)
    BY <2>1 DEF RetryInv
  <2> USE OthersTogether
  <2>2. CASE UNCHANGED conversation
    BY <2>2
  <2>3. CASE Top
    <3>1. \/ UNCHANGED conversation
          \/ \E drained \in Seq(Others) : conversation' = conversation \o drained
      BY <1>0, <2>3 DEF Top
    <3> QED
      BY <3>1
  <2>4. CASE TakeFinalOutput
    <3>1. "final" \in Others
      BY DEF Others, Kinds
    <3> QED
      BY <2>4, <3>1 DEF TakeFinalOutput
  <2>5. CASE Save
    BY <1>0, <2>5 DEF Save
  <2>6. CASE StopDenied
    <3>1. "denial" \in Others
      BY DEF Others, Kinds
    <3> QED
      BY <2>6, <3>1 DEF StopDenied, Heard
  <2>7. CASE ContextExceeded
    BY <2>7 DEF ContextExceeded
  <2>8. CASE ~Top /\ ~TakeFinalOutput /\ ~Save /\ ~StopDenied /\ ~ContextExceeded
    <3>1. CASE UNCHANGED vars
      BY <3>1 DEF vars, convVars
    <3>2. CASE \/ FailToStart \/ Cancel \/ Steer \/ BeginTurn \/ StopAllowed
               \/ EndReply
      BY <3>2 DEF FailToStart, Cancel, Steer, BeginTurn, StopAllowed, EndReply,
         convVars
    <3>3. CASE \/ Text \/ ToolCalls \/ UnparsableCall \/ StreamEnds
               \/ Abort("refused") \/ Abort("stalled")
      BY <3>3 DEF Text, ToolCalls, UnparsableCall, RunTools, Response,
         StreamEnds, Abort
    <3>4. CASE NothingToDecide \/ DecideFinalOutput \/ GoOn \/ Nudge \/ Conclude
      BY <3>4 DEF NothingToDecide, DecideFinalOutput, GoOn, Nudge, Conclude
    <3>5. CASE DrainFails \/ FinalOutputFails \/ CallFails \/ SaveFails
      BY <3>5 DEF DrainFails, FinalOutputFails, CallFails, SaveFails, Fail,
         convVars
    <3> QED
      BY <1>5, <2>8, <3>1, <3>2, <3>3, <3>4, <3>5 DEF Next, Progress, Failure
  <2> QED
    BY <2>3, <2>4, <2>5, <2>6, <2>7, <2>8
<1> QED
  BY <1>1, <1>2, <1>3, <1>4, <1>5

\* A conversation of other messages does not say that attempts are used up.
LEMMA OthersDoNotTell ==
    ASSUME RetryInv
    PROVE  RetriesBounded
<1>1. \A m \in Others : m # "exceeded"
  BY DEF Others
<1>2. ASSUME NEW i \in 1..Len(conversation), conversation[i] = "exceeded"
      PROVE  retries = RetryLimit
  <2>1. CASE conversation \in Seq(Others)
    BY <1>1, <1>2, <2>1
  <2> QED
    BY <2>1 DEF RetryInv
<1> QED
  BY <1>2 DEF RetryInv, RetriesBounded

\* A reply starts over at most max_retries times, whatever sends it round
\* again, and says that the attempts are used up only after making them all.
THEOREM RecipeRetriesBounded == Spec => []RetriesBounded
<1>1. TypeOK /\ RetryInv /\ [Next]_vars => RetryInv'
  BY CountStep, OthersStep, ToldStep DEF RetryInv
<1>2. RetryInv => RetriesBounded
  BY OthersDoNotTell
<1> QED
  BY <1>1, <1>2, RetryInit, TypeCorrect, PTL DEF Spec

-----------------------------------------------------------------------------
\* Once the provider has been called the loop looks at the queue of steers each
\* time it passes its top and before it leaves; what is queued after the look
\* is counted as late.
LookInv ==
    /\ pc \notin {"idle", "after"} => ~stop_hook_handled
    /\ pc \in {"top", "final", "decide", "save", "hook"} /\ calls > 0 => can_drain
    /\ pc \in {"final", "hook"} /\ calls > 0 => steers <= late
    /\ SteersServed

TypedLookInv == TypeOK /\ LookInv

\* The queue is empty at the start.
LEMMA LookInit == Init => TypedLookInv
  BY TypeInit DEF Init, TypedLookInv, LookInv, SteersServed

\* Every step keeps count of the steers nobody has looked at.
LEMMA LookStep ==
    ASSUME TypedLookInv, [Next]_vars
    PROVE  TypedLookInv'
<1>1. /\ TypeOK' /\ LookInv
      /\ steers \in Nat /\ late \in Nat /\ calls \in Nat
      /\ pc \in {"idle", "top", "final", "stream", "decide", "save", "hook",
                 "after"}
  BY TypeStep DEF TypedLookInv, TypeOK, CounterTypes, FlagTypes
<1> SUFFICES LookInv'
  BY <1>1 DEF TypedLookInv
<1> USE DEF LookInv, SteersServed
<1>2. CASE UNCHANGED vars
  BY <1>1, <1>2 DEF vars, sessionVars, historyVars
<1>3. CASE StartReply \/ FailToStart
  BY <1>1, <1>3 DEF StartReply, FailToStart
<1>4. CASE Cancel
  BY <1>1, <1>4 DEF Cancel, sessionVars, historyVars
<1>5. CASE Steer
  BY <1>1, <1>5 DEF Steer
<1>6. CASE Top
  BY <1>1, <1>6 DEF Top
<1>7. CASE TakeFinalOutput
  BY <1>1, <1>7 DEF TakeFinalOutput, historyVars
<1>8. CASE BeginTurn
  BY <1>1, <1>8 DEF BeginTurn, sessionVars
<1>9. CASE Text \/ ToolCalls \/ UnparsableCall
  <2>1. Response
    BY <1>9 DEF Text, ToolCalls, UnparsableCall, RunTools
  <2> QED
    BY <1>1, <2>1 DEF Response, Reading, historyVars
<1>10. CASE StreamEnds \/ Abort("refused") \/ Abort("stalled") \/ ContextExceeded
  <2>1. LeaveStream
    BY <1>10 DEF StreamEnds, Abort, ContextExceeded
  <2> QED
    BY <1>1, <2>1 DEF LeaveStream
<1>11. CASE \/ NothingToDecide \/ DecideFinalOutput \/ GoOn \/ Nudge
            \/ Conclude \/ RetriesExceeded \/ Retry
  <2>1. Deciding
    BY <1>11 DEF NothingToDecide, DecideFinalOutput, GoOn, Nudge, Conclude,
                 RetriesExceeded, Retry, Concluding
  <2> QED
    BY <1>1, <2>1 DEF Deciding, historyVars
<1>12. CASE Save
  BY <1>1, <1>12 DEF Save, Leaving, historyVars
<1>13. CASE StopAllowed
  BY <1>1, <1>13 DEF StopAllowed, sessionVars, historyVars
<1>14. CASE StopDenied
  BY <1>1, <1>14 DEF StopDenied, historyVars
<1>15. CASE EndReply
  BY <1>1, <1>15 DEF EndReply
<1>16. CASE DrainFails \/ FinalOutputFails \/ RetryFails \/ CallFails \/ SaveFails
  <2>1. Fail
    BY <1>16 DEF DrainFails, FinalOutputFails, RetryFails, CallFails, SaveFails
  <2> QED
    BY <1>1, <2>1 DEF Fail
<1> QED
  BY <1>2, <1>3, <1>4, <1>5, <1>6, <1>7, <1>8, <1>9, <1>10, <1>11, <1>12, <1>13,
     <1>14, <1>15, <1>16 DEF Next, Progress, Failure

\* A reply that ends of its own accord drops no steer that was queued before
\* the loop's last look at the queue, whatever sent the loop round before.
THEOREM EarlySteersAreServed == Spec => []SteersServed
<1>1. TypedLookInv /\ [Next]_vars => TypedLookInv'
  BY LookStep
<1>2. TypedLookInv => SteersServed
  BY DEF TypedLookInv, LookInv
<1> QED
  BY <1>1, <1>2, LookInit, PTL DEF Spec

-----------------------------------------------------------------------------
\* Induction, for a set: it is all of Nat if it has 0 and is closed under + 1.
LEMMA Induction ==
    ASSUME NEW T \in SUBSET Nat, 0 \in T, \A n \in T : n + 1 \in T
    PROVE  \A n \in Nat : n \in T
<1> DEFINE less == {ss \in Nat \X Nat : ss[1] < ss[2]}
<1>1. IsWellFoundedOn(less, Nat)
  BY NatLessThanWellFounded DEF OpToRel
<1>2. SUFFICES ASSUME Nat \ T # {} PROVE FALSE
  OBVIOUS
<1> HIDE DEF less
<1>3. PICK m \in Nat \ T : \A k \in Nat \ T : <<k, m>> \notin less
  BY <1>1, <1>2, WFMin
<1>4. m # 0 /\ m - 1 \in Nat
  BY <1>3
<1>5. <<m - 1, m>> \in less
  BY <1>3, <1>4 DEF less
<1>6. m - 1 \in T
  BY <1>3, <1>4, <1>5
<1>7. m - 1 + 1 = m
  BY <1>3
<1> QED
  BY <1>3, <1>6, <1>7

\* SharedUpTo is what its definition says.
LEMMA SharedUpToIs ==
    ASSUME NEW s \in Seq(Kinds)
    PROVE  SharedUpTo(s) =
              [n \in 0..Len(s) |->
                  IF n = 0 THEN <<>>
                  ELSE IF s[n] \in Private THEN SharedUpTo(s)[n - 1]
                       ELSE Append(SharedUpTo(s)[n - 1], s[n])]
<1> DEFINE Is(f, k) ==
              f = [n \in 0..k |-> IF n = 0 THEN <<>>
                                  ELSE IF s[n] \in Private THEN f[n - 1]
                                       ELSE Append(f[n - 1], s[n])]
           T == {k \in Nat : \E f : Is(f, k)}
<1>1. \E f : Is(f, Len(s))
  <2>1. 0 \in T
    <3>1. Is([n \in 0..0 |-> <<>>], 0)
      OBVIOUS
    <3> QED
      BY <3>1
  <2>2. ASSUME NEW k \in T
        PROVE  k + 1 \in T
    <3>1. PICK f : Is(f, k)
      OBVIOUS
    <3> DEFINE x == IF s[k + 1] \in Private THEN f[k] ELSE Append(f[k], s[k + 1])
               g == [n \in 0..(k + 1) |-> IF n <= k THEN f[n] ELSE x]
    <3>2. ASSUME NEW n \in 0..(k + 1)
          PROVE  g[n] = IF n = 0 THEN <<>>
                        ELSE IF s[n] \in Private THEN g[n - 1]
                             ELSE Append(g[n - 1], s[n])
      <4>1. CASE n = 0
        BY <3>1, <4>1
      <4>2. CASE n \in 1..k
        <5>1. g[n] = f[n] /\ g[n - 1] = f[n - 1]
          BY <4>2
        <5>2. f[n] = IF s[n] \in Private THEN f[n - 1] ELSE Append(f[n - 1], s[n])
          <6>1. n \in 0..k /\ n # 0
            BY <4>2
          <6>2. \A w \in 0..k : f[w] = IF w = 0 THEN <<>>
                                  ELSE IF s[w] \in Private THEN f[w - 1]
                                       ELSE Append(f[w - 1], s[w])
            BY <3>1, Zenon
          <6> HIDE DEF Is
          <6> QED
            BY <6>1, <6>2
        <5> HIDE DEF g
        <5> QED
          BY <4>2, <5>1, <5>2
      <4>3. CASE n = k + 1
        <5>1. g[n] = x /\ g[n - 1] = f[k] /\ n # 0
          BY <4>3
        <5> HIDE DEF g
        <5> QED
          BY <4>3, <5>1
      <4> QED
        BY <4>1, <4>2, <4>3
    <3>3. Is(g, k + 1)
      <4>1. g = [n \in 0..(k + 1) |-> g[n]]
        OBVIOUS
      <4> HIDE DEF g
      <4> QED
        BY <3>2, <4>1
    <3> HIDE DEF Is
    <3> QED
      BY <3>3
  <2> HIDE DEF Is
  <2>3. \A k \in Nat : k \in T
    <3>1. T \in SUBSET Nat
      OBVIOUS
    <3> HIDE DEF T
    <3> QED
      BY <2>1, <2>2, <3>1, Induction
  <2> QED
    BY <2>3
<1>2. SharedUpTo(s) = CHOOSE f : Is(f, Len(s))
  BY Zenon DEF SharedUpTo
<1>3. Is(SharedUpTo(s), Len(s))
  <2> HIDE DEF Is
  <2> QED
    BY <1>1, <1>2, Zenon
<1> QED
  BY <1>3

\* SharedUpTo, message by message.
LEMMA SharedSteps ==
    ASSUME NEW s \in Seq(Kinds)
    PROVE  /\ SharedUpTo(s)[0] = <<>>
           /\ \A n \in 1..Len(s) :
                 SharedUpTo(s)[n] =
                    IF s[n] \in Private THEN SharedUpTo(s)[n - 1]
                                        ELSE Append(SharedUpTo(s)[n - 1], s[n])
<1> DEFINE g == SharedUpTo(s)
<1>1. \A n \in 0..Len(s) :
         g[n] = IF n = 0 THEN <<>>
                ELSE IF s[n] \in Private THEN g[n - 1]
                     ELSE Append(g[n - 1], s[n])
  BY SharedUpToIs, Zenon
<1> HIDE DEF g
<1>2. g[0] = <<>>
  BY <1>1
<1>3. ASSUME NEW n \in 1..Len(s)
      PROVE  g[n] = IF s[n] \in Private THEN g[n - 1] ELSE Append(g[n - 1], s[n])
  <2>1. n \in 0..Len(s) /\ n # 0
    OBVIOUS
  <2> QED
    BY <1>1, <2>1
<1> QED
  BY <1>2, <1>3 DEF g

\* What is shared is a conversation.
LEMMA SharedTyped ==
    ASSUME NEW s \in Seq(Kinds), NEW n \in 0..Len(s)
    PROVE  SharedUpTo(s)[n] \in Seq(Kinds)
<1> DEFINE g == SharedUpTo(s)
           T == {k \in Nat : k <= Len(s) => g[k] \in Seq(Kinds)}
<1>0. /\ g[0] = <<>>
      /\ \A k \in 1..Len(s) :
            g[k] = IF s[k] \in Private THEN g[k - 1] ELSE Append(g[k - 1], s[k])
  BY SharedSteps
<1> HIDE DEF g
<1>1. 0 \in T
  <2>1. g[0] \in Seq(Kinds)
    BY <1>0, ShortConversations
  <2> QED
    BY <2>1
<1>2. ASSUME NEW k \in T
      PROVE  k + 1 \in T
  <2>1. CASE k + 1 <= Len(s)
    <3>1. g[k] \in Seq(Kinds) /\ s[k + 1] \in Kinds
      BY <2>1
    <3>2. k + 1 \in 1..Len(s) /\ k + 1 - 1 = k
      BY <2>1
    <3>3. g[k + 1] = IF s[k + 1] \in Private THEN g[k] ELSE Append(g[k], s[k + 1])
      BY <1>0, <3>2
    <3>4. g[k + 1] \in Seq(Kinds)
      BY <3>1, <3>3, OneMore
    <3> QED
      BY <3>4
  <2>2. CASE ~(k + 1 <= Len(s))
    BY <2>2
  <2> QED
    BY <2>1, <2>2
<1>3. T \in SUBSET Nat
  OBVIOUS
<1>4. n \in T
  <2> HIDE DEF T
  <2> QED
    BY <1>1, <1>2, <1>3, Induction
<1> QED
  BY <1>4 DEF g

\* Appending to the second of two conversations.
LEMMA AppendJoined ==
    ASSUME NEW s \in Seq(Kinds), NEW t \in Seq(Kinds), NEW m \in Kinds
    PROVE  Append(s \o t, m) = s \o Append(t, m)
  OBVIOUS

\* What is shared of two conversations one after the other.
LEMMA SharedJoined ==
    ASSUME NEW s \in Seq(Kinds), NEW t \in Seq(Kinds)
    PROVE  Shared(s \o t) = Shared(s) \o Shared(t)
<1> DEFINE w == s \o t
           f == SharedUpTo(s)
           g == SharedUpTo(t)
           h == SharedUpTo(w)
<1>0. /\ w \in Seq(Kinds)
      /\ Len(w) = Len(s) + Len(t)
      /\ \A k \in 1..Len(s) : w[k] = s[k]
      /\ \A k \in 1..Len(t) : w[Len(s) + k] = t[k]
  OBVIOUS
<1> HIDE DEF w
<1>a. /\ h[0] = <<>>
      /\ \A n \in 1..Len(w) :
            h[n] = IF w[n] \in Private THEN h[n - 1] ELSE Append(h[n - 1], w[n])
  BY <1>0, SharedSteps
<1>b. /\ f[0] = <<>>
      /\ \A n \in 1..Len(s) :
            f[n] = IF s[n] \in Private THEN f[n - 1] ELSE Append(f[n - 1], s[n])
  BY SharedSteps
<1>c. /\ g[0] = <<>>
      /\ \A n \in 1..Len(t) :
            g[n] = IF t[n] \in Private THEN g[n - 1] ELSE Append(g[n - 1], t[n])
  BY SharedSteps
<1>d. /\ \A n \in 0..Len(s) : f[n] \in Seq(Kinds)
      /\ \A n \in 0..Len(t) : g[n] \in Seq(Kinds)
  BY SharedTyped
<1> HIDE DEF f, g, h
<1> DEFINE P == {k \in Nat : k <= Len(s) => h[k] = f[k]}
           J(k) == f[Len(s)] \o g[k]
           Q == {k \in Nat : k <= Len(t) => h[Len(s) + k] = J(k)}
<1>1. 0 \in P
  BY <1>a, <1>b
<1>2. ASSUME NEW k \in P
      PROVE  k + 1 \in P
  <2>1. CASE k + 1 <= Len(s)
    <3>1. h[k] = f[k] /\ w[k + 1] = s[k + 1] /\ k + 1 - 1 = k
      BY <1>0, <2>1
    <3>2. k + 1 \in 1..Len(s) /\ k + 1 \in 1..Len(w)
      BY <1>0, <2>1
    <3>3. h[k + 1] = IF w[k + 1] \in Private THEN h[k] ELSE Append(h[k], w[k + 1])
      BY <1>a, <3>1, <3>2
    <3>4. f[k + 1] = IF s[k + 1] \in Private THEN f[k] ELSE Append(f[k], s[k + 1])
      BY <1>b, <3>1, <3>2
    <3> QED
      BY <3>1, <3>3, <3>4
  <2>2. CASE ~(k + 1 <= Len(s))
    BY <2>2
  <2> QED
    BY <2>1, <2>2
<1>3. Len(s) \in P
  <2>1. P \in SUBSET Nat
    OBVIOUS
  <2> HIDE DEF P
  <2> QED
    BY <1>1, <1>2, <2>1, Induction
<1>4. 0 \in Q
  <2>1. f[Len(s)] \in Seq(Kinds) /\ h[Len(s)] = f[Len(s)]
    BY <1>3, <1>d
  <2>2. J(0) = f[Len(s)]
    BY <1>c, <2>1
  <2> HIDE DEF J
  <2> QED
    BY <2>1, <2>2
<1>e. ASSUME NEW k \in 0..(Len(t) - 1)
      PROVE  J(k + 1) = IF t[k + 1] \in Private THEN J(k)
                        ELSE Append(J(k), t[k + 1])
  <2>1. k + 1 \in 1..Len(t) /\ k + 1 - 1 = k /\ k \in 0..Len(t)
    OBVIOUS
  <2>2. g[k + 1] = IF t[k + 1] \in Private THEN g[k] ELSE Append(g[k], t[k + 1])
    BY <1>c, <2>1
  <2>3. f[Len(s)] \in Seq(Kinds) /\ g[k] \in Seq(Kinds) /\ t[k + 1] \in Kinds
    BY <1>d, <2>1
  <2>4. Append(f[Len(s)] \o g[k], t[k + 1]) = f[Len(s)] \o Append(g[k], t[k + 1])
    BY <2>3, AppendJoined, Zenon
  <2> QED
    BY <2>2, <2>4, Zenon
<1> HIDE DEF J
<1>5. ASSUME NEW k \in Q
      PROVE  k + 1 \in Q
  <2>1. CASE k + 1 <= Len(t)
    <3> DEFINE n == Len(s) + (k + 1)
    <3>1. h[Len(s) + k] = J(k)
      BY <2>1
    <3>2. /\ n - 1 = Len(s) + k /\ n \in 1..Len(w)
          /\ k + 1 \in 1..Len(t) /\ k \in 0..(Len(t) - 1)
      BY <1>0, <2>1
    <3>3. w[n] = t[k + 1]
      BY <1>0, <3>2
    <3>4. h[n] = IF w[n] \in Private THEN h[n - 1] ELSE Append(h[n - 1], w[n])
      BY <1>a, <3>2
    <3>5. J(k + 1) = IF t[k + 1] \in Private THEN J(k) ELSE Append(J(k), t[k + 1])
      BY <1>e, <3>2
    <3>6. h[n - 1] = J(k)
      BY <3>1, <3>2
    <3>7. h[n] = J(k + 1)
      BY <3>3, <3>4, <3>5, <3>6, Zenon
    <3> QED
      BY <3>7
  <2>2. CASE ~(k + 1 <= Len(t))
    BY <2>2
  <2> QED
    BY <2>1, <2>2
<1>6. Len(t) \in Q
  <2>1. Q \in SUBSET Nat
    OBVIOUS
  <2> HIDE DEF Q
  <2> QED
    BY <1>4, <1>5, <2>1, Induction
<1> QED
  <2>1. h[Len(s) + Len(t)] = J(Len(t))
    BY <1>6
  <2> QED
    BY <1>0, <2>1 DEF Shared, f, g, h, w, J

\* What is shared of one message.
LEMMA SharedOne ==
    ASSUME NEW m \in Kinds
    PROVE  Shared(<<m>>) = IF m \in Private THEN <<>> ELSE <<m>>
<1> DEFINE s == <<m>>
<1>1. s \in Seq(Kinds) /\ Len(s) = 1 /\ s[1] = m
  OBVIOUS
<1> HIDE DEF s
<1> DEFINE g == SharedUpTo(s)
<1>2. /\ g[0] = <<>>
      /\ \A n \in 1..Len(s) :
            g[n] = IF s[n] \in Private THEN g[n - 1] ELSE Append(g[n - 1], s[n])
  BY <1>1, SharedSteps
<1> HIDE DEF g
<1>3. g[1] = IF m \in Private THEN <<>> ELSE Append(<<>>, m)
  <2>1. 1 \in 1..Len(s) /\ 1 - 1 = 0
    BY <1>1
  <2>2. g[1] = IF s[1] \in Private THEN g[1 - 1] ELSE Append(g[1 - 1], s[1])
    BY <1>2, <2>1, Zenon
  <2>3. g[1 - 1] = <<>>
    BY <1>2, <2>1, Zenon
  <2> QED
    BY <1>1, <2>2, <2>3, Zenon
<1>4. Append(<<>>, m) = <<m>>
  OBVIOUS
<1> QED
  BY <1>1, <1>3, <1>4 DEF Shared, g, s

\* What is shared of a conversation with one more message.
LEMMA SharedOneMore ==
    ASSUME NEW s \in Seq(Kinds), NEW m \in Kinds
    PROVE  Shared(Append(s, m)) = IF m \in Private THEN Shared(s)
                                                    ELSE Append(Shared(s), m)
<1>1. Append(s, m) = s \o <<m>> /\ <<m>> \in Seq(Kinds)
  OBVIOUS
<1>2. Shared(s) \in Seq(Kinds)
  BY SharedTyped DEF Shared
<1>3. Shared(Append(s, m)) = Shared(s) \o Shared(<<m>>)
  BY <1>1, SharedJoined
<1>4. Shared(s) \o <<>> = Shared(s) /\ Shared(s) \o <<m>> = Append(Shared(s), m)
  BY <1>2
<1> QED
  BY <1>3, <1>4, SharedOne

\* The same messages keep two conversations alike.
LEMMA AlikeJoined ==
    ASSUME NEW s \in Seq(Kinds), NEW t \in Seq(Kinds), NEW u \in Seq(Kinds),
           Shared(s) = Shared(t)
    PROVE  Shared(s \o u) = Shared(t \o u)
<1>1. Shared(s \o u) = Shared(s) \o Shared(u)
  BY SharedJoined
<1>2. Shared(t \o u) = Shared(t) \o Shared(u)
  BY SharedJoined
<1> QED
  BY <1>1, <1>2

-----------------------------------------------------------------------------
StoreInv == TypeOK /\ StoreIsConversation

\* Nothing runs at the start.
LEMMA StoreInit == Init => StoreInv
  BY TypeInit DEF Init, StoreInv, StoreIsConversation

\* What a step does to the store and the conversation, where the loop goes on:
\* nothing, or it makes them one, or both get the same messages, but for what
\* is private to one of them.
LEMMA StoreSteps ==
    ASSUME TypeOK, [Next]_vars, pc' \notin {"idle", "after"}
    PROVE  \/ store' = conversation'
           \/ /\ pc \notin {"idle", "after"}
              /\ \E own \in {<<>>, <<"pair_summary">>}, new \in Seq(Kinds) :
                    store' = store \o own \o new /\ conversation' = conversation \o new
           \/ /\ pc \notin {"idle", "after"}
              /\ store' = store
              /\ conversation' = Append(conversation, "exceeded")
<1> DEFINE Both(own, new) ==
              /\ store' = store \o own \o new
              /\ conversation' = conversation \o new
<1>0. /\ store \in Seq(Kinds) /\ conversation \in Seq(Kinds)
      /\ messages_to_add \in Seq(Kinds) /\ steers \in Nat
  BY DEF TypeOK, ConversationTypes, CounterTypes
<1>a. /\ <<>> \in Seq(Kinds)
      /\ store \o <<>> = store
      /\ store \o <<>> \o <<>> = store
      /\ conversation \o <<>> = conversation
  BY <1>0
<1>b. ASSUME UNCHANGED <<store, conversation>>
      PROVE  Both(<<>>, <<>>)
  BY <1>a, <1>b
<1>c. ASSUME NEW m \in Kinds, store' = Append(store, m),
             conversation' = Append(conversation, m)
      PROVE  <<m>> \in Seq(Kinds) /\ Both(<<>>, <<m>>)
  <2>1. <<m>> \in Seq(Kinds)
    OBVIOUS
  <2>2. store \o <<m>> = Append(store, m)
        /\ conversation \o <<m>> = Append(conversation, m)
    BY <1>0
  <2> QED
    BY <1>a, <1>c, <2>1, <2>2
<1>1. CASE UNCHANGED vars
  <2>1. UNCHANGED <<store, conversation, pc>>
    BY <1>1 DEF vars, sessionVars, convVars
  <2> QED
    BY <1>a, <1>b, <2>1
<1>2. CASE StartReply
  BY <1>2 DEF StartReply
<1>3. CASE FailToStart \/ EndReply \/ StopAllowed
  BY <1>3 DEF FailToStart, EndReply, StopAllowed
<1>4. CASE Cancel \/ Steer \/ BeginTurn
  <2>1. UNCHANGED <<store, conversation>> /\ pc \notin {"idle", "after"}
    BY <1>4 DEF Cancel, Steer, BeginTurn, sessionVars, convVars
  <2> QED
    BY <1>a, <1>b, <2>1
<1>5. CASE Top
  <2>1. PICK drained \in {<<>>, Repeat("steer", steers)} :
           store' = store \o drained /\ conversation' = conversation \o drained
    BY <1>5 DEF Top
  <2>2. drained \in Seq(Kinds)
    BY <1>0, <1>a, <2>1, RepeatSteer
  <2>3. Both(<<>>, drained) /\ pc = "top"
    BY <1>5, <1>a, <2>1 DEF Top
  <2> HIDE DEF Both
  <2>4. \E own \in {<<>>, <<"pair_summary">>}, new \in Seq(Kinds) : Both(own, new)
    BY <2>2, <2>3
  <2> QED
    BY <2>3, <2>4 DEF Both
<1>6. CASE TakeFinalOutput
  <2>1. /\ pc = "final"
        /\ store' = Append(store, "final")
        /\ conversation' = Append(conversation, "final")
    BY <1>6 DEF TakeFinalOutput
  <2>2. <<"final">> \in Seq(Kinds) /\ Both(<<>>, <<"final">>)
    BY <1>c, <2>1, KindsOfActions
  <2> HIDE DEF Both
  <2>3. \E own \in {<<>>, <<"pair_summary">>}, new \in Seq(Kinds) : Both(own, new)
    BY <2>2
  <2> QED
    BY <2>1, <2>3 DEF Both
<1>7. CASE Text \/ ToolCalls \/ UnparsableCall
  <2>1. Response
    BY <1>7 DEF Text, ToolCalls, UnparsableCall, RunTools
  <2>2. UNCHANGED <<store, conversation>> /\ pc = "stream"
    BY <2>1 DEF Response, Reading
  <2> QED
    BY <1>a, <1>b, <2>2
<1>8. CASE StreamEnds \/ Abort("refused") \/ Abort("stalled") \/ ContextExceeded
  <2>1. pc = "stream" /\ (\/ UNCHANGED <<store, conversation>>
                         \/ store' = conversation')
    BY <1>8 DEF StreamEnds, Abort, ContextExceeded, LeaveStream
  <2> QED
    BY <1>a, <1>b, <2>1
<1>9. CASE \/ NothingToDecide \/ DecideFinalOutput \/ GoOn \/ Nudge
           \/ Conclude \/ RetriesExceeded \/ Retry
  <2>1. pc = "decide"
    BY <1>9 DEF NothingToDecide, DecideFinalOutput, GoOn, Nudge, Conclude,
       RetriesExceeded, Retry, Concluding, Deciding
  <2>2. \/ UNCHANGED <<store, conversation>>
        \/ store' = conversation'
        \/ /\ store' = store
           /\ conversation' = Append(conversation, "exceeded")
    BY <1>9 DEF NothingToDecide, DecideFinalOutput, GoOn, Nudge, Conclude,
       RetriesExceeded, Retry
  <2> QED
    BY <1>a, <1>b, <2>1, <2>2
<1>10. CASE Save
  <2>1. PICK own \in PairSummaries : store' = store \o own \o messages_to_add
    BY <1>10 DEF Save
  <2>2. own \in {<<>>, <<"pair_summary">>}
    BY DEF PairSummaries
  <2>3. conversation' = conversation \o messages_to_add /\ pc = "save"
    BY <1>10 DEF Save
  <2>4. Both(own, messages_to_add)
    BY <2>1, <2>3
  <2> HIDE DEF Both
  <2>5. \E o \in {<<>>, <<"pair_summary">>}, new \in Seq(Kinds) : Both(o, new)
    BY <1>0, <2>2, <2>4
  <2> QED
    BY <2>3, <2>5 DEF Both
<1>11. CASE StopDenied
  <2>1. /\ pc = "hook"
        /\ store' = Append(store, "denial")
        /\ conversation' = Append(conversation, "denial")
    BY <1>11 DEF StopDenied, Heard
  <2>2. <<"denial">> \in Seq(Kinds) /\ Both(<<>>, <<"denial">>)
    BY <1>c, <2>1, KindsOfActions
  <2> HIDE DEF Both
  <2>3. \E own \in {<<>>, <<"pair_summary">>}, new \in Seq(Kinds) : Both(own, new)
    BY <2>2
  <2> QED
    BY <2>1, <2>3 DEF Both
<1>12. CASE DrainFails \/ FinalOutputFails \/ RetryFails \/ CallFails \/ SaveFails
  BY <1>12 DEF DrainFails, FinalOutputFails, RetryFails, CallFails, SaveFails,
     Fail
<1> QED
  BY <1>1, <1>2, <1>3, <1>4, <1>5, <1>6, <1>7, <1>8, <1>9, <1>10, <1>11, <1>12
     DEF Next, Progress, Failure

\* Every step keeps the conversation of the loop that of the store.
LEMMA StoreStep ==
    ASSUME StoreInv, [Next]_vars
    PROVE  StoreInv'
<1>0. /\ TypeOK /\ TypeOK'
      /\ store \in Seq(Kinds) /\ conversation \in Seq(Kinds)
      /\ pc \notin {"idle", "after"} => Shared(store) = Shared(conversation)
  BY TypeStep DEF StoreInv, StoreIsConversation, TypeOK, ConversationTypes
<1>1. SUFFICES ASSUME pc' \notin {"idle", "after"}
               PROVE  Shared(store') = Shared(conversation')
  BY <1>0 DEF StoreInv, StoreIsConversation
<1>2. CASE store' = conversation'
  BY <1>2
<1>3. ASSUME pc \notin {"idle", "after"},
             NEW own \in {<<>>, <<"pair_summary">>}, NEW new \in Seq(Kinds),
             store' = store \o own \o new, conversation' = conversation \o new
      PROVE  Shared(store') = Shared(conversation')
  <2>1. own \in Seq(Kinds) /\ store \o own \in Seq(Kinds)
    <3>1. own \in Seq(Kinds)
      BY ShortConversations
    <3> QED
      BY <1>0, <3>1, Joined
  <2>2. Shared(<<>>) = <<>> /\ Shared(<<"pair_summary">>) = <<>>
    <3>1. Shared(<<"pair_summary">>) = <<>>
      BY SharedOne, KindsOfActions DEF Private
    <3>2. Shared(<<>>) = <<>>
      BY SharedSteps, ShortConversations DEF Shared
    <3> QED
      BY <3>1, <3>2
  <2>3. Shared(store \o own) = Shared(store) \o Shared(own)
    BY <1>0, <2>1, SharedJoined
  <2>4. Shared(store) \in Seq(Kinds)
    BY <1>0, SharedTyped DEF Shared
  <2>5. Shared(own) = <<>>
    BY <2>2
  <2>6. Shared(store) \o <<>> = Shared(store)
    BY <2>4
  <2>7. Shared(store \o own) = Shared(conversation)
    BY <1>0, <1>3, <2>3, <2>5, <2>6
  <2> DEFINE longer == store \o own
  <2> HIDE DEF longer
  <2>8. Shared(longer \o new) = Shared(conversation \o new)
    BY <1>0, <2>1, <2>7, AlikeJoined DEF longer
  <2> QED
    BY <1>3, <2>8 DEF longer
<1>4. CASE /\ pc \notin {"idle", "after"}
           /\ store' = store
           /\ conversation' = Append(conversation, "exceeded")
  <2>1. "exceeded" \in Private
    BY DEF Private
  <2>2. Shared(Append(conversation, "exceeded")) = Shared(conversation)
    BY <1>0, <2>1, SharedOneMore, KindsOfActions
  <2> QED
    BY <1>0, <1>4, <2>2
<1> QED
  BY <1>0, <1>1, <1>2, <1>3, <1>4, StoreSteps

\* Between iterations the agent works on what the store holds, whatever retries,
\* compactions, steers, denials and failures came before.
THEOREM StoreHoldsConversation == Spec => []StoreIsConversation
<1>1. StoreInv /\ [Next]_vars => StoreInv'
  BY StoreStep
<1>2. StoreInv => StoreIsConversation
  BY DEF StoreInv
<1> QED
  BY <1>1, <1>2, StoreInit, PTL DEF Spec
=============================================================================
