----------------------------- MODULE Elicitation -----------------------------
(***************************************************************************)
(* Elicitation: a tool asks the user a question and waits, and a handler   *)
(* records and delivers the answer.  bharatcode-core's ActionRequired-     *)
(* Manager (action_required_manager.rs), complete_elicitation_with_message *)
(* (elicitation.rs) and the agent's drain of queued questions.             *)
(*                                                                         *)
(* Every .await between two pieces of shared state is a step of its own:   *)
(* the answer, the timeout and the end of either side race.                *)
(***************************************************************************)
EXTENDS Integers, Sequences

CONSTANTS
    Requests,       \* elicitation ids, one per request_and_wait
    Responders,     \* calls that answer, one per POST or ACP answer
    Sessions,
    None            \* no responder, no request

\* What request_and_wait returns: nothing yet, a timeout, or an answer.
Outcomes == Responders \cup {"none", "timeout"}

ASSUME ElicitationAssumption ==
    /\ None \notin Requests \cup Responders
    /\ {"none", "timeout", "abandoned"} \cap Responders = {}

VARIABLES
    session,        \* request -> session that asked
    waiter,         \* request -> where request_and_wait is
    pending,        \* requests in the pending map
    tx,             \* request -> response_tx is still Some
    holder,         \* request -> responder holding the PendingRequest lock
    channel,        \* request -> answer in the oneshot channel, or None
    result,         \* request -> what request_and_wait returned
    queue,          \* session -> questions queued for it
    shown,          \* questions the agent has drained and sent to the user
    target,         \* responder -> request it answers
    from,           \* responder -> session it answers for
    pc,             \* responder -> where complete_elicitation is
    recorded        \* responders whose answer is in the conversation

waiterVars    == <<session, waiter, pending, result>>
sharedVars    == <<tx, holder, channel>>
queueVars     == <<queue, shown>>
responderVars == <<target, from, pc, recorded>>
vars == <<waiterVars, sharedVars, queueVars, responderVars>>

Waiting == {"waiting", "expired", "late"}

\* The oneshot's receiving half lives as long as wait_for_response.
RxClosed(r) == waiter[r] \notin Waiting

Init ==
    /\ session \in [Requests -> Sessions]
    /\ waiter = [r \in Requests |-> "new"]
    /\ pending = {}
    /\ tx = [r \in Requests |-> TRUE]
    /\ holder = [r \in Requests |-> None]
    /\ channel = [r \in Requests |-> None]
    /\ result = [r \in Requests |-> "none"]
    /\ queue = [s \in Sessions |-> <<>>]
    /\ shown = {}
    /\ target = [d \in Responders |-> None]
    /\ from \in [Responders -> Sessions]
    /\ pc = [d \in Responders |-> "new"]
    /\ recorded = {}

-----------------------------------------------------------------------------
\* request_and_wait: register, queue the question.  The question is visible
\* only once it is queued, so the two awaits before the wait are one step.
Ask(r) ==
    /\ waiter[r] = "new"
    /\ waiter' = [waiter EXCEPT ![r] = "waiting"]
    /\ pending' = pending \cup {r}
    /\ queue' = [queue EXCEPT ![session[r]] = Append(@, r)]
    /\ UNCHANGED <<session, result, sharedVars, shown, responderVars>>

\* drain_elicitation_messages: the agent shows what is queued for a session.
Drain(s) ==
    /\ queue[s] # <<>>
    /\ shown' = shown \cup {queue[s][i] : i \in 1..Len(queue[s])}
    /\ queue' = [queue EXCEPT ![s] = <<>>]
    /\ UNCHANGED <<waiterVars, sharedVars, responderVars>>

Return(r, outcome) ==
    /\ waiter' = [waiter EXCEPT ![r] = "returned"]
    /\ result' = [result EXCEPT ![r] = outcome]

\* The answer arrives, in time or after the timeout path let it through.
Receive(r) ==
    /\ waiter[r] \in {"waiting", "late"}
    /\ channel[r] # None
    /\ Return(r, channel[r])
    /\ UNCHANGED <<session, pending, sharedVars, queueVars, responderVars>>

\* timeout polls the channel before the clock.
TimerFires(r) ==
    /\ waiter[r] = "waiting"
    /\ channel[r] = None
    /\ waiter' = [waiter EXCEPT ![r] = "expired"]
    /\ UNCHANGED <<session, pending, result, sharedVars, queueVars,
                   responderVars>>

\* Mutant of Expire: gives up without looking for an answer under way.
ExpireBlindly(r) ==
    /\ waiter[r] = "expired"
    /\ tx' = [tx EXCEPT ![r] = FALSE]
    /\ Return(r, "timeout")
    /\ UNCHANGED <<session, pending, holder, channel, queueVars,
                   responderVars>>

\* Under the lock: nobody has taken the sender, so the question expires; or
\* an answer is under way, and the waiter goes back to waiting for it.
Expire(r) ==
    /\ waiter[r] = "expired"
    /\ holder[r] = None
    /\ \/ /\ tx[r]
          /\ tx' = [tx EXCEPT ![r] = FALSE]
          /\ Return(r, "timeout")
       \/ /\ ~tx[r]
          /\ waiter' = [waiter EXCEPT ![r] = "late"]
          /\ UNCHANGED <<tx, result>>
    /\ UNCHANGED <<session, pending, holder, channel, queueVars,
                   responderVars>>

\* The future that waits is dropped: its tool call was cancelled.  The entry
\* in pending stays.
DropWaiter(r) ==
    /\ waiter[r] \in Waiting \cup {"returned"}
    /\ waiter' = [waiter EXCEPT ![r] = "dropped"]
    /\ UNCHANGED <<session, pending, result, sharedVars, queueVars,
                   responderVars>>

Forget(r) ==
    /\ waiter[r] = "returned"
    /\ waiter' = [waiter EXCEPT ![r] = "done"]
    /\ pending' = pending \ {r}
    /\ UNCHANGED <<session, result, sharedVars, queueVars, responderVars>>

-----------------------------------------------------------------------------
\* claim_response, first half: look the question up, and keep the Arc.
Lookup(d, r) ==
    /\ pc[d] = "new"
    /\ r \in shown
    /\ target' = [target EXCEPT ![d] = r]
    /\ pc' = [pc EXCEPT ![d] = IF r \in pending THEN "found" ELSE "error"]
    /\ UNCHANGED <<waiterVars, sharedVars, queueVars, from, recorded>>

\* Mutant of MayClaim: forgets whose question it is.
MayClaimAny(d, r) == tx[r] /\ ~RxClosed(r)

MayClaim(d, r) == session[r] = from[d] /\ tx[r] /\ ~RxClosed(r)

\* Mutant of Claim: the lock is not kept across the write.
ClaimUnlocked(d) ==
    /\ pc[d] = "found"
    /\ LET r == target[d]
       IN  /\ holder[r] = None
           /\ pc' = [pc EXCEPT ![d] = IF MayClaim(d, r) THEN "claimed"
                                                        ELSE "error"]
           /\ UNCHANGED <<tx, holder>>
    /\ UNCHANGED <<waiterVars, channel, queueVars, target, from, recorded>>

\* claim_response, second half: the claim keeps the lock.  A sender whose
\* receiver is gone is taken; every refusal releases the lock.
Claim(d) ==
    /\ pc[d] = "found"
    /\ LET r == target[d]
       IN  /\ holder[r] = None
           /\ IF MayClaim(d, r)
              THEN /\ holder' = [holder EXCEPT ![r] = d]
                   /\ pc' = [pc EXCEPT ![d] = "claimed"]
                   /\ UNCHANGED tx
              ELSE /\ tx' = [tx EXCEPT ![r] =
                               @ /\ (session[r] = from[d] => ~RxClosed(r))]
                   /\ pc' = [pc EXCEPT ![d] = "error"]
                   /\ UNCHANGED holder
    /\ UNCHANGED <<waiterVars, channel, queueVars, target, from, recorded>>

\* add_message: the answer is in the conversation, or it failed and the claim
\* is dropped with the sender untouched.
Record(d) ==
    /\ pc[d] = "claimed"
    /\ pc' = [pc EXCEPT ![d] = "recorded"]
    /\ recorded' = recorded \cup {d}
    /\ UNCHANGED <<waiterVars, sharedVars, queueVars, target, from>>

KeepLock(d) == UNCHANGED holder                              \* mutant of Unlock

Unlock(d) == holder' = [r \in Requests |->
                          IF holder[r] = d THEN None ELSE holder[r]]

RecordFails(d) ==
    /\ pc[d] = "claimed"
    /\ Unlock(d)
    /\ pc' = [pc EXCEPT ![d] = "error"]
    /\ UNCHANGED <<waiterVars, tx, channel, queueVars, target, from, recorded>>

\* The handler's future is dropped while it waits for the database, which may
\* have written the answer all the same.
DropResponder(d) ==
    /\ pc[d] \in {"found", "claimed"}
    /\ Unlock(d)
    /\ pc' = [pc EXCEPT ![d] = "dropped"]
    /\ recorded' \in {recorded} \cup
                     (IF pc[d] = "claimed" THEN {recorded \cup {d}} ELSE {})
    /\ UNCHANGED <<waiterVars, tx, channel, queueVars, target, from>>

\* submit: take the sender and release the lock ...
Take(d) ==
    /\ pc[d] = "recorded"
    /\ tx' = [tx EXCEPT ![target[d]] = FALSE]
    /\ Unlock(d)
    /\ pc' = [pc EXCEPT ![d] = IF tx[target[d]] THEN "taken" ELSE "error"]
    /\ UNCHANGED <<waiterVars, channel, queueVars, target, from, recorded>>

\* Mutant of Send: ignores that the receiver is gone.
SendAnyway(d) ==
    /\ pc[d] = "taken"
    /\ pc' = [pc EXCEPT ![d] = "ok"]
    /\ channel' = [channel EXCEPT ![target[d]] = d]
    /\ UNCHANGED <<waiterVars, tx, holder, queueVars, target, from, recorded>>

\* ... then send; the send fails if the receiver is gone.
Send(d) ==
    /\ pc[d] = "taken"
    /\ IF RxClosed(target[d])
       THEN /\ pc' = [pc EXCEPT ![d] = "error"]
            /\ UNCHANGED channel
       ELSE /\ pc' = [pc EXCEPT ![d] = "ok"]
            /\ channel' = [channel EXCEPT ![target[d]] = d]
    /\ UNCHANGED <<waiterVars, tx, holder, queueVars, target, from, recorded>>

-----------------------------------------------------------------------------
Waiter(r) == Receive(r) \/ TimerFires(r) \/ Expire(r) \/ Forget(r)
Responder(d) ==
    \/ Claim(d) \/ Record(d) \/ RecordFails(d) \/ Take(d) \/ Send(d)

Next ==
    \/ \E r \in Requests : Ask(r) \/ Waiter(r) \/ DropWaiter(r)
    \/ \E s \in Sessions : Drain(s)
    \/ \E d \in Responders :
          \/ \E r \in Requests : Lookup(d, r)
          \/ Responder(d)
          \/ DropResponder(d)

Spec == Init /\ [][Next]_vars

\* The clock runs, both sides are polled, and the session store answers.
FairSpec ==
    /\ Spec
    /\ \A r \in Requests : WF_vars(Waiter(r))
    /\ \A d \in Responders : WF_vars(Responder(d))

-----------------------------------------------------------------------------
\* Types of the variables.
TypeOK ==
    /\ session \in [Requests -> Sessions]
    /\ waiter \in [Requests -> Waiting \cup {"new", "returned", "done", "dropped"}]
    /\ pending \subseteq Requests
    /\ tx \in [Requests -> BOOLEAN]
    /\ holder \in [Requests -> Responders \cup {None}]
    /\ channel \in [Requests -> Responders \cup {None}]
    /\ result \in [Requests -> Outcomes]
    /\ queue \in [Sessions -> Seq(Requests)]
    /\ shown \subseteq Requests
    /\ target \in [Responders -> Requests \cup {None}]
    /\ from \in [Responders -> Sessions]
    /\ pc \in [Responders -> {"new", "found", "claimed", "recorded", "taken",
                              "ok", "error", "dropped"}]
    /\ recorded \subseteq Responders

\* claimed_response_can_complete_after_timeout_deadline: once the answer is
\* in the conversation, a tool that still waits gets that answer and never a
\* timeout.  Only a handler dropped in mid-write breaks the tie.
RecordedAnswerWins ==
    \A d \in recorded :
        pc[d] # "dropped" => result[target[d]] \in {"none", d}

\* Of two answers to one question at most one enters the conversation, so
\* the history never shows an answer the tool did not get.
OneRecordedAnswer ==
    \A d, e \in recorded :
        target[d] = target[e] /\ pc[d] # "dropped" /\ pc[e] # "dropped" => d = e

\* Both sides agree: a sender told "ok" decided the question, unless the
\* asker was dropped, and an asker's answer is from its own session.
SidesAgree ==
    /\ \A d \in Responders : pc[d] = "ok" =>
          \/ channel[target[d]] = d /\ waiter[target[d]] \in Waiting
          \/ result[target[d]] = d
          \/ waiter[target[d]] = "dropped"
    /\ \A r \in Requests : result[r] \in Responders =>
          /\ pc[result[r]] = "ok"
          /\ from[result[r]] = session[r]
          /\ result[r] \in recorded

\* request_and_wait returns, whatever the responders do: no waiter is stuck
\* on the lock of a claim or on a channel nobody will use.
WaitEnds ==
    \A r \in Requests :
        waiter[r] = "waiting" ~> waiter[r] \in {"done", "dropped"}

-----------------------------------------------------------------------------
(***************************************************************************)
(* The refinement: a question is decided when its answer is sent, when the *)
(* waiter takes the sender, or when the waiter is dropped.                 *)
(***************************************************************************)
Accepted == {d \in Responders : pc[d] = "ok"}

Decision(r) ==
    IF \E d \in Accepted : target[d] = r
    THEN CHOOSE d \in Accepted : target[d] = r
    ELSE IF result[r] = "timeout" THEN "timeout"
    ELSE IF waiter[r] = "dropped" THEN "abandoned" ELSE "none"

Abstract == INSTANCE OneShotAnswer WITH
    Questions <- Requests, Answers <- Responders,
    Undecided <- "none", Expired <- "timeout", Abandoned <- "abandoned",
    decision <- [r \in Requests |-> Decision(r)],
    told <- result,
    acknowledged <- Accepted

\* The locks, channels and awaits of an elicitation implement a question that
\* is decided once: the timeout, the answers and the end of either side.
ImplementsOneShotAnswer == Abstract!Spec
=============================================================================
