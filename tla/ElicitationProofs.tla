-------------------------- MODULE ElicitationProofs --------------------------
(***************************************************************************)
(* What Elicitation guarantees for any questions, responders and sessions, *)
(* and that it implements OneShotAnswer.                                   *)
(*                                                                         *)
(* The argument is about the sender, tx: while a claim holds the lock the  *)
(* sender is there (LockInv), and a recorded answer has either the lock or *)
(* has taken the sender (TakenInv).  So of two recorded answers the second *)
(* would have found the sender gone, and a waiter that expires finds it    *)
(* only if there is no recorded answer.                                    *)
(***************************************************************************)
EXTENDS Elicitation, TLAPS

\* A request has its result when, and only when, request_and_wait has returned,
\* and not while the sender is there.
WaitInv ==
    \A r \in Requests :
        /\ waiter[r] \in Waiting \cup {"new"} => result[r] = "none"
        /\ waiter[r] \in {"returned", "done"} => result[r] # "none"
        /\ tx[r] => result[r] = "none"

\* A claim has the lock, and as long as it does the sender is there.
LockInv ==
    \A d \in Responders :
        /\ pc[d] # "new" => target[d] \in Requests
        /\ pc[d] \in {"claimed", "recorded"} =>
              holder[target[d]] = d /\ tx[target[d]]
        /\ pc[d] \in {"claimed", "recorded", "taken", "ok"} =>
              from[d] = session[target[d]]

\* Which answers are recorded; these have taken the sender or have the lock.
TakenInv ==
    \A d \in Responders :
        /\ pc[d] \in {"recorded", "taken", "ok"} => d \in recorded
        /\ d \in recorded =>
              pc[d] \in {"recorded", "taken", "ok", "error", "dropped"}
        /\ d \in recorded /\ pc[d] \in {"taken", "ok", "error"} => ~tx[target[d]]

\* What is in a channel was accepted, for this request.
ChannelInv ==
    \A r \in Requests : channel[r] # None =>
        /\ channel[r] \in Responders
        /\ pc[channel[r]] = "ok"
        /\ target[channel[r]] = r

\* A result is of an answer to this request.
ResultInv ==
    \A r \in Requests : result[r] \in Responders => target[result[r]] = r

\* What every state satisfies.
IInv ==
    /\ TypeOK
    /\ WaitInv
    /\ LockInv
    /\ TakenInv
    /\ ChannelInv
    /\ ResultInv
    /\ OneRecordedAnswer
    /\ RecordedAnswerWins
    /\ SidesAgree

Names == /\ None \notin Requests /\ None \notin Responders
         /\ "none" \notin Responders /\ "timeout" \notin Responders

LEMMA NamesDiffer == Names
  BY ElicitationAssumption DEF Names

-----------------------------------------------------------------------------
LEMMA InitIInv == Init => IInv
<1> SUFFICES ASSUME Init
             PROVE  IInv
  OBVIOUS
<1>1. queue \in [Sessions -> Seq(Requests)]
  BY DEF Init
<1>2. TypeOK
  BY <1>1 DEF Init, TypeOK, Outcomes
<1> QED
  BY <1>2, NamesDiffer
     DEF Init, IInv, WaitInv, LockInv, TakenInv, ChannelInv, ResultInv,
         OneRecordedAnswer, RecordedAnswerWins, SidesAgree, Waiting, Names

LEMMA TypeStep ==
    ASSUME TypeOK, [Next]_vars
    PROVE  TypeOK'
<1> USE DEF TypeOK, waiterVars, sharedVars, queueVars, responderVars, Waiting
<1>1. CASE UNCHANGED vars
  BY <1>1 DEF vars
<1>2. ASSUME NEW r \in Requests, Ask(r)
      PROVE  TypeOK'
  <2>1. Append(queue[session[r]], r) \in Seq(Requests)
    OBVIOUS
  <2>2. queue' \in [Sessions -> Seq(Requests)]
    BY <1>2, <2>1 DEF Ask
  <2> QED
    BY <1>2, <2>2 DEF Ask
<1>3. ASSUME NEW r \in Requests, Receive(r)
      PROVE  TypeOK'
  BY <1>3 DEF Receive, Return, Outcomes
<1>4. ASSUME NEW r \in Requests, TimerFires(r)
      PROVE  TypeOK'
  BY <1>4 DEF TimerFires
<1>5. ASSUME NEW r \in Requests, Expire(r)
      PROVE  TypeOK'
  BY <1>5 DEF Expire, Return, Outcomes
<1>6. ASSUME NEW r \in Requests, Forget(r)
      PROVE  TypeOK'
  BY <1>6 DEF Forget
<1>7. ASSUME NEW r \in Requests, DropWaiter(r)
      PROVE  TypeOK'
  BY <1>7 DEF DropWaiter
<1>8. ASSUME NEW s \in Sessions, Drain(s)
      PROVE  TypeOK'
  <2>1. <<>> \in Seq(Requests) /\ queue[s] \in Seq(Requests)
    OBVIOUS
  <2>2. queue' \in [Sessions -> Seq(Requests)]
    BY <1>8, <2>1 DEF Drain
  <2>3. {queue[s][i] : i \in 1..Len(queue[s])} \subseteq Requests
    BY <2>1
  <2>4. shown' \subseteq Requests
    BY <1>8, <2>3 DEF Drain
  <2> QED
    BY <1>8, <2>2, <2>4 DEF Drain
<1>9. ASSUME NEW d \in Responders, NEW r \in Requests, Lookup(d, r)
      PROVE  TypeOK'
  BY <1>9 DEF Lookup
<1>10. ASSUME NEW d \in Responders, Claim(d)
       PROVE  TypeOK'
  <2>1. CASE MayClaim(d, target[d])
    <3>1. /\ tx' = tx /\ holder' = [holder EXCEPT ![target[d]] = d]
          /\ pc' = [pc EXCEPT ![d] = "claimed"]
      BY <1>10, <2>1 DEF Claim
    <3> QED
      BY <1>10, <3>1 DEF Claim
  <2>2. CASE ~MayClaim(d, target[d])
    <3>1. /\ \E b \in BOOLEAN : tx' = [tx EXCEPT ![target[d]] = b]
          /\ pc' = [pc EXCEPT ![d] = "error"] /\ holder' = holder
      BY <1>10, <2>2 DEF Claim
    <3> QED
      BY <1>10, <3>1 DEF Claim
  <2> QED
    BY <2>1, <2>2
<1>11. ASSUME NEW d \in Responders, Record(d)
       PROVE  TypeOK'
  BY <1>11 DEF Record
<1>12. ASSUME NEW d \in Responders, RecordFails(d)
       PROVE  TypeOK'
  BY <1>12 DEF RecordFails, Unlock
<1>13. ASSUME NEW d \in Responders, Take(d)
       PROVE  TypeOK'
  BY <1>13 DEF Take, Unlock
<1>14. ASSUME NEW d \in Responders, Send(d)
       PROVE  TypeOK'
  BY <1>14 DEF Send
<1>15. ASSUME NEW d \in Responders, DropResponder(d)
       PROVE  TypeOK'
  BY <1>15 DEF DropResponder, Unlock
<1> HIDE DEF TypeOK, waiterVars, sharedVars, queueVars, responderVars, Waiting
<1> QED
  BY <1>1, <1>2, <1>3, <1>4, <1>5, <1>6, <1>7, <1>8, <1>9, <1>10, <1>11,
     <1>12, <1>13, <1>14, <1>15 DEF Next, Waiter, Responder

-----------------------------------------------------------------------------
\* The answer arrives.
LEMMA ReceiveInv ==
    ASSUME IInv, NEW r \in Requests, Receive(r)
    PROVE  IInv'
<1>1. TypeOK'
  BY TypeStep DEF IInv, Next, Waiter, Responder
<1> USE NamesDiffer DEF Names, IInv, TypeOK, Receive, Return, Waiting, waiterVars,
                        sharedVars, queueVars, responderVars
<1>2. WaitInv'
  BY DEF WaitInv, ChannelInv, TakenInv
<1>3. LockInv'
  BY DEF LockInv
<1>4. TakenInv'
  BY DEF TakenInv, LockInv
<1>5. ChannelInv'
  BY DEF ChannelInv
<1>6. ResultInv'
  BY DEF ResultInv, ChannelInv, SidesAgree
<1>7. OneRecordedAnswer'
  BY DEF OneRecordedAnswer, TakenInv, LockInv, TypeOK
<1>8. RecordedAnswerWins'
  BY DEF RecordedAnswerWins, OneRecordedAnswer, WaitInv, TakenInv,
             LockInv, ChannelInv, TypeOK
<1>9. SidesAgree'
  BY DEF SidesAgree, OneRecordedAnswer, WaitInv, TakenInv, LockInv,
             ChannelInv, ResultInv
<1> QED
  BY <1>1, <1>2, <1>3, <1>4, <1>5, <1>6, <1>7, <1>8, <1>9

\* The clock runs out.
LEMMA TimerFiresInv ==
    ASSUME IInv, NEW r \in Requests, TimerFires(r)
    PROVE  IInv'
<1>1. TypeOK'
  BY TypeStep DEF IInv, Next, Waiter, Responder
<1> USE NamesDiffer DEF Names, IInv, TypeOK, TimerFires, Waiting, waiterVars,
                        sharedVars, queueVars, responderVars
<1>2. WaitInv'
  BY DEF WaitInv, ChannelInv, TakenInv
<1>3. LockInv'
  BY DEF LockInv
<1>4. TakenInv'
  BY DEF TakenInv, LockInv
<1>5. ChannelInv'
  BY DEF ChannelInv
<1>6. ResultInv'
  BY DEF ResultInv, ChannelInv, SidesAgree
<1>7. OneRecordedAnswer'
  BY DEF OneRecordedAnswer, TakenInv, LockInv, TypeOK
<1>8. RecordedAnswerWins'
  BY DEF RecordedAnswerWins, OneRecordedAnswer, WaitInv, TakenInv,
             LockInv, ChannelInv, TypeOK
<1>9. SidesAgree'
  BY DEF SidesAgree, OneRecordedAnswer, WaitInv, TakenInv, LockInv,
             ChannelInv, ResultInv
<1> QED
  BY <1>1, <1>2, <1>3, <1>4, <1>5, <1>6, <1>7, <1>8, <1>9

\* The waiter takes the sender, or finds it gone.
LEMMA ExpireInv ==
    ASSUME IInv, NEW r \in Requests, Expire(r)
    PROVE  IInv'
<1>0. /\ waiter[r] = "expired" /\ holder[r] = None
      /\ UNCHANGED <<session, from, holder, channel, target, pc, recorded>>
      /\ \A q \in Requests : q # r =>
           waiter'[q] = waiter[q] /\ result'[q] = result[q] /\ tx'[q] = tx[q]
      /\ ~tx'[r]
      /\ IF tx[r] THEN waiter'[r] = "returned" /\ result'[r] = "timeout"
               ELSE waiter'[r] = "late" /\ result'[r] = result[r]
  BY DEF IInv, TypeOK, LockInv, TakenInv, Expire, Return, RxClosed,
         waiterVars, sharedVars, queueVars, responderVars
<1>1. TypeOK'
  BY TypeStep DEF IInv, Next, Waiter, Responder
<1> USE <1>0, NamesDiffer DEF Names, IInv, Waiting
<1>2. WaitInv'
  BY DEF WaitInv, ChannelInv, TakenInv
<1>3. LockInv'
  BY DEF LockInv
<1>4. TakenInv'
  BY DEF TakenInv, LockInv
<1>5. ChannelInv'
  BY DEF ChannelInv
<1>6. ResultInv'
  BY DEF ResultInv, ChannelInv, SidesAgree
<1>7. OneRecordedAnswer'
  BY DEF OneRecordedAnswer, TakenInv, LockInv, TypeOK
<1>8. RecordedAnswerWins'
  <2>1. ASSUME NEW e \in Responders, e \in recorded', pc'[e] # "dropped"
        PROVE  result'[target'[e]] \in {"none", e}
    <3>1. e \in recorded /\ pc[e] # "dropped" /\ target[e] \in Requests
      BY <2>1 DEF TakenInv, LockInv
    <3>2. result[target[e]] \in {"none", e}
      BY <3>1 DEF RecordedAnswerWins
    <3>3. target[e] # r \/ ~tx[r]
      BY <3>1 DEF TakenInv, LockInv
    <3> QED
      BY <3>1, <3>2, <3>3
  <2> QED
    BY <1>1, <2>1 DEF RecordedAnswerWins, TypeOK
<1>9. SidesAgree'
  BY DEF SidesAgree, OneRecordedAnswer, WaitInv, TakenInv, LockInv,
             ChannelInv, ResultInv
<1> QED
  BY <1>1, <1>2, <1>3, <1>4, <1>5, <1>6, <1>7, <1>8, <1>9

\* The entry goes.
LEMMA ForgetInv ==
    ASSUME IInv, NEW r \in Requests, Forget(r)
    PROVE  IInv'
<1>1. TypeOK'
  BY TypeStep DEF IInv, Next, Waiter, Responder
<1> USE NamesDiffer DEF Names, IInv, TypeOK, Forget, Waiting, waiterVars,
                        sharedVars, queueVars, responderVars
<1>2. WaitInv'
  BY DEF WaitInv, ChannelInv, TakenInv
<1>3. LockInv'
  BY DEF LockInv
<1>4. TakenInv'
  BY DEF TakenInv, LockInv
<1>5. ChannelInv'
  BY DEF ChannelInv
<1>6. ResultInv'
  BY DEF ResultInv, ChannelInv, SidesAgree
<1>7. OneRecordedAnswer'
  BY DEF OneRecordedAnswer, TakenInv, LockInv, TypeOK
<1>8. RecordedAnswerWins'
  BY DEF RecordedAnswerWins, OneRecordedAnswer, WaitInv, TakenInv,
             LockInv, ChannelInv, TypeOK
<1>9. SidesAgree'
  BY DEF SidesAgree, OneRecordedAnswer, WaitInv, TakenInv, LockInv,
             ChannelInv, ResultInv
<1> QED
  BY <1>1, <1>2, <1>3, <1>4, <1>5, <1>6, <1>7, <1>8, <1>9

\* The waiter is dropped.
LEMMA DropWaiterInv ==
    ASSUME IInv, NEW r \in Requests, DropWaiter(r)
    PROVE  IInv'
<1>1. TypeOK'
  BY TypeStep DEF IInv, Next, Waiter, Responder
<1> USE NamesDiffer DEF Names, IInv, TypeOK, DropWaiter, Waiting, waiterVars,
                        sharedVars, queueVars, responderVars
<1>2. WaitInv'
  BY DEF WaitInv, ChannelInv, TakenInv
<1>3. LockInv'
  BY DEF LockInv
<1>4. TakenInv'
  BY DEF TakenInv, LockInv
<1>5. ChannelInv'
  BY DEF ChannelInv
<1>6. ResultInv'
  BY DEF ResultInv, ChannelInv, SidesAgree
<1>7. OneRecordedAnswer'
  BY DEF OneRecordedAnswer, TakenInv, LockInv, TypeOK
<1>8. RecordedAnswerWins'
  BY DEF RecordedAnswerWins, OneRecordedAnswer, WaitInv, TakenInv,
             LockInv, ChannelInv, TypeOK
<1>9. SidesAgree'
  BY DEF SidesAgree, OneRecordedAnswer, WaitInv, TakenInv, LockInv,
             ChannelInv, ResultInv
<1> QED
  BY <1>1, <1>2, <1>3, <1>4, <1>5, <1>6, <1>7, <1>8, <1>9

\* The question is asked.
LEMMA AskInv ==
    ASSUME IInv, NEW r \in Requests, Ask(r)
    PROVE  IInv'
<1>1. TypeOK'
  BY TypeStep DEF IInv, Next, Waiter, Responder
<1> USE NamesDiffer DEF Names, IInv, TypeOK, Ask, Waiting, waiterVars,
                        sharedVars, queueVars, responderVars
<1>2. WaitInv'
  BY DEF WaitInv, ChannelInv, TakenInv
<1>3. LockInv'
  BY DEF LockInv
<1>4. TakenInv'
  BY DEF TakenInv, LockInv
<1>5. ChannelInv'
  BY DEF ChannelInv
<1>6. ResultInv'
  BY DEF ResultInv, ChannelInv, SidesAgree
<1>7. OneRecordedAnswer'
  BY DEF OneRecordedAnswer, TakenInv, LockInv, TypeOK
<1>8. RecordedAnswerWins'
  BY DEF RecordedAnswerWins, OneRecordedAnswer, WaitInv, TakenInv,
             LockInv, ChannelInv, TypeOK
<1>9. SidesAgree'
  BY DEF SidesAgree, OneRecordedAnswer, WaitInv, TakenInv, LockInv,
             ChannelInv, ResultInv
<1> QED
  BY <1>1, <1>2, <1>3, <1>4, <1>5, <1>6, <1>7, <1>8, <1>9

\* The questions are shown.
LEMMA DrainInv ==
    ASSUME IInv, NEW s \in Sessions, Drain(s)
    PROVE  IInv'
<1>1. TypeOK'
  BY TypeStep DEF IInv, Next, Waiter, Responder
<1> USE NamesDiffer DEF Names, IInv, TypeOK, Drain, Waiting, waiterVars,
                        sharedVars, queueVars, responderVars
<1>2. WaitInv'
  BY DEF WaitInv, ChannelInv, TakenInv
<1>3. LockInv'
  BY DEF LockInv
<1>4. TakenInv'
  BY DEF TakenInv, LockInv
<1>5. ChannelInv'
  BY DEF ChannelInv
<1>6. ResultInv'
  BY DEF ResultInv, ChannelInv, SidesAgree
<1>7. OneRecordedAnswer'
  BY DEF OneRecordedAnswer, TakenInv, LockInv, TypeOK
<1>8. RecordedAnswerWins'
  BY DEF RecordedAnswerWins, OneRecordedAnswer, WaitInv, TakenInv,
             LockInv, ChannelInv, TypeOK
<1>9. SidesAgree'
  BY DEF SidesAgree, OneRecordedAnswer, WaitInv, TakenInv, LockInv,
             ChannelInv, ResultInv
<1> QED
  BY <1>1, <1>2, <1>3, <1>4, <1>5, <1>6, <1>7, <1>8, <1>9

\* A responder finds the question.
LEMMA LookupInv ==
    ASSUME IInv, NEW d \in Responders, NEW r \in Requests, Lookup(d, r)
    PROVE  IInv'
<1>0. /\ pc[d] = "new" /\ pc'[d] \in {"found", "error"} /\ target'[d] = r
      /\ UNCHANGED <<session, from, waiter, result, holder, channel, tx,
                     recorded>>
      /\ \A e \in Responders : e # d => pc'[e] = pc[e] /\ target'[e] = target[e]
      /\ d \notin recorded
  <2>1. /\ pc[d] = "new" /\ target' = [target EXCEPT ![d] = r]
        /\ UNCHANGED <<waiterVars, sharedVars, queueVars, from, recorded>>
        /\ pc' = [pc EXCEPT ![d] = IF r \in pending THEN "found" ELSE "error"]
    BY DEF Lookup
  <2> QED
    BY <2>1 DEF IInv, TypeOK, TakenInv, waiterVars, sharedVars
<1>1. TypeOK'
  BY TypeStep DEF IInv, Next, Waiter, Responder
<1> USE <1>0, NamesDiffer DEF Names, IInv, Waiting
<1>2. WaitInv'
  BY DEF WaitInv, ChannelInv, TakenInv
<1>3. LockInv'
  BY DEF LockInv
<1>4. TakenInv'
  BY DEF TakenInv, LockInv
<1>5. ChannelInv'
  BY DEF ChannelInv
<1>6. ResultInv'
  BY DEF ResultInv, ChannelInv, SidesAgree
<1>7. OneRecordedAnswer'
  <2>1. ASSUME NEW e \in Responders, NEW f \in Responders,
               e \in recorded', f \in recorded', target'[e] = target'[f],
               pc'[e] # "dropped", pc'[f] # "dropped"
        PROVE  e = f
    <3>1. /\ e \in recorded /\ pc[e] # "dropped"
          /\ f \in recorded /\ pc[f] # "dropped"
          /\ target[e] = target[f]
      BY <2>1 DEF TakenInv
    <3> QED
      BY <3>1 DEF OneRecordedAnswer
  <2>2. recorded' \subseteq Responders
    BY <1>1 DEF TypeOK
  <2> QED
    BY <2>1, <2>2 DEF OneRecordedAnswer
<1>8. RecordedAnswerWins'
  <2>1. ASSUME NEW e \in Responders, e \in recorded', pc'[e] # "dropped"
        PROVE  result'[target'[e]] \in {"none", e}
    <3>1. e \in recorded /\ pc[e] # "dropped" /\ target'[e] = target[e]
      BY <2>1 DEF TakenInv
    <3> QED
      BY <3>1 DEF RecordedAnswerWins
  <2> QED
    BY <1>1, <2>1 DEF RecordedAnswerWins, TypeOK
<1>9. SidesAgree'
  BY DEF SidesAgree, OneRecordedAnswer, WaitInv, TakenInv, LockInv,
             ChannelInv, ResultInv
<1> QED
  BY <1>1, <1>2, <1>3, <1>4, <1>5, <1>6, <1>7, <1>8, <1>9

\* It claims the question, or is refused.
LEMMA ClaimInv ==
    ASSUME IInv, NEW d \in Responders, Claim(d)
    PROVE  IInv'
<1>0. /\ pc[d] = "found" /\ target[d] \in Requests /\ holder[target[d]] = None
      /\ UNCHANGED <<session, from, waiter, result, channel, target, recorded>>
      /\ \A e \in Responders : e # d => pc'[e] = pc[e]
      /\ \A q \in Requests : q # target[d] =>
            holder'[q] = holder[q] /\ tx'[q] = tx[q]
      /\ \A q \in Requests : tx'[q] => tx[q]
      /\ \/ /\ pc'[d] = "claimed" /\ session[target[d]] = from[d]
            /\ holder'[target[d]] = d /\ tx'[target[d]]
         \/ pc'[d] = "error" /\ holder'[target[d]] = None
  <2>1. /\ pc[d] = "found" /\ target[d] \in Requests /\ holder[target[d]] = None
        /\ UNCHANGED <<session, from, waiter, result, channel, target, recorded>>
    BY DEF Claim, IInv, LockInv, waiterVars, queueVars
  <2>2. CASE MayClaim(d, target[d])
    <3>1. /\ session[target[d]] = from[d] /\ tx[target[d]] /\ tx' = tx
          /\ holder' = [holder EXCEPT ![target[d]] = d]
          /\ pc' = [pc EXCEPT ![d] = "claimed"]
      BY <2>2 DEF Claim, MayClaim
    <3> QED
      BY <2>1, <3>1 DEF IInv, TypeOK
  <2>3. CASE ~MayClaim(d, target[d])
    <3>1. /\ tx' = [tx EXCEPT ![target[d]] =
                tx[target[d]] /\ (session[target[d]] = from[d]
                                     => ~RxClosed(target[d]))]
          /\ holder' = holder /\ pc' = [pc EXCEPT ![d] = "error"]
      BY <2>3 DEF Claim
    <3>2. \A q \in Requests : /\ q # target[d] => tx'[q] = tx[q]
                             /\ tx'[q] => tx[q]
      BY <3>1 DEF IInv, TypeOK
    <3> QED
      BY <2>1, <3>1, <3>2 DEF IInv, TypeOK
  <2> QED
    BY <2>2, <2>3
<1>1. TypeOK'
  BY TypeStep DEF IInv, Next, Waiter, Responder
<1> USE <1>0, NamesDiffer DEF Names, IInv, Waiting
<1>2. WaitInv'
  BY DEF WaitInv, ChannelInv, TakenInv
<1>3. LockInv'
  BY DEF LockInv
<1>4. TakenInv'
  BY DEF TakenInv, LockInv
<1>5. ChannelInv'
  BY DEF ChannelInv
<1>6. ResultInv'
  BY DEF ResultInv, ChannelInv, SidesAgree
<1>7. OneRecordedAnswer'
  <2>1. ASSUME NEW e \in Responders, NEW f \in Responders,
               e \in recorded', f \in recorded', target'[e] = target'[f],
               pc'[e] # "dropped", pc'[f] # "dropped"
        PROVE  e = f
    <3>1. /\ e \in recorded /\ pc[e] # "dropped"
          /\ f \in recorded /\ pc[f] # "dropped"
          /\ target[e] = target[f]
      BY <2>1 DEF TakenInv
    <3> QED
      BY <3>1 DEF OneRecordedAnswer
  <2>2. recorded' \subseteq Responders
    BY <1>1 DEF TypeOK
  <2> QED
    BY <2>1, <2>2 DEF OneRecordedAnswer
<1>8. RecordedAnswerWins'
  BY DEF RecordedAnswerWins, OneRecordedAnswer, WaitInv, TakenInv,
             LockInv, ChannelInv, TypeOK
<1>9. SidesAgree'
  BY DEF SidesAgree, OneRecordedAnswer, WaitInv, TakenInv, LockInv,
             ChannelInv, ResultInv
<1> QED
  BY <1>1, <1>2, <1>3, <1>4, <1>5, <1>6, <1>7, <1>8, <1>9

\* The answer enters the conversation.
LEMMA RecordInv ==
    ASSUME IInv, NEW d \in Responders, Record(d)
    PROVE  IInv'
<1>0. /\ pc[d] = "claimed" /\ pc'[d] = "recorded" /\ recorded' = recorded \cup {d}
      /\ UNCHANGED <<session, from, waiter, result, holder, tx, channel, target>>
      /\ \A e \in Responders : e # d => pc'[e] = pc[e]
      /\ target[d] \in Requests /\ tx[target[d]] /\ holder[target[d]] = d
  BY DEF IInv, TypeOK, LockInv, TakenInv, Record, RxClosed,
         waiterVars, sharedVars, queueVars, responderVars
<1>1. TypeOK'
  BY TypeStep DEF IInv, Next, Waiter, Responder
<1> USE <1>0, NamesDiffer DEF Names, IInv, Waiting
<1>2. WaitInv'
  BY DEF WaitInv, ChannelInv, TakenInv
<1>3. LockInv'
  BY DEF LockInv
<1>4. TakenInv'
  BY DEF TakenInv, LockInv
<1>5. ChannelInv'
  BY DEF ChannelInv
<1>6. ResultInv'
  BY DEF ResultInv, ChannelInv, SidesAgree
<1>7. OneRecordedAnswer'
  BY DEF OneRecordedAnswer, TakenInv, LockInv, TypeOK
<1>8. RecordedAnswerWins'
  BY DEF RecordedAnswerWins, OneRecordedAnswer, WaitInv, TakenInv,
             LockInv, ChannelInv, TypeOK
<1>9. SidesAgree'
  BY DEF SidesAgree, OneRecordedAnswer, WaitInv, TakenInv, LockInv,
             ChannelInv, ResultInv
<1> QED
  BY <1>1, <1>2, <1>3, <1>4, <1>5, <1>6, <1>7, <1>8, <1>9

\* The store fails.
LEMMA RecordFailsInv ==
    ASSUME IInv, NEW d \in Responders, RecordFails(d)
    PROVE  IInv'
<1>0. /\ pc[d] = "claimed" /\ pc'[d] = "error" /\ d \notin recorded
      /\ UNCHANGED <<session, from, waiter, result, tx, channel, target,
                     recorded>>
      /\ \A e \in Responders : e # d => pc'[e] = pc[e]
      /\ \A q \in Requests : holder[q] # d => holder'[q] = holder[q]
  BY DEF IInv, TypeOK, LockInv, TakenInv, RecordFails, Unlock, RxClosed,
         waiterVars, sharedVars, queueVars, responderVars
<1>1. TypeOK'
  BY TypeStep DEF IInv, Next, Waiter, Responder
<1> USE <1>0, NamesDiffer DEF Names, IInv, Waiting
<1>2. WaitInv'
  BY DEF WaitInv, ChannelInv, TakenInv
<1>3. LockInv'
  BY DEF LockInv
<1>4. TakenInv'
  BY DEF TakenInv, LockInv
<1>5. ChannelInv'
  BY DEF ChannelInv
<1>6. ResultInv'
  BY DEF ResultInv, ChannelInv, SidesAgree
<1>7. OneRecordedAnswer'
  <2>1. ASSUME NEW e \in Responders, NEW f \in Responders,
               e \in recorded', f \in recorded', target'[e] = target'[f],
               pc'[e] # "dropped", pc'[f] # "dropped"
        PROVE  e = f
    <3>1. /\ e \in recorded /\ pc[e] # "dropped"
          /\ f \in recorded /\ pc[f] # "dropped"
          /\ target[e] = target[f]
      BY <2>1 DEF TakenInv
    <3> QED
      BY <3>1 DEF OneRecordedAnswer
  <2>2. recorded' \subseteq Responders
    BY <1>1 DEF TypeOK
  <2> QED
    BY <2>1, <2>2 DEF OneRecordedAnswer
<1>8. RecordedAnswerWins'
  BY DEF RecordedAnswerWins, OneRecordedAnswer, WaitInv, TakenInv,
             LockInv, ChannelInv, TypeOK
<1>9. SidesAgree'
  BY DEF SidesAgree, OneRecordedAnswer, WaitInv, TakenInv, LockInv,
             ChannelInv, ResultInv
<1> QED
  BY <1>1, <1>2, <1>3, <1>4, <1>5, <1>6, <1>7, <1>8, <1>9

\* The sender is taken.
LEMMA TakeInv ==
    ASSUME IInv, NEW d \in Responders, Take(d)
    PROVE  IInv'
<1>0. /\ pc[d] = "recorded" /\ pc'[d] = "taken" /\ target[d] \in Requests
      /\ UNCHANGED <<session, from, waiter, result, channel, target, recorded>>
      /\ \A e \in Responders : e # d => pc'[e] = pc[e]
      /\ \A q \in Requests : holder[q] # d => holder'[q] = holder[q]
      /\ \A q \in Requests : q # target[d] => tx'[q] = tx[q]
      /\ ~tx'[target[d]] /\ holder[target[d]] = d
  BY DEF IInv, TypeOK, LockInv, TakenInv, Take, Unlock, RxClosed,
         waiterVars, sharedVars, queueVars, responderVars
<1>1. TypeOK'
  BY TypeStep DEF IInv, Next, Waiter, Responder
<1> USE <1>0, NamesDiffer DEF Names, IInv, Waiting
<1>2. WaitInv'
  BY DEF WaitInv, ChannelInv, TakenInv
<1>3. LockInv'
  BY DEF LockInv
<1>4. TakenInv'
  BY DEF TakenInv, LockInv
<1>5. ChannelInv'
  BY DEF ChannelInv
<1>6. ResultInv'
  BY DEF ResultInv, ChannelInv, SidesAgree
<1>7. OneRecordedAnswer'
  <2>1. ASSUME NEW e \in Responders, NEW f \in Responders,
               e \in recorded', f \in recorded', target'[e] = target'[f],
               pc'[e] # "dropped", pc'[f] # "dropped"
        PROVE  e = f
    <3>1. /\ e \in recorded /\ pc[e] # "dropped"
          /\ f \in recorded /\ pc[f] # "dropped"
          /\ target[e] = target[f]
      BY <2>1 DEF TakenInv
    <3> QED
      BY <3>1 DEF OneRecordedAnswer
  <2>2. recorded' \subseteq Responders
    BY <1>1 DEF TypeOK
  <2> QED
    BY <2>1, <2>2 DEF OneRecordedAnswer
<1>8. RecordedAnswerWins'
  <2>1. ASSUME NEW e \in Responders, e \in recorded', pc'[e] # "dropped"
        PROVE  result'[target'[e]] \in {"none", e}
    <3>1. e \in recorded /\ pc[e] # "dropped" /\ target'[e] = target[e]
      BY <2>1 DEF TakenInv
    <3> QED
      BY <3>1 DEF RecordedAnswerWins
  <2> QED
    BY <1>1, <2>1 DEF RecordedAnswerWins, TypeOK
<1>9. SidesAgree'
  BY DEF SidesAgree, OneRecordedAnswer, WaitInv, TakenInv, LockInv,
             ChannelInv, ResultInv
<1> QED
  BY <1>1, <1>2, <1>3, <1>4, <1>5, <1>6, <1>7, <1>8, <1>9

\* The answer is sent, or the receiver is gone.
LEMMA SendInv ==
    ASSUME IInv, NEW d \in Responders, Send(d)
    PROVE  IInv'
<1>0. /\ pc[d] = "taken" /\ target[d] \in Requests
      /\ UNCHANGED <<session, from, waiter, result, holder, tx, target, recorded>>
      /\ \A e \in Responders : e # d => pc'[e] = pc[e]
      /\ \A q \in Requests : q # target[d] => channel'[q] = channel[q]
      /\ \/ /\ waiter[target[d]] \in Waiting
            /\ pc'[d] = "ok" /\ channel'[target[d]] = d
         \/ pc'[d] = "error" /\ channel'[target[d]] = channel[target[d]]
  BY DEF IInv, TypeOK, LockInv, TakenInv, Send, RxClosed,
         waiterVars, sharedVars, queueVars, responderVars
<1>1. TypeOK'
  BY TypeStep DEF IInv, Next, Waiter, Responder
<1> USE <1>0, NamesDiffer DEF Names, IInv, Waiting
<1>2. WaitInv'
  BY DEF WaitInv, ChannelInv, TakenInv
<1>3. LockInv'
  BY DEF LockInv
<1>4. TakenInv'
  BY DEF TakenInv, LockInv
<1>5. ChannelInv'
  BY DEF ChannelInv
<1>6. ResultInv'
  BY DEF ResultInv, ChannelInv, SidesAgree
<1>7. OneRecordedAnswer'
  <2>1. ASSUME NEW e \in Responders, NEW f \in Responders,
               e \in recorded', f \in recorded', target'[e] = target'[f],
               pc'[e] # "dropped", pc'[f] # "dropped"
        PROVE  e = f
    <3>1. /\ e \in recorded /\ pc[e] # "dropped"
          /\ f \in recorded /\ pc[f] # "dropped"
          /\ target[e] = target[f]
      BY <2>1 DEF TakenInv
    <3> QED
      BY <3>1 DEF OneRecordedAnswer
  <2>2. recorded' \subseteq Responders
    BY <1>1 DEF TypeOK
  <2> QED
    BY <2>1, <2>2 DEF OneRecordedAnswer
<1>8. RecordedAnswerWins'
  BY DEF RecordedAnswerWins, OneRecordedAnswer, WaitInv, TakenInv,
             LockInv, ChannelInv, TypeOK
<1>9. SidesAgree'
  BY DEF SidesAgree, OneRecordedAnswer, WaitInv, TakenInv, LockInv,
             ChannelInv, ResultInv
<1> QED
  BY <1>1, <1>2, <1>3, <1>4, <1>5, <1>6, <1>7, <1>8, <1>9

\* The responder is dropped, perhaps in mid-write.
LEMMA DropResponderInv ==
    ASSUME IInv, NEW d \in Responders, DropResponder(d)
    PROVE  IInv'
<1>0. /\ pc[d] \in {"found", "claimed"} /\ pc'[d] = "dropped"
      /\ target[d] \in Requests
      /\ UNCHANGED <<session, from, waiter, result, tx, channel, target>>
      /\ \A e \in Responders : e # d => pc'[e] = pc[e]
      /\ \A q \in Requests : holder[q] # d => holder'[q] = holder[q]
      /\ \A e \in Responders : e # d => (e \in recorded' <=> e \in recorded)
  BY DEF IInv, TypeOK, LockInv, TakenInv, DropResponder, Unlock, RxClosed,
         waiterVars, sharedVars, queueVars, responderVars
<1>1. TypeOK'
  BY TypeStep DEF IInv, Next, Waiter, Responder
<1> USE <1>0, NamesDiffer DEF Names, IInv, Waiting
<1>2. WaitInv'
  BY DEF WaitInv, ChannelInv, TakenInv
<1>3. LockInv'
  BY DEF LockInv
<1>4. TakenInv'
  BY DEF TakenInv, LockInv
<1>5. ChannelInv'
  BY DEF ChannelInv
<1>6. ResultInv'
  BY DEF ResultInv, ChannelInv, SidesAgree
<1>7. OneRecordedAnswer'
  <2>1. ASSUME NEW e \in Responders, NEW f \in Responders,
               e \in recorded', f \in recorded', target'[e] = target'[f],
               pc'[e] # "dropped", pc'[f] # "dropped"
        PROVE  e = f
    <3>1. /\ e \in recorded /\ pc[e] # "dropped"
          /\ f \in recorded /\ pc[f] # "dropped"
          /\ target[e] = target[f]
      BY <2>1 DEF TakenInv
    <3> QED
      BY <3>1 DEF OneRecordedAnswer
  <2>2. recorded' \subseteq Responders
    BY <1>1 DEF TypeOK
  <2> QED
    BY <2>1, <2>2 DEF OneRecordedAnswer
<1>8. RecordedAnswerWins'
  <2>1. ASSUME NEW e \in Responders, e \in recorded', pc'[e] # "dropped"
        PROVE  result'[target'[e]] \in {"none", e}
    <3>1. e \in recorded /\ pc[e] # "dropped" /\ target[e] \in Requests
      BY <2>1 DEF TakenInv, LockInv
    <3>2. result[target[e]] \in {"none", e}
      BY <3>1 DEF RecordedAnswerWins
    <3> QED
      BY <2>1, <3>1, <3>2
  <2> QED
    BY <1>1, <2>1 DEF RecordedAnswerWins, TypeOK
<1>9. SidesAgree'
  BY DEF SidesAgree, OneRecordedAnswer, WaitInv, TakenInv, LockInv,
             ChannelInv, ResultInv
<1> QED
  BY <1>1, <1>2, <1>3, <1>4, <1>5, <1>6, <1>7, <1>8, <1>9

LEMMA StepIInv == IInv /\ [Next]_vars => IInv'
<1> SUFFICES ASSUME IInv, [Next]_vars
             PROVE  IInv'
  OBVIOUS
<1>1. CASE UNCHANGED vars
  <2>1. TypeOK'
    BY TypeStep DEF IInv
  <2> QED
    BY <1>1, <2>1 DEF vars, waiterVars, sharedVars, queueVars, responderVars, IInv,
       WaitInv, LockInv, TakenInv, ChannelInv, ResultInv, OneRecordedAnswer,
       RecordedAnswerWins, SidesAgree
<1> QED
  BY <1>1, ReceiveInv, TimerFiresInv, ExpireInv, ForgetInv, DropWaiterInv, AskInv,
     DrainInv, LookupInv, ClaimInv, RecordInv, RecordFailsInv, TakeInv, SendInv,
     DropResponderInv DEF Next, Waiter, Responder

LEMMA SpecIInv == Spec => []IInv
  BY InitIInv, StepIInv, PTL DEF Spec

\* The variables have their types.
THEOREM TypeCorrect == Spec => []TypeOK
<1>1. IInv => TypeOK
  BY DEF IInv
<1> QED
  BY <1>1, SpecIInv, PTL

\* At most one of the answers to a question enters the conversation
\* (claim_response holds the lock until submit).
THEOREM AnswerIsRecordedOnce == Spec => []OneRecordedAnswer
<1>1. IInv => OneRecordedAnswer
  BY DEF IInv
<1> QED
  BY <1>1, SpecIInv, PTL

\* A recorded answer beats the timeout, however late it is delivered.
THEOREM AnswerBeatsTimeout == Spec => []RecordedAnswerWins
<1>1. IInv => RecordedAnswerWins
  BY DEF IInv
<1> QED
  BY <1>1, SpecIInv, PTL

\* The one who asked and the one who answered are told the same.
THEOREM BothSidesAgree == Spec => []SidesAgree
<1>1. IInv => SidesAgree
  BY DEF IInv
<1> QED
  BY <1>1, SpecIInv, PTL

-----------------------------------------------------------------------------
(***************************************************************************)
(* The refinement.  Each step decides at most one question, and no other   *)
(* step disturbs a decision.                                               *)
(***************************************************************************)
\* An accepted answer is the decision: there is only one.
LEMMA AcceptedDecides ==
    ASSUME IInv, NEW d \in Accepted
    PROVE  /\ Decision(target[d]) = d
           /\ result[target[d]] \in {"none", d}
           /\ ~tx[target[d]]
<1>1. d \in Responders /\ pc[d] = "ok" /\ d \in recorded
  BY DEF Accepted, IInv, TakenInv
<1>2. \A e \in Accepted : target[e] = target[d] => e = d
  <2>1. ASSUME NEW e \in Accepted, target[e] = target[d]
        PROVE  e = d
    <3>1. e \in recorded /\ pc[e] = "ok"
      BY DEF Accepted, IInv, TakenInv
    <3> QED
      BY <1>1, <2>1, <3>1 DEF IInv, OneRecordedAnswer
  <2> QED
    BY <2>1
<1>3. Decision(target[d]) = d
  BY <1>2 DEF Decision
<1>4. result[target[d]] \in {"none", d}
  BY <1>1 DEF IInv, RecordedAnswerWins
<1>5. ~tx[target[d]]
  BY <1>1 DEF IInv, TakenInv
<1> QED
  BY <1>3, <1>4, <1>5

\* An open question has no accepted answer, no timeout, and its waiter.
LEMMA Undecided ==
    ASSUME NEW r \in Requests,
           \A d \in Accepted : target[d] # r,
           result[r] # "timeout", waiter[r] # "dropped"
    PROVE  Decision(r) = "none"
  BY DEF Decision

\* Decisions read only who is accepted, for what, and how each request ended.
LEMMA DecisionKept ==
    ASSUME NEW r \in Requests, Accepted' = Accepted,
           \A d \in Accepted : target'[d] = target[d],
           result'[r] = "timeout" <=> result[r] = "timeout",
           waiter'[r] = "dropped" <=> waiter[r] = "dropped"
    PROVE  Decision(r)' = Decision(r)
<1>1. \A d \in Accepted' : target'[d] = target[d]
  OBVIOUS
<1>2. (\E d \in Accepted' : target'[d] = r)
        <=> (\E d \in Accepted : target[d] = r)
  OBVIOUS
<1>3. (CHOOSE d \in Accepted' : target'[d] = r)
        = (CHOOSE d \in Accepted : target[d] = r)
  OBVIOUS
<1> QED
  BY <1>2, <1>3 DEF Decision

AllKept == \A r \in Requests : Decision(r)' = Decision(r)

LEMMA KeptIsStutter ==
    ASSUME AllKept, result' = result, Accepted' = Accepted
    PROVE  UNCHANGED Abstract!vars
<1>1. [r \in Requests |-> Decision(r)]' = [r \in Requests |-> Decision(r)]
  BY DEF AllKept
<1> QED
  BY <1>1 DEF Abstract!vars

\* The steps that decide nothing and tell nobody.
LEMMA QuietRefines ==
    ASSUME IInv, result' = result, Accepted' = Accepted,
           \A d \in Accepted : target'[d] = target[d],
           \A r \in Requests : waiter'[r] = "dropped" <=> waiter[r] = "dropped"
    PROVE  UNCHANGED Abstract!vars
<1>1. AllKept
  BY DecisionKept DEF AllKept
<1> QED
  BY <1>1, KeptIsStutter

\* Send accepts the answer, or finds the receiver gone.
LEMMA SendRefines ==
    ASSUME IInv, NEW d \in Responders, Send(d)
    PROVE  [Abstract!Next]_(Abstract!vars)
<1> DEFINE q == target[d]
<1>1. /\ pc[d] = "taken" /\ q \in Requests /\ d \in recorded
      /\ UNCHANGED <<waiter, result, target>>
  BY DEF Send, IInv, LockInv, TakenInv, waiterVars
<1>2. CASE RxClosed(q)
  <2>1. Accepted' = Accepted
    BY <1>1, <1>2 DEF Send, Accepted, IInv, TypeOK
  <2> QED
    BY <1>1, <2>1, QuietRefines
<1>3. CASE ~RxClosed(q)
  <2>1. Accepted' = Accepted \cup {d} /\ d \notin Accepted
    BY <1>1, <1>3 DEF Send, Accepted, IInv, TypeOK
  <2>2. result[q] = "none" /\ waiter[q] # "dropped"
    BY <1>1, <1>3 DEF RxClosed, IInv, WaitInv, Waiting
  <2>3. \A e \in Accepted : target[e] # q
    <3>1. ASSUME NEW e \in Accepted, target[e] = q
          PROVE  FALSE
      <4>1. e \in recorded /\ pc[e] = "ok"
        BY DEF Accepted, IInv, TakenInv
      <4> QED
        BY <1>1, <3>1, <4>1 DEF IInv, OneRecordedAnswer
    <3> QED
      BY <3>1
  <2>4. Decision(q) = "none"
    BY <1>1, <2>2, <2>3, Undecided
  <2>5. ASSUME NEW r \in Requests, r = q
        PROVE  Decision(r)' = d
    <3>1. \A e \in Accepted' : target'[e] = r <=> e = d
      BY <1>1, <2>1, <2>3, <2>5
    <3>2. d \in Accepted' /\ target'[d] = r
      BY <1>1, <2>1, <2>5
    <3>3. (CHOOSE e \in Accepted' : target'[e] = r) = d
      BY <3>1, <3>2
    <3> QED
      BY <3>2, <3>3 DEF Decision
  <2>6. ASSUME NEW r \in Requests, r # q
        PROVE  Decision(r)' = Decision(r)
    <3>1. \A e \in Accepted' : target'[e] = r <=> e \in Accepted /\ target[e] = r
      BY <1>1, <2>1, <2>6
    <3>2. (\E e \in Accepted' : target'[e] = r)
            <=> (\E e \in Accepted : target[e] = r)
      BY <2>1, <3>1
    <3>3. (CHOOSE e \in Accepted' : target'[e] = r)
            = (CHOOSE e \in Accepted : target[e] = r)
      BY <2>1, <3>1
    <3> QED
      BY <1>1, <3>2, <3>3 DEF Decision
  <2>7. [r \in Requests |-> Decision(r)]'
          = [[r \in Requests |-> Decision(r)] EXCEPT ![q] = d]
    BY <2>5, <2>6
  <2>8. Abstract!Accept(q, d)
    BY <1>1, <2>1, <2>4, <2>7 DEF Abstract!Accept
  <2> QED
    BY <1>1, <2>1, <2>8 DEF Abstract!Next
<1> QED
  BY <1>2, <1>3

\* Expire decides the question, or leaves it to the answer under way.
LEMMA ExpireRefines ==
    ASSUME IInv, NEW q \in Requests, Expire(q)
    PROVE  [Abstract!Next]_(Abstract!vars)
<1>1. /\ waiter[q] = "expired" /\ result[q] = "none"
      /\ UNCHANGED <<target, pc>>
      /\ Accepted' = Accepted
  BY DEF Expire, responderVars, Accepted, IInv, WaitInv, Waiting
<1>2. CASE ~tx[q]
  <2>1. waiter' = [waiter EXCEPT ![q] = "late"] /\ result' = result
    BY <1>2 DEF Expire
  <2> QED
    BY <1>1, <2>1, QuietRefines DEF IInv, TypeOK
<1>3. CASE tx[q]
  <2>1. /\ waiter' = [waiter EXCEPT ![q] = "returned"]
        /\ result' = [result EXCEPT ![q] = "timeout"]
    BY <1>3 DEF Expire, Return
  <2>2. \A d \in Accepted : target[d] # q
    BY <1>3, AcceptedDecides
  <2>3. Decision(q) = "none"
    BY <1>1, <2>2, Undecided
  <2>4. ASSUME NEW r \in Requests, r = q
        PROVE  Decision(r)' = "timeout"
    <3>1. result'[r] = "timeout"
      BY <2>1, <2>4 DEF IInv, TypeOK
    <3>2. ~\E d \in Accepted' : target'[d] = r
      BY <1>1, <2>2, <2>4
    <3> QED
      BY <3>1, <3>2 DEF Decision
  <2>5. ASSUME NEW r \in Requests, r # q
        PROVE  Decision(r)' = Decision(r)
    <3>1. result'[r] = result[r] /\ waiter'[r] = waiter[r]
      BY <2>1, <2>5 DEF IInv, TypeOK
    <3> QED
      BY <1>1, <3>1, DecisionKept
  <2>6. [r \in Requests |-> Decision(r)]'
          = [[r \in Requests |-> Decision(r)] EXCEPT ![q] = "timeout"]
    BY <2>4, <2>5
  <2>7. Abstract!Expire(q)
    BY <1>1, <2>1, <2>3, <2>6 DEF Abstract!Expire
  <2> QED
    BY <2>7 DEF Abstract!Next
<1> QED
  BY <1>2, <1>3

\* The waiter is dropped: that decides a question that was still open.
LEMMA DropWaiterRefines ==
    ASSUME IInv, NEW q \in Requests, DropWaiter(q)
    PROVE  [Abstract!Next]_(Abstract!vars)
<1>1. /\ waiter[q] \in Waiting \cup {"returned"}
      /\ waiter' = [waiter EXCEPT ![q] = "dropped"]
      /\ UNCHANGED <<target, pc, result>>
      /\ Accepted' = Accepted
  BY DEF DropWaiter, responderVars, Accepted
<1>2. ASSUME NEW r \in Requests, r # q
      PROVE  Decision(r)' = Decision(r)
  <2>1. waiter'[r] = waiter[r]
    BY <1>1, <1>2 DEF IInv, TypeOK
  <2> QED
    BY <1>1, <2>1, DecisionKept
<1>3. waiter[q] # "dropped" /\ waiter'[q] = "dropped"
  BY <1>1 DEF Waiting, IInv, TypeOK
<1>4. CASE (\E d \in Accepted : target[d] = q) \/ result[q] = "timeout"
  <2>1. ASSUME NEW r \in Requests, r = q
        PROVE  Decision(r)' = Decision(r)
    <3>1. (\E d \in Accepted' : target'[d] = r)
             <=> (\E d \in Accepted : target[d] = r)
      BY <1>1
    <3>2. (CHOOSE d \in Accepted' : target'[d] = r)
             = (CHOOSE d \in Accepted : target[d] = r)
      BY <1>1
    <3> QED
      BY <1>1, <1>4, <2>1, <3>1, <3>2 DEF Decision
  <2>2. AllKept
    BY <1>2, <2>1 DEF AllKept
  <2> QED
    BY <1>1, <2>2, KeptIsStutter
<1>5. CASE (\A d \in Accepted : target[d] # q) /\ result[q] # "timeout"
  <2>1. Decision(q) = "none"
    BY <1>3, <1>5, Undecided
  <2>2. ASSUME NEW r \in Requests, r = q
        PROVE  Decision(r)' = "abandoned"
    <3>1. ~\E d \in Accepted' : target'[d] = r
      BY <1>1, <1>5, <2>2
    <3>2. result'[r] # "timeout" /\ waiter'[r] = "dropped"
      BY <1>1, <1>3, <1>5, <2>2
    <3> QED
      BY <3>1, <3>2 DEF Decision
  <2>3. [r \in Requests |-> Decision(r)]'
          = [[r \in Requests |-> Decision(r)] EXCEPT ![q] = "abandoned"]
    BY <1>2, <2>2
  <2>4. Abstract!Abandon(q)
    BY <1>1, <2>1, <2>3 DEF Abstract!Abandon
  <2> QED
    BY <2>4 DEF Abstract!Next
<1> QED
  BY <1>4, <1>5

\* The asker is told the answer that decided the question.
LEMMA ReceiveRefines ==
    ASSUME IInv, NEW q \in Requests, Receive(q)
    PROVE  [Abstract!Next]_(Abstract!vars)
<1>1. /\ waiter[q] \in {"waiting", "late"} /\ channel[q] # None
      /\ waiter' = [waiter EXCEPT ![q] = "returned"]
      /\ result' = [result EXCEPT ![q] = channel[q]]
      /\ UNCHANGED <<target, pc>>
      /\ Accepted' = Accepted
  BY DEF Receive, Return, responderVars, Accepted
<1>2. channel[q] \in Accepted /\ target[channel[q]] = q
  BY <1>1 DEF IInv, ChannelInv, Accepted
<1>3. Decision(q) = channel[q] /\ channel[q] \in Responders
  BY <1>2, AcceptedDecides DEF Accepted
<1>4. result[q] = "none"
  BY <1>1 DEF IInv, WaitInv, Waiting
<1>5. ASSUME NEW r \in Requests
      PROVE  /\ result'[r] = "timeout" <=> result[r] = "timeout"
             /\ waiter'[r] = "dropped" <=> waiter[r] = "dropped"
  BY <1>1, <1>3, <1>4, NamesDiffer DEF IInv, TypeOK, Names
<1>6. AllKept
  BY <1>1, <1>5, DecisionKept DEF AllKept
<1>7. [r \in Requests |-> Decision(r)]' = [r \in Requests |-> Decision(r)]
  BY <1>6 DEF AllKept
<1>8. Abstract!TellAsker(q)
  BY <1>1, <1>3, <1>4, <1>7 DEF Abstract!TellAsker
<1> QED
  BY <1>8 DEF Abstract!Next

LEMMA StepRefines == IInv /\ [Next]_vars => [Abstract!Next]_(Abstract!vars)
<1> SUFFICES ASSUME IInv, [Next]_vars
             PROVE  [Abstract!Next]_(Abstract!vars)
  OBVIOUS
<1>1. ASSUME result' = result, Accepted' = Accepted,
             \A d \in Accepted : target'[d] = target[d],
             \A r \in Requests : waiter'[r] = "dropped" <=> waiter[r] = "dropped"
      PROVE  [Abstract!Next]_(Abstract!vars)
  BY <1>1, QuietRefines
<1>2. CASE UNCHANGED vars
  BY <1>1, <1>2 DEF vars, waiterVars, responderVars, Accepted
<1>3. ASSUME NEW s \in Sessions, Drain(s)
      PROVE  [Abstract!Next]_(Abstract!vars)
  BY <1>1, <1>3 DEF Drain, waiterVars, responderVars, Accepted
<1>4. ASSUME NEW r \in Requests, Ask(r) \/ TimerFires(r) \/ Forget(r)
      PROVE  [Abstract!Next]_(Abstract!vars)
  BY <1>1, <1>4 DEF Ask, TimerFires, Forget, responderVars, Accepted, IInv, TypeOK
<1>5. ASSUME NEW d \in Responders, NEW r \in Requests, Lookup(d, r)
      PROVE  [Abstract!Next]_(Abstract!vars)
  <2>1. /\ pc[d] = "new" /\ pc' = [pc EXCEPT ![d] = pc'[d]]
        /\ pc'[d] \in {"found", "error"}
        /\ target' = [target EXCEPT ![d] = r]
        /\ UNCHANGED <<result, waiter>>
    BY <1>5 DEF Lookup, waiterVars, IInv, TypeOK
  <2>2. Accepted' = Accepted /\ d \notin Accepted
    BY <2>1 DEF Accepted, IInv, TypeOK
  <2>3. \A e \in Accepted : target'[e] = target[e]
    BY <2>1, <2>2 DEF IInv, TypeOK
  <2> QED
    BY <1>1, <2>1, <2>2, <2>3
<1>6. ASSUME NEW d \in Responders,
             \/ Claim(d) \/ Record(d) \/ RecordFails(d) \/ Take(d)
             \/ DropResponder(d)
      PROVE  [Abstract!Next]_(Abstract!vars)
  <2>1. UNCHANGED <<result, waiter, target>>
    BY <1>6 DEF Claim, Record, RecordFails, Take, DropResponder, waiterVars
  <2>2. /\ pc[d] # "ok" /\ pc'[d] # "ok"
        /\ \A e \in Responders : e # d => pc'[e] = pc[e]
    BY <1>6 DEF Claim, Record, RecordFails, Take, DropResponder, IInv, TypeOK
  <2>3. Accepted' = Accepted
    BY <2>2 DEF Accepted
  <2> QED
    BY <1>1, <2>1, <2>3
<1> QED
  BY <1>2, <1>3, <1>4, <1>5, <1>6, SendRefines, ExpireRefines, DropWaiterRefines,
     ReceiveRefines DEF Next, Waiter, Responder

LEMMA InitRefines == Init => Abstract!Init
<1> SUFFICES ASSUME Init
             PROVE  Abstract!Init
  OBVIOUS
<1>1. Accepted = {}
  BY DEF Init, Accepted
<1>2. \A r \in Requests : Decision(r) = "none"
  BY <1>1 DEF Init, Decision
<1> QED
  BY <1>1, <1>2 DEF Init, Abstract!Init

\* The locks, the channels and the awaits of an elicitation implement a question
\* that is decided once, and of which both sides are told the same.
THEOREM QuestionDecidedOnce == Spec => ImplementsOneShotAnswer
  BY SpecIInv, InitRefines, StepRefines, PTL
     DEF Spec, ImplementsOneShotAnswer, Abstract!Spec
=============================================================================
