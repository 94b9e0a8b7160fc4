--------------------------- MODULE ToolTurnProofs ---------------------------
(***************************************************************************)
(* What ToolTurn guarantees for any agents, requests, tools and limits.    *)
(*                                                                         *)
(* Three arguments share one invariant, and a last one, that each request  *)
(* is answered once, builds on it.  A request that the user is asked       *)
(* about, or will be, has no stream yet (AskedHasNoStream); so a stream    *)
(* begins only by the inspectors' approval or by a confirmation that was   *)
(* heard for this very request, a denial for good keeps later calls out,   *)
(* and permits are only ever in the hands of running streams.              *)
(***************************************************************************)
EXTENDS ToolTurn, FiniteSetTheorems, TLAPS

\* A request is inspected once, and has no stream before.
FreshHasNoStream == \A r \in Requests : lists[r] = {} => stream[r] = "none"

\* A request the user is asked about is the agent's own, awaits approval, and
\* has no stream.
AskedHasNoStream ==
    \A a \in Agents : \A r \in to_ask[a] \cup ({asking[a]} \cap Requests) :
        AgentOf[r] = a /\ "needs_approval" \in lists[r] /\ stream[r] = "none"

AskedOnce == \A a \in Agents : asking[a] \notin to_ask[a]

\* What the receiver holds is what the user was heard to say.
HeardIsSaid ==
    \A a \in Agents : confirmation[a] # "none" =>
        asking[a] \in Requests /\ said[asking[a]] = confirmation[a]

\* The user is asked while the turn waits for it, and no subagent asks.
AskedInTurn ==
    \A a \in Agents :
        /\ asking[a] \in Requests => pc[a] = "ask"
        /\ Unattended(a) => to_ask[a] = {} /\ asking[a] = NoRequest

AskInv ==
    /\ FreshHasNoStream
    /\ AskedHasNoStream
    /\ AskedOnce
    /\ HeardIsSaid
    /\ AskedInTurn

\* The user's last word for good is the level of the tool.
RuleIsLevel ==
    \A t \in Tools : ruled[t] = "always_deny" => user_permission[t] = "never_allow"

-----------------------------------------------------------------------------
\* What inspection may say of a request: never approved along with another.
LEMMA OutcomeShape ==
    ASSUME NEW r \in Requests, NEW l \in Outcomes(r)
    PROVE  /\ l \in {{"approved"}, {"denied"}, {"needs_approval"},
                     {"denied", "needs_approval"}}
           /\ mode # "auto" /\ user_permission[ToolOf[r]] = "never_allow"
                 => "approved" \notin l
<1>1. PICK b \in Baseline(r), s \in {"allow", "require_approval"},
           e \in {"allow", "require_approval", "deny"}, v \in {"allow", "deny"} :
        l = Mix(Mix(Mix({b}, s), e), v)
  BY DEF Outcomes
<1>2. b \in {"approved", "denied", "needs_approval"}
  BY <1>1 DEF Baseline
<1>3. mode # "auto" /\ user_permission[ToolOf[r]] = "never_allow" => b = "denied"
  BY <1>1 DEF Baseline
<1>4. /\ Mix({b}, s) \in {{"approved"}, {"denied"}, {"needs_approval"},
                          {"denied", "needs_approval"}}
      /\ b = "denied" => "approved" \notin Mix({b}, s)
  BY <1>2 DEF Mix
<1>5. ASSUME NEW l1 \in {{"approved"}, {"denied"}, {"needs_approval"},
                         {"denied", "needs_approval"}},
             NEW action \in {"allow", "require_approval", "deny"}
      PROVE  /\ Mix(l1, action) \in {{"approved"}, {"denied"}, {"needs_approval"},
                                     {"denied", "needs_approval"}}
             /\ "approved" \notin l1 => "approved" \notin Mix(l1, action)
  BY DEF Mix
<1>6. /\ Mix(Mix({b}, s), e) \in {{"approved"}, {"denied"}, {"needs_approval"},
                                  {"denied", "needs_approval"}}
      /\ b = "denied" => "approved" \notin Mix(Mix({b}, s), e)
  BY <1>4, <1>5
<1>7. /\ l \in {{"approved"}, {"denied"}, {"needs_approval"},
                {"denied", "needs_approval"}}
      /\ b = "denied" => "approved" \notin l
  BY <1>1, <1>5, <1>6
<1> QED
  BY <1>3, <1>7

LEMMA DenialsType ==
    ASSUME NEW a, NEW l
    PROVE  Denials(a, l) \in Seq({"declined", "result", "skipped"})
<1> DEFINE T == {"declined", "result", "skipped"}
<1>1. <<>> \in Seq(T) /\ <<"declined">> \in Seq(T)
  OBVIOUS
<1>2. \A u, v \in Seq(T) : u \o v \in Seq(T)
  OBVIOUS
<1> HIDE DEF T
<1>3. Denials(a, l) \in Seq(T)
  BY <1>1, <1>2 DEF Denials
<1> QED
  BY <1>3 DEF T

\* The streams that are dropped, and the agents that stop, are of the process.
LEMMA DroppedTypes ==
    ASSUME TypeOK, NEW S \in SUBSET Requests
    PROVE  /\ Subagents(S) \subseteq Agents
           /\ Below(S) \subseteq Requests
           /\ S \subseteq Below(S)
<1>1. Subagents(S) \subseteq Agents
  BY ToolAssumption DEF Subagents
<1>2. Below(S) \subseteq Requests
  BY <1>1 DEF Below, TypeOK
<1> QED
  BY <1>1, <1>2 DEF Below

LEMMA FiniteStreams ==
    ASSUME NEW T \in SUBSET Requests
    PROVE  IsFiniteSet(T) /\ Cardinality(T) \in Nat
  BY ToolAssumption, FS_Subset, FS_CardinalityType

\* Dropping streams gives back as many permits as there are running ones.
LEMMA DropBalance ==
    ASSUME TypeOK, NEW S \in SUBSET Requests,
           Running' = Running \ Below(S)
    PROVE  Cardinality(Running') + Released(S) = Cardinality(Running)
<1> DEFINE D == {r \in Below(S) : stream[r] = "running"}
<1>1. Running \in SUBSET Requests /\ Running' \in SUBSET Requests
  BY DEF Running
<1>2. D = Running \cap Below(S) /\ D \in SUBSET Requests
  BY DroppedTypes DEF Running
<1>3. Cardinality(Running \ Below(S)) =
        Cardinality(Running) - Cardinality(Running \cap Below(S))
  BY <1>1, FiniteStreams, FS_Difference
<1>4. Cardinality(Running) \in Nat /\ Cardinality(Running \cap Below(S)) \in Nat
  BY <1>1, <1>2, FiniteStreams
<1>5. Released(S) = Cardinality(Running \cap Below(S))
  BY <1>2 DEF Released
<1>6. Cardinality(Running') = Cardinality(Running \ Below(S))
  OBVIOUS
<1> QED
  BY <1>3, <1>4, <1>5, <1>6

-----------------------------------------------------------------------------
\* The steps that leave streams and permits alone.
QuietStep ==
    \E a \in Agents :
        \/ ChatTurn(a) \/ Ask(a) \/ RunTools(a)
        \/ Confirm(a) \/ ConfirmLate(a) \/ Cancel(a)

LEMMA StepCases ==
    ASSUME [Next]_vars
    PROVE  \/ UNCHANGED vars
           \/ QuietStep
           \/ \E a \in Agents :
                 StartTurn(a) \/ Decide(a) \/ EndTurn(a) \/ DropReply(a)
           \/ \E r \in Requests : Acquire(r) \/ Return(r) \/ TimeOut(r)
  BY DEF Next, Turn, QuietStep

\* What such a step leaves alone.
Untouched ==
    /\ stream' = stream /\ permits' = permits
    /\ mode' = mode /\ max_in_flight' = max_in_flight
    /\ ruled' = ruled /\ rule_at' = rule_at
    /\ user_permission' = user_permission

LEMMA QuietEffect ==
    ASSUME UNCHANGED vars \/ QuietStep
    PROVE  Untouched
<1>1. CASE UNCHANGED vars
  BY <1>1 DEF Untouched, vars, config, approvalVars, runVars, historyVars
<1> SUFFICES ASSUME NEW a \in Agents,
                    \/ ChatTurn(a) \/ Ask(a) \/ RunTools(a)
                    \/ Confirm(a) \/ ConfirmLate(a) \/ Cancel(a)
             PROVE  Untouched
  BY <1>1 DEF QuietStep
<1>2. CASE ChatTurn(a)
  BY <1>2 DEF Untouched, ChatTurn, config, approvalVars, runVars, historyVars
<1>3. CASE Ask(a)
  BY <1>3 DEF Untouched, Ask, config, approvalVars, runVars, historyVars
<1>4. CASE RunTools(a)
  BY <1>4 DEF Untouched, RunTools, config, approvalVars, runVars, historyVars
<1>5. CASE Confirm(a)
  BY <1>5 DEF Untouched, Confirm, config, approvalVars, runVars, historyVars
<1>6. CASE ConfirmLate(a)
  BY <1>6 DEF Untouched, ConfirmLate, config, approvalVars, runVars, historyVars
<1>7. CASE Cancel(a)
  BY <1>7 DEF Untouched, Cancel, config, approvalVars, runVars, historyVars
<1> QED
  BY <1>2, <1>3, <1>4, <1>5, <1>6, <1>7

\* What a turn that begins with the requests in B, on the lists in l, does.
StartedWith(a, B, l) ==
    /\ B \subseteq Requests
    /\ \A r \in B : /\ AgentOf[r] = a /\ lists[r] = {}
                    /\ l[r] \in Outcomes(r)
    /\ batch' = [batch EXCEPT ![a] = B]
    /\ lists' = [r \in Requests |-> IF r \in B THEN l[r] ELSE lists[r]]
    /\ rule_at' = [r \in Requests |->
          IF r \in B THEN ruled[ToolOf[r]] ELSE rule_at[r]]
    /\ stream' = [r \in Requests |->
          IF r \in B /\ "approved" \in l[r] THEN "queued" ELSE stream[r]]
    /\ answers' = [r \in Requests |->
          IF r \in B THEN Denials(a, l[r]) ELSE answers[r]]
    /\ to_ask' = [to_ask EXCEPT ![a] =
          IF Unattended(a) THEN {} ELSE {r \in B : "needs_approval" \in l[r]}]

LEMMA StartEffect ==
    ASSUME NEW a \in Agents, StartTurn(a)
    PROVE  \E B, l : StartedWith(a, B, l)
<1> DEFINE Effect(B, l) ==
              /\ \A r \in B : l[r] \in Outcomes(r)
              /\ batch' = [batch EXCEPT ![a] = B]
              /\ lists' = [r \in Requests |-> IF r \in B THEN l[r] ELSE lists[r]]
              /\ rule_at' = [r \in Requests |->
                    IF r \in B THEN ruled[ToolOf[r]] ELSE rule_at[r]]
              /\ stream' = [r \in Requests |->
                    IF r \in B /\ "approved" \in l[r]
                    THEN "queued" ELSE stream[r]]
              /\ answers' = [r \in Requests |->
                    IF r \in B THEN Denials(a, l[r]) ELSE answers[r]]
              /\ to_ask' = [to_ask EXCEPT ![a] =
                    IF Unattended(a) THEN {}
                    ELSE {r \in B : "needs_approval" \in l[r]}]
<1>1. \E B \in SUBSET Fresh(a) \ {{}} :
         \E l \in [B -> UNION {Outcomes(r) : r \in B}] : Effect(B, l)
  BY DEF StartTurn
<1>2. ASSUME NEW B \in SUBSET Fresh(a), NEW l, Effect(B, l)
      PROVE  StartedWith(a, B, l)
  <2>1. B \subseteq Requests /\ \A r \in B : AgentOf[r] = a /\ lists[r] = {}
    BY DEF Fresh
  <2> QED
    BY <1>2, <2>1 DEF StartedWith
<1> HIDE DEF Effect
<1> QED
  BY <1>1, <1>2

\* Streams only begin to run in Acquire, where a permit goes to each.
LEMMA PermitsStep ==
    ASSUME TypeOK, AskInv, PermitsBalance, [Next]_vars
    PROVE  PermitsBalance' /\ permits' \in 0..max_in_flight'
<1> DEFINE P == PermitsBalance' /\ permits' \in 0..max_in_flight'
<1>0. /\ Running \in SUBSET Requests
      /\ IsFiniteSet(Running)
      /\ Cardinality(Running) \in Nat
      /\ permits \in Nat /\ max_in_flight \in Nat
      /\ permits + Cardinality(Running) = max_in_flight
  BY FiniteStreams, ToolAssumption DEF Running, TypeOK, PermitsBalance
<1>1. ASSUME stream' = stream, permits' = permits, max_in_flight' = max_in_flight
      PROVE  P
  <2>1. Running' = Running
    BY <1>1 DEF Running
  <2>2. Cardinality(Running') = Cardinality(Running)
    BY <2>1
  <2> QED
    BY <1>0, <1>1, <2>2 DEF PermitsBalance
<1>2. ASSUME UNCHANGED vars \/ QuietStep
      PROVE  P
  BY <1>1, <1>2, QuietEffect DEF Untouched
<1>3. ASSUME NEW a \in Agents, StartTurn(a) \/ Decide(a)
      PROVE  P
  <2>1. CASE StartTurn(a)
    <3>0. PICK B, l : StartedWith(a, B, l)
      BY <2>1, StartEffect
    <3>1. \A r \in Requests : stream'[r] = "running" <=> stream[r] = "running"
      BY <3>0 DEF StartedWith, AskInv, FreshHasNoStream
    <3>2. Running' = Running
      BY <3>1 DEF Running
    <3>3. permits' = permits /\ max_in_flight' = max_in_flight
      BY <2>1 DEF StartTurn, config
    <3> QED
      BY <1>0, <3>2, <3>3 DEF PermitsBalance
  <2>2. CASE Decide(a)
    <3>1. asking[a] \in Requests /\ stream[asking[a]] = "none"
      BY <2>2 DEF Decide, AskInv, HeardIsSaid, AskedHasNoStream
    <3>2. \A r \in Requests : stream'[r] = "running" <=> stream[r] = "running"
      BY <2>2, <3>1 DEF Decide, TypeOK
    <3>3. Running' = Running
      BY <3>2 DEF Running
    <3>4. permits' = permits /\ max_in_flight' = max_in_flight
      BY <2>2 DEF Decide, config
    <3> QED
      BY <1>0, <3>3, <3>4 DEF PermitsBalance
  <2> QED
    BY <1>3, <2>1, <2>2
<1>4. ASSUME NEW S \in SUBSET Requests,
             Running' = Running \ Below(S),
             permits' = permits + Released(S), max_in_flight' = max_in_flight
      PROVE  P
  <2>1. Cardinality(Running') + Released(S) = Cardinality(Running)
    BY <1>4, DropBalance
  <2>2. Cardinality(Running') \in Nat /\ Released(S) \in Nat
    <3>1. Running' \in SUBSET Requests
      BY <1>0, <1>4
    <3>2. {r \in Below(S) : stream[r] = "running"} \in SUBSET Requests
      BY DroppedTypes
    <3> QED
      BY <3>1, <3>2, FiniteStreams DEF Released
  <2> QED
    BY <1>0, <1>4, <2>1, <2>2 DEF PermitsBalance
<1>5. ASSUME NEW a \in Agents, EndTurn(a) \/ DropReply(a)
      PROVE  P
  <2>1. batch[a] \in SUBSET Requests
    BY DEF TypeOK
  <2>2. /\ stream' = DropStreams(batch[a])
        /\ permits' = permits + Released(batch[a])
        /\ max_in_flight' = max_in_flight
    BY <1>5 DEF EndTurn, DropReply, config
  <2>3. Running' = Running \ Below(batch[a])
    BY <2>2 DEF Running, DropStreams
  <2> QED
    BY <1>4, <2>1, <2>2, <2>3
<1>6. ASSUME NEW r \in Requests, TimeOut(r)
      PROVE  P
  <2>1. /\ stream' = [DropStreams({r}) EXCEPT ![r] = "done"]
        /\ permits' = permits + Released({r})
        /\ max_in_flight' = max_in_flight
    BY <1>6 DEF TimeOut, config
  <2>2. r \in Below({r})
    BY DEF Below
  <2>3. Running' = Running \ Below({r})
    BY <2>1, <2>2 DEF Running, DropStreams
  <2> QED
    BY <1>4, <2>1, <2>3
<1>7. ASSUME NEW r \in Requests, Acquire(r)
      PROVE  P
  <2>1. Running' = Running \cup {r} /\ r \notin Running
    BY <1>7 DEF Acquire, Running, TypeOK
  <2>2. Cardinality(Running') = Cardinality(Running) + 1
    BY <1>0, <2>1, FS_AddElement
  <2>3. permits > 0 /\ permits' = permits - 1 /\ max_in_flight' = max_in_flight
    BY <1>7 DEF Acquire, config
  <2> QED
    BY <1>0, <2>2, <2>3 DEF PermitsBalance
<1>8. ASSUME NEW r \in Requests, Return(r)
      PROVE  P
  <2>1. Running' = Running \ {r} /\ r \in Running
    BY <1>8 DEF Return, Running, TypeOK
  <2>2. Cardinality(Running') = Cardinality(Running) - 1
    BY <1>0, <2>1, FS_RemoveElement
  <2>3. permits' = permits + 1 /\ max_in_flight' = max_in_flight
    BY <1>8 DEF Return, config
  <2>4. Cardinality(Running') \in Nat
    BY <1>0, <2>1, FiniteStreams
  <2> QED
    BY <1>0, <2>2, <2>3, <2>4 DEF PermitsBalance
<1> QED
  BY <1>2, <1>3, <1>5, <1>6, <1>7, <1>8, StepCases

-----------------------------------------------------------------------------
\* The steps of streams that have begun, and their ends.
LaterStep ==
    \/ \E a \in Agents : EndTurn(a) \/ DropReply(a)
    \/ \E r \in Requests : Acquire(r) \/ Return(r) \/ TimeOut(r)

LEMMA LaterStreams ==
    ASSUME TypeOK, LaterStep
    PROVE  \A r \in Requests : stream'[r] = "none" <=> stream[r] = "none"
<1>1. ASSUME NEW S, NEW r \in Requests
      PROVE  DropStreams(S)[r] = "none" <=> stream[r] = "none"
  BY DEF DropStreams
<1>2. ASSUME NEW a \in Agents, EndTurn(a) \/ DropReply(a)
      PROVE  stream' = DropStreams(batch[a])
  BY <1>2 DEF EndTurn, DropReply
<1>3. ASSUME NEW r \in Requests, TimeOut(r)
      PROVE  \A q \in Requests : stream'[q] = "none" <=> stream[q] = "none"
  <2>1. /\ stream[r] = "running"
        /\ stream' = [DropStreams({r}) EXCEPT ![r] = "done"]
    BY <1>3 DEF TimeOut
  <2> QED
    BY <2>1 DEF DropStreams
<1>4. ASSUME NEW r \in Requests, Acquire(r) \/ Return(r)
      PROVE  \A q \in Requests : stream'[q] = "none" <=> stream[q] = "none"
  BY <1>4 DEF Acquire, Return, TypeOK
<1> QED
  BY <1>1, <1>2, <1>3, <1>4 DEF LaterStep

\* Such a step asks nobody, and stops the turn of an agent only together with
\* its question or, if it is a subagent's, without one.
LEMMA LaterEffect ==
    ASSUME TypeOK, LaterStep
    PROVE  /\ UNCHANGED <<mode, max_in_flight, lists, said, ruled, rule_at,
                          user_permission>>
           /\ \A a \in Agents :
                /\ to_ask'[a] \subseteq to_ask[a]
                /\ asking'[a] \in {asking[a], NoRequest}
                /\ \/ confirmation'[a] = confirmation[a] /\ asking'[a] = asking[a]
                   \/ confirmation'[a] = "none"
                /\ Unattended(a) /\ to_ask[a] = {} => to_ask'[a] = {}
                /\ \/ pc'[a] = pc[a]
                   \/ Unattended(a)
                   \/ pc[a] = "run"
                   \/ asking'[a] = NoRequest
<1> DEFINE Kept == UNCHANGED <<mode, max_in_flight, lists, said, ruled, rule_at,
                               user_permission>>
           Asked == UNCHANGED <<to_ask, asking, confirmation>>
<1>1. ASSUME NEW S \in SUBSET Requests, NEW a \in Subagents(S)
      PROVE  Unattended(a)
  BY DEF Subagents, Unattended, Delegates
<1>2. ASSUME NEW a \in Agents, EndTurn(a)
      PROVE  /\ Kept /\ Asked /\ pc[a] = "run"
             /\ \A b \in Agents : pc'[b] = pc[b] \/ Unattended(b) \/ b = a
  <2>1. Kept /\ Asked /\ pc[a] = "run" /\ Stop({a} \cup Subagents(batch[a]))
    BY <1>2 DEF EndTurn, config, approvalVars
  <2>2. batch[a] \in SUBSET Requests
    BY DEF TypeOK
  <2> QED
    BY <1>1, <2>1, <2>2 DEF Stop
<1>3. ASSUME NEW a \in Agents, DropReply(a)
      PROVE  /\ Kept
             /\ asking' = [asking EXCEPT ![a] = NoRequest]
             /\ confirmation' = [confirmation EXCEPT ![a] = "none"]
             /\ to_ask' = [to_ask EXCEPT ![a] = {}]
             /\ \A b \in Agents : pc'[b] = pc[b] \/ Unattended(b) \/ b = a
  <2>1. /\ Kept /\ Stop({a} \cup Subagents(batch[a]))
        /\ asking' = [asking EXCEPT ![a] = NoRequest]
        /\ confirmation' = [confirmation EXCEPT ![a] = "none"]
        /\ to_ask' = [to_ask EXCEPT ![a] = {}]
    BY <1>3 DEF DropReply, config, historyVars
  <2>2. batch[a] \in SUBSET Requests
    BY DEF TypeOK
  <2> QED
    BY <1>1, <2>1, <2>2 DEF Stop
<1>4. ASSUME NEW r \in Requests, TimeOut(r)
      PROVE  Kept /\ Asked /\ \A b \in Agents : pc'[b] = pc[b] \/ Unattended(b)
  <2>1. Kept /\ Asked /\ Stop(Subagents({r}))
    BY <1>4 DEF TimeOut, config, approvalVars, historyVars
  <2> QED
    BY <1>1, <2>1 DEF Stop
<1>5. ASSUME NEW r \in Requests, Acquire(r) \/ Return(r)
      PROVE  Kept /\ Asked /\ pc' = pc
  BY <1>5 DEF Acquire, Return, config, turnVars, approvalVars, historyVars
<1>6. CASE \E a \in Agents : DropReply(a)
  <2>1. PICK a \in Agents : DropReply(a)
    BY <1>6
  <2>2. /\ Kept
        /\ asking' = [asking EXCEPT ![a] = NoRequest]
        /\ confirmation' = [confirmation EXCEPT ![a] = "none"]
        /\ to_ask' = [to_ask EXCEPT ![a] = {}]
        /\ \A b \in Agents : pc'[b] = pc[b] \/ Unattended(b) \/ b = a
    BY <1>3, <2>1
  <2> QED
    BY <2>2 DEF TypeOK
<1>7. CASE ~\E a \in Agents : DropReply(a)
  <2>1. /\ Kept /\ Asked
        /\ \A b \in Agents : pc'[b] = pc[b] \/ Unattended(b) \/ pc[b] = "run"
    BY <1>2, <1>4, <1>5, <1>7 DEF LaterStep
  <2> QED
    BY <2>1
<1> QED
  BY <1>6, <1>7

LEMMA AskLater ==
    ASSUME TypeOK, AskInv, LaterStep
    PROVE  AskInv'
<1>1. /\ lists' = lists /\ said' = said
      /\ \A a \in Agents :
            /\ to_ask'[a] \subseteq to_ask[a]
            /\ asking'[a] \in {asking[a], NoRequest}
            /\ \/ confirmation'[a] = confirmation[a] /\ asking'[a] = asking[a]
               \/ confirmation'[a] = "none"
            /\ Unattended(a) /\ to_ask[a] = {} => to_ask'[a] = {}
            /\ \/ pc'[a] = pc[a]
               \/ Unattended(a)
               \/ pc[a] = "run"
               \/ asking'[a] = NoRequest
  BY LaterEffect
<1>2. \A r \in Requests : stream'[r] = "none" <=> stream[r] = "none"
  BY LaterStreams
<1>3. NoRequest \notin Requests /\ \A a \in Agents : to_ask[a] \subseteq Requests
  BY ToolAssumption DEF TypeOK
<1>4. FreshHasNoStream'
  BY <1>1, <1>2 DEF AskInv, FreshHasNoStream
<1>5. AskedHasNoStream'
  BY <1>1, <1>2, <1>3 DEF AskInv, AskedHasNoStream
<1>6. AskedOnce'
  BY <1>1, <1>3 DEF AskInv, AskedOnce
<1>7. HeardIsSaid'
  BY <1>1 DEF AskInv, HeardIsSaid
<1>8. AskedInTurn'
  <2>1. ASSUME NEW a \in Agents
        PROVE  /\ asking'[a] \in Requests => pc'[a] = "ask"
               /\ Unattended(a) => to_ask'[a] = {} /\ asking'[a] = NoRequest
    BY <1>1, <1>3, <2>1 DEF AskInv, AskedInTurn
  <2> QED
    BY <2>1 DEF AskedInTurn, Unattended, Delegates
<1> QED
  BY <1>4, <1>5, <1>6, <1>7, <1>8 DEF AskInv

LEMMA AskQuiet ==
    ASSUME TypeOK, AskInv, UNCHANGED vars \/ QuietStep
    PROVE  AskInv'
<1>0. stream' = stream
  BY QuietEffect DEF Untouched
<1>1. CASE UNCHANGED vars
  BY <1>1 DEF vars, turnVars, approvalVars, runVars, historyVars, AskInv,
              FreshHasNoStream, AskedHasNoStream, AskedOnce, HeardIsSaid,
              AskedInTurn, Unattended, Delegates
<1>2. ASSUME NEW a \in Agents, ChatTurn(a)
      PROVE  AskInv'
  <2>1. UNCHANGED <<to_ask, asking, confirmation, said, pc>>
    BY <1>2 DEF ChatTurn, approvalVars
  <2>2. PICK B \in SUBSET Fresh(a) :
           lists' = [r \in Requests |-> IF r \in B THEN {"skipped"} ELSE lists[r]]
    BY <1>2 DEF ChatTurn
  <2>3. \A r \in B : lists[r] = {}
    BY DEF Fresh
  <2>4. FreshHasNoStream'
    BY <1>0, <2>2 DEF AskInv, FreshHasNoStream
  <2>5. AskedHasNoStream'
    BY <1>0, <2>1, <2>2, <2>3 DEF AskInv, AskedHasNoStream, TypeOK
  <2> QED
    BY <2>1, <2>4, <2>5 DEF AskInv, AskedOnce, HeardIsSaid, AskedInTurn,
                            Unattended, Delegates
<1>3. ASSUME NEW a \in Agents, Ask(a)
      PROVE  AskInv'
  <2>1. PICK r \in to_ask[a] :
           /\ asking' = [asking EXCEPT ![a] = r]
           /\ to_ask' = [to_ask EXCEPT ![a] = @ \ {r}]
    BY <1>3 DEF Ask
  <2>2. /\ pc[a] = "approve" /\ pc' = [pc EXCEPT ![a] = "ask"]
        /\ UNCHANGED <<lists, confirmation, said>>
    BY <1>3 DEF Ask, historyVars
  <2>3. r \in Requests /\ ~Unattended(a) /\ confirmation[a] = "none"
    BY <2>1, <2>2 DEF TypeOK, AskInv, AskedInTurn, HeardIsSaid
  <2>4. FreshHasNoStream'
    BY <1>0, <2>2 DEF AskInv, FreshHasNoStream
  <2>5. AskedHasNoStream'
    BY <1>0, <2>1, <2>2 DEF AskInv, AskedHasNoStream, TypeOK
  <2>6. AskedOnce'
    BY <2>1 DEF AskInv, AskedOnce, TypeOK
  <2>7. HeardIsSaid'
    BY <2>1, <2>2, <2>3 DEF AskInv, HeardIsSaid, TypeOK
  <2>8. AskedInTurn'
    BY <2>1, <2>2, <2>3 DEF AskInv, AskedInTurn, TypeOK, Unattended, Delegates
  <2> QED
    BY <2>4, <2>5, <2>6, <2>7, <2>8 DEF AskInv
<1>4. ASSUME NEW a \in Agents, RunTools(a)
      PROVE  AskInv'
  <2>1. /\ UNCHANGED <<lists, to_ask, asking, confirmation, said>>
        /\ pc[a] = "approve" /\ pc' = [pc EXCEPT ![a] = "run"]
    BY <1>4 DEF RunTools, approvalVars, historyVars
  <2> QED
    BY <1>0, <2>1 DEF AskInv, FreshHasNoStream, AskedHasNoStream, AskedOnce,
                      HeardIsSaid, AskedInTurn, Unattended, Delegates, TypeOK
<1>5. ASSUME NEW a \in Agents, Confirm(a)
      PROVE  AskInv'
  <2>1. PICK p \in Permissions :
           /\ confirmation' = [confirmation EXCEPT ![a] = p]
           /\ said' = [said EXCEPT ![asking[a]] = p]
    BY <1>5 DEF Confirm
  <2>2. asking[a] \in Requests /\ UNCHANGED <<lists, to_ask, asking, pc>>
    BY <1>5 DEF Confirm, TypeOK, turnVars
  <2>3. FreshHasNoStream' /\ AskedHasNoStream' /\ AskedOnce' /\ AskedInTurn'
    BY <1>0, <2>2 DEF AskInv, FreshHasNoStream, AskedHasNoStream, AskedOnce,
                      AskedInTurn, Unattended, Delegates
  <2>4. \A b \in Agents : b # a => asking[b] # asking[a]
    BY <2>2 DEF AskInv, AskedHasNoStream
  <2>5. HeardIsSaid'
    BY <2>1, <2>2, <2>4 DEF AskInv, HeardIsSaid, TypeOK
  <2> QED
    BY <2>3, <2>5 DEF AskInv
<1>6. ASSUME NEW a \in Agents, ConfirmLate(a) \/ Cancel(a)
      PROVE  AskInv'
  <2>1. UNCHANGED <<lists, to_ask, asking, confirmation, said, pc>>
    BY <1>6 DEF ConfirmLate, Cancel, turnVars, approvalVars, historyVars
  <2> QED
    BY <1>0, <2>1 DEF AskInv, FreshHasNoStream, AskedHasNoStream, AskedOnce,
                      HeardIsSaid, AskedInTurn, Unattended, Delegates
<1> QED
  BY <1>1, <1>2, <1>3, <1>4, <1>5, <1>6 DEF QuietStep

LEMMA AskStart ==
    ASSUME TypeOK, AskInv, NEW a \in Agents, StartTurn(a)
    PROVE  AskInv'
<1>1. PICK B, l : StartedWith(a, B, l)
  BY StartEffect
<1>2. /\ UNCHANGED <<asking, confirmation, said>>
      /\ pc[a] = "idle" /\ pc' = [pc EXCEPT ![a] = "approve"]
  BY DEF StartTurn, approvalVars
<1>3. /\ B \subseteq Requests
      /\ \A r \in B : /\ AgentOf[r] = a /\ lists[r] = {} /\ stream[r] = "none"
                      /\ l[r] # {}
                      /\ "needs_approval" \in l[r] => "approved" \notin l[r]
  <2>1. /\ B \subseteq Requests
        /\ \A r \in B : AgentOf[r] = a /\ lists[r] = {} /\ l[r] \in Outcomes(r)
    BY <1>1 DEF StartedWith
  <2>2. ASSUME NEW r \in B
        PROVE  l[r] \in {{"approved"}, {"denied"}, {"needs_approval"},
                         {"denied", "needs_approval"}}
    BY <2>1, OutcomeShape
  <2>3. \A r \in B : stream[r] = "none"
    BY <2>1 DEF AskInv, FreshHasNoStream
  <2> QED
    BY <2>1, <2>2, <2>3
<1>4. \A r \in Requests :
         /\ lists'[r] = IF r \in B THEN l[r] ELSE lists[r]
         /\ stream'[r] = IF r \in B /\ "approved" \in l[r]
                         THEN "queued" ELSE stream[r]
  BY <1>1 DEF StartedWith
<1>5. \A b \in Agents :
         to_ask'[b] = IF b # a THEN to_ask[b]
                      ELSE IF Unattended(a) THEN {}
                      ELSE {r \in B : "needs_approval" \in l[r]}
  BY <1>1 DEF StartedWith, TypeOK
<1>6. asking[a] \notin Requests
  BY <1>2 DEF AskInv, AskedInTurn
<1>7. FreshHasNoStream'
  BY <1>3, <1>4 DEF AskInv, FreshHasNoStream
<1>8. AskedHasNoStream'
  <2>1. ASSUME NEW b \in Agents,
               NEW r \in to_ask'[b] \cup ({asking'[b]} \cap Requests)
        PROVE  AgentOf[r] = b /\ "needs_approval" \in lists'[r]
               /\ stream'[r] = "none"
    <3>1. CASE b = a
      <4>1. r \in to_ask'[a]
        BY <1>2, <1>6, <2>1, <3>1
      <4>2. r \in B /\ "needs_approval" \in l[r]
        BY <1>5, <4>1
      <4> QED
        BY <1>3, <1>4, <3>1, <4>2
    <3>2. CASE b # a
      <4>1. r \in Requests /\ AgentOf[r] = b /\ "needs_approval" \in lists[r]
            /\ stream[r] = "none"
        BY <1>2, <1>5, <2>1, <3>2 DEF AskInv, AskedHasNoStream, TypeOK
      <4>2. r \notin B
        BY <1>3, <3>2, <4>1
      <4> QED
        BY <1>4, <4>1, <4>2
    <3> QED
      BY <3>1, <3>2
  <2> QED
    BY <2>1 DEF AskedHasNoStream
<1>9. AskedOnce'
  BY <1>2, <1>3, <1>5, <1>6 DEF AskInv, AskedOnce
<1>10. HeardIsSaid'
  BY <1>2 DEF AskInv, HeardIsSaid
<1>11. AskedInTurn'
  <2>0. \A b \in Agents : pc'[b] = IF b = a THEN "approve" ELSE pc[b]
    BY <1>2 DEF TypeOK
  <2>1. ASSUME NEW b \in Agents
        PROVE  /\ asking'[b] \in Requests => pc'[b] = "ask"
               /\ Unattended(b) => to_ask'[b] = {} /\ asking'[b] = NoRequest
    BY <1>2, <1>5, <1>6, <2>0, <2>1 DEF AskInv, AskedInTurn
  <2> QED
    BY <2>1 DEF AskedInTurn, Unattended, Delegates
<1> QED
  BY <1>7, <1>8, <1>9, <1>10, <1>11 DEF AskInv

LEMMA AskDecide ==
    ASSUME TypeOK, AskInv, NEW a \in Agents, Decide(a)
    PROVE  AskInv'
<1>1. /\ pc[a] = "ask" /\ pc' = [pc EXCEPT ![a] = "approve"]
      /\ asking' = [asking EXCEPT ![a] = NoRequest]
      /\ confirmation' = [confirmation EXCEPT ![a] = "none"]
      /\ UNCHANGED <<lists, to_ask, said>>
      /\ stream' \in {stream, [stream EXCEPT ![asking[a]] = "queued"]}
  BY DEF Decide
<1>2. asking[a] \in Requests /\ AgentOf[asking[a]] = a
      /\ "needs_approval" \in lists[asking[a]]
  BY DEF Decide, AskInv, HeardIsSaid, AskedHasNoStream
<1>3. \A r \in Requests : r # asking[a] => stream'[r] = stream[r]
  BY <1>1, <1>2 DEF TypeOK
<1>4. NoRequest \notin Requests
  BY ToolAssumption
<1>5. FreshHasNoStream'
  BY <1>1, <1>2, <1>3 DEF AskInv, FreshHasNoStream
<1>6. AskedHasNoStream'
  <2>1. ASSUME NEW b \in Agents,
               NEW r \in to_ask'[b] \cup ({asking'[b]} \cap Requests)
        PROVE  AgentOf[r] = b /\ "needs_approval" \in lists'[r]
               /\ stream'[r] = "none"
    <3>1. r \in Requests /\ r \in to_ask[b] \cup ({asking[b]} \cap Requests)
      BY <1>1, <1>4, <2>1 DEF TypeOK
    <3>2. AgentOf[r] = b /\ "needs_approval" \in lists[r] /\ stream[r] = "none"
      BY <3>1 DEF AskInv, AskedHasNoStream
    <3>3. r # asking[a]
      <4>1. CASE b = a
        BY <1>1, <1>4, <2>1, <4>1 DEF AskInv, AskedOnce, TypeOK
      <4>2. CASE b # a
        BY <1>2, <3>2, <4>2
      <4> QED
        BY <4>1, <4>2
    <3> QED
      BY <1>1, <1>3, <3>1, <3>2, <3>3
  <2> QED
    BY <2>1 DEF AskedHasNoStream
<1>7. AskedOnce'
  BY <1>1, <1>4 DEF AskInv, AskedOnce, TypeOK
<1>8. HeardIsSaid'
  BY <1>1 DEF AskInv, HeardIsSaid, TypeOK
<1>9. AskedInTurn'
  <2>1. \A b \in Agents :
           /\ pc'[b] = IF b = a THEN "approve" ELSE pc[b]
           /\ asking'[b] = IF b = a THEN NoRequest ELSE asking[b]
           /\ to_ask'[b] = to_ask[b]
    BY <1>1 DEF TypeOK
  <2>2. ASSUME NEW b \in Agents
        PROVE  /\ asking'[b] \in Requests => pc'[b] = "ask"
               /\ Unattended(b) => to_ask'[b] = {} /\ asking'[b] = NoRequest
    BY <1>4, <2>1, <2>2 DEF AskInv, AskedInTurn
  <2> QED
    BY <2>2 DEF AskedInTurn, Unattended, Delegates
<1> QED
  BY <1>5, <1>6, <1>7, <1>8, <1>9 DEF AskInv

LEMMA StepSorts ==
    ASSUME [Next]_vars
    PROVE  \/ UNCHANGED vars \/ QuietStep
           \/ \E a \in Agents : StartTurn(a)
           \/ \E a \in Agents : Decide(a)
           \/ LaterStep
  BY StepCases DEF LaterStep

LEMMA AskStep ==
    ASSUME TypeOK, AskInv, [Next]_vars
    PROVE  AskInv'
  BY StepSorts, AskQuiet, AskStart, AskDecide, AskLater

-----------------------------------------------------------------------------
LEMMA StartType ==
    ASSUME TypeOK, permits' \in 0..max_in_flight', NEW a \in Agents, StartTurn(a)
    PROVE  TypeOK'
<1>1. PICK B, l : StartedWith(a, B, l)
  BY StartEffect
<1>2. /\ UNCHANGED <<mode, max_in_flight, cancelled, user_permission, asking,
                     confirmation, pending, recorded, cut, said, ruled>>
      /\ pc' = [pc EXCEPT ![a] = "approve"]
  BY DEF StartTurn, config, approvalVars
<1>3. /\ B \subseteq Requests
      /\ \A r \in B : l[r] \in Outcomes(r)
      /\ batch' = [batch EXCEPT ![a] = B]
      /\ lists' = [r \in Requests |-> IF r \in B THEN l[r] ELSE lists[r]]
      /\ rule_at' = [r \in Requests |->
            IF r \in B THEN ruled[ToolOf[r]] ELSE rule_at[r]]
      /\ stream' = [r \in Requests |->
            IF r \in B /\ "approved" \in l[r] THEN "queued" ELSE stream[r]]
      /\ answers' = [r \in Requests |->
            IF r \in B THEN Denials(a, l[r]) ELSE answers[r]]
      /\ to_ask' = [to_ask EXCEPT ![a] =
            IF Unattended(a) THEN {} ELSE {r \in B : "needs_approval" \in l[r]}]
  BY <1>1 DEF StartedWith
<1>4. ASSUME NEW r \in B
      PROVE  l[r] \in SUBSET ListNames
  BY <1>3, OutcomeShape DEF ListNames
<1>5. lists' \in [Requests -> SUBSET ListNames]
  BY <1>3, <1>4 DEF TypeOK
<1>6. answers' \in [Requests -> Seq({"declined", "result", "skipped"})]
  BY <1>3, DenialsType DEF TypeOK
<1>7. rule_at' \in [Requests -> {"none", "always_allow", "always_deny"}]
  BY <1>3, ToolAssumption DEF TypeOK
<1>8. /\ stream' \in [Requests -> {"none", "queued", "running", "done", "dropped"}]
      /\ batch' \in [Agents -> SUBSET Requests]
  BY <1>3 DEF TypeOK
<1>9. to_ask' \in [Agents -> SUBSET Requests]
  <2>1. (IF Unattended(a) THEN {} ELSE {r \in B : "needs_approval" \in l[r]})
          \in SUBSET Requests
    BY <1>3
  <2> QED
    BY <1>3, <2>1 DEF TypeOK
<1> QED
  BY <1>2, <1>5, <1>6, <1>7, <1>8, <1>9 DEF TypeOK

LEMMA QuietType ==
    ASSUME TypeOK, permits' \in 0..max_in_flight', UNCHANGED vars \/ QuietStep
    PROVE  TypeOK'
<1>0. /\ stream' = stream /\ permits' = permits
      /\ mode' = mode /\ max_in_flight' = max_in_flight
      /\ ruled' = ruled /\ rule_at' = rule_at
      /\ user_permission' = user_permission
  BY QuietEffect DEF Untouched
<1>1. CASE UNCHANGED vars
  BY <1>0, <1>1 DEF TypeOK, vars, turnVars, approvalVars, runVars, historyVars
<1>2. ASSUME NEW a \in Agents, ChatTurn(a)
      PROVE  TypeOK'
  <2>1. PICK B \in SUBSET Fresh(a) :
           /\ lists' = [r \in Requests |->
                 IF r \in B THEN {"skipped"} ELSE lists[r]]
           /\ answers' = [r \in Requests |->
                 IF r \in B THEN <<"skipped">> ELSE answers[r]]
           /\ recorded' = recorded \cup B
    BY <1>2 DEF ChatTurn
  <2>2. UNCHANGED <<pc, batch, cancelled, to_ask, asking, confirmation, pending,
                    cut, said>>
    BY <1>2 DEF ChatTurn, approvalVars
  <2>3. lists' \in [Requests -> SUBSET ListNames] /\ recorded' \subseteq Requests
    BY <2>1 DEF TypeOK, ListNames, Fresh
  <2>4. answers' \in [Requests -> Seq({"declined", "result", "skipped"})]
    <3>1. <<"skipped">> \in Seq({"declined", "result", "skipped"})
      OBVIOUS
    <3> QED
      BY <2>1, <3>1 DEF TypeOK
  <2> QED
    BY <1>0, <2>2, <2>3, <2>4 DEF TypeOK
<1>3. ASSUME NEW a \in Agents, Ask(a)
      PROVE  TypeOK'
  <2>1. PICK r \in to_ask[a] :
          /\ asking' = [asking EXCEPT ![a] = r]
          /\ to_ask' = [to_ask EXCEPT ![a] = @ \ {r}]
          /\ pending' = [pending EXCEPT ![a] = {q \in @ : Open(a, q)} \cup {r}]
    BY <1>3 DEF Ask
  <2>2. /\ UNCHANGED <<batch, cancelled, lists, confirmation, answers, recorded,
                       cut, said>>
        /\ pc' = [pc EXCEPT ![a] = "ask"]
    BY <1>3 DEF Ask, historyVars
  <2>3. r \in Requests
    BY DEF TypeOK
  <2>4. {q \in pending[a] : Open(a, q)} \cup {r} \in SUBSET Requests
    BY <2>3 DEF TypeOK
  <2>5. pending' \in [Agents -> SUBSET Requests]
    BY <2>1, <2>4 DEF TypeOK
  <2>6. /\ asking' \in [Agents -> Requests \cup {NoRequest}]
        /\ to_ask' \in [Agents -> SUBSET Requests]
        /\ pc' \in [Agents -> {"idle", "approve", "ask", "run"}]
    BY <2>1, <2>2, <2>3 DEF TypeOK
  <2> QED
    BY <1>0, <2>2, <2>5, <2>6 DEF TypeOK
<1>4. ASSUME NEW a \in Agents, RunTools(a)
      PROVE  TypeOK'
  BY <1>0, <1>4 DEF TypeOK, RunTools, approvalVars, historyVars
<1>5. ASSUME NEW a \in Agents, Confirm(a)
      PROVE  TypeOK'
  <2>1. PICK p \in Permissions :
           /\ confirmation' = [confirmation EXCEPT ![a] = p]
           /\ said' = [said EXCEPT ![asking[a]] = p]
    BY <1>5 DEF Confirm
  <2>2. /\ pending' = [pending EXCEPT ![a] = @ \ {asking[a]}]
        /\ UNCHANGED <<pc, batch, cancelled, lists, to_ask, asking, answers,
                       recorded, cut>>
    BY <1>5 DEF Confirm, turnVars
  <2>3. /\ confirmation' \in [Agents -> Permissions \cup {"none"}]
        /\ said' \in [Requests -> Permissions \cup {"none"}]
    BY <2>1 DEF TypeOK
  <2>4. pending' \in [Agents -> SUBSET Requests]
    BY <2>2 DEF TypeOK
  <2> QED
    BY <1>0, <2>2, <2>3, <2>4 DEF TypeOK
<1>6. ASSUME NEW a \in Agents, ConfirmLate(a)
      PROVE  TypeOK'
  BY <1>0, <1>6 DEF TypeOK, ConfirmLate, turnVars, historyVars
<1>7. ASSUME NEW a \in Agents, Cancel(a)
      PROVE  TypeOK'
  BY <1>0, <1>7 DEF TypeOK, Cancel, approvalVars, historyVars
<1> QED
  BY <1>1, <1>2, <1>3, <1>4, <1>5, <1>6, <1>7 DEF QuietStep

LEMMA AnswersStayTyped ==
    ASSUME TypeOK, NEW r, NEW u \in Seq({"declined", "result", "skipped"})
    PROVE  [answers EXCEPT ![r] = u]
              \in [Requests -> Seq({"declined", "result", "skipped"})]
<1>1. answers \in [Requests -> Seq({"declined", "result", "skipped"})]
  BY DEF TypeOK
<1> QED
  BY <1>1

LEMMA ResultType ==
    ASSUME TypeOK, NEW r \in Requests
    PROVE  [answers EXCEPT ![r] = Append(answers[r], "result")]
              \in [Requests -> Seq({"declined", "result", "skipped"})]
<1>1. Append(answers[r], "result") \in Seq({"declined", "result", "skipped"})
  BY DEF TypeOK
<1> QED
  BY <1>1, AnswersStayTyped

LEMMA DecideType ==
    ASSUME TypeOK, AskInv, permits' \in 0..max_in_flight',
           NEW a \in Agents, Decide(a)
    PROVE  TypeOK'
<1> DEFINE p == confirmation[a]
           t == ToolOf[asking[a]]
<1>1. /\ UNCHANGED <<mode, max_in_flight, batch, cancelled, lists, to_ask, pending,
                     recorded, cut, said, rule_at>>
      /\ stream' \in {stream, [stream EXCEPT ![asking[a]] = "queued"]}
      /\ user_permission' = [user_permission EXCEPT ![t] = NewLevel(@, p)]
      /\ ruled' = [ruled EXCEPT ![t] =
                      IF p \in {"always_allow", "always_deny"} THEN p ELSE @]
      /\ asking' = [asking EXCEPT ![a] = NoRequest]
      /\ confirmation' = [confirmation EXCEPT ![a] = "none"]
      /\ pc' = [pc EXCEPT ![a] = "approve"]
  BY DEF Decide, config
<1>2. t \in Tools /\ asking[a] \in Requests
  BY ToolAssumption DEF Decide, AskInv, HeardIsSaid
<1>3. user_permission' \in [Tools -> Levels]
  <2>1. user_permission[t] \in Levels
    BY <1>2 DEF TypeOK
  <2>2. NewLevel(user_permission[t], p) \in Levels
    BY <2>1 DEF NewLevel, Levels
  <2> QED
    BY <1>1, <2>2 DEF TypeOK
<1>4. ruled' \in [Tools -> {"none", "always_allow", "always_deny"}]
  BY <1>1 DEF TypeOK
<1>5. answers' \in [Requests -> Seq({"declined", "result", "skipped"})]
  <2>1. Append(answers[asking[a]], "declined")
           \in Seq({"declined", "result", "skipped"})
    BY <1>2 DEF TypeOK
  <2>0. \/ answers' = answers
        \/ answers' = [answers EXCEPT ![asking[a]] =
                          Append(answers[asking[a]], "declined")]
    BY DEF Decide
  <2>2. CASE answers' = answers
    BY <2>2 DEF TypeOK
  <2>3. CASE answers' = [answers EXCEPT ![asking[a]] =
                            Append(answers[asking[a]], "declined")]
    BY <2>1, <2>3, AnswersStayTyped
  <2> QED
    BY <2>0, <2>2, <2>3
<1>6. /\ stream' \in [Requests -> {"none", "queued", "running", "done", "dropped"}]
      /\ asking' \in [Agents -> Requests \cup {NoRequest}]
      /\ confirmation' \in [Agents -> Permissions \cup {"none"}]
      /\ pc' \in [Agents -> {"idle", "approve", "ask", "run"}]
  BY <1>1 DEF TypeOK
<1> QED
  BY <1>1, <1>3, <1>4, <1>5, <1>6 DEF TypeOK

LEMMA DropTypes ==
    ASSUME TypeOK, NEW S \in SUBSET Requests
    PROVE  DropStreams(S) \in
             [Requests -> {"none", "queued", "running", "done", "dropped"}]
  BY DEF DropStreams, TypeOK

LEMMA StopType ==
    ASSUME TypeOK, NEW A, Stop(A)
    PROVE  pc' \in [Agents -> {"idle", "approve", "ask", "run"}]
  BY DEF Stop, TypeOK

LEMMA LaterType ==
    ASSUME TypeOK, permits' \in 0..max_in_flight', LaterStep
    PROVE  TypeOK'
<1> DEFINE StreamType == [Requests ->
                            {"none", "queued", "running", "done", "dropped"}]
<1>1. ASSUME NEW a \in Agents, EndTurn(a)
      PROVE  TypeOK'
  <2>1. batch[a] \in SUBSET Requests
    BY DEF TypeOK
  <2>2. /\ Stop({a} \cup Subagents(batch[a]))
        /\ stream' = DropStreams(batch[a])
        /\ recorded' = recorded \cup batch[a]
        /\ cut' = IF Cancelled(a) THEN cut \cup batch[a] ELSE cut
        /\ cancelled' = [cancelled EXCEPT ![a] = FALSE]
        /\ UNCHANGED <<mode, max_in_flight, batch, lists, to_ask, user_permission,
                       asking, confirmation, pending, answers, said, ruled,
                       rule_at>>
    BY <1>1 DEF EndTurn, config, approvalVars
  <2>3. /\ stream' \in StreamType
        /\ pc' \in [Agents -> {"idle", "approve", "ask", "run"}]
    BY <2>1, <2>2, DropTypes, StopType
  <2>4. recorded' \subseteq Requests /\ cut' \subseteq Requests
    BY <2>1, <2>2 DEF TypeOK
  <2>5. cancelled' \in [Agents -> BOOLEAN]
    BY <2>2 DEF TypeOK
  <2> QED
    BY <2>2, <2>3, <2>4, <2>5 DEF TypeOK
<1>2. ASSUME NEW a \in Agents, DropReply(a)
      PROVE  TypeOK'
  <2>1. batch[a] \in SUBSET Requests
    BY DEF TypeOK
  <2>2. /\ Stop({a} \cup Subagents(batch[a]))
        /\ stream' = DropStreams(batch[a])
        /\ asking' = [asking EXCEPT ![a] = NoRequest]
        /\ confirmation' = [confirmation EXCEPT ![a] = "none"]
        /\ to_ask' = [to_ask EXCEPT ![a] = {}]
        /\ cancelled' = [cancelled EXCEPT ![a] = FALSE]
        /\ UNCHANGED <<mode, max_in_flight, batch, lists, user_permission, pending,
                       answers, recorded, cut, said, ruled, rule_at>>
    BY <1>2 DEF DropReply, config, historyVars
  <2>3. /\ stream' \in StreamType
        /\ pc' \in [Agents -> {"idle", "approve", "ask", "run"}]
    BY <2>1, <2>2, DropTypes, StopType
  <2>4. /\ asking' \in [Agents -> Requests \cup {NoRequest}]
        /\ confirmation' \in [Agents -> Permissions \cup {"none"}]
        /\ to_ask' \in [Agents -> SUBSET Requests]
        /\ cancelled' \in [Agents -> BOOLEAN]
    BY <2>2 DEF TypeOK
  <2> QED
    BY <2>2, <2>3, <2>4 DEF TypeOK
<1>3. ASSUME NEW r \in Requests, TimeOut(r)
      PROVE  TypeOK'
  <2>1. /\ Stop(Subagents({r}))
        /\ stream' = [DropStreams({r}) EXCEPT ![r] = "done"]
        /\ UNCHANGED <<mode, max_in_flight, batch, cancelled, lists, to_ask,
                       user_permission, asking, confirmation, pending, recorded,
                       cut, said, ruled, rule_at>>
    BY <1>3 DEF TimeOut, config, approvalVars, historyVars
  <2>2. DropStreams({r}) \in StreamType
    BY DropTypes
  <2>3. stream' \in StreamType
    BY <2>1, <2>2
  <2>4. pc' \in [Agents -> {"idle", "approve", "ask", "run"}]
    BY <2>1, StopType
  <2>5. answers' = [answers EXCEPT ![r] = Append(answers[r], "result")]
    BY <1>3 DEF TimeOut
  <2>6. answers' \in [Requests -> Seq({"declined", "result", "skipped"})]
    BY <2>5, ResultType
  <2> QED
    BY <2>1, <2>3, <2>4, <2>6 DEF TypeOK
<1>4. ASSUME NEW r \in Requests, Return(r)
      PROVE  TypeOK'
  <2>1. /\ stream' = [stream EXCEPT ![r] = "done"]
        /\ answers' = [answers EXCEPT ![r] = Append(answers[r], "result")]
    BY <1>4 DEF Return
  <2>2. answers' \in [Requests -> Seq({"declined", "result", "skipped"})]
    BY <2>1, ResultType
  <2>3. stream' \in StreamType
    BY <2>1 DEF TypeOK
  <2> QED
    BY <1>4, <2>2, <2>3 DEF TypeOK, Return, config, turnVars, approvalVars,
                            historyVars
<1>5. ASSUME NEW r \in Requests, Acquire(r)
      PROVE  TypeOK'
  <2>1. stream' \in StreamType
    BY <1>5 DEF Acquire, TypeOK
  <2> QED
    BY <1>5, <2>1 DEF TypeOK, Acquire, config, turnVars, approvalVars, historyVars
<1> QED
  BY <1>1, <1>2, <1>3, <1>4, <1>5 DEF LaterStep

LEMMA TypeStep ==
    ASSUME TypeOK, AskInv, PermitsBalance, [Next]_vars
    PROVE  TypeOK'
<1>1. permits' \in 0..max_in_flight'
  BY PermitsStep
<1> QED
  BY <1>1, StepSorts, QuietType, StartType, DecideType, LaterType

-----------------------------------------------------------------------------
\* The user's last word for good is the level of the tool.
LEMMA RuleStep ==
    ASSUME TypeOK, AskInv, RuleIsLevel, [Next]_vars
    PROVE  RuleIsLevel'
<1>1. CASE UNCHANGED vars \/ QuietStep
  BY <1>1, QuietEffect DEF Untouched, RuleIsLevel
<1>2. CASE LaterStep
  BY <1>2, LaterEffect DEF RuleIsLevel
<1>3. ASSUME NEW a \in Agents, StartTurn(a)
      PROVE  RuleIsLevel'
  BY <1>3 DEF StartTurn, approvalVars, RuleIsLevel
<1>4. ASSUME NEW a \in Agents, Decide(a)
      PROVE  RuleIsLevel'
  <2> DEFINE p == confirmation[a]
             t == ToolOf[asking[a]]
  <2>1. /\ user_permission' =
             [user_permission EXCEPT ![t] = NewLevel(user_permission[t], p)]
        /\ ruled' = [ruled EXCEPT ![t] =
             IF p \in {"always_allow", "always_deny"} THEN p ELSE ruled[t]]
    BY <1>4 DEF Decide
  <2>2. p = "always_deny" => NewLevel(user_permission[t], p) = "never_allow"
    BY DEF NewLevel
  <2>3. p \notin {"always_allow", "always_deny"} =>
          NewLevel(user_permission[t], p) = user_permission[t]
    BY DEF NewLevel
  <2> HIDE DEF p, t
  <2> QED
    BY <2>1, <2>2, <2>3 DEF RuleIsLevel, TypeOK
<1> QED
  BY <1>1, <1>2, <1>3, <1>4, StepSorts

\* Whichever way a call came to its stream, it was allowed.
LEMMA AllowedStep ==
    ASSUME TypeOK, AskInv, RuleIsLevel, [Next]_vars,
           RunsOnlyIfAllowed, DenialStands
    PROVE  RunsOnlyIfAllowed' /\ DenialStands'
<1> DEFINE Goal(r) ==
       /\ stream'[r] # "none" => lists'[r] = {"approved"} \/ said'[r] \in Yes
       /\ mode' # "auto" /\ rule_at'[r] = "always_deny" /\ stream'[r] # "none"
             => said'[r] \in Yes
<1> SUFFICES ASSUME NEW r \in Requests
             PROVE  Goal(r)
  BY DEF RunsOnlyIfAllowed, DenialStands
<1>0. /\ stream[r] # "none" => lists[r] = {"approved"} \/ said[r] \in Yes
      /\ mode # "auto" /\ rule_at[r] = "always_deny" /\ stream[r] # "none"
            => said[r] \in Yes
      /\ lists[r] = {} => stream[r] = "none"
  BY DEF RunsOnlyIfAllowed, DenialStands, AskInv, FreshHasNoStream
<1>1. CASE LaterStep
  BY <1>0, <1>1, LaterEffect, LaterStreams
<1>2. CASE UNCHANGED vars \/ QuietStep
  <2>1. Untouched
    BY <1>2, QuietEffect
  <2>2. CASE UNCHANGED vars
    BY <1>0, <2>2 DEF vars, config, turnVars, runVars, historyVars
  <2>3. ASSUME NEW a \in Agents, ChatTurn(a)
        PROVE  Goal(r)
    BY <1>0, <2>1, <2>3 DEF ChatTurn, Untouched, Fresh
  <2>4. ASSUME NEW a \in Agents, Confirm(a)
        PROVE  Goal(r)
    <3>1. asking[a] \in Requests /\ stream[asking[a]] = "none"
      BY <2>4 DEF Confirm, TypeOK, AskInv, AskedHasNoStream
    <3>2. \A q \in Requests : q # asking[a] => said'[q] = said[q]
      BY <2>4 DEF Confirm, TypeOK
    <3>3. lists' = lists
      BY <2>4 DEF Confirm, turnVars
    <3> QED
      BY <1>0, <2>1, <3>1, <3>2, <3>3 DEF Untouched
  <2>5. ASSUME NEW a \in Agents,
               Ask(a) \/ RunTools(a) \/ ConfirmLate(a) \/ Cancel(a)
        PROVE  Goal(r)
    <3>1. lists' = lists /\ said' = said
      BY <2>5 DEF Ask, RunTools, ConfirmLate, Cancel, turnVars, historyVars
    <3> QED
      BY <1>0, <2>1, <3>1 DEF Untouched
  <2> QED
    BY <1>2, <2>2, <2>3, <2>4, <2>5 DEF QuietStep
<1>3. ASSUME NEW a \in Agents, StartTurn(a)
      PROVE  Goal(r)
  <2>1. PICK B, l : StartedWith(a, B, l)
    BY <1>3, StartEffect
  <2>2. mode' = mode /\ said' = said
    BY <1>3 DEF StartTurn, config
  <2>3. CASE r \in B
    <3>1. /\ l[r] \in Outcomes(r) /\ lists[r] = {} /\ lists'[r] = l[r]
          /\ rule_at'[r] = ruled[ToolOf[r]]
          /\ stream'[r] = IF "approved" \in l[r] THEN "queued" ELSE stream[r]
      BY <2>1, <2>3 DEF StartedWith
    <3>2. /\ "approved" \in l[r] => l[r] = {"approved"}
          /\ mode # "auto" /\ user_permission[ToolOf[r]] = "never_allow"
                => "approved" \notin l[r]
      <4>1. l[r] \in {{"approved"}, {"denied"}, {"needs_approval"},
                      {"denied", "needs_approval"}}
        BY <3>1, OutcomeShape
      <4>2. mode # "auto" /\ user_permission[ToolOf[r]] = "never_allow"
              => "approved" \notin l[r]
        BY <3>1, OutcomeShape
      <4> QED
        BY <4>1, <4>2
    <3>3. ruled[ToolOf[r]] = "always_deny"
            => user_permission[ToolOf[r]] = "never_allow"
      BY ToolAssumption DEF RuleIsLevel
    <3> QED
      BY <1>0, <2>2, <3>1, <3>2, <3>3
  <2>4. CASE r \notin B
    <3>1. lists'[r] = lists[r] /\ rule_at'[r] = rule_at[r]
          /\ stream'[r] = stream[r]
      BY <2>1, <2>4 DEF StartedWith
    <3> QED
      BY <1>0, <2>2, <3>1
  <2> QED
    BY <2>3, <2>4
<1>4. ASSUME NEW a \in Agents, Decide(a)
      PROVE  Goal(r)
  <2>1. /\ mode' = mode /\ lists' = lists /\ said' = said /\ rule_at' = rule_at
        /\ stream' = IF Allows(confirmation[a])
                     THEN [stream EXCEPT ![asking[a]] = "queued"] ELSE stream
        /\ confirmation[a] # "none"
    BY <1>4 DEF Decide, config
  <2>2. asking[a] \in Requests /\ said[asking[a]] = confirmation[a]
    BY <2>1 DEF AskInv, HeardIsSaid
  <2> QED
    BY <1>0, <2>1, <2>2 DEF Allows, Yes, TypeOK
<1> QED
  BY <1>1, <1>2, <1>3, <1>4, StepSorts

-----------------------------------------------------------------------------
\* What every state satisfies.
IInv ==
    /\ TypeOK
    /\ PermitsBalance
    /\ AskInv
    /\ RuleIsLevel
    /\ RunsOnlyIfAllowed
    /\ DenialStands

LEMMA InitIInv == Init => IInv
<1> SUFFICES ASSUME Init
             PROVE  IInv
  OBVIOUS
<1>1. Running = {}
  BY DEF Init, Running
<1>2. Cardinality(Running) = 0
  BY <1>1, FS_EmptySet
<1>3. permits = max_in_flight /\ max_in_flight \in Caps
  BY DEF Init
<1>4. permits \in 0..max_in_flight /\ PermitsBalance
  BY <1>2, <1>3, ToolAssumption DEF PermitsBalance
<1>5. answers \in [Requests -> Seq({"declined", "result", "skipped"})]
  BY DEF Init
<1>6. TypeOK
  BY <1>3, <1>4, <1>5 DEF Init, TypeOK, Levels, Permissions, ListNames
<1>7. AskInv
  BY ToolAssumption DEF Init, AskInv, FreshHasNoStream, AskedHasNoStream,
                        AskedOnce, HeardIsSaid, AskedInTurn
<1>8. RuleIsLevel /\ RunsOnlyIfAllowed /\ DenialStands
  BY DEF Init, RuleIsLevel, RunsOnlyIfAllowed, DenialStands
<1> QED
  BY <1>4, <1>6, <1>7, <1>8 DEF IInv

LEMMA StepIInv == IInv /\ [Next]_vars => IInv'
  BY TypeStep, PermitsStep, AskStep, RuleStep, AllowedStep DEF IInv

LEMMA SpecIInv == Spec => []IInv
  BY InitIInv, StepIInv, PTL DEF Spec

\* The variables have their types: among them, the governor's free permits are
\* never fewer than none nor more than its limit.
THEOREM TypeCorrect == Spec => []TypeOK
<1>1. IInv => TypeOK
  BY DEF IInv
<1> QED
  BY <1>1, SpecIInv, PTL

\* No permit is lost or made, whichever way calls end, in whatever agent, and
\* whoever drops them (tool_governor.rs).
THEOREM PermitsBalanced == Spec => []PermitsBalance
<1>1. IInv => PermitsBalance
  BY DEF IInv
<1> QED
  BY <1>1, SpecIInv, PTL

\* A call that runs was approved by every inspector, or confirmed by the user
\* for this very request: no confirmation is taken for another request.
THEOREM NothingRunsUnasked == Spec => []RunsOnlyIfAllowed
<1>1. IInv => RunsOnlyIfAllowed
  BY DEF IInv
<1> QED
  BY <1>1, SpecIInv, PTL

\* A denial for good holds for every later call of the tool, in any agent, until
\* the user says yes.
THEOREM DenialsStand == Spec => []DenialStands
<1>1. IInv => DenialStands
  BY DEF IInv
<1> QED
  BY <1>1, SpecIInv, PTL

-----------------------------------------------------------------------------
(***************************************************************************)
(* Every request of a turn that is recorded and was not cancelled has one  *)
(* response.                                                               *)
(*                                                                         *)
(* Who owes a request its response changes hands: the user while it is     *)
(* asked about, its stream from then on.  The invariant follows the        *)
(* request through these hands; outside of them it has been answered.      *)
(***************************************************************************)

\* The user is asked about the request, or will be.
Asked(a, r) == r \in to_ask[a] \/ r = asking[a]

\* Not the exception that AnsweredOnce makes.
Plain(r) == ~({"denied", "needs_approval"} \subseteq lists[r])

\* The turn is still on when it looks for the response of the request.
Left(r) ==
    \E a \in Agents :
        pc[a] # "idle" /\ r \in batch[a] /\ stream[r] = "none" /\ ~Asked(a, r)

\* As many responses as are due.
Counted(r) ==
    /\ stream[r] \in {"queued", "running"} => Len(answers[r]) = 0
    /\ stream[r] = "done" => Len(answers[r]) = 1
    /\ (\E a \in Agents : Asked(a, r)) => Len(answers[r]) = 0
    /\ Left(r) => Len(answers[r]) = 1
    /\ r \in recorded \ cut => Len(answers[r]) = 1

\* A turn has its own requests, no stream of which is dropped while it is on,
\* and runs when nobody is left to be asked.
TurnInv ==
    \A a \in Agents :
        /\ pc[a] = "run" => to_ask[a] = {}
        /\ \A r \in batch[a] :
              AgentOf[r] = a /\ (pc[a] # "idle" => stream[r] # "dropped")

AnswerInv ==
    /\ TurnInv
    /\ \A r \in Requests : lists[r] = {} => Len(answers[r]) = 0
    /\ \A r \in Requests : Plain(r) => Counted(r)

-----------------------------------------------------------------------------
\* What is asked about has its request's agent, waits for an answer, and has
\* had none.
LEMMA AskedIsOpen ==
    ASSUME TypeOK, AskInv, NEW a \in Agents, NEW r \in Requests, Asked(a, r)
    PROVE  AgentOf[r] = a /\ stream[r] = "none" /\ "needs_approval" \in lists[r]
  BY DEF AskInv, AskedHasNoStream, Asked

\* A response is one more.
LEMMA OneMore ==
    ASSUME TypeOK, NEW r \in Requests,
           NEW s \in {"declined", "result", "skipped"},
           answers' = [answers EXCEPT ![r] = Append(@, s)]
    PROVE  /\ Len(answers'[r]) = Len(answers[r]) + 1
           /\ \A q \in Requests : q # r => answers'[q] = answers[q]
<1>1. answers[r] \in Seq({"declined", "result", "skipped"})
  BY DEF TypeOK
<1>2. answers'[r] = Append(answers[r], s)
  BY DEF TypeOK
<1> QED
  BY <1>1, <1>2 DEF TypeOK

\* Steps that only move an agent from one question to the next.
LEMMA AnswerQuiet ==
    ASSUME TypeOK, AskInv, AnswerInv,
           \/ UNCHANGED vars
           \/ \E a \in Agents : \/ Ask(a) \/ RunTools(a) \/ Confirm(a)
                                \/ ConfirmLate(a) \/ Cancel(a)
    PROVE  AnswerInv'
<1> DEFINE Kept == UNCHANGED <<batch, lists, stream, answers, recorded, cut>>
           SameAsked == \A a \in Agents : \A r \in Requests :
                           Asked(a, r)' <=> Asked(a, r)
           SamePlace == \A a \in Agents :
                           /\ pc'[a] = "idle" <=> pc[a] = "idle"
                           /\ pc'[a] = "run" => to_ask'[a] = {}
<1>1. ASSUME UNCHANGED vars
      PROVE  Kept /\ SameAsked /\ SamePlace
  BY <1>1 DEF vars, turnVars, approvalVars, runVars, historyVars, Asked,
              AnswerInv, TurnInv
<1>2. ASSUME NEW a \in Agents, Ask(a)
      PROVE  Kept /\ SameAsked /\ SamePlace
  <2>1. PICK r \in to_ask[a] :
           /\ asking' = [asking EXCEPT ![a] = r]
           /\ to_ask' = [to_ask EXCEPT ![a] = @ \ {r}]
    BY <1>2 DEF Ask
  <2>2. /\ Kept /\ pc[a] = "approve" /\ pc' = [pc EXCEPT ![a] = "ask"]
    BY <1>2 DEF Ask, runVars, historyVars
  <2>3. asking[a] \notin Requests
    BY <2>2 DEF AskInv, AskedInTurn
  <2>4. SameAsked
    BY <2>1, <2>3 DEF Asked, TypeOK
  <2>5. SamePlace
    BY <2>1, <2>2 DEF TypeOK, AnswerInv, TurnInv
  <2> QED
    BY <2>2, <2>4, <2>5
<1>3. ASSUME NEW a \in Agents, RunTools(a)
      PROVE  Kept /\ SameAsked /\ SamePlace
  BY <1>3 DEF RunTools, approvalVars, runVars, historyVars, Asked, TypeOK,
              AnswerInv, TurnInv
<1>4. ASSUME NEW a \in Agents, Confirm(a) \/ ConfirmLate(a) \/ Cancel(a)
      PROVE  Kept /\ SameAsked /\ SamePlace
  BY <1>4 DEF Confirm, ConfirmLate, Cancel, turnVars, approvalVars, runVars,
              historyVars, Asked, AnswerInv, TurnInv
<1>5. Kept /\ SameAsked /\ SamePlace
  BY <1>1, <1>2, <1>3, <1>4
<1>6. TurnInv'
  BY <1>5 DEF AnswerInv, TurnInv
<1>7. ASSUME NEW r \in Requests, Plain(r)'
      PROVE  Counted(r)'
  <2>1. Counted(r)
    BY <1>5, <1>7 DEF AnswerInv, Plain
  <2>2. Left(r)' => Left(r)
    BY <1>5 DEF Left
  <2>3. (\E a \in Agents : Asked(a, r)') => \E a \in Agents : Asked(a, r)
    BY <1>5
  <2> QED
    BY <1>5, <2>1, <2>2, <2>3 DEF Counted
<1> QED
  BY <1>5, <1>6, <1>7 DEF AnswerInv

\* In chat mode the requests are answered and recorded at once.
LEMMA AnswerChat ==
    ASSUME TypeOK, AskInv, AnswerInv, NEW a \in Agents, ChatTurn(a)
    PROVE  AnswerInv'
<1>1. PICK B \in SUBSET Fresh(a) :
         /\ lists' = [r \in Requests |-> IF r \in B THEN {"skipped"} ELSE lists[r]]
         /\ answers' = [r \in Requests |->
                           IF r \in B THEN <<"skipped">> ELSE answers[r]]
         /\ recorded' = recorded \cup B
  BY DEF ChatTurn
<1>2. UNCHANGED <<pc, batch, to_ask, asking, stream, cut>>
  BY DEF ChatTurn, approvalVars, runVars
<1>3. \A r \in B : r \in Requests /\ lists[r] = {} /\ stream[r] = "none"
  BY DEF Fresh, AskInv, FreshHasNoStream
<1>4. TurnInv'
  BY <1>2 DEF AnswerInv, TurnInv
<1>5. \A r \in Requests : lists'[r] = {} => Len(answers'[r]) = 0
  BY <1>1 DEF AnswerInv
<1>6. ASSUME NEW r \in Requests, Plain(r)'
      PROVE  Counted(r)'
  <2>1. CASE r \in B
    <3>1. Len(answers'[r]) = 1
      BY <1>1, <2>1
    <3>2. ~\E b \in Agents : Asked(b, r)'
      <4>1. ~\E b \in Agents : Asked(b, r)
        BY <1>3, <2>1, AskedIsOpen
      <4> QED
        BY <1>2, <4>1 DEF Asked
    <3>3. stream'[r] = "none"
      BY <1>2, <1>3, <2>1
    <3> QED
      BY <3>1, <3>2, <3>3 DEF Counted
  <2>2. CASE r \notin B
    <3>1. lists'[r] = lists[r] /\ answers'[r] = answers[r]
          /\ (r \in recorded' <=> r \in recorded)
      BY <1>1, <2>2
    <3>2. Counted(r)
      BY <1>6, <3>1 DEF AnswerInv, Plain
    <3>3. Left(r)' <=> Left(r)
      BY <1>2 DEF Left, Asked
    <3>4. (\E b \in Agents : Asked(b, r)') <=> \E b \in Agents : Asked(b, r)
      BY <1>2 DEF Asked
    <3> QED
      BY <1>2, <3>1, <3>2, <3>3, <3>4 DEF Counted
  <2> QED
    BY <2>1, <2>2
<1> QED
  BY <1>4, <1>5, <1>6 DEF AnswerInv

LEMMA DenialCount ==
    ASSUME NEW a, NEW l
    PROVE  /\ l = {"approved"} => Len(Denials(a, l)) = 0
           /\ l = {"denied"} => Len(Denials(a, l)) = 1
           /\ l = {"needs_approval"} =>
                 Len(Denials(a, l)) = IF Unattended(a) THEN 1 ELSE 0
<1>1. /\ Len(<<>> \o <<>>) = 0 /\ Len(<<"declined">> \o <<>>) = 1
      /\ Len(<<>> \o <<"declined">>) = 1
  OBVIOUS
<1>2. l = {"approved"} => Len(Denials(a, l)) = 0
  BY <1>1 DEF Denials
<1>3. l = {"denied"} => Len(Denials(a, l)) = 1
  BY <1>1 DEF Denials
<1>4. l = {"needs_approval"} =>
         Len(Denials(a, l)) = IF Unattended(a) THEN 1 ELSE 0
  BY <1>1 DEF Denials
<1> QED
  BY <1>2, <1>3, <1>4

\* A turn begins: a request is dispatched, answered, or to be asked about.
LEMMA AnswerStart ==
    ASSUME TypeOK, AskInv, AnswerInv, NEW a \in Agents, StartTurn(a)
    PROVE  AnswerInv'
<1>1. PICK B, l : StartedWith(a, B, l)
  BY StartEffect
<1>2. /\ UNCHANGED <<asking, recorded, cut>>
      /\ pc[a] = "idle" /\ pc' = [pc EXCEPT ![a] = "approve"]
  BY DEF StartTurn, approvalVars
<1>3. /\ B \subseteq Requests
      /\ \A r \in B : AgentOf[r] = a /\ lists[r] = {} /\ l[r] \in Outcomes(r)
  BY <1>1 DEF StartedWith
<1>4. \A r \in B : stream[r] = "none" /\ Len(answers[r]) = 0
  BY <1>3 DEF AskInv, FreshHasNoStream, AnswerInv
<1>5. \A r \in B : l[r] \in {{"approved"}, {"denied"}, {"needs_approval"},
                             {"denied", "needs_approval"}}
  BY <1>3, OutcomeShape
<1>6. \A b \in Agents : /\ batch'[b] = IF b = a THEN B ELSE batch[b]
                        /\ pc'[b] = IF b = a THEN "approve" ELSE pc[b]
                        /\ to_ask'[b] = IF b # a THEN to_ask[b]
                             ELSE IF Unattended(a) THEN {}
                             ELSE {r \in B : "needs_approval" \in l[r]}
  BY <1>1, <1>2 DEF StartedWith, TypeOK
<1>7. asking[a] \notin Requests
  BY <1>2 DEF AskInv, AskedInTurn
<1>8. \A r \in Requests :
         /\ lists'[r] = IF r \in B THEN l[r] ELSE lists[r]
         /\ stream'[r] = IF r \in B /\ "approved" \in l[r]
                         THEN "queued" ELSE stream[r]
         /\ answers'[r] = IF r \in B THEN Denials(a, l[r]) ELSE answers[r]
  BY <1>1 DEF StartedWith
<1>9. TurnInv'
  <2>1. ASSUME NEW b \in Agents, pc'[b] = "run"
        PROVE  to_ask'[b] = {}
    BY <1>6, <2>1 DEF AnswerInv, TurnInv
  <2>2. ASSUME NEW b \in Agents, NEW r \in batch'[b]
        PROVE  AgentOf[r] = b /\ (pc'[b] # "idle" => stream'[r] # "dropped")
    <3>1. CASE b = a
      BY <1>3, <1>4, <1>6, <1>8, <2>2, <3>1
    <3>2. CASE b # a
      <4>1. r \in batch[b] /\ r \in Requests /\ pc'[b] = pc[b]
        BY <1>6, <2>2, <3>2 DEF TypeOK
      <4>2. AgentOf[r] = b /\ (pc[b] # "idle" => stream[r] # "dropped")
        BY <4>1 DEF AnswerInv, TurnInv
      <4> QED
        BY <1>8, <4>1, <4>2
    <3> QED
      BY <3>1, <3>2
  <2> QED
    BY <2>1, <2>2 DEF TurnInv
<1>10. \A r \in Requests : lists'[r] = {} => Len(answers'[r]) = 0
  BY <1>5, <1>8 DEF AnswerInv
<1>11. ASSUME NEW r \in Requests, Plain(r)'
       PROVE  Counted(r)'
  <2>1. CASE r \in B
    <3>1. l[r] \in {{"approved"}, {"denied"}, {"needs_approval"}}
      BY <1>5, <1>8, <1>11, <2>1 DEF Plain
    <3>2. r \notin recorded' \ cut'
      <4>1. Plain(r)
        BY <1>3, <2>1 DEF Plain
      <4>2. Counted(r) /\ Len(answers[r]) = 0
        BY <1>4, <2>1, <4>1 DEF AnswerInv
      <4> QED
        BY <1>2, <4>2 DEF Counted
    <3>3. \A b \in Agents : Asked(b, r)' <=>
             b = a /\ ~Unattended(a) /\ "needs_approval" \in l[r]
      <4>1. \A b \in Agents : ~Asked(b, r)
        BY <1>3, <2>1, AskedIsOpen
      <4> QED
        BY <1>2, <1>6, <2>1, <4>1 DEF Asked
    <3>4. /\ stream'[r] = IF "approved" \in l[r] THEN "queued" ELSE "none"
          /\ Len(answers'[r]) = Len(Denials(a, l[r]))
      BY <1>4, <1>8, <2>1
    <3>5. CASE l[r] = {"approved"}
      <4>1. stream'[r] = "queued" /\ Len(answers'[r]) = 0
        BY <3>4, <3>5, DenialCount
      <4> QED
        BY <3>2, <3>3, <4>1 DEF Counted, Left
    <3>6. CASE l[r] = {"denied"}
      <4>1. stream'[r] = "none" /\ Len(answers'[r]) = 1
        BY <3>4, <3>6, DenialCount
      <4>2. \A b \in Agents : ~Asked(b, r)'
        BY <3>3, <3>6
      <4> QED
        BY <3>2, <4>1, <4>2 DEF Counted
    <3>7. CASE l[r] = {"needs_approval"}
      <4>1. stream'[r] = "none"
            /\ Len(answers'[r]) = IF Unattended(a) THEN 1 ELSE 0
        BY <3>4, <3>7, DenialCount
      <4>2. CASE Unattended(a)
        <5>1. \A b \in Agents : ~Asked(b, r)'
          BY <3>3, <4>2
        <5> QED
          BY <3>2, <4>1, <4>2, <5>1 DEF Counted
      <4>3. CASE ~Unattended(a)
        <5>1. ~Left(r)'
          <6>1. \A b \in Agents : b # a => r \notin batch'[b]
            BY <1>3, <1>9, <2>1 DEF TurnInv
          <6>2. Asked(a, r)'
            BY <3>3, <3>7, <4>3
          <6> QED
            BY <6>1, <6>2 DEF Left
        <5> QED
          BY <3>2, <4>1, <4>3, <5>1 DEF Counted
      <4> QED
        BY <4>2, <4>3
    <3> QED
      BY <3>1, <3>5, <3>6, <3>7
  <2>2. CASE r \notin B
    <3>1. lists'[r] = lists[r] /\ stream'[r] = stream[r] /\ answers'[r] = answers[r]
      BY <1>8, <2>2
    <3>2. Counted(r)
      BY <1>11, <3>1 DEF AnswerInv, Plain
    <3>3. ASSUME NEW b \in Agents
          PROVE  /\ Asked(b, r)' => Asked(b, r)
                 /\ b # a => (Asked(b, r)' <=> Asked(b, r))
      BY <1>2, <1>6, <2>2 DEF Asked
    <3>4. Left(r)' => Left(r)
      BY <1>6, <2>2, <3>1, <3>3 DEF Left
    <3> QED
      BY <1>2, <3>1, <3>2, <3>3, <3>4 DEF Counted
  <2> QED
    BY <2>1, <2>2
<1> QED
  BY <1>9, <1>10, <1>11 DEF AnswerInv

\* The answer of the user hands the request to its stream, or declines it.
LEMMA AnswerDecide ==
    ASSUME TypeOK, AskInv, AnswerInv, NEW a \in Agents, Decide(a)
    PROVE  AnswerInv'
<1>0. PICK q : q = asking[a]
  OBVIOUS
<1>1. /\ UNCHANGED <<batch, lists, to_ask, recorded, cut>>
      /\ asking' = [asking EXCEPT ![a] = NoRequest]
      /\ pc[a] = "ask" /\ pc' = [pc EXCEPT ![a] = "approve"]
      /\ \/ /\ stream' = [stream EXCEPT ![q] = "queued"]
            /\ answers' = answers
         \/ /\ stream' = stream
            /\ answers' = [answers EXCEPT ![q] = Append(@, "declined")]
  BY <1>0 DEF Decide
<1>2. q \in Requests /\ Asked(a, q)
  BY <1>0 DEF Decide, AskInv, HeardIsSaid, Asked
<1>3. AgentOf[q] = a /\ stream[q] = "none" /\ "needs_approval" \in lists[q]
  BY <1>2, AskedIsOpen
<1>4. \/ /\ stream'[q] = "queued"
         /\ Len(answers'[q]) = Len(answers[q])
      \/ /\ stream'[q] = "none"
         /\ Len(answers'[q]) = Len(answers[q]) + 1
  BY <1>1, <1>2, <1>3, OneMore DEF TypeOK
<1>5. \A r \in Requests : r # q => stream'[r] = stream[r] /\ answers'[r] = answers[r]
  BY <1>1 DEF TypeOK
<1>6. \A b \in Agents : ~Asked(b, q)'
  <2>1. \A b \in Agents : b # a => ~Asked(b, q)
    BY <1>2, <1>3, AskedIsOpen
  <2>2. q \notin to_ask[a] /\ NoRequest # q
    BY <1>0, <1>2, ToolAssumption DEF AskInv, AskedOnce
  <2> QED
    BY <1>0, <1>1, <2>1, <2>2 DEF Asked, TypeOK
<1>7. TurnInv'
  <2>1. \A r \in Requests : stream'[r] = "dropped" => stream[r] = "dropped"
    BY <1>4, <1>5
  <2> QED
    BY <1>1, <2>1 DEF AnswerInv, TurnInv, TypeOK
<1>8. \A r \in Requests : lists'[r] = {} => Len(answers'[r]) = 0
  BY <1>1, <1>3, <1>5 DEF AnswerInv
<1>9. ASSUME NEW r \in Requests, Plain(r)'
      PROVE  Counted(r)'
  <2>1. Counted(r)
    BY <1>1, <1>9 DEF AnswerInv, Plain
  <2>2. CASE r = q
    <3>1. Counted(q)
      BY <2>1, <2>2
    <3>2. Len(answers[q]) = 0
      BY <1>2, <3>1 DEF Counted
    <3>3. q \notin recorded \ cut
      BY <3>1, <3>2 DEF Counted
    <3>4. stream'[q] = "queued" => ~Left(q)'
      BY DEF Left
    <3> QED
      BY <1>1, <1>4, <1>6, <2>2, <3>2, <3>3, <3>4 DEF Counted
  <2>3. CASE r # q
    <3>1. \A b \in Agents : Asked(b, r)' => Asked(b, r)
      BY <1>0, <1>1, <2>3, ToolAssumption DEF Asked, TypeOK
    <3>2. \A b \in Agents : Asked(b, r) => Asked(b, r)'
      BY <1>0, <1>1, <2>3 DEF Asked, TypeOK
    <3>3. Left(r)' => Left(r)
      BY <1>1, <1>5, <2>3, <3>2 DEF Left, TypeOK
    <3> QED
      BY <1>1, <1>5, <2>1, <2>3, <3>1, <3>3 DEF Counted
  <2> QED
    BY <2>2, <2>3
<1> QED
  BY <1>7, <1>8, <1>9 DEF AnswerInv

\* A stream that begins, or returns its result.
LEMMA AnswerRun ==
    ASSUME TypeOK, AskInv, AnswerInv, NEW q \in Requests, Acquire(q) \/ Return(q)
    PROVE  AnswerInv'
<1>1. UNCHANGED <<batch, lists, pc, to_ask, asking, recorded, cut>>
  BY DEF Acquire, Return, turnVars, approvalVars, historyVars
<1>2. /\ stream[q] \in {"queued", "running"}
      /\ \/ stream'[q] = "running" /\ answers'[q] = answers[q]
         \/ stream'[q] = "done" /\ Len(answers'[q]) = Len(answers[q]) + 1
      /\ \A r \in Requests : r # q => stream'[r] = stream[r]
                                     /\ answers'[r] = answers[r]
  <2>1. CASE Acquire(q)
    BY <2>1 DEF Acquire, TypeOK
  <2>2. CASE Return(q)
    BY <2>2, OneMore DEF Return, TypeOK
  <2> QED
    BY <2>1, <2>2
<1>3. \A a \in Agents : ~Asked(a, q)
  BY <1>2, AskedIsOpen
<1>4. \A a \in Agents : \A r : Asked(a, r)' <=> Asked(a, r)
  BY <1>1 DEF Asked
<1>5. TurnInv'
  <2>1. \A r \in Requests : stream'[r] = "dropped" => stream[r] = "dropped"
    BY <1>2
  <2> QED
    BY <1>1, <2>1 DEF AnswerInv, TurnInv, TypeOK
<1>6. \A r \in Requests : lists'[r] = {} => Len(answers'[r]) = 0
  BY <1>1, <1>2 DEF AnswerInv, AskInv, FreshHasNoStream
<1>7. ASSUME NEW r \in Requests, Plain(r)'
      PROVE  Counted(r)'
  <2>1. Counted(r)
    BY <1>1, <1>7 DEF AnswerInv, Plain
  <2>2. CASE r = q
    <3>1. Len(answers[q]) = 0
      BY <1>2, <2>1, <2>2 DEF Counted
    <3>2. q \notin recorded \ cut
      BY <2>1, <2>2, <3>1 DEF Counted
    <3>3. ~Left(q)'
      BY <1>2 DEF Left
    <3>4. ~\E a \in Agents : Asked(a, q)'
      BY <1>3, <1>4
    <3> QED
      BY <1>1, <1>2, <2>2, <3>1, <3>2, <3>3, <3>4 DEF Counted
  <2>3. CASE r # q
    <3>1. Left(r)' => Left(r)
      BY <1>1, <1>2, <1>4, <2>3 DEF Left
    <3>2. (\E a \in Agents : Asked(a, r)') => \E a \in Agents : Asked(a, r)
      BY <1>4
    <3> QED
      BY <1>1, <1>2, <2>1, <2>3, <3>1, <3>2 DEF Counted
  <2> QED
    BY <2>2, <2>3
<1> QED
  BY <1>5, <1>6, <1>7 DEF AnswerInv

\* Streams are only dropped with the turn they belong to.
LEMMA DroppedAreGone ==
    ASSUME TypeOK, AnswerInv, NEW S \in SUBSET Requests,
           NEW A \in SUBSET Agents, Stop(A \cup Subagents(S)),
           \A r \in S : AgentOf[r] \in A
    PROVE  \A a \in Agents :
              /\ pc'[a] # "idle" => pc'[a] = pc[a] /\ a \notin A
              /\ pc'[a] # "idle" => \A r \in batch[a] : r \notin Below(S)
<1>1. \A a \in Agents : pc'[a] # "idle" =>
         pc'[a] = pc[a] /\ a \notin A /\ a \notin Subagents(S)
  BY DEF Stop
<1>2. \A a \in Agents : \A r \in batch[a] : AgentOf[r] = a
  BY DEF AnswerInv, TurnInv
<1>3. Subagents(S) \subseteq Agents
  BY DroppedTypes
<1>4. \A r \in Below(S) : AgentOf[r] \in A \cup Subagents(S)
  BY <1>2, <1>3 DEF Below
<1> QED
  BY <1>1, <1>2, <1>4

\* A call that takes too long has its error for a result.
LEMMA AnswerTimeOut ==
    ASSUME TypeOK, AskInv, AnswerInv, NEW q \in Requests, TimeOut(q)
    PROVE  AnswerInv'
<1>1. /\ stream[q] = "running"
      /\ stream' = [DropStreams({q}) EXCEPT ![q] = "done"]
      /\ answers' = [answers EXCEPT ![q] = Append(@, "result")]
      /\ Stop(Subagents({q}))
      /\ UNCHANGED <<batch, lists, to_ask, asking, recorded, cut>>
  BY DEF TimeOut, config, approvalVars, historyVars
<1>2. /\ stream'[q] = "done" /\ Len(answers'[q]) = Len(answers[q]) + 1
      /\ \A r \in Requests : r # q =>
            /\ stream'[r] \in {stream[r], "dropped"}
            /\ r \notin Below({q}) => stream'[r] = stream[r]
            /\ answers'[r] = answers[r]
  BY <1>1, OneMore DEF DropStreams
<1>3. \A a \in Agents : ~Asked(a, q)
  BY <1>1, AskedIsOpen
<1>4. \A a \in Agents : \A r : Asked(a, r)' <=> Asked(a, r)
  BY <1>1 DEF Asked
<1>5. \A a \in Agents : pc'[a] # "idle" =>
         pc'[a] = pc[a] /\ \A r \in batch[a] : r \notin Below({q}) \/ r = q
  <2>1. \A a \in Agents : pc'[a] # "idle" =>
           pc'[a] = pc[a] /\ a \notin Subagents({q})
    BY <1>1 DEF Stop
  <2>2. \A a \in Agents : \A r \in batch[a] : AgentOf[r] = a
    BY DEF AnswerInv, TurnInv
  <2>3. Subagents({q}) \subseteq Agents
    BY DroppedTypes
  <2>4. \A r \in Below({q}) : r = q \/ AgentOf[r] \in Subagents({q})
    BY <2>2, <2>3 DEF Below
  <2> QED
    BY <2>1, <2>2, <2>4
<1>6. TurnInv'
  <2>1. ASSUME NEW a \in Agents
        PROVE  /\ pc'[a] = "run" => to_ask'[a] = {}
               /\ \A r \in batch'[a] :
                     AgentOf[r] = a /\ (pc'[a] # "idle" => stream'[r] # "dropped")
    <3>1. pc'[a] = "run" => to_ask'[a] = {}
      BY <1>1, <1>5 DEF AnswerInv, TurnInv
    <3>2. ASSUME NEW r \in batch[a]
          PROVE  AgentOf[r] = a /\ (pc'[a] # "idle" => stream'[r] # "dropped")
      <4>1. r \in Requests
        BY DEF TypeOK
      <4>2. AgentOf[r] = a /\ (pc[a] # "idle" => stream[r] # "dropped")
        BY DEF AnswerInv, TurnInv
      <4> QED
        BY <1>2, <1>5, <4>1, <4>2
    <3> QED
      BY <1>1, <3>1, <3>2
  <2> QED
    BY <2>1 DEF TurnInv
<1>7. \A r \in Requests : lists'[r] = {} => Len(answers'[r]) = 0
  BY <1>1, <1>2 DEF AnswerInv, AskInv, FreshHasNoStream
<1>8. ASSUME NEW r \in Requests, Plain(r)'
      PROVE  Counted(r)'
  <2>1. Counted(r)
    BY <1>1, <1>8 DEF AnswerInv, Plain
  <2>2. CASE r = q
    <3>1. Len(answers[q]) = 0
      BY <1>1, <2>1, <2>2 DEF Counted
    <3>2. q \notin recorded \ cut
      BY <2>1, <2>2, <3>1 DEF Counted
    <3>3. ~Left(q)'
      BY <1>2 DEF Left
    <3>4. ~\E a \in Agents : Asked(a, q)'
      BY <1>3, <1>4
    <3> QED
      BY <1>1, <1>2, <2>2, <3>1, <3>2, <3>3, <3>4 DEF Counted
  <2>3. CASE r # q
    <3>0. stream'[r] \in {stream[r], "dropped"} /\ answers'[r] = answers[r]
      BY <1>2, <2>3
    <3>1. Left(r)' => Left(r)
      BY <1>1, <1>4, <1>5, <3>0 DEF Left
    <3>2. (\E a \in Agents : Asked(a, r)') => \E a \in Agents : Asked(a, r)
      BY <1>4
    <3> QED
      BY <1>1, <2>1, <3>0, <3>1, <3>2 DEF Counted
  <2> QED
    BY <2>2, <2>3
<1> QED
  BY <1>6, <1>7, <1>8 DEF AnswerInv

\* A turn that ends of itself leaves no request of its batch without response:
\* nobody is to be asked, and no stream is left to wait for.
LEMMA AllAnswered ==
    ASSUME TypeOK, AskInv, AnswerInv, NEW a \in Agents,
           pc[a] = "run", Finished(a), NEW r \in batch[a], Plain(r)
    PROVE  Len(answers[r]) = 1
<1>1. r \in Requests /\ Counted(r)
  BY DEF TypeOK, AnswerInv
<1>2. stream[r] \in {"none", "done"}
  BY <1>1 DEF Finished, AnswerInv, TurnInv, TypeOK
<1>3. ~Asked(a, r)
  BY <1>1 DEF AnswerInv, TurnInv, AskInv, AskedInTurn, Asked
<1>4. stream[r] = "none" => Left(r)
  BY <1>3 DEF Left
<1> QED
  BY <1>1, <1>2, <1>4 DEF Counted

\* A turn ends, or its reply is dropped.
LEMMA AnswerEnd ==
    ASSUME TypeOK, AskInv, AnswerInv, NEW a \in Agents, EndTurn(a) \/ DropReply(a)
    PROVE  AnswerInv'
<1>1. /\ stream' = DropStreams(batch[a])
      /\ Stop({a} \cup Subagents(batch[a]))
      /\ UNCHANGED <<batch, lists, answers>>
  BY DEF EndTurn, DropReply
<1>2. \A b \in Agents :
         /\ pc'[b] # "idle" => pc'[b] = pc[b] /\ b # a
         /\ pc'[b] # "idle" => \A r \in batch[b] : r \notin Below(batch[a])
  <2>1. /\ batch[a] \in SUBSET Requests
        /\ \A r \in batch[a] : AgentOf[r] \in {a}
    BY DEF TypeOK, AnswerInv, TurnInv
  <2>2. {a} \in SUBSET Agents
    OBVIOUS
  <2>3. \A b \in Agents :
           /\ pc'[b] # "idle" => pc'[b] = pc[b] /\ b \notin {a}
           /\ pc'[b] # "idle" => \A r \in batch[b] : r \notin Below(batch[a])
    BY <1>1, <2>1, <2>2, DroppedAreGone
  <2> QED
    BY <2>3
<1>3. \A r \in Requests : /\ stream'[r] \in {stream[r], "dropped"}
                          /\ r \notin Below(batch[a]) => stream'[r] = stream[r]
  BY <1>1 DEF DropStreams
<1>4. \A b \in Agents : /\ to_ask'[b] \subseteq to_ask[b]
                        /\ asking'[b] \in {asking[b], NoRequest}
                        /\ b # a => to_ask'[b] = to_ask[b] /\ asking'[b] = asking[b]
  <2>1. CASE EndTurn(a)
    BY <2>1 DEF EndTurn, approvalVars
  <2>2. CASE DropReply(a)
    BY <2>2 DEF DropReply, TypeOK
  <2> QED
    BY <2>1, <2>2
<1>5. \A b \in Agents : \A r \in Requests :
         /\ Asked(b, r)' => Asked(b, r)
         /\ b # a => (Asked(b, r)' <=> Asked(b, r))
  BY <1>4, ToolAssumption DEF Asked
<1>6. ASSUME NEW r \in recorded' \ cut', r \notin recorded \ cut
      PROVE  pc[a] = "run" /\ Finished(a) /\ r \in batch[a]
  <2>1. CASE EndTurn(a)
    BY <1>6, <2>1 DEF EndTurn
  <2>2. CASE DropReply(a)
    BY <1>6, <2>2 DEF DropReply, historyVars
  <2> QED
    BY <2>1, <2>2
<1>7. TurnInv'
  <2>1. ASSUME NEW b \in Agents
        PROVE  /\ pc'[b] = "run" => to_ask'[b] = {}
               /\ \A r \in batch'[b] :
                     AgentOf[r] = b /\ (pc'[b] # "idle" => stream'[r] # "dropped")
    <3>1. pc'[b] = "run" => to_ask'[b] = {}
      BY <1>2, <1>4 DEF AnswerInv, TurnInv
    <3>2. ASSUME NEW r \in batch[b]
          PROVE  AgentOf[r] = b /\ (pc'[b] # "idle" => stream'[r] # "dropped")
      <4>1. r \in Requests
        BY DEF TypeOK
      <4>2. AgentOf[r] = b /\ (pc[b] # "idle" => stream[r] # "dropped")
        BY DEF AnswerInv, TurnInv
      <4> QED
        BY <1>2, <1>3, <4>1, <4>2
    <3> QED
      BY <1>1, <3>1, <3>2
  <2> QED
    BY <2>1 DEF TurnInv
<1>8. \A r \in Requests : lists'[r] = {} => Len(answers'[r]) = 0
  BY <1>1 DEF AnswerInv
<1>9. ASSUME NEW r \in Requests, Plain(r)'
      PROVE  Counted(r)'
  <2>1. Plain(r) /\ Counted(r) /\ answers'[r] = answers[r]
    BY <1>1, <1>9 DEF AnswerInv, Plain
  <2>2. Left(r)' => Left(r)
    BY <1>1, <1>2, <1>3, <1>5 DEF Left
  <2>3. (\E b \in Agents : Asked(b, r)') => \E b \in Agents : Asked(b, r)
    BY <1>5
  <2>4. r \in recorded' \ cut' => Len(answers[r]) = 1
    <3>1. CASE r \in recorded \ cut
      BY <2>1, <3>1 DEF Counted
    <3>2. CASE r \in (recorded' \ cut') \ (recorded \ cut)
      BY <1>6, <2>1, <3>2, AllAnswered
    <3> QED
      BY <3>1, <3>2
  <2>5. stream'[r] \in {stream[r], "dropped"}
    BY <1>3
  <2> QED
    BY <2>1, <2>2, <2>3, <2>4, <2>5 DEF Counted
<1> QED
  BY <1>7, <1>8, <1>9 DEF AnswerInv

-----------------------------------------------------------------------------
LEMMA InitAnswers == Init => AnswerInv
<1> SUFFICES ASSUME Init
             PROVE  AnswerInv
  OBVIOUS
<1>1. \A r \in Requests : stream[r] = "none" /\ Len(answers[r]) = 0
  BY DEF Init
<1>2. recorded = {} /\ \A a \in Agents : pc[a] = "idle" /\ batch[a] = {}
  BY DEF Init
<1>3. TurnInv
  BY <1>2 DEF TurnInv
<1>4. \A r \in Requests : Counted(r)
  BY <1>1, <1>2 DEF Counted, Left
<1> QED
  BY <1>1, <1>3, <1>4 DEF AnswerInv

LEMMA AnswerStep ==
    ASSUME TypeOK, AskInv, AnswerInv, [Next]_vars
    PROVE  AnswerInv'
<1>1. CASE UNCHANGED vars
  BY <1>1, AnswerQuiet
<1>2. ASSUME NEW a \in Agents,
             Ask(a) \/ RunTools(a) \/ Confirm(a) \/ ConfirmLate(a) \/ Cancel(a)
      PROVE  AnswerInv'
  BY <1>2, AnswerQuiet
<1> QED
  BY <1>1, <1>2, StepCases, AnswerChat, AnswerStart, AnswerDecide, AnswerRun,
     AnswerTimeOut, AnswerEnd DEF QuietStep

\* Each request of a recorded turn that was not cancelled has exactly one
\* response, whether it ran, timed out, was denied or was declined: but for one
\* that was both denied and asked about (agents/agent.rs).
THEOREM AnsweredExactlyOnce == Spec => []AnsweredOnce
<1>1. IInv => TypeOK /\ AskInv
  BY DEF IInv
<1>2. TypeOK /\ AnswerInv => AnsweredOnce
  BY DEF TypeOK, AnswerInv, AnsweredOnce, Plain, Counted
<1>3. IInv /\ AnswerInv /\ [Next]_vars => AnswerInv'
  BY <1>1, AnswerStep
<1> QED
  BY <1>1, <1>2, <1>3, InitAnswers, SpecIInv, PTL DEF Spec
=============================================================================
