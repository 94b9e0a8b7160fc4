---------------------------- MODULE Conversation ----------------------------
(***************************************************************************)
(* The list of messages of a session (conversation.rs): how pushed deltas  *)
(* are put together, how fix_conversation repairs what is about to be sent *)
(* to a provider, and how the context of a turn is put in (moim.rs).       *)
(*                                                                         *)
(* A text is how many words it has and whether white space ends it.  Users *)
(* and providers push whatever single deltas Deltas allows, in any order:  *)
(* what cancellations, failures, edits and imports leave in a session is   *)
(* among it.                                                               *)
(***************************************************************************)
EXTENDS Naturals, FiniteSets, SequencesExt

CONSTANTS
    Ids,            \* of tool calls
    Deltas,         \* what may be pushed, but for thinking: role, visible, item
    MaxPushes,      \* bound: deltas pushed
    MaxBlocks       \* bound: blocks of thinking

\* The items of a message.
Texts     == [kind : {"text"}, words : Nat, space : BOOLEAN]
Thoughts  == [kind : {"thinking"}, of : SUBSET Nat, signature : Nat]
Calls     == [kind : {"request", "confirmation", "frontend"}, id : Ids]
Responses == [kind : {"response"}, id : Ids, empty : BOOLEAN]
Items     == Texts \cup Thoughts \cup Calls \cup Responses

Roles == {"user", "assistant"}

Messages == [id : Nat, role : Roles, visible : BOOLEAN, content : Seq(Items)]

ASSUME ConversationAssumption ==
    /\ Deltas \subseteq [role : Roles, visible : BOOLEAN,
                         item : Texts \cup Calls \cup Responses]
    /\ MaxPushes \in Nat
    /\ MaxBlocks \in Nat

VARIABLES
    conversation,   \* messages: id, role, visible to the agent, content
    pushes,         \* deltas pushed, also the next message's id
    block,          \* the block of thinking the provider is in
    signed          \* whether it has sent that block's signature

vars == <<conversation, pushes, block, signed>>

Unsigned == 0

Text(words, space) == [kind |-> "text", words |-> words, space |-> space]
Thinking(b, sig) == [kind |-> "thinking", of |-> {b}, signature |-> sig]
Item(kind, id) == [kind |-> kind, id |-> id]
Response(id, empty) == [kind |-> "response", id |-> id, empty |-> empty]

IsText(item) == item.kind = "text"
IsEmptyText(item) == IsText(item) /\ item.words = 0 /\ ~item.space

Concat(s, t) ==
    IF IsEmptyText(t) THEN s ELSE Text(s.words + t.words, t.space)

Map(Op(_), seq) == [i \in DOMAIN seq |-> Op(seq[i])]

\* The elements of seq that are among S, in their order.
Among(seq, S) ==
    LET Add(kept, x) == IF x \in S THEN Append(kept, x) ELSE kept
    IN  FoldLeft(Add, <<>>, seq)

-----------------------------------------------------------------------------
(***************************************************************************)
(* Conversation::push.                                                     *)
(***************************************************************************)

\* Mutant of SameBlock: thinking always goes on.
AnyBlock(last, new) == TRUE

\* The last block is not signed yet, or the delta has the same signature.
SameBlock(last, new) == last.signature \in {Unsigned, new.signature}

Continues(last, new) ==
    \/ IsText(last) /\ IsText(new)
    \/ /\ last.kind = "thinking"
       /\ new.kind = "thinking"
       /\ SameBlock(last, new)

Continued(last, new) ==
    IF IsText(last) THEN Concat(last, new)
    ELSE [last EXCEPT !.of = @ \cup new.of,
                      !.signature = IF new.signature = Unsigned THEN @
                                                            ELSE new.signature]

\* A message with the id of the last one is a part of it.  (One without an id
\* is like one with an id of its own.)
Push(c, m) ==
    IF c = <<>> \/ Last(c).id # m.id THEN Append(c, m)
    ELSE LET old == Last(c).content
         IN  [c EXCEPT ![Len(c)].content =
                IF Len(m.content) = 1 /\ old # <<>>
                      /\ Continues(Last(old), m.content[1])
                THEN Append(Front(old), Continued(Last(old), m.content[1]))
                ELSE old \o m.content]

-----------------------------------------------------------------------------
(***************************************************************************)
(* fix_messages, pass by pass.                                             *)
(***************************************************************************)

AddItem(content, item) ==
    IF content # <<>> /\ IsText(item) /\ IsText(Last(content))
    THEN Append(Front(content), Concat(Last(content), item))
    ELSE Append(content, item)

MergeTextContentInMessage(m) ==
    IF m.role = "user" THEN m
    ELSE [m EXCEPT !.content = FoldLeft(AddItem, <<>>, @)]

Trimmed(item) == IF IsText(item) THEN [item EXCEPT !.space = FALSE] ELSE item

TrimAssistantText(m) ==
    IF m.role = "user" THEN m ELSE [m EXCEPT !.content = Map(Trimmed, @)]

HasContent(m) == \E i \in DOMAIN m.content : ~IsEmptyText(m.content[i])

RemoveEmptyMessages(ms) == Among(ms, {m \in ToSet(ms) : HasContent(m)})

Filled(item) ==
    IF item.kind = "response" THEN [item EXCEPT !.empty = FALSE] ELSE item

FixEmptyToolResults(m) == [m EXCEPT !.content = Map(Filled, @)]

\* Mutant of StillPending: an answered request stays pending.
NeverAnswered(pending, id) == pending

StillPending(pending, id) == pending \ {id}

\* What each role may not say, but for responses, which depend on the past.
Misplaced(role) ==
    IF role = "user" THEN {"request", "confirmation", "thinking"}
    ELSE {"response", "frontend"}

\* The first sweep, for one item: is it kept, and what is pending after it?
Sweep(acc, role, item) ==
    IF item.kind \in Misplaced(role) THEN acc
    ELSE IF item.kind = "response"
         THEN IF item.id \in acc.pending
              THEN [content |-> Append(acc.content, item),
                    pending |-> StillPending(acc.pending, item.id)]
              ELSE acc
    ELSE [content |-> Append(acc.content, item),
          pending |-> IF item.kind = "request" THEN acc.pending \cup {item.id}
                                               ELSE acc.pending]

SweepContent(role, pending, content) ==
    LET SweepItem(acc, item) == Sweep(acc, role, item)
    IN  FoldLeft(SweepItem, [content |-> <<>>, pending |-> pending], content)

SweepMessage(acc, m) ==
    LET swept == SweepContent(m.role, acc.pending, m.content)
    IN  [messages |-> Append(acc.messages, [m EXCEPT !.content = swept.content]),
         pending |-> swept.pending]

SweepMessages(ms) ==
    FoldLeft(SweepMessage, [messages |-> <<>>, pending |-> {}], ms)

\* Mutant of Swept: the first sweep only.
KeepOrphans(ms) == SweepMessages(ms).messages

\* The second sweep: a request that is pending in the end is removed.
DropPending(pending, m) ==
    LET IsKept(item) == ~(item.kind = "request" /\ item.id \in pending)
    IN  [m EXCEPT !.content = Among(@, {item \in ToSet(@) : IsKept(item)})]

\* Both sweeps.
Swept(ms) ==
    LET swept == SweepMessages(ms)
        Drop(m) == DropPending(swept.pending, m)
    IN  Map(Drop, swept.messages)

\* Mutant of FixToolCalling: messages that end up empty are kept.
KeepEmptied(ms) == Swept(ms)

FixToolCalling(ms) == RemoveEmptyMessages(Swept(ms))

EffectiveRole(m) ==
    IF m.role = "user" /\ \E i \in DOMAIN m.content : m.content[i].kind = "response"
    THEN "tool" ELSE m.role

AddMessage(merged, m) ==
    IF merged # <<>> /\ EffectiveRole(Last(merged)) = EffectiveRole(m)
    THEN [merged EXCEPT ![Len(merged)].content = @ \o m.content]
    ELSE Append(merged, m)

MergeConsecutiveMessages(ms) == FoldLeft(AddMessage, <<>>, ms)

\* fix_lead_trail.
RemoveLead(ms) ==
    IF ms # <<>> /\ Head(ms).role = "assistant" THEN Tail(ms) ELSE ms
RemoveTrail(ms) ==
    IF ms # <<>> /\ Last(ms).role = "assistant" THEN Front(ms) ELSE ms

Placeholder ==
    [id |-> 0, role |-> "user", visible |-> TRUE, content |-> <<Text(1, FALSE)>>]

PopulateIfEmpty(ms) == IF ms = <<>> THEN <<Placeholder>> ELSE ms

\* The passes in their order, each named for the issue it reports.
Passes == <<"merged text", "trimmed", "removed empty", "filled result",
            "removed calls", "merged messages", "removed lead",
            "removed trail", "placeholder">>

Pass(name, ms) ==
    CASE name = "merged text"     -> Map(MergeTextContentInMessage, ms)
      [] name = "trimmed"         -> Map(TrimAssistantText, ms)
      [] name = "removed empty"   -> RemoveEmptyMessages(ms)
      [] name = "filled result"   -> Map(FixEmptyToolResults, ms)
      [] name = "removed calls"   -> FixToolCalling(ms)
      [] name = "merged messages" -> MergeConsecutiveMessages(ms)
      [] name = "removed lead"    -> RemoveLead(ms)
      [] name = "removed trail"   -> RemoveTrail(ms)
      [] name = "placeholder"     -> PopulateIfEmpty(ms)

MergesTools(ms) ==
    \E i \in 1..(Len(ms) - 1) :
        EffectiveRole(ms[i]) = "tool" /\ EffectiveRole(ms[i + 1]) = "tool"

\* A pass reports an issue exactly if it changes something.
Issues(name, before, after) ==
    IF before = after THEN {}
    ELSE IF name = "merged messages" /\ MergesTools(before) THEN {"merged tools"}
    ELSE {name}

Fix(acc, name) ==
    LET after == Pass(name, acc.messages)
    IN  [messages |-> after,
         issues |-> acc.issues \cup Issues(name, acc.messages, after)]

FixMessages(ms) == FoldLeft(Fix, [messages |-> ms, issues |-> {}], Passes)

Visible(ms) == Among(ms, {m \in ToSet(ms) : m.visible})
Hidden(ms) == Among(ms, {m \in ToSet(ms) : ~m.visible})

\* The next message of the repaired conversation: a hidden one, or a fixed one
\* while there are any.
Put(fixed, acc, m) ==
    IF ~m.visible THEN [acc EXCEPT !.messages = Append(@, m)]
    ELSE [messages |-> IF acc.used < Len(fixed)
                       THEN Append(acc.messages, fixed[acc.used + 1])
                       ELSE acc.messages,
          used |-> acc.used + 1]

Refill(c, fixed) ==
    LET PutNext(acc, m) == Put(fixed, acc, m)
    IN  FoldLeft(PutNext, [messages |-> <<>>, used |-> 0], c).messages

FixConversation(c) ==
    LET fixed == FixMessages(Visible(c))
    IN  [messages |-> Refill(c, fixed.messages), issues |-> fixed.issues]

-----------------------------------------------------------------------------
\* The issues inject_moim takes to be harmless.
Expected == {"merged messages", "filled result", "trimmed", "removed trail",
             "merged text"}

\* inject_moim: the context goes before the latest user message, and what that
\* makes is repaired; if more than expected is repaired, nothing is done.
InjectMoim(c) ==
    LET users == {i \in DOMAIN c : c[i].visible /\ EffectiveRole(c[i]) = "user"}
        latest == CHOOSE i \in users : \A j \in users : j <= i
        fixed == FixConversation(
                    [c EXCEPT ![latest].content = <<Text(1, FALSE)>> \o @])
    IN  IF users # {} /\ fixed.issues \subseteq Expected THEN fixed.messages
                                                         ELSE c

-----------------------------------------------------------------------------
Init ==
    /\ conversation = <<>>
    /\ pushes = 0
    /\ block = 0
    /\ signed = TRUE

\* A delta goes on with the last message or begins a new one.
PushItem(role, visible, item) ==
    /\ pushes < MaxPushes
    /\ pushes' = pushes + 1
    /\ \E id \in {pushes + 1} \cup {conversation[i].id : i \in DOMAIN conversation} :
          /\ id <= pushes => /\ Last(conversation).id = id
                             /\ Last(conversation).role = role
                             /\ Last(conversation).visible = visible
          /\ conversation' = Push(conversation,
                [id |-> id, role |-> role, visible |-> visible,
                 content |-> <<item>>])

Say ==
    /\ \E d \in Deltas : PushItem(d.role, d.visible, d.item)
    /\ UNCHANGED <<block, signed>>

\* Providers that sign their thinking sign every block, with its last delta or
\* with all of them.
Think ==
    \E b \in {block, block + 1}, sig \in {Unsigned, block, block + 1} :
       /\ b \in 1..MaxBlocks
       /\ b = block => ~signed \/ sig # Unsigned
       /\ b = block + 1 => signed
       /\ sig \in {Unsigned, b}
       /\ PushItem("assistant", TRUE, Thinking(b, sig))
       /\ block' = b
       /\ signed' = (sig = b \/ (b = block /\ signed))

Next == Say \/ Think

Spec == Init /\ [][Next]_vars
-----------------------------------------------------------------------------
\* The signature of a block of thinking stands for that block's text: "otherwise
\* the closing signature later would replay text under the wrong signature"
\* (conversation.rs, tests), and the provider refuses the conversation.
SignatureFitsBlock ==
    \A i \in DOMAIN conversation : \A k \in DOMAIN conversation[i].content :
        LET item == conversation[i].content[k]
        IN  item.kind = "thinking" =>
               /\ Cardinality(item.of) = 1
               /\ item.signature # Unsigned => item.of = {item.signature}

Has(m, kind, id) ==
    \E k \in DOMAIN m.content : m.content[k].kind = kind /\ m.content[k].id = id

\* The request of an assistant, and the response of a later user message.
Answered(ms, id) ==
    \E i, j \in DOMAIN ms :
        /\ i < j
        /\ ms[i].role = "assistant" /\ Has(ms[i], "request", id)
        /\ ms[j].role = "user" /\ Has(ms[j], "response", id)

\* What providers accept: "the first and last messages should always be from
\* the user" (fix_conversation), roles alternate, every message says something,
\* no text of an assistant ends in white space, each tool request is answered
\* later and no answer is empty.  (An empty text may stay beside what says
\* something; the formats of the providers leave it out.)
Acceptable(ms) ==
    /\ ms # <<>>
    /\ Head(ms).role = "user" /\ Last(ms).role = "user"
    /\ \A i \in DOMAIN ms : HasContent(ms[i])
    /\ \A i \in 1..(Len(ms) - 1) : EffectiveRole(ms[i]) # EffectiveRole(ms[i + 1])
    /\ \A i \in DOMAIN ms : \A k \in DOMAIN ms[i].content :
          LET item == ms[i].content[k]
          IN  /\ IsText(item) /\ ms[i].role = "assistant" => ~item.space
              /\ item.kind = "request" => Answered(ms, item.id)
              /\ item.kind = "response" => ~item.empty

\* No "orphaned tool response" is left (fix_tool_calling): each one is a user's
\* and comes after an assistant's request.
ResponsesRequested(ms) ==
    \A j \in DOMAIN ms : \A k \in DOMAIN ms[j].content :
        LET item == ms[j].content[k]
        IN  item.kind = "response" =>
               /\ ms[j].role = "user"
               /\ \E i \in DOMAIN ms :
                     i < j /\ ms[i].role = "assistant" /\ Has(ms[i], "request", item.id)

\* No request is made twice.
RequestsDiffer(ms) ==
    \A i, j \in DOMAIN ms :
    \A k \in DOMAIN ms[i].content, l \in DOMAIN ms[j].content :
       /\ ms[i].content[k].kind = "request"
       /\ ms[i].content[k] = ms[j].content[l]
       => i = j /\ k = l

\* What fix_conversation can pair: requests differ, and no leading message of an
\* assistant was left for fix_lead_trail to remove, which it does after the
\* requests have been paired: the responses to that message stay behind.
Pairable(c, repaired) ==
    /\ RequestsDiffer(Visible(c))
    /\ "removed lead" \notin repaired.issues

\* Whatever has been pushed, the first call of a reply sends the provider what
\* it accepts: the repaired conversation, with the context of the turn or, if
\* putting that in disturbs too much, without.  A conversation that can be
\* paired is sent without orphaned responses.
ProviderAccepts ==
    Visible(conversation) # <<>> =>
        \A repaired \in {FixConversation(conversation)} :
        \A sent \in {repaired.messages, InjectMoim(repaired.messages)} :
            /\ Acceptable(Visible(sent))
            /\ Pairable(conversation, repaired) => ResponsesRequested(Visible(sent))

\* "Fixed conversation should have no issues" (conversation.rs, run_verify), but
\* for texts that became neighbours when messages were merged.
RepairSettles ==
    Visible(conversation) # <<>> =>
        \A repaired \in {FixConversation(conversation)} :
            Pairable(conversation, repaired) =>
                FixConversation(repaired.messages).issues \subseteq {"merged text"}

\* The conversation begins with what a user said, and requests differ.
WellBegun ==
    LET ms == Visible(conversation)
    IN  /\ ms # <<>>
        /\ Head(ms).role = "user"
        /\ \E k \in DOMAIN Head(ms).content :
              IsText(Head(ms).content[k]) /\ ~IsEmptyText(Head(ms).content[k])
        /\ RequestsDiffer(ms)

\* The words users said.
CountItem(n, item) == IF IsText(item) THEN n + item.words ELSE n
WordsIn(content) == FoldLeft(CountItem, 0, content)
CountMessage(n, m) == IF m.role = "user" THEN n + WordsIn(m.content) ELSE n
Words(ms) == FoldLeft(CountMessage, 0, ms)

\* The repair loses nothing it need not: what users said, each answered request
\* with its response, and the messages hidden from the agent, in their order.
RepairKeeps ==
    WellBegun =>
        \A fixed \in {FixConversation(conversation).messages} :
            LET before == Visible(conversation)
                after == Visible(fixed)
            IN  /\ Words(after) = Words(before)
                /\ \A id \in Ids : Answered(before, id) => Answered(after, id)
                /\ Hidden(fixed) = Hidden(conversation)
=============================================================================
