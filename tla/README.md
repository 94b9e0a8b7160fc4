# BharatCode CLI: TLA+ models and proofs

BharatCode is an AI agent in Rust: a core library that runs conversations
between a user, a language model and tools, a command line, and an HTTP server
(`bharatcoded`) that desktop and web clients talk to. This directory models the
parts of it in which concurrency, failure and ordering decide whether the
program is right, checks them with TLC on small instances, and proves the most
important properties with TLAPS for every value of the constants. Paths below
are relative to `src/crates/`.

Everything is run from this directory: `tlc -config X.cfg M` for a run,
`tlapm M.tla` for the proofs of a module. `PROJECT.json` lists the runs, the
source lines each definition stands for, a mutant of the code for every
property, the hazards and the theorems.

## 1. Inventory

| Component | Source | State | Operations | Modelled by |
|---|---|---|---|---|
| Session event bus, SSE stream | `bharatcode-server/src/session_event_bus.rs`, `routes/session_events.rs` | per session: next sequence number, replay buffer (512), broadcast channel (256); per connection: receiver, replay, duplicate limit | `publish`, `subscribe`, the streaming task, reconnect with `Last-Event-ID` | SessionEventBus |
| Session reply requests | the same two files | `active_requests`: request id to cancellation token; one spawned task per accepted POST and its `RequestGuard` | `try_register_request`, `cancel_request`, `cleanup_request`, `session_reply`, `session_cancel` | SessionReply |
| Elicitation | `bharatcode-core/src/action_required_manager.rs`, `elicitation.rs`, `agents/mcp_client.rs` | `pending` map, per request a lock, a oneshot sender, a queue per session | `request_and_wait`, `claim_response`, `submit`, `drain_requests_for_session` | Elicitation, OneShotAnswer |
| Agent loop | `bharatcode-core/src/agents/agent.rs`, `agents/retry.rs`, `agents/final_output_tool.rs` | conversation, session store, steers, goal and grind, final output tool, retry attempts, a dozen locals | `reply`, `reply_internal`, `steer`, cancel, Stop hook, retries, compaction | AgentReply |
| Scheduler | `bharatcode-core/src/scheduler.rs` | jobs map, `schedule.json`, cron registrations, running tokens | cron tick, `run_now`, pause, unpause, update, kill, add, remove, list | Scheduler |
| Tool approval and execution | `bharatcode-core/src/agents/agent.rs`, `agents/tool_confirmation_router.rs`, `agents/tool_execution.rs`, `tool_inspection.rs`, `tool_governor.rs`, `permission/` | per agent the entries of the confirmation router, per call its stream; for the process the standing permissions and the governor's permits | inspect, ask, confirm, dispatch, time out, cancel, drop | ToolTurn |
| Agent manager | `bharatcode-core/src/execution/manager.rs`, `agents/platform_extensions/orchestrator.rs` | LRU cache of agents by session, creation locks, cancel tokens | `get_or_create_agent`, `remove_session`, `try_register_cancel_token`, `unregister_cancel_token`, `send_message` | AgentManager |
| Conversation and its repair | `bharatcode-providers/src/conversation.rs`, `agents/moim.rs` | the messages | `push`, `fix_conversation`, `inject_moim` | Conversation |
| Session manager | `session/session_manager.rs` | SQLite tables | add, replace and read messages | as the `store` of AgentReply |
| Provider retry, deadlines, fallback | `bharatcode-providers/src/retry.rs`, `providers/deadline.rs`, `providers/fallback.rs` | attempt counters, deadlines | retry, stall abort, fall back | seen by AgentReply as how a stream ends |
| ACP server | `acp/server.rs` | active runs by session, steers | prompt, cancel, steer | no |
| Tunnel, gateway pairing, download manager | `bharatcode-server/src/tunnel/`, `gateway/`, `download_manager.rs` | small state machines | start, stop, pair, cancel, resume | no |
| Provider adapters, extension manager, HTTP server shell, configuration, recipes, scanners, apply-patch, sandbox, command line, MCP servers, SDK | see `PROJECT.json` | mostly none of interest here | conversions, I/O, user interface | no |

### How the parts interact

* A client POSTs a message with a request id of its own; `session_reply`
  registers it (one uncancelled request per session) and spawns a task. The
  task gets the session's agent, runs `Agent::reply`, and publishes what the
  agent yields on the session's bus, then `Finish`, then removes its entry.
* All clients of a session read the bus over SSE. A client that loses its
  connection, or is too slow, reconnects with the id of the last frame it saw;
  the replay buffer and the live receiver are spliced without a common lock.
* A tool that runs inside the agent may ask the user a question
  (elicitation): the question goes through a queue the agent drains into the
  conversation, the answer comes back on another HTTP request or as a message.
* The agent loop reads and writes the session store while the user may cancel
  (a token) or steer (a queue) at any await.
* The loop hands the tool calls of a response to the inspectors, the user and
  the governor. A call may delegate to a subagent, an agent of its own whose
  calls use the same permissions and the same permits.
* Agents are made on demand by whoever needs one for a session, and kept in a
  cache of limited size; the cancel tokens of replies that run outside the
  server's registry are kept next to it.
* The scheduler runs recipes through an agent, at cron times or on request,
  while HTTP handlers change its jobs; map, file and cron registrations are
  written one after the other, each under a lock of its own or none.

### What is hard, and what makes each part correct

* **Event bus.** Publishers number under a lock but broadcast outside it; a
  subscriber takes its receiver before its snapshot. Right means: the buffer
  is the run of the newest events; no event falls in the gap between snapshot
  and receiver and none is sent twice; a client sees everything or is told to
  reload; a stale or refused cursor never blocks it for ever.
* **Requests.** Clean-ups are late and remove by id, cancelled entries are
  swept lazily, tasks fail or panic at any await. Right means: at most one
  live request, always cancellable, no leaked entry, a cancelled session is
  usable at once, every accepted request gets a terminal event.
* **Elicitation.** A timeout, several answers, a database write in the middle
  of a claim and dropped futures on both sides race. Right means: the question
  is decided once, and history, tool and sender agree on the decision.
* **Agent loop.** Five mechanisms send the loop round again, some of them
  reset the counters of others, and conversation and store are written
  separately. Right means: provider calls and retries stay bounded, the loop
  ends, the store is the conversation, early steers are not dropped.
* **Scheduler.** Ticks do not look at `currently_running`, `run_now` does;
  everything a call decided under the lock may have changed at its next lock.
  Right means: a mark has a run that clears it, the token table names runs
  under way, a job has the cron task that runs it, and map and file agree in
  the end.
* **Tool calls.** Inspectors' results override each other through three
  lists; approvals are awaited with other calls already dispatched; a call that
  delegates keeps its permit while its subagent needs one; a client may go away
  at any await, and everything below goes with it. Right means: nothing runs
  unasked, a standing denial stands, every recorded request has one response,
  no permit is lost, a turn ends.
* **Agent manager.** The creation lock of a session is itself created, cloned
  and pruned on demand, while callers are dropped, creations fail and sessions
  are evicted or removed. Right means: an agent is built once, the locks do not
  pile up, nobody waits for ever, a reply under way counts as one.
* **Conversation.** Cancelled turns, imports and edits leave requests and
  responses without each other; eight passes repair that once, in a fixed
  order, each undoing what another relies on, and the context of the turn is
  put in afterwards. Right means: what is sent is acceptable to providers, a
  repaired conversation needs no repair, nothing is lost that need not be, and
  signed thinking stays whole.

## 2. Modules

| Module | Role |
|---|---|
| SessionEventBus | the bus, the streaming task and clients that reconnect |
| SessionReply | registry of requests and the life of a reply task |
| Elicitation | questions, answers, timeouts, dropped futures |
| OneShotAnswer | abstract: a question decided once; refined by Elicitation |
| AgentReply | the loop of `reply_internal` over the replies of a session |
| Scheduler | scheduled recipes: runs, calls, the file, crashes |
| ToolTurn | the tool calls of a turn, of an agent and its subagents |
| AgentManager | the cache of agents, creation locks and cancel tokens |
| Conversation | pushes to a conversation, its repair, the context of a turn |
| MC*name* | constants of the module *name* for TLC |
| *name*Proofs | theorems about the module *name*, checked by TLAPS |

No module uses a `RECURSIVE` operator: recursion is written with the folds of
the community modules, and section 4 says how theorems speak of them.

### SessionEventBus

An event is its sequence number. `publish` is `Push` (number, store, evict:
everything under the buffer lock) and `Broadcast` (`tx.send`, after the lock is
released). `subscribe` is `Connect` (`tx.subscribe`) and, under the buffer
lock, `Snapshot` or `Refuse`. The streaming task is `SendReplay`, `SendLive`
(which skips what was replayed) and `Lagged`; the client is `Deliver`,
`EndOfStream`, and `Disconnect` for a connection that breaks at any time.
`Restart` replaces the process: numbering starts at 1, clients keep cursors.
`start`, `sent`, `stale` and `overtaken` (a publisher has broadcast before one
that was numbered earlier) are history variables. What `subscribe` filters out
of the buffer is a suffix of it, as the buffer is in order (`Newer`;
`BufferHoldsNewest` is what justifies it). Heartbeats and the
`ActiveRequests` frame carry no id and leave the cursor alone: not modelled.

### SessionReply

A task is one POST; its token is named after it. `Post` is
`try_register_request` (drop cancelled entries, then register or refuse);
`Cancel` is `session_cancel`; `Start`, `FailToStart`, `StreamError`,
`StreamEnd`, `Finish` and `Clean` are the awaits of the spawned task; `Panic`
and `FailToStart` drop the armed guard, whose spawned clean-up is
`GuardCleanup`. Only the events that end a request are recorded. Slash
commands and answers to elicitations, which the handler serves without
registering, are left out.

### Elicitation and OneShotAnswer

A waiter is one `request_and_wait`, a responder one
`complete_elicitation_with_message`. `Lookup`, `Claim`, `Record` (or
`RecordFails`), `Take` and `Send` are its awaits: the claim holds the request's
lock across the write to the conversation. `TimerFires` and `Expire` are the
two halves of the timeout; `DropWaiter` and `DropResponder` drop a future at an
await. In OneShotAnswer a question has one decision (an answer, expired,
abandoned) that its asker and the senders are told. The mapping decides a
question when its answer is sent, when the expired waiter takes the sender, or
when the waiter is dropped.

### AgentReply

`pc` follows one iteration: `top` (leave if cancelled, drain steers), `final`
(a final output left by the last iteration, or count the turn and call the
provider), `stream` (items, aborts, compaction), `decide` (final output,
steer, goal, grind, retry), `save`, `hook` (the Stop hook), `after`. A message
is its kind and an exchange of tool calls is the single message `tools`, so
`store` and `conversation` are short sequences that can be compared.
`fix_conversation` is left out: it repairs shapes the kinds do not show (see
Conversation).
Each `...Fails` action is an error return at an await, with the part of the
writes that were done. Tool execution, permissions and provider retries are
inside the steps of `stream`. `retries` is a history variable: how often this
reply has started over, whatever the agent's own counter (`attempts`) says. MCAgentReply only narrows `Init`: a recipe with a
final output tool never looks at its goal or grind, so there both are unset.

### Scheduler

Every section under a lock, every write of `schedule.json` and every call of the
tokio scheduler is a step. A run is a cron tick (`Tick`, `Mark`) or a call of
`run_now` (`RunNow`, which checks and marks at once), then `SaveMark`,
`InsertToken`, `Execute`, `Unmark`, `SaveUnmark`; the agent's work is the one
step `Execute`. A client that goes away drops the handler and its `run_now` with
it (`DropRun`): mark and token stay, the token as `NoRun`, which nobody listens
to. The other calls are their first section (`Add`, `Remove`, `Pause`,
`Unpause`, `Update`, `Kill`) and what follows: `Register` and `Insert` of an add;
`Unregister` of a removal, which may delete the recipe file (`gone`) or fail to;
`Replace`, `Register` and `Rename` of an update; `CancelToken` of a kill; `Save`.
Their handlers, too, may be dropped wherever they wait (`DropCall`). `list` is
`ListRead`, `ListDiff`, then job by job `ListSkip`, `ListRegister`, `ListInsert`
and `ListUnregister`, `ListForget`, and `ListEnd`; it may be dropped (`DropList`).
`Crash` restarts the process from the file.

A job is its registration, `paused`, `currently_running` and whether its cron
expression parses; the other fields describe a run and decide nothing. `disk` is
what the file says and `legible` whether there is one that can be parsed: a
write that fails does so before `fs::write` has emptied the file or after it
(`CutShort`), and then `list` leaves memory alone until the next write succeeds,
as it does before the first. The tokio scheduler is taken to do what it is told.
`left` is a history variable: the jobs whose mark a crash, a failed or dropped
`run_now`, or the file left behind. So is `cut`: the jobs whose update, or
removal by `list`, was dropped after their registration was gone, until they are
updated, removed, added or loaded again. Command line processes that write the
file too are left out.

### ToolTurn

An agent's turn is `StartTurn` (all inspections, the dispatch of the approved
calls, the answers to the denied ones, `handle_denied_tools` and
`deny_unattended_approvals`), then for each call that needs approval `Ask` (the
router's `register`, which sweeps closed entries) and `Decide` (what follows
the receiver's await in `handle_approval_tool_requests`), then `RunTools`, from
which on the streams are polled, and `EndTurn`, by completion or because the
loop saw the cancellation. `ChatTurn` is the turn in chat mode. `Confirm` and
`ConfirmLate` are the router's `deliver`, `Cancel` the user's, `DropReply` a
client that goes away. `Acquire`, `Return` and `TimeOut` are the stream that
`wrap_stream` makes of a call. `Mix` is
`apply_inspection_results_to_permissions` for one result; what an inspector
finds is a choice among the actions that inspector can return.

A call with `SubagentOf` delegates: the subagent takes turns while the call is
polled, has nobody to ask, shares the caller's token, and is dropped with it
(`Below`, `Released`). A request is made once. Left out: frontend tools (nothing
in the repository calls `handle_tool_result`), providers that route permissions
themselves, delegates in the background, retries of a tool, and the tools that
run while they are dispatched (final output, schedule).

### AgentManager

Each section under one of the manager's locks is a step of a caller of
`get_or_create_agent`: `Call` (the first look at the cache), `CloneLock`,
`Acquire`, `Recheck`, `Push` (with the eviction) or `BuildFails` and `Fail`,
`PruneEvicted`, `Leave`. `remove_session` is `RemoveToken`, `Pop` and
`PruneRemoved`. `DropCall` and `DropRemove` drop a future where it awaits.
`send_message` goes on with `Register`, `ReplyEnds` or `ReplyDropped`, and
`Unregister`; `Done` is every caller that only uses the agent. `Prune` is
`prune_creation_lock`, with `InUse` for the count of the `Arc`. A lock is its
identity; which session is used least recently is left open, so any may be
evicted. `kept` and `orphans` are history variables: locks that a clone or a
dropped call has kept from being pruned, and replies robbed of their token by a
`remove_session` of their session or, down a chain that begins with one, by the
end of a reply that had itself been robbed. A reply robbed by one that had not
been is in neither, and would violate `BusyWhileReplying`.

### Conversation

`Push` is `Conversation::push`: a delta with the id of the last message goes
into it, as a part of its last item if both are texts or one block of thinking
(`Continues`). Each pass of `fix_messages` is an operator of its name, on one
message where the pass is a map; `Sweep` is the first loop of
`fix_tool_calling` for one item, `Swept` both loops, `fix_lead_trail` is
`RemoveLead` and `RemoveTrail`. `FixConversation` has the shadow map: `Refill`
goes along the conversation and puts each hidden message back in its place, and
for each visible one the next of the repaired ones (`Put`). An issue is that a pass
changes something, which is when the code reports one; `InjectMoim` needs their
kinds, as it gives up on one it does not expect. A text is the number of its
words and whether white space ends it, the context one word. `Say` pushes any
of the deltas of the instance, by a user or by a provider, wrongly or rightly;
`Think` pushes thinking of providers that sign it, at the end of a block or
with each of its deltas. Left out: inference metadata, messages without an id
(they are like messages with an id of their own), and what only adds or removes
whole messages at the end.

`Acceptable` is what a provider is sent: something, a user's message first and
last, alternating roles, no message that says nothing, no text of an assistant
that ends in white space, no request without a later answer and no empty answer.
An empty text may stay beside other content, as `remove_empty_messages` only
looks for messages with nothing else; the formats leave such texts out
(`bharatcode-core/src/providers/formats/anthropic.rs` 191,
`bharatcode-providers/src/formats/openai.rs` 203). `ResponsesRequested` is the
other half of the pairing, no response without an earlier request. It is part of
`ProviderAccepts` where the conversation is `Pairable`: requests differ, and no
leading message of an assistant was removed. Where one was, its responses are
sent without their requests, which is what the code does.

## 3. Runs

Passing runs:

| Run | Instance | What it shows |
|---|---|---|
| Bus | 2 publishers, 1 client, both capacities 2, 5 events, 2 lost connections, 1 restart, fair | `TypeOK`; the buffer holds the newest events (`BufferHoldsNewest`); nothing falls into the gap between replay and live (`NoGapAtHandoff`); no frame twice on a connection (`NoDuplicateFrame`); every event once and in order across connections (`ContiguousDelivery`), and in the end (`EventuallyDelivered`) |
| ReplyRegistry | 3 tasks, 3 ids, fair | one uncancelled request at a time (`OneLiveRequest`), which can be cancelled (`LiveIsCancellable`); no entry without a task (`NoLeakedEntry`); every request gets its terminal event (`AcceptedIsAnswered`) |
| ElicitationAnswers | 2 questions, 2 answers, 2 sessions, fair | `RecordedAnswerWins`, `OneRecordedAnswer`, `SidesAgree`, `WaitEnds`, and the refinement of OneShotAnswer (`ImplementsOneShotAnswer`) |
| AgentLoop | 2 turns, 1 denial, 1 recipe retry or a final output tool, 1 steer, 1 item per stream, fair | `TypeOK`; provider calls are bounded (`CallsBounded`), and so are the retries that were made, with exhaustion reported after that many and no earlier (`RetriesBounded`); the store is the conversation (`StoreIsConversation`); early steers are served (`SteersServed`); the loop ends (`ReplyTerminates`) |
| Schedules | 1 job, 2 registrations, 1 failed write, every call dropped anywhere, and: 2 runs with 1 other call (*runs*), 2 other calls (*calls*), list with 1 other call and 1 crash (*list*), or 1 run with list, 1 other call but update, and a crash or a failed write (*marks*) | a mark has a run (`FlagHasRun`); a token is of a run of its job (`TokenHasRun`); every job that parses has its cron task, unless an update or list is about to give or take it or was dropped there (`JobHasCron`); list makes memory and file agree once the calls stop, if it gets through and the file can be parsed (`ListHeals`) |
| Tools | an agent that may delegate one call to a subagent, which makes a call, and makes a second call itself; one tool; 1 or 2 permits; a timeout; fair | `TypeOK`; permits are neither lost nor made (`PermitsBalance`); nothing runs unasked (`RunsOnlyIfAllowed`); one response each (`AnsweredOnce`); a denial for good stands (`DenialStands`); a turn ends, though tools hang and permits are nested (`TurnEnds`) |
| Manager | 2 sessions, 2 callers, 1 remover, 3 locks, capacity 1, fair | `TypeOK`; an agent is built once (`BuiltOnce`); locks are pruned (`LocksPruned`); a reply is busy, but for the chain that a removal sets off (`BusyWhileReplying`); creation ends (`CreationEnds`) |
| Conversation | every conversation of up to 5 deltas out of 9, and 2 blocks of thinking | a signature is on its own block (`SignatureFitsBlock`); the provider is sent what it accepts (`ProviderAccepts`); a second repair finds nothing but texts that became neighbours (`RepairSettles`); what users said, answered calls and hidden messages are kept, where a user spoke first and requests differ (`RepairKeeps`) |

`TypeOK` of SessionReply, Elicitation and Scheduler is not repeated by a run:
it is proved.

Runs that must find a violation; each refutes one sentence of the repository
(quoted in `PROJECT.json` under findings):

| Run | Sentence | What happens |
|---|---|---|
| BusReorder | concurrent callers cannot reorder events | two publishers broadcast in the other order after the lock |
| AgentRefused | a refused request must not be resent | a Stop hook that denies sends it again |
| AgentStaleOutput | the final output belongs to the user that asked | a reply that ends early leaves it for the next reply, which shows it and never calls the provider |
| SchedulerKill | running job killed successfully | the run has set its mark but not entered its token: nothing is cancelled, and the call succeeds |

Noted while modelling, visible in the modules but not checked by a run: a
cursor one before the oldest buffered event is refused although nothing after
it is lost (`TooFarBehind`); a client that uses a request id again has the new
entry removed by the old task's clean-up (`CleanupRequest`); after an abort
the loop may still add a nudge or run a retry before it sees the cancellation
(`Abort`, `Nudge`, `Retry`); a job can be paused while one of two
overlapping runs executes, as the first to end clears the mark (`Unmark`); a
crash during a run leaves `currently_running` in the file, and `run_now`,
pause and update refuse the job until a tick clears it (`Crash`);
an update whose handler is dropped between the removal of the old registration
and the new one leaves a job that never fires, until it is updated again or the
process restarts (`Replace`, `DropCall`, `cut`), and an update that is repeated
with the same expression returns early and does not help; a write that fails
once the file has been emptied leaves a file `list` ignores, so memory and file
differ until the next save, and a crash before it loses every job (`CutShort`);
a call dropped between registration and map, or two that add or list adds at
once, leave a registration of a job that nothing removes (`Register`). A request
that one inspector denies (a tool the user never allows) and a later one wants
asked about comes out on both lists, as that arm of `tool_inspection.rs:233`
does not look at the denied ones: it is declined, and asked about, and may run,
with two responses (`Mix`, and the exception in `AnsweredOnce`). With as many
delegating calls as permits nothing moves until the timeout, and without one
nothing ever does (`Acquire`; `TurnEnds` needs `Timeout`).
`unregister_cancel_token` takes out whatever token the session has: after a
`remove_session` in mid-reply that is the token of a later reply, whose session
then looks idle and whose end may take the next one's (`Unregister`, `orphans`);
and a `send_message` that is dropped between disarming its guard and
unregistering leaves the session busy for ever (`DropDisarmed`). A creation lock stays in the table when its prune meets a
clone, or the call that would prune is dropped (`Keep`). A repaired
conversation may need repair again, although the helper `run_verify` of the
tests of `conversation.rs` asserts that "Fixed conversation should have no
issues": a leading assistant message is removed after its requests were paired
(`RemoveLead`), so their responses stay, orphaned, and are sent; and texts of
assistant messages that are merged are merged in turn by the next repair
(`MergeConsecutiveMessages`). `RepairSettles` states what does hold: it excepts
these texts, and conversations that are not `Pairable`, because a leading
assistant message is removed or a request is made twice.
With nothing visible the placeholder finds no place and is lost
(`FixConversation`), although its issue is reported. Responses of several calls
in messages of their own next to each other make `inject_moim` give up, as
merging them is not among the issues it expects (`Expected`).

### Bounds

Capacities of 2 are the least at which eviction, lag and duplicate suppression
happen with more than one element in play; five events overrun buffer and
channel together twice. Three tasks are a cancelled request whose clean-up is
late and two POSTs that race for its place. Two answers to one question, one
to each of two, or one from the wrong session cover every pair of parties; a
third party only meets states of one of the pairs. In the agent, one of each
limit lets every mechanism that returns to the top of the loop fire, and fire
again after another one; more turns repeat iterations. Jobs of the scheduler
only meet in the file, every write of which has all of them (or is cut short for
all of them), so one job shows what the parts of the state do to each other; two
runs overlap in every order, two other calls do, and one other call meets the
runs and list. Two registrations are the old and the
new one of an update; calls begin, and are dropped, only below that number, so
that what dropped calls leave registered does not pile up. With 1 permit a delegating call starves its
subagent, with 2 both run; a nested call, a call beside it and one tool are
enough for a subagent to be dropped with its caller and for a standing answer
to meet a later call. Two callers and a remover for two sessions in a cache of
one evict each other, wait for each other's lock and prune it; a third lock is
made when both others are still held. Five deltas are a whole round (a text, a
request, its response, a text, a text) or the wreck of two; two tool calls are
enough for one to be taken for the other. The bounds
`MaxSeq`, `MaxDrops`, `MaxRestarts`, `MaxItems`, `MaxSteers`, `MaxReplies`,
`MaxCrons`, `MaxCrashes`, `MaxFailures`, `MaxPushes` and `MaxBlocks`
are guards named in the modules; the limits of the program itself
(`ReplayCap`, `BroadcastCap`, `MaxTurns`, `StopCap`, `RetryLimit`) are
constants, too. Deadlock is not checked: every one of these systems may
stop when its clients do, and the bounds stop it.

### Fairness

* SessionEventBus: a publisher that stored an event goes on to broadcast it
  (no await in between), the streaming task and the client are polled. Nobody
  has to publish, and connections need not break.
* SessionReply: each await of a task returns, because `reply` ends or the
  cancelled branch of `select!` is taken; the guard's clean-up is spawned.
  Clients owe nothing.
* Elicitation: the timer runs and both sides are polled. A store that never
  answered would keep the lock, and `WaitEnds` depends on it: that is the
  assumption `Responder` is fair under.
* AgentReply: the consumer polls the stream, and the provider's stream ends:
  `StreamGuard` aborts it on a stall. Only `Progress` is fair, so no failure
  and no user is needed for `ReplyTerminates`.
* Scheduler: none. What `ListHeals` needs is in its premise: from some point on
  no run and no other call is under way and the file can be parsed, and `list`
  gets to its end again and again, as it does while a client asks for it.
* ToolTurn: the stream of the reply is polled, the user answers what is asked,
  a free permit is handed out, a call past its time is ended. Tools owe
  nothing: without the timeout a hanging tool would hold its turn.
* AgentManager: providers and extensions answer or time out, so the steps of a
  creation are weakly fair; the lock is strongly fair, as tokio's `Mutex` serves
  its waiters in turn. Replies, removals and dropped futures owe nothing.

## 4. Proofs

| Theorem | Statement | Argument |
|---|---|---|
| `TypeCorrect` (each module) | `Spec => []TypeOK` | one step per action; for the bus with `BufferInv`, for Scheduler with the busy calls and finite registrations |
| `ReplayBufferHoldsNewest` | `Spec => []BufferHoldsNewest` | inductive with the types of `next_seq` and `buffer` (`BufferInv`); the lemma `LastNProperties` says what eviction leaves |
| `HandoffHasNoGap` | `Spec => []NoGapAtHandoff` | `HandInv`: no gap, and every event up to `replay_max_seq` is sent or still to be replayed (`SkipSafe`), which is why skipping a live event loses nothing. `SnapshotCovers`: under its lock the buffer has every event the client lacks (`NewerIsSuffix`, from `BufferInv`), so what was broadcast before the snapshot does not matter |
| `NoFrameIsSentTwice` | `Spec => NoDuplicateFrame` | `OnceInv`: the events in a receiver are distinct and nobody is about to broadcast one of them again (`LiveOnce`, `SendingOnce`); what the connection has sent is either covered by the replay, and then skipped, or has left the receiver (`SentOnce`). It holds though publishers overtake each other |
| `EveryEventOnceInOrder` | `Spec => ContiguousDelivery` | `OrderInv`: what is numbered and not broadcast has no hole (`InTurn`), so while nobody overtakes, the next broadcast is one certain number (`IsNext`, `NextIsUnique`) and goes on with what every receiver holds (`LiveRun`). Frames under way are a run that goes on with the cursor (`OutRun`); the replay goes on with the frames and ends at `replay_max_seq` (`ReplayRun`); the first live event that is not skipped is the one after the last frame (`LiveFits`) |
| `NoEntryLeaks` | `Spec => []NoLeakedEntry` | `RegistryInv`: every entry is under its task's id and the task has yet to clean up. No assumption on clients |
| `AtMostOneLiveRequest`, `LiveRequestIsCancellable` | `Spec => []...` when `UniqueIds` | `UniqueIdsInv` adds: ids differ, an uncancelled task that has not cleaned up keeps its entry, and at most one entry is not cancelled. Neither property is inductive alone: a late clean-up must be known to remove only its own task's entry, which is what ids used once give |
| `ProviderCallsBounded` | `Spec => []CallsBounded` | `CallsInv`: `calls` is at most turns plus denials, one less while the retry of a denial is due; turns and denials are within their limits wherever the loop can go on |
| `RecipeRetriesBounded` | `Spec => []RetriesBounded` | `RetryInv`: the retries a reply has made are the attempts on the agent's counter (which `reply_internal` resets, and nothing after it), so the guard, which looks at attempts only, bounds them; the message of exhaustion is in the conversation only if they are used up, and what starts a reply over, compacts or restores the conversation brings none back (`OthersStep`, `ToldStep`) |
| `EarlySteersAreServed` | `Spec => []SteersServed` | `LookInv`: after the first call of the provider the queue is drained at each pass of the top, so before the Stop hook at most the late steers are in it |
| `StoreHoldsConversation` | `Spec => []StoreIsConversation` | inductive with the types. `StoreSteps` sorts the steps: some make the two equal, some append to both the same messages (and to the store a summary of tool calls), one appends the message that retries are exhausted to the conversation alone. What is shared of two parts is what is shared of each, put together (`SharedJoined`) |
| `AnswerIsRecordedOnce`, `AnswerBeatsTimeout`, `BothSidesAgree` | `Spec => []...` | one invariant about the sender: while a claim holds the lock the sender is there (`LockInv`), and a recorded answer has the lock or has taken the sender (`TakenInv`). Of two recorded answers the second would have found the sender gone |
| `QuestionDecidedOnce` | `Spec => ImplementsOneShotAnswer` | under that invariant `Send`, `Expire`, `DropWaiter` and `Receive` map to the steps of OneShotAnswer, every other step to a stutter |
| `MarkHasRun`, `TokenIsOfItsJob` | `Spec => []FlagHasRun`, `Spec => []TokenHasRun` | a mark or a token is only set by a run, and a run that goes leaves neither, or leaves a mark that `left` accounts for |
| `JobsAreServed` | `Spec => []JobHasCron` | `CronInv`: a registration is only dropped by somebody who remembers its name; names remembered for two jobs never coincide (`Names`), as a new one differs from all that are remembered (`NewUuidIsNew`: finitely many jobs and callers remember finitely many); an update or a list that drops one either gives a new one, or takes the job out, or its expression cannot be parsed, or another update will serve the job (`UpdatesServe`), or it is itself dropped there, and then the job is in `cut` |
| `PermitsBalanced` | `Spec => []PermitsBalance` | the streams dropped with a turn, a call or a client, and those of the subagents below, hold exactly the permits that come back (`DropBalance`, with the cardinality of finite sets) |
| `NothingRunsUnasked` | `Spec => []RunsOnlyIfAllowed` | `AskInv`: a request that is asked about, or will be, is the agent's own and has no stream yet, and what the receiver holds was said about that request |
| `DenialsStand` | `Spec => []DenialStands` | adds `RuleIsLevel`: what was said for good is the level the inspectors read |
| `AnsweredExactlyOnce` | `Spec => []AnsweredOnce` | `AnswerInv` follows who owes a request its response: the user while it is asked about, its stream from then on. Outside of these hands it has one response while its turn is on (`Counted`), and no stream of a turn that is on is dropped (`TurnInv`), so a turn that ends of itself has them all (`AllAnswered`) |
| `AgentBuiltOnce` | `Spec => []BuiltOnce` | `LockInv`: who waits for a lock or holds it has a clone of the one the table has now (pruning spares what has a clone), one of them holds it, and a builder has found no agent |
| `LocksArePruned` | `Spec => []LocksPruned` | every lock in the table is accounted for by a cached agent, a caller, a remover or `kept` (`LocksAccounted`) |
| `ReplyIsBusy` | `Spec => []BusyWhileReplying` | `TokenStays`, inductive with the types: a reply that has its guard and has not been robbed has its token in the table. So of two that reply for one session one has been robbed, an end that finds another's token is that of a robbed reply (that is the step the `orphans` of a chain come from), and any other finds its own |
| `SignaturesFit` | `Spec => []SignatureFitsBlock` | `Signing`: thinking that ends the conversation and is not signed is of the current block, whose signature has not been sent. So a delta that `Continues` it is of the same block, and one of a new block finds its predecessor signed |
| `AlwaysAccepted` | `Spec => []ProviderAccepts` | for every conversation, reachable or not, pass by pass (below): what is repaired is `Fit`, which is acceptable (`FitAccepted`), its texts are trimmed (`FixedTrimmed`), and if it could be paired it is `Tidy`, so that each response has its request (`TidyRequested`); what the context is put into is that or the repair of it (`PutInOnce`) |
| `KeptByRepair` | `Spec => []RepairKeeps` | `Signing` for the types; then for any conversation that is well begun, pass by pass (below) |
| `RepairIsSettled` | `Spec => []RepairSettles` | what is repaired is `Steady` (`FixedIsSteady`), and every pass but the first leaves what is steady as it is (below) |

The passes of the repair are folds. `FoldExists` and `FoldSteps` turn a fold
into a function from position to position, once for each fold of the model (the
lemmas `...Fold`), and what it makes follows by induction along the positions
(`Along`, from the library's minimal elements of a set, which needs no operator
as a parameter). The argument of `AlwaysAccepted` then is: results are filled
(`FillTyped`); the first sweep leaves each request pending or answered later
(`MessagesSwept`), so that without what is pending all are answered
(`SweptIs`); removing empty messages keeps that, as a response says something
(`RemoveEmptyPaired`); merging is a map of positions that never changes their
order, under which neighbours differ in role (`CollectedPaired`, `MergeIs`);
answers come later than their requests and are a user's, so without a leading
or a trailing assistant message each request that is left has its answer
(`RemoveLeadIs`, `RemoveTrailIs`). `RefillIs` and `RepairedIs` say that what is
seen after the shadow map is what was repaired, if anything was visible before,
and that is never nothing. All this holds for any
conversation, so also for the one with the context put in (`InjectMoimIs`),
whether `inject_moim` gives up or not.

`KeptByRepair` goes through the same passes. The words of users are a sum over
sums, and the passes up to the trailing one keep it: merging texts adds up what
it joins, an empty message and a removed assistant message have no words of a
user. That no leading message is removed is `SayFirst`: a user who says
something comes first, and each pass leaves it so. The answered calls are
followed through the first sweep message by message (`SweptEach`,
`FirstSweepIs`): a request that is asked only once is no longer pending once it
is answered (`SweptKeeps`, `AskedOnce`, which is why `RepairKeeps` excepts an id
that is asked twice), and its response comes after it; merging carries both along its map of positions (`MergeKeeps`). What is
repaired is no longer than what was visible, so the shadow map puts back all of
it (`RefillIs`), and the hidden messages between (`RefillHidden`).

`RepairIsSettled` names what a pass needs to find nothing to do, shows that the
first repair ends with all of it, and that putting texts together, the one thing
the second repair may do, keeps it (`Steady`, `FixedIsSteady`, `SteadyMerged`,
`SteadySettles`). The provider's conditions are part of it, already proved. Two
more are not among them. Texts of assistants stay trimmed, as no later pass makes
a text and a merge keeps each in a message of its role (`TextsFrom`,
`TrimmedFrom`). And the sweeps drop nothing: messages are `Tidy` if each item is
kept given what is pending before it and nothing is pending in the end. The two
sweeps make that (`SweptTidy`): to drop the requests that stay pending changes
no verdict of the first sweep, because none of them was ever answered, which is
again where `AskedOnce` is needed. Removing empty messages, merging, removing
the trailing message, in which no request can be pending as none is in the end
(`RemoveTrailTidy`), and putting texts together keep it.

The assumptions are those of the modules (`BusAssumption`, `ReplyAssumption`,
`AgentAssumption`, `ElicitationAssumption`, `SchedulerAssumption`,
`ToolAssumption`, `ManagerAssumption`, `ConversationAssumption`). They say that
limits are numbers, that capacities are not 0 and that null values are not
members; Scheduler asks for finitely many jobs and callers, which is what makes
a fresh name possible; ToolTurn for finitely many requests, and for delegation
one level deep, to one subagent per call; AgentManager for finitely many
sessions; Conversation for deltas of the kinds it names, all but thinking, which
only providers push (`Think`).

Checked by TLC only: the liveness properties (`EventuallyDelivered`,
`AcceptedIsAnswered`, `WaitEnds`, `ReplyTerminates`, `ListHeals`,
`TurnEnds`, `CreationEnds`), as fairness is out of the prover's reach.

Known and accepted: a client whose cursor comes from an earlier process does
not get what the new process published before it reconnects, up to that
number. `subscribe` cannot tell such a cursor from a current one; it clamps it,
so that later events do arrive. `ContiguousDelivery` and `EventuallyDelivered`
say so.

## 5. Not modelled, and the plan

Each component `not_modelled` in `PROJECT.json` has its reason there. In short:
adapters, configuration, hints, user interfaces, built-in tools and the SDK are
conversions and I/O, with no order of events to get wrong; the scanners match
text; the extension manager and the sandbox are thin over processes and the
kernel.

With state of their own, and next in the plan:

1. **SessionServer**: SessionReply publishing through SessionEventBus, so that a
   client that posts sees the terminal event or is told to reload.
2. The ACP server's runs and steers, the download manager, the tunnel's
   watchdog, pairing codes, and the provider's retries and deadlines.

Within the modelled components: `retry` and other processes that write
`schedule.json` in Scheduler; ToolTurn's omissions listed above; two jobs whose
calls meet in the file, which the theorems about Scheduler cover but for
`ListHeals`.
