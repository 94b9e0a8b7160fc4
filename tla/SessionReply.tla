---------------------------- MODULE SessionReply ----------------------------
(***************************************************************************)
(* POST /sessions/{id}/reply and /cancel for one session: the registry of  *)
(* active requests in session_event_bus.rs, and the task session_reply     *)
(* spawns in routes/session_events.rs, from registration to clean-up.      *)
(*                                                                         *)
(* A task is one accepted POST; its cancellation token is named after it.  *)
(* The request id is chosen by the client and is the registry's key.       *)
(* The events that end a request matter here; the messages before them and *)
(* how the bus carries events do not: that is SessionEventBus.             *)
(***************************************************************************)
CONSTANTS
    Tasks,          \* POSTs to /reply
    RequestIds,     \* ids the clients put on them
    NoTask,         \* registry entry: none
    UniqueIds       \* TRUE when clients never use an id twice

ASSUME ReplyAssumption ==
    /\ NoTask \notin Tasks
    /\ UniqueIds \in BOOLEAN

VARIABLES
    active,         \* active_requests: request id -> task whose token it holds
    cancelled,      \* tasks whose token is cancelled
    id,             \* task -> its request id, once posted
    pc,             \* task -> where it is
    answered        \* tasks that have published an Error or a Finish

vars == <<active, cancelled, id, pc, answered>>

Running == {"starting", "streaming", "finishing", "cleaning"}
Dropped == {"dropped", "panicked"}       \* the guard was dropped armed
Pcs == Running \cup Dropped \cup {"new", "refused", "done"}

Init ==
    /\ active = [r \in RequestIds |-> NoTask]
    /\ cancelled = {}
    /\ id \in [Tasks -> RequestIds]
    /\ UniqueIds => \A t, u \in Tasks : id[t] = id[u] => t = u
    /\ pc = [t \in Tasks |-> "new"]
    /\ answered = {}

-----------------------------------------------------------------------------
\* Mutant of Retain: keeps the wrong entries.
RetainCancelled(reg) ==
    [r \in RequestIds |-> IF reg[r] \in cancelled THEN reg[r] ELSE NoTask]

\* try_register_request first drops the entries whose token is cancelled.
Retain(reg) ==
    [r \in RequestIds |-> IF reg[r] \in cancelled THEN NoTask ELSE reg[r]]

AlwaysFree(reg) == TRUE                                        \* mutant of Free
Free(reg) == \A r \in RequestIds : reg[r] = NoTask

\* session_reply registers the request or answers 400; both retain.
Post(t) ==
    /\ pc[t] = "new"
    /\ LET kept == Retain(active)
       IN  IF Free(kept)
           THEN /\ active' = [kept EXCEPT ![id[t]] = t]
                /\ pc' = [pc EXCEPT ![t] = "starting"]
           ELSE /\ active' = kept
                /\ pc' = [pc EXCEPT ![t] = "refused"]
    /\ UNCHANGED <<cancelled, id, answered>>

\* session_cancel: the token under this id is cancelled, the entry stays.
Cancel(r) ==
    /\ active[r] # NoTask
    /\ cancelled' = cancelled \cup {active[r]}
    /\ UNCHANGED <<active, id, pc, answered>>

-----------------------------------------------------------------------------
\* The task publishes an Error or a Finish.
PublishEnd(t) == answered' = answered \cup {t}

\* get_agent, get_session or agent.reply fails: one Error, and the guard is
\* dropped armed.
FailToStart(t) ==
    /\ pc[t] = "starting"
    /\ PublishEnd(t)
    /\ pc' = [pc EXCEPT ![t] = "dropped"]
    /\ UNCHANGED <<active, cancelled, id>>

Start(t) ==
    /\ pc[t] = "starting"
    /\ pc' = [pc EXCEPT ![t] = "streaming"]
    /\ UNCHANGED <<active, cancelled, id, answered>>

\* Mutant of StreamEnd: leaves without a Finish.
EndSilently(t) ==
    /\ pc[t] = "streaming"
    /\ pc' = [pc EXCEPT ![t] = "cleaning"]
    /\ UNCHANGED <<active, cancelled, id, answered>>

\* A stream error is published and ends the loop, not the task.
StreamError(t) ==
    /\ pc[t] = "streaming"
    /\ PublishEnd(t)
    /\ pc' = [pc EXCEPT ![t] = "finishing"]
    /\ UNCHANGED <<active, cancelled, id>>

\* The loop ends because the stream does, or because the token is cancelled.
\* (select! is fair: a cancelled task may still publish messages before that.)
StreamEnd(t) ==
    /\ pc[t] = "streaming"
    /\ pc' = [pc EXCEPT ![t] = "finishing"]
    /\ UNCHANGED <<active, cancelled, id, answered>>

Finish(t) ==
    /\ pc[t] = "finishing"
    /\ PublishEnd(t)
    /\ pc' = [pc EXCEPT ![t] = "cleaning"]
    /\ UNCHANGED <<active, cancelled, id>>

\* Mutant of CleanupRequest.
KeepEntry(r) == UNCHANGED active

\* cleanup_request removes whatever the id maps to.
CleanupRequest(r) == active' = [active EXCEPT ![r] = NoTask]

\* The guard is disarmed and the task cleans up itself.
Clean(t) ==
    /\ pc[t] = "cleaning"
    /\ CleanupRequest(id[t])
    /\ pc' = [pc EXCEPT ![t] = "done"]
    /\ UNCHANGED <<cancelled, id, answered>>

\* The task panics: its armed guard is dropped.
Panic(t) ==
    /\ pc[t] \in {"starting", "streaming", "finishing"}
    /\ pc' = [pc EXCEPT ![t] = "panicked"]
    /\ UNCHANGED <<active, cancelled, id, answered>>

\* The clean-up the guard spawned when it was dropped.
GuardCleanup(t) ==
    /\ pc[t] \in Dropped
    /\ CleanupRequest(id[t])
    /\ pc' = [pc EXCEPT ![t] = "done"]
    /\ UNCHANGED <<cancelled, id, answered>>

-----------------------------------------------------------------------------
Step(t) ==
    \/ FailToStart(t) \/ Start(t) \/ StreamError(t) \/ StreamEnd(t)
    \/ Finish(t) \/ Clean(t) \/ GuardCleanup(t)

Next ==
    \/ \E t \in Tasks : Post(t) \/ Step(t) \/ Panic(t)
    \/ \E r \in RequestIds : Cancel(r)

Spec == Init /\ [][Next]_vars

\* Every await of the task returns: the agent starts or fails, its stream ends
\* or the cancelled branch is taken, and spawned clean-ups run.
FairSpec == Spec /\ \A t \in Tasks : WF_vars(Step(t))

-----------------------------------------------------------------------------
\* Types of the variables.
TypeOK ==
    /\ active \in [RequestIds -> Tasks \cup {NoTask}]
    /\ cancelled \subseteq Tasks
    /\ id \in [Tasks -> RequestIds]
    /\ pc \in [Tasks -> Pcs]
    /\ answered \subseteq Tasks

Live(t) == pc[t] \in Running /\ t \notin cancelled

\* try_register_request: at most one request of a session is being answered
\* that nobody has cancelled, whatever clean-ups of earlier ones are late.
OneLiveRequest ==
    \A t, u \in Tasks : Live(t) /\ Live(u) => t = u

\* A request that is being answered can be cancelled: the registry holds its
\* token under its id, so session_cancel reaches it.
LiveIsCancellable ==
    \A t \in Tasks : Live(t) => active[id[t]] = t

\* The registry never refuses for a task that is gone (a leaked entry would
\* make the session busy for ever): every entry's task has yet to clean up.
NoLeakedEntry ==
    \A r \in RequestIds :
        active[r] # NoTask => pc[active[r]] \in Running \cup Dropped

\* A client that was told its request is accepted is eventually told how it
\* ended, unless the task panics: only then does the stream stay silent.
AcceptedIsAnswered ==
    \A t \in Tasks :
        pc[t] = "starting" ~> t \in answered \/ pc[t] = "panicked"
=============================================================================
