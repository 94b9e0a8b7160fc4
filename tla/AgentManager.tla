---------------------------- MODULE AgentManager ----------------------------
(***************************************************************************)
(* The cache of loaded agents: bharatcode-core's AgentManager              *)
(* (execution/manager.rs) with its per-session creation locks and cancel   *)
(* tokens, and the orchestrator's send_message that uses both              *)
(* (platform_extensions/orchestrator.rs).                                  *)
(*                                                                         *)
(* Every section under one of the manager's locks is a step.  A creation   *)
(* lock is an Arc that the table and callers hold clones of; callers may   *)
(* be dropped wherever they await.                                         *)
(***************************************************************************)
EXTENDS Integers, FiniteSets

CONSTANTS
    Sessions,
    NoSession,
    Callers,        \* calls of get_or_create_agent at a time
    NoCaller,
    Removers,       \* calls of remove_session at a time
    Locks,          \* creation locks, by identity
    NoLock,
    MaxSessions     \* capacity of the cache

ASSUME ManagerAssumption ==
    /\ IsFiniteSet(Sessions)
    /\ NoSession \notin Sessions
    /\ NoCaller \notin Callers
    /\ NoLock \notin Locks
    /\ MaxSessions \in Nat \ {0}

VARIABLES
    cached,         \* sessions with an agent in the cache
    locks,          \* creation_locks: session -> its lock
    pc, session,    \* caller -> where it is, the session it asks for
    lock,           \* caller -> the lock it holds a clone of
    evicted,        \* caller -> the session its push evicted
    rpc, removed,   \* remover -> where it is, the session it removes
    tokens,         \* cancel_tokens: session -> the caller whose token it is
    \* History variables.
    kept,           \* sessions whose lock a caller kept from being pruned
    orphans         \* replies that a removal robbed of their token, or the
                    \* end of a reply that had been robbed

cacheVars   == <<cached, locks, kept>>
callVars    == <<pc, session, lock, evicted>>
removeVars  == <<rpc, removed>>
tokenVars   == <<tokens, orphans>>
vars == <<cacheVars, callVars, removeVars, tokenVars>>

Init ==
    /\ cached = {}
    /\ locks = [s \in Sessions |-> NoLock]
    /\ pc = [c \in Callers |-> "idle"]
    /\ session = [c \in Callers |-> NoSession]
    /\ lock = [c \in Callers |-> NoLock]
    /\ evicted = [c \in Callers |-> NoSession]
    /\ rpc = [x \in Removers |-> "idle"]
    /\ removed = [x \in Removers |-> NoSession]
    /\ tokens = [s \in Sessions |-> NoCaller]
    /\ kept = {}
    /\ orphans = {}

Goto(c, here, next) ==
    /\ pc[c] = here
    /\ pc' = [pc EXCEPT ![c] = next]
    /\ UNCHANGED session

\* The call is over.
Return(c) ==
    /\ pc' = [pc EXCEPT ![c] = "idle"]
    /\ session' = [session EXCEPT ![c] = NoSession]

\* The locks of these sessions are left in the table.
Keep(S) == kept' = kept \cup {s \in S : s \notin cached /\ locks[s] # NoLock}

\* The caller's clone of the lock goes, and with it the guard.
Release(c) == lock' = [lock EXCEPT ![c] = NoLock]

-----------------------------------------------------------------------------
\* The fast path: the agent is cached, else it has to be created.
Call(c, s) ==
    /\ pc[c] = "idle"
    /\ pc' = [pc EXCEPT ![c] = IF s \in cached THEN "have" ELSE "clone"]
    /\ session' = [session EXCEPT ![c] = s]
    /\ UNCHANGED <<cacheVars, lock, evicted, removeVars, tokenVars>>

Unused == {l \in Locks : /\ \A s \in Sessions : locks[s] # l
                         /\ \A c \in Callers : lock[c] # l}

\* The session's creation lock is cloned, or made.
CloneLock(c) ==
    /\ Goto(c, "clone", "wait")
    /\ \/ /\ locks[session[c]] # NoLock
          /\ lock' = [lock EXCEPT ![c] = locks[session[c]]]
          /\ UNCHANGED locks
       \/ /\ locks[session[c]] = NoLock
          /\ Unused # {}
          /\ LET new == CHOOSE l \in Unused : TRUE
             IN  /\ lock' = [lock EXCEPT ![c] = new]
                 /\ locks' = [locks EXCEPT ![session[c]] = new]
    /\ UNCHANGED <<cached, kept, evicted, removeVars, tokenVars>>

Guarded == {"locked", "build", "evict", "leave"}

\* Mutant of Free: every clone counts.
FreeOfClones(c) == \A d \in Callers \ {c} : lock[d] # lock[c]

Free(c) == \A d \in Callers : lock[d] = lock[c] => pc[d] \notin Guarded

\* The guard is taken.
Acquire(c) ==
    /\ Free(c)
    /\ Goto(c, "wait", "locked")
    /\ UNCHANGED <<cacheVars, lock, evicted, removeVars, tokenVars>>

\* Mutant of MustBuild: no second look at the cache under the lock.
MustBuildAnyway(s) == TRUE

MustBuild(s) == s \notin cached

\* Under the lock the cache is looked at again; the agent may have come.
Recheck(c) ==
    /\ Goto(c, "locked", IF MustBuild(session[c]) THEN "build" ELSE "leave")
    /\ UNCHANGED <<cacheVars, lock, evicted, removeVars, tokenVars>>

\* The provider cannot be set: guard and clone are dropped, then the lock is
\* to be pruned.
BuildFails(c) ==
    /\ Goto(c, "build", "failed")
    /\ Release(c)
    /\ UNCHANGED <<cacheVars, evicted, removeVars, tokenVars>>

\* Mutant of Full: one agent too many.
OverFull == Cardinality(cached) > MaxSessions

Full == Cardinality(cached) >= MaxSessions

\* The agent, its provider and its extensions are there: a last look, and it
\* enters the cache.  If that is full another session leaves it (the one used
\* least recently; here, any).
Push(c) ==
    LET s == session[c]
    IN  /\ pc[c] = "build"
        /\ \/ /\ s \in cached \/ ~Full
              /\ cached' = cached \cup {s}
              /\ Goto(c, "build", "leave")
              /\ UNCHANGED evicted
           \/ /\ s \notin cached /\ Full
              /\ \E v \in cached :
                    /\ cached' = (cached \ {v}) \cup {s}
                    /\ evicted' = [evicted EXCEPT ![c] = v]
              /\ Goto(c, "build", "evict")
        /\ kept' = kept \ {s}
        /\ UNCHANGED <<locks, lock, removeVars, tokenVars>>

\* Mutant of InUse: nobody's clone counts.
NeverInUse(s) == FALSE

\* Arc::strong_count > 1.
InUse(s) == \E c \in Callers : lock[c] # NoLock /\ lock[c] = locks[s]

\* prune_creation_lock.
Prune(s) ==
    IF InUse(s)
    THEN Keep({s}) /\ UNCHANGED locks
    ELSE /\ locks' = [locks EXCEPT ![s] = NoLock]
         /\ kept' = kept \ {s}

\* Mutant of PruneFailed: the entry stays.
ForgetFailed(c) == UNCHANGED <<locks, kept>>

PruneFailed(c) == Prune(session[c])

Fail(c) ==
    /\ pc[c] = "failed"
    /\ Return(c)
    /\ PruneFailed(c)
    /\ UNCHANGED <<cached, lock, evicted, removeVars, tokenVars>>

PruneEvicted(c) ==
    /\ Goto(c, "evict", "leave")
    /\ Prune(evicted[c])
    /\ evicted' = [evicted EXCEPT ![c] = NoSession]
    /\ UNCHANGED <<cached, lock, removeVars, tokenVars>>

\* The agent is handed to the caller.
Leave(c) ==
    /\ Goto(c, "leave", "have")
    /\ Release(c)
    /\ UNCHANGED <<cacheVars, evicted, removeVars, tokenVars>>

\* The call is dropped where it awaits; nothing is pruned.
DropCall(c) ==
    /\ pc[c] \in {"clone", "wait", "failed"} \cup Guarded
    /\ Return(c)
    /\ Release(c)
    /\ evicted' = [evicted EXCEPT ![c] = NoSession]
    /\ Keep({session[c], evicted[c]} \cap Sessions)
    /\ UNCHANGED <<cached, locks, removeVars, tokenVars>>

-----------------------------------------------------------------------------
\* From the entry of a token to the removal by the one who entered it.
Replying == {"reply", "disarmed", "spawned"}

\* The caller whose reply the session's token belongs to, if it is not over.
Owner(s) == {c \in Callers : tokens[s] = c /\ session[c] = s /\ pc[c] \in Replying}

\* remove_session: the token goes and is cancelled ...
RemoveToken(x, s) ==
    /\ rpc[x] = "idle"
    /\ rpc' = [rpc EXCEPT ![x] = "pop"]
    /\ removed' = [removed EXCEPT ![x] = s]
    /\ orphans' = orphans \cup Owner(s)
    /\ tokens' = [tokens EXCEPT ![s] = NoCaller]
    /\ UNCHANGED <<cacheVars, callVars>>

Removed(x) ==
    /\ rpc' = [rpc EXCEPT ![x] = "idle"]
    /\ removed' = [removed EXCEPT ![x] = NoSession]

\* ... then the agent, if there is one ...
Pop(x) ==
    /\ rpc[x] = "pop"
    /\ \/ /\ removed[x] \in cached
          /\ rpc' = [rpc EXCEPT ![x] = "prune"]
          /\ cached' = cached \ {removed[x]}
          /\ UNCHANGED removed
       \/ /\ removed[x] \notin cached
          /\ Removed(x)
          /\ UNCHANGED cached
    /\ UNCHANGED <<locks, kept, callVars, tokenVars>>

\* ... and then the lock.
PruneRemoved(x) ==
    /\ rpc[x] = "prune"
    /\ Removed(x)
    /\ Prune(removed[x])
    /\ UNCHANGED <<cached, callVars, tokenVars>>

\* The request that removes goes away between two steps.
DropRemove(x) ==
    /\ rpc[x] \in {"pop", "prune"}
    /\ Removed(x)
    /\ Keep({removed[x]})
    /\ UNCHANGED <<cached, locks, callVars, tokenVars>>

-----------------------------------------------------------------------------
Busy(s) == tokens[s] # NoCaller

\* send_message: the token is entered, or the session is busy.
Register(c) ==
    /\ pc[c] = "have"
    /\ ~Busy(session[c])
    /\ pc' = [pc EXCEPT ![c] = "reply"]
    /\ tokens' = [tokens EXCEPT ![session[c]] = c]
    /\ UNCHANGED <<cacheVars, session, lock, evicted, removeVars, orphans>>

\* Other callers only use the agent, some fail to set its provider, and a
\* send_message that meets a busy session is refused.
Done(c) ==
    /\ pc[c] = "have"
    /\ Return(c)
    /\ UNCHANGED <<cacheVars, lock, evicted, removeVars, tokenVars>>

\* Mutant of ReplyEnds: the token is removed, but the guard is still armed and
\* will remove one, too.
ReplyEndsArmed(c) ==
    /\ Goto(c, "reply", "spawned")
    /\ tokens' = [tokens EXCEPT ![session[c]] = NoCaller]
    /\ UNCHANGED <<cacheVars, lock, evicted, removeVars, orphans>>

\* The reply ends and the guard is disarmed ...
ReplyEnds(c) ==
    /\ Goto(c, "reply", "disarmed")
    /\ UNCHANGED <<cacheVars, lock, evicted, removeVars, tokenVars>>

\* ... or it is dropped, and the guard spawns the rest.
ReplyDropped(c) ==
    /\ Goto(c, "reply", "spawned")
    /\ UNCHANGED <<cacheVars, lock, evicted, removeVars, tokenVars>>

\* unregister_cancel_token: whosever token the session has goes.  A caller
\* that has been robbed of its own may rob a later reply in turn.
Unregister(c) ==
    /\ pc[c] \in {"disarmed", "spawned"}
    /\ Return(c)
    /\ orphans' = (IF c \in orphans THEN orphans \cup Owner(session[c])
                                     ELSE orphans) \ {c}
    /\ tokens' = [tokens EXCEPT ![session[c]] = NoCaller]
    /\ UNCHANGED <<cacheVars, lock, evicted, removeVars>>

\* A call that is dropped once its guard is disarmed leaves its token.
DropDisarmed(c) ==
    /\ pc[c] = "disarmed"
    /\ Return(c)
    /\ orphans' = orphans \ {c}
    /\ UNCHANGED <<cacheVars, lock, evicted, removeVars, tokens>>

-----------------------------------------------------------------------------
Create(c) ==
    \/ CloneLock(c) \/ Recheck(c) \/ BuildFails(c) \/ Push(c)
    \/ Fail(c) \/ PruneEvicted(c) \/ Leave(c)

Next ==
    \/ \E c \in Callers :
          \/ \E s \in Sessions : Call(c, s)
          \/ Acquire(c) \/ Create(c) \/ DropCall(c)
          \/ Register(c) \/ Done(c) \/ ReplyEnds(c) \/ ReplyDropped(c)
          \/ Unregister(c) \/ DropDisarmed(c)
    \/ \E x \in Removers :
          \/ \E s \in Sessions : RemoveToken(x, s)
          \/ Pop(x) \/ PruneRemoved(x) \/ DropRemove(x)

Spec == Init /\ [][Next]_vars

\* Providers and extensions answer or time out, so creation goes on, and the
\* creation lock is handed to its waiters in turn (tokio's Mutex is fair).
\* Replies owe nothing.
Fairness ==
    \A c \in Callers : WF_vars(Create(c)) /\ SF_vars(Acquire(c))

FairSpec == Spec /\ Fairness

-----------------------------------------------------------------------------
Pcs == {"idle", "clone", "wait", "failed", "have", "reply", "disarmed",
        "spawned"} \cup Guarded

\* Types of the variables; the cache keeps to its capacity.
TypeOK ==
    /\ cached \subseteq Sessions
    /\ Cardinality(cached) <= MaxSessions
    /\ locks \in [Sessions -> Locks \cup {NoLock}]
    /\ pc \in [Callers -> Pcs]
    /\ session \in [Callers -> Sessions \cup {NoSession}]
    /\ lock \in [Callers -> Locks \cup {NoLock}]
    /\ evicted \in [Callers -> Sessions \cup {NoSession}]
    /\ rpc \in [Removers -> {"idle", "pop", "prune"}]
    /\ removed \in [Removers -> Sessions \cup {NoSession}]
    /\ tokens \in [Sessions -> Callers \cup {NoCaller}]
    /\ kept \subseteq Sessions
    /\ orphans \subseteq Callers

Building(s) == {c \in Callers : pc[c] = "build" /\ session[c] = s}

\* "concurrent callers for the same session never race into doing the work
\* twice" (creation_locks): at most one caller builds an agent for a session,
\* and none while one is cached, whatever was pruned, removed or evicted
\* between its steps.
BuiltOnce ==
    \A s \in Sessions :
        /\ \A c, d \in Building(s) : c = d
        /\ s \in cached => Building(s) = {}

\* "the creation_locks HashMap would grow without bound": when nobody asks for
\* a session and it has no agent, its lock has been pruned, also after a
\* failed creation, unless a prune met a clone or was dropped.
LocksPruned ==
    \A s \in Sessions :
        /\ s \notin cached
        /\ s \notin kept
        /\ \A c \in Callers : session[c] # s /\ evicted[c] # s
        /\ \A x \in Removers : removed[x] # s
        => locks[s] = NoLock

\* While a reply is under way the table holds its token, so that it can be
\* interrupted and try_register_cancel_token refuses a second one.  Nothing
\* takes the token away but a remove_session of the session and, down a
\* chain that begins with one, the end of a reply that had lost its token:
\* not the end of an earlier reply, however late its guard's task runs.
BusyWhileReplying ==
    \A c \in Callers :
        pc[c] = "reply" => tokens[session[c]] = c \/ c \in orphans

\* get_or_create_agent returns: no caller waits for ever on a creation lock,
\* whether its holder succeeds, fails or is dropped.
CreationEnds ==
    \A c \in Callers : pc[c] = "wait" ~> pc[c] \in {"have", "idle"}
=============================================================================
