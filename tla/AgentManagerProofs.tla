------------------------- MODULE AgentManagerProofs -------------------------
(***************************************************************************)
(* What AgentManager guarantees for any number of sessions, callers,       *)
(* removers and locks and any capacity.                                    *)
(*                                                                         *)
(* That an agent is built once rests on an invariant about the creation    *)
(* locks: whoever waits on a lock or holds it has a clone of the lock the  *)
(* table has for its session now.  Pruning keeps it, because it leaves an  *)
(* entry somebody has a clone of, and so two callers for a session always  *)
(* meet at one lock, one of them holding it.                               *)
(***************************************************************************)
EXTENDS AgentManager, FiniteSetTheorems, TLAPS

Engaged == {"wait"} \cup Guarded

\* A call under way is for a session, and one that evicts has a victim.
CallsHaveSessions ==
    /\ \A c \in Callers : pc[c] # "idle" => session[c] \in Sessions
    /\ \A c \in Callers : pc[c] = "evict" => evicted[c] \in Sessions
    /\ \A x \in Removers : rpc[x] # "idle" => removed[x] \in Sessions

\* Who waits on a lock, or holds it, has a clone of the one in the table.
ClonesAreCurrent ==
    \A c \in Callers : pc[c] \in Engaged =>
        lock[c] # NoLock /\ lock[c] = locks[session[c]]

\* A lock has one holder.
OneHolder ==
    \A c, d \in Callers :
        pc[c] \in Guarded /\ pc[d] \in Guarded /\ lock[c] = lock[d] => c = d

\* Who builds has looked at the cache under the lock.
BuildersMissed ==
    \A c \in Callers : pc[c] = "build" => session[c] \notin cached

LockInv ==
    /\ CallsHaveSessions
    /\ ClonesAreCurrent
    /\ OneHolder
    /\ BuildersMissed

-----------------------------------------------------------------------------
\* Full has room for one more, or for one in place of another.
LEMMA CacheBound ==
    ASSUME cached \subseteq Sessions, Cardinality(cached) <= MaxSessions,
           NEW c \in Callers, Push(c)
    PROVE  Cardinality(cached') <= MaxSessions
<1> DEFINE s == session[c]
<1>1. IsFiniteSet(cached) /\ Cardinality(cached) \in Nat
  BY ManagerAssumption, FS_Subset, FS_CardinalityType
<1>2. CASE s \in cached /\ cached' = cached \cup {s}
  <2>1. cached' = cached
    BY <1>2
  <2> QED
    BY <2>1
<1>3. CASE s \notin cached /\ ~Full /\ cached' = cached \cup {s}
  <2>1. Cardinality(cached') = Cardinality(cached) + 1
    BY <1>1, <1>3, FS_AddElement
  <2> QED
    BY <1>1, <1>3, <2>1, ManagerAssumption DEF Full
<1>4. ASSUME NEW v \in cached, s \notin cached, cached' = (cached \ {v}) \cup {s}
      PROVE  Cardinality(cached') <= MaxSessions
  <2>1. /\ IsFiniteSet(cached \ {v})
        /\ Cardinality(cached \ {v}) = Cardinality(cached) - 1
    BY <1>1, FS_RemoveElement
  <2>2. Cardinality(cached') = Cardinality(cached \ {v}) + 1
    BY <1>4, <2>1, FS_AddElement
  <2> QED
    BY <1>1, <2>1, <2>2, ManagerAssumption
<1> QED
  BY <1>2, <1>3, <1>4 DEF Push

LEMMA RemovalBound ==
    ASSUME cached \subseteq Sessions, Cardinality(cached) <= MaxSessions, NEW s
    PROVE  Cardinality(cached \ {s}) <= MaxSessions
<1>1. IsFiniteSet(cached) /\ Cardinality(cached) \in Nat
  BY ManagerAssumption, FS_Subset, FS_CardinalityType
<1>2. \/ Cardinality(cached \ {s}) = Cardinality(cached)
      \/ Cardinality(cached \ {s}) = Cardinality(cached) - 1
  BY <1>1, FS_RemoveElement
<1> QED
  BY <1>1, <1>2, ManagerAssumption

LEMMA PruneTypes ==
    ASSUME TypeOK, NEW s \in Sessions, Prune(s)
    PROVE  /\ locks' \in [Sessions -> Locks \cup {NoLock}]
           /\ kept' \subseteq Sessions
  BY DEF Prune, Keep, TypeOK

LEMMA TypeInit == Init => TypeOK /\ CallsHaveSessions
<1>1. Cardinality({}) = 0
  BY FS_EmptySet
<1> QED
  BY <1>1, ManagerAssumption DEF Init, TypeOK, CallsHaveSessions, Pcs

-----------------------------------------------------------------------------
\* The steps of a caller up to the agent.
CreateStep(c) == Acquire(c) \/ Create(c) \/ DropCall(c)

ReplyStep(c) ==
    \/ Register(c) \/ Done(c) \/ ReplyEnds(c) \/ ReplyDropped(c)
    \/ Unregister(c) \/ DropDisarmed(c)

RemoveStep(x) == Pop(x) \/ PruneRemoved(x) \/ DropRemove(x)

LEMMA StepCases ==
    ASSUME [Next]_vars
    PROVE  \/ \E c \in Callers : \E s \in Sessions : Call(c, s)
           \/ \E c \in Callers : CreateStep(c)
           \/ \E c \in Callers : ReplyStep(c)
           \/ \E x \in Removers : \E s \in Sessions : RemoveToken(x, s)
           \/ \E x \in Removers : RemoveStep(x)
           \/ UNCHANGED vars
  BY DEF Next, CreateStep, ReplyStep, RemoveStep

LEMMA CreateTypes ==
    ASSUME TypeOK, CallsHaveSessions, NEW c \in Callers, CreateStep(c)
    PROVE  TypeOK' /\ CallsHaveSessions'
<1> USE DEF TypeOK, CallsHaveSessions, Goto, Return, Release, Pcs, Guarded
<1>1. CASE Acquire(c)
  BY <1>1 DEF Acquire, cacheVars, removeVars, tokenVars
<1>2. CASE CloneLock(c)
  BY <1>2 DEF CloneLock, Unused, removeVars, tokenVars
<1>3. CASE Recheck(c)
  BY <1>3 DEF Recheck, cacheVars, removeVars, tokenVars
<1>4. CASE BuildFails(c)
  BY <1>4 DEF BuildFails, cacheVars, removeVars, tokenVars
<1>5. CASE Push(c)
  <2>1. Cardinality(cached') <= MaxSessions
    BY <1>5, CacheBound
  <2> QED
    BY <1>5, <2>1 DEF Push, removeVars, tokenVars
<1>6. CASE Fail(c)
  <2>1. /\ locks' \in [Sessions -> Locks \cup {NoLock}]
        /\ kept' \subseteq Sessions
    BY <1>6, PruneTypes DEF Fail, PruneFailed
  <2> QED
    BY <1>6, <2>1 DEF Fail, removeVars, tokenVars
<1>7. CASE PruneEvicted(c)
  <2>1. /\ locks' \in [Sessions -> Locks \cup {NoLock}]
        /\ kept' \subseteq Sessions
    BY <1>7, PruneTypes DEF PruneEvicted
  <2> QED
    BY <1>7, <2>1 DEF PruneEvicted, removeVars, tokenVars
<1>8. CASE Leave(c)
  BY <1>8 DEF Leave, cacheVars, removeVars, tokenVars
<1>9. CASE DropCall(c)
  BY <1>9 DEF DropCall, Keep, removeVars, tokenVars
<1> QED
  BY <1>1, <1>2, <1>3, <1>4, <1>5, <1>6, <1>7, <1>8, <1>9 DEF CreateStep, Create

LEMMA ReplyTypes ==
    ASSUME TypeOK, CallsHaveSessions, NEW c \in Callers, ReplyStep(c)
    PROVE  TypeOK' /\ CallsHaveSessions'
<1> USE DEF TypeOK, CallsHaveSessions, Goto, Return, Pcs, Guarded, removeVars,
            cacheVars, tokenVars
<1>1. CASE Register(c)
  BY <1>1 DEF Register
<1>2. CASE Done(c) \/ ReplyEnds(c) \/ ReplyDropped(c)
  BY <1>2 DEF Done, ReplyEnds, ReplyDropped
<1>3. CASE Unregister(c)
  BY <1>3 DEF Unregister, Owner
<1>4. CASE DropDisarmed(c)
  BY <1>4 DEF DropDisarmed
<1> QED
  BY <1>1, <1>2, <1>3, <1>4 DEF ReplyStep

LEMMA RemoveTypes ==
    ASSUME TypeOK, CallsHaveSessions, NEW x \in Removers, RemoveStep(x)
    PROVE  TypeOK' /\ CallsHaveSessions'
<1> USE DEF TypeOK, CallsHaveSessions, Removed, callVars, tokenVars
<1>1. CASE Pop(x)
  <2>1. Cardinality(cached') <= MaxSessions
    BY <1>1, RemovalBound DEF Pop
  <2> QED
    BY <1>1, <2>1 DEF Pop
<1>2. CASE PruneRemoved(x)
  <2>1. /\ locks' \in [Sessions -> Locks \cup {NoLock}]
        /\ kept' \subseteq Sessions
    BY <1>2, PruneTypes DEF PruneRemoved
  <2> QED
    BY <1>2, <2>1 DEF PruneRemoved
<1>3. CASE DropRemove(x)
  BY <1>3 DEF DropRemove, Keep
<1> QED
  BY <1>1, <1>2, <1>3 DEF RemoveStep

LEMMA TypeStep ==
    ASSUME TypeOK, CallsHaveSessions, [Next]_vars
    PROVE  TypeOK' /\ CallsHaveSessions'
<1>1. CASE UNCHANGED vars
  BY <1>1 DEF TypeOK, CallsHaveSessions, vars, cacheVars, callVars, removeVars,
              tokenVars
<1>2. ASSUME NEW c \in Callers, NEW s \in Sessions, Call(c, s)
      PROVE  TypeOK' /\ CallsHaveSessions'
  BY <1>2 DEF Call, TypeOK, CallsHaveSessions, Pcs, cacheVars, removeVars,
              tokenVars
<1>3. ASSUME NEW x \in Removers, NEW s \in Sessions, RemoveToken(x, s)
      PROVE  TypeOK' /\ CallsHaveSessions'
  BY <1>3 DEF RemoveToken, Owner, TypeOK, CallsHaveSessions, cacheVars, callVars
<1> QED
  BY <1>1, <1>2, <1>3, StepCases, CreateTypes, ReplyTypes, RemoveTypes

\* The variables keep their types, and the cache its capacity.
THEOREM TypeCorrect == Spec => []TypeOK
<1>1. TypeOK /\ CallsHaveSessions /\ [Next]_vars
         => (TypeOK /\ CallsHaveSessions)'
  BY TypeStep
<1> QED
  BY TypeInit, <1>1, PTL DEF Spec

-----------------------------------------------------------------------------
LEMMA LockInit == Init => LockInv
  BY DEF Init, LockInv, CallsHaveSessions, ClonesAreCurrent, OneHolder,
         BuildersMissed, Engaged, Guarded

\* Pruning leaves an entry that somebody has a clone of.
LEMMA PruneKeepsClones ==
    ASSUME TypeOK, NEW s \in Sessions, Prune(s),
           NEW c \in Callers, session[c] \in Sessions,
           lock[c] # NoLock, lock[c] = locks[session[c]]
    PROVE  lock[c] = locks'[session[c]]
  BY DEF Prune, InUse, TypeOK

\* What one caller does leaves the others' clones and guards alone.
LEMMA CreateKeepsClones ==
    ASSUME TypeOK, LockInv, NEW c \in Callers, CreateStep(c)
    PROVE  ClonesAreCurrent'
<1> SUFFICES ASSUME NEW d \in Callers, pc'[d] \in Engaged
             PROVE  lock'[d] # NoLock /\ lock'[d] = locks'[session'[d]]
  BY DEF ClonesAreCurrent
<1>0. pc[c] # "idle"
  BY DEF CreateStep, Create, Acquire, CloneLock, Recheck, BuildFails, Push, Fail,
         PruneEvicted, Leave, DropCall, Goto, Guarded
<1> USE <1>0 DEF TypeOK, LockInv, CallsHaveSessions, ClonesAreCurrent, Goto,
                 Return, Release, Engaged, Guarded
<1>1. CASE Acquire(c)
  BY <1>1 DEF Acquire, cacheVars
<1>2. CASE CloneLock(c)
  <2>1. CASE locks[session[c]] # NoLock
    BY <1>2, <2>1 DEF CloneLock
  <2>2. CASE locks[session[c]] = NoLock
    <3>1. PICK new \in Unused :
             /\ lock' = [lock EXCEPT ![c] = new]
             /\ locks' = [locks EXCEPT ![session[c]] = new]
      BY <1>2, <2>2 DEF CloneLock
    <3>2. new \in Locks /\ new # NoLock
      BY <3>1, ManagerAssumption DEF Unused
    <3>3. d # c => session[d] # session[c] /\ pc[d] \in Engaged
      BY <1>2, <2>2 DEF CloneLock
    <3> QED
      BY <1>2, <3>1, <3>2, <3>3 DEF CloneLock
  <2> QED
    BY <2>1, <2>2
<1>3. CASE Recheck(c)
  BY <1>3 DEF Recheck, cacheVars
<1>4. CASE BuildFails(c)
  BY <1>4 DEF BuildFails, cacheVars
<1>5. CASE Push(c)
  BY <1>5 DEF Push
<1>6. CASE Fail(c)
  <2>1. d # c /\ UNCHANGED lock /\ pc[d] \in Engaged /\ session'[d] = session[d]
    BY <1>6 DEF Fail
  <2> QED
    BY <1>6, <2>1, PruneKeepsClones DEF Fail, PruneFailed
<1>7. CASE PruneEvicted(c)
  <2>1. /\ UNCHANGED <<lock, session>>
        /\ pc[d] \in Engaged
        /\ Prune(evicted[c])
    BY <1>7 DEF PruneEvicted
  <2> QED
    BY <1>7, <2>1, PruneKeepsClones DEF PruneEvicted
<1>8. CASE Leave(c)
  BY <1>8 DEF Leave, cacheVars
<1>9. CASE DropCall(c)
  BY <1>9 DEF DropCall
<1> QED
  BY <1>1, <1>2, <1>3, <1>4, <1>5, <1>6, <1>7, <1>8, <1>9 DEF CreateStep, Create

LEMMA CreateKeepsHolder ==
    ASSUME TypeOK, LockInv, NEW c \in Callers, CreateStep(c)
    PROVE  OneHolder'
<1> SUFFICES ASSUME NEW d \in Callers, NEW e \in Callers,
                    pc'[d] \in Guarded, pc'[e] \in Guarded,
                    lock'[d] = lock'[e]
             PROVE  d = e
  BY DEF OneHolder
<1> USE DEF TypeOK, LockInv, OneHolder, Goto, Return, Release, Guarded
<1>1. CASE Acquire(c)
  BY <1>1 DEF Acquire, Free
<1>2. CASE CloneLock(c)
  BY <1>2 DEF CloneLock
<1>3. CASE Recheck(c) \/ PruneEvicted(c)
  BY <1>3 DEF Recheck, PruneEvicted
<1>4. CASE BuildFails(c) \/ Leave(c) \/ DropCall(c)
  BY <1>4 DEF BuildFails, Leave, DropCall
<1>5. CASE Push(c)
  BY <1>5 DEF Push
<1>6. CASE Fail(c)
  BY <1>6 DEF Fail
<1> QED
  BY <1>1, <1>2, <1>3, <1>4, <1>5, <1>6 DEF CreateStep, Create

\* A push makes the session cached, but nobody else builds for it: they would
\* hold the same lock.
LEMMA CreateKeepsMiss ==
    ASSUME TypeOK, LockInv, NEW c \in Callers, CreateStep(c)
    PROVE  BuildersMissed'
<1> SUFFICES ASSUME NEW d \in Callers, pc'[d] = "build"
             PROVE  session'[d] \notin cached'
  BY DEF BuildersMissed
<1> USE DEF TypeOK, LockInv, BuildersMissed, Goto, Return, Release
<1>1. CASE Acquire(c) \/ CloneLock(c) \/ BuildFails(c) \/ Leave(c)
  BY <1>1 DEF Acquire, CloneLock, BuildFails, Leave, cacheVars
<1>2. CASE Recheck(c)
  BY <1>2 DEF Recheck, MustBuild, cacheVars
<1>3. CASE Push(c)
  <2>1. d # c /\ pc[c] = "build" /\ pc[d] = "build" /\ UNCHANGED session
    BY <1>3 DEF Push
  <2>2. session[d] # session[c]
    BY <2>1 DEF OneHolder, ClonesAreCurrent, Engaged, Guarded
  <2> QED
    BY <1>3, <2>1, <2>2 DEF Push
<1>4. CASE Fail(c) \/ PruneEvicted(c) \/ DropCall(c)
  BY <1>4 DEF Fail, PruneEvicted, DropCall
<1> QED
  BY <1>1, <1>2, <1>3, <1>4 DEF CreateStep, Create

\* A step that moves no caller into or out of creation, and leaves the locks
\* of the callers in it and does not add to the cache, keeps the invariant.
LEMMA ReplyKeepsLocks ==
    ASSUME TypeOK, LockInv, NEW c \in Callers, ReplyStep(c)
    PROVE  ClonesAreCurrent' /\ OneHolder' /\ BuildersMissed'
<1>1. /\ UNCHANGED <<cached, locks, lock>>
      /\ \A d \in Callers :
            pc'[d] \in Engaged => pc'[d] = pc[d] /\ session'[d] = session[d]
  BY DEF ReplyStep, Register, Done, ReplyEnds, ReplyDropped, Unregister,
         DropDisarmed, Goto, Return, Engaged, Guarded, TypeOK, cacheVars
<1> QED
  BY <1>1 DEF LockInv, ClonesAreCurrent, OneHolder, BuildersMissed, Engaged,
              Guarded

LEMMA RemoveKeepsLocks ==
    ASSUME TypeOK, LockInv, NEW x \in Removers, RemoveStep(x)
    PROVE  ClonesAreCurrent' /\ OneHolder' /\ BuildersMissed'
<1>1. UNCHANGED <<pc, session, lock>> /\ cached' \subseteq cached
  BY DEF RemoveStep, Pop, PruneRemoved, DropRemove, callVars
<1>2. ASSUME NEW c \in Callers, pc[c] \in Engaged
      PROVE  lock[c] = locks'[session[c]]
  <2>1. /\ session[c] \in Sessions
        /\ lock[c] # NoLock /\ lock[c] = locks[session[c]]
    BY <1>2 DEF LockInv, CallsHaveSessions, ClonesAreCurrent, Engaged, Guarded
  <2>2. CASE PruneRemoved(x)
    <3>1. removed[x] \in Sessions /\ Prune(removed[x])
      BY <2>2 DEF PruneRemoved, LockInv, CallsHaveSessions
    <3> QED
      BY <2>1, <3>1, PruneKeepsClones
  <2>3. CASE Pop(x) \/ DropRemove(x)
    BY <2>1, <2>3 DEF Pop, DropRemove
  <2> QED
    BY <2>2, <2>3 DEF RemoveStep
<1> QED
  BY <1>1, <1>2 DEF LockInv, ClonesAreCurrent, OneHolder, BuildersMissed

LEMMA LockStep ==
    ASSUME TypeOK, LockInv, [Next]_vars
    PROVE  LockInv'
<1>1. CallsHaveSessions'
  BY TypeStep DEF LockInv
<1>2. CASE UNCHANGED vars
  BY <1>1, <1>2 DEF LockInv, ClonesAreCurrent, OneHolder, BuildersMissed, vars,
                    cacheVars, callVars
<1>3. ASSUME NEW c \in Callers, NEW s \in Sessions, Call(c, s)
      PROVE  ClonesAreCurrent' /\ OneHolder' /\ BuildersMissed'
  <2>1. /\ UNCHANGED <<cached, locks, lock>>
        /\ \A d \in Callers :
              pc'[d] \in Engaged => pc'[d] = pc[d] /\ session'[d] = session[d]
    BY <1>3 DEF Call, Engaged, Guarded, TypeOK, cacheVars
  <2> QED
    BY <2>1 DEF LockInv, ClonesAreCurrent, OneHolder, BuildersMissed, Engaged,
                Guarded
<1>4. ASSUME NEW x \in Removers, NEW s \in Sessions, RemoveToken(x, s)
      PROVE  ClonesAreCurrent' /\ OneHolder' /\ BuildersMissed'
  BY <1>4 DEF RemoveToken, LockInv, ClonesAreCurrent, OneHolder, BuildersMissed,
              cacheVars, callVars
<1> QED
  BY <1>1, <1>2, <1>3, <1>4, StepCases, CreateKeepsClones, CreateKeepsHolder,
     CreateKeepsMiss, ReplyKeepsLocks, RemoveKeepsLocks DEF LockInv

\* An agent is built by one caller at a time, and never while one is cached,
\* whatever is pruned, evicted, removed or dropped meanwhile.
THEOREM AgentBuiltOnce == Spec => []BuiltOnce
<1>1. TypeOK /\ LockInv => BuiltOnce
  BY DEF LockInv, ClonesAreCurrent, OneHolder, BuildersMissed, BuiltOnce,
         Building, Engaged, Guarded
<1>2. TypeOK /\ LockInv /\ [Next]_vars => (TypeOK /\ LockInv)'
  BY TypeStep, LockStep DEF LockInv
<1> QED
  BY <1>1, <1>2, TypeInit, LockInit, PTL DEF Spec

-----------------------------------------------------------------------------
\* BusyWhileReplying, kept up until the clean-up as well: a caller that has
\* not been robbed takes nothing but its own token out of the table.
TokenStays ==
    \A c \in Callers :
        pc[c] \in Replying => tokens[session[c]] = c \/ c \in orphans

LEMMA BusyStep ==
    ASSUME TypeOK, CallsHaveSessions, TokenStays, [Next]_vars
    PROVE  TokenStays'
<1> SUFFICES ASSUME NEW d \in Callers, pc'[d] \in Replying
             PROVE  tokens'[session'[d]] = d \/ d \in orphans'
  BY DEF TokenStays
<1> USE DEF TypeOK, CallsHaveSessions, TokenStays, Goto, Return, Replying
<1>1. CASE UNCHANGED vars
  BY <1>1 DEF vars, callVars, tokenVars
<1>2. ASSUME NEW c \in Callers, NEW s \in Sessions, Call(c, s)
      PROVE  tokens'[session'[d]] = d \/ d \in orphans'
  BY <1>2 DEF Call, tokenVars
<1>3. ASSUME NEW c \in Callers, CreateStep(c)
      PROVE  tokens'[session'[d]] = d \/ d \in orphans'
  <2>1. /\ UNCHANGED <<tokens, orphans>>
        /\ pc[d] \in Replying /\ session'[d] = session[d]
    BY <1>3 DEF CreateStep, Create, Acquire, CloneLock, Recheck, BuildFails, Push,
                Fail, PruneEvicted, Leave, DropCall, Guarded, tokenVars
  <2> QED
    BY <2>1
<1>4. ASSUME NEW c \in Callers, ReplyStep(c)
      PROVE  tokens'[session'[d]] = d \/ d \in orphans'
  <2>1. CASE Register(c)
    BY <2>1, ManagerAssumption DEF Register, Busy
  <2>2. CASE Done(c) \/ ReplyEnds(c) \/ ReplyDropped(c)
    BY <2>2 DEF Done, ReplyEnds, ReplyDropped, tokenVars
  <2>3. CASE Unregister(c)
    <3>1. /\ c # d /\ pc[d] \in Replying /\ session'[d] = session[d]
          /\ pc[c] \in Replying
      BY <2>3 DEF Unregister
    <3>2. tokens[session[d]] = d \/ d \in orphans
      BY <3>1
    <3>3. CASE d \in orphans
      BY <2>3, <3>1, <3>3 DEF Unregister
    <3>4. CASE c \notin orphans /\ d \notin orphans
      <4>1. session[c] # session[d]
        BY <3>1, <3>2, <3>4
      <4> QED
        BY <2>3, <3>1, <3>2, <3>4, <4>1 DEF Unregister
    <3>5. CASE c \in orphans /\ d \notin orphans
      BY <2>3, <3>1, <3>2, <3>5 DEF Unregister, Owner
    <3> QED
      BY <3>3, <3>4, <3>5
  <2>4. CASE DropDisarmed(c)
    BY <2>4 DEF DropDisarmed
  <2> QED
    BY <1>4, <2>1, <2>2, <2>3, <2>4 DEF ReplyStep
<1>5. ASSUME NEW x \in Removers, NEW s \in Sessions, RemoveToken(x, s)
      PROVE  tokens'[session'[d]] = d \/ d \in orphans'
  BY <1>5 DEF RemoveToken, Owner, callVars
<1>6. ASSUME NEW x \in Removers, RemoveStep(x)
      PROVE  tokens'[session'[d]] = d \/ d \in orphans'
  BY <1>6 DEF RemoveStep, Pop, PruneRemoved, DropRemove, callVars, tokenVars
<1> QED
  BY <1>1, <1>2, <1>3, <1>4, <1>5, <1>6, StepCases

\* The token of a reply stays in the table until the reply ends, whatever
\* earlier replies of its session have still to clean up, unless a removal of
\* the session takes it, or the end of a reply that was robbed in this way.
THEOREM ReplyIsBusy == Spec => []BusyWhileReplying
<1>1. Init => TokenStays
  BY DEF Init, TokenStays, Replying
<1>2. TypeOK /\ CallsHaveSessions /\ TokenStays /\ [Next]_vars
         => (TypeOK /\ CallsHaveSessions /\ TokenStays)'
  BY TypeStep, BusyStep
<1>3. TokenStays => BusyWhileReplying
  BY DEF TokenStays, BusyWhileReplying, Replying
<1> QED
  BY <1>1, <1>2, <1>3, TypeInit, PTL DEF Spec

-----------------------------------------------------------------------------
\* Who will see to the lock of session s: a caller that is creating its agent
\* or has evicted it, or the one that removes it.
Creating(c, s) ==
    \/ session[c] = s /\ pc[c] \in {"wait", "locked", "build", "failed"}
    \/ evicted[c] = s /\ pc[c] = "evict"

Removing(x, s) == removed[x] = s /\ rpc[x] = "prune"

LocksAccounted ==
    \A s \in Sessions : locks[s] # NoLock =>
        \/ s \in cached \cup kept
        \/ \E c \in Callers : Creating(c, s)
        \/ \E x \in Removers : Removing(x, s)

\* A prune of session t takes the entry out, or it is cached or kept.
LEMMA PruneAccounts ==
    ASSUME TypeOK, NEW t \in Sessions, Prune(t)
    PROVE  /\ locks'[t] # NoLock => t \in cached \cup kept'
           /\ \A s \in Sessions \ {t} :
                 /\ locks'[s] = locks[s]
                 /\ s \in kept => s \in kept'
  BY DEF Prune, Keep, TypeOK

LEMMA CreateAccounts ==
    ASSUME TypeOK, CallsHaveSessions, LocksAccounted, NEW c \in Callers,
           CreateStep(c)
    PROVE  LocksAccounted'
<1> SUFFICES ASSUME NEW s \in Sessions, locks'[s] # NoLock,
                    s \notin cached' \cup kept',
                    \A x \in Removers : ~Removing(x, s)
             PROVE  \E d \in Callers : Creating(d, s)'
  <2>1. UNCHANGED removeVars
    BY DEF CreateStep, Create, Acquire, CloneLock, Recheck, BuildFails, Push,
           Fail, PruneEvicted, Leave, DropCall
  <2> QED
    BY <2>1 DEF LocksAccounted, Removing, removeVars
<1> USE DEF TypeOK, CallsHaveSessions, LocksAccounted, Creating, Goto, Return,
            Guarded
<1>1. CASE Acquire(c)
  BY <1>1 DEF Acquire, cacheVars
<1>2. CASE CloneLock(c)
  BY <1>2 DEF CloneLock
<1>3. CASE Recheck(c)
  BY <1>3 DEF Recheck, MustBuild, cacheVars
<1>4. CASE BuildFails(c)
  BY <1>4 DEF BuildFails, cacheVars
<1>5. CASE Push(c)
  <2>1. s # session[c] /\ locks[s] # NoLock /\ s \notin kept
    BY <1>5 DEF Push
  <2>2. CASE s \in cached
    BY <1>5, <2>1, <2>2 DEF Push
  <2>3. CASE s \notin cached
    <3>1. PICK d \in Callers : Creating(d, s)
      BY <2>1, <2>3
    <3>2. d # c
      BY <1>5, <2>1, <3>1 DEF Push
    <3> QED
      BY <1>5, <3>1, <3>2 DEF Push
  <2> QED
    BY <2>2, <2>3
<1>6. CASE Fail(c)
  <2>1. session[c] \in Sessions /\ Prune(session[c]) /\ UNCHANGED cached
    BY <1>6 DEF Fail, PruneFailed
  <2>2. s # session[c] /\ locks[s] # NoLock /\ s \notin cached \cup kept
    BY <2>1, PruneAccounts
  <2> QED
    BY <1>6, <2>2 DEF Fail
<1>7. CASE PruneEvicted(c)
  <2>1. evicted[c] \in Sessions /\ Prune(evicted[c]) /\ UNCHANGED cached
    BY <1>7 DEF PruneEvicted
  <2>2. s # evicted[c] /\ locks[s] # NoLock /\ s \notin cached \cup kept
    BY <2>1, PruneAccounts
  <2> QED
    BY <1>7, <2>2 DEF PruneEvicted
<1>8. CASE Leave(c)
  BY <1>8 DEF Leave, cacheVars
<1>9. CASE DropCall(c)
  BY <1>9 DEF DropCall, Keep
<1> QED
  BY <1>1, <1>2, <1>3, <1>4, <1>5, <1>6, <1>7, <1>8, <1>9 DEF CreateStep, Create

LEMMA RemoveAccounts ==
    ASSUME TypeOK, CallsHaveSessions, LocksAccounted, NEW x \in Removers,
           RemoveStep(x)
    PROVE  LocksAccounted'
<1> SUFFICES ASSUME NEW s \in Sessions, locks'[s] # NoLock,
                    s \notin cached' \cup kept',
                    \A c \in Callers : ~Creating(c, s)
             PROVE  \E y \in Removers : Removing(y, s)'
  <2>1. UNCHANGED callVars
    BY DEF RemoveStep, Pop, PruneRemoved, DropRemove
  <2> QED
    BY <2>1 DEF LocksAccounted, Creating, callVars
<1> USE DEF TypeOK, CallsHaveSessions, LocksAccounted, Removed, Removing
<1>1. CASE Pop(x)
  BY <1>1 DEF Pop
<1>2. CASE PruneRemoved(x)
  <2>1. removed[x] \in Sessions /\ Prune(removed[x]) /\ UNCHANGED cached
    BY <1>2 DEF PruneRemoved
  <2>2. s # removed[x] /\ locks[s] # NoLock /\ s \notin cached \cup kept
    BY <2>1, PruneAccounts
  <2> QED
    BY <1>2, <2>2 DEF PruneRemoved
<1>3. CASE DropRemove(x)
  BY <1>3 DEF DropRemove, Keep
<1> QED
  BY <1>1, <1>2, <1>3 DEF RemoveStep

LEMMA AccountStep ==
    ASSUME TypeOK, CallsHaveSessions, LocksAccounted, [Next]_vars
    PROVE  LocksAccounted'
<1> USE DEF TypeOK, CallsHaveSessions, LocksAccounted, Creating, Removing
<1>1. CASE UNCHANGED vars
  BY <1>1 DEF vars, cacheVars, callVars, removeVars
<1>2. ASSUME NEW c \in Callers, NEW s \in Sessions, Call(c, s)
      PROVE  LocksAccounted'
  BY <1>2 DEF Call, cacheVars, removeVars
<1>3. ASSUME NEW c \in Callers, ReplyStep(c)
      PROVE  LocksAccounted'
  <2>1. /\ UNCHANGED <<cached, locks, kept, evicted, removed, rpc>>
        /\ \A d \in Callers, s \in Sessions : Creating(d, s) => Creating(d, s)'
    BY <1>3 DEF ReplyStep, Register, Done, ReplyEnds, ReplyDropped, Unregister,
                DropDisarmed, Goto, Return, cacheVars, removeVars
  <2> QED
    BY <2>1
<1>4. ASSUME NEW x \in Removers, NEW s \in Sessions, RemoveToken(x, s)
      PROVE  LocksAccounted'
  BY <1>4 DEF RemoveToken, cacheVars, callVars
<1> QED
  BY <1>1, <1>2, <1>3, <1>4, StepCases, CreateAccounts, RemoveAccounts

\* No creation lock stays behind for a session that is not cached and that
\* nobody is about to see to, unless somebody's clone kept it there.
THEOREM LocksArePruned == Spec => []LocksPruned
<1>1. Init => LocksAccounted
  BY DEF Init, LocksAccounted
<1>2. LocksAccounted => LocksPruned
  BY DEF LocksAccounted, LocksPruned, Creating, Removing
<1>3. TypeOK /\ CallsHaveSessions /\ LocksAccounted /\ [Next]_vars
         => (TypeOK /\ CallsHaveSessions /\ LocksAccounted)'
  BY TypeStep, AccountStep
<1> QED
  BY <1>1, <1>2, <1>3, TypeInit, PTL DEF Spec
=============================================================================
