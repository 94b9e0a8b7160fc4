------------------------- MODULE SessionReplyProofs -------------------------
(***************************************************************************)
(* What SessionReply guarantees for any number of tasks and request ids.   *)
(*                                                                         *)
(* That every entry of the registry belongs to a task that has yet to      *)
(* clean up needs no assumption on the clients.  That at most one request  *)
(* is live, and that it can be cancelled, needs ids that are never reused: *)
(* the invariant is then that a task keeps its entry until it is cancelled *)
(* or cleans up, and that at most one entry is not cancelled.              *)
(***************************************************************************)
EXTENDS SessionReply, TLAPS

\* A task that has been accepted and has not cleaned up.
Accepted(t) == pc[t] \in Running \cup Dropped

\* An entry is under the id of its task, which has yet to clean up.
EntriesAreAccepted ==
    \A r \in RequestIds : active[r] # NoTask =>
        id[active[r]] = r /\ Accepted(active[r])

\* A task that is not cancelled keeps its entry until it cleans up.
AcceptedIsRegistered ==
    \A t \in Tasks : Accepted(t) /\ t \notin cancelled => active[id[t]] = t

OneUncancelledEntry ==
    \A r, q \in RequestIds :
        /\ active[r] \in Tasks \ cancelled
        /\ active[q] \in Tasks \ cancelled
        => r = q

IdsAreUnique == \A t, u \in Tasks : id[t] = id[u] => t = u

RegistryInv == TypeOK /\ EntriesAreAccepted

UniqueIdsInv ==
    /\ RegistryInv
    /\ IdsAreUnique
    /\ AcceptedIsRegistered
    /\ OneUncancelledEntry

-----------------------------------------------------------------------------
\* What try_register_request leaves in the registry: the entries that are not
\* cancelled, as they were.
LEMMA RetainKeepsUncancelled ==
    ASSUME TypeOK
    PROVE  /\ Retain(active) \in [RequestIds -> Tasks \cup {NoTask}]
           /\ \A r \in RequestIds : Retain(active)[r] # NoTask =>
                 Retain(active)[r] = active[r] /\ active[r] \notin cancelled
           /\ \A r \in RequestIds :
                 active[r] \notin cancelled => Retain(active)[r] = active[r]
  BY ReplyAssumption DEF Retain, TypeOK

\* A registered request is a request id's task; every step keeps the types.
LEMMA TypeStep ==
    ASSUME TypeOK, [Next]_vars
    PROVE  TypeOK'
<1> USE ReplyAssumption DEF TypeOK
<1>1. CASE UNCHANGED vars
  BY <1>1 DEF vars
<1>2. ASSUME NEW t \in Tasks, Post(t)
      PROVE  TypeOK'
  <2>1. Retain(active) \in [RequestIds -> Tasks \cup {NoTask}]
    BY RetainKeepsUncancelled
  <2>2. active' \in [RequestIds -> Tasks \cup {NoTask}]
    BY <1>2, <2>1 DEF Post
  <2>3. pc' \in [Tasks -> Pcs]
    BY <1>2 DEF Post, Pcs, Running
  <2> QED
    BY <1>2, <2>2, <2>3 DEF Post
<1>3. ASSUME NEW r \in RequestIds, Cancel(r)
      PROVE  TypeOK'
  BY <1>3 DEF Cancel
<1>4. ASSUME NEW t \in Tasks, Step(t) \/ Panic(t)
      PROVE  TypeOK'
  <2>1. active' \in [RequestIds -> Tasks \cup {NoTask}]
    BY <1>4 DEF Step, FailToStart, Start, StreamError, StreamEnd, Finish,
                Clean, GuardCleanup, Panic, CleanupRequest
  <2>2. pc' \in [Tasks -> Pcs]
    BY <1>4 DEF Step, FailToStart, Start, StreamError, StreamEnd, Finish,
                Clean, GuardCleanup, Panic, Pcs, Running, Dropped
  <2>3. answered' \subseteq Tasks
    BY <1>4 DEF Step, FailToStart, Start, StreamError, StreamEnd, Finish,
                Clean, GuardCleanup, Panic, PublishEnd
  <2>4. UNCHANGED <<cancelled, id>>
    BY <1>4 DEF Step, FailToStart, Start, StreamError, StreamEnd, Finish,
                Clean, GuardCleanup, Panic
  <2> QED
    BY <2>1, <2>2, <2>3, <2>4
<1> QED
  BY <1>1, <1>2, <1>3, <1>4 DEF Next

\* A registry without entries and tasks that are not posted have their types.
LEMMA TypeInit == Init => TypeOK
  BY ReplyAssumption DEF Init, TypeOK, Pcs

\* Types of the variables.
THEOREM TypeCorrect == Spec => []TypeOK
<1>1. TypeOK /\ [Next]_vars => TypeOK'
  BY TypeStep
<1> QED
  BY <1>1, TypeInit, PTL DEF Spec

-----------------------------------------------------------------------------
\* A step of an accepted task that neither registers nor cleans up.
Inner(t) ==
    \/ FailToStart(t) \/ Start(t) \/ StreamError(t) \/ StreamEnd(t)
    \/ Finish(t) \/ Panic(t)

\* Between its registration and its clean-up a task leaves the registry alone.
LEMMA InnerKeepsAccepted ==
    ASSUME TypeOK, NEW t \in Tasks, Inner(t)
    PROVE  /\ UNCHANGED <<active, cancelled, id>>
           /\ \A u \in Tasks : Accepted(u)' <=> Accepted(u)
<1>1. UNCHANGED <<active, cancelled, id>>
  BY DEF Inner, FailToStart, Start, StreamError, StreamEnd, Finish, Panic
<1>2. pc[t] \in Running /\ pc'[t] \in Running \cup Dropped
  BY DEF Inner, FailToStart, Start, StreamError, StreamEnd, Finish, Panic, Running, Dropped, TypeOK
<1>3. \A u \in Tasks \ {t} : pc'[u] = pc[u]
  BY DEF Inner, FailToStart, Start, StreamError, StreamEnd, Finish, Panic, TypeOK
<1> QED
  BY <1>1, <1>2, <1>3 DEF Accepted

\* The end of a task: its id is removed from the registry.
LEMMA CleanupRemovesEntry ==
    ASSUME TypeOK, NEW t \in Tasks, Clean(t) \/ GuardCleanup(t)
    PROVE  /\ UNCHANGED <<cancelled, id>>
           /\ active' = [active EXCEPT ![id[t]] = NoTask]
           /\ ~Accepted(t)'
           /\ \A u \in Tasks \ {t} : Accepted(u)' <=> Accepted(u)
  BY DEF Clean, GuardCleanup, CleanupRequest, TypeOK, Accepted, Running,
         Dropped

\* A POST: refused, or registered when every other entry is cancelled.
LEMMA PostRegisters ==
    ASSUME TypeOK, NEW t \in Tasks, Post(t)
    PROVE  /\ UNCHANGED <<cancelled, id>>
           /\ ~Accepted(t)
           /\ \A u \in Tasks \ {t} : Accepted(u)' <=> Accepted(u)
           /\ \/ ~Accepted(t)' /\ active' = Retain(active)
              \/ /\ Accepted(t)'
                 /\ \A r \in RequestIds : Retain(active)[r] = NoTask
                 /\ active' = [Retain(active) EXCEPT ![id[t]] = t]
<1>1. /\ UNCHANGED <<cancelled, id>>
      /\ ~Accepted(t)
      /\ \A u \in Tasks \ {t} : Accepted(u)' <=> Accepted(u)
  BY DEF Post, TypeOK, Accepted, Running, Dropped
<1>2. CASE Free(Retain(active))
  BY <1>1, <1>2 DEF Post, TypeOK, Accepted, Running, Free
<1>3. CASE ~Free(Retain(active))
  BY <1>1, <1>3 DEF Post, TypeOK, Accepted, Running, Dropped
<1> QED
  BY <1>1, <1>2, <1>3

\* Every step keeps the registry free of entries of tasks that are gone.
LEMMA RegistryStep ==
    ASSUME RegistryInv, [Next]_vars
    PROVE  RegistryInv'
<1>1. TypeOK /\ TypeOK'
  BY TypeStep DEF RegistryInv
<1>2. EntriesAreAccepted
  BY DEF RegistryInv
<1>3. CASE UNCHANGED vars
  BY <1>1, <1>2, <1>3 DEF vars, RegistryInv, EntriesAreAccepted, Accepted
<1>4. ASSUME NEW t \in Tasks, Post(t)
      PROVE  EntriesAreAccepted'
  <2>1. SUFFICES ASSUME NEW r \in RequestIds, active'[r] # NoTask
                 PROVE  /\ id'[active'[r]] = r
                        /\ pc'[active'[r]] \in Running \cup Dropped
    BY DEF EntriesAreAccepted, Accepted
  <2>2. CASE active'[r] = Retain(active)[r]
    <3>1. active'[r] = active[r] /\ active[r] \in Tasks
      BY <1>1, <2>1, <2>2, RetainKeepsUncancelled DEF TypeOK
    <3>2. id[active[r]] = r /\ Accepted(active[r])
      BY <1>2, <2>1, <3>1 DEF EntriesAreAccepted
    <3> QED
      BY <1>1, <1>4, <3>1, <3>2, PostRegisters DEF Accepted
  <2>3. CASE active'[r] # Retain(active)[r]
    <3>1. Accepted(t)' /\ active' = [Retain(active) EXCEPT ![id[t]] = t]
      BY <1>1, <1>4, <2>3, PostRegisters
    <3>2. r = id[t] /\ active'[r] = t
      BY <1>1, <2>3, <3>1, RetainKeepsUncancelled
    <3> QED
      BY <1>1, <1>4, <3>1, <3>2, PostRegisters DEF Accepted
  <2> QED
    BY <2>2, <2>3
<1>5. ASSUME NEW r \in RequestIds, Cancel(r)
      PROVE  EntriesAreAccepted'
  BY <1>2, <1>5 DEF Cancel, EntriesAreAccepted, Accepted
<1>6. ASSUME NEW t \in Tasks, Inner(t)
      PROVE  EntriesAreAccepted'
  BY <1>1, <1>2, <1>6, InnerKeepsAccepted DEF EntriesAreAccepted, Accepted,
     TypeOK
<1>7. ASSUME NEW t \in Tasks, Clean(t) \/ GuardCleanup(t)
      PROVE  EntriesAreAccepted'
  <2>1. SUFFICES ASSUME NEW r \in RequestIds, active'[r] # NoTask
                 PROVE  /\ id'[active'[r]] = r
                        /\ pc'[active'[r]] \in Running \cup Dropped
    BY DEF EntriesAreAccepted, Accepted
  <2>2. r # id[t] /\ active'[r] = active[r] /\ active[r] \in Tasks
    BY <1>1, <1>7, <2>1, CleanupRemovesEntry DEF TypeOK
  <2>3. id[active[r]] = r /\ Accepted(active[r])
    BY <1>2, <2>1, <2>2 DEF EntriesAreAccepted
  <2> QED
    BY <1>1, <1>7, <2>2, <2>3, CleanupRemovesEntry DEF Accepted
<1> QED
  BY <1>1, <1>3, <1>4, <1>5, <1>6, <1>7
     DEF Next, Step, Inner, RegistryInv

\* The registry starts empty.
LEMMA RegistryInit == Init => RegistryInv
  BY TypeInit DEF Init, RegistryInv, EntriesAreAccepted

\* The registry leaks no entry, however clients choose and reuse ids, cancel,
\* and however tasks fail or panic: an entry's task has yet to clean up.
THEOREM NoEntryLeaks == Spec => []NoLeakedEntry
<1>1. RegistryInv /\ [Next]_vars => RegistryInv'
  BY RegistryStep
<1>2. RegistryInv => NoLeakedEntry
  BY DEF RegistryInv, EntriesAreAccepted, Accepted, NoLeakedEntry
<1> QED
  BY <1>1, <1>2, RegistryInit, PTL DEF Spec

-----------------------------------------------------------------------------
\* With ids used once, every step keeps accepted tasks registered under their
\* ids, and at most one of them uncancelled.
LEMMA UniqueIdsStep ==
    ASSUME UniqueIdsInv, [Next]_vars
    PROVE  UniqueIdsInv'
<1>1. RegistryInv'
  BY RegistryStep DEF UniqueIdsInv
<1>2. /\ TypeOK /\ TypeOK' /\ EntriesAreAccepted
      /\ IdsAreUnique /\ AcceptedIsRegistered /\ OneUncancelledEntry
  BY <1>1 DEF UniqueIdsInv, RegistryInv
<1>3. UNCHANGED id
  BY DEF Next, vars, Post, Cancel, Step, FailToStart, Start, StreamError,
         StreamEnd, Finish, Clean, GuardCleanup, Panic
<1>4. IdsAreUnique'
  BY <1>2, <1>3 DEF IdsAreUnique
<1>5. CASE UNCHANGED vars
  BY <1>1, <1>2, <1>4, <1>5
     DEF vars, UniqueIdsInv, AcceptedIsRegistered, OneUncancelledEntry, Accepted
<1>6. ASSUME NEW t \in Tasks, Post(t)
      PROVE  AcceptedIsRegistered' /\ OneUncancelledEntry'
  <2>1. CASE ~Accepted(t)' /\ active' = Retain(active)
    <3>1. \A r \in RequestIds : active'[r] # NoTask => active'[r] = active[r]
      BY <1>2, <2>1, RetainKeepsUncancelled
    <3>2. OneUncancelledEntry'
      BY <1>2, <1>6, <3>1, PostRegisters, ReplyAssumption
         DEF OneUncancelledEntry
    <3>3. ASSUME NEW u \in Tasks, Accepted(u)', u \notin cancelled'
          PROVE  active'[id'[u]] = u
      <4>1. u # t /\ Accepted(u) /\ u \notin cancelled /\ id' = id
        BY <1>2, <1>6, <2>1, <3>3, PostRegisters
      <4>2. active[id[u]] = u /\ id[u] \in RequestIds
        BY <1>2, <4>1 DEF AcceptedIsRegistered, TypeOK
      <4> QED
        BY <1>2, <2>1, <4>1, <4>2, RetainKeepsUncancelled
    <3> QED
      BY <3>2, <3>3 DEF AcceptedIsRegistered, Accepted
  <2>2. CASE /\ Accepted(t)'
             /\ \A r \in RequestIds : Retain(active)[r] = NoTask
             /\ active' = [Retain(active) EXCEPT ![id[t]] = t]
    <3>1. /\ id[t] \in RequestIds
          /\ active'[id[t]] = t
          /\ \A r \in RequestIds \ {id[t]} : active'[r] = NoTask
      BY <1>2, <2>2, RetainKeepsUncancelled DEF TypeOK
    <3>2. OneUncancelledEntry'
      BY <3>1, ReplyAssumption DEF OneUncancelledEntry
    <3>3. ASSUME NEW u \in Tasks, Accepted(u)', u \notin cancelled', u # t
          PROVE  FALSE
      <4>1. Accepted(u) /\ u \notin cancelled
        BY <1>2, <1>6, <3>3, PostRegisters
      <4>2. active[id[u]] = u /\ id[u] \in RequestIds
        BY <1>2, <4>1 DEF AcceptedIsRegistered, TypeOK
      <4>3. Retain(active)[id[u]] = u
        BY <1>2, <4>1, <4>2, RetainKeepsUncancelled
      <4> QED
        BY <2>2, <4>2, <4>3, ReplyAssumption
    <3> QED
      BY <1>3, <3>1, <3>2, <3>3 DEF AcceptedIsRegistered, Accepted
  <2> QED
    BY <1>2, <1>6, <2>1, <2>2, PostRegisters
<1>7. ASSUME NEW r \in RequestIds, Cancel(r)
      PROVE  AcceptedIsRegistered' /\ OneUncancelledEntry'
  BY <1>2, <1>7
     DEF Cancel, AcceptedIsRegistered, OneUncancelledEntry, Accepted
<1>8. ASSUME NEW t \in Tasks, Inner(t)
      PROVE  AcceptedIsRegistered' /\ OneUncancelledEntry'
  <2>1. /\ UNCHANGED <<active, cancelled, id>>
        /\ \A u \in Tasks : Accepted(u)' <=> Accepted(u)
    BY <1>2, <1>8, InnerKeepsAccepted
  <2> QED
    BY <1>2, <2>1 DEF AcceptedIsRegistered, OneUncancelledEntry, Accepted
<1>9. ASSUME NEW t \in Tasks, Clean(t) \/ GuardCleanup(t)
      PROVE  AcceptedIsRegistered' /\ OneUncancelledEntry'
  <2>1. /\ UNCHANGED <<cancelled, id>>
        /\ active' = [active EXCEPT ![id[t]] = NoTask]
        /\ ~Accepted(t)'
        /\ \A u \in Tasks \ {t} : Accepted(u)' <=> Accepted(u)
    BY <1>2, <1>9, CleanupRemovesEntry
  <2>2. OneUncancelledEntry'
    BY <1>2, <2>1, ReplyAssumption DEF OneUncancelledEntry, TypeOK
  <2>3. ASSUME NEW u \in Tasks, Accepted(u)', u \notin cancelled'
        PROVE  active'[id'[u]] = u
    <3>1. u # t /\ Accepted(u) /\ u \notin cancelled
      BY <2>1, <2>3
    <3>2. active[id[u]] = u /\ id[u] # id[t]
      BY <1>2, <3>1 DEF AcceptedIsRegistered, IdsAreUnique
    <3> QED
      BY <1>2, <2>1, <3>2 DEF TypeOK
  <2> QED
    BY <2>2, <2>3 DEF AcceptedIsRegistered, Accepted
<1> QED
  BY <1>1, <1>4, <1>5, <1>6, <1>7, <1>8, <1>9
     DEF Next, Step, Inner, UniqueIdsInv

\* Nothing is accepted at the start.
LEMMA UniqueIdsInit == UniqueIds /\ Init => UniqueIdsInv
<1> SUFFICES ASSUME UniqueIds, Init
             PROVE  UniqueIdsInv
  OBVIOUS
<1>1. RegistryInv
  BY RegistryInit
<1>2. IdsAreUnique
  BY DEF Init, IdsAreUnique
<1>3. AcceptedIsRegistered
  BY DEF Init, AcceptedIsRegistered, Accepted, Running, Dropped
<1>4. OneUncancelledEntry
  BY ReplyAssumption DEF Init, OneUncancelledEntry
<1> QED
  BY <1>1, <1>2, <1>3, <1>4 DEF UniqueIdsInv

\* With ids that are never reused a session never has two live requests.
THEOREM AtMostOneLiveRequest ==
    ASSUME UniqueIds
    PROVE  Spec => []OneLiveRequest
<1>1. UniqueIdsInv /\ [Next]_vars => UniqueIdsInv'
  BY UniqueIdsStep
<1>2. UniqueIdsInv => OneLiveRequest
  <2> SUFFICES ASSUME UniqueIdsInv, NEW t \in Tasks, NEW u \in Tasks,
                      Live(t), Live(u)
               PROVE  t = u
    BY DEF OneLiveRequest
  <2>1. active[id[t]] = t /\ active[id[u]] = u
    BY DEF UniqueIdsInv, AcceptedIsRegistered, Accepted, Live
  <2>2. id[t] \in RequestIds /\ id[u] \in RequestIds
    BY DEF UniqueIdsInv, RegistryInv, TypeOK
  <2> QED
    BY <2>1, <2>2 DEF UniqueIdsInv, OneUncancelledEntry, Live
<1>3. Init => UniqueIdsInv
  BY UniqueIdsInit
<1> QED
  BY <1>1, <1>2, <1>3, PTL DEF Spec

\* ... and session_cancel always reaches the one it has.
THEOREM LiveRequestIsCancellable ==
    ASSUME UniqueIds
    PROVE  Spec => []LiveIsCancellable
<1>1. UniqueIdsInv /\ [Next]_vars => UniqueIdsInv'
  BY UniqueIdsStep
<1>2. UniqueIdsInv => LiveIsCancellable
  BY DEF UniqueIdsInv, AcceptedIsRegistered, Accepted, Live, LiveIsCancellable
<1>3. Init => UniqueIdsInv
  BY UniqueIdsInit
<1> QED
  BY <1>1, <1>2, <1>3, PTL DEF Spec
=============================================================================
