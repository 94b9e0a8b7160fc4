----------------------- MODULE SessionEventBusProofs -----------------------
(***************************************************************************)
(* The replay buffer of SessionEventBus, for any capacity, any number of   *)
(* publishers and clients, and any number of restarts; and the handoff     *)
(* from replayed to live events, for which the buffer is all one needs:    *)
(* under its lock the snapshot finds every event the client lacks.  No     *)
(* frame is sent twice on a connection, and, while publishers broadcast in *)
(* the order of their numbers, a client gets every event once, in order.   *)
(***************************************************************************)
EXTENDS SessionEventBus, FiniteSetTheorems, TLAPS

\* The types of the variables the buffer's contents depend on.
BusTypes ==
    /\ next_seq \in Nat \ {0}
    /\ buffer \in Seq(Nat)

BufferInv == BusTypes /\ BufferHoldsNewest

\* LastN keeps the last n elements of a sequence, in order.
LEMMA LastNProperties ==
    ASSUME NEW s \in Seq(Nat), NEW n \in Nat
    PROVE  /\ LastN(s, n) \in Seq(Nat)
           /\ Len(LastN(s, n)) = Lesser(Len(s), n)
           /\ \A i \in 1..Len(LastN(s, n)) :
                 LastN(s, n)[i] = s[Len(s) - Len(LastN(s, n)) + i]
<1>1. CASE Len(s) > n
  <2>1. LastN(s, n) = SubSeq(s, Len(s) - n + 1, Len(s))
    BY <1>1 DEF LastN
  <2>2. Len(LastN(s, n)) = n /\ LastN(s, n) \in Seq(Nat)
    BY <1>1, <2>1
  <2>3. \A i \in 1..n : LastN(s, n)[i] = s[Len(s) - n + i]
    BY <1>1, <2>1
  <2> QED
    BY <1>1, <2>2, <2>3 DEF Lesser
<1>2. CASE ~(Len(s) > n)
  BY <1>2 DEF LastN, Lesser
<1> QED
  BY <1>1, <1>2

\* The buffer starts empty.
LEMMA BufferInit == Init => BufferInv
  BY BusAssumption DEF Init, BufferInv, BusTypes, BufferHoldsNewest, Lesser

\* publish keeps the newest events and evicts the oldest.
LEMMA PushKeepsNewest ==
    ASSUME BufferInv, NEW p \in Publishers, Push(p)
    PROVE  BufferInv'
<1> DEFINE b == Append(buffer, next_seq)
<1>1. /\ next_seq \in Nat \ {0}
      /\ buffer \in Seq(Nat)
      /\ ReplayCap \in Nat \ {0}
  BY BusAssumption DEF BufferInv, BusTypes
<1>2. /\ Len(buffer) = Lesser(next_seq - 1, ReplayCap)
      /\ \A i \in 1..Len(buffer) : buffer[i] = next_seq - 1 - Len(buffer) + i
  BY DEF BufferInv, BufferHoldsNewest
<1>3. /\ b \in Seq(Nat)
      /\ Len(b) = Len(buffer) + 1
      /\ \A i \in 1..Len(b) : b[i] = next_seq - Len(b) + i
  <2>1. b \in Seq(Nat) /\ Len(b) = Len(buffer) + 1 /\ Len(buffer) \in Nat
    BY <1>1
  <2>2. b[Len(b)] = next_seq
    BY <1>1, <2>1
  <2>3. ASSUME NEW i \in 1..Len(buffer)
        PROVE  b[i] = next_seq - 1 - Len(buffer) + i
    <3>1. b[i] = buffer[i]
      BY <1>1
    <3> QED
      BY <1>2, <3>1
  <2> HIDE DEF b
  <2>4. ASSUME NEW i \in 1..Len(b)
        PROVE  b[i] = next_seq - Len(b) + i
    <3>1. CASE i = Len(b)
      BY <1>1, <2>1, <2>2, <3>1
    <3>2. CASE i # Len(b)
      <4>1. i \in 1..Len(buffer)
        BY <2>1, <3>2
      <4> QED
        BY <1>1, <2>1, <2>3, <4>1
    <3> QED
      BY <3>1, <3>2
  <2> QED
    BY <2>1, <2>4
<1>4. next_seq' = next_seq + 1 /\ buffer' = LastN(b, ReplayCap)
  BY DEF Push
<1> HIDE DEF b
<1>5. /\ buffer' \in Seq(Nat)
      /\ Len(buffer') = Lesser(Len(b), ReplayCap)
      /\ \A i \in 1..Len(buffer') :
            buffer'[i] = b[Len(b) - Len(buffer') + i]
  BY <1>1, <1>3, <1>4, LastNProperties
<1>6. Len(buffer') = Lesser(next_seq' - 1, ReplayCap)
  BY <1>1, <1>2, <1>3, <1>4, <1>5 DEF Lesser
<1>7. ASSUME NEW i \in 1..Len(buffer')
      PROVE  buffer'[i] = next_seq' - 1 - Len(buffer') + i
  <2>1. Len(b) \in Nat /\ Len(buffer') \in Nat /\ Len(buffer') <= Len(b)
    BY <1>1, <1>3, <1>5 DEF Lesser
  <2>2. Len(b) - Len(buffer') + i \in 1..Len(b)
    BY <2>1
  <2>3. b[Len(b) - Len(buffer') + i]
           = next_seq - Len(b) + (Len(b) - Len(buffer') + i)
    BY <1>3, <2>2
  <2>4. buffer'[i] = b[Len(b) - Len(buffer') + i]
    BY <1>5
  <2> QED
    BY <1>1, <1>4, <2>1, <2>3, <2>4
<1>8. next_seq' \in Nat \ {0}
  BY <1>1, <1>4
<1> QED
  BY <1>5, <1>6, <1>7, <1>8 DEF BufferInv, BusTypes, BufferHoldsNewest

\* No other step touches the buffer, but for a restart, which empties it.
LEMMA BufferStep ==
    ASSUME BufferInv, [Next]_vars
    PROVE  BufferInv'
<1>1. ASSUME NEW p \in Publishers, Push(p)
      PROVE  BufferInv'
  BY <1>1, PushKeepsNewest
<1>2. CASE Restart
  BY <1>2, BusAssumption
     DEF Restart, BufferInv, BusTypes, BufferHoldsNewest, Lesser
<1>3. CASE UNCHANGED <<next_seq, buffer>>
  BY <1>3 DEF BufferInv, BusTypes, BufferHoldsNewest
<1>4. ASSUME NEW p \in Publishers, Broadcast(p)
      PROVE  UNCHANGED <<next_seq, buffer>>
  BY <1>4 DEF Broadcast
<1>5. ASSUME NEW c \in Clients, Stream(c) \/ Disconnect(c)
      PROVE  UNCHANGED <<next_seq, buffer>>
  BY <1>5 DEF Stream, Disconnect, Connect, Refuse, Snapshot, SendReplay,
              SendLive, Lagged, Deliver, EndOfStream, busVars
<1>6. CASE UNCHANGED vars
  BY <1>3, <1>6 DEF vars, busVars
<1> QED
  BY <1>1, <1>2, <1>3, <1>4, <1>5, <1>6 DEF Next

\* Whatever publishers, clients and restarts do, the replay buffer holds the
\* newest events without a hole: what subscribe concludes from its first and
\* last entry about every event in between is right.
THEOREM ReplayBufferHoldsNewest == Spec => []BufferHoldsNewest
<1>1. BufferInv /\ [Next]_vars => BufferInv'
  BY BufferStep
<1>2. BufferInv => BufferHoldsNewest
  BY DEF BufferInv
<1> QED
  BY <1>1, <1>2, BufferInit, PTL DEF Spec

-----------------------------------------------------------------------------
\* What subscribe's filter keeps: the events after id that the buffer holds.
LEMMA NewerIsSuffix ==
    ASSUME BufferInv, NEW id \in Nat
    PROVE  /\ Newer(id) \in Seq(Nat)
           /\ \A i \in 1..Len(buffer) :
                 buffer[i] > id => buffer[i] \in Range(Newer(id))
           /\ Newer(id) # <<>> => Newer(id)[Len(Newer(id))] = next_seq - 1
           /\ Newer(id) = <<>> => id >= next_seq - 1
           /\ Len(Newer(id)) <= next_seq - 1
           /\ \A i \in 1..Len(Newer(id)) :
                 Newer(id)[i] = next_seq - 1 - Len(Newer(id)) + i
           /\ next_seq - 1 - Len(buffer) <= id /\ id <= next_seq - 1
                 => Len(Newer(id)) = next_seq - 1 - id
<1> DEFINE n == Len(buffer)
           N == next_seq - 1
           kept == {i \in DOMAIN buffer : buffer[i] > id}
           m == IF id >= N THEN 0 ELSE IF id <= N - n THEN n ELSE N - id
<1>1. /\ buffer \in Seq(Nat) /\ N \in Nat /\ n \in Nat /\ n <= N
      /\ N > 0 => n > 0
      /\ \A i \in 1..n : buffer[i] = N - n + i
  BY BusAssumption DEF BufferInv, BusTypes, BufferHoldsNewest, Lesser
<1>2. /\ m \in Nat /\ m <= n /\ (m = 0 <=> id >= N)
      /\ N - n <= id /\ id < N => m = N - id
  BY <1>1
<1>3. kept = (n - m + 1)..n
  <2>1. /\ kept \subseteq 1..n
        /\ \A i \in 1..n : i \in kept <=> i > id - (N - n)
    BY <1>1
  <2>2. ASSUME NEW i \in 1..n
        PROVE  i > id - (N - n) <=> i \in (n - m + 1)..n
    BY <1>1
  <2>3. (n - m + 1)..n \subseteq 1..n
    BY <1>1, <1>2
  <2> QED
    BY <2>1, <2>2, <2>3
<1> HIDE DEF m, kept
<1>4. Cardinality(kept) = m
  BY <1>1, <1>2, <1>3, FS_Interval
<1>5. Newer(id) = LastN(buffer, m)
  BY <1>4 DEF Newer, kept
<1>6. /\ Newer(id) \in Seq(Nat) /\ Len(Newer(id)) = m
      /\ \A i \in 1..m : Newer(id)[i] = buffer[n - m + i]
  <2>1. Lesser(n, m) = m
    BY <1>1, <1>2 DEF Lesser
  <2>2. /\ LastN(buffer, m) \in Seq(Nat)
        /\ Len(LastN(buffer, m)) = Lesser(Len(buffer), m)
        /\ \A i \in 1..Len(LastN(buffer, m)) :
              LastN(buffer, m)[i] = buffer[Len(buffer) - Len(LastN(buffer, m)) + i]
    BY <1>1, <1>2, LastNProperties
  <2> QED
    BY <1>5, <2>1, <2>2
<1>7. ASSUME NEW i \in 1..n, buffer[i] > id
      PROVE  buffer[i] \in Range(Newer(id))
  <2>1. i \in kept
    BY <1>1, <1>7 DEF kept
  <2>2. i - (n - m) \in 1..m
    BY <1>1, <1>2, <1>3, <2>1
  <2>3. Newer(id)[i - (n - m)] = buffer[i] /\ i - (n - m) \in DOMAIN Newer(id)
    <3>1. PICK j \in 1..m : j = i - (n - m)
      BY <2>2
    <3>2. n - m + j = i
      BY <1>1, <1>2, <1>7, <3>1
    <3>3. Newer(id)[j] = buffer[n - m + j] /\ j \in DOMAIN Newer(id)
      BY <1>6, <3>1
    <3> QED
      BY <3>1, <3>2, <3>3
  <2> QED
    BY <2>3 DEF Range
<1>8. ASSUME Newer(id) # <<>>
      PROVE  Newer(id)[Len(Newer(id))] = N
  <2>1. m \in 1..m /\ n \in 1..n
    BY <1>1, <1>2, <1>6, <1>8
  <2>2. Newer(id)[m] = buffer[n - m + m]
    BY <1>6, <2>1
  <2>3. n - m + m = n
    BY <1>1, <1>2
  <2>4. buffer[n] = N
    <3>1. buffer[n] = N - n + n
      BY <1>1, <2>1
    <3> QED
      BY <1>1, <3>1
  <2> QED
    BY <1>6, <2>2, <2>3, <2>4
<1>9. Newer(id) = <<>> => id >= N
  BY <1>2, <1>6
<1>10. ASSUME NEW i \in 1..m
       PROVE  Newer(id)[i] = N - m + i
  <2>1. PICK j \in 1..n : j = n - m + i
    <3>1. n - m + i \in 1..n
      BY <1>1, <1>2, <1>10
    <3> QED
      BY <3>1
  <2>2. buffer[j] = N - n + j
    BY <1>1
  <2> QED
    <3>1. Newer(id)[i] = buffer[n - m + i]
      BY <1>6, <1>10
    <3>2. N - n + j = N - m + i
      BY <1>1, <1>2, <1>10, <2>1
    <3> QED
      BY <2>1, <2>2, <3>1, <3>2
<1>11. /\ m <= N
       /\ N - n <= id /\ id <= N => m = N - id
  BY <1>1, <1>2
<1> QED
  BY <1>2, <1>6, <1>7, <1>8, <1>9, <1>10, <1>11

LEMMA ReplayMaxIs ==
    ASSUME BufferInv, NEW id \in Nat
    PROVE  /\ ReplayMax(id) \in Nat
           /\ Newer(id) # <<>> => ReplayMax(id) = next_seq - 1
           /\ Newer(id) = <<>> => ReplayMax(id) = next_seq - 1 /\ id >= next_seq - 1
           /\ BufMin \in Nat
           /\ next_seq > 1 => buffer # <<>> /\ BufMin = next_seq - Len(buffer)
<1>1. /\ buffer \in Seq(Nat) /\ next_seq \in Nat \ {0} /\ Len(buffer) \in Nat
      /\ next_seq > 1 => Len(buffer) > 0
      /\ Len(buffer) <= next_seq - 1
      /\ \A i \in 1..Len(buffer) : buffer[i] = next_seq - 1 - Len(buffer) + i
  BY BusAssumption DEF BufferInv, BusTypes, BufferHoldsNewest, Lesser
<1>2. /\ BufMax = next_seq - 1
      /\ BufMin \in Nat
      /\ next_seq > 1 => buffer # <<>> /\ BufMin = next_seq - Len(buffer)
  BY <1>1 DEF BufMax, BufMin
<1>3. /\ Newer(id) # <<>> => Newer(id)[Len(Newer(id))] = next_seq - 1
      /\ Newer(id) = <<>> => id >= next_seq - 1
  BY NewerIsSuffix
<1> QED
  BY <1>1, <1>2, <1>3 DEF ReplayMax, Lesser

\* Queues lose their first element, or gain one at the end.
LEMMA RangeOfTail ==
    ASSUME NEW s \in Seq(Nat), s # <<>>
    PROVE  /\ Head(s) \in Nat /\ Tail(s) \in Seq(Nat)
           /\ Range(s) \subseteq {Head(s)} \cup Range(Tail(s))
<1>1. Head(s) \in Nat /\ Tail(s) \in Seq(Nat) /\ Len(Tail(s)) = Len(s) - 1
  OBVIOUS
<1>2. ASSUME NEW x \in Range(s)
      PROVE  x \in {Head(s)} \cup Range(Tail(s))
  <2>1. PICK i \in 1..Len(s) : s[i] = x
    BY <1>2 DEF Range
  <2>2. CASE i = 1
    BY <2>1, <2>2
  <2>3. CASE i # 1
    <3>1. i - 1 \in 1..Len(Tail(s)) /\ Tail(s)[i - 1] = s[i]
      BY <1>1, <2>1, <2>3
    <3>2. i - 1 \in DOMAIN Tail(s) /\ Tail(s)[i - 1] = x
      BY <1>1, <2>1, <3>1
    <3> QED
      BY <3>2 DEF Range
  <2> QED
    BY <2>2, <2>3
<1> QED
  BY <1>1, <1>2

LEMMA RangeOfPush ==
    ASSUME NEW s \in Seq(Nat), NEW e \in Nat, NEW n \in Nat
    PROVE  /\ LastN(Append(s, e), n) \in Seq(Nat)
           /\ Len(s) < n => Range(s) \cup {e} \subseteq Range(LastN(Append(s, e), n))
<1> DEFINE t == Append(s, e)
<1>1. t \in Seq(Nat) /\ Len(t) = Len(s) + 1 /\ t[Len(t)] = e
      /\ \A i \in 1..Len(s) : t[i] = s[i]
  OBVIOUS
<1> HIDE DEF t
<1>2. LastN(t, n) \in Seq(Nat)
  BY <1>1, LastNProperties
<1>3. Len(s) < n => LastN(t, n) = t
  BY <1>1 DEF LastN
<1>4. Range(s) \cup {e} \subseteq Range(t)
  <2>1. Len(t) \in DOMAIN t /\ DOMAIN s = 1..Len(s) /\ DOMAIN s \subseteq DOMAIN t
    BY <1>1
  <2> QED
    BY <1>1, <2>1 DEF Range
<1> QED
  BY <1>2, <1>3, <1>4 DEF t

-----------------------------------------------------------------------------
\* Types, with what the buffer holds: every step of Next keeps both.
TypeInv == TypeOK /\ BufferInv

LEMMA TypeInit == Init => TypeInv
<1> SUFFICES ASSUME Init PROVE TypeInv
  OBVIOUS
<1>1. BufferInv
  BY BufferInit
<1>2. TypeOK
  <2>1. <<>> \in Seq(Nat)
    OBVIOUS
  <2>2. /\ [c \in Clients |-> <<>>] \in [Clients -> Seq(Nat)]
        /\ [c \in Clients |-> {}] \in [Clients -> SUBSET Nat]
    BY <2>1
  <2>3. /\ rx \in [Clients -> Seq(Nat)] /\ replay \in [Clients -> Seq(Nat)]
        /\ out \in [Clients -> Seq(Nat)] /\ buffer \in Seq(Nat)
        /\ sent \in [Clients -> SUBSET Nat]
    BY <2>1, <2>2 DEF Init
  <2>4. /\ sending \in [Publishers -> Nat] /\ replay_max_seq \in [Clients -> Nat]
        /\ cursor \in [Clients -> Nat] /\ start \in [Clients -> Int]
        /\ next_seq \in Nat \ {0} /\ drops \in Nat /\ restarts \in Nat
    BY DEF Init
  <2>5. /\ phase \in [Clients -> {"closed", "subscribing", "streaming", "ending"}]
        /\ lagged \in [Clients -> BOOLEAN] /\ stale \in [Clients -> BOOLEAN]
        /\ overtaken \in BOOLEAN
    BY DEF Init
  <2> QED
    BY <2>3, <2>4, <2>5 DEF TypeOK
<1> QED
  BY <1>1, <1>2 DEF TypeInv

LEMMA PushType ==
    ASSUME TypeInv, NEW p \in Publishers, Push(p)
    PROVE  TypeOK'
<1>1. next_seq \in Nat \ {0} /\ buffer \in Seq(Nat) /\ TypeOK
  BY DEF TypeInv, TypeOK
<1>2. LastN(Append(buffer, next_seq), ReplayCap) \in Seq(Nat)
  BY <1>1, RangeOfPush, BusAssumption
<1> QED
  BY <1>1, <1>2 DEF TypeOK, Push, streamVars, clientVars, faultVars

LEMMA BroadcastType ==
    ASSUME TypeInv, NEW p \in Publishers, Broadcast(p)
    PROVE  TypeOK'
<1>1. TypeOK /\ sending[p] \in Nat /\ rx \in [Clients -> Seq(Nat)]
  BY DEF TypeInv, TypeOK
<1>2. rx' \in [Clients -> Seq(Nat)]
  <2>1. ASSUME NEW c \in Clients
        PROVE  LastN(Append(rx[c], sending[p]), BroadcastCap) \in Seq(Nat)
    BY <1>1, RangeOfPush, BusAssumption
  <2> QED
    BY <1>1, <2>1 DEF Broadcast
<1>3. lagged' \in [Clients -> BOOLEAN] /\ overtaken' \in BOOLEAN
  <2>1. ASSUME NEW c \in Clients
        PROVE  (lagged[c] \/ (c \in Receivers /\ Len(rx[c]) >= BroadcastCap))
                  \in BOOLEAN
    BY <1>1 DEF TypeOK
  <2> QED
    BY <1>1, <2>1 DEF Broadcast, TypeOK
<1>4. sending' \in [Publishers -> Nat]
  BY <1>1 DEF Broadcast, TypeOK
<1> QED
  BY <1>1, <1>2, <1>3, <1>4 DEF TypeOK, Broadcast, clientVars, faultVars

LEMMA ClientType ==
    ASSUME TypeInv, NEW c \in Clients, Stream(c) \/ Disconnect(c)
    PROVE  TypeOK'
<1>1. TypeOK /\ BufferInv
  BY DEF TypeInv
<1>2. CASE Connect(c)
  BY <1>1, <1>2 DEF TypeOK, Connect, busVars, clientVars, faultVars
<1>3. CASE Refuse(c)
  <2>1. <<ErrorSeq(c)>> \in Seq(Nat)
    BY DEF ErrorSeq
  <2> QED
    BY <1>1, <1>3, <2>1
       DEF TypeOK, Refuse, DropReceiver, busVars, clientVars, faultVars
<1>4. CASE Snapshot(c)
  <2>1. cursor[c] \in Nat /\ next_seq \in Nat
    BY <1>1 DEF TypeOK
  <2>2. /\ Newer(cursor[c]) \in Seq(Nat) /\ ReplayMax(cursor[c]) \in Nat
        /\ BufMin \in Nat
    BY <1>1, <2>1, NewerIsSuffix, ReplayMaxIs
  <2>3. (IF cursor[c] = 0 /\ buffer # <<>> THEN BufMin - 1
         ELSE Lesser(cursor[c], next_seq - 1)) \in Int
    BY <2>1, <2>2 DEF Lesser
  <2> QED
    BY <1>1, <1>4, <2>2, <2>3 DEF TypeOK, Snapshot, busVars, clientVars, faultVars
<1>5. CASE SendReplay(c)
  <2>1. replay[c] \in Seq(Nat) /\ replay[c] # <<>> /\ out[c] \in Seq(Nat)
    BY <1>1, <1>5 DEF TypeOK, SendReplay
  <2>2. Head(replay[c]) \in Nat /\ Tail(replay[c]) \in Seq(Nat)
    BY <2>1, RangeOfTail
  <2>3. /\ Append(out[c], Head(replay[c])) \in Seq(Nat)
        /\ sent[c] \cup {Head(replay[c])} \in SUBSET Nat
    BY <1>1, <2>1, <2>2 DEF TypeOK
  <2>4. /\ out' \in [Clients -> Seq(Nat)] /\ sent' \in [Clients -> SUBSET Nat]
        /\ replay' \in [Clients -> Seq(Nat)]
    BY <1>1, <1>5, <2>2, <2>3 DEF TypeOK, SendReplay, Emit
  <2> QED
    BY <1>1, <1>5, <2>4 DEF TypeOK, SendReplay, busVars, clientVars, faultVars
<1>6. CASE SendLive(c)
  <2>1. rx[c] \in Seq(Nat) /\ rx[c] # <<>> /\ out[c] \in Seq(Nat)
    BY <1>1, <1>6 DEF TypeOK, SendLive
  <2>2. Head(rx[c]) \in Nat /\ Tail(rx[c]) \in Seq(Nat)
    BY <2>1, RangeOfTail
  <2>3. out' \in [Clients -> Seq(Nat)] /\ sent' \in [Clients -> SUBSET Nat]
    <3>1. CASE UNCHANGED <<out, sent>>
      BY <1>1, <3>1 DEF TypeOK
    <3>2. CASE Emit(c, Head(rx[c]))
      <4>1. /\ Append(out[c], Head(rx[c])) \in Seq(Nat)
            /\ sent[c] \cup {Head(rx[c])} \in SUBSET Nat
        BY <1>1, <2>1, <2>2 DEF TypeOK
      <4> QED
        BY <1>1, <3>2, <4>1 DEF TypeOK, Emit
    <3> QED
      BY <1>6, <3>1, <3>2 DEF SendLive
  <2> QED
    BY <1>1, <1>6, <2>2, <2>3
       DEF TypeOK, SendLive, busVars, clientVars, faultVars
<1>7. CASE Lagged(c)
  BY <1>1, <1>7 DEF TypeOK, Lagged, DropReceiver, busVars, clientVars, faultVars
<1>8. CASE Deliver(c)
  <2>1. out[c] \in Seq(Nat) /\ out[c] # <<>>
    BY <1>1, <1>8 DEF TypeOK, Deliver
  <2>2. Head(out[c]) \in Nat /\ Tail(out[c]) \in Seq(Nat)
    BY <2>1, RangeOfTail
  <2> QED
    BY <1>1, <1>8, <2>2 DEF TypeOK, Deliver, busVars, faultVars
<1>9. CASE EndOfStream(c)
  BY <1>1, <1>9 DEF TypeOK, EndOfStream, busVars, clientVars, faultVars
<1>10. CASE Disconnect(c)
  BY <1>1, <1>10 DEF TypeOK, Disconnect, DropReceiver, busVars, clientVars
<1> QED
  BY <1>2, <1>3, <1>4, <1>5, <1>6, <1>7, <1>8, <1>9, <1>10 DEF Stream

LEMMA TypeStep ==
    ASSUME TypeInv, [Next]_vars
    PROVE  TypeInv'
<1>1. BufferInv'
  BY BufferStep DEF TypeInv
<1>2. ASSUME Restart
      PROVE  TypeOK'
  <2>1. <<>> \in Seq(Nat)
    OBVIOUS
  <2>2. [c \in Clients |-> <<>>] \in [Clients -> Seq(Nat)]
    BY <2>1
  <2>3. /\ rx' \in [Clients -> Seq(Nat)] /\ replay' \in [Clients -> Seq(Nat)]
        /\ out' \in [Clients -> Seq(Nat)] /\ buffer' \in Seq(Nat)
        /\ sent' \in [Clients -> SUBSET Nat]
    BY <1>2, <2>1, <2>2 DEF Restart, TypeInv, TypeOK
  <2>4. /\ sending' \in [Publishers -> Nat] /\ replay_max_seq' \in [Clients -> Nat]
        /\ cursor' \in [Clients -> Nat] /\ start' \in [Clients -> Int]
        /\ next_seq' \in Nat \ {0} /\ drops' \in Nat /\ restarts' \in Nat
    BY <1>2 DEF Restart, TypeInv, TypeOK
  <2>5. /\ phase' \in [Clients -> {"closed", "subscribing", "streaming", "ending"}]
        /\ lagged' \in [Clients -> BOOLEAN] /\ stale' \in [Clients -> BOOLEAN]
        /\ overtaken' \in BOOLEAN
    BY <1>2 DEF Restart
  <2> QED
    BY <2>3, <2>4, <2>5 DEF TypeOK
<1>3. ASSUME UNCHANGED vars
      PROVE  TypeOK'
  BY <1>3 DEF TypeInv, TypeOK, vars, busVars, streamVars, clientVars, faultVars
<1>4. TypeOK'
  BY <1>2, <1>3, PushType, BroadcastType, ClientType DEF Next, TypeInv
<1> QED
  BY <1>1, <1>4 DEF TypeInv

\* Every variable of the bus and of its streams has its type.
THEOREM TypeCorrect == Spec => []TypeOK
<1>1. TypeInv /\ [Next]_vars => TypeInv'
  BY TypeStep
<1>2. TypeInv => TypeOK
  BY DEF TypeInv
<1> QED
  BY <1>1, <1>2, TypeInit, PTL DEF Spec

-----------------------------------------------------------------------------
(***************************************************************************)
(* The handoff, one connection at a time.  Skipping a live event is safe   *)
(* because the connection has replayed every event up to replay_max_seq or *)
(* is still about to.                                                      *)
(***************************************************************************)
NoGap(c) ==
    phase[c] = "streaming" /\ ~lagged[c] =>
        \A s \in 1..(next_seq - 1) : s > start[c] => s \in InFlight(c)

SkipSafe(c) ==
    phase[c] = "streaming" =>
        \A s \in 1..replay_max_seq[c] :
            s > start[c] => s \in sent[c] \cup Range(replay[c])

HandInv == TypeInv /\ \A c \in Clients : NoGap(c) /\ SkipSafe(c)

\* Under the buffer lock the snapshot finds every event its client lacks.
LEMMA SnapshotCovers ==
    ASSUME TypeInv, NEW c \in Clients, Snapshot(c)
    PROVE  /\ replay_max_seq'[c] = next_seq - 1
           /\ \A s \in 1..(next_seq - 1) :
                 s > start'[c] => s \in Range(replay'[c])
<1>1. /\ BufferInv /\ cursor[c] \in Nat /\ next_seq \in Nat \ {0}
      /\ buffer \in Seq(Nat) /\ Len(buffer) <= next_seq - 1
      /\ \A i \in 1..Len(buffer) : buffer[i] = next_seq - 1 - Len(buffer) + i
  BY BusAssumption
     DEF TypeInv, TypeOK, BufferInv, BufferHoldsNewest, BusTypes, Lesser
<1>2. /\ replay'[c] = Newer(cursor[c])
      /\ replay_max_seq'[c] = ReplayMax(cursor[c])
      /\ start'[c] = IF cursor[c] = 0 /\ buffer # <<>> THEN BufMin - 1
                     ELSE Lesser(cursor[c], next_seq - 1)
      /\ ~TooFarBehind(cursor[c])
  BY DEF Snapshot, TypeInv, TypeOK
<1>3. /\ BufMin \in Nat
      /\ next_seq > 1 => buffer # <<>> /\ BufMin = next_seq - Len(buffer)
      /\ ReplayMax(cursor[c]) = next_seq - 1
  BY <1>1, ReplayMaxIs
<1>4. ASSUME NEW s \in 1..(next_seq - 1), s > start'[c]
      PROVE  s \in Range(replay'[c])
  <2>1. next_seq > 1 /\ buffer # <<>> /\ BufMin = next_seq - Len(buffer)
    BY <1>1, <1>3, <1>4
  <2>2. s > cursor[c]
    BY <1>1, <1>2, <1>4, <2>1 DEF Lesser
  <2>3. s >= BufMin
    BY <1>1, <1>2, <1>3, <1>4, <2>1, <2>2 DEF TooFarBehind
  <2>4. Len(buffer) \in Nat /\ s - (next_seq - 1 - Len(buffer)) \in 1..Len(buffer)
    BY <1>1, <1>4, <2>1, <2>3
  <2>5. buffer[s - (next_seq - 1 - Len(buffer))] = s
    <3>1. PICK i \in 1..Len(buffer) : i = s - (next_seq - 1 - Len(buffer))
      BY <2>4
    <3>2. buffer[i] = next_seq - 1 - Len(buffer) + i
      BY <1>1
    <3> QED
      BY <1>1, <2>4, <3>1, <3>2
  <2>6. \A i \in 1..Len(buffer) :
           buffer[i] > cursor[c] => buffer[i] \in Range(Newer(cursor[c]))
    BY <1>1, NewerIsSuffix
  <2> QED
    BY <1>2, <2>2, <2>4, <2>5, <2>6
<1> QED
  BY <1>2, <1>3, <1>4

LEMMA HandPush ==
    ASSUME HandInv, NEW p \in Publishers, Push(p), NEW c \in Clients
    PROVE  NoGap(c)' /\ SkipSafe(c)'
<1>1. /\ NoGap(c) /\ SkipSafe(c)
      /\ next_seq \in Nat \ {0} /\ sending \in [Publishers -> Nat]
  BY DEF HandInv, TypeInv, TypeOK
<1>2. /\ next_seq' = next_seq + 1 /\ sending[p] = 0
      /\ sending' = [sending EXCEPT ![p] = next_seq]
      /\ UNCHANGED <<phase, lagged, replay, rx, replay_max_seq, start, sent>>
  BY DEF Push, streamVars
<1>3. SkipSafe(c)'
  BY <1>1, <1>2 DEF SkipSafe
<1>4. ASSUME phase'[c] = "streaming", ~lagged'[c],
             NEW s \in 1..(next_seq' - 1), s > start'[c]
      PROVE  s \in InFlight(c)'
  <2>1. CASE s = next_seq
    <3>1. sending'[p] = s
      BY <1>1, <1>2, <2>1
    <3> QED
      BY <3>1 DEF InFlight
  <2>2. CASE s # next_seq
    <3>1. s \in InFlight(c) /\ s # 0
      BY <1>1, <1>2, <1>4, <2>2 DEF NoGap
    <3>2. ASSUME NEW q \in Publishers, s = sending[q]
          PROVE  sending'[q] = s
      BY <1>1, <1>2, <3>1, <3>2
    <3> QED
      BY <1>2, <3>1, <3>2 DEF InFlight
  <2> QED
    BY <2>1, <2>2
<1> QED
  BY <1>3, <1>4 DEF NoGap

LEMMA HandBroadcast ==
    ASSUME HandInv, NEW p \in Publishers, Broadcast(p), NEW c \in Clients
    PROVE  NoGap(c)' /\ SkipSafe(c)'
<1>1. /\ NoGap(c) /\ SkipSafe(c)
      /\ sending \in [Publishers -> Nat] /\ rx[c] \in Seq(Nat)
      /\ lagged[c] \in BOOLEAN
  BY DEF HandInv, TypeInv, TypeOK
<1>2. /\ sending' = [sending EXCEPT ![p] = 0]
      /\ UNCHANGED <<next_seq, phase, replay, replay_max_seq, start, sent>>
  BY DEF Broadcast
<1>3. SkipSafe(c)'
  BY <1>1, <1>2 DEF SkipSafe
<1>4. ASSUME phase'[c] = "streaming", ~lagged'[c],
             NEW s \in 1..(next_seq' - 1), s > start'[c]
      PROVE  s \in InFlight(c)'
  <2>1. c \in Receivers
    BY <1>2, <1>4 DEF Receivers
  <2>2. ~lagged[c] /\ Len(rx[c]) < BroadcastCap
    <3>1. lagged'[c] <=> (lagged[c] \/ (c \in Receivers /\ Len(rx[c]) >= BroadcastCap))
      BY DEF Broadcast
    <3> QED
      BY <1>1, <1>4, <2>1, <3>1, BusAssumption
  <2>3. rx'[c] = LastN(Append(rx[c], sending[p]), BroadcastCap)
    BY <2>1 DEF Broadcast
  <2>4. Range(rx[c]) \cup {sending[p]} \subseteq Range(rx'[c])
    BY <1>1, <2>2, <2>3, RangeOfPush, BusAssumption
  <2>5. s \in InFlight(c)
    BY <1>1, <1>2, <1>4, <2>2 DEF NoGap
  <2>6. ASSUME NEW q \in Publishers, s = sending[q], q # p
        PROVE  sending'[q] = s
    BY <1>1, <1>2, <2>6
  <2> QED
    BY <1>2, <2>4, <2>5, <2>6 DEF InFlight
<1> QED
  BY <1>3, <1>4 DEF NoGap

\* A connection a step does not touch is as good as before.
LEMMA HandFrame ==
    ASSUME NEW c \in Clients, NoGap(c), SkipSafe(c),
           UNCHANGED <<next_seq, sending>>,
           UNCHANGED <<phase[c], lagged[c], replay[c], rx[c],
                       replay_max_seq[c], start[c], sent[c]>>
    PROVE  NoGap(c)' /\ SkipSafe(c)'
<1>1. InFlight(c)' = InFlight(c)
  BY DEF InFlight
<1> QED
  BY <1>1 DEF NoGap, SkipSafe

LEMMA NotStreaming ==
    ASSUME NEW c \in Clients, phase'[c] # "streaming"
    PROVE  NoGap(c)' /\ SkipSafe(c)'
BY DEF NoGap, SkipSafe

LEMMA HandSnapshot ==
    ASSUME HandInv, NEW c \in Clients, Snapshot(c)
    PROVE  NoGap(c)' /\ SkipSafe(c)'
<1>1. /\ replay_max_seq'[c] = next_seq - 1
      /\ \A s \in 1..(next_seq - 1) :
            s > start'[c] => s \in Range(replay'[c])
      /\ next_seq' = next_seq
  BY SnapshotCovers DEF HandInv, Snapshot, busVars
<1>2. NoGap(c)'
  BY <1>1 DEF NoGap, InFlight
<1>3. SkipSafe(c)'
  BY <1>1 DEF SkipSafe
<1> QED
  BY <1>2, <1>3

LEMMA HandSendReplay ==
    ASSUME HandInv, NEW c \in Clients, SendReplay(c)
    PROVE  NoGap(c)' /\ SkipSafe(c)'
<1>1. /\ NoGap(c) /\ SkipSafe(c)
      /\ replay[c] \in Seq(Nat) /\ replay[c] # <<>>
  BY DEF HandInv, TypeInv, TypeOK, SendReplay
<1>2. Range(replay[c]) \subseteq {Head(replay[c])} \cup Range(Tail(replay[c]))
  BY <1>1, RangeOfTail
<1>3. /\ sent'[c] = sent[c] \cup {Head(replay[c])}
      /\ replay'[c] = Tail(replay[c])
  BY DEF SendReplay, Emit, HandInv, TypeInv, TypeOK
<1>4. /\ UNCHANGED <<next_seq, sending, phase, lagged, rx, replay_max_seq, start>>
  BY DEF SendReplay, busVars
<1>5. InFlight(c) \subseteq InFlight(c)'
  BY <1>2, <1>3, <1>4 DEF InFlight
<1>6. NoGap(c)'
  BY <1>1, <1>4, <1>5 DEF NoGap
<1>7. SkipSafe(c)'
  BY <1>1, <1>2, <1>3, <1>4 DEF SkipSafe
<1> QED
  BY <1>6, <1>7

LEMMA HandSendLive ==
    ASSUME HandInv, NEW c \in Clients, SendLive(c)
    PROVE  NoGap(c)' /\ SkipSafe(c)'
<1>1. /\ NoGap(c) /\ SkipSafe(c)
      /\ rx[c] \in Seq(Nat) /\ rx[c] # <<>>
      /\ replay_max_seq[c] \in Nat /\ phase[c] = "streaming"
      /\ sent \in [Clients -> SUBSET Nat]
  BY DEF HandInv, TypeInv, TypeOK, SendLive
<1>2. /\ Range(rx[c]) \subseteq {Head(rx[c])} \cup Range(Tail(rx[c]))
      /\ Head(rx[c]) \in Nat
  BY <1>1, RangeOfTail
<1>3. /\ rx'[c] = Tail(rx[c])
      /\ UNCHANGED <<next_seq, sending, phase, lagged, replay, replay_max_seq, start>>
  BY DEF SendLive, busVars, HandInv, TypeInv, TypeOK
<1>4. /\ sent[c] \subseteq sent'[c]
      /\ ~(Head(rx[c]) <= replay_max_seq[c]) => Head(rx[c]) \in sent'[c]
  BY <1>1 DEF SendLive, Emit
<1>5. SkipSafe(c)'
  BY <1>1, <1>3, <1>4 DEF SkipSafe
<1>6. ASSUME phase'[c] = "streaming", ~lagged'[c],
             NEW s \in 1..(next_seq' - 1), s > start'[c]
      PROVE  s \in InFlight(c)'
  <2>1. s \in InFlight(c)
    BY <1>1, <1>3, <1>6 DEF NoGap
  <2>2. CASE s # Head(rx[c])
    BY <1>2, <1>3, <1>4, <2>1, <2>2 DEF InFlight
  <2>3. CASE s = Head(rx[c]) /\ s <= replay_max_seq[c]
    <3>1. s \in 1..replay_max_seq[c]
      BY <1>1, <2>3
    <3>2. s \in sent[c] \cup Range(replay[c])
      BY <1>1, <1>3, <1>6, <3>1 DEF SkipSafe
    <3> QED
      BY <1>3, <1>4, <3>2 DEF InFlight
  <2>4. CASE s = Head(rx[c]) /\ ~(s <= replay_max_seq[c])
    BY <1>4, <2>4 DEF InFlight
  <2> QED
    BY <2>2, <2>3, <2>4
<1> QED
  BY <1>5, <1>6 DEF NoGap

LEMMA HandClient ==
    ASSUME HandInv, NEW d \in Clients, Stream(d) \/ Disconnect(d),
           NEW c \in Clients
    PROVE  NoGap(c)' /\ SkipSafe(c)'
<1>1. NoGap(c) /\ SkipSafe(c) /\ TypeOK
  BY DEF HandInv, TypeInv
<1>2. CASE c # d
  <2>1. /\ UNCHANGED <<next_seq, sending>>
        /\ UNCHANGED <<phase[c], lagged[c], replay[c], rx[c],
                       replay_max_seq[c], start[c], sent[c]>>
    BY <1>1, <1>2
       DEF Stream, Disconnect, Connect, Refuse, Snapshot, SendReplay, SendLive,
           Lagged, Deliver, EndOfStream, DropReceiver, Emit, busVars, TypeOK
  <2> QED
    BY <1>1, <2>1, HandFrame
<1>3. CASE c = d /\ (Connect(c) \/ Refuse(c) \/ Lagged(c) \/ EndOfStream(c)
                        \/ Disconnect(c))
  <2>1. phase'[c] # "streaming"
    BY <1>1, <1>3
       DEF TypeOK, Connect, Refuse, Lagged, EndOfStream, Disconnect
  <2> QED
    BY <2>1, NotStreaming
<1>4. CASE c = d /\ Deliver(c)
  BY <1>1, <1>4, HandFrame DEF Deliver, busVars
<1> QED
  BY <1>2, <1>3, <1>4, HandSnapshot, HandSendReplay, HandSendLive DEF Stream

LEMMA HandStep ==
    ASSUME HandInv, [Next]_vars
    PROVE  HandInv'
<1>1. TypeInv'
  BY TypeStep DEF HandInv
<1>2. ASSUME NEW c \in Clients
      PROVE  NoGap(c)' /\ SkipSafe(c)'
  <2>1. CASE Restart
    <3>1. phase'[c] # "streaming"
      BY <2>1 DEF Restart
    <3> QED
      BY <3>1, NotStreaming
  <2>2. CASE UNCHANGED vars
    BY <2>2, HandFrame DEF HandInv, vars, busVars, streamVars
  <2> QED
    BY <2>1, <2>2, HandPush, HandBroadcast, HandClient DEF Next
<1> QED
  BY <1>1, <1>2 DEF HandInv

\* subscribe's receiver-then-snapshot order leaves no gap: on a streaming
\* connection that has not lagged, every event after the client's cursor is
\* sent, queued or still in a publisher's hand, whatever else runs in between.
THEOREM HandoffHasNoGap == Spec => []NoGapAtHandoff
<1>1. Init => HandInv
  <2>1. Init => \A c \in Clients : NoGap(c) /\ SkipSafe(c)
    BY DEF Init, NoGap, SkipSafe
  <2> QED
    BY <2>1, TypeInit DEF HandInv
<1>2. HandInv /\ [Next]_vars => HandInv'
  BY HandStep
<1>3. HandInv => NoGapAtHandoff
  BY DEF HandInv, NoGap, NoGapAtHandoff
<1> QED
  BY <1>1, <1>2, <1>3, PTL DEF Spec

-----------------------------------------------------------------------------
(***************************************************************************)
(* No event twice.  A receiver's events are distinct and nobody is about   *)
(* to broadcast one of them again; what has been sent is either covered by *)
(* the replay, and then skipped, or has left the receiver for good.        *)
(***************************************************************************)
Distinct(s) == \A i, j \in DOMAIN s : s[i] = s[j] => i = j

SendingOnce ==
    \A p \in Publishers :
        /\ sending[p] < next_seq
        /\ \A q \in Publishers : sending[p] = sending[q] /\ p # q => sending[p] = 0

LiveOnce(c) ==
    /\ Distinct(rx[c])
    /\ \A s \in Range(rx[c]) :
          s # 0 /\ s < next_seq /\ \A p \in Publishers : s # sending[p]

SentOnce(c) ==
    phase[c] = "streaming" =>
        /\ replay_max_seq[c] < next_seq
        /\ Distinct(replay[c])
        /\ \A s \in Range(replay[c]) : s <= replay_max_seq[c] /\ s \notin sent[c]
        /\ \A s \in sent[c] :
              /\ s < next_seq
              /\ s > replay_max_seq[c] =>
                    /\ s # 0 /\ s \notin Range(rx[c])
                    /\ \A p \in Publishers : s # sending[p]

OnceInv ==
    TypeInv /\ SendingOnce /\ \A c \in Clients : LiveOnce(c) /\ SentOnce(c)

LEMMA DistinctTail ==
    ASSUME NEW s \in Seq(Nat), s # <<>>, Distinct(s)
    PROVE  /\ Distinct(Tail(s)) /\ Tail(s) \in Seq(Nat)
           /\ Head(s) \in Range(s) /\ Head(s) \notin Range(Tail(s))
           /\ Range(Tail(s)) \subseteq Range(s)
<1>1. /\ Tail(s) \in Seq(Nat) /\ Len(Tail(s)) = Len(s) - 1 /\ Len(s) \in Nat \ {0}
      /\ \A i \in 1..Len(Tail(s)) : i + 1 \in 1..Len(s) /\ Tail(s)[i] = s[i + 1]
      /\ Head(s) = s[1] /\ 1 \in 1..Len(s)
      /\ DOMAIN s = 1..Len(s) /\ DOMAIN Tail(s) = 1..Len(Tail(s))
  OBVIOUS
<1>2. ASSUME NEW i \in 1..Len(Tail(s)), NEW j \in 1..Len(Tail(s)),
             Tail(s)[i] = Tail(s)[j]
      PROVE  i = j
  <2>1. i + 1 = j + 1
    BY <1>1, <1>2 DEF Distinct
  <2> QED
    BY <2>1
<1>3. ASSUME NEW i \in 1..Len(Tail(s))
      PROVE  Tail(s)[i] # Head(s) /\ Tail(s)[i] \in Range(s)
  <2>1. i + 1 # 1
    OBVIOUS
  <2> QED
    BY <1>1, <2>1 DEF Distinct, Range
<1> QED
  BY <1>1, <1>2, <1>3 DEF Distinct, Range

\* What eviction leaves was there, and once if it was there once.
LEMMA LastNDistinct ==
    ASSUME NEW s \in Seq(Nat), NEW n \in Nat
    PROVE  /\ Range(LastN(s, n)) \subseteq Range(s)
           /\ Distinct(s) => Distinct(LastN(s, n))
<1>1. PICK t \in Seq(Nat) : t = LastN(s, n)
  BY LastNProperties
<1>2. /\ Len(t) \in Nat /\ Len(s) \in Nat /\ Len(t) <= Len(s)
      /\ \A i \in 1..Len(t) : t[i] = s[Len(s) - Len(t) + i]
      /\ DOMAIN t = 1..Len(t) /\ DOMAIN s = 1..Len(s)
  BY <1>1, LastNProperties DEF Lesser
<1>3. ASSUME NEW i \in 1..Len(t)
      PROVE  Len(s) - Len(t) + i \in 1..Len(s)
  BY <1>2
<1>4. ASSUME Distinct(s), NEW i \in 1..Len(t), NEW j \in 1..Len(t), t[i] = t[j]
      PROVE  i = j
  <2>1. Len(s) - Len(t) + i = Len(s) - Len(t) + j
    BY <1>2, <1>3, <1>4 DEF Distinct
  <2> QED
    BY <1>2, <2>1
<1>5. Range(t) \subseteq Range(s)
  BY <1>2, <1>3 DEF Range
<1> QED
  BY <1>1, <1>2, <1>4, <1>5 DEF Distinct

LEMMA AppendDistinct ==
    ASSUME NEW s \in Seq(Nat), NEW e \in Nat
    PROVE  /\ Append(s, e) \in Seq(Nat)
           /\ Range(Append(s, e)) = Range(s) \cup {e}
           /\ Distinct(s) /\ e \notin Range(s) => Distinct(Append(s, e))
<1>0. Append(s, e) \in Seq(Nat)
  OBVIOUS
<1>1. PICK t \in Seq(Nat) : t = Append(s, e)
  BY <1>0
<1>2. /\ Len(s) \in Nat /\ Len(t) = Len(s) + 1 /\ t[Len(s) + 1] = e
      /\ \A i \in 1..Len(s) : t[i] = s[i]
      /\ DOMAIN t = 1..(Len(s) + 1) /\ DOMAIN s = 1..Len(s)
  BY <1>1
<1>3. 1..(Len(s) + 1) = 1..Len(s) \cup {Len(s) + 1}
  BY <1>2
<1>4. Range(t) = Range(s) \cup {e}
  BY <1>2, <1>3 DEF Range
<1>5. ASSUME Distinct(s), e \notin Range(s),
             NEW i \in 1..(Len(s) + 1), NEW j \in 1..(Len(s) + 1), t[i] = t[j]
      PROVE  i = j
  <2>1. \A k \in 1..Len(s) : t[k] # e
    BY <1>2, <1>5 DEF Range
  <2> QED
    BY <1>2, <1>3, <1>5, <2>1 DEF Distinct
<1> QED
  BY <1>1, <1>2, <1>4, <1>5 DEF Distinct

\* The replay is a part of the buffer, in which no event is twice.
LEMMA ReplayOnce ==
    ASSUME BufferInv, NEW id \in Nat
    PROVE  /\ Distinct(Newer(id))
           /\ \A s \in Range(Newer(id)) : s <= next_seq - 1
<1>1. /\ buffer \in Seq(Nat) /\ next_seq \in Nat \ {0} /\ Len(buffer) \in Nat
      /\ \A i \in 1..Len(buffer) : buffer[i] = next_seq - 1 - Len(buffer) + i
      /\ DOMAIN buffer = 1..Len(buffer)
  BY DEF BufferInv, BusTypes, BufferHoldsNewest
<1>2. Distinct(buffer)
  BY <1>1 DEF Distinct
<1>3. \A s \in Range(buffer) : s <= next_seq - 1
  BY <1>1 DEF Range
<1>4. PICK kept : kept = {i \in DOMAIN buffer : buffer[i] > id}
  OBVIOUS
<1>5. Cardinality(kept) \in Nat
  <2>1. IsFiniteSet(1..Len(buffer))
    BY <1>1, FS_Interval
  <2>2. kept \subseteq 1..Len(buffer)
    BY <1>1, <1>4
  <2> QED
    BY <2>1, <2>2, FS_Subset, FS_CardinalityType
<1>6. Newer(id) = LastN(buffer, Cardinality(kept))
  BY <1>4 DEF Newer
<1> QED
  BY <1>1, <1>2, <1>3, <1>5, <1>6, LastNDistinct

LEMMA OncePush ==
    ASSUME OnceInv, NEW p \in Publishers, Push(p)
    PROVE  SendingOnce' /\ \A c \in Clients : LiveOnce(c)' /\ SentOnce(c)'
<1>1. /\ next_seq \in Nat \ {0} /\ sending \in [Publishers -> Nat] /\ SendingOnce
      /\ rx \in [Clients -> Seq(Nat)] /\ sent \in [Clients -> SUBSET Nat]
      /\ replay_max_seq \in [Clients -> Nat]
      /\ \A c \in Clients : LiveOnce(c) /\ SentOnce(c)
  BY DEF OnceInv, TypeInv, TypeOK
<1>2. /\ next_seq' = next_seq + 1
      /\ sending' = [sending EXCEPT ![p] = next_seq]
      /\ UNCHANGED <<phase, replay, rx, replay_max_seq, sent>>
  BY DEF Push, streamVars
<1>3. SendingOnce'
  BY <1>1, <1>2 DEF SendingOnce
<1>4. ASSUME NEW c \in Clients
      PROVE  LiveOnce(c)'
  <2>1. \A s \in Range(rx[c]) : s \in Nat
    BY <1>1 DEF Range
  <2> QED
    BY <1>1, <1>2, <2>1 DEF LiveOnce
<1>5. ASSUME NEW c \in Clients
      PROVE  SentOnce(c)'
  <2>1. sent[c] \subseteq Nat /\ replay_max_seq[c] \in Nat /\ SentOnce(c)
    BY <1>1
  <2> QED
    BY <1>1, <1>2, <2>1 DEF SentOnce
<1> QED
  BY <1>3, <1>4, <1>5

LEMMA OnceBroadcast ==
    ASSUME OnceInv, NEW p \in Publishers, Broadcast(p)
    PROVE  SendingOnce' /\ \A c \in Clients : LiveOnce(c)' /\ SentOnce(c)'
<1>1. /\ next_seq \in Nat \ {0} /\ sending \in [Publishers -> Nat] /\ SendingOnce
      /\ rx \in [Clients -> Seq(Nat)] /\ sent \in [Clients -> SUBSET Nat]
      /\ \A c \in Clients : LiveOnce(c) /\ SentOnce(c)
  BY DEF OnceInv, TypeInv, TypeOK
<1>2. /\ sending[p] # 0
      /\ sending' = [sending EXCEPT ![p] = 0]
      /\ UNCHANGED <<next_seq, phase, replay, replay_max_seq, sent>>
  BY DEF Broadcast
<1>3. SendingOnce'
  BY <1>1, <1>2 DEF SendingOnce
<1>4. ASSUME NEW c \in Clients
      PROVE  /\ Distinct(rx'[c])
             /\ Range(rx'[c]) \subseteq Range(rx[c]) \cup {sending[p]}
  <2>1. CASE rx'[c] = rx[c]
    BY <1>1, <2>1 DEF LiveOnce
  <2>2. CASE rx'[c] = LastN(Append(rx[c], sending[p]), BroadcastCap)
    <3>1. rx[c] \in Seq(Nat) /\ sending[p] \in Nat /\ BroadcastCap \in Nat
      BY <1>1, BusAssumption
    <3>2. Distinct(rx[c]) /\ sending[p] \notin Range(rx[c])
      BY <1>1 DEF LiveOnce
    <3>3. /\ Append(rx[c], sending[p]) \in Seq(Nat)
          /\ Distinct(Append(rx[c], sending[p]))
          /\ Range(Append(rx[c], sending[p])) = Range(rx[c]) \cup {sending[p]}
      BY <3>1, <3>2, AppendDistinct
    <3> QED
      BY <2>2, <3>1, <3>3, LastNDistinct
  <2>3. \/ rx'[c] = rx[c]
        \/ rx'[c] = LastN(Append(rx[c], sending[p]), BroadcastCap)
    BY DEF Broadcast
  <2> QED
    BY <2>1, <2>2, <2>3
<1>5. \A q \in Publishers : q # p => sending'[q] = sending[q] /\ sending[q] # sending[p]
  BY <1>1, <1>2 DEF SendingOnce
<1>6. sending'[p] = 0 /\ sending[p] < next_seq
  BY <1>1, <1>2 DEF SendingOnce
<1>7. ASSUME NEW c \in Clients
      PROVE  LiveOnce(c)'
  <2>1. \A s \in Range(rx'[c]) : s \in Range(rx[c]) \/ s = sending[p]
    BY <1>4
  <2>2. ASSUME NEW s \in Range(rx'[c])
        PROVE  s # 0 /\ s < next_seq /\ \A q \in Publishers : s # sending'[q]
    BY <1>1, <1>2, <1>5, <1>6, <2>1, <2>2 DEF LiveOnce
  <2> QED
    BY <1>2, <1>4, <2>2 DEF LiveOnce
<1>8. ASSUME NEW c \in Clients
      PROVE  SentOnce(c)'
  <2>1. ASSUME phase[c] = "streaming", NEW s \in sent[c], s > replay_max_seq[c]
        PROVE  /\ s # 0 /\ s \notin Range(rx'[c])
               /\ \A q \in Publishers : s # sending'[q]
    <3>1. /\ s # 0 /\ s \notin Range(rx[c])
          /\ \A q \in Publishers : s # sending[q]
      BY <1>1, <2>1 DEF SentOnce
    <3> QED
      BY <1>4, <1>5, <1>6, <3>1
  <2> QED
    BY <1>1, <1>2, <2>1 DEF SentOnce
<1> QED
  BY <1>3, <1>7, <1>8

LEMMA OnceFrame ==
    ASSUME NEW c \in Clients, LiveOnce(c), SentOnce(c),
           UNCHANGED <<next_seq, sending>>,
           UNCHANGED <<phase[c], replay[c], rx[c], replay_max_seq[c], sent[c]>>
    PROVE  LiveOnce(c)' /\ SentOnce(c)'
BY DEF LiveOnce, SentOnce

\* A connection that ends takes its receiver with it, or keeps it as it is.
LEMMA OnceNotStreaming ==
    ASSUME NEW c \in Clients, LiveOnce(c), UNCHANGED <<next_seq, sending>>,
           phase'[c] # "streaming", rx'[c] = rx[c] \/ rx'[c] = <<>>
    PROVE  LiveOnce(c)' /\ SentOnce(c)'
BY DEF LiveOnce, SentOnce, Distinct, Range

LEMMA OnceSnapshot ==
    ASSUME OnceInv, NEW c \in Clients, Snapshot(c)
    PROVE  LiveOnce(c)' /\ SentOnce(c)'
<1>1. /\ BufferInv /\ cursor[c] \in Nat /\ LiveOnce(c) /\ next_seq \in Nat
  BY DEF OnceInv, TypeInv, TypeOK
<1>2. /\ replay'[c] = Newer(cursor[c]) /\ sent'[c] = {}
      /\ replay_max_seq'[c] = ReplayMax(cursor[c])
      /\ UNCHANGED <<next_seq, sending, rx>>
  BY DEF Snapshot, busVars, OnceInv, TypeInv, TypeOK
<1>3. /\ Distinct(Newer(cursor[c]))
      /\ \A s \in Range(Newer(cursor[c])) : s <= next_seq - 1
      /\ ReplayMax(cursor[c]) = next_seq - 1
  BY <1>1, ReplayOnce, ReplayMaxIs
<1> QED
  BY <1>1, <1>2, <1>3 DEF LiveOnce, SentOnce

LEMMA OnceSendReplay ==
    ASSUME OnceInv, NEW c \in Clients, SendReplay(c)
    PROVE  LiveOnce(c)' /\ SentOnce(c)' /\ Head(replay[c]) \notin sent[c]
<1>1. /\ LiveOnce(c) /\ SentOnce(c) /\ phase[c] = "streaming"
      /\ replay[c] \in Seq(Nat) /\ replay[c] # <<>> /\ replay_max_seq[c] \in Nat
      /\ next_seq \in Nat
  BY DEF OnceInv, TypeInv, TypeOK, SendReplay
<1>2. /\ Distinct(Tail(replay[c])) /\ Tail(replay[c]) \in Seq(Nat)
      /\ Head(replay[c]) \in Range(replay[c])
      /\ Head(replay[c]) \notin Range(Tail(replay[c]))
      /\ Range(Tail(replay[c])) \subseteq Range(replay[c])
      /\ Head(replay[c]) \in Nat
  BY <1>1, DistinctTail, RangeOfTail DEF SentOnce
<1>3. /\ sent'[c] = sent[c] \cup {Head(replay[c])}
      /\ replay'[c] = Tail(replay[c])
      /\ UNCHANGED <<next_seq, sending, phase, rx, replay_max_seq>>
  BY DEF SendReplay, Emit, OnceInv, TypeInv, TypeOK, busVars
<1>4. Head(replay[c]) <= replay_max_seq[c] /\ Head(replay[c]) \notin sent[c]
  BY <1>1, <1>2 DEF SentOnce
<1>5. Head(replay[c]) < next_seq /\ ~(Head(replay[c]) > replay_max_seq[c])
  BY <1>1, <1>2, <1>4 DEF SentOnce
<1>6. LiveOnce(c)'
  BY <1>1, <1>3 DEF LiveOnce
<1>7. SentOnce(c)'
  BY <1>1, <1>2, <1>3, <1>4, <1>5 DEF SentOnce
<1> QED
  BY <1>4, <1>6, <1>7

LEMMA OnceSendLive ==
    ASSUME OnceInv, NEW c \in Clients, SendLive(c)
    PROVE  /\ LiveOnce(c)' /\ SentOnce(c)'
           /\ Head(rx[c]) > replay_max_seq[c] => Head(rx[c]) \notin sent[c]
<1>1. /\ LiveOnce(c) /\ SentOnce(c) /\ phase[c] = "streaming"
      /\ rx[c] \in Seq(Nat) /\ rx[c] # <<>> /\ replay_max_seq[c] \in Nat
      /\ next_seq \in Nat /\ replay[c] = <<>>
      /\ sent \in [Clients -> SUBSET Nat]
  BY DEF OnceInv, TypeInv, TypeOK, SendLive
<1>2. /\ Distinct(Tail(rx[c])) /\ Tail(rx[c]) \in Seq(Nat)
      /\ Head(rx[c]) \in Range(rx[c])
      /\ Head(rx[c]) \notin Range(Tail(rx[c]))
      /\ Range(Tail(rx[c])) \subseteq Range(rx[c])
      /\ Head(rx[c]) \in Nat
  BY <1>1, DistinctTail, RangeOfTail DEF LiveOnce
<1>3. /\ rx'[c] = Tail(rx[c])
      /\ UNCHANGED <<next_seq, sending, phase, replay, replay_max_seq>>
  BY DEF SendLive, busVars, OnceInv, TypeInv, TypeOK
<1>4. \/ sent'[c] = sent[c]
      \/ /\ ~(Head(rx[c]) <= replay_max_seq[c])
         /\ sent'[c] = sent[c] \cup {Head(rx[c])}
  BY <1>1 DEF SendLive, Emit
<1>5. /\ Head(rx[c]) # 0 /\ Head(rx[c]) < next_seq
      /\ \A p \in Publishers : Head(rx[c]) # sending[p]
  BY <1>1, <1>2 DEF LiveOnce
<1>6. LiveOnce(c)'
  BY <1>1, <1>2, <1>3 DEF LiveOnce
<1>7. Range(replay[c]) = {}
  BY <1>1 DEF Range
<1>8. SentOnce(c)'
  <2>1. ASSUME NEW s \in sent'[c]
        PROVE  /\ s < next_seq
               /\ s > replay_max_seq[c] =>
                     /\ s # 0 /\ s \notin Range(Tail(rx[c]))
                     /\ \A p \in Publishers : s # sending[p]
    <3>1. CASE s \in sent[c]
      BY <1>1, <1>2, <3>1 DEF SentOnce
    <3>2. CASE s = Head(rx[c])
      BY <1>2, <1>5, <3>2
    <3> QED
      BY <1>4, <2>1, <3>1, <3>2
  <2> QED
    BY <1>1, <1>3, <1>7, <2>1 DEF SentOnce
<1>9. Head(rx[c]) > replay_max_seq[c] => Head(rx[c]) \notin sent[c]
  BY <1>1, <1>2 DEF SentOnce
<1> QED
  BY <1>6, <1>8, <1>9

LEMMA OnceClient ==
    ASSUME OnceInv, NEW d \in Clients, Stream(d) \/ Disconnect(d),
           NEW c \in Clients
    PROVE  LiveOnce(c)' /\ SentOnce(c)'
<1>1. LiveOnce(c) /\ SentOnce(c) /\ TypeOK
  BY DEF OnceInv, TypeInv
<1>2. UNCHANGED <<next_seq, sending>>
  BY DEF Stream, Disconnect, Connect, Refuse, Snapshot, SendReplay, SendLive,
         Lagged, Deliver, EndOfStream, busVars
<1>3. CASE c # d
  <2>1. UNCHANGED <<phase[c], replay[c], rx[c], replay_max_seq[c], sent[c]>>
    BY <1>1, <1>3
       DEF Stream, Disconnect, Connect, Refuse, Snapshot, SendReplay, SendLive,
           Lagged, Deliver, EndOfStream, DropReceiver, Emit, busVars, TypeOK
  <2> QED
    BY <1>1, <1>2, <2>1, OnceFrame
<1>4. CASE c = d /\ (Connect(c) \/ Refuse(c) \/ Lagged(c) \/ EndOfStream(c)
                        \/ Disconnect(c))
  <2>1. phase'[c] # "streaming" /\ (rx'[c] = rx[c] \/ rx'[c] = <<>>)
    BY <1>1, <1>4
       DEF TypeOK, Connect, Refuse, Lagged, EndOfStream, Disconnect, DropReceiver
  <2> QED
    BY <1>1, <1>2, <2>1, OnceNotStreaming
<1>5. CASE c = d /\ Deliver(c)
  BY <1>1, <1>2, <1>5, OnceFrame DEF Deliver
<1> QED
  BY <1>3, <1>4, <1>5, OnceSnapshot, OnceSendReplay, OnceSendLive DEF Stream

LEMMA OnceStep ==
    ASSUME OnceInv, [Next]_vars
    PROVE  OnceInv'
<1>1. TypeInv'
  BY TypeStep DEF OnceInv
<1>2. CASE Restart
  <2>1. /\ next_seq' = 1 /\ \A p \in Publishers : sending'[p] = 0
        /\ \A c \in Clients : rx'[c] = <<>> /\ phase'[c] = "closed"
    BY <1>2 DEF Restart
  <2>2. SendingOnce'
    BY <2>1 DEF SendingOnce
  <2>3. \A c \in Clients : LiveOnce(c)' /\ SentOnce(c)'
    BY <2>1 DEF LiveOnce, SentOnce, Distinct, Range
  <2> QED
    BY <1>1, <2>2, <2>3 DEF OnceInv
<1>3. CASE UNCHANGED vars
  <2>1. SendingOnce'
    BY <1>3 DEF OnceInv, SendingOnce, vars, busVars
  <2>2. \A c \in Clients : LiveOnce(c)' /\ SentOnce(c)'
    BY <1>3, OnceFrame DEF OnceInv, vars, busVars, streamVars
  <2> QED
    BY <1>1, <2>1, <2>2 DEF OnceInv
<1>4. ASSUME NEW d \in Clients, Stream(d) \/ Disconnect(d)
      PROVE  OnceInv'
  <2>1. SendingOnce'
    BY <1>4 DEF OnceInv, SendingOnce, Stream, Disconnect, Connect, Refuse,
       Snapshot, SendReplay, SendLive, Lagged, Deliver, EndOfStream, busVars
  <2>2. \A c \in Clients : LiveOnce(c)' /\ SentOnce(c)'
    BY <1>4, OnceClient
  <2> QED
    BY <1>1, <2>1, <2>2 DEF OnceInv
<1>5. ASSUME NEW p \in Publishers, Push(p) \/ Broadcast(p)
      PROVE  OnceInv'
  BY <1>1, <1>5, OncePush, OnceBroadcast DEF OnceInv
<1> QED
  BY <1>2, <1>3, <1>4, <1>5 DEF Next

\* A step that puts a frame on a streaming connection puts a new one there.
LEMMA OnceFrames ==
    ASSUME OnceInv, [Next]_vars, NEW c \in Clients,
           Len(out'[c]) > Len(out[c]), phase'[c] = "streaming"
    PROVE  out'[c][Len(out'[c])] \notin sent[c]
<1>1. /\ out \in [Clients -> Seq(Nat)]
      /\ phase \in [Clients -> {"closed", "subscribing", "streaming", "ending"}]
  BY DEF OnceInv, TypeInv, TypeOK
<1>2. CASE SendReplay(c)
  <2>1. out'[c] = Append(out[c], Head(replay[c]))
    BY <1>1, <1>2 DEF SendReplay, Emit
  <2>2. out'[c][Len(out'[c])] = Head(replay[c])
    BY <1>1, <2>1
  <2> QED
    BY <1>2, <2>2, OnceSendReplay
<1>3. CASE SendLive(c)
  <2>1. /\ ~(Head(rx[c]) <= replay_max_seq[c])
        /\ out'[c] = Append(out[c], Head(rx[c]))
    BY <1>1, <1>3 DEF SendLive, Emit
  <2>2. out'[c][Len(out'[c])] = Head(rx[c])
    BY <1>1, <2>1
  <2>3. Head(rx[c]) \in Nat /\ replay_max_seq[c] \in Nat
    BY <1>3, RangeOfTail DEF SendLive, OnceInv, TypeInv, TypeOK
  <2> QED
    BY <1>3, <2>1, <2>2, <2>3, OnceSendLive
<1>4. CASE ~SendReplay(c) /\ ~SendLive(c)
  <2>1. ASSUME out'[c] = out[c]
        PROVE  FALSE
    BY <1>1, <2>1
  <2>2. ASSUME Deliver(c)
        PROVE  FALSE
    <3>1. out[c] \in Seq(Nat) /\ out[c] # <<>> /\ out'[c] = Tail(out[c])
      BY <1>1, <2>2 DEF Deliver
    <3> QED
      BY <3>1
  <2>3. ASSUME Refuse(c) \/ Disconnect(c) \/ Restart
        PROVE  FALSE
    BY <1>1, <2>3 DEF Refuse, Disconnect, Restart
  <2>4. ASSUME NEW p \in Publishers, Push(p) \/ Broadcast(p)
        PROVE  out'[c] = out[c]
    BY <2>4 DEF Push, Broadcast, streamVars
  <2>5. ASSUME UNCHANGED vars
        PROVE  out'[c] = out[c]
    BY <2>5 DEF vars, streamVars
  <2>6. ASSUME NEW d \in Clients, d # c, Stream(d) \/ Disconnect(d)
        PROVE  out'[c] = out[c]
    BY <1>1, <2>6 DEF Stream, Disconnect, Connect, Refuse, Snapshot, SendReplay,
       SendLive, Lagged, Deliver, EndOfStream, Emit
  <2>7. ASSUME Connect(c) \/ Snapshot(c) \/ Lagged(c) \/ EndOfStream(c)
        PROVE  out'[c] = out[c]
    BY <2>7 DEF Connect, Snapshot, Lagged, EndOfStream
  <2> QED
    BY <1>4, <2>1, <2>2, <2>3, <2>4, <2>5, <2>6, <2>7 DEF Next, Stream
<1> QED
  BY <1>2, <1>3, <1>4

\* The handoff from replayed to live events sends no event twice on one
\* connection, even if publishers overtake each other.
THEOREM NoFrameIsSentTwice == Spec => NoDuplicateFrame
<1>1. Init => OnceInv
  <2>1. Init => SendingOnce /\ \A c \in Clients : LiveOnce(c) /\ SentOnce(c)
    BY DEF Init, SendingOnce, LiveOnce, SentOnce, Distinct, Range
  <2> QED
    BY <2>1, TypeInit DEF OnceInv
<1>2. OnceInv /\ [Next]_vars => OnceInv'
  BY OnceStep
<1>3. OnceInv /\ [Next]_vars =>
        [\A c \in Clients :
           Len(out'[c]) > Len(out[c]) /\ phase'[c] = "streaming" =>
              out'[c][Len(out'[c])] \notin sent[c]]_vars
  BY OnceFrames
<1> QED
  BY <1>1, <1>2, <1>3, PTL DEF Spec, NoDuplicateFrame

-----------------------------------------------------------------------------
(***************************************************************************)
(* A client sees every event once and in order, as long as no publisher    *)
(* overtakes another.  Events are then broadcast in the order of their     *)
(* numbers, so what a receiver holds is a run that the next broadcast      *)
(* goes on with; a run is what the snapshot replays, too, and the first    *)
(* live event that is not skipped is the one after the last frame.         *)
(***************************************************************************)
Run(s) == \A i \in 2..Len(s) : s[i] = s[i - 1] + 1

\* Everything on its way to a client has been published by this process.
Issued(c) ==
    /\ ~stale[c] => cursor[c] < next_seq
    /\ \A i \in 1..Len(out[c]) : out[c][i] < next_seq
    /\ \A i \in 1..Len(replay[c]) : replay[c][i] # 0
    /\ phase[c] = "streaming" => \A i \in 1..Len(out[c]) : out[c][i] # 0
    /\ phase[c] \in {"closed", "subscribing"} => out[c] = <<>>
    /\ phase[c] \notin {"subscribing", "streaming"} => rx[c] = <<>>

\* The number of the event that is broadcast next.
IsNext(n) ==
    /\ \A p \in Publishers : sending[p] # 0 => sending[p] >= n
    /\ n = next_seq \/ \E p \in Publishers : sending[p] = n

\* What has not been broadcast is about to be, from some number on.
InTurn ==
    \A p \in Publishers : sending[p] # 0 =>
        \A s \in sending[p]..(next_seq - 1) : \E q \in Publishers : sending[q] = s

LiveRun(c) ==
    /\ Run(rx[c])
    /\ rx[c] # <<>> => IsNext(rx[c][Len(rx[c])] + 1)

OutRun(c) ==
    /\ Run(out[c])
    /\ out[c] # <<>> /\ cursor[c] # 0 /\ ~stale[c] =>
          out[c][1] \in {cursor[c] + 1, 0}

\* The client has, or is about to have, events of this process, up to Tip.
Known(c) == out[c] # <<>> \/ (cursor[c] # 0 /\ ~stale[c])
Tip(c) == IF out[c] # <<>> THEN out[c][Len(out[c])] ELSE cursor[c]

ReplayRun(c) ==
    phase[c] = "streaming" =>
        /\ Run(replay[c])
        /\ replay[c] # <<>> =>
              /\ replay[c][Len(replay[c])] = replay_max_seq[c]
              /\ Known(c) => replay[c][1] = Tip(c) + 1
        /\ replay[c] = <<>> /\ Known(c) => Tip(c) >= replay_max_seq[c]

\* The event the receiver gives next.
NextLive(c, n) == IF rx[c] # <<>> THEN n = rx[c][1] ELSE IsNext(n)

LiveFits(c) ==
    phase[c] = "streaming" /\ ~lagged[c] =>
        \A n \in 1..next_seq : NextLive(c, n) =>
            /\ replay[c] # <<>> => n <= replay_max_seq[c] + 1
            /\ replay[c] = <<>> /\ Known(c) =>
                  /\ n <= Tip(c) + 1
                  /\ Tip(c) > replay_max_seq[c] => n = Tip(c) + 1

InOrder ==
    /\ InTurn
    /\ \A c \in Clients : LiveRun(c) /\ OutRun(c) /\ ReplayRun(c) /\ LiveFits(c)

OrderInv ==
    /\ OnceInv
    /\ \A c \in Clients : Issued(c)
    /\ ~overtaken => InOrder

\* What is left of a run, and what goes on with it, are runs.
LEMMA RunTail ==
    ASSUME NEW s \in Seq(Nat), s # <<>>, Run(s)
    PROVE  /\ Tail(s) \in Seq(Nat) /\ Run(Tail(s)) /\ Head(s) = s[1] /\ s[1] \in Nat
           /\ Len(Tail(s)) = Len(s) - 1
           /\ \A i \in 1..Len(Tail(s)) : i + 1 \in 1..Len(s) /\ Tail(s)[i] = s[i + 1]
           /\ Tail(s) # <<>> => /\ Tail(s)[1] = s[1] + 1
                                /\ Tail(s)[Len(Tail(s))] = s[Len(s)]
           /\ Tail(s) = <<>> => s[1] = s[Len(s)]
<1>1. /\ Tail(s) \in Seq(Nat) /\ Len(s) \in Nat \ {0} /\ Len(Tail(s)) = Len(s) - 1
      /\ Head(s) = s[1]
      /\ \A i \in 1..(Len(s) - 1) : Tail(s)[i] = s[i + 1]
  OBVIOUS
<1>2. PICK t \in Seq(Nat) : t = Tail(s)
  BY <1>1
<1>3. PICK n \in Nat : n = Len(s) - 1 /\ Len(t) = n /\ Len(s) = n + 1
  <2>1. Len(s) - 1 \in Nat /\ Len(t) = Len(s) - 1 /\ Len(s) = Len(s) - 1 + 1
    BY <1>1, <1>2
  <2> QED
    BY <2>1
<1>4. /\ s[1] \in Nat
      /\ \A i \in 1..n : t[i] = s[i + 1] /\ i + 1 \in 1..Len(s)
      /\ \A i \in 2..(n + 1) : s[i] = s[i - 1] + 1
  BY <1>1, <1>2, <1>3 DEF Run
<1>5. Run(t)
  <2>1. ASSUME NEW i \in 2..n
        PROVE  t[i] = t[i - 1] + 1
    <3>1. i \in 1..n /\ i - 1 \in 1..n /\ i + 1 \in 2..(n + 1) /\ i - 1 + 1 = i /\ i + 1 - 1 = i
      BY <1>3, <2>1
    <3>2. t[i] = s[i + 1] /\ t[i - 1] = s[i] /\ s[i + 1] = s[i] + 1
      <4>1. t[i - 1] = s[i - 1 + 1]
        BY <1>4, <3>1
      <4>2. s[i + 1] = s[i + 1 - 1] + 1
        BY <1>4, <3>1
      <4>3. t[i] = s[i + 1]
        BY <1>4, <3>1
      <4> QED
        BY <3>1, <4>1, <4>2, <4>3
    <3> QED
      BY <3>2
  <2> QED
    BY <1>3, <2>1 DEF Run
<1>6. n # 0 => t[1] = s[1] + 1 /\ t[n] = s[n + 1]
  <2>1. ASSUME n # 0
        PROVE  1 \in 1..n /\ n \in 1..n /\ 2 \in 2..(n + 1) /\ 1 + 1 = 2 /\ 2 - 1 = 1
    BY <1>3, <2>1
  <2>2. ASSUME n # 0
        PROVE  t[1] = s[2] /\ s[2] = s[1] + 1 /\ t[n] = s[n + 1]
    <3>1. t[1] = s[1 + 1] /\ t[n] = s[n + 1]
      BY <1>4, <2>1, <2>2
    <3>2. s[2] = s[2 - 1] + 1
      BY <1>4, <2>1, <2>2
    <3> QED
      BY <2>1, <2>2, <3>1, <3>2
  <2> QED
    BY <2>2
<1>7. t = <<>> <=> n = 0
  BY <1>3
<1> QED
  BY <1>1, <1>2, <1>3, <1>4, <1>5, <1>6, <1>7

LEMMA RunAppend ==
    ASSUME NEW s \in Seq(Nat), NEW e \in Nat, Run(s), s # <<>> => e = s[Len(s)] + 1
    PROVE  /\ Append(s, e) \in Seq(Nat) /\ Run(Append(s, e)) /\ Append(s, e) # <<>>
           /\ Len(Append(s, e)) = Len(s) + 1
           /\ Append(s, e)[Len(s) + 1] = e
           /\ \A i \in 1..Len(s) : Append(s, e)[i] = s[i]
           /\ Append(s, e)[1] = IF s # <<>> THEN s[1] ELSE e
<1>1. /\ Append(s, e) \in Seq(Nat) /\ Len(s) \in Nat
      /\ Len(Append(s, e)) = Len(s) + 1 /\ Append(s, e)[Len(s) + 1] = e
      /\ \A i \in 1..Len(s) : Append(s, e)[i] = s[i]
      /\ s = <<>> <=> Len(s) = 0
  OBVIOUS
<1>2. PICK t \in Seq(Nat) : t = Append(s, e)
  BY <1>1
<1>3. PICK n \in Nat : n = Len(s)
  BY <1>1
<1>4. /\ Len(t) = n + 1 /\ t[n + 1] = e /\ t # <<>>
      /\ \A i \in 1..n : t[i] = s[i]
      /\ \A i \in 2..n : s[i] = s[i - 1] + 1
      /\ n # 0 => e = s[n] + 1
  BY <1>1, <1>2, <1>3 DEF Run
<1>5. Run(t)
  <2>1. ASSUME NEW i \in 2..(n + 1)
        PROVE  t[i] = t[i - 1] + 1
    <3>1. i - 1 \in 1..n
      BY <1>3, <2>1
    <3>2. t[i - 1] = s[i - 1]
      BY <1>4, <3>1
    <3>3. CASE i \in 2..n
      <4>1. i \in 1..n /\ s[i] = s[i - 1] + 1
        BY <1>3, <1>4, <3>3
      <4> QED
        BY <1>4, <3>2, <4>1
    <3>4. CASE i = n + 1
      <4>1. i - 1 = n /\ n # 0
        BY <1>3, <3>1, <3>4
      <4> QED
        BY <1>4, <3>2, <3>4, <4>1
    <3> QED
      BY <1>3, <2>1, <3>3, <3>4
  <2> QED
    BY <1>4, <2>1 DEF Run
<1>6. t[1] = IF s # <<>> THEN s[1] ELSE e
  <2>1. CASE n = 0
    BY <1>1, <1>3, <1>4, <2>1
  <2>2. CASE n # 0
    <3>1. 1 \in 1..n
      BY <1>3, <2>2
    <3> QED
      BY <1>1, <1>3, <1>4, <2>2, <3>1
  <2> QED
    BY <2>1, <2>2
<1> QED
  BY <1>1, <1>2, <1>4, <1>5, <1>6

LEMMA RunLastN ==
    ASSUME NEW s \in Seq(Nat), NEW n \in Nat \ {0}, s # <<>>, Run(s)
    PROVE  /\ LastN(s, n) \in Seq(Nat) /\ Run(LastN(s, n)) /\ LastN(s, n) # <<>>
           /\ LastN(s, n)[Len(LastN(s, n))] = s[Len(s)]
<1>1. PICK t \in Seq(Nat) : t = LastN(s, n)
  BY LastNProperties
<1>2. /\ Len(t) \in Nat /\ Len(s) \in Nat \ {0} /\ Len(t) <= Len(s) /\ Len(t) > 0
      /\ \A i \in 1..Len(t) : t[i] = s[Len(s) - Len(t) + i]
  BY <1>1, LastNProperties DEF Lesser
<1>3. Run(t)
  <2>1. ASSUME NEW i \in 2..Len(t)
        PROVE  t[i] = t[i - 1] + 1
    <3>1. Len(s) - Len(t) + i \in 2..Len(s) /\ i \in 1..Len(t) /\ i - 1 \in 1..Len(t)
      BY <1>2, <2>1
    <3>2. PICK k \in 2..Len(s) : k = Len(s) - Len(t) + i
      BY <3>1
    <3>3. Len(s) - Len(t) + (i - 1) = k - 1
      BY <1>2, <2>1, <3>2
    <3>4. t[i] = s[k] /\ t[i - 1] = s[Len(s) - Len(t) + (i - 1)]
      BY <1>2, <3>1, <3>2
    <3> QED
      BY <3>2, <3>3, <3>4 DEF Run
  <2> QED
    BY <2>1 DEF Run
<1>4. t[Len(t)] = s[Len(s)]
  <2>1. Len(t) \in 1..Len(t) /\ Len(s) - Len(t) + Len(t) = Len(s)
    BY <1>2
  <2>2. t[Len(t)] = s[Len(s) - Len(t) + Len(t)]
    BY <1>2, <2>1
  <2> QED
    BY <2>1, <2>2
<1>5. t # <<>>
  BY <1>2
<1> QED
  BY <1>1, <1>3, <1>4, <1>5

-----------------------------------------------------------------------------
\* The step changes nothing that the properties of c speak of.
LEMMA OrderFrame ==
    ASSUME NEW c \in Clients,
           UNCHANGED <<phase[c], rx[c], lagged[c], replay[c], replay_max_seq[c],
                       out[c], cursor[c], stale[c]>>
    PROVE  /\ next_seq' >= next_seq /\ Issued(c) /\ TypeOK /\ TypeOK' => Issued(c)'
           /\ OutRun(c) => OutRun(c)'
           /\ ReplayRun(c) => ReplayRun(c)'
           /\ UNCHANGED <<next_seq, sending>> /\ LiveRun(c) => LiveRun(c)'
           /\ UNCHANGED <<next_seq, sending>> /\ LiveFits(c) => LiveFits(c)'
<1>1. next_seq' >= next_seq /\ Issued(c) /\ TypeOK /\ TypeOK' => Issued(c)'
  <2>1. TypeOK => /\ next_seq \in Nat /\ cursor[c] \in Nat
                  /\ \A i \in 1..Len(out[c]) : out[c][i] \in Nat
    BY DEF TypeOK
  <2>2. TypeOK' => next_seq' \in Nat
    BY DEF TypeOK
  <2> QED
    BY <2>1, <2>2 DEF Issued
<1>2. OutRun(c) => OutRun(c)'
  BY DEF OutRun
<1>3. ReplayRun(c) => ReplayRun(c)'
  BY DEF ReplayRun, Known, Tip
<1>4. UNCHANGED <<next_seq, sending>> /\ LiveRun(c) => LiveRun(c)'
  BY DEF LiveRun, IsNext
<1>5. UNCHANGED <<next_seq, sending>> /\ LiveFits(c) => LiveFits(c)'
  BY DEF LiveFits, NextLive, IsNext, Known, Tip
<1> QED
  BY <1>1, <1>2, <1>3, <1>4, <1>5

\* Only one number is next.
LEMMA NextIsUnique ==
    ASSUME TypeOK, SendingOnce, NEW m \in Nat \ {0}, NEW n \in Nat \ {0},
           IsNext(m), IsNext(n)
    PROVE  m = n /\ m <= next_seq
<1>1. /\ next_seq \in Nat /\ \A p \in Publishers : sending[p] \in Nat
      /\ \A p \in Publishers : sending[p] < next_seq
  BY DEF TypeOK, SendingOnce
<1> QED
  BY <1>1 DEF IsNext

\* A new event is numbered after all that are still to be broadcast.
LEMMA OrderPush ==
    ASSUME OnceInv, InOrder, NEW p \in Publishers, Push(p)
    PROVE  InOrder'
<1>1. /\ next_seq \in Nat \ {0} /\ sending \in [Publishers -> Nat]
      /\ \A q \in Publishers : sending[q] \in Nat /\ sending[q] < next_seq
      /\ \A c \in Clients : rx[c] \in Seq(Nat)
  BY DEF OnceInv, TypeInv, TypeOK, SendingOnce
<1>2. /\ next_seq' = next_seq + 1 /\ sending[p] = 0
      /\ sending' = [sending EXCEPT ![p] = next_seq]
      /\ UNCHANGED <<phase, rx, lagged, replay, replay_max_seq, out, cursor, stale>>
  BY DEF Push, streamVars, clientVars
<1>3. \A q \in Publishers : sending'[q] = IF q = p THEN next_seq ELSE sending[q]
  BY <1>1, <1>2
<1>4. ASSUME NEW n \in Nat \ {0}
      PROVE  IsNext(n)' <=> IsNext(n)
  BY <1>1, <1>2, <1>3 DEF IsNext
<1>5. InTurn'
  <2>1. ASSUME NEW q \in Publishers, sending'[q] # 0,
               NEW s \in sending'[q]..(next_seq' - 1)
        PROVE  \E r \in Publishers : sending'[r] = s
    <3>1. CASE s = next_seq
      BY <1>3, <3>1
    <3>2. CASE s # next_seq
      <4>1. q # p /\ s \in sending[q]..(next_seq - 1) /\ sending[q] # 0
        BY <1>1, <1>2, <1>3, <2>1, <3>2
      <4>2. PICK r \in Publishers : sending[r] = s
        BY <4>1 DEF InOrder, InTurn
      <4>3. r # p
        BY <1>1, <1>2, <4>1, <4>2
      <4> QED
        BY <1>3, <4>2, <4>3
    <3> QED
      BY <3>1, <3>2
  <2> QED
    BY <2>1 DEF InTurn
<1>6. ASSUME NEW c \in Clients
      PROVE  LiveRun(c)' /\ OutRun(c)' /\ ReplayRun(c)' /\ LiveFits(c)'
  <2>1. OutRun(c)' /\ ReplayRun(c)'
    BY <1>2, OrderFrame DEF InOrder
  <2>2. LiveRun(c)'
    <3>1. rx[c] # <<>> => rx[c][Len(rx[c])] + 1 \in Nat \ {0}
      BY <1>1
    <3> QED
      BY <1>2, <1>4, <3>1 DEF InOrder, LiveRun
  <2>3. LiveFits(c)'
    <3>1. ASSUME NEW n \in 1..next_seq', NextLive(c, n)'
          PROVE  n \in 1..next_seq /\ NextLive(c, n)
      <4>1. CASE rx[c] # <<>>
        <5>1. n = rx[c][1] /\ rx[c][1] \in Range(rx[c])
          BY <1>1, <1>2, <3>1, <4>1 DEF NextLive, Range
        <5>2. n < next_seq
          BY <5>1 DEF OnceInv, LiveOnce
        <5> QED
          BY <1>1, <3>1, <4>1, <5>1, <5>2 DEF NextLive
      <4>2. CASE rx[c] = <<>>
        <5>1. IsNext(n) /\ n \in Nat \ {0}
          BY <1>1, <1>2, <1>4, <3>1, <4>2 DEF NextLive
        <5>2. n <= next_seq
          BY <1>1, <5>1 DEF IsNext
        <5> QED
          BY <1>1, <4>2, <5>1, <5>2 DEF NextLive
      <4> QED
        BY <4>1, <4>2
    <3> QED
      BY <1>2, <3>1 DEF InOrder, LiveFits, Known, Tip
  <2> QED
    BY <2>1, <2>2, <2>3
<1> QED
  BY <1>5, <1>6 DEF InOrder

\* What is broadcast in turn goes on with what every receiver holds.
LEMMA OrderBroadcast ==
    ASSUME OnceInv, InOrder, \A c \in Clients : Issued(c),
           NEW p \in Publishers, Broadcast(p), ~overtaken'
    PROVE  InOrder'
<1>1. /\ next_seq \in Nat \ {0} /\ sending \in [Publishers -> Nat]
      /\ \A q \in Publishers : sending[q] \in Nat /\ sending[q] < next_seq
      /\ \A q \in Publishers : sending[q] = sending[p] /\ q # p => sending[q] = 0
      /\ \A c \in Clients : rx[c] \in Seq(Nat) /\ lagged[c] \in BOOLEAN
      /\ TypeOK /\ SendingOnce /\ BroadcastCap \in Nat \ {0}
  BY BusAssumption DEF OnceInv, TypeInv, TypeOK, SendingOnce
<1>2. /\ sending[p] # 0 /\ sending[p] \in Nat
      /\ sending' = [sending EXCEPT ![p] = 0]
      /\ \A q \in Publishers : sending[q] \notin 1..(sending[p] - 1)
      /\ UNCHANGED <<next_seq, phase, replay, replay_max_seq, out, cursor, stale>>
  BY <1>1 DEF Broadcast, clientVars
<1>3. \A q \in Publishers : sending'[q] = IF q = p THEN 0 ELSE sending[q]
  BY <1>1, <1>2
<1>4. \A q \in Publishers : sending[q] # 0 => sending[q] >= sending[p]
  BY <1>1, <1>2
<1>5. IsNext(sending[p])
  BY <1>4 DEF IsNext
<1>6. \A q \in Publishers : sending'[q] # 0 => q # p /\ sending[q] >= sending[p] + 1
  BY <1>1, <1>2, <1>3, <1>4
<1>7. PICK e \in Nat : e = sending[p] + 1 /\ IsNext(e)'
  <2>1. PICK e \in Nat : e = sending[p] + 1
    BY <1>2
  <2>2. e = next_seq \/ \E q \in Publishers : sending[q] = e
    <3>1. CASE e # next_seq
      <4>1. e \in sending[p]..(next_seq - 1)
        BY <1>1, <1>2, <2>1, <3>1
      <4> QED
        BY <1>2, <4>1 DEF InOrder, InTurn
    <3> QED
      BY <3>1
  <2>3. \A q \in Publishers : sending[q] = e => sending'[q] = e
    BY <1>1, <1>2, <2>1
  <2>4. e = next_seq' \/ \E q \in Publishers : sending'[q] = e
    BY <1>2, <2>2, <2>3
  <2>5. \A q \in Publishers : sending'[q] # 0 => sending'[q] >= e
    BY <1>3, <1>6, <2>1
  <2>6. IsNext(e)'
    BY <2>4, <2>5 DEF IsNext
  <2> QED
    BY <2>1, <2>6
<1>8. InTurn'
  <2>1. ASSUME NEW q \in Publishers, sending'[q] # 0,
               NEW s \in sending'[q]..(next_seq' - 1)
        PROVE  \E r \in Publishers : sending'[r] = s
    <3>1. /\ q # p /\ sending[q] # 0 /\ s \in sending[q]..(next_seq - 1)
          /\ s > sending[p]
      BY <1>1, <1>2, <1>3, <1>6, <2>1
    <3>2. PICK r \in Publishers : sending[r] = s
      BY <3>1 DEF InOrder, InTurn
    <3>3. r # p
      BY <1>2, <3>1, <3>2
    <3> QED
      BY <1>3, <3>2, <3>3
  <2> QED
    BY <2>1 DEF InTurn
<1>9. ASSUME NEW c \in Clients
      PROVE  LiveRun(c)' /\ OutRun(c)' /\ ReplayRun(c)' /\ LiveFits(c)'
  <2>1. OutRun(c)' /\ ReplayRun(c)'
    BY <1>2 DEF InOrder, OutRun, ReplayRun, Known, Tip
  <2>2. CASE c \notin Receivers
    <3>1. rx'[c] = rx[c] /\ phase'[c] \notin {"subscribing", "streaming"}
      BY <1>2, <2>2 DEF Broadcast, Receivers
    <3>2. rx'[c] = <<>>
      BY <1>2, <3>1 DEF Issued
    <3> QED
      BY <2>1, <3>1, <3>2 DEF LiveRun, LiveFits, Run
  <2>3. CASE c \in Receivers
    <3> DEFINE a == Append(rx[c], sending[p])
    <3>1. /\ rx'[c] = LastN(a, BroadcastCap)
          /\ lagged'[c] = (lagged[c] \/ Len(rx[c]) >= BroadcastCap)
      BY <2>3 DEF Broadcast
    <3>2. rx[c] \in Seq(Nat) /\ Run(rx[c]) /\ sending[p] \in Nat
      BY <1>1, <1>2 DEF InOrder, LiveRun
    <3>3. rx[c] # <<>> => sending[p] = rx[c][Len(rx[c])] + 1
      <4>1. ASSUME rx[c] # <<>>
            PROVE  rx[c][Len(rx[c])] + 1 \in Nat \ {0} /\ IsNext(rx[c][Len(rx[c])] + 1)
        BY <3>2, <4>1 DEF InOrder, LiveRun
      <4> QED
        BY <1>1, <1>2, <1>5, <4>1, NextIsUnique
    <3>4. /\ a \in Seq(Nat) /\ Run(a) /\ a # <<>> /\ Len(a) = Len(rx[c]) + 1
          /\ a[Len(a)] = sending[p]
          /\ a[1] = IF rx[c] # <<>> THEN rx[c][1] ELSE sending[p]
      BY <3>2, <3>3, RunAppend
    <3> HIDE DEF a
    <3>5. /\ Run(rx'[c]) /\ rx'[c] # <<>> /\ rx'[c] \in Seq(Nat)
          /\ rx'[c][Len(rx'[c])] = sending[p]
      BY <1>1, <3>1, <3>4, RunLastN
    <3>6. LiveRun(c)'
      <4>1. e = rx'[c][Len(rx'[c])] + 1
        BY <1>7, <3>5
      <4>2. IsNext(rx[c][Len(rx[c])] + 1)'
        BY <1>7, <4>1 DEF IsNext
      <4> QED
        BY <3>5, <4>2 DEF LiveRun
    <3>7. ASSUME ~lagged'[c]
          PROVE  ~lagged[c] /\ rx'[c] = a
      <4>1. ~lagged[c] /\ ~(Len(rx[c]) >= BroadcastCap)
        BY <3>1, <3>7
      <4>2. Len(rx[c]) \in Nat
        BY <3>2
      <4>3. ~(Len(a) > BroadcastCap)
        BY <1>1, <3>4, <4>1, <4>2
      <4> QED
        BY <3>1, <4>1, <4>3 DEF LastN
    <3>8. LiveFits(c)'
      <4>1. ASSUME ~lagged'[c], NEW n \in 1..next_seq, NextLive(c, n)'
            PROVE  NextLive(c, n)
        <5>1. n = a[1]
          BY <3>4, <3>7, <4>1 DEF NextLive
        <5> QED
          BY <1>5, <3>4, <5>1 DEF NextLive
      <4> QED
        BY <1>2, <3>7, <4>1 DEF InOrder, LiveFits, Known, Tip
    <3> QED
      BY <2>1, <3>6, <3>8
  <2> QED
    BY <2>2, <2>3
<1> QED
  BY <1>8, <1>9 DEF InOrder

\* A connection that is set up, or ends, has no run to keep but its frames'.
LEMMA OrderNotStreaming ==
    ASSUME NEW c \in Clients, LiveRun(c), OutRun(c), phase'[c] # "streaming",
           UNCHANGED <<next_seq, sending, cursor[c], stale[c]>>,
           rx'[c] \in {rx[c], <<>>}, out'[c] \in {out[c], <<>>, <<ErrorSeq(c)>>}
    PROVE  LiveRun(c)' /\ OutRun(c)' /\ ReplayRun(c)' /\ LiveFits(c)'
<1>1. Run(<<>>) /\ Run(<<ErrorSeq(c)>>) /\ <<ErrorSeq(c)>>[1] = 0
  BY DEF Run, ErrorSeq
<1>2. LiveRun(c)'
  <2>1. CASE rx'[c] = rx[c]
    BY <2>1 DEF LiveRun, IsNext
  <2>2. CASE rx'[c] = <<>>
    BY <1>1, <2>2 DEF LiveRun
  <2> QED
    BY <2>1, <2>2
<1>3. OutRun(c)'
  <2>1. CASE out'[c] = out[c]
    BY <2>1 DEF OutRun
  <2>2. CASE out'[c] = <<>>
    BY <1>1, <2>2 DEF OutRun
  <2>3. CASE out'[c] = <<ErrorSeq(c)>>
    BY <1>1, <2>3 DEF OutRun
  <2> QED
    BY <2>1, <2>2, <2>3
<1> QED
  BY <1>2, <1>3 DEF ReplayRun, LiveFits

\* The snapshot goes on where the client's cursor is.
LEMMA OrderSnapshot ==
    ASSUME OnceInv, InOrder, NEW c \in Clients, Issued(c), Snapshot(c)
    PROVE  LiveRun(c)' /\ OutRun(c)' /\ ReplayRun(c)' /\ LiveFits(c)'
<1>1. /\ BufferInv /\ cursor[c] \in Nat /\ next_seq \in Nat \ {0}
      /\ phase[c] = "subscribing" /\ ~TooFarBehind(cursor[c])
      /\ replay'[c] = Newer(cursor[c])
      /\ replay_max_seq'[c] = next_seq - 1
      /\ Len(buffer) \in Nat
      /\ UNCHANGED <<next_seq, sending, rx, lagged, out, cursor, stale>>
  <2>1. /\ TypeOK /\ BufferInv /\ cursor[c] \in Nat /\ next_seq \in Nat \ {0}
        /\ buffer \in Seq(Nat)
    BY DEF OnceInv, TypeInv, TypeOK
  <2>2. ReplayMax(cursor[c]) = next_seq - 1
    BY <2>1, ReplayMaxIs
  <2>3. /\ phase[c] = "subscribing" /\ ~TooFarBehind(cursor[c])
        /\ replay'[c] = Newer(cursor[c])
        /\ replay_max_seq'[c] = ReplayMax(cursor[c])
        /\ UNCHANGED <<next_seq, sending, rx, lagged, out, cursor, stale>>
    BY <2>1 DEF Snapshot, busVars, clientVars, TypeOK
  <2> QED
    BY <2>1, <2>2, <2>3
<1>2. out[c] = <<>> /\ out'[c] = <<>>
  BY <1>1 DEF Issued
<1>3. LiveRun(c)' /\ OutRun(c)'
  BY <1>1 DEF InOrder, LiveRun, OutRun, IsNext
<1>4. PICK t \in Seq(Nat) : t = Newer(cursor[c])
  BY <1>1, NewerIsSuffix
<1>5. PICK n \in Nat : n = Len(t)
  OBVIOUS
<1>6. /\ n <= next_seq - 1
      /\ \A i \in 1..n : t[i] = next_seq - 1 - n + i
      /\ n = 0 => cursor[c] >= next_seq - 1
      /\ next_seq - 1 - Len(buffer) <= cursor[c] /\ cursor[c] <= next_seq - 1
           => n = next_seq - 1 - cursor[c]
      /\ Run(t)
      /\ n # 0 => t[n] = next_seq - 1
      /\ t = <<>> <=> n = 0
  <2>1. t = <<>> <=> n = 0
    BY <1>5
  <2>2. /\ n <= next_seq - 1
        /\ \A i \in 1..n : t[i] = next_seq - 1 - n + i
        /\ n = 0 => cursor[c] >= next_seq - 1
        /\ next_seq - 1 - Len(buffer) <= cursor[c] /\ cursor[c] <= next_seq - 1
             => n = next_seq - 1 - cursor[c]
    BY <1>1, <1>4, <1>5, <2>1, NewerIsSuffix
  <2>3. ASSUME NEW i \in 2..n
        PROVE  t[i] = t[i - 1] + 1
    <3>1. i \in 1..n /\ i - 1 \in 1..n
      BY <1>5, <2>3
    <3>2. t[i] = next_seq - 1 - n + i /\ t[i - 1] = next_seq - 1 - n + (i - 1)
      BY <2>2, <3>1
    <3> QED
      BY <1>1, <1>5, <2>3, <3>2
  <2>4. Run(t)
    BY <1>5, <2>3 DEF Run
  <2>5. ASSUME n # 0
        PROVE  t[n] = next_seq - 1
    <3>1. n \in 1..n
      BY <1>5, <2>5
    <3>2. t[n] = next_seq - 1 - n + n
      BY <2>2, <3>1
    <3> QED
      BY <1>1, <1>5, <3>2
  <2> QED
    BY <2>1, <2>2, <2>4, <2>5
<1>7. ASSUME Known(c)'
      PROVE  /\ Tip(c)' = cursor[c] /\ cursor[c] < next_seq
             /\ t # <<>> => t[1] = cursor[c] + 1
  <2>1. cursor[c] # 0 /\ ~stale[c] /\ Tip(c)' = cursor[c]
    BY <1>1, <1>2, <1>7 DEF Known, Tip
  <2>2. cursor[c] < next_seq
    BY <2>1 DEF Issued
  <2>3. ASSUME t # <<>>
        PROVE  t[1] = cursor[c] + 1
    <3>1. n # 0 /\ 1 \in 1..n /\ next_seq > 1
      BY <1>1, <1>5, <1>6, <2>3
    <3>2. BufMin = next_seq - Len(buffer) /\ Len(buffer) <= next_seq - 1
      <4>1. BufMin = next_seq - Len(buffer)
        BY <1>1, <3>1, ReplayMaxIs
      <4>2. Len(buffer) = Lesser(next_seq - 1, ReplayCap)
        BY <1>1 DEF BufferInv, BufferHoldsNewest
      <4> QED
        BY <1>1, <4>1, <4>2, BusAssumption DEF Lesser
    <3>3. next_seq - Len(buffer) <= cursor[c]
      BY <1>1, <2>1, <3>2 DEF TooFarBehind
    <3>4. n = next_seq - 1 - cursor[c]
      BY <1>1, <1>6, <2>2, <3>3
    <3>5. t[1] = next_seq - 1 - n + 1
      BY <1>6, <3>1
    <3> QED
      BY <1>1, <1>5, <3>4, <3>5
  <2> QED
    BY <2>1, <2>2, <2>3
<1>8. ReplayRun(c)'
  <2>1. t # <<>> => t[Len(t)] = next_seq - 1
    BY <1>5, <1>6
  <2>2. t = <<>> /\ Known(c)' => Tip(c)' >= next_seq - 1
    BY <1>6, <1>7
  <2> QED
    BY <1>1, <1>4, <1>6, <1>7, <2>1, <2>2 DEF ReplayRun
<1>9. LiveFits(c)'
  <2>1. ASSUME NEW m \in 1..next_seq
        PROVE  /\ m <= next_seq - 1 + 1
               /\ t = <<>> /\ Known(c)' =>
                     /\ m <= Tip(c)' + 1
                     /\ ~(Tip(c)' > next_seq - 1)
    BY <1>1, <1>6, <1>7
  <2> QED
    BY <1>1, <1>4, <2>1 DEF LiveFits
<1> QED
  BY <1>3, <1>8, <1>9

\* The frame that goes on with what the client has.
LEMMA OutAppend ==
    ASSUME TypeOK, NEW c \in Clients, OutRun(c), NEW e \in Nat,
           Known(c) => e = Tip(c) + 1,
           out'[c] = Append(out[c], e), UNCHANGED <<cursor[c], stale[c]>>
    PROVE  OutRun(c)' /\ Known(c)' /\ Tip(c)' = e
<1>1. out[c] \in Seq(Nat) /\ Run(out[c]) /\ cursor[c] \in Nat
  BY DEF TypeOK, OutRun
<1>2. out[c] # <<>> => e = out[c][Len(out[c])] + 1
  BY DEF Known, Tip
<1>3. /\ out'[c] \in Seq(Nat) /\ Run(out'[c]) /\ out'[c] # <<>>
      /\ out'[c][Len(out'[c])] = e
      /\ out'[c][1] = IF out[c] # <<>> THEN out[c][1] ELSE e
  BY <1>1, <1>2, RunAppend
<1>4. Known(c)' /\ Tip(c)' = e
  BY <1>3 DEF Known, Tip
<1>5. OutRun(c)'
  <2>1. cursor[c] # 0 /\ ~stale[c] => out'[c][1] \in {cursor[c] + 1, 0}
    <3>1. CASE out[c] # <<>>
      BY <1>3, <3>1 DEF OutRun
    <3>2. CASE out[c] = <<>>
      BY <1>3, <3>2 DEF Known, Tip
    <3> QED
      BY <3>1, <3>2
  <2> QED
    BY <1>3, <2>1 DEF OutRun
<1> QED
  BY <1>4, <1>5

LEMMA OrderSendReplay ==
    ASSUME OnceInv, InOrder, NEW c \in Clients, SendReplay(c)
    PROVE  LiveRun(c)' /\ OutRun(c)' /\ ReplayRun(c)' /\ LiveFits(c)'
<1>1. /\ TypeOK /\ LiveRun(c) /\ OutRun(c) /\ ReplayRun(c) /\ LiveFits(c)
      /\ phase[c] = "streaming" /\ replay[c] # <<>>
      /\ replay[c] \in Seq(Nat) /\ replay_max_seq[c] \in Nat /\ next_seq \in Nat
      /\ replay'[c] = Tail(replay[c])
      /\ out'[c] = Append(out[c], Head(replay[c]))
      /\ UNCHANGED <<next_seq, sending, phase, rx, lagged, replay_max_seq,
                     cursor, stale>>
  BY DEF SendReplay, Emit, busVars, clientVars, InOrder, OnceInv, TypeInv, TypeOK
<1>2. PICK e \in Nat : e = Head(replay[c])
  BY <1>1, RangeOfTail
<1>3. PICK t \in Seq(Nat) : t = Tail(replay[c])
  BY <1>1, RangeOfTail
<1>4. /\ Run(t) /\ e = replay[c][1]
      /\ t # <<>> => t[1] = e + 1 /\ t[Len(t)] = replay_max_seq[c]
      /\ t = <<>> => e = replay_max_seq[c]
      /\ Known(c) => e = Tip(c) + 1
  <2>1. /\ Run(replay[c]) /\ replay[c][Len(replay[c])] = replay_max_seq[c]
        /\ Known(c) => replay[c][1] = Tip(c) + 1
    BY <1>1 DEF ReplayRun
  <2> QED
    BY <1>1, <1>2, <1>3, <2>1, RunTail
<1>5. OutRun(c)' /\ Known(c)' /\ Tip(c)' = e
  BY <1>1, <1>2, <1>4, OutAppend
<1>6. LiveRun(c)'
  BY <1>1 DEF LiveRun, IsNext
<1>7. ReplayRun(c)'
  BY <1>1, <1>3, <1>4, <1>5 DEF ReplayRun
<1>8. LiveFits(c)'
  <2>1. ASSUME ~lagged[c], NEW n \in 1..next_seq, NextLive(c, n)'
        PROVE  n <= replay_max_seq[c] + 1
    <3>1. NextLive(c, n)
      BY <1>1, <2>1 DEF NextLive, IsNext
    <3> QED
      BY <1>1, <2>1, <3>1 DEF LiveFits
  <2>2. t = <<>> => ~(Tip(c)' > replay_max_seq[c])
    BY <1>1, <1>4, <1>5
  <2> QED
    BY <1>1, <1>3, <1>4, <1>5, <2>1, <2>2 DEF LiveFits
<1> QED
  BY <1>5, <1>6, <1>7, <1>8

LEMMA OrderSendLive ==
    ASSUME OnceInv, InOrder, NEW c \in Clients, SendLive(c)
    PROVE  LiveRun(c)' /\ OutRun(c)' /\ ReplayRun(c)' /\ LiveFits(c)'
<1>1. /\ TypeOK /\ SendingOnce
      /\ LiveRun(c) /\ OutRun(c) /\ ReplayRun(c) /\ LiveFits(c) /\ LiveOnce(c)
      /\ phase[c] = "streaming" /\ replay[c] = <<>> /\ ~lagged[c] /\ rx[c] # <<>>
      /\ rx[c] \in Seq(Nat) /\ replay_max_seq[c] \in Nat /\ next_seq \in Nat \ {0}
      /\ rx'[c] = Tail(rx[c])
      /\ UNCHANGED <<next_seq, sending, phase, lagged, replay, replay_max_seq,
                     cursor, stale>>
  BY DEF SendLive, busVars, clientVars, InOrder, OnceInv, TypeInv, TypeOK
<1>2. PICK h \in Nat : h = Head(rx[c])
  BY <1>1, RangeOfTail
<1>3. PICK t \in Seq(Nat) : t = Tail(rx[c])
  BY <1>1, RangeOfTail
<1>4. \/ h <= replay_max_seq[c] /\ out'[c] = out[c]
      \/ h > replay_max_seq[c] /\ out'[c] = Append(out[c], h)
  <2>1. IF Head(rx[c]) <= replay_max_seq[c]
        THEN UNCHANGED <<out, sent>> ELSE Emit(c, Head(rx[c]))
    BY DEF SendLive
  <2>2. CASE h <= replay_max_seq[c]
    BY <1>2, <2>1, <2>2
  <2>3. CASE ~(h <= replay_max_seq[c])
    <3>1. out'[c] = Append(out[c], h)
      BY <1>1, <1>2, <2>1, <2>3 DEF Emit, TypeOK
    <3> QED
      BY <1>1, <2>3, <3>1
  <2> QED
    BY <2>2, <2>3
<1>5. /\ Run(t) /\ h = rx[c][1]
      /\ t # <<>> => t[1] = h + 1 /\ t[Len(t)] = rx[c][Len(rx[c])]
      /\ t = <<>> => h = rx[c][Len(rx[c])]
      /\ IsNext(rx[c][Len(rx[c])] + 1)
  BY <1>1, <1>2, <1>3, RunTail DEF LiveRun
<1>6. h \in 1..next_seq /\ NextLive(c, h)
  <2>1. h \in Range(rx[c])
    BY <1>1, <1>2, DistinctTail DEF LiveOnce
  <2>2. h # 0 /\ h < next_seq
    BY <1>1, <2>1 DEF LiveOnce
  <2> QED
    BY <1>1, <1>2, <1>5, <2>2 DEF NextLive
<1>7. Known(c) => /\ Tip(c) \in Nat /\ Tip(c) >= replay_max_seq[c] /\ h <= Tip(c) + 1
                  /\ Tip(c) > replay_max_seq[c] => h = Tip(c) + 1
  <2>1. Tip(c) \in Nat
    <3>1. out[c] \in Seq(Nat) /\ cursor[c] \in Nat
      BY <1>1 DEF TypeOK
    <3>2. out[c] # <<>> => out[c][Len(out[c])] \in Nat
      BY <3>1
    <3> QED
      BY <3>1, <3>2 DEF Tip
  <2>2. Known(c) => Tip(c) >= replay_max_seq[c]
    BY <1>1 DEF ReplayRun
  <2>3. Known(c) => /\ h <= Tip(c) + 1
                    /\ Tip(c) > replay_max_seq[c] => h = Tip(c) + 1
    BY <1>1, <1>6 DEF LiveFits
  <2> QED
    BY <2>1, <2>2, <2>3
<1>8. ASSUME NEW n \in 1..next_seq, NextLive(c, n)'
      PROVE  n = h + 1
  <2>1. CASE t # <<>>
    BY <1>1, <1>3, <1>5, <1>8, <2>1 DEF NextLive
  <2>2. CASE t = <<>>
    <3>1. IsNext(n)
      BY <1>1, <1>3, <1>8, <2>2 DEF NextLive, IsNext
    <3>2. IsNext(h + 1) /\ h + 1 \in Nat \ {0} /\ n \in Nat \ {0}
      BY <1>1, <1>5, <2>2
    <3> QED
      BY <1>1, <3>1, <3>2, NextIsUnique
  <2> QED
    BY <2>1, <2>2
<1>9. LiveRun(c)'
  BY <1>1, <1>3, <1>5 DEF LiveRun, IsNext
<1>10. CASE h <= replay_max_seq[c] /\ out'[c] = out[c]
  <2>1. OutRun(c)' /\ ReplayRun(c)'
    BY <1>1, <1>10 DEF OutRun, ReplayRun, Known, Tip
  <2>2. Known(c)' = Known(c) /\ Tip(c)' = Tip(c)
    BY <1>1, <1>10 DEF Known, Tip
  <2>3. Known(c) => ~(Tip(c) > replay_max_seq[c]) /\ h + 1 <= Tip(c) + 1
    BY <1>1, <1>7, <1>10
  <2>4. LiveFits(c)'
    BY <1>1, <1>8, <2>2, <2>3 DEF LiveFits
  <2> QED
    BY <1>9, <2>1, <2>4
<1>11. CASE h > replay_max_seq[c] /\ out'[c] = Append(out[c], h)
  <2>1. Known(c) => h = Tip(c) + 1
    BY <1>1, <1>7, <1>11
  <2>2. OutRun(c)' /\ Known(c)' /\ Tip(c)' = h
    BY <1>1, <1>11, <2>1, OutAppend
  <2>3. ReplayRun(c)'
    <3>1. Run(<<>>)
      BY DEF Run
    <3>2. h >= replay_max_seq[c]
      BY <1>1, <1>11
    <3> QED
      BY <1>1, <2>2, <3>1, <3>2 DEF ReplayRun
  <2>4. LiveFits(c)'
    <3>1. ASSUME NEW n \in 1..next_seq, NextLive(c, n)'
          PROVE  n = Tip(c)' + 1 /\ n <= Tip(c)' + 1
      BY <1>8, <2>2, <3>1
    <3> QED
      BY <1>1, <3>1 DEF LiveFits
  <2> QED
    BY <1>9, <2>2, <2>3, <2>4
<1> QED
  BY <1>4, <1>10, <1>11

LEMMA OrderDeliver ==
    ASSUME OnceInv, InOrder, NEW c \in Clients, Issued(c), Deliver(c)
    PROVE  LiveRun(c)' /\ OutRun(c)' /\ ReplayRun(c)' /\ LiveFits(c)'
<1>1. /\ TypeOK /\ LiveRun(c) /\ OutRun(c) /\ ReplayRun(c) /\ LiveFits(c)
      /\ out[c] \in Seq(Nat) /\ out[c] # <<>>
      /\ cursor'[c] = Head(out[c]) /\ ~stale'[c] /\ out'[c] = Tail(out[c])
      /\ UNCHANGED <<next_seq, sending, phase, rx, lagged, replay, replay_max_seq>>
  BY DEF Deliver, busVars, InOrder, OnceInv, TypeInv, TypeOK
<1>2. PICK t \in Seq(Nat) : t = Tail(out[c])
  BY <1>1, RangeOfTail
<1>3. /\ Run(t) /\ cursor'[c] = out[c][1]
      /\ t # <<>> => t[1] = out[c][1] + 1 /\ t[Len(t)] = out[c][Len(out[c])]
      /\ t = <<>> => out[c][1] = out[c][Len(out[c])]
  BY <1>1, <1>2, RunTail DEF OutRun
<1>4. LiveRun(c)'
  BY <1>1 DEF LiveRun, IsNext
<1>5. OutRun(c)'
  BY <1>1, <1>2, <1>3 DEF OutRun
<1>6. ASSUME phase[c] = "streaming"
      PROVE  Known(c)' /\ Known(c) /\ Tip(c)' = Tip(c)
  <2>1. 1 \in 1..Len(out[c])
    BY <1>1
  <2>2. out[c][1] # 0
    BY <1>6, <2>1 DEF Issued
  <2>3. Known(c) /\ Tip(c) = out[c][Len(out[c])]
    BY <1>1 DEF Known, Tip
  <2>4. CASE t # <<>>
    BY <1>1, <1>2, <1>3, <2>3, <2>4 DEF Known, Tip
  <2>5. CASE t = <<>>
    BY <1>1, <1>2, <1>3, <2>2, <2>3, <2>5 DEF Known, Tip
  <2> QED
    BY <2>4, <2>5, <2>3
<1>7. ReplayRun(c)'
  BY <1>1, <1>6 DEF ReplayRun
<1>8. LiveFits(c)'
  <2>1. \A n \in 1..next_seq : NextLive(c, n)' => NextLive(c, n)
    BY <1>1 DEF NextLive, IsNext
  <2> QED
    BY <1>1, <1>6, <2>1 DEF LiveFits
<1> QED
  BY <1>4, <1>5, <1>7, <1>8

\* A step of another client, or of none, leaves the properties of c alone.
LEMMA OrderClient ==
    ASSUME OnceInv, InOrder, \A c \in Clients : Issued(c),
           NEW d \in Clients, Stream(d) \/ Disconnect(d), NEW c \in Clients
    PROVE  LiveRun(c)' /\ OutRun(c)' /\ ReplayRun(c)' /\ LiveFits(c)'
<1>1. /\ TypeOK /\ Issued(c)
      /\ LiveRun(c) /\ OutRun(c) /\ ReplayRun(c) /\ LiveFits(c)
  BY DEF OnceInv, TypeInv, InOrder
<1>2. UNCHANGED <<next_seq, sending>>
  BY DEF Stream, Disconnect, Connect, Refuse, Snapshot, SendReplay, SendLive,
         Lagged, Deliver, EndOfStream, busVars
<1>3. CASE c # d
  <2>1. UNCHANGED <<phase[c], rx[c], lagged[c], replay[c], replay_max_seq[c],
                    out[c], cursor[c], stale[c]>>
    BY <1>1, <1>3
       DEF Stream, Disconnect, Connect, Refuse, Snapshot, SendReplay, SendLive,
           Lagged, Deliver, EndOfStream, DropReceiver, Emit, busVars,
           clientVars, TypeOK
  <2> QED
    BY <1>1, <1>2, <2>1, OrderFrame
<1>4. CASE c = d /\ (Connect(c) \/ Refuse(c) \/ Lagged(c) \/ EndOfStream(c)
                        \/ Disconnect(c))
  <2>1. /\ phase'[c] # "streaming" /\ UNCHANGED <<cursor[c], stale[c]>>
        /\ rx'[c] \in {rx[c], <<>>} /\ out'[c] \in {out[c], <<>>, <<ErrorSeq(c)>>}
    BY <1>1, <1>4
       DEF TypeOK, Connect, Refuse, Lagged, EndOfStream, Disconnect,
           DropReceiver, clientVars
  <2> QED
    BY <1>1, <1>2, <2>1, OrderNotStreaming
<1> QED
  BY <1>1, <1>3, <1>4, OrderSnapshot, OrderSendReplay, OrderSendLive, OrderDeliver
     DEF Stream

-----------------------------------------------------------------------------
\* Only published events, and the 0 of a refusal, are on their way.
LEMMA IssuedSend ==
    ASSUME OnceInv, NEW c \in Clients, Issued(c), SendReplay(c) \/ SendLive(c)
    PROVE  Issued(c)'
<1>1. /\ TypeOK /\ LiveOnce(c) /\ SentOnce(c) /\ phase[c] = "streaming"
      /\ out[c] \in Seq(Nat) /\ replay[c] \in Seq(Nat) /\ rx[c] \in Seq(Nat)
      /\ next_seq \in Nat /\ replay_max_seq[c] \in Nat
      /\ UNCHANGED <<next_seq, phase, cursor, stale>>
  BY DEF SendReplay, SendLive, busVars, clientVars, OnceInv, TypeInv, TypeOK
<1>2. ASSUME NEW e \in Nat, e # 0, e < next_seq, out'[c] = Append(out[c], e),
             \A i \in 1..Len(replay'[c]) : replay'[c][i] # 0
      PROVE  Issued(c)'
  <2>1. \A i \in 1..Len(out'[c]) : i \in 1..Len(out[c]) \/ out'[c][i] = e
    BY <1>1, <1>2
  <2>2. \A i \in 1..Len(out[c]) : out'[c][i] = out[c][i]
    BY <1>1, <1>2
  <2>3. \A i \in 1..Len(out'[c]) : out'[c][i] < next_seq /\ out'[c][i] # 0
    BY <1>1, <1>2, <2>1, <2>2 DEF Issued
  <2> QED
    BY <1>1, <1>2, <2>3 DEF Issued
<1>3. CASE SendReplay(c)
  <2>1. /\ replay[c] # <<>> /\ replay'[c] = Tail(replay[c])
        /\ out'[c] = Append(out[c], Head(replay[c]))
    BY <1>1, <1>3 DEF SendReplay, Emit, TypeOK
  <2>2. PICK e \in Nat : e = Head(replay[c])
    BY <1>1, <2>1, RangeOfTail
  <2>3. e \in Range(replay[c])
    BY <1>1, <2>1, <2>2, DistinctTail DEF SentOnce
  <2>4. e < next_seq
    BY <1>1, <2>3 DEF SentOnce
  <2>5. 1 \in 1..Len(replay[c]) /\ e = replay[c][1]
    BY <1>1, <2>1, <2>2
  <2>6. \A i \in 1..Len(replay'[c]) :
           i + 1 \in 1..Len(replay[c]) /\ replay'[c][i] = replay[c][i + 1]
    BY <1>1, <2>1
  <2>7. e # 0 /\ \A i \in 1..Len(replay'[c]) : replay'[c][i] # 0
    BY <2>5, <2>6 DEF Issued
  <2> QED
    BY <1>2, <2>1, <2>2, <2>4, <2>7
<1>4. CASE SendLive(c)
  <2>1. /\ rx[c] # <<>> /\ replay'[c] = replay[c]
        /\ out'[c] = out[c] \/ out'[c] = Append(out[c], Head(rx[c]))
    <3>1. IF Head(rx[c]) <= replay_max_seq[c]
          THEN UNCHANGED <<out, sent>> ELSE Emit(c, Head(rx[c]))
      BY <1>4 DEF SendLive
    <3> QED
      BY <1>1, <1>4, <3>1 DEF SendLive, Emit, TypeOK
  <2>2. PICK e \in Nat : e = Head(rx[c])
    BY <1>1, <2>1, RangeOfTail
  <2>3. e \in Range(rx[c])
    BY <1>1, <2>1, <2>2, DistinctTail DEF LiveOnce
  <2>4. e # 0 /\ e < next_seq
    BY <1>1, <2>3 DEF LiveOnce
  <2>5. CASE out'[c] = out[c]
    BY <1>1, <2>1, <2>5 DEF Issued
  <2>6. CASE out'[c] = Append(out[c], Head(rx[c]))
    BY <1>2, <2>1, <2>2, <2>4, <2>6 DEF Issued
  <2> QED
    BY <2>1, <2>5, <2>6
<1> QED
  BY <1>3, <1>4

LEMMA IssuedClient ==
    ASSUME OnceInv, NEW c \in Clients, Issued(c), Stream(c) \/ Disconnect(c)
    PROVE  Issued(c)'
<1>1. /\ TypeOK /\ BufferInv /\ next_seq \in Nat \ {0} /\ cursor[c] \in Nat
      /\ out[c] \in Seq(Nat)
  BY DEF OnceInv, TypeInv, TypeOK
<1>2. next_seq' = next_seq
  BY DEF Stream, Disconnect, Connect, Refuse, Snapshot, SendReplay, SendLive,
         Lagged, Deliver, EndOfStream, busVars
<1>3. CASE Connect(c) \/ EndOfStream(c)
  <2>1. /\ out[c] = <<>> /\ phase'[c] \in {"subscribing", "closed"}
        /\ phase'[c] = "closed" => rx[c] = <<>>
        /\ UNCHANGED <<rx, out, replay, cursor, stale>>
    BY <1>1, <1>3 DEF Connect, EndOfStream, Issued, clientVars, TypeOK
  <2> QED
    BY <1>2, <2>1 DEF Issued
<1>4. CASE Refuse(c)
  <2>1. /\ phase'[c] = "ending" /\ out'[c] = <<ErrorSeq(c)>> /\ rx'[c] = <<>>
        /\ replay'[c] = <<>> /\ UNCHANGED <<cursor, stale>>
    BY <1>1, <1>4 DEF Refuse, DropReceiver, clientVars, TypeOK
  <2>2. \A i \in 1..Len(<<ErrorSeq(c)>>) : <<ErrorSeq(c)>>[i] < next_seq
    BY <1>1 DEF ErrorSeq
  <2> QED
    BY <1>2, <2>1, <2>2 DEF Issued
<1>5. CASE Lagged(c) \/ Disconnect(c)
  <2>1. /\ phase'[c] \in {"ending", "closed"} /\ rx'[c] = <<>>
        /\ replay'[c] = <<>> /\ UNCHANGED <<cursor, stale>>
        /\ \/ out'[c] = out[c] /\ phase'[c] = "ending"
           \/ out'[c] = <<>>
    BY <1>1, <1>5 DEF Lagged, Disconnect, DropReceiver, clientVars, TypeOK
  <2> QED
    BY <1>2, <2>1 DEF Issued
<1>6. CASE Snapshot(c)
  <2>1. /\ phase'[c] = "streaming" /\ out[c] = <<>>
        /\ replay'[c] = Newer(cursor[c])
        /\ UNCHANGED <<rx, out, cursor, stale>>
    BY <1>1, <1>6 DEF Snapshot, Issued, clientVars, TypeOK
  <2>2. PICK t \in Seq(Nat) : t = Newer(cursor[c])
    BY <1>1, NewerIsSuffix
  <2>3. PICK n \in Nat : n = Len(t)
    OBVIOUS
  <2>4. n <= next_seq - 1 /\ \A i \in 1..n : t[i] = next_seq - 1 - n + i
    BY <1>1, <2>2, <2>3, NewerIsSuffix
  <2>5. \A i \in 1..n : t[i] # 0
    BY <1>1, <2>3, <2>4
  <2> QED
    BY <1>2, <2>1, <2>2, <2>3, <2>5 DEF Issued
<1>7. CASE Deliver(c)
  <2>1. /\ out[c] # <<>> /\ cursor'[c] = Head(out[c]) /\ out'[c] = Tail(out[c])
        /\ UNCHANGED <<phase, rx, replay>>
    BY <1>1, <1>7 DEF Deliver, TypeOK
  <2>2. /\ 1 \in 1..Len(out[c]) /\ Head(out[c]) = out[c][1]
        /\ \A i \in 1..Len(out'[c]) :
              i + 1 \in 1..Len(out[c]) /\ out'[c][i] = out[c][i + 1]
    BY <1>1, <2>1
  <2>3. phase[c] \notin {"closed", "subscribing"}
    BY <2>1 DEF Issued
  <2> QED
    BY <1>2, <2>1, <2>2, <2>3 DEF Issued
<1> QED
  BY <1>3, <1>4, <1>5, <1>6, <1>7, IssuedSend DEF Stream

LEMMA IssuedStep ==
    ASSUME OnceInv, \A c \in Clients : Issued(c), [Next]_vars, NEW c \in Clients
    PROVE  Issued(c)'
<1>1. TypeOK /\ TypeOK' /\ Issued(c)
  BY TypeStep DEF OnceInv, TypeInv
<1>2. CASE Restart
  <2>1. /\ next_seq' = 1 /\ out'[c] = <<>> /\ replay'[c] = <<>> /\ rx'[c] = <<>>
        /\ phase'[c] = "closed" /\ cursor'[c] = cursor[c]
        /\ ~stale'[c] => cursor[c] = 0
    BY <1>2 DEF Restart
  <2>2. ~stale'[c] => cursor'[c] < next_seq'
    BY <2>1
  <2> QED
    BY <2>1, <2>2 DEF Issued
<1>3. CASE UNCHANGED vars
  <2>1. next_seq' >= next_seq
    BY <1>1, <1>3 DEF vars, busVars, TypeOK
  <2> QED
    BY <1>1, <1>3, <2>1, OrderFrame DEF vars, streamVars, clientVars
<1>4. ASSUME NEW d \in Clients, Stream(d) \/ Disconnect(d)
      PROVE  Issued(c)'
  <2>1. CASE c # d
    <3>1. /\ next_seq' = next_seq
          /\ UNCHANGED <<phase[c], rx[c], lagged[c], replay[c], replay_max_seq[c],
                         out[c], cursor[c], stale[c]>>
      BY <1>1, <1>4, <2>1
         DEF Stream, Disconnect, Connect, Refuse, Snapshot, SendReplay, SendLive,
             Lagged, Deliver, EndOfStream, DropReceiver, Emit, busVars,
             clientVars, TypeOK
    <3>2. next_seq' >= next_seq
      BY <1>1, <3>1 DEF TypeOK
    <3> QED
      BY <1>1, <3>1, <3>2, OrderFrame
  <2> QED
    BY <1>1, <1>4, <2>1, IssuedClient
<1>5. ASSUME NEW p \in Publishers, Push(p)
      PROVE  Issued(c)'
  <2>1. next_seq' >= next_seq
    BY <1>1, <1>5 DEF Push, TypeOK
  <2> QED
    BY <1>1, <1>5, <2>1, OrderFrame DEF Push, streamVars, clientVars
<1>6. ASSUME NEW p \in Publishers, Broadcast(p)
      PROVE  Issued(c)'
  <2>1. phase[c] \notin {"subscribing", "streaming"} => rx'[c] = rx[c]
    BY <1>6 DEF Broadcast, Receivers
  <2> QED
    BY <1>1, <1>6, <2>1 DEF Broadcast, clientVars, Issued
<1> QED
  BY <1>2, <1>3, <1>4, <1>5, <1>6 DEF Next

LEMMA OrderStep ==
    ASSUME OrderInv, [Next]_vars
    PROVE  OrderInv'
<1>1. /\ OnceInv /\ \A c \in Clients : Issued(c)
      /\ OnceInv' /\ \A c \in Clients : Issued(c)'
  BY OnceStep, IssuedStep DEF OrderInv
<1>2. SUFFICES ASSUME ~overtaken' PROVE InOrder'
  BY <1>1 DEF OrderInv
<1>3. CASE Restart
  <2>1. /\ \A p \in Publishers : sending'[p] = 0
        /\ \A c \in Clients : rx'[c] = <<>> /\ out'[c] = <<>> /\ phase'[c] = "closed"
    BY <1>3 DEF Restart
  <2>2. InTurn'
    BY <2>1 DEF InTurn
  <2>3. \A c \in Clients : LiveRun(c)' /\ OutRun(c)' /\ ReplayRun(c)' /\ LiveFits(c)'
    BY <2>1 DEF LiveRun, OutRun, ReplayRun, LiveFits, Run
  <2> QED
    BY <2>2, <2>3 DEF InOrder
<1>4. CASE UNCHANGED vars
  <2>1. InOrder
    BY <1>2, <1>4 DEF OrderInv, vars, busVars
  <2>2. \A c \in Clients : LiveRun(c)' /\ OutRun(c)' /\ ReplayRun(c)' /\ LiveFits(c)'
    BY <1>4, <2>1, OrderFrame DEF InOrder, vars, busVars, streamVars, clientVars
  <2>3. InTurn'
    BY <1>4, <2>1 DEF InOrder, InTurn, vars, busVars
  <2> QED
    BY <2>2, <2>3 DEF InOrder
<1>5. ASSUME NEW d \in Clients, Stream(d) \/ Disconnect(d)
      PROVE  InOrder'
  <2>1. UNCHANGED <<next_seq, sending, overtaken>>
    BY <1>5 DEF Stream, Disconnect, Connect, Refuse, Snapshot, SendReplay,
       SendLive, Lagged, Deliver, EndOfStream, busVars
  <2>2. InOrder
    BY <1>2, <2>1 DEF OrderInv
  <2>3. InTurn'
    BY <2>1, <2>2 DEF InOrder, InTurn
  <2>4. \A c \in Clients : LiveRun(c)' /\ OutRun(c)' /\ ReplayRun(c)' /\ LiveFits(c)'
    BY <1>1, <1>5, <2>2, OrderClient
  <2> QED
    BY <2>3, <2>4 DEF InOrder
<1>6. ASSUME NEW p \in Publishers, Push(p) \/ Broadcast(p)
      PROVE  InOrder'
  <2>1. InOrder
    BY <1>2, <1>6 DEF OrderInv, Push, Broadcast
  <2> QED
    BY <1>1, <1>2, <1>6, <2>1, OrderPush, OrderBroadcast
<1> QED
  BY <1>3, <1>4, <1>5, <1>6 DEF Next

LEMMA OrderInit == Init => OrderInv
<1> SUFFICES ASSUME Init PROVE OrderInv
  OBVIOUS
<1>1. OnceInv
  <2>1. SendingOnce /\ \A c \in Clients : LiveOnce(c) /\ SentOnce(c)
    BY DEF Init, SendingOnce, LiveOnce, SentOnce, Distinct, Range
  <2> QED
    BY <2>1, TypeInit DEF OnceInv
<1>2. \A c \in Clients : Issued(c)
  BY DEF Init, Issued
<1>3. InOrder
  BY DEF Init, InOrder, InTurn, LiveRun, OutRun, ReplayRun, LiveFits, Run
<1> QED
  BY <1>1, <1>2, <1>3 DEF OrderInv

\* As long as no publisher overtakes another, a client receives the events of
\* one server process one after the other, whatever happens to its connections.
THEOREM EveryEventOnceInOrder == Spec => ContiguousDelivery
<1>1. ASSUME OrderInv, Next, NEW c \in Clients,
             cursor'[c] # cursor[c], cursor[c] # 0, ~stale[c], ~overtaken
      PROVE  cursor'[c] \in {cursor[c] + 1, 0}
  <2>1. TypeOK /\ OutRun(c)
    BY <1>1 DEF OrderInv, OnceInv, TypeInv, InOrder
  <2>2. Deliver(c)
    <3>1. ASSUME Restart \/ \E p \in Publishers : Push(p) \/ Broadcast(p)
          PROVE  FALSE
      BY <1>1, <3>1 DEF Restart, Push, Broadcast, clientVars
    <3>2. ASSUME NEW d \in Clients, Stream(d) \/ Disconnect(d), ~Deliver(c)
          PROVE  FALSE
      BY <1>1, <2>1, <3>2 DEF Stream, Disconnect, Connect, Refuse, Snapshot,
         SendReplay, SendLive, Lagged, Deliver, EndOfStream, clientVars, TypeOK
    <3> QED
      BY <1>1, <3>1, <3>2 DEF Next
  <2>3. out[c] \in Seq(Nat) /\ out[c] # <<>> /\ cursor'[c] = Head(out[c])
    BY <2>1, <2>2 DEF Deliver, TypeOK
  <2>4. Head(out[c]) = out[c][1]
    BY <2>3
  <2> QED
    BY <1>1, <2>1, <2>3, <2>4 DEF OutRun
<1>2. OrderInv /\ [Next]_vars =>
        [\A c \in Clients :
           cursor'[c] # cursor[c] /\ cursor[c] # 0 /\ ~stale[c] /\ ~overtaken =>
              cursor'[c] \in {cursor[c] + 1, 0}]_vars
  BY <1>1
<1>3. OrderInv /\ [Next]_vars => OrderInv'
  BY OrderStep
<1> QED
  BY <1>2, <1>3, OrderInit, PTL DEF Spec, ContiguousDelivery
=============================================================================
