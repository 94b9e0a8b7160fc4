-------------------------- MODULE ConversationProofs --------------------------
(***************************************************************************)
(* Proofs about Conversation: whatever has been pushed, what is sent to a  *)
(* provider is a list of messages it accepts, every signature stands for   *)
(* the block of thinking it signs, and the repair keeps what it must and   *)
(* does not have to be made twice.                                         *)
(*                                                                         *)
(* The repair is a chain of folds.  FoldExists and FoldSteps turn a fold   *)
(* of the community modules into a function that goes from position to     *)
(* position; a lemma ...Fold says so of each fold of the model, and a      *)
(* property of what it makes follows by going along it (Along).            *)
(***************************************************************************)
EXTENDS Conversation, SequenceTheorems, FiniteSetTheorems,
        WellFoundedInduction, TLAPS

\* Induction, for a set: it is all of Nat if it has 0 and is closed under + 1.
LEMMA Induction ==
    ASSUME NEW T \in SUBSET Nat, 0 \in T, \A n \in T : n + 1 \in T
    PROVE  \A n \in Nat : n \in T
<1> DEFINE less == {ss \in Nat \X Nat : ss[1] < ss[2]}
<1>1. IsWellFoundedOn(less, Nat)
  BY NatLessThanWellFounded DEF OpToRel
<1>2. SUFFICES ASSUME Nat \ T # {} PROVE FALSE
  OBVIOUS
<1> HIDE DEF less
<1>3. PICK m \in Nat \ T : \A k \in Nat \ T : <<k, m>> \notin less
  BY <1>1, <1>2, WFMin
<1>4. m # 0 /\ m - 1 \in Nat
  BY <1>3
<1>5. <<m - 1, m>> \in less
  BY <1>3, <1>4 DEF less
<1>6. m - 1 \in T
  BY <1>3, <1>4, <1>5
<1>7. m - 1 + 1 = m
  BY <1>3
<1> QED
  BY <1>3, <1>6, <1>7

\* Induction along a sequence: from 0 to its length.
LEMMA Along ==
    ASSUME NEW N \in Nat, NEW T, 0 \in T,
           \A n \in 1..N : n - 1 \in T => n \in T
    PROVE  \A n \in 0..N : n \in T
<1> DEFINE U == {n \in Nat : n <= N => n \in T}
<1>1. 0 \in U
  OBVIOUS
<1>2. ASSUME NEW n \in U
      PROVE  n + 1 \in U
  <2>1. CASE n + 1 <= N
    <3>1. n + 1 \in 1..N /\ n + 1 - 1 = n /\ n \in T
      BY <2>1
    <3> QED
      BY <3>1
  <2>2. CASE ~(n + 1 <= N)
    BY <2>2
  <2> QED
    BY <2>1, <2>2
<1>3. \A n \in Nat : n \in U
  <2>1. U \in SUBSET Nat
    OBVIOUS
  <2> HIDE DEF U
  <2> QED
    BY <1>1, <1>2, <2>1, Induction
<1> QED
  BY <1>3

\* The largest element of a set that has n and nothing larger.
LEMMA MaxIs ==
    ASSUME NEW n \in Nat, NEW S \in SUBSET (1..n), n \in S
    PROVE  Max(S) = n
<1>1. \A y \in S : n >= y
  OBVIOUS
<1>2. \A x \in S : (\A y \in S : x >= y) => x = n
  OBVIOUS
<1> QED
  BY <1>1, <1>2 DEF Max

\* A set of positions has a largest one.
LEMMA MaxIn ==
    ASSUME NEW N \in Nat, NEW S \in SUBSET (1..N), S # {}
    PROVE  Max(S) \in S
<1> DEFINE T == {n \in Nat : \A U \in SUBSET (1..n) : U # {} => Max(U) \in U}
<1>1. 0 \in T
  <2>1. \A U \in SUBSET (1..0) : U = {}
    OBVIOUS
  <2> QED
    BY <2>1
<1>2. ASSUME NEW n \in 1..N, n - 1 \in T
      PROVE  n \in T
  <2>1. ASSUME NEW U \in SUBSET (1..n), U # {}
        PROVE  Max(U) \in U
    <3>1. CASE n \in U
      BY <3>1, MaxIs
    <3>2. CASE n \notin U
      <4>1. U \in SUBSET (1..(n - 1))
        BY <3>2
      <4> QED
        BY <1>2, <2>1, <4>1
    <3> QED
      BY <3>1, <3>2
  <2> QED
    BY <2>1
<1>3. N \in T
  <2> HIDE DEF T
  <2> QED
    BY <1>1, <1>2, Along
<1> QED
  BY <1>3

-----------------------------------------------------------------------------
(***************************************************************************)
(* Folds.  FoldLeft is a function on the sets of positions; FoldExists     *)
(* says that there is such a function, and FoldSteps that whatever is one  *)
(* goes from position to position.                                         *)
(***************************************************************************)

\* h folds f over the positions in any set.
FoldsSets(h, f, base, s, Acc, Elem) ==
    /\ h = [S \in SUBSET (1..Len(s)) |-> h[S]]
    /\ h[{}] = base
    /\ \A S \in SUBSET (1..Len(s)) : S # {} =>
          /\ h[S \ {Max(S)}] \in Acc
          /\ s[Max(S)] \in Elem
          /\ h[S] = f[<<h[S \ {Max(S)}], s[Max(S)]>>]

\* g does, where what it starts from is in Acc.
FoldsWhereTyped(g, f, base, s, Acc) ==
    /\ g[{}] = base
    /\ \A S \in SUBSET (1..Len(s)) :
          S # {} /\ g[S \ {Max(S)}] \in Acc
          => g[S] = f[<<g[S \ {Max(S)}], s[Max(S)]>>]

\* it folds f along s, from base to end.
FoldsAlong(it, f, base, s, end, Acc, Elem) ==
    /\ it \in [0..Len(s) -> Acc]
    /\ it[0] = base
    /\ \A n \in 1..Len(s) :
          /\ it[n - 1] \in Acc
          /\ s[n] \in Elem
          /\ it[n] = f[<<it[n - 1], s[n]>>]
    /\ it[Len(s)] = end

\* What FoldLeft chooses exists, on the positions up to any n.
LEMMA FoldExists ==
    ASSUME NEW Acc, NEW Elem, NEW f \in [Acc \X Elem -> Acc], NEW base \in Acc,
           NEW s \in Seq(Elem)
    PROVE  \E h : FoldsSets(h, f, base, s, Acc, Elem)
<1> DEFINE Is(h, n) ==
              /\ h \in [SUBSET (1..n) -> Acc]
              /\ \A S \in SUBSET (1..n) :
                   h[S] = IF S = {} THEN base
                          ELSE f[<<h[S \ {Max(S)}], s[Max(S)]>>]
           T == {n \in Nat : \E h : Is(h, n)}
<1>1. 0 \in T
  <2> DEFINE h == [S \in SUBSET (1..0) |-> base]
  <2>1. \A S \in SUBSET (1..0) : S = {}
    OBVIOUS
  <2>2. Is(h, 0)
    BY <2>1
  <2> QED
    BY <2>2
<1>2. ASSUME NEW n \in 1..Len(s), n - 1 \in T
      PROVE  n \in T
  <2>1. PICK h : Is(h, n - 1)
    BY <1>2
  <2> DEFINE g == [S \in SUBSET (1..n) |->
                      IF n \in S THEN f[<<h[S \ {n}], s[n]>>] ELSE h[S]]
  <2>2. ASSUME NEW S \in SUBSET (1..n), n \notin S
        PROVE  S \in SUBSET (1..(n - 1)) /\ g[S] = h[S]
    BY <2>2
  <2>3. ASSUME NEW S \in SUBSET (1..n), n \in S
        PROVE  /\ Max(S) = n /\ S # {}
               /\ S \ {n} \in SUBSET (1..n) /\ n \notin S \ {n}
               /\ S \ {n} \in SUBSET (1..(n - 1))
               /\ g[S] = f[<<h[S \ {n}], s[n]>>]
    BY <2>3, MaxIs
  <2> HIDE DEF g
  <2>4. ASSUME NEW S \in SUBSET (1..n)
        PROVE  g[S] \in Acc
    <3>1. CASE n \in S
      <4>1. h[S \ {n}] \in Acc /\ s[n] \in Elem
        BY <2>1, <2>3, <3>1
      <4> QED
        BY <2>3, <3>1, <4>1
    <3>2. CASE n \notin S
      BY <2>1, <2>2, <3>2
    <3> QED
      BY <3>1, <3>2
  <2>5. ASSUME NEW S \in SUBSET (1..n)
        PROVE  g[S] = IF S = {} THEN base
                      ELSE f[<<g[S \ {Max(S)}], s[Max(S)]>>]
    <3>1. CASE n \in S
      <4>1. g[S \ {n}] = h[S \ {n}]
        BY <2>2, <2>3, <3>1
      <4> QED
        BY <2>3, <3>1, <4>1
    <3>2. CASE n \notin S
      <4>1. g[S \ {Max(S)}] = h[S \ {Max(S)}]
        BY <2>2, <3>2
      <4>2. h[S] = IF S = {} THEN base ELSE f[<<h[S \ {Max(S)}], s[Max(S)]>>]
        BY <2>1, <2>2, <3>2
      <4> QED
        BY <2>2, <3>2, <4>1, <4>2
    <3> QED
      BY <3>1, <3>2
  <2>6. g \in [SUBSET (1..n) -> Acc]
    <3>1. g = [S \in SUBSET (1..n) |-> g[S]]
      BY DEF g
    <3> QED
      BY <2>4, <3>1
  <2>7. Is(g, n)
    BY <2>5, <2>6
  <2> HIDE DEF Is
  <2> QED
    BY <2>7
<1>3. Len(s) \in T
  <2> HIDE DEF T
  <2>1. Len(s) \in Nat /\ Len(s) \in 0..Len(s)
    OBVIOUS
  <2> QED
    BY <1>1, <1>2, <2>1, Along
<1>4. PICK h : Is(h, Len(s))
  BY <1>3
<1>5. ASSUME NEW S \in SUBSET (1..Len(s)), S # {}
      PROVE  /\ h[S \ {Max(S)}] \in Acc
             /\ s[Max(S)] \in Elem
             /\ h[S] = f[<<h[S \ {Max(S)}], s[Max(S)]>>]
  <2>1. Max(S) \in 1..Len(s)
    <3>1. Len(s) \in Nat
      OBVIOUS
    <3> QED
      BY <1>5, <3>1, MaxIn
  <2>2. S \ {Max(S)} \in SUBSET (1..Len(s))
    OBVIOUS
  <2>3. /\ h[S \ {Max(S)}] \in Acc
        /\ h[S] = f[<<h[S \ {Max(S)}], s[Max(S)]>>]
    BY <1>4, <1>5, <2>2
  <2>4. s[Max(S)] \in Elem
    BY <2>1
  <2> QED
    BY <2>3, <2>4
<1>6. h = [S \in SUBSET (1..Len(s)) |-> h[S]] /\ h[{}] = base
  BY <1>4
<1> QED
  BY <1>5, <1>6 DEF FoldsSets

\* A fold from position to position.
LEMMA FoldSteps ==
    ASSUME NEW Acc, NEW Elem, NEW f \in [Acc \X Elem -> Acc], NEW base \in Acc,
           NEW s \in Seq(Elem), NEW g, FoldsWhereTyped(g, f, base, s, Acc)
    PROVE  \E it : FoldsAlong(it, f, base, s, g[1..Len(s)], Acc, Elem)
<1>0. /\ g[{}] = base
      /\ \A S \in SUBSET (1..Len(s)) :
            S # {} /\ g[S \ {Max(S)}] \in Acc
            => g[S] = f[<<g[S \ {Max(S)}], s[Max(S)]>>]
  BY DEF FoldsWhereTyped
<1> DEFINE it == [n \in 0..Len(s) |-> g[1..n]]
<1>1. it[0] = base
  <2>1. 1..0 = {} /\ 0 \in 0..Len(s)
    OBVIOUS
  <2> QED
    BY <1>0, <2>1
<1>2. ASSUME NEW n \in 1..Len(s), it[n - 1] \in Acc
      PROVE  it[n] = f[<<it[n - 1], s[n]>>]
  <2> DEFINE S == 1..n
  <2>1. /\ S \in SUBSET (1..Len(s)) /\ S # {} /\ n \in S
        /\ S \ {n} = 1..(n - 1) /\ n - 1 \in 0..Len(s)
    <3>1. n \in 1..Len(s) /\ Len(s) \in Nat
      OBVIOUS
    <3>2. S \ {n} = 1..(n - 1)
      BY <3>1
    <3>3. n \in S /\ S \in SUBSET (1..Len(s)) /\ n - 1 \in 0..Len(s)
      BY <3>1
    <3> QED
      BY <3>2, <3>3
  <2>2. Max(S) = n
    BY <2>1, MaxIs
  <2>3. g[S \ {Max(S)}] = it[n - 1]
    BY <2>1, <2>2
  <2>4. g[S] = f[<<g[S \ {Max(S)}], s[Max(S)]>>]
    <3> HIDE DEF S, it
    <3> QED
      BY <1>0, <1>2, <2>1, <2>3
  <2>5. it[n] = g[S]
    OBVIOUS
  <2> HIDE DEF S, it
  <2> QED
    BY <2>2, <2>3, <2>4, <2>5
<1>3. \A n \in 0..Len(s) : it[n] \in Acc
  <2> DEFINE T == {n \in 0..Len(s) : it[n] \in Acc}
  <2>1. 0 \in T
    BY <1>1
  <2>2. ASSUME NEW n \in 1..Len(s), n - 1 \in T
        PROVE  n \in T
    <3>1. it[n - 1] \in Acc /\ s[n] \in Elem /\ n \in 0..Len(s)
      BY <2>2
    <3>2. it[n] = f[<<it[n - 1], s[n]>>]
      BY <1>2, <3>1
    <3> HIDE DEF it
    <3> QED
      BY <3>1, <3>2
  <2>3. Len(s) \in Nat
    OBVIOUS
  <2>4. \A n \in 0..Len(s) : n \in T
    <3> HIDE DEF T
    <3> QED
      BY <2>1, <2>2, <2>3, Along
  <2> QED
    BY <2>4
<1>4. it \in [0..Len(s) -> Acc]
  BY <1>3
<1>5. \A n \in 1..Len(s) : it[n] = f[<<it[n - 1], s[n]>>]
  <2>1. \A n \in 1..Len(s) : n - 1 \in 0..Len(s)
    OBVIOUS
  <2> HIDE DEF it
  <2> QED
    BY <1>2, <1>3, <2>1
<1>6. it[Len(s)] = g[1..Len(s)]
  OBVIOUS
<1> HIDE DEF it
<1>7. \A n \in 1..Len(s) : it[n - 1] \in Acc /\ s[n] \in Elem
  BY <1>4
<1> QED
  BY <1>1, <1>4, <1>5, <1>6, <1>7 DEF FoldsAlong

\* it has what is among S of the first n elements of s, for each n.
AmongAlong(it, s, S, E) ==
    /\ it \in [0..Len(s) -> Seq(E)]
    /\ it[0] = <<>>
    /\ \A n \in 1..Len(s) :
          it[n] = IF s[n] \in S THEN Append(it[n - 1], s[n]) ELSE it[n - 1]
    /\ it[Len(s)] = Among(s, S)

\* Among, element by element.
LEMMA AmongFold ==
    ASSUME NEW E, NEW s \in Seq(E), NEW S
    PROVE  \E it : AmongAlong(it, s, S, E)
<1> DEFINE Op(a, x) == IF x \in S THEN Append(a, x) ELSE a
           Acc == Seq(E)
           f == [p \in Acc \X E |-> Op(p[1], p[2])]
           Is(g) == g = [D \in SUBSET DOMAIN s |->
                           IF D = {} THEN <<>>
                           ELSE IF s[Max(D)] \in S
                                THEN Append(g[D \ {Max(D)}], s[Max(D)])
                                ELSE g[D \ {Max(D)}]]
<1>0. DOMAIN s = 1..Len(s) /\ <<>> \in Acc
  OBVIOUS
<1>1. f \in [Acc \X E -> Acc]
  OBVIOUS
<1>2. ASSUME NEW a \in Acc, NEW x \in E
      PROVE  f[<<a, x>>] = Op(a, x)
  OBVIOUS
<1> HIDE DEF f, Acc
<1>3. PICK h : FoldsSets(h, f, <<>>, s, Acc, E)
  BY <1>0, <1>1, FoldExists, Zenon
<1>4. Is(h)
  BY <1>0, <1>2, <1>3 DEF FoldsSets
<1>5. PICK g : Is(g) /\ Among(s, S) = g[DOMAIN s]
  <2>1. Among(s, S) = (CHOOSE g : Is(g))[DOMAIN s]
    BY Zenon DEF Among, FoldLeft, MapThenFoldSet
  <2> HIDE DEF Is
  <2> QED
    BY <1>4, <2>1, Zenon
<1>6. FoldsWhereTyped(g, f, <<>>, s, Acc)
  BY <1>0, <1>2, <1>3, <1>5, ZenonT(30) DEF FoldsSets, FoldsWhereTyped
<1>7. PICK it : FoldsAlong(it, f, <<>>, s, g[1..Len(s)], Acc, E)
  BY <1>0, <1>1, <1>6, FoldSteps, Zenon
<1>8. /\ it \in [0..Len(s) -> Seq(E)]
      /\ it[0] = <<>>
      /\ \A n \in 1..Len(s) : it[n] = Op(it[n - 1], s[n])
      /\ Among(s, S) = it[Len(s)]
  BY <1>0, <1>2, <1>5, <1>7 DEF FoldsAlong, Acc
<1> QED
  BY <1>8 DEF AmongAlong

-----------------------------------------------------------------------------
(***************************************************************************)
(* Among: the part of a sequence that is in a set.                         *)
(***************************************************************************)

\* t is a part of the first n elements of s: t[j] stands at e[j] there.
PartUpTo(t, s, n, e) ==
    /\ e \in [1..Len(t) -> 1..n]
    /\ \A j \in 1..Len(t) : t[j] = s[e[j]]
    /\ \A i, j \in 1..Len(t) : i < j => e[i] < e[j]

PartOf(t, s, e) == PartUpTo(t, s, Len(s), e)

\* Among, for a longer sequence.
LEMMA AmongAppend ==
    ASSUME NEW E, NEW s \in Seq(E), NEW x \in E, NEW S
    PROVE  Among(Append(s, x), S) =
              IF x \in S THEN Append(Among(s, S), x) ELSE Among(s, S)
<1> DEFINE u == Append(s, x)
<1>0. /\ u \in Seq(E) /\ Len(u) = Len(s) + 1 /\ u[Len(s) + 1] = x
      /\ \A n \in 1..Len(s) : u[n] = s[n]
      /\ Len(s) \in Nat
  OBVIOUS
<1> HIDE DEF u
<1>1. PICK it : AmongAlong(it, s, S, E)
  BY AmongFold, Zenon
<1>2. PICK iu : AmongAlong(iu, u, S, E)
  BY <1>0, AmongFold, Zenon
<1> USE DEF AmongAlong
<1> DEFINE T == {n \in 0..Len(s) : iu[n] = it[n]}
<1>3. 0 \in T
  BY <1>0, <1>1, <1>2
<1>4. ASSUME NEW n \in 1..Len(s), n - 1 \in T
      PROVE  n \in T
  <2>1. u[n] = s[n] /\ iu[n - 1] = it[n - 1] /\ n \in 1..Len(u)
    BY <1>0, <1>4
  <2>2. iu[n] = IF s[n] \in S THEN Append(it[n - 1], s[n]) ELSE it[n - 1]
    BY <1>2, <2>1
  <2>3. iu[n] = it[n]
    BY <1>1, <2>2
  <2> QED
    BY <2>3
<1>5. \A n \in 0..Len(s) : n \in T
  <2> HIDE DEF T
  <2> QED
    BY <1>0, <1>3, <1>4, Along
<1>6. iu[Len(s)] = it[Len(s)]
  BY <1>0, <1>5
<1>7. Len(u) \in 1..Len(u) /\ Len(u) - 1 = Len(s) /\ u[Len(u)] = x
  BY <1>0
<1>8. iu[Len(u)] = IF x \in S THEN Append(iu[Len(s)], x) ELSE iu[Len(s)]
  BY <1>2, <1>7
<1> QED
  BY <1>1, <1>2, <1>6, <1>8 DEF u

\* Among nothing.
LEMMA AmongEmpty ==
    ASSUME NEW S
    PROVE  Among(<<>>, S) = <<>>
<1>1. <<>> \in Seq({}) /\ Len(<<>>) = 0
  OBVIOUS
<1> DEFINE s == <<>>
<1> HIDE DEF s
<1>2. s \in Seq({}) /\ Len(s) = 0
  BY <1>1 DEF s
<1>3. PICK it : AmongAlong(it, s, S, {})
  BY <1>2, AmongFold, Zenon
<1> QED
  BY <1>2, <1>3 DEF AmongAlong, s

\* Among only looks at what is in the sequence.
LEMMA AmongSame ==
    ASSUME NEW E, NEW s \in Seq(E), NEW S, NEW U,
           \A n \in 1..Len(s) : s[n] \in S <=> s[n] \in U
    PROVE  Among(s, S) = Among(s, U)
<1>1. PICK it : AmongAlong(it, s, S, E)
  BY AmongFold, Zenon
<1>2. PICK iu : AmongAlong(iu, s, U, E)
  BY AmongFold, Zenon
<1> USE DEF AmongAlong
<1> DEFINE T == {n \in 0..Len(s) : iu[n] = it[n]}
<1>0. Len(s) \in Nat
  OBVIOUS
<1>3. 0 \in T
  BY <1>0, <1>1, <1>2
<1>4. ASSUME NEW n \in 1..Len(s), n - 1 \in T
      PROVE  n \in T
  <2>1. iu[n] = it[n]
    BY <1>1, <1>2, <1>4
  <2> QED
    BY <2>1
<1>5. \A n \in 0..Len(s) : n \in T
  <2> HIDE DEF T
  <2> QED
    BY <1>0, <1>3, <1>4, Along
<1>6. Len(s) \in T
  BY <1>0, <1>5
<1> QED
  BY <1>1, <1>2, <1>6

\* g is e for a part with one more element, the last there is.
Grown(g, e, t, s, n) ==
    /\ PartUpTo(Append(t, s[n]), s, n, g)
    /\ \A j \in 1..Len(t) : g[j] = e[j]
    /\ g[Len(t) + 1] = n

\* One more element of a part.
LEMMA PartAppend ==
    ASSUME NEW E, NEW s \in Seq(E), NEW t \in Seq(E), NEW n \in 1..Len(s), NEW e,
           PartUpTo(t, s, n - 1, e)
    PROVE  \E h : Grown(h, e, t, s, n)
<1> DEFINE L == Len(t)
           u == Append(t, s[n])
           g == [j \in 1..(L + 1) |-> IF j = L + 1 THEN n ELSE e[j]]
<1>0. L \in Nat /\ n \in Nat /\ n > 0 /\ Len(u) = L + 1
  OBVIOUS
<1>1. u[L + 1] = s[n] /\ \A j \in 1..L : u[j] = t[j]
  OBVIOUS
<1>2. g[L + 1] = n /\ \A j \in 1..L : g[j] = e[j]
  BY <1>0
<1>3. g \in [1..(L + 1) -> 1..n]
  <2>1. \A j \in 1..(L + 1) : j # L + 1 => e[j] \in 1..n
    BY <1>0 DEF PartUpTo
  <2> QED
    BY <1>0, <2>1
<1> HIDE DEF u, g
<1>4. \A j \in 1..L : e[j] \in 1..(n - 1) /\ t[j] = s[e[j]]
  BY DEF PartUpTo
<1>a. \A i, j \in 1..L : i < j => e[i] < e[j]
  BY DEF PartUpTo
<1> HIDE DEF L
<1>5. ASSUME NEW j \in 1..(L + 1)
      PROVE  u[j] = s[g[j]]
  <2>1. CASE j = L + 1
    BY <1>1, <1>2, <2>1
  <2>2. CASE j # L + 1
    <3>1. j \in 1..L
      BY <1>0, <2>2
    <3> QED
      BY <1>1, <1>2, <1>4, <3>1
  <2> QED
    BY <2>1, <2>2
<1>6. ASSUME NEW i \in 1..(L + 1), NEW j \in 1..(L + 1), i < j
      PROVE  g[i] < g[j]
  <2>1. i \in 1..L
    BY <1>0, <1>6
  <2>2. CASE j = L + 1
    <3>1. g[i] \in 1..(n - 1) /\ g[j] = n
      BY <1>2, <1>4, <2>1, <2>2
    <3> QED
      BY <1>0, <3>1
  <2>3. CASE j # L + 1
    <3>1. j \in 1..L
      BY <1>0, <2>3
    <3> QED
      BY <1>2, <1>a, <1>6, <2>1, <3>1
  <2> QED
    BY <2>2, <2>3
<1> QED
  BY <1>0, <1>2, <1>3, <1>5, <1>6 DEF PartUpTo, Grown, L, u

\* Among keeps a part: all that is in S and nothing else.
LEMMA AmongPart ==
    ASSUME NEW E, NEW s \in Seq(E), NEW S
    PROVE  /\ Among(s, S) \in Seq(E)
           /\ \A j \in 1..Len(Among(s, S)) : Among(s, S)[j] \in S
           /\ \E e : /\ PartOf(Among(s, S), s, e)
                     /\ \A i \in 1..Len(s) : s[i] \in S =>
                           \E j \in 1..Len(Among(s, S)) : e[j] = i
<1>1. PICK it : AmongAlong(it, s, S, E)
  BY AmongFold, Zenon
<1>0. Len(s) \in Nat
  OBVIOUS
<1> DEFINE Good(n, e) ==
              /\ PartUpTo(it[n], s, n, e)
              /\ \A j \in 1..Len(it[n]) : it[n][j] \in S
              /\ \A i \in 1..n : s[i] \in S => \E j \in 1..Len(it[n]) : e[j] = i
           T == {n \in 0..Len(s) : \E e : Good(n, e)}
<1>2. 0 \in T
  <2>1. Len(it[0]) = 0 /\ 1..0 = {}
    BY <1>1 DEF AmongAlong
  <2> DEFINE none == [j \in 1..0 |-> 1]
  <2>2. none \in [1..0 -> 1..0]
    BY <2>1
  <2> HIDE DEF none
  <2>3. Good(0, none)
    BY <2>1, <2>2 DEF PartUpTo
  <2> HIDE DEF Good
  <2> QED
    BY <1>0, <2>3
<1>3. ASSUME NEW n \in 1..Len(s), n - 1 \in T
      PROVE  n \in T
  <2>1. PICK e : Good(n - 1, e)
    BY <1>3
  <2> DEFINE t == it[n - 1]
  <2>2. t \in Seq(E)
    BY <1>1 DEF AmongAlong
  <2>3. /\ PartUpTo(t, s, n - 1, e)
        /\ \A j \in 1..Len(t) : t[j] \in S
        /\ \A i \in 1..(n - 1) : s[i] \in S => \E j \in 1..Len(t) : e[j] = i
    BY <2>1
  <2>4. CASE s[n] \notin S
    <3>1. it[n] = t
      BY <1>1, <2>4 DEF AmongAlong
    <3> HIDE DEF t
    <3>2. PartUpTo(t, s, n, e)
      <4>1. \A i \in 1..(n - 1) : i \in 1..n
        OBVIOUS
      <4>2. e \in [1..Len(t) -> 1..n]
        BY <2>3, <4>1 DEF PartUpTo
      <4> QED
        BY <2>3, <4>2 DEF PartUpTo
    <3>3. \A i \in 1..n : s[i] \in S => \E j \in 1..Len(t) : e[j] = i
      <4>1. \A i \in 1..n : i = n \/ i \in 1..(n - 1)
        OBVIOUS
      <4> QED
        BY <2>3, <2>4, <4>1
    <3>4. Good(n, e)
      BY <2>3, <3>1, <3>2, <3>3
    <3> QED
      BY <3>4
  <2>5. CASE s[n] \in S
    <3> DEFINE u == Append(t, s[n])
    <3>1. it[n] = u
      BY <1>1, <2>5 DEF AmongAlong
    <3> HIDE DEF t
    <3>a. PICK g : Grown(g, e, t, s, n)
      BY <2>2, <2>3, PartAppend, Zenon
    <3>2. /\ PartUpTo(u, s, n, g)
          /\ \A j \in 1..Len(t) : g[j] = e[j]
          /\ g[Len(t) + 1] = n
      BY <3>a DEF Grown
    <3>3. /\ Len(u) = Len(t) + 1 /\ Len(t) \in Nat
          /\ \A j \in 1..Len(t) : u[j] = t[j]
          /\ u[Len(t) + 1] = s[n]
      BY <2>2
    <3> HIDE DEF u
    <3>4. ASSUME NEW i \in 1..n, s[i] \in S
          PROVE  \E j \in 1..Len(u) : g[j] = i
      <4>1. CASE i = n
        BY <3>2, <3>3, <4>1
      <4>2. CASE i # n
        <5>1. i \in 1..(n - 1)
          BY <4>2
        <5>2. PICK j \in 1..Len(t) : e[j] = i
          BY <2>3, <3>4, <5>1
        <5>3. g[j] = i /\ j \in 1..Len(u)
          BY <3>2, <3>3, <5>2
        <5> QED
          BY <5>3
      <4> QED
        BY <4>1, <4>2
    <3>5. \A j \in 1..Len(u) : u[j] \in S
      <4>1. \A j \in 1..Len(u) : j = Len(t) + 1 \/ j \in 1..Len(t)
        BY <3>3
      <4> QED
        BY <2>3, <2>5, <3>3, <4>1
    <3>6. Good(n, g)
      BY <3>1, <3>2, <3>3, <3>4, <3>5
    <3> HIDE DEF Good
    <3> QED
      BY <3>6
  <2> QED
    BY <2>4, <2>5
<1>4. Len(s) \in T
  <2> HIDE DEF T
  <2>1. \A n \in 0..Len(s) : n \in T
    BY <1>0, <1>2, <1>3, Along
  <2> QED
    BY <1>0, <2>1
<1>5. PICK e : Good(Len(s), e)
  BY <1>4
<1>6. Among(s, S) \in Seq(E)
  BY <1>0, <1>1 DEF AmongAlong
<1> QED
  BY <1>1, <1>5, <1>6 DEF AmongAlong, PartOf

-----------------------------------------------------------------------------
(***************************************************************************)
(* The folds of the model, each along its sequence.                        *)
(***************************************************************************)

\* The kinds of items.
LEMMA ItemKinds ==
    ASSUME NEW item \in Items
    PROVE  /\ item.kind = "text" => item \in Texts
           /\ item.kind = "thinking" => item \in Thoughts
           /\ item.kind \in {"request", "confirmation", "frontend"} => item \in Calls
           /\ item.kind = "response" => item \in Responses
  BY DEF Items, Texts, Thoughts, Calls, Responses

\* The visible messages made of items in J.
Seen(J) == [id : Nat, role : Roles, visible : {TRUE}, content : Seq(J)]

\* Two texts are put together to one.
LEMMA ConcatTyped ==
    ASSUME NEW s \in Texts, NEW t \in Texts
    PROVE  Concat(s, t) \in Texts
  BY DEF Concat, Text, Texts

\* The last of a sequence, and what is before it.
LEMMA LastFront ==
    ASSUME NEW E, NEW s \in Seq(E), s # <<>>
    PROVE  /\ Last(s) \in E
           /\ Front(s) \in Seq(E)
           /\ Len(s) \in Nat \ {0}
           /\ Len(Front(s)) = Len(s) - 1
           /\ \A n \in 1..(Len(s) - 1) : Front(s)[n] = s[n]
<1>1. Len(s) \in Nat \ {0} /\ Len(s) \in 1..Len(s)
  OBVIOUS
<1>2. Last(s) \in E
  BY <1>1 DEF Last
<1>3. \A n \in 1..(Len(s) - 1) : s[n] \in E
  OBVIOUS
<1>4. /\ Front(s) \in Seq(E)
      /\ Len(Front(s)) = Len(s) - 1
      /\ \A n \in 1..(Len(s) - 1) : Front(s)[n] = s[n]
  <2> DEFINE k == Len(s) - 1
  <2>1. k \in Int /\ 1 \in Int /\ k >= 0
    BY <1>1
  <2>2. /\ SubSeq(s, 1, k) \in Seq(E)
        /\ Len(SubSeq(s, 1, k)) = IF 1 <= k THEN k - 1 + 1 ELSE 0
        /\ \A n \in 1..(k - 1 + 1) : SubSeq(s, 1, k)[n] = s[1 + n - 1]
    <3> HIDE DEF k
    <3> QED
      BY <1>3, <2>1, SubSeqProperties DEF k
  <2>3. Front(s) = SubSeq(s, 1, k)
    BY DEF Front
  <2> DEFINE q == SubSeq(s, 1, k)
  <2>4. k - 1 + 1 = k /\ \A n \in 1..k : 1 + n - 1 = n
    BY <2>1
  <2> HIDE DEF q, k
  <2>5. Len(q) = k /\ \A n \in 1..k : q[n] = s[n]
    BY <2>1, <2>2, <2>4 DEF q
  <2> QED
    BY <2>2, <2>3, <2>5 DEF q, k
<1> QED
  BY <1>1, <1>2, <1>4

\* Texts and other items go on a message's content.
LEMMA AddItemTyped ==
    ASSUME NEW content \in Seq(Items), NEW item \in Items
    PROVE  AddItem(content, item) \in Seq(Items)
<1>1. CASE content # <<>> /\ IsText(item) /\ IsText(Last(content))
  <2>1. Last(content) \in Items /\ Front(content) \in Seq(Items)
    BY <1>1, LastFront
  <2>2. Concat(Last(content), item) \in Texts
    BY <1>1, <2>1, ItemKinds, ConcatTyped DEF IsText
  <2>3. Concat(Last(content), item) \in Items
    BY <2>2 DEF Items
  <2> QED
    BY <1>1, <2>1, <2>3 DEF AddItem
<1>2. CASE ~(content # <<>> /\ IsText(item) /\ IsText(Last(content)))
  BY <1>2 DEF AddItem
<1> QED
  BY <1>1, <1>2

\* it puts the texts of content together, item by item.
TextsAlong(it, content) ==
    /\ it \in [0..Len(content) -> Seq(Items)]
    /\ it[0] = <<>>
    /\ \A n \in 1..Len(content) :
          /\ it[n - 1] \in Seq(Items)
          /\ content[n] \in Items
          /\ it[n] = AddItem(it[n - 1], content[n])
    /\ it[Len(content)] = FoldLeft(AddItem, <<>>, content)

\* The texts of a message are put together item by item.
LEMMA AddItemFold ==
    ASSUME NEW content \in Seq(Items)
    PROVE  \E it : TextsAlong(it, content)
<1> DEFINE Acc == Seq(Items)
           Elem == Items
           base == <<>>
           f == [p \in Acc \X Elem |-> AddItem(p[1], p[2])]
           Is(g) == g = [D \in SUBSET DOMAIN content |->
                           IF D = {} THEN <<>>
                           ELSE AddItem(g[D \ {Max(D)}], content[Max(D)])]
<1>0. DOMAIN content = 1..Len(content) /\ content \in Seq(Elem)
  OBVIOUS
<1>a. base \in Acc
  BY DEF base, Acc
<1>b. ASSUME NEW a \in Acc, NEW x \in Elem
      PROVE  AddItem(a, x) \in Acc
  BY <1>b, AddItemTyped DEF Acc, Elem
<1>1. f \in [Acc \X Elem -> Acc]
  <2> HIDE DEF Acc, Elem
  <2> QED
    BY <1>b
<1>2. ASSUME NEW a \in Acc, NEW x \in Elem
      PROVE  f[<<a, x>>] = AddItem(a, x)
  <2> HIDE DEF Acc, Elem
  <2> QED
    BY DEF f
<1> HIDE DEF f, Acc, Elem, base
<1>3. PICK h : FoldsSets(h, f, base, content, Acc, Elem)
  BY <1>0, <1>1, <1>a, FoldExists, Zenon
<1>4. Is(h)
  BY <1>0, <1>2, <1>3 DEF FoldsSets, base
<1>5. PICK g : Is(g) /\ FoldLeft(AddItem, <<>>, content) = g[DOMAIN content]
  <2>1. FoldLeft(AddItem, <<>>, content) = (CHOOSE g : Is(g))[DOMAIN content]
    BY Zenon DEF FoldLeft, MapThenFoldSet
  <2> HIDE DEF Is
  <2> QED
    BY <1>4, <2>1, Zenon
<1>6. FoldsWhereTyped(g, f, base, content, Acc)
  BY <1>0, <1>2, <1>3, <1>5 DEF FoldsSets, FoldsWhereTyped, base
<1>7. PICK it : FoldsAlong(it, f, base, content, g[1..Len(content)], Acc, Elem)
  BY <1>0, <1>1, <1>6, <1>a, FoldSteps, Zenon
<1>8. TextsAlong(it, content)
  BY <1>0, <1>2, <1>5, <1>7 DEF FoldsAlong, TextsAlong, Acc, Elem, base
<1> QED
  BY <1>8

-----------------------------------------------------------------------------
\* What one item of J makes of the sweep.
Swiped(J) == [content : Seq(J), pending : SUBSET Ids]

\* Sweeping an item.
LEMMA SweepTyped ==
    ASSUME NEW J \in SUBSET Items, NEW acc \in Swiped(J), NEW role, NEW item \in J
    PROVE  Sweep(acc, role, item) \in Swiped(J)
<1>0. /\ acc.content \in Seq(J) /\ acc.pending \in SUBSET Ids
      /\ Append(acc.content, item) \in Seq(J)
  BY DEF Swiped
<1>1. item.kind \in {"request", "response"} => item.id \in Ids
  BY ItemKinds DEF Calls, Responses
<1>2. Sweep(acc, role, item) \in {acc} \cup
         {[content |-> Append(acc.content, item), pending |-> p] :
             p \in {acc.pending, StillPending(acc.pending, item.id),
                   acc.pending \cup {item.id}} \cap SUBSET Ids}
  BY <1>0, <1>1 DEF Sweep, StillPending
<1> QED
  BY <1>0, <1>2 DEF Swiped

\* it sweeps a content, item by item.
ContentAlong(it, role, pending, content, J) ==
    /\ it \in [0..Len(content) -> Swiped(J)]
    /\ it[0] = [content |-> <<>>, pending |-> pending]
    /\ \A n \in 1..Len(content) :
          /\ it[n - 1] \in Swiped(J)
          /\ content[n] \in J
          /\ it[n] = Sweep(it[n - 1], role, content[n])
    /\ it[Len(content)] = SweepContent(role, pending, content)

\* A content is swept item by item.
LEMMA SweepContentFold ==
    ASSUME NEW J \in SUBSET Items, NEW role, NEW pending \in SUBSET Ids,
           NEW content \in Seq(J)
    PROVE  \E it : ContentAlong(it, role, pending, content, J)
<1> DEFINE Acc == Swiped(J)
           Elem == J
           base == [content |-> <<>>, pending |-> pending]
           f == [p \in Acc \X Elem |-> Sweep(p[1], role, p[2])]
           Is(g) == g = [D \in SUBSET DOMAIN content |->
                           IF D = {} THEN [content |-> <<>>, pending |-> pending]
                           ELSE Sweep(g[D \ {Max(D)}], role, content[Max(D)])]
<1>0. DOMAIN content = 1..Len(content) /\ content \in Seq(Elem)
  OBVIOUS
<1>a. base \in Acc
  BY DEF base, Acc, Swiped
<1>b. ASSUME NEW a \in Acc, NEW x \in Elem
      PROVE  Sweep(a, role, x) \in Acc
  BY <1>b, SweepTyped DEF Acc, Elem
<1>1. f \in [Acc \X Elem -> Acc]
  <2> HIDE DEF Acc, Elem
  <2> QED
    BY <1>b
<1>2. ASSUME NEW a \in Acc, NEW x \in Elem
      PROVE  f[<<a, x>>] = Sweep(a, role, x)
  <2> HIDE DEF Acc, Elem
  <2> QED
    BY DEF f
<1> HIDE DEF f, Acc, Elem, base
<1>3. PICK h : FoldsSets(h, f, base, content, Acc, Elem)
  BY <1>0, <1>1, <1>a, FoldExists, Zenon
<1>4. Is(h)
  BY <1>0, <1>2, <1>3 DEF FoldsSets, base
<1>5. PICK g : Is(g) /\ SweepContent(role, pending, content) = g[DOMAIN content]
  <2>1. SweepContent(role, pending, content) = (CHOOSE g : Is(g))[DOMAIN content]
    BY Zenon DEF SweepContent, FoldLeft, MapThenFoldSet
  <2> HIDE DEF Is
  <2> QED
    BY <1>4, <2>1, Zenon
<1>6. FoldsWhereTyped(g, f, base, content, Acc)
  BY <1>0, <1>2, <1>3, <1>5 DEF FoldsSets, FoldsWhereTyped, base
<1>7. PICK it : FoldsAlong(it, f, base, content, g[1..Len(content)], Acc, Elem)
  BY <1>0, <1>1, <1>6, <1>a, FoldSteps, Zenon
<1>8. ContentAlong(it, role, pending, content, J)
  BY <1>0, <1>2, <1>5, <1>7 DEF FoldsAlong, ContentAlong, Acc, Elem, base
<1> QED
  BY <1>8

-----------------------------------------------------------------------------
\* The messages swept so far, and what is pending.
SweptUp(J) == [messages : Seq(Seen(J)), pending : SUBSET Ids]

\* A content that has been swept is made of the same items.
LEMMA SweepContentTyped ==
    ASSUME NEW J \in SUBSET Items, NEW role, NEW pending \in SUBSET Ids,
           NEW content \in Seq(J)
    PROVE  SweepContent(role, pending, content) \in Swiped(J)
<1>1. PICK it : ContentAlong(it, role, pending, content, J)
  BY SweepContentFold, Zenon
<1>2. Len(content) \in 0..Len(content)
  OBVIOUS
<1> QED
  BY <1>1, <1>2 DEF ContentAlong

\* Sweeping a message.
LEMMA SweepMessageTyped ==
    ASSUME NEW J \in SUBSET Items, NEW acc \in SweptUp(J), NEW m \in Seen(J)
    PROVE  SweepMessage(acc, m) \in SweptUp(J)
<1> DEFINE swept == SweepContent(m.role, acc.pending, m.content)
           n == [m EXCEPT !.content = swept.content]
<1>1. swept \in Swiped(J)
  BY SweepContentTyped DEF SweptUp, Seen
<1>2. n \in Seen(J)
  <2> HIDE DEF swept
  <2> QED
    BY <1>1 DEF Swiped, Seen
<1>3. SweepMessage(acc, m) =
         [messages |-> Append(acc.messages, n), pending |-> swept.pending]
  BY DEF SweepMessage
<1> HIDE DEF swept, n
<1> QED
  BY <1>1, <1>2, <1>3 DEF Swiped, SweptUp

\* it sweeps the messages, one by one.
SweepAlong(it, ms, J) ==
    /\ it \in [0..Len(ms) -> SweptUp(J)]
    /\ it[0] = [messages |-> <<>>, pending |-> {}]
    /\ \A n \in 1..Len(ms) :
          /\ it[n - 1] \in SweptUp(J)
          /\ ms[n] \in Seen(J)
          /\ it[n] = SweepMessage(it[n - 1], ms[n])
    /\ it[Len(ms)] = SweepMessages(ms)

\* Messages are swept one by one.
LEMMA SweepFold ==
    ASSUME NEW J \in SUBSET Items, NEW ms \in Seq(Seen(J))
    PROVE  \E it : SweepAlong(it, ms, J)
<1> DEFINE Acc == SweptUp(J)
           Elem == Seen(J)
           base == [messages |-> <<>>, pending |-> {}]
           f == [p \in Acc \X Elem |-> SweepMessage(p[1], p[2])]
           Is(g) == g = [D \in SUBSET DOMAIN ms |->
                           IF D = {} THEN [messages |-> <<>>, pending |-> {}]
                           ELSE SweepMessage(g[D \ {Max(D)}], ms[Max(D)])]
<1>0. DOMAIN ms = 1..Len(ms) /\ ms \in Seq(Elem)
  OBVIOUS
<1>a. base \in Acc
  BY DEF base, Acc, SweptUp
<1>b. ASSUME NEW a \in Acc, NEW x \in Elem
      PROVE  SweepMessage(a, x) \in Acc
  BY <1>b, SweepMessageTyped DEF Acc, Elem
<1>1. f \in [Acc \X Elem -> Acc]
  <2> HIDE DEF Acc, Elem
  <2> QED
    BY <1>b
<1>2. ASSUME NEW a \in Acc, NEW x \in Elem
      PROVE  f[<<a, x>>] = SweepMessage(a, x)
  <2> HIDE DEF Acc, Elem
  <2> QED
    BY DEF f
<1> HIDE DEF f, Acc, Elem, base
<1>3. PICK h : FoldsSets(h, f, base, ms, Acc, Elem)
  BY <1>0, <1>1, <1>a, FoldExists, Zenon
<1>4. Is(h)
  BY <1>0, <1>2, <1>3 DEF FoldsSets, base
<1>5. PICK g : Is(g) /\ SweepMessages(ms) = g[DOMAIN ms]
  <2>1. SweepMessages(ms) = (CHOOSE g : Is(g))[DOMAIN ms]
    BY Zenon DEF SweepMessages, FoldLeft, MapThenFoldSet
  <2> HIDE DEF Is
  <2> QED
    BY <1>4, <2>1, Zenon
<1>6. FoldsWhereTyped(g, f, base, ms, Acc)
  BY <1>0, <1>2, <1>3, <1>5 DEF FoldsSets, FoldsWhereTyped, base
<1>7. PICK it : FoldsAlong(it, f, base, ms, g[1..Len(ms)], Acc, Elem)
  BY <1>0, <1>1, <1>6, <1>a, FoldSteps, Zenon
<1>8. SweepAlong(it, ms, J)
  BY <1>0, <1>2, <1>5, <1>7 DEF FoldsAlong, SweepAlong, Acc, Elem, base
<1> QED
  BY <1>8

-----------------------------------------------------------------------------
\* Adding a message to merged ones.
LEMMA AddMessageTyped ==
    ASSUME NEW J, NEW merged \in Seq(Seen(J)), NEW m \in Seen(J)
    PROVE  AddMessage(merged, m) \in Seq(Seen(J))
<1>1. CASE merged # <<>> /\ EffectiveRole(Last(merged)) = EffectiveRole(m)
  <2> DEFINE L == Len(merged)
             old == merged[L]
             new == [old EXCEPT !.content = @ \o m.content]
  <2>1. L \in 1..L /\ old \in Seen(J)
    BY <1>1
  <2>2. new \in Seen(J)
    <3> HIDE DEF old
    <3>1. old.content \o m.content \in Seq(J)
      <4>1. old.content \in Seq(J) /\ m.content \in Seq(J)
        BY <2>1 DEF Seen
      <4> QED
        BY <4>1
    <3> QED
      BY <2>1, <3>1 DEF Seen
  <2>3. AddMessage(merged, m) = [merged EXCEPT ![L] = new]
    BY <1>1 DEF AddMessage
  <2> HIDE DEF new
  <2> QED
    BY <2>1, <2>2, <2>3, ExceptSeq
<1>2. CASE ~(merged # <<>> /\ EffectiveRole(Last(merged)) = EffectiveRole(m))
  BY <1>2 DEF AddMessage
<1> QED
  BY <1>1, <1>2

\* it merges messages, one by one.
MergeAlong(it, ms, J) ==
    /\ it \in [0..Len(ms) -> Seq(Seen(J))]
    /\ it[0] = <<>>
    /\ \A n \in 1..Len(ms) :
          /\ it[n - 1] \in Seq(Seen(J))
          /\ ms[n] \in Seen(J)
          /\ it[n] = AddMessage(it[n - 1], ms[n])
    /\ it[Len(ms)] = MergeConsecutiveMessages(ms)

\* Messages are merged one by one.
LEMMA MergeFold ==
    ASSUME NEW J, NEW ms \in Seq(Seen(J))
    PROVE  \E it : MergeAlong(it, ms, J)
<1> DEFINE Acc == Seq(Seen(J))
           Elem == Seen(J)
           base == <<>>
           f == [p \in Acc \X Elem |-> AddMessage(p[1], p[2])]
           Is(g) == g = [D \in SUBSET DOMAIN ms |->
                           IF D = {} THEN <<>>
                           ELSE AddMessage(g[D \ {Max(D)}], ms[Max(D)])]
<1>0. DOMAIN ms = 1..Len(ms) /\ ms \in Seq(Elem)
  OBVIOUS
<1>a. base \in Acc
  BY DEF base, Acc
<1>b. ASSUME NEW a \in Acc, NEW x \in Elem
      PROVE  AddMessage(a, x) \in Acc
  BY <1>b, AddMessageTyped DEF Acc, Elem
<1>1. f \in [Acc \X Elem -> Acc]
  <2> HIDE DEF Acc, Elem
  <2> QED
    BY <1>b
<1>2. ASSUME NEW a \in Acc, NEW x \in Elem
      PROVE  f[<<a, x>>] = AddMessage(a, x)
  <2> HIDE DEF Acc, Elem
  <2> QED
    BY DEF f
<1> HIDE DEF f, Acc, Elem, base
<1>3. PICK h : FoldsSets(h, f, base, ms, Acc, Elem)
  BY <1>0, <1>1, <1>a, FoldExists, Zenon
<1>4. Is(h)
  BY <1>0, <1>2, <1>3 DEF FoldsSets, base
<1>5. PICK g : Is(g) /\ MergeConsecutiveMessages(ms) = g[DOMAIN ms]
  <2>1. MergeConsecutiveMessages(ms) = (CHOOSE g : Is(g))[DOMAIN ms]
    BY Zenon DEF MergeConsecutiveMessages, FoldLeft, MapThenFoldSet
  <2> HIDE DEF Is
  <2> QED
    BY <1>4, <2>1, Zenon
<1>6. FoldsWhereTyped(g, f, base, ms, Acc)
  BY <1>0, <1>2, <1>3, <1>5, ZenonT(30) DEF FoldsSets, FoldsWhereTyped, base
<1>7. PICK it : FoldsAlong(it, f, base, ms, g[1..Len(ms)], Acc, Elem)
  BY <1>0, <1>1, <1>6, <1>a, FoldSteps, Zenon
<1>8. MergeAlong(it, ms, J)
  BY <1>0, <1>2, <1>5, <1>7, ZenonT(30) DEF FoldsAlong, MergeAlong, Acc, Elem, base
<1> QED
  BY <1>8

-----------------------------------------------------------------------------
\* The messages put back so far, and how many fixed ones have been used.
Refilled == [messages : Seq(Messages), used : Nat]

\* Putting a message back.
LEMMA PutTyped ==
    ASSUME NEW fixed \in Seq(Seen(Items)), NEW acc \in Refilled, NEW m \in Messages
    PROVE  Put(fixed, acc, m) \in Refilled
<1>1. CASE ~m.visible
  BY <1>1 DEF Put, Refilled
<1>2. CASE m.visible /\ acc.used < Len(fixed)
  <2>1. fixed[acc.used + 1] \in Messages
    <3>1. acc.used + 1 \in 1..Len(fixed)
      BY <1>2 DEF Refilled
    <3>2. fixed[acc.used + 1] \in Seen(Items)
      BY <3>1
    <3> QED
      BY <3>2 DEF Seen, Messages
  <2> QED
    BY <1>2, <2>1 DEF Put, Refilled
<1>3. CASE m.visible /\ ~(acc.used < Len(fixed))
  BY <1>3 DEF Put, Refilled
<1> QED
  BY <1>1, <1>2, <1>3 DEF Messages

\* All messages of c put back.
RefillAll(c, fixed) ==
    LET PutNext(acc, m) == Put(fixed, acc, m)
    IN  FoldLeft(PutNext, [messages |-> <<>>, used |-> 0], c)

\* it puts messages back, one by one.
RefillAlong(it, c, fixed) ==
    /\ it \in [0..Len(c) -> Refilled]
    /\ it[0] = [messages |-> <<>>, used |-> 0]
    /\ \A n \in 1..Len(c) :
          /\ it[n - 1] \in Refilled
          /\ c[n] \in Messages
          /\ it[n] = Put(fixed, it[n - 1], c[n])
    /\ it[Len(c)] = RefillAll(c, fixed)

\* Messages are put back one by one.
LEMMA RefillFold ==
    ASSUME NEW c \in Seq(Messages), NEW fixed \in Seq(Seen(Items))
    PROVE  \E it : RefillAlong(it, c, fixed)
<1> DEFINE Acc == Refilled
           Elem == Messages
           base == [messages |-> <<>>, used |-> 0]
           f == [p \in Acc \X Elem |-> Put(fixed, p[1], p[2])]
           Is(g) == g = [D \in SUBSET DOMAIN c |->
                           IF D = {} THEN [messages |-> <<>>, used |-> 0]
                           ELSE Put(fixed, g[D \ {Max(D)}], c[Max(D)])]
<1>0. DOMAIN c = 1..Len(c) /\ c \in Seq(Elem)
  OBVIOUS
<1>a. base \in Acc
  BY DEF base, Acc, Refilled
<1>b. ASSUME NEW a \in Acc, NEW x \in Elem
      PROVE  Put(fixed, a, x) \in Acc
  BY <1>b, PutTyped DEF Acc, Elem
<1>1. f \in [Acc \X Elem -> Acc]
  <2> HIDE DEF Acc, Elem
  <2> QED
    BY <1>b
<1>2. ASSUME NEW a \in Acc, NEW x \in Elem
      PROVE  f[<<a, x>>] = Put(fixed, a, x)
  <2> HIDE DEF Acc, Elem
  <2> QED
    BY DEF f
<1> HIDE DEF f, Acc, Elem, base
<1>3. PICK h : FoldsSets(h, f, base, c, Acc, Elem)
  BY <1>0, <1>1, <1>a, FoldExists, Zenon
<1>4. Is(h)
  BY <1>0, <1>2, <1>3 DEF FoldsSets, base
<1>5. PICK g : Is(g) /\ RefillAll(c, fixed) = g[DOMAIN c]
  <2>1. RefillAll(c, fixed) = (CHOOSE g : Is(g))[DOMAIN c]
    BY Zenon DEF RefillAll, FoldLeft, MapThenFoldSet
  <2> HIDE DEF Is
  <2> QED
    BY <1>4, <2>1, Zenon
<1>6. FoldsWhereTyped(g, f, base, c, Acc)
  BY <1>0, <1>2, <1>3, <1>5 DEF FoldsSets, FoldsWhereTyped, base
<1>7. PICK it : FoldsAlong(it, f, base, c, g[1..Len(c)], Acc, Elem)
  BY <1>0, <1>1, <1>6, <1>a, FoldSteps, Zenon
<1>8. RefillAlong(it, c, fixed)
  BY <1>0, <1>2, <1>5, <1>7 DEF FoldsAlong, RefillAlong, Acc, Elem, base
<1> QED
  BY <1>8

-----------------------------------------------------------------------------
(***************************************************************************)
(* What is done to each message, and removing what says nothing.           *)
(***************************************************************************)

\* Tool results that say something.
Sound == {item \in Items : item.kind = "response" => ~item.empty}

\* The items of a content.
LEMMA ItemsOf ==
    ASSUME NEW J, NEW content \in Seq(J)
    PROVE  /\ DOMAIN content = 1..Len(content)
           /\ ToSet(content) \in SUBSET J
           /\ \A x \in ToSet(content) : \E k \in 1..Len(content) : content[k] = x
           /\ \A k \in 1..Len(content) : content[k] \in ToSet(content)
  BY DEF ToSet

\* What is said of some item of a content.
LEMMA ByItems ==
    ASSUME NEW J \in SUBSET Items, NEW m \in Seen(J)
    PROVE  /\ \A kind, id : Has(m, kind, id) <=>
                 \E x \in ToSet(m.content) : x.kind = kind /\ x.id = id
           /\ HasContent(m) <=> \E x \in ToSet(m.content) : ~IsEmptyText(x)
           /\ EffectiveRole(m) =
                 IF m.role = "user" /\ \E x \in ToSet(m.content) : x.kind = "response"
                 THEN "tool" ELSE m.role
<1>1. m.content \in Seq(J)
  BY DEF Seen
<1> DEFINE c == m.content
<1>2. /\ DOMAIN c = 1..Len(c)
      /\ \A x \in ToSet(c) : \E k \in 1..Len(c) : c[k] = x
      /\ \A k \in 1..Len(c) : c[k] \in ToSet(c)
  BY <1>1, ItemsOf
<1> HIDE DEF c
<1>3. \A kind, id : (\E k \in DOMAIN c : c[k].kind = kind /\ c[k].id = id) <=>
                       \E x \in ToSet(c) : x.kind = kind /\ x.id = id
  BY <1>2
<1>4. (\E k \in DOMAIN c : ~IsEmptyText(c[k])) <=> \E x \in ToSet(c) : ~IsEmptyText(x)
  BY <1>2
<1>5. (\E k \in DOMAIN c : c[k].kind = "response") <=>
         \E x \in ToSet(c) : x.kind = "response"
  BY <1>2
<1> QED
  BY <1>3, <1>4, <1>5 DEF Has, HasContent, EffectiveRole, c

\* Whatever is done to each message, there are as many.
LEMMA Mapped ==
    ASSUME NEW E, NEW F, NEW s \in Seq(E), NEW t,
           t = [i \in DOMAIN s |-> t[i]],
           \A i \in 1..Len(s) : t[i] \in F
    PROVE  t \in Seq(F) /\ Len(t) = Len(s)
<1>1. DOMAIN s = 1..Len(s) /\ Len(s) \in Nat
  OBVIOUS
<1>2. t \in [1..Len(s) -> F]
  BY <1>1
<1> QED
  BY <1>1, <1>2

\* Texts that are put together leave a message of items.
LEMMA MergeTextTyped ==
    ASSUME NEW m \in Seen(Items)
    PROVE  MergeTextContentInMessage(m) \in Seen(Items)
<1>1. m.content \in Seq(Items)
  BY DEF Seen
<1>2. FoldLeft(AddItem, <<>>, m.content) \in Seq(Items)
  <2>1. PICK it : TextsAlong(it, m.content)
    BY <1>1, AddItemFold
  <2>2. Len(m.content) \in 0..Len(m.content)
    BY <1>1
  <2> QED
    BY <2>1, <2>2 DEF TextsAlong
<1> DEFINE new == FoldLeft(AddItem, <<>>, m.content)
<1>3. MergeTextContentInMessage(m) \in {m, [m EXCEPT !.content = new]}
  BY DEF MergeTextContentInMessage
<1> HIDE DEF new
<1>4. [m EXCEPT !.content = new] \in Seen(Items)
  BY <1>2 DEF Seen, new
<1> QED
  BY <1>3, <1>4

\* Trimming leaves a message of items.
LEMMA TrimTyped ==
    ASSUME NEW m \in Seen(Items)
    PROVE  TrimAssistantText(m) \in Seen(Items)
<1>1. m.content \in Seq(Items)
  BY DEF Seen
<1> DEFINE new == Map(Trimmed, m.content)
<1>2. new \in Seq(Items)
  <2>1. ASSUME NEW x \in Items
        PROVE  Trimmed(x) \in Items
    <3>1. CASE IsText(x)
      <4>1. x \in Texts
        BY <3>1, ItemKinds DEF IsText
      <4>2. Trimmed(x) \in Texts
        BY <3>1, <4>1 DEF Trimmed, Texts
      <4> QED
        BY <4>2 DEF Items
    <3>2. CASE ~IsText(x)
      BY <3>2 DEF Trimmed
    <3> QED
      BY <3>1, <3>2
  <2>2. new = [i \in DOMAIN m.content |-> new[i]]
        /\ \A i \in 1..Len(m.content) : new[i] = Trimmed(m.content[i])
    BY <1>1 DEF Map
  <2> HIDE DEF new
  <2>3. ASSUME NEW i \in 1..Len(m.content)
        PROVE  new[i] \in Items
    <3>1. m.content[i] \in Items
      BY <1>1
    <3> QED
      BY <2>1, <2>2, <3>1
  <2> QED
    BY <1>1, <2>2, <2>3, Mapped
<1>3. TrimAssistantText(m) \in {m, [m EXCEPT !.content = new]}
  BY DEF TrimAssistantText
<1> HIDE DEF new
<1>4. [m EXCEPT !.content = new] \in Seen(Items)
  BY <1>2 DEF Seen
<1> QED
  BY <1>3, <1>4

\* A filled result says something.
LEMMA FillTyped ==
    ASSUME NEW m \in Seen(Items)
    PROVE  FixEmptyToolResults(m) \in Seen(Sound)
<1>1. m.content \in Seq(Items)
  BY DEF Seen
<1> DEFINE new == Map(Filled, m.content)
<1>2. new \in Seq(Sound)
  <2>1. ASSUME NEW x \in Items
        PROVE  Filled(x) \in Sound
    <3>1. CASE x.kind = "response"
      <4>1. x \in Responses
        BY <3>1, ItemKinds
      <4>2. Filled(x) \in Responses /\ ~Filled(x).empty
        BY <3>1, <4>1 DEF Filled, Responses
      <4> QED
        BY <4>2 DEF Items, Sound
    <3>2. CASE x.kind # "response"
      BY <3>2 DEF Filled, Sound
    <3> QED
      BY <3>1, <3>2
  <2>2. new = [i \in DOMAIN m.content |-> new[i]]
        /\ \A i \in 1..Len(m.content) : new[i] = Filled(m.content[i])
    BY <1>1 DEF Map
  <2> HIDE DEF new
  <2>3. ASSUME NEW i \in 1..Len(m.content)
        PROVE  new[i] \in Sound
    <3>1. m.content[i] \in Items
      BY <1>1
    <3> QED
      BY <2>1, <2>2, <3>1
  <2> QED
    BY <1>1, <2>2, <2>3, Mapped
<1>3. FixEmptyToolResults(m) = [m EXCEPT !.content = new]
  BY DEF FixEmptyToolResults
<1> HIDE DEF new
<1> QED
  BY <1>2, <1>3 DEF Seen

\* Every message says something.
AllSay(ms) == \A i \in 1..Len(ms) : HasContent(ms[i])

\* A part is not longer than the whole.
LEMMA PartShorter ==
    ASSUME NEW E, NEW t \in Seq(E), NEW s \in Seq(E), NEW e, PartOf(t, s, e)
    PROVE  Len(t) <= Len(s)
<1>0. /\ Len(t) \in Nat /\ Len(s) \in Nat
      /\ e \in [1..Len(t) -> 1..Len(s)]
      /\ \A i, j \in 1..Len(t) : i < j => e[i] < e[j]
  BY DEF PartOf, PartUpTo
<1> DEFINE T == {n \in 0..Len(t) : n = 0 \/ n <= e[n]}
<1>1. 0 \in T
  BY <1>0
<1>2. ASSUME NEW n \in 1..Len(t), n - 1 \in T
      PROVE  n \in T
  <2>1. e[n] \in 1..Len(s)
    BY <1>0
  <2>2. CASE n = 1
    BY <1>0, <2>1, <2>2
  <2>3. CASE n # 1
    <3>1. n - 1 \in 1..Len(t) /\ n - 1 < n
      BY <1>0, <2>3
    <3>2. e[n - 1] < e[n] /\ e[n - 1] \in 1..Len(s) /\ n - 1 <= e[n - 1]
      BY <1>0, <1>2, <3>1
    <3>3. n <= e[n]
      BY <1>0, <2>1, <3>2
    <3> QED
      BY <3>3
  <2> QED
    BY <2>2, <2>3
<1>3. Len(t) \in T
  <2> HIDE DEF T
  <2>1. \A n \in 0..Len(t) : n \in T
    BY <1>0, <1>1, <1>2, Along
  <2> QED
    BY <1>0, <2>1
<1>4. CASE Len(t) = 0
  BY <1>0, <1>4
<1>5. CASE Len(t) # 0
  <2>1. Len(t) \in 1..Len(t)
    BY <1>0, <1>5
  <2>2. e[Len(t)] \in 1..Len(s) /\ Len(t) <= e[Len(t)]
    BY <1>0, <1>3, <1>5, <2>1
  <2> QED
    BY <1>0, <2>2
<1> QED
  BY <1>4, <1>5

\* Removing what says nothing.
LEMMA RemoveEmptyIs ==
    ASSUME NEW E, NEW ms \in Seq(E)
    PROVE  /\ RemoveEmptyMessages(ms) \in Seq(E)
           /\ Len(RemoveEmptyMessages(ms)) <= Len(ms)
           /\ AllSay(RemoveEmptyMessages(ms))
           /\ \E e : /\ PartOf(RemoveEmptyMessages(ms), ms, e)
                     /\ \A i \in 1..Len(ms) : HasContent(ms[i]) =>
                           \E j \in 1..Len(RemoveEmptyMessages(ms)) : e[j] = i
<1> DEFINE S == {m \in ToSet(ms) : HasContent(m)}
           t == Among(ms, S)
<1>1. RemoveEmptyMessages(ms) = t
  BY DEF RemoveEmptyMessages
<1>2. \A i \in 1..Len(ms) : ms[i] \in S <=> HasContent(ms[i])
  BY ItemsOf
<1>3. \A m \in S : HasContent(m)
  OBVIOUS
<1> HIDE DEF S
<1>4. /\ t \in Seq(E)
      /\ \A j \in 1..Len(t) : t[j] \in S
  BY AmongPart
<1>5. PICK e : /\ PartOf(t, ms, e)
               /\ \A i \in 1..Len(ms) : ms[i] \in S => \E j \in 1..Len(t) : e[j] = i
  BY AmongPart, Zenon
<1> HIDE DEF t
<1>6. Len(t) <= Len(ms)
  BY <1>4, <1>5, PartShorter
<1> QED
  BY <1>1, <1>2, <1>3, <1>4, <1>5, <1>6 DEF AllSay

-----------------------------------------------------------------------------
(***************************************************************************)
(* The first sweep of fix_tool_calling.                                    *)
(***************************************************************************)

\* What the sweep of a content has made of it so far: nothing is left that the
\* role may not say; the responses of a user have taken their requests off what
\* is pending, the requests of an assistant have been put on it.
Swept1(acc, role, pending) ==
    /\ \A x \in ToSet(acc.content) : x.kind \notin Misplaced(role)
    /\ role = "user" =>
          /\ acc.pending \subseteq pending
          /\ \A id \in pending \ acc.pending :
                \E x \in ToSet(acc.content) : x.kind = "response" /\ x.id = id
    /\ role = "assistant" =>
          /\ pending \subseteq acc.pending
          /\ \A x \in ToSet(acc.content) : x.kind = "request" => x.id \in acc.pending

\* The items of a longer content.
LEMMA ItemsAppend ==
    ASSUME NEW J, NEW content \in Seq(J), NEW x \in J
    PROVE  ToSet(Append(content, x)) = ToSet(content) \cup {x}
<1> DEFINE u == Append(content, x)
           L == Len(content)
<1>1. /\ u \in Seq(J) /\ Len(u) = L + 1 /\ L \in Nat
      /\ u[L + 1] = x /\ \A k \in 1..L : u[k] = content[k]
  OBVIOUS
<1>2. DOMAIN u = 1..(L + 1) /\ DOMAIN content = 1..L
  OBVIOUS
<1>3. \A k \in 1..(L + 1) : k = L + 1 \/ k \in 1..L
  BY <1>1
<1>4. \A k \in 1..L : k \in 1..(L + 1)
  BY <1>1
<1>5. L + 1 \in 1..(L + 1)
  BY <1>1
<1> HIDE DEF u, L
<1> QED
  BY <1>1, <1>2, <1>3, <1>4, <1>5 DEF ToSet, u

\* Sweeping one more item.
LEMMA SweepStep ==
    ASSUME NEW J \in SUBSET Items, NEW acc \in Swiped(J), NEW role \in Roles,
           NEW pending \in SUBSET Ids, NEW item \in J, Swept1(acc, role, pending)
    PROVE  Swept1(Sweep(acc, role, item), role, pending)
<1> DEFINE c == acc.content
           new == Append(c, item)
           res == Sweep(acc, role, item)
<1>0. c \in Seq(J) /\ ToSet(new) = ToSet(c) \cup {item}
  BY ItemsAppend DEF Swiped
<1>1. /\ \A x \in ToSet(c) : x.kind \notin Misplaced(role)
      /\ role = "user" =>
            /\ acc.pending \subseteq pending
            /\ \A id \in pending \ acc.pending :
                  \E x \in ToSet(c) : x.kind = "response" /\ x.id = id
      /\ role = "assistant" =>
            /\ pending \subseteq acc.pending
            /\ \A x \in ToSet(c) : x.kind = "request" => x.id \in acc.pending
  BY DEF Swept1
<1> HIDE DEF c
<1>2. CASE item.kind \in Misplaced(role)
  BY <1>2 DEF Sweep
<1>3. CASE item.kind \notin Misplaced(role) /\ item.kind = "response"
  <2>1. role = "user"
    BY <1>3 DEF Misplaced, Roles
  <2>2. CASE item.id \in acc.pending
    <3>1. res = [content |-> new, pending |-> acc.pending \ {item.id}]
      BY <1>3, <2>2 DEF Sweep, StillPending, c
    <3>2. res.content = new /\ res.pending = acc.pending \ {item.id}
      BY <3>1
    <3> HIDE DEF res, new
    <3>3. \A x \in ToSet(new) : x.kind \notin Misplaced(role)
      BY <1>0, <1>1, <1>3
    <3>4. ASSUME NEW id \in pending \ res.pending
          PROVE  \E x \in ToSet(new) : x.kind = "response" /\ x.id = id
      <4>1. CASE id = item.id
        BY <1>0, <1>3, <4>1
      <4>2. CASE id # item.id
        BY <1>0, <1>1, <2>1, <3>2, <4>2
      <4> QED
        BY <4>1, <4>2
    <3>5. res.pending \subseteq pending
      BY <1>1, <2>1, <3>2
    <3>6. Swept1(res, role, pending)
      BY <2>1, <3>2, <3>3, <3>4, <3>5 DEF Swept1
    <3> QED
      BY <3>6 DEF res
  <2>3. CASE item.id \notin acc.pending
    BY <1>3, <2>3 DEF Sweep
  <2> QED
    BY <2>2, <2>3
<1>4. CASE item.kind \notin Misplaced(role) /\ item.kind # "response"
  <2>1. /\ res.content = new
        /\ res.pending = IF item.kind = "request" THEN acc.pending \cup {item.id}
                                                   ELSE acc.pending
    BY <1>4 DEF Sweep, c
  <2> HIDE DEF res, new
  <2>2. \A x \in ToSet(new) : x.kind \notin Misplaced(role)
    BY <1>0, <1>1, <1>4
  <2>3. CASE role = "user"
    <3>1. item.kind # "request"
      BY <1>4, <2>3 DEF Misplaced
    <3>2. res.pending = acc.pending
      BY <2>1, <3>1
    <3>3. Swept1(res, role, pending)
      BY <1>0, <1>1, <2>1, <2>2, <2>3, <3>2 DEF Swept1
    <3> QED
      BY <3>3 DEF res
  <2>4. CASE role = "assistant"
    <3>1. \A x \in ToSet(new) : x.kind = "request" => x.id \in res.pending
      BY <1>0, <1>1, <2>1, <2>4
    <3>2. pending \subseteq res.pending
      BY <1>1, <2>1, <2>4
    <3>3. Swept1(res, role, pending)
      BY <2>1, <2>2, <2>4, <3>1, <3>2 DEF Swept1
    <3> QED
      BY <3>3 DEF res
  <2> QED
    BY <2>3, <2>4 DEF Roles
<1> QED
  BY <1>2, <1>3, <1>4

\* What sweeping a content makes of it.
LEMMA ContentSwept ==
    ASSUME NEW J \in SUBSET Items, NEW role \in Roles, NEW pending \in SUBSET Ids,
           NEW content \in Seq(J)
    PROVE  Swept1(SweepContent(role, pending, content), role, pending)
<1>1. PICK it : ContentAlong(it, role, pending, content, J)
  BY SweepContentFold, Zenon
<1>0. Len(content) \in Nat
  OBVIOUS
<1>2. /\ it[0] = [content |-> <<>>, pending |-> pending]
      /\ \A n \in 1..Len(content) :
            /\ it[n - 1] \in Swiped(J)
            /\ content[n] \in J
            /\ it[n] = Sweep(it[n - 1], role, content[n])
      /\ it[Len(content)] = SweepContent(role, pending, content)
  BY <1>1 DEF ContentAlong
<1> DEFINE T == {n \in 0..Len(content) : Swept1(it[n], role, pending)}
<1>3. 0 \in T
  <2>1. it[0].content = <<>> /\ it[0].pending = pending /\ ToSet(<<>>) = {}
    BY <1>2 DEF ToSet
  <2>2. Swept1(it[0], role, pending)
    BY <2>1 DEF Swept1
  <2> QED
    BY <1>0, <2>2
<1>4. ASSUME NEW n \in 1..Len(content), n - 1 \in T
      PROVE  n \in T
  <2>1. /\ it[n - 1] \in Swiped(J) /\ content[n] \in J
        /\ it[n] = Sweep(it[n - 1], role, content[n])
    BY <1>2
  <2>2. Swept1(it[n - 1], role, pending)
    BY <1>4
  <2>3. Swept1(it[n], role, pending)
    BY <2>1, <2>2, SweepStep
  <2> QED
    BY <2>3
<1>5. Len(content) \in T
  <2> HIDE DEF T
  <2>1. \A n \in 0..Len(content) : n \in T
    BY <1>0, <1>3, <1>4, Along
  <2> QED
    BY <1>0, <2>1
<1> QED
  BY <1>2, <1>5

-----------------------------------------------------------------------------
\* A request is the assistant's, and still pending or answered later.
Settled(ms, i, pending) ==
    \A id : Has(ms[i], "request", id) =>
       /\ ms[i].role = "assistant"
       /\ \/ id \in pending
          \/ \E j \in 1..Len(ms) : /\ i < j
                                   /\ ms[j].role = "user"
                                   /\ Has(ms[j], "response", id)

AllSettled(acc) == \A i \in 1..Len(acc.messages) : Settled(acc.messages, i, acc.pending)

\* Sweeping one more message.
LEMMA SweepMessageStep ==
    ASSUME NEW J \in SUBSET Items, NEW acc \in SweptUp(J), NEW m \in Seen(J),
           AllSettled(acc)
    PROVE  AllSettled(SweepMessage(acc, m))
<1> DEFINE swept == SweepContent(m.role, acc.pending, m.content)
           n == [m EXCEPT !.content = swept.content]
           ms == acc.messages
           new == Append(ms, n)
           L == Len(ms)
<1>0. m.role \in Roles /\ m.content \in Seq(J) /\ acc.pending \in SUBSET Ids
      /\ ms \in Seq(Seen(J))
  BY DEF Seen, SweptUp
<1>1. swept \in Swiped(J) /\ Swept1(swept, m.role, acc.pending)
  BY <1>0, SweepContentTyped, ContentSwept
<1>2. n \in Seen(J) /\ n.role = m.role /\ n.content = swept.content
  <2> HIDE DEF swept
  <2> QED
    BY <1>1 DEF Swiped, Seen
<1>3. SweepMessage(acc, m) = [messages |-> new, pending |-> swept.pending]
  BY DEF SweepMessage
<1>4. /\ \A x \in ToSet(n.content) : x.kind \notin Misplaced(m.role)
      /\ m.role = "user" =>
            /\ swept.pending \subseteq acc.pending
            /\ \A id \in acc.pending \ swept.pending :
                  \E x \in ToSet(n.content) : x.kind = "response" /\ x.id = id
      /\ m.role = "assistant" =>
            /\ acc.pending \subseteq swept.pending
            /\ \A x \in ToSet(n.content) : x.kind = "request" => x.id \in swept.pending
  BY <1>1, <1>2 DEF Swept1
<1>5. \A kind, id : Has(n, kind, id) <=>
         \E x \in ToSet(n.content) : x.kind = kind /\ x.id = id
  BY <1>2, ByItems
<1> HIDE DEF swept, n
<1>6. /\ L \in Nat /\ Len(new) = L + 1 /\ new[L + 1] = n
      /\ \A i \in 1..L : new[i] = ms[i]
  BY <1>0, <1>2
<1>7. \A i \in 1..L : Settled(ms, i, acc.pending)
  BY DEF AllSettled
<1> HIDE DEF new, ms
<1>8. Settled(new, L + 1, swept.pending)
  <2>1. ASSUME NEW id, Has(n, "request", id)
        PROVE  m.role = "assistant" /\ id \in swept.pending
    <3>1. PICK x \in ToSet(n.content) : x.kind = "request" /\ x.id = id
      BY <1>5, <2>1
    <3>2. "request" \notin Misplaced(m.role)
      BY <1>4, <3>1
    <3>3. m.role = "assistant"
      BY <1>0, <3>2 DEF Misplaced, Roles
    <3> QED
      BY <1>4, <3>1, <3>3
  <2> QED
    BY <1>2, <1>6, <2>1 DEF Settled
<1>9. ASSUME NEW i \in 1..L
      PROVE  Settled(new, i, swept.pending)
  <2>1. ASSUME NEW id, Has(ms[i], "request", id)
        PROVE  /\ ms[i].role = "assistant"
               /\ \/ id \in swept.pending
                  \/ \E j \in 1..(L + 1) : /\ i < j
                                           /\ new[j].role = "user"
                                           /\ Has(new[j], "response", id)
    <3>1. ms[i].role = "assistant"
      BY <1>7, <2>1 DEF Settled
    <3>2. CASE \E j \in 1..L : /\ i < j
                               /\ ms[j].role = "user"
                               /\ Has(ms[j], "response", id)
      <4>1. PICK j \in 1..L : i < j /\ ms[j].role = "user" /\ Has(ms[j], "response", id)
        BY <3>2
      <4>2. j \in 1..(L + 1) /\ new[j] = ms[j]
        BY <1>6
      <4> QED
        BY <3>1, <4>1, <4>2
    <3>3. CASE id \in acc.pending /\ id \notin swept.pending
      <4>1. m.role = "user"
        BY <1>0, <1>4, <3>3 DEF Roles
      <4>2. Has(n, "response", id)
        BY <1>4, <1>5, <3>3, <4>1
      <4>3. L + 1 \in 1..(L + 1) /\ i < L + 1
        BY <1>6
      <4> QED
        BY <1>2, <1>6, <3>1, <4>1, <4>2, <4>3
    <3> QED
      BY <1>7, <2>1, <3>1, <3>2, <3>3 DEF Settled, ms
  <2> QED
    BY <1>6, <2>1 DEF Settled
<1>10. \A i \in 1..(L + 1) : Settled(new, i, swept.pending)
  <2>1. \A i \in 1..(L + 1) : i = L + 1 \/ i \in 1..L
    BY <1>6
  <2> QED
    BY <1>8, <1>9, <2>1
<1> HIDE DEF L
<1> QED
  BY <1>3, <1>6, <1>10 DEF AllSettled

\* What sweeping all messages makes of them.
LEMMA MessagesSwept ==
    ASSUME NEW J \in SUBSET Items, NEW ms \in Seq(Seen(J))
    PROVE  /\ SweepMessages(ms) \in SweptUp(J)
           /\ Len(SweepMessages(ms).messages) = Len(ms)
           /\ AllSettled(SweepMessages(ms))
<1>1. PICK it : SweepAlong(it, ms, J)
  BY SweepFold, Zenon
<1>0. Len(ms) \in Nat
  OBVIOUS
<1>2. /\ it[0] = [messages |-> <<>>, pending |-> {}]
      /\ \A n \in 1..Len(ms) :
            /\ it[n - 1] \in SweptUp(J)
            /\ ms[n] \in Seen(J)
            /\ it[n] = SweepMessage(it[n - 1], ms[n])
      /\ it[Len(ms)] = SweepMessages(ms)
      /\ \A n \in 0..Len(ms) : it[n] \in SweptUp(J)
  BY <1>1 DEF SweepAlong
<1> DEFINE T == {n \in 0..Len(ms) : Len(it[n].messages) = n /\ AllSettled(it[n])}
<1>3. 0 \in T
  <2>1. it[0].messages = <<>> /\ Len(<<>>) = 0
    BY <1>2
  <2>2. AllSettled(it[0])
    BY <2>1 DEF AllSettled
  <2> QED
    BY <1>0, <2>1, <2>2
<1>4. ASSUME NEW n \in 1..Len(ms), n - 1 \in T
      PROVE  n \in T
  <2>1. /\ it[n - 1] \in SweptUp(J) /\ ms[n] \in Seen(J)
        /\ it[n] = SweepMessage(it[n - 1], ms[n])
        /\ Len(it[n - 1].messages) = n - 1 /\ AllSettled(it[n - 1])
    BY <1>2, <1>4
  <2>2. AllSettled(it[n])
    BY <2>1, SweepMessageStep
  <2>3. \E m : it[n].messages = Append(it[n - 1].messages, m)
    BY <2>1 DEF SweepMessage
  <2>4. it[n - 1].messages \in Seq(Seen(J))
    BY <2>1 DEF SweptUp
  <2>5. Len(it[n].messages) = n
    <3>1. PICK m : it[n].messages = Append(it[n - 1].messages, m)
      BY <2>3
    <3>2. Len(it[n].messages) = Len(it[n - 1].messages) + 1
      BY <2>4, <3>1
    <3> QED
      BY <2>1, <3>2
  <2> QED
    BY <2>2, <2>5
<1>5. Len(ms) \in T
  <2> HIDE DEF T
  <2>1. \A n \in 0..Len(ms) : n \in T
    BY <1>0, <1>3, <1>4, Along
  <2> QED
    BY <1>0, <2>1
<1> QED
  BY <1>0, <1>2, <1>5

-----------------------------------------------------------------------------
(***************************************************************************)
(* The second sweep, and both.                                             *)
(***************************************************************************)

\* The second sweep takes pending requests out of a message, and nothing else.
LEMMA DropIs ==
    ASSUME NEW J \in SUBSET Items, NEW m \in Seen(J), NEW pending
    PROVE  /\ DropPending(pending, m) \in Seen(J)
           /\ DropPending(pending, m).role = m.role
           /\ \A id : Has(m, "response", id)
                         => Has(DropPending(pending, m), "response", id)
           /\ \A id : Has(DropPending(pending, m), "request", id)
                         => Has(m, "request", id) /\ id \notin pending
<1> DEFINE c == m.content
           S == {item \in ToSet(c) : ~(item.kind = "request" /\ item.id \in pending)}
           new == Among(c, S)
           d == [m EXCEPT !.content = new]
<1>1. DropPending(pending, m) = d
  BY DEF DropPending
<1>2. c \in Seq(J)
  BY DEF Seen
<1>3. /\ DOMAIN c = 1..Len(c)
      /\ \A k \in 1..Len(c) : c[k] \in ToSet(c)
      /\ \A x \in ToSet(c) : \E k \in 1..Len(c) : c[k] = x
  BY <1>2, ItemsOf
<1>4. \A x : x \in S <=> /\ x \in ToSet(c)
                         /\ ~(x.kind = "request" /\ x.id \in pending)
  OBVIOUS
<1> HIDE DEF S, c
<1>5. new \in Seq(J) /\ \A j \in 1..Len(new) : new[j] \in S
  BY <1>2, AmongPart
<1>6. PICK e : /\ PartOf(new, c, e)
               /\ \A i \in 1..Len(c) : c[i] \in S => \E j \in 1..Len(new) : e[j] = i
  BY <1>2, AmongPart, Zenon
<1> HIDE DEF new
<1>7. \A j \in 1..Len(new) : new[j] = c[e[j]]
  BY <1>6 DEF PartOf, PartUpTo
<1>8. DOMAIN new = 1..Len(new)
  BY <1>5
<1>9. d \in Seen(J) /\ d.role = m.role /\ d.content = new
  BY <1>5 DEF Seen
<1> HIDE DEF d
<1>10. ASSUME NEW id, Has(m, "response", id)
       PROVE  Has(d, "response", id)
  <2>1. PICK k \in 1..Len(c) : c[k].kind = "response" /\ c[k].id = id
    BY <1>3, <1>10 DEF Has, c
  <2>2. c[k] \in S
    BY <1>3, <1>4, <2>1
  <2>3. PICK j \in 1..Len(new) : e[j] = k
    BY <1>6, <2>2
  <2>4. new[j] = c[k]
    BY <1>7, <2>3
  <2> QED
    BY <1>8, <1>9, <2>1, <2>4 DEF Has
<1>11. ASSUME NEW id, Has(d, "request", id)
       PROVE  Has(m, "request", id) /\ id \notin pending
  <2>1. PICK j \in 1..Len(new) : new[j].kind = "request" /\ new[j].id = id
    BY <1>8, <1>9, <1>11 DEF Has
  <2>2. new[j] \in ToSet(c) /\ id \notin pending
    BY <1>4, <1>5, <2>1
  <2>3. PICK k \in 1..Len(c) : c[k] = new[j]
    BY <1>3, <2>2
  <2> QED
    BY <1>3, <2>1, <2>2, <2>3 DEF Has, c
<1> QED
  BY <1>1, <1>9, <1>10, <1>11

\* Each request is the assistant's, and a user answers it later.
PairedUp(ms) ==
    \A i \in 1..Len(ms) : \A id : Has(ms[i], "request", id) =>
       /\ ms[i].role = "assistant"
       /\ \E j \in 1..Len(ms) : /\ i < j
                                /\ ms[j].role = "user"
                                /\ Has(ms[j], "response", id)

\* After both sweeps, requests and responses are paired.
LEMMA SweptIs ==
    ASSUME NEW J \in SUBSET Items, NEW ms \in Seq(Seen(J))
    PROVE  /\ Swept(ms) \in Seq(Seen(J))
           /\ Len(Swept(ms)) = Len(ms)
           /\ PairedUp(Swept(ms))
<1> DEFINE swept == SweepMessages(ms)
           s == swept.messages
           t == Swept(ms)
<1>1. swept \in SweptUp(J) /\ Len(s) = Len(ms) /\ AllSettled(swept)
  BY MessagesSwept
<1>2. s \in Seq(Seen(J))
  BY <1>1 DEF SweptUp
<1>3. t = [i \in DOMAIN s |-> t[i]]
      /\ \A i \in 1..Len(s) : t[i] = DropPending(swept.pending, s[i])
  BY <1>2 DEF Swept, Map
<1>4. \A i \in 1..Len(s) : Settled(s, i, swept.pending)
  BY <1>1 DEF AllSettled
<1> HIDE DEF t, swept
<1> HIDE DEF s
<1>5. ASSUME NEW i \in 1..Len(s)
      PROVE  /\ t[i] \in Seen(J)
             /\ t[i].role = s[i].role
             /\ \A id : Has(s[i], "response", id) => Has(t[i], "response", id)
             /\ \A id : Has(t[i], "request", id)
                           => Has(s[i], "request", id) /\ id \notin swept.pending
  <2>1. s[i] \in Seen(J)
    BY <1>2
  <2> QED
    BY <1>3, <2>1, DropIs
<1>6. t \in Seq(Seen(J)) /\ Len(t) = Len(s)
  <2>1. \A i \in 1..Len(s) : t[i] \in Seen(J)
    BY <1>5
  <2>2. t = [i \in DOMAIN s |-> t[i]]
    BY <1>3
  <2>3. DOMAIN s = 1..Len(s) /\ Len(s) \in Nat
    BY <1>2
  <2>4. t \in [1..Len(s) -> Seen(J)]
    BY <2>1, <2>2, <2>3
  <2> QED
    BY <2>3, <2>4
<1>7. ASSUME NEW i \in 1..Len(s), NEW id, Has(t[i], "request", id)
      PROVE  /\ t[i].role = "assistant"
             /\ \E j \in 1..Len(s) : /\ i < j
                                     /\ t[j].role = "user"
                                     /\ Has(t[j], "response", id)
  <2>1. Has(s[i], "request", id) /\ id \notin swept.pending
    BY <1>5, <1>7
  <2>2. s[i].role = "assistant" /\
        \E j \in 1..Len(s) : i < j /\ s[j].role = "user" /\ Has(s[j], "response", id)
    BY <1>4, <2>1 DEF Settled
  <2> QED
    BY <1>5, <2>2
<1>8. PairedUp(t)
  BY <1>6, <1>7 DEF PairedUp
<1> QED
  BY <1>1, <1>6, <1>8 DEF t, s, swept

\* A response says something.
LEMMA ResponseSays ==
    ASSUME NEW m, NEW id, Has(m, "response", id)
    PROVE  HasContent(m)
  BY DEF Has, HasContent, IsEmptyText, IsText

\* What remains of paired messages when empty ones are removed is paired.
LEMMA RemoveEmptyPaired ==
    ASSUME NEW J \in SUBSET Items, NEW ms \in Seq(Seen(J)), PairedUp(ms)
    PROVE  PairedUp(RemoveEmptyMessages(ms))
<1> DEFINE t == RemoveEmptyMessages(ms)
<1>1. t \in Seq(Seen(J))
  BY RemoveEmptyIs
<1>2. PICK e : /\ PartOf(t, ms, e)
               /\ \A i \in 1..Len(ms) : HasContent(ms[i]) =>
                     \E j \in 1..Len(t) : e[j] = i
  BY RemoveEmptyIs, Zenon
<1> HIDE DEF t
<1>0. Len(t) \in Nat /\ Len(ms) \in Nat
  BY <1>1
<1>3. /\ \A j \in 1..Len(t) : e[j] \in 1..Len(ms) /\ t[j] = ms[e[j]]
      /\ \A i, j \in 1..Len(t) : i < j => e[i] < e[j]
  BY <1>2 DEF PartOf, PartUpTo
<1>4. ASSUME NEW i \in 1..Len(t), NEW id, Has(t[i], "request", id)
      PROVE  /\ t[i].role = "assistant"
             /\ \E j \in 1..Len(t) : /\ i < j
                                     /\ t[j].role = "user"
                                     /\ Has(t[j], "response", id)
  <2>1. e[i] \in 1..Len(ms) /\ t[i] = ms[e[i]] /\ Has(ms[e[i]], "request", id)
    BY <1>3, <1>4
  <2>2. PICK l \in 1..Len(ms) : /\ e[i] < l
                                /\ ms[l].role = "user"
                                /\ Has(ms[l], "response", id)
    BY <2>1 DEF PairedUp
  <2>3. HasContent(ms[l])
    BY <2>2, ResponseSays
  <2>4. PICK j \in 1..Len(t) : e[j] = l
    BY <1>2, <2>3
  <2>5. i < j
    <3>1. CASE i = j
      BY <2>1, <2>2, <2>4, <3>1
    <3>2. CASE j < i
      <4>1. e[j] < e[i]
        BY <1>3, <3>2
      <4> QED
        BY <2>1, <2>2, <2>4, <4>1
    <3> QED
      BY <1>0, <3>1, <3>2
  <2>6. ms[e[i]].role = "assistant"
    BY <2>1 DEF PairedUp
  <2> QED
    BY <1>3, <2>1, <2>2, <2>4, <2>5, <2>6
<1> QED
  BY <1>4 DEF PairedUp, t

\* What fix_tool_calling makes of messages: requests and responses paired, and
\* no message that says nothing.
LEMMA FixToolCallingIs ==
    ASSUME NEW J \in SUBSET Items, NEW ms \in Seq(Seen(J))
    PROVE  /\ FixToolCalling(ms) \in Seq(Seen(J))
           /\ Len(FixToolCalling(ms)) <= Len(ms)
           /\ AllSay(FixToolCalling(ms))
           /\ PairedUp(FixToolCalling(ms))
<1> DEFINE t == Swept(ms)
<1>1. t \in Seq(Seen(J)) /\ Len(t) = Len(ms) /\ PairedUp(t)
  BY SweptIs
<1>2. FixToolCalling(ms) = RemoveEmptyMessages(t)
  BY DEF FixToolCalling
<1> HIDE DEF t
<1>3. /\ RemoveEmptyMessages(t) \in Seq(Seen(J))
      /\ Len(RemoveEmptyMessages(t)) <= Len(t)
      /\ AllSay(RemoveEmptyMessages(t))
  BY <1>1, RemoveEmptyIs
<1>4. PairedUp(RemoveEmptyMessages(t))
  BY <1>1, RemoveEmptyPaired
<1> QED
  BY <1>1, <1>2, <1>3, <1>4

-----------------------------------------------------------------------------
(***************************************************************************)
(* Merging: where each message goes.                                       *)
(***************************************************************************)

\* The items of two contents put together.
LEMMA ItemsConcat ==
    ASSUME NEW J, NEW a \in Seq(J), NEW b \in Seq(J)
    PROVE  a \o b \in Seq(J) /\ ToSet(a \o b) = ToSet(a) \cup ToSet(b)
<1> DEFINE u == a \o b
           K == Len(a)
           L == Len(b)
<1>1. /\ u \in Seq(J) /\ Len(u) = K + L /\ K \in Nat /\ L \in Nat
      /\ \A k \in 1..(K + L) : u[k] = IF k <= K THEN a[k] ELSE b[k - K]
  OBVIOUS
<1>2. DOMAIN u = 1..(K + L) /\ DOMAIN a = 1..K /\ DOMAIN b = 1..L
  BY <1>1
<1> HIDE DEF u, K, L
<1>3. ASSUME NEW x \in ToSet(a) \cup ToSet(b)
      PROVE  x \in ToSet(u)
  <2>1. CASE x \in ToSet(a)
    <3>1. PICK k \in 1..K : a[k] = x
      BY <1>2, <2>1 DEF ToSet
    <3>2. k \in 1..(K + L) /\ k <= K
      BY <1>1
    <3>3. u[k] = x
      BY <1>1, <3>1, <3>2
    <3> QED
      BY <1>2, <3>2, <3>3 DEF ToSet
  <2>2. CASE x \in ToSet(b)
    <3>1. PICK k \in 1..L : b[k] = x
      BY <1>2, <2>2 DEF ToSet
    <3>2. K + k \in 1..(K + L) /\ ~(K + k <= K) /\ K + k - K = k
      BY <1>1
    <3>3. u[K + k] = x
      BY <1>1, <3>1, <3>2
    <3> QED
      BY <1>2, <3>2, <3>3 DEF ToSet
  <2> QED
    BY <1>3, <2>1, <2>2
<1>4. ASSUME NEW x \in ToSet(u)
      PROVE  x \in ToSet(a) \cup ToSet(b)
  <2>1. PICK k \in 1..(K + L) : u[k] = x
    BY <1>2 DEF ToSet
  <2>2. CASE k <= K
    <3>1. k \in 1..K /\ a[k] = x
      BY <1>1, <2>1, <2>2
    <3> QED
      BY <1>2, <3>1 DEF ToSet
  <2>3. CASE ~(k <= K)
    <3>1. k - K \in 1..L /\ b[k - K] = x
      BY <1>1, <2>1, <2>3
    <3> QED
      BY <1>2, <3>1 DEF ToSet
  <2> QED
    BY <2>2, <2>3
<1> QED
  BY <1>1, <1>3, <1>4 DEF u

\* old with what m has.
Joined(old, m) == [old EXCEPT !.content = @ \o m.content]

\* Joining a message of the same effective role.
LEMMA JoinedIs ==
    ASSUME NEW J \in SUBSET Items, NEW old \in Seen(J), NEW m \in Seen(J),
           EffectiveRole(old) = EffectiveRole(m)
    PROVE  /\ Joined(old, m) \in Seen(J)
           /\ Joined(old, m).role = old.role
           /\ old.role = m.role
           /\ EffectiveRole(Joined(old, m)) = EffectiveRole(m)
           /\ ToSet(Joined(old, m).content) = ToSet(old.content) \cup ToSet(m.content)
<1> DEFINE c == old.content \o m.content
           new == [old EXCEPT !.content = c]
<1>1. old.content \in Seq(J) /\ m.content \in Seq(J)
      /\ old.role \in Roles /\ m.role \in Roles
  BY DEF Seen
<1>2. c \in Seq(J) /\ ToSet(c) = ToSet(old.content) \cup ToSet(m.content)
  BY <1>1, ItemsConcat
<1>3. Joined(old, m) = new
  BY DEF Joined
<1> HIDE DEF c
<1>4. new \in Seen(J) /\ new.role = old.role /\ new.content = c
  BY <1>2 DEF Seen
<1> HIDE DEF new
<1>5. /\ EffectiveRole(old) =
            IF old.role = "user" /\ \E x \in ToSet(old.content) : x.kind = "response"
            THEN "tool" ELSE old.role
      /\ EffectiveRole(m) =
            IF m.role = "user" /\ \E x \in ToSet(m.content) : x.kind = "response"
            THEN "tool" ELSE m.role
      /\ EffectiveRole(new) =
            IF new.role = "user" /\ \E x \in ToSet(new.content) : x.kind = "response"
            THEN "tool" ELSE new.role
  BY <1>4, ByItems
<1>6. old.role = m.role
  <2>1. \/ EffectiveRole(old) = old.role
        \/ EffectiveRole(old) = "tool" /\ old.role = "user"
    BY <1>5, Zenon
  <2>2. \/ EffectiveRole(m) = m.role
        \/ EffectiveRole(m) = "tool" /\ m.role = "user"
    BY <1>5, Zenon
  <2>3. \A r \in Roles : r # "tool"
    BY DEF Roles
  <2> QED
    BY <1>1, <2>1, <2>2, <2>3
<1>7. EffectiveRole(new) = EffectiveRole(m)
  <2>1. (\E x \in ToSet(new.content) : x.kind = "response") <=>
           \/ \E x \in ToSet(old.content) : x.kind = "response"
           \/ \E x \in ToSet(m.content) : x.kind = "response"
    BY <1>2, <1>4
  <2> QED
    BY <1>1, <1>4, <1>5, <1>6, <2>1 DEF Roles
<1> QED
  BY <1>2, <1>3, <1>4, <1>6, <1>7

\* Neighbours have different effective roles.
Alternates(ms) ==
    \A q \in 1..(Len(ms) - 1) : EffectiveRole(ms[q]) # EffectiveRole(ms[q + 1])

\* merged is what the first n messages of ms have been merged to: message i went
\* into message p[i].
Collected(merged, ms, n, p) ==
    /\ p \in [1..n -> 1..Len(merged)]
    /\ Len(merged) <= n
    /\ n > 0 => p[n] = Len(merged)
    /\ \A i, j \in 1..n : i < j => p[i] <= p[j]
    /\ \A i \in 1..n : /\ merged[p[i]].role = ms[i].role
                       /\ ToSet(ms[i].content) \subseteq ToSet(merged[p[i]].content)
    /\ \A q \in 1..Len(merged) :
          /\ \E i \in 1..n : p[i] = q
          /\ \A x \in ToSet(merged[q].content) :
                \E i \in 1..n : p[i] = q /\ x \in ToSet(ms[i].content)
    /\ Alternates(merged)

\* One more message is merged into the last one.
LEMMA CollectJoined ==
    ASSUME NEW J \in SUBSET Items, NEW merged \in Seq(Seen(J)), NEW ms,
           NEW n \in Nat \ {0}, ms[n] \in Seen(J), NEW p,
           Collected(merged, ms, n - 1, p),
           merged # <<>>, EffectiveRole(Last(merged)) = EffectiveRole(ms[n])
    PROVE  \E g : Collected(AddMessage(merged, ms[n]), ms, n, g)
<1> DEFINE m == ms[n]
           L == Len(merged)
           old == merged[L]
           new == Joined(old, m)
           res == [merged EXCEPT ![L] = new]
           g == [i \in 1..n |-> IF i = n THEN L ELSE p[i]]
<1>0. L \in Nat \ {0} /\ L \in 1..L /\ old \in Seen(J) /\ Last(merged) = old
  BY DEF Last
<1>1. /\ new \in Seen(J)
      /\ new.role = old.role
      /\ old.role = m.role
      /\ EffectiveRole(new) = EffectiveRole(m)
      /\ ToSet(new.content) = ToSet(old.content) \cup ToSet(m.content)
  BY <1>0, JoinedIs
<1>2. AddMessage(merged, m) = res
  BY <1>0 DEF AddMessage, Joined
<1>3. EffectiveRole(old) = EffectiveRole(m)
  BY <1>0
<1>4. /\ g[n] = L /\ \A i \in 1..(n - 1) : g[i] = p[i]
  OBVIOUS
<1>a. g = [i \in 1..n |-> g[i]]
  OBVIOUS
<1>5. \A i \in 1..n : i = n \/ i \in 1..(n - 1)
  OBVIOUS
<1> HIDE DEF g, old, m, new
<1>6. /\ DOMAIN res = 1..L /\ Len(res) = L
      /\ res[L] = new /\ \A q \in 1..L : q # L => res[q] = merged[q]
      /\ merged[L] = old
  <2>1. DOMAIN merged = 1..L
    OBVIOUS
  <2>2. res \in Seq(Seen(J)) /\ Len(res) = L
    BY <1>0, <1>1, ExceptSeq
  <2> QED
    BY <1>0, <2>1, <2>2 DEF old
<1> HIDE DEF res, L
<1>7. /\ p \in [1..(n - 1) -> 1..L]
      /\ L <= n - 1
      /\ n - 1 > 0 => p[n - 1] = L
      /\ \A i, j \in 1..(n - 1) : i < j => p[i] <= p[j]
      /\ \A i \in 1..(n - 1) : /\ merged[p[i]].role = ms[i].role
                               /\ ToSet(ms[i].content) \subseteq ToSet(merged[p[i]].content)
      /\ \A q \in 1..L :
            /\ \E i \in 1..(n - 1) : p[i] = q
            /\ \A x \in ToSet(merged[q].content) :
                  \E i \in 1..(n - 1) : p[i] = q /\ x \in ToSet(ms[i].content)
      /\ \A q \in 1..(L - 1) : EffectiveRole(merged[q]) # EffectiveRole(merged[q + 1])
  BY DEF Collected, Alternates, L
<1>b. \A q \in 1..L : \A x \in ToSet(merged[q].content) :
         \E i \in 1..(n - 1) : p[i] = q /\ x \in ToSet(ms[i].content)
  BY <1>7
<1>8. g \in [1..n -> 1..L]
  <2>1. ASSUME NEW i \in 1..n
        PROVE  g[i] \in 1..L
    <3>1. CASE i = n
      BY <1>0, <1>4, <3>1
    <3>2. CASE i \in 1..(n - 1)
      BY <1>4, <1>7, <3>2
    <3> QED
      BY <1>5, <3>1, <3>2
  <2> QED
    BY <1>a, <2>1
<1>9. \A i, j \in 1..n : i < j => g[i] <= g[j]
  <2> SUFFICES ASSUME NEW i \in 1..n, NEW j \in 1..n, i < j
               PROVE  g[i] <= g[j]
    OBVIOUS
  <2>1. i \in 1..(n - 1)
    OBVIOUS
  <2>2. CASE j = n
    BY <1>0, <1>4, <1>7, <2>1, <2>2
  <2>3. CASE j # n
    BY <1>4, <1>5, <1>7, <2>1, <2>3
  <2> QED
    BY <2>2, <2>3
<1>10. ASSUME NEW i \in 1..n
       PROVE  /\ res[g[i]].role = ms[i].role
              /\ ToSet(ms[i].content) \subseteq ToSet(res[g[i]].content)
  <2>1. CASE i = n
    BY <1>1, <1>4, <1>6, <2>1 DEF m
  <2>2. CASE i # n
    <3>1. i \in 1..(n - 1) /\ g[i] = p[i] /\ p[i] \in 1..L
      BY <1>4, <1>5, <1>7, <2>2
    <3>a. /\ merged[p[i]].role = ms[i].role
          /\ ToSet(ms[i].content) \subseteq ToSet(merged[p[i]].content)
      BY <1>7, <3>1
    <3>2. CASE p[i] = L
      <4>1. res[g[i]] = new /\ merged[p[i]] = old
        BY <1>6, <3>1, <3>2
      <4> QED
        BY <1>1, <3>a, <4>1
    <3>3. CASE p[i] # L
      <4>1. res[g[i]] = merged[p[i]]
        BY <1>6, <3>1, <3>3
      <4> QED
        BY <3>a, <4>1
    <3> QED
      BY <3>2, <3>3
  <2> QED
    BY <2>1, <2>2
<1>11. ASSUME NEW q \in 1..L
       PROVE  /\ \E i \in 1..n : g[i] = q
              /\ \A x \in ToSet(res[q].content) :
                    \E i \in 1..n : g[i] = q /\ x \in ToSet(ms[i].content)
  <2>1. ASSUME NEW i \in 1..(n - 1)
        PROVE  i \in 1..n /\ g[i] = p[i]
    BY <1>4
  <2>2. \E i \in 1..n : g[i] = q
    <3>1. PICK i \in 1..(n - 1) : p[i] = q
      BY <1>7
    <3> QED
      BY <2>1, <3>1
  <2>3. ASSUME NEW x \in ToSet(res[q].content)
        PROVE  \E i \in 1..n : g[i] = q /\ x \in ToSet(ms[i].content)
    <3>1. CASE x \in ToSet(merged[q].content)
      <4>1. \E i \in 1..(n - 1) : p[i] = q /\ x \in ToSet(ms[i].content)
        BY <1>b, <3>1
      <4> QED
        BY <2>1, <4>1
    <3>2. CASE x \notin ToSet(merged[q].content)
      <4>1. q = L
        BY <1>6, <2>3, <3>2
      <4>2. x \in ToSet(m.content)
        BY <1>1, <1>6, <2>3, <3>2, <4>1
      <4>3. n \in 1..n
        OBVIOUS
      <4> QED
        BY <1>4, <4>1, <4>2, <4>3 DEF m
    <3> QED
      BY <3>1, <3>2
  <2> QED
    BY <2>2, <2>3
<1>12. ASSUME NEW q \in 1..(L - 1)
       PROVE  EffectiveRole(res[q]) # EffectiveRole(res[q + 1])
  <2>1. /\ q \in 1..L /\ q # L /\ q + 1 \in 1..L
        /\ EffectiveRole(merged[q]) # EffectiveRole(merged[q + 1])
    BY <1>0, <1>7
  <2>2. CASE q + 1 = L
    BY <1>1, <1>3, <1>6, <2>1, <2>2
  <2>3. CASE q + 1 # L
    BY <1>6, <2>1, <2>3
  <2> QED
    BY <2>2, <2>3
<1>13. L <= n
  BY <1>0, <1>7
<1>14. Collected(res, ms, n, g)
  BY <1>4, <1>6, <1>8, <1>9, <1>10, <1>11, <1>12, <1>13 DEF Collected, Alternates
<1> QED
  BY <1>2, <1>14 DEF m

\* One more message goes after those merged.
LEMMA CollectAppended ==
    ASSUME NEW J \in SUBSET Items, NEW merged \in Seq(Seen(J)), NEW ms,
           NEW n \in Nat \ {0}, ms[n] \in Seen(J), NEW p,
           Collected(merged, ms, n - 1, p),
           ~(merged # <<>> /\ EffectiveRole(Last(merged)) = EffectiveRole(ms[n]))
    PROVE  \E g : Collected(AddMessage(merged, ms[n]), ms, n, g)
<1> DEFINE m == ms[n]
           L == Len(merged)
           res == Append(merged, m)
           g == [i \in 1..n |-> IF i = n THEN L + 1 ELSE p[i]]
<1>0. L \in Nat
  OBVIOUS
<1>1. AddMessage(merged, m) = res
  BY DEF AddMessage
<1>2. L > 0 => EffectiveRole(merged[L]) # EffectiveRole(m)
  BY DEF Last
<1>4. /\ g[n] = L + 1 /\ \A i \in 1..(n - 1) : g[i] = p[i]
  OBVIOUS
<1>a. g = [i \in 1..n |-> g[i]]
  OBVIOUS
<1>5. \A i \in 1..n : i = n \/ i \in 1..(n - 1)
  OBVIOUS
<1> HIDE DEF g, m
<1>6. Len(res) = L + 1 /\ res[L + 1] = m /\ \A q \in 1..L : res[q] = merged[q]
  OBVIOUS
<1> HIDE DEF res, L
<1>7. /\ p \in [1..(n - 1) -> 1..L]
      /\ L <= n - 1
      /\ \A i, j \in 1..(n - 1) : i < j => p[i] <= p[j]
      /\ \A i \in 1..(n - 1) : /\ merged[p[i]].role = ms[i].role
                               /\ ToSet(ms[i].content) \subseteq ToSet(merged[p[i]].content)
      /\ \A q \in 1..L :
            /\ \E i \in 1..(n - 1) : p[i] = q
            /\ \A x \in ToSet(merged[q].content) :
                  \E i \in 1..(n - 1) : p[i] = q /\ x \in ToSet(ms[i].content)
      /\ \A q \in 1..(L - 1) : EffectiveRole(merged[q]) # EffectiveRole(merged[q + 1])
  BY DEF Collected, Alternates, L
<1>8. g \in [1..n -> 1..(L + 1)]
  <2>1. L + 1 \in 1..(L + 1) /\ \A q \in 1..L : q \in 1..(L + 1)
    BY <1>0
  <2>2. \A i \in 1..n : g[i] \in 1..(L + 1)
    <3> SUFFICES ASSUME NEW i \in 1..n
                 PROVE  g[i] \in 1..(L + 1)
      OBVIOUS
    <3>1. CASE i = n
      BY <1>4, <2>1, <3>1
    <3>2. CASE i \in 1..(n - 1)
      <4>1. p[i] \in 1..L /\ g[i] = p[i]
        BY <1>4, <1>7, <3>2
      <4> QED
        BY <2>1, <4>1
    <3> QED
      BY <1>5, <3>1, <3>2
  <2> QED
    BY <1>a, <2>2
<1>9. \A i, j \in 1..n : i < j => g[i] <= g[j]
  <2> SUFFICES ASSUME NEW i \in 1..n, NEW j \in 1..n, i < j
               PROVE  g[i] <= g[j]
    OBVIOUS
  <2>1. i \in 1..(n - 1) /\ g[i] = p[i] /\ p[i] \in 1..L
    BY <1>4, <1>7
  <2>2. CASE j = n
    BY <1>0, <1>4, <2>1, <2>2
  <2>3. CASE j # n
    BY <1>4, <1>5, <1>7, <2>1, <2>3
  <2> QED
    BY <2>2, <2>3
<1>10. ASSUME NEW i \in 1..n
       PROVE  /\ res[g[i]].role = ms[i].role
              /\ ToSet(ms[i].content) \subseteq ToSet(res[g[i]].content)
  <2>1. CASE i = n
    BY <1>4, <1>6, <2>1 DEF m
  <2>2. CASE i # n
    <3>1. i \in 1..(n - 1) /\ g[i] = p[i] /\ p[i] \in 1..L
      BY <1>4, <1>5, <1>7, <2>2
    <3>2. /\ merged[p[i]].role = ms[i].role
          /\ ToSet(ms[i].content) \subseteq ToSet(merged[p[i]].content)
      BY <1>7, <3>1
    <3>3. res[g[i]] = merged[p[i]]
      BY <1>6, <3>1
    <3> QED
      BY <3>2, <3>3
  <2> QED
    BY <2>1, <2>2
<1>11. ASSUME NEW q \in 1..(L + 1)
       PROVE  /\ \E i \in 1..n : g[i] = q
              /\ \A x \in ToSet(res[q].content) :
                    \E i \in 1..n : g[i] = q /\ x \in ToSet(ms[i].content)
  <2>1. ASSUME NEW i \in 1..(n - 1)
        PROVE  i \in 1..n /\ g[i] = p[i]
    BY <1>4
  <2>2. CASE q = L + 1
    <3>1. n \in 1..n
      OBVIOUS
    <3> QED
      BY <1>4, <1>6, <2>2, <3>1 DEF m
  <2>3. CASE q # L + 1
    <3>1. q \in 1..L /\ res[q] = merged[q]
      BY <1>0, <1>6, <2>3
    <3>2. PICK i \in 1..(n - 1) : p[i] = q
      BY <1>7, <3>1
    <3>3. ASSUME NEW x \in ToSet(res[q].content)
          PROVE  \E k \in 1..n : g[k] = q /\ x \in ToSet(ms[k].content)
      <4>1. PICK k \in 1..(n - 1) : p[k] = q /\ x \in ToSet(ms[k].content)
        BY <1>7, <3>1, <3>3
      <4> QED
        BY <2>1, <4>1
    <3> QED
      BY <2>1, <3>2, <3>3
  <2> QED
    BY <2>2, <2>3
<1>12. ASSUME NEW q \in 1..L
       PROVE  EffectiveRole(res[q]) # EffectiveRole(res[q + 1])
  <2>1. CASE q = L
    BY <1>0, <1>2, <1>6, <2>1
  <2>2. CASE q # L
    <3>1. q \in 1..(L - 1) /\ q + 1 \in 1..L
      BY <1>0, <2>2
    <3> QED
      BY <1>6, <1>7, <3>1
  <2> QED
    BY <2>1, <2>2
<1>13. L + 1 <= n /\ L + 1 - 1 = L
  BY <1>0, <1>7
<1>14. Alternates(res)
  <2>1. Len(res) - 1 = L
    BY <1>0, <1>6
  <2>2. \A q \in 1..(Len(res) - 1) : EffectiveRole(res[q]) # EffectiveRole(res[q + 1])
    BY <1>12, <2>1
  <2> QED
    BY <2>2 DEF Alternates
<1>15. Collected(res, ms, n, g)
  BY <1>4, <1>6, <1>8, <1>9, <1>10, <1>11, <1>13, <1>14 DEF Collected
<1> QED
  BY <1>1, <1>15 DEF m

-----------------------------------------------------------------------------
(***************************************************************************)
(* What merging and fix_lead_trail leave.                                  *)
(***************************************************************************)

\* What a provider wants of messages but for the first and the last.
Orderly(ms) == AllSay(ms) /\ PairedUp(ms) /\ Alternates(ms)

\* Merged messages say something if those merged did.
LEMMA CollectedSay ==
    ASSUME NEW J \in SUBSET Items, NEW merged \in Seq(Seen(J)),
           NEW ms \in Seq(Seen(J)), NEW p, Collected(merged, ms, Len(ms), p),
           AllSay(ms)
    PROVE  AllSay(merged)
<1> SUFFICES ASSUME NEW q \in 1..Len(merged)
             PROVE  HasContent(merged[q])
  BY DEF AllSay
<1>1. PICK i \in 1..Len(ms) : p[i] = q
  BY DEF Collected
<1>2. ms[i] \in Seen(J) /\ merged[q] \in Seen(J) /\ HasContent(ms[i])
  BY DEF AllSay
<1>3. PICK x \in ToSet(ms[i].content) : ~IsEmptyText(x)
  BY <1>2, ByItems
<1>4. x \in ToSet(merged[q].content)
  BY <1>1, <1>3 DEF Collected
<1> QED
  BY <1>2, <1>3, <1>4, ByItems

\* Requests and responses stay paired when messages are merged.
LEMMA CollectedPaired ==
    ASSUME NEW J \in SUBSET Items, NEW merged \in Seq(Seen(J)),
           NEW ms \in Seq(Seen(J)), NEW p, Collected(merged, ms, Len(ms), p),
           PairedUp(ms)
    PROVE  PairedUp(merged)
<1>0. Len(ms) \in Nat /\ Len(merged) \in Nat
  OBVIOUS
<1>1. /\ \A i \in 1..Len(ms) : p[i] \in 1..Len(merged)
      /\ \A i, j \in 1..Len(ms) : i < j => p[i] <= p[j]
      /\ \A i \in 1..Len(ms) :
            /\ merged[p[i]].role = ms[i].role
            /\ ToSet(ms[i].content) \subseteq ToSet(merged[p[i]].content)
  BY DEF Collected
<1>2. ASSUME NEW q \in 1..Len(merged), NEW id, Has(merged[q], "request", id)
      PROVE  /\ merged[q].role = "assistant"
             /\ \E r \in 1..Len(merged) : /\ q < r
                                          /\ merged[r].role = "user"
                                          /\ Has(merged[r], "response", id)
  <2>1. merged[q] \in Seen(J)
    OBVIOUS
  <2>2. PICK x \in ToSet(merged[q].content) : x.kind = "request" /\ x.id = id
    BY <1>2, <2>1, ByItems
  <2>3. PICK i \in 1..Len(ms) : p[i] = q /\ x \in ToSet(ms[i].content)
    BY <2>2 DEF Collected
  <2>4. ms[i] \in Seen(J)
    OBVIOUS
  <2>5. Has(ms[i], "request", id)
    BY <2>2, <2>3, <2>4, ByItems
  <2>6. ms[i].role = "assistant"
    BY <2>5 DEF PairedUp
  <2>7. PICK j \in 1..Len(ms) : /\ i < j
                                /\ ms[j].role = "user"
                                /\ Has(ms[j], "response", id)
    BY <2>5 DEF PairedUp
  <2>8. ms[j] \in Seen(J)
    OBVIOUS
  <2>9. PICK y \in ToSet(ms[j].content) : y.kind = "response" /\ y.id = id
    BY <2>7, <2>8, ByItems
  <2>10. /\ p[j] \in 1..Len(merged) /\ p[i] <= p[j]
         /\ merged[p[i]].role = ms[i].role /\ merged[p[j]].role = ms[j].role
         /\ y \in ToSet(merged[p[j]].content)
    BY <1>1, <2>7, <2>9
  <2>11. merged[p[j]] \in Seen(J)
    BY <2>10
  <2>12. Has(merged[p[j]], "response", id)
    BY <2>9, <2>10, <2>11, ByItems
  <2>13. merged[q].role = "assistant" /\ merged[p[j]].role = "user"
    BY <2>3, <2>6, <2>7, <2>10
  <2>14. q # p[j]
    BY <2>13
  <2>15. q < p[j]
    BY <1>0, <2>3, <2>10, <2>14
  <2> QED
    BY <2>10, <2>12, <2>13, <2>15
<1> QED
  BY <1>2 DEF PairedUp

\* Each message goes somewhere.
LEMMA MergeCollects ==
    ASSUME NEW J \in SUBSET Items, NEW ms \in Seq(Seen(J))
    PROVE  /\ MergeConsecutiveMessages(ms) \in Seq(Seen(J))
           /\ \E p : Collected(MergeConsecutiveMessages(ms), ms, Len(ms), p)
<1>1. PICK it : MergeAlong(it, ms, J)
  BY MergeFold, Zenon
<1>0. Len(ms) \in Nat
  OBVIOUS
<1>2. /\ it[0] = <<>>
      /\ \A n \in 1..Len(ms) :
            /\ it[n - 1] \in Seq(Seen(J))
            /\ ms[n] \in Seen(J)
            /\ it[n] = AddMessage(it[n - 1], ms[n])
      /\ it[Len(ms)] = MergeConsecutiveMessages(ms)
      /\ \A n \in 0..Len(ms) : it[n] \in Seq(Seen(J))
  BY <1>1 DEF MergeAlong
<1> DEFINE T == {n \in 0..Len(ms) : \E p : Collected(it[n], ms, n, p)}
<1>3. 0 \in T
  <2> DEFINE none == [j \in 1..0 |-> 1]
  <2>1. Len(it[0]) = 0 /\ 1..0 = {} /\ 1..(0 - 1) = {} /\ ~(0 > 0)
    BY <1>2
  <2>2. none \in [1..0 -> 1..0]
    BY <2>1
  <2> HIDE DEF none
  <2>3. Collected(it[0], ms, 0, none)
    BY <2>1, <2>2 DEF Collected, Alternates
  <2> QED
    BY <1>0, <2>3
<1>4. ASSUME NEW n \in 1..Len(ms), n - 1 \in T
      PROVE  n \in T
  <2>1. PICK p : Collected(it[n - 1], ms, n - 1, p)
    BY <1>4
  <2> DEFINE merged == it[n - 1]
  <2>2. /\ merged \in Seq(Seen(J)) /\ ms[n] \in Seen(J)
        /\ it[n] = AddMessage(merged, ms[n]) /\ n \in Nat \ {0}
    BY <1>2
  <2>3. Collected(merged, ms, n - 1, p)
    BY <2>1
  <2> HIDE DEF merged
  <2>4. \E g : Collected(AddMessage(merged, ms[n]), ms, n, g)
    <3>1. CASE merged # <<>> /\ EffectiveRole(Last(merged)) = EffectiveRole(ms[n])
      BY <2>2, <2>3, <3>1, CollectJoined, Zenon
    <3>2. CASE ~(merged # <<>> /\ EffectiveRole(Last(merged)) = EffectiveRole(ms[n]))
      BY <2>2, <2>3, <3>2, CollectAppended, Zenon
    <3> QED
      BY <3>1, <3>2
  <2>5. n \in 0..Len(ms)
    OBVIOUS
  <2> QED
    BY <2>2, <2>4, <2>5
<1>5. Len(ms) \in T
  <2> HIDE DEF T
  <2>1. \A n \in 0..Len(ms) : n \in T
    BY <1>0, <1>3, <1>4, Along
  <2> QED
    BY <1>0, <2>1
<1> QED
  BY <1>0, <1>2, <1>5

\* Merging messages leaves them orderly.
LEMMA MergeIs ==
    ASSUME NEW J \in SUBSET Items, NEW ms \in Seq(Seen(J)), AllSay(ms), PairedUp(ms)
    PROVE  /\ MergeConsecutiveMessages(ms) \in Seq(Seen(J))
           /\ Len(MergeConsecutiveMessages(ms)) <= Len(ms)
           /\ Orderly(MergeConsecutiveMessages(ms))
<1> DEFINE merged == MergeConsecutiveMessages(ms)
<1>1. merged \in Seq(Seen(J)) /\ \E p : Collected(merged, ms, Len(ms), p)
  BY MergeCollects
<1> HIDE DEF merged
<1>2. PICK p : Collected(merged, ms, Len(ms), p)
  BY <1>1
<1>3. AllSay(merged) /\ PairedUp(merged)
  BY <1>1, <1>2, CollectedSay, CollectedPaired
<1>4. Len(merged) <= Len(ms) /\ Alternates(merged)
  BY <1>2 DEF Collected
<1> QED
  BY <1>1, <1>3, <1>4 DEF Orderly, merged

-----------------------------------------------------------------------------
\* The neighbours of an assistant's message are a user's.
LEMMA NextToAssistant ==
    ASSUME NEW J \in SUBSET Items, NEW m \in Seen(J), NEW n \in Seen(J),
           m.role = "assistant", EffectiveRole(m) # EffectiveRole(n)
    PROVE  n.role = "user"
<1>1. m.role \in Roles /\ n.role \in Roles
  BY DEF Seen
<1>2. CASE n.role = "assistant"
  <2>1. EffectiveRole(m) = "assistant" /\ EffectiveRole(n) = "assistant"
    BY <1>2 DEF EffectiveRole
  <2> QED
    BY <2>1
<1> QED
  BY <1>1, <1>2 DEF Roles

\* Without the first message.
LEMMA WithoutFirst ==
    ASSUME NEW J \in SUBSET Items, NEW ms \in Seq(Seen(J)), Orderly(ms), ms # <<>>
    PROVE  /\ Tail(ms) \in Seq(Seen(J))
           /\ Len(Tail(ms)) = Len(ms) - 1
           /\ \A i \in 1..(Len(ms) - 1) : Tail(ms)[i] = ms[i + 1]
           /\ Orderly(Tail(ms))
<1> DEFINE t == Tail(ms)
           L == Len(ms)
<1>1. /\ L \in Nat \ {0} /\ t \in Seq(Seen(J)) /\ Len(t) = L - 1
      /\ \A i \in 1..(L - 1) : t[i] = ms[i + 1]
  OBVIOUS
<1>2. /\ \A i \in 1..L : HasContent(ms[i])
      /\ \A q \in 1..(L - 1) : EffectiveRole(ms[q]) # EffectiveRole(ms[q + 1])
  BY DEF Orderly, AllSay, Alternates
<1>3. PairedUp(ms)
  BY DEF Orderly
<1> HIDE DEF t
<1>4. \A i \in 1..(L - 1) : i + 1 \in 1..L
  BY <1>1
<1>5. AllSay(t)
  BY <1>1, <1>2, <1>4 DEF AllSay
<1>6. Alternates(t)
  <2>1. ASSUME NEW q \in 1..(Len(t) - 1)
        PROVE  EffectiveRole(t[q]) # EffectiveRole(t[q + 1])
    <3>1. q \in 1..(L - 1) /\ q + 1 \in 1..(L - 1)
      BY <1>1
    <3>2. t[q] = ms[q + 1] /\ t[q + 1] = ms[q + 1 + 1]
      BY <1>1, <3>1
    <3> QED
      BY <1>2, <3>1, <3>2
  <2> QED
    BY <2>1 DEF Alternates
<1>7. PairedUp(t)
  <2>1. ASSUME NEW i \in 1..(L - 1), NEW id, Has(t[i], "request", id)
        PROVE  /\ t[i].role = "assistant"
               /\ \E j \in 1..(L - 1) : /\ i < j
                                        /\ t[j].role = "user"
                                        /\ Has(t[j], "response", id)
    <3>1. i + 1 \in 1..L /\ t[i] = ms[i + 1]
      BY <1>1, <1>4
    <3>2. ms[i + 1].role = "assistant" /\
          \E j \in 1..L : i + 1 < j /\ ms[j].role = "user" /\ Has(ms[j], "response", id)
      BY <1>3, <2>1, <3>1 DEF PairedUp
    <3>3. PICK j \in 1..L :
             i + 1 < j /\ ms[j].role = "user" /\ Has(ms[j], "response", id)
      BY <3>2
    <3>4. j - 1 \in 1..(L - 1) /\ i < j - 1 /\ j - 1 + 1 = j
      BY <1>1, <3>3
    <3>5. t[j - 1] = ms[j]
      BY <1>1, <3>4
    <3> QED
      BY <3>1, <3>2, <3>3, <3>4, <3>5
  <2> QED
    BY <1>1, <2>1 DEF PairedUp
<1> QED
  BY <1>1, <1>5, <1>6, <1>7 DEF Orderly, t

\* Without the last message, an assistant's.
LEMMA WithoutLast ==
    ASSUME NEW J \in SUBSET Items, NEW ms \in Seq(Seen(J)), Orderly(ms), ms # <<>>,
           Last(ms).role = "assistant"
    PROVE  /\ Front(ms) \in Seq(Seen(J))
           /\ Len(Front(ms)) = Len(ms) - 1
           /\ \A i \in 1..(Len(ms) - 1) : Front(ms)[i] = ms[i]
           /\ Orderly(Front(ms))
<1> DEFINE t == Front(ms)
           L == Len(ms)
<1>1. /\ L \in Nat \ {0} /\ t \in Seq(Seen(J)) /\ Len(t) = L - 1
      /\ \A i \in 1..(L - 1) : t[i] = ms[i]
  BY LastFront
<1>2. /\ \A i \in 1..L : HasContent(ms[i])
      /\ \A q \in 1..(L - 1) : EffectiveRole(ms[q]) # EffectiveRole(ms[q + 1])
  BY DEF Orderly, AllSay, Alternates
<1>3. PairedUp(ms)
  BY DEF Orderly
<1>a. ms[L].role = "assistant"
  BY DEF Last
<1> HIDE DEF t
<1>4. \A i \in 1..(L - 1) : i \in 1..L
  BY <1>1
<1>5. AllSay(t)
  BY <1>1, <1>2, <1>4 DEF AllSay
<1>6. Alternates(t)
  <2>1. ASSUME NEW q \in 1..(Len(t) - 1)
        PROVE  EffectiveRole(t[q]) # EffectiveRole(t[q + 1])
    <3>1. q \in 1..(L - 1) /\ q + 1 \in 1..(L - 1)
      BY <1>1
    <3> QED
      BY <1>1, <1>2, <3>1
  <2> QED
    BY <2>1 DEF Alternates
<1>7. PairedUp(t)
  <2>1. ASSUME NEW i \in 1..(L - 1), NEW id, Has(t[i], "request", id)
        PROVE  /\ t[i].role = "assistant"
               /\ \E j \in 1..(L - 1) : /\ i < j
                                        /\ t[j].role = "user"
                                        /\ Has(t[j], "response", id)
    <3>1. i \in 1..L /\ t[i] = ms[i]
      BY <1>1, <1>4
    <3>2. ms[i].role = "assistant" /\
          \E j \in 1..L : i < j /\ ms[j].role = "user" /\ Has(ms[j], "response", id)
      BY <1>3, <2>1, <3>1 DEF PairedUp
    <3>3. PICK j \in 1..L :
             i < j /\ ms[j].role = "user" /\ Has(ms[j], "response", id)
      BY <3>2
    <3>4. j # L
      BY <1>a, <3>3
    <3>5. j \in 1..(L - 1)
      <4>1. L \in Nat /\ j \in 1..L /\ j # L
        BY <3>4
      <4> HIDE DEF L
      <4> QED
        BY <4>1
    <3>6. t[j] = ms[j]
      BY <1>1, <3>5
    <3> QED
      BY <3>1, <3>2, <3>3, <3>5, <3>6
  <2> QED
    BY <1>1, <2>1 DEF PairedUp
<1> QED
  BY <1>1, <1>5, <1>6, <1>7 DEF Orderly, t

\* Whether messages begin, and end, with a user's.
BeginsWell(ms) == ms # <<>> => ms[1].role = "user"
EndsWell(ms) == ms # <<>> => ms[Len(ms)].role = "user"

\* fix_lead_trail, first half.
LEMMA RemoveLeadIs ==
    ASSUME NEW J \in SUBSET Items, NEW ms \in Seq(Seen(J)), Orderly(ms)
    PROVE  /\ RemoveLead(ms) \in Seq(Seen(J))
           /\ Len(RemoveLead(ms)) <= Len(ms)
           /\ Orderly(RemoveLead(ms))
           /\ BeginsWell(RemoveLead(ms))
<1>0. Len(ms) \in Nat
  OBVIOUS
<1>1. CASE ms # <<>> /\ Head(ms).role = "assistant"
  <2> DEFINE t == Tail(ms)
  <2>1. RemoveLead(ms) = t
    BY <1>1 DEF RemoveLead
  <2>2. /\ t \in Seq(Seen(J)) /\ Len(t) = Len(ms) - 1
        /\ \A i \in 1..(Len(ms) - 1) : t[i] = ms[i + 1]
        /\ Orderly(t)
    BY <1>1, WithoutFirst
  <2> HIDE DEF t
  <2>3. ASSUME t # <<>>
        PROVE  t[1].role = "user"
    <3>1. Len(t) \in Nat /\ Len(t) # 0
      BY <2>2, <2>3
    <3>2. 1 \in 1..(Len(ms) - 1) /\ 1 \in 1..Len(ms) /\ 1 + 1 \in 1..Len(ms)
      BY <1>0, <2>2, <3>1
    <3>3. t[1] = ms[1 + 1] /\ ms[1] = Head(ms)
      BY <1>1, <2>2, <3>2
    <3>4. ms[1] \in Seen(J) /\ ms[1 + 1] \in Seen(J)
      BY <3>2
    <3>5. EffectiveRole(ms[1]) # EffectiveRole(ms[1 + 1])
      BY <3>2 DEF Orderly, Alternates
    <3> QED
      BY <1>1, <3>3, <3>4, <3>5, NextToAssistant
  <2> QED
    BY <1>0, <2>1, <2>2, <2>3 DEF BeginsWell
<1>2. CASE ~(ms # <<>> /\ Head(ms).role = "assistant")
  <2>1. RemoveLead(ms) = ms
    BY <1>2 DEF RemoveLead
  <2>2. ASSUME ms # <<>>
        PROVE  ms[1].role = "user"
    <3>1. ms[1] \in Seen(J) /\ Head(ms) = ms[1]
      BY <2>2
    <3> QED
      BY <1>2, <2>2, <3>1 DEF Seen, Roles
  <2> QED
    BY <1>0, <2>1, <2>2 DEF BeginsWell
<1> QED
  BY <1>1, <1>2

\* fix_lead_trail, second half.
LEMMA RemoveTrailIs ==
    ASSUME NEW J \in SUBSET Items, NEW ms \in Seq(Seen(J)), Orderly(ms),
           BeginsWell(ms)
    PROVE  /\ RemoveTrail(ms) \in Seq(Seen(J))
           /\ Len(RemoveTrail(ms)) <= Len(ms)
           /\ Orderly(RemoveTrail(ms))
           /\ BeginsWell(RemoveTrail(ms))
           /\ EndsWell(RemoveTrail(ms))
<1>0. Len(ms) \in Nat
  OBVIOUS
<1>1. CASE ms # <<>> /\ Last(ms).role = "assistant"
  <2> DEFINE t == Front(ms)
             L == Len(ms)
  <2>1. RemoveTrail(ms) = t
    BY <1>1 DEF RemoveTrail
  <2>2. /\ t \in Seq(Seen(J)) /\ Len(t) = L - 1
        /\ \A i \in 1..(L - 1) : t[i] = ms[i]
        /\ Orderly(t)
    BY <1>1, WithoutLast
  <2> HIDE DEF t
  <2>3. ASSUME t # <<>>
        PROVE  t[1].role = "user" /\ t[Len(t)].role = "user"
    <3>1. Len(t) \in Nat /\ Len(t) # 0
      BY <2>2, <2>3
    <3>2. 1 \in 1..(L - 1) /\ L - 1 \in 1..(L - 1) /\ L - 1 \in 1..L
          /\ L \in 1..L /\ L - 1 + 1 = L
      BY <1>0, <2>2, <3>1
    <3>3. t[1] = ms[1] /\ t[Len(t)] = ms[L - 1] /\ ms[L] = Last(ms)
      BY <2>2, <3>2 DEF Last
    <3>4. ms[L - 1] \in Seen(J) /\ ms[L] \in Seen(J)
      BY <3>2
    <3>5. EffectiveRole(ms[L - 1]) # EffectiveRole(ms[L])
      BY <3>2 DEF Orderly, Alternates
    <3>6. ms[L - 1].role = "user"
      BY <1>1, <3>3, <3>4, <3>5, NextToAssistant
    <3> QED
      BY <1>1, <3>3, <3>6 DEF BeginsWell
  <2> QED
    BY <1>0, <2>1, <2>2, <2>3 DEF BeginsWell, EndsWell
<1>2. CASE ~(ms # <<>> /\ Last(ms).role = "assistant")
  <2>1. RemoveTrail(ms) = ms
    BY <1>2 DEF RemoveTrail
  <2>2. ASSUME ms # <<>>
        PROVE  ms[Len(ms)].role = "user"
    <3>1. ms[Len(ms)] \in Seen(J) /\ Last(ms) = ms[Len(ms)]
      BY <2>2 DEF Last
    <3> QED
      BY <1>2, <2>2, <3>1 DEF Seen, Roles
  <2> QED
    BY <1>0, <2>1, <2>2 DEF EndsWell
<1> QED
  BY <1>1, <1>2

-----------------------------------------------------------------------------
(***************************************************************************)
(* All the passes of fix_messages.                                         *)
(***************************************************************************)

\* The message that is put in where there is none.
LEMMA PlaceholderIs ==
    /\ Placeholder \in Seen(Sound)
    /\ Placeholder.role = "user"
    /\ HasContent(Placeholder)
    /\ \A id : ~Has(Placeholder, "request", id)
<1> DEFINE item == Text(1, FALSE)
           content == <<item>>
<1>1. item \in Sound
  <2>1. item \in Texts /\ item.kind = "text"
    BY DEF Text, Texts
  <2> QED
    BY <2>1 DEF Sound, Items
<1>2. ~IsEmptyText(item) /\ item.kind # "request"
  BY DEF IsEmptyText, IsText, Text
<1>3. Placeholder = [id |-> 0, role |-> "user", visible |-> TRUE, content |-> content]
  BY DEF Placeholder
<1> HIDE DEF item
<1>4. content \in Seq(Sound) /\ DOMAIN content = {1} /\ content[1] = item
  BY <1>1
<1> HIDE DEF content
<1>5. Placeholder \in Seen(Sound) /\ Placeholder.role = "user"
      /\ Placeholder.content = content
  BY <1>3, <1>4 DEF Seen, Roles
<1>6. HasContent(Placeholder)
  BY <1>2, <1>4, <1>5 DEF HasContent
<1>7. \A id : ~Has(Placeholder, "request", id)
  BY <1>2, <1>4, <1>5 DEF Has
<1> QED
  BY <1>5, <1>6, <1>7

\* Messages a provider accepts, from what is said of their positions.
Fit(ms) == Orderly(ms) /\ BeginsWell(ms) /\ EndsWell(ms)

\* Populating leaves fit messages fit, and some there are.
LEMMA PopulateIs ==
    ASSUME NEW ms \in Seq(Seen(Sound)), Fit(ms)
    PROVE  /\ PopulateIfEmpty(ms) \in Seq(Seen(Sound))
           /\ Len(PopulateIfEmpty(ms)) <= Len(ms) \/ Len(PopulateIfEmpty(ms)) = 1
           /\ Fit(PopulateIfEmpty(ms))
<1>0. Len(ms) \in Nat
  OBVIOUS
<1>1. CASE ms # <<>>
  BY <1>0, <1>1 DEF PopulateIfEmpty
<1>2. CASE ms = <<>>
  <2> DEFINE h == Placeholder
             one == <<h>>
  <2>1. PopulateIfEmpty(ms) = one
    BY <1>2 DEF PopulateIfEmpty
  <2>2. /\ h \in Seen(Sound) /\ h.role = "user" /\ HasContent(h)
        /\ \A id : ~Has(h, "request", id)
    BY PlaceholderIs
  <2> HIDE DEF h
  <2>3. one \in Seq(Seen(Sound)) /\ Len(one) = 1 /\ one[1] = h
    BY <2>2
  <2> HIDE DEF one
  <2>4. \A i \in 1..Len(one) : one[i] = h
    BY <2>3
  <2>5. 1..(Len(one) - 1) = {}
    BY <2>3
  <2>6. AllSay(one) /\ PairedUp(one) /\ Alternates(one)
    BY <2>2, <2>4, <2>5 DEF AllSay, PairedUp, Alternates
  <2>7. BeginsWell(one) /\ EndsWell(one)
    BY <2>2, <2>3 DEF BeginsWell, EndsWell
  <2> QED
    BY <2>1, <2>3, <2>6, <2>7 DEF Fit, Orderly
<1> QED
  BY <1>1, <1>2

-----------------------------------------------------------------------------
\* The names of the passes.
Named == {"merged text", "trimmed", "removed empty", "filled result",
          "removed calls", "merged messages", "removed lead", "removed trail",
          "placeholder"}

\* Messages stay messages when something is done to each.
LEMMA EachTyped ==
    ASSUME NEW ms \in Seq(Seen(Items))
    PROVE  /\ Map(MergeTextContentInMessage, ms) \in Seq(Seen(Items))
           /\ Len(Map(MergeTextContentInMessage, ms)) = Len(ms)
           /\ Map(TrimAssistantText, ms) \in Seq(Seen(Items))
           /\ Len(Map(TrimAssistantText, ms)) = Len(ms)
           /\ Map(FixEmptyToolResults, ms) \in Seq(Seen(Sound))
           /\ Len(Map(FixEmptyToolResults, ms)) = Len(ms)
<1>0. \A i \in 1..Len(ms) : ms[i] \in Seen(Items)
  OBVIOUS
<1>1. /\ Map(MergeTextContentInMessage, ms) \in Seq(Seen(Items))
      /\ Len(Map(MergeTextContentInMessage, ms)) = Len(ms)
  <2> DEFINE t == Map(MergeTextContentInMessage, ms)
  <2>1. t = [i \in DOMAIN ms |-> t[i]]
        /\ \A i \in 1..Len(ms) : t[i] = MergeTextContentInMessage(ms[i])
    BY DEF Map
  <2> HIDE DEF t
  <2>2. \A i \in 1..Len(ms) : t[i] \in Seen(Items)
    BY <1>0, <2>1, MergeTextTyped
  <2>3. t = [i \in DOMAIN ms |-> t[i]]
    BY <2>1
  <2>4. DOMAIN ms = 1..Len(ms) /\ Len(ms) \in Nat
    OBVIOUS
  <2>5. t \in [1..Len(ms) -> Seen(Items)]
    BY <2>2, <2>3, <2>4
  <2>6. t \in Seq(Seen(Items)) /\ Len(t) = Len(ms)
    BY <2>4, <2>5
  <2> QED
    BY <2>6 DEF t
<1>2. /\ Map(TrimAssistantText, ms) \in Seq(Seen(Items))
      /\ Len(Map(TrimAssistantText, ms)) = Len(ms)
  <2> DEFINE t == Map(TrimAssistantText, ms)
  <2>1. t = [i \in DOMAIN ms |-> t[i]]
        /\ \A i \in 1..Len(ms) : t[i] = TrimAssistantText(ms[i])
    BY DEF Map
  <2> HIDE DEF t
  <2>2. \A i \in 1..Len(ms) : t[i] \in Seen(Items)
    BY <1>0, <2>1, TrimTyped
  <2>3. t = [i \in DOMAIN ms |-> t[i]]
    BY <2>1
  <2>4. DOMAIN ms = 1..Len(ms) /\ Len(ms) \in Nat
    OBVIOUS
  <2>5. t \in [1..Len(ms) -> Seen(Items)]
    BY <2>2, <2>3, <2>4
  <2>6. t \in Seq(Seen(Items)) /\ Len(t) = Len(ms)
    BY <2>4, <2>5
  <2> QED
    BY <2>6 DEF t
<1>3. /\ Map(FixEmptyToolResults, ms) \in Seq(Seen(Sound))
      /\ Len(Map(FixEmptyToolResults, ms)) = Len(ms)
  <2> DEFINE t == Map(FixEmptyToolResults, ms)
  <2>1. t = [i \in DOMAIN ms |-> t[i]]
        /\ \A i \in 1..Len(ms) : t[i] = FixEmptyToolResults(ms[i])
    BY DEF Map
  <2> HIDE DEF t
  <2>2. \A i \in 1..Len(ms) : t[i] \in Seen(Sound)
    BY <1>0, <2>1, FillTyped
  <2>3. t = [i \in DOMAIN ms |-> t[i]]
    BY <2>1
  <2>4. DOMAIN ms = 1..Len(ms) /\ Len(ms) \in Nat
    OBVIOUS
  <2>5. t \in [1..Len(ms) -> Seen(Sound)]
    BY <2>2, <2>3, <2>4
  <2>6. t \in Seq(Seen(Sound)) /\ Len(t) = Len(ms)
    BY <2>4, <2>5
  <2> QED
    BY <2>6 DEF t
<1> QED
  BY <1>1, <1>2, <1>3

\* What is sound is made of items.
LEMMA SoundSeen == Seen(Sound) \subseteq Seen(Items) /\ Seq(Seen(Sound)) \subseteq Seq(Seen(Items))
<1>1. Seq(Sound) \subseteq Seq(Items)
  BY DEF Sound
<1>2. Seen(Sound) \subseteq Seen(Items)
  BY <1>1 DEF Seen
<1> QED
  BY <1>2

\* Every pass makes messages of messages.
LEMMA PassTyped ==
    ASSUME NEW name \in Named, NEW ms \in Seq(Seen(Items))
    PROVE  Pass(name, ms) \in Seq(Seen(Items))
<1>1. CASE name \in {"merged text", "trimmed"}
  BY <1>1, EachTyped DEF Pass
<1>2. CASE name = "removed empty"
  BY <1>2, RemoveEmptyIs DEF Pass
<1>3. CASE name = "filled result"
  BY <1>3, EachTyped, SoundSeen DEF Pass
<1>4. CASE name = "removed calls"
  BY <1>4, FixToolCallingIs DEF Pass
<1>5. CASE name = "merged messages"
  <2>1. PICK it : MergeAlong(it, ms, Items)
    BY MergeFold, Zenon
  <2>2. Len(ms) \in 0..Len(ms)
    OBVIOUS
  <2>3. MergeConsecutiveMessages(ms) \in Seq(Seen(Items))
    BY <2>1, <2>2 DEF MergeAlong
  <2> QED
    BY <1>5, <2>3 DEF Pass
<1>6. CASE name = "removed lead"
  <2>1. RemoveLead(ms) \in Seq(Seen(Items))
    BY DEF RemoveLead
  <2> QED
    BY <1>6, <2>1 DEF Pass
<1>7. CASE name = "removed trail"
  <2>1. RemoveTrail(ms) \in Seq(Seen(Items))
    BY LastFront DEF RemoveTrail
  <2> QED
    BY <1>7, <2>1 DEF Pass
<1>8. CASE name = "placeholder"
  <2>1. PopulateIfEmpty(ms) \in Seq(Seen(Items))
    <3>1. Placeholder \in Seen(Items)
      BY PlaceholderIs, SoundSeen
    <3> QED
      BY <3>1 DEF PopulateIfEmpty
  <2> QED
    BY <1>8, <2>1 DEF Pass
<1> QED
  BY <1>1, <1>2, <1>3, <1>4, <1>5, <1>6, <1>7, <1>8 DEF Named

\* The names of the issues.
Found == Named \cup {"merged tools"}

\* The messages fixed so far, and the issues.
Fixing == [messages : Seq(Seen(Items)), issues : SUBSET Found]

\* Fixing one kind of issue.
LEMMA FixTyped ==
    ASSUME NEW acc \in Fixing, NEW name \in Named
    PROVE  Fix(acc, name) \in Fixing /\ Fix(acc, name).messages = Pass(name, acc.messages)
<1> DEFINE after == Pass(name, acc.messages)
           found == Issues(name, acc.messages, after)
<1>1. after \in Seq(Seen(Items))
  BY PassTyped DEF Fixing
<1>2. found \in SUBSET Found
  BY DEF Issues, Found
<1>3. Fix(acc, name) = [messages |-> after, issues |-> acc.issues \cup found]
  BY DEF Fix
<1> HIDE DEF after, found
<1>4. acc.issues \cup found \in SUBSET Found
  BY <1>2 DEF Fixing
<1>5. Fix(acc, name) \in Fixing /\ Fix(acc, name).messages = after
  BY <1>1, <1>3, <1>4 DEF Fixing
<1> QED
  BY <1>5 DEF after

\* The passes, in their order.
LEMMA PassNames ==
    /\ Passes \in Seq(Named) /\ DOMAIN Passes = 1..Len(Passes) /\ Len(Passes) = 9
    /\ Passes[1] = "merged text" /\ Passes[2] = "trimmed"
    /\ Passes[3] = "removed empty" /\ Passes[4] = "filled result"
    /\ Passes[5] = "removed calls" /\ Passes[6] = "merged messages"
    /\ Passes[7] = "removed lead" /\ Passes[8] = "removed trail"
    /\ Passes[9] = "placeholder"
<1>1. Len(Passes) = 9 /\ DOMAIN Passes = 1..9
  BY DEF Passes
<1>2. /\ Passes[1] = "merged text" /\ Passes[2] = "trimmed"
      /\ Passes[3] = "removed empty" /\ Passes[4] = "filled result"
      /\ Passes[5] = "removed calls" /\ Passes[6] = "merged messages"
      /\ Passes[7] = "removed lead" /\ Passes[8] = "removed trail"
      /\ Passes[9] = "placeholder"
  BY DEF Passes
<1>3. Passes \in Seq(Named)
  BY DEF Passes, Named
<1> QED
  BY <1>1, <1>2, <1>3

\* it fixes messages, pass by pass.
FixAlong(it, ms) ==
    /\ it \in [0..Len(Passes) -> Fixing]
    /\ it[0] = [messages |-> ms, issues |-> {}]
    /\ \A n \in 1..Len(Passes) :
          /\ it[n - 1] \in Fixing
          /\ Passes[n] \in Named
          /\ it[n] = Fix(it[n - 1], Passes[n])
    /\ it[Len(Passes)] = FixMessages(ms)

\* Messages are fixed pass by pass.
LEMMA FixFold ==
    ASSUME NEW ms \in Seq(Seen(Items))
    PROVE  \E it : FixAlong(it, ms)
<1> DEFINE Acc == Fixing
           Elem == Named
           base == [messages |-> ms, issues |-> {}]
           f == [p \in Acc \X Elem |-> Fix(p[1], p[2])]
           Is(g) == g = [D \in SUBSET DOMAIN Passes |->
                           IF D = {} THEN [messages |-> ms, issues |-> {}]
                           ELSE Fix(g[D \ {Max(D)}], Passes[Max(D)])]
<1>0. DOMAIN Passes = 1..Len(Passes) /\ Passes \in Seq(Elem)
  BY PassNames
<1>a. base \in Acc
  BY DEF base, Acc, Fixing
<1>b. ASSUME NEW a \in Acc, NEW x \in Elem
      PROVE  Fix(a, x) \in Acc
  BY <1>b, FixTyped DEF Acc, Elem
<1>1. f \in [Acc \X Elem -> Acc]
  <2> HIDE DEF Acc, Elem
  <2> QED
    BY <1>b
<1>2. ASSUME NEW a \in Acc, NEW x \in Elem
      PROVE  f[<<a, x>>] = Fix(a, x)
  <2> HIDE DEF Acc, Elem
  <2> QED
    BY DEF f
<1> HIDE DEF f, Acc, Elem, base
<1>3. PICK h : FoldsSets(h, f, base, Passes, Acc, Elem)
  BY <1>0, <1>1, <1>a, FoldExists, Zenon
<1>4. Is(h)
  BY <1>0, <1>2, <1>3 DEF FoldsSets, base
<1>5. PICK g : Is(g) /\ FixMessages(ms) = g[DOMAIN Passes]
  <2>1. FixMessages(ms) = (CHOOSE g : Is(g))[DOMAIN Passes]
    BY Zenon DEF FixMessages, FoldLeft, MapThenFoldSet
  <2> HIDE DEF Is
  <2> QED
    BY <1>4, <2>1, Zenon
<1>6. FoldsWhereTyped(g, f, base, Passes, Acc)
  BY <1>0, <1>2, <1>3, <1>5 DEF FoldsSets, FoldsWhereTyped, base
<1>7. PICK it : FoldsAlong(it, f, base, Passes, g[1..Len(Passes)], Acc, Elem)
  BY <1>0, <1>1, <1>6, <1>a, FoldSteps, Zenon
<1>8. FixAlong(it, ms)
  BY <1>0, <1>2, <1>5, <1>7 DEF FoldsAlong, FixAlong, Acc, Elem, base
<1> QED
  BY <1>8

\* u[n] is what the first n passes make of ms.
PassesOf(u, ms) ==
    /\ u[0] = ms
    /\ u[1] = Map(MergeTextContentInMessage, u[0])
    /\ u[2] = Map(TrimAssistantText, u[1])
    /\ u[3] = RemoveEmptyMessages(u[2])
    /\ u[4] = Map(FixEmptyToolResults, u[3])
    /\ u[5] = FixToolCalling(u[4])
    /\ u[6] = MergeConsecutiveMessages(u[5])
    /\ u[7] = RemoveLead(u[6])
    /\ u[8] = RemoveTrail(u[7])
    /\ u[9] = PopulateIfEmpty(u[8])
    /\ u[9] = FixMessages(ms).messages
    /\ u[7] # u[6] => "removed lead" \in FixMessages(ms).issues

\* No pass takes back an issue, and one that changes something reports its own.
LEMMA FixReports ==
    ASSUME NEW acc \in Fixing, NEW name \in Named
    PROVE  name # "merged messages" =>
              /\ acc.issues \subseteq Fix(acc, name).issues
              /\ Fix(acc, name).messages # acc.messages => name \in Fix(acc, name).issues
<1> DEFINE w == Pass(name, acc.messages)
           found == Issues(name, acc.messages, w)
<1>1. Fix(acc, name) = [messages |-> w, issues |-> acc.issues \cup found]
  BY DEF Fix
<1>2. name # "merged messages" /\ w # acc.messages => name \in found
  BY DEF Issues
<1> HIDE DEF found, w
<1>3. Fix(acc, name).messages = w /\ Fix(acc, name).issues = acc.issues \cup found
  BY <1>1
<1> QED
  BY <1>2, <1>3

\* The fix is the passes in their order.
LEMMA FixPasses ==
    ASSUME NEW ms \in Seq(Seen(Items))
    PROVE  \E u : PassesOf(u, ms)
<1>1. PICK it : FixAlong(it, ms)
  BY FixFold, Zenon
<1> DEFINE u == [n \in 0..9 |-> it[n].messages]
<1>2. /\ u[0] = ms
      /\ u[9] = FixMessages(ms).messages
      /\ \A n \in 1..9 : u[n] = Pass(Passes[n], u[n - 1])
  <2>1. /\ it[0] = [messages |-> ms, issues |-> {}]
        /\ it[9] = FixMessages(ms)
        /\ \A n \in 1..9 : /\ it[n - 1] \in Fixing
                           /\ Passes[n] \in Named
                           /\ it[n] = Fix(it[n - 1], Passes[n])
    BY <1>1, PassNames DEF FixAlong
  <2>2. \A n \in 1..9 : it[n].messages = Pass(Passes[n], it[n - 1].messages)
    BY <2>1, FixTyped
  <2>3. \A n \in 0..9 : u[n] = it[n].messages
    OBVIOUS
  <2> HIDE DEF u
  <2>4. \A n \in 1..9 : n \in 0..9 /\ n - 1 \in 0..9
    OBVIOUS
  <2> QED
    BY <2>1, <2>2, <2>3, <2>4
<1> HIDE DEF u
<1>3. /\ u[1] = Map(MergeTextContentInMessage, u[0])
      /\ u[2] = Map(TrimAssistantText, u[1])
      /\ u[3] = RemoveEmptyMessages(u[2])
      /\ u[4] = Map(FixEmptyToolResults, u[3])
      /\ u[5] = FixToolCalling(u[4])
      /\ u[6] = MergeConsecutiveMessages(u[5])
      /\ u[7] = RemoveLead(u[6])
      /\ u[8] = RemoveTrail(u[7])
      /\ u[9] = PopulateIfEmpty(u[8])
  <2>1. /\ u[1] = Pass("merged text", u[0])
        /\ u[2] = Pass("trimmed", u[1])
        /\ u[3] = Pass("removed empty", u[2])
        /\ u[4] = Pass("filled result", u[3])
        /\ u[5] = Pass("removed calls", u[4])
        /\ u[6] = Pass("merged messages", u[5])
        /\ u[7] = Pass("removed lead", u[6])
        /\ u[8] = Pass("removed trail", u[7])
        /\ u[9] = Pass("placeholder", u[8])
    <3>1. u[1] = Pass("merged text", u[0])
      <4>1. 1 \in 1..9 /\ 1 - 1 = 0
        OBVIOUS
      <4> QED
        BY <1>2, <4>1, PassNames
    <3>2. u[2] = Pass("trimmed", u[1])
      <4>1. 2 \in 1..9 /\ 2 - 1 = 1
        OBVIOUS
      <4> QED
        BY <1>2, <4>1, PassNames
    <3>3. u[3] = Pass("removed empty", u[2])
      <4>1. 3 \in 1..9 /\ 3 - 1 = 2
        OBVIOUS
      <4> QED
        BY <1>2, <4>1, PassNames
    <3>4. u[4] = Pass("filled result", u[3])
      <4>1. 4 \in 1..9 /\ 4 - 1 = 3
        OBVIOUS
      <4> QED
        BY <1>2, <4>1, PassNames
    <3>5. u[5] = Pass("removed calls", u[4])
      <4>1. 5 \in 1..9 /\ 5 - 1 = 4
        OBVIOUS
      <4> QED
        BY <1>2, <4>1, PassNames
    <3>6. u[6] = Pass("merged messages", u[5])
      <4>1. 6 \in 1..9 /\ 6 - 1 = 5
        OBVIOUS
      <4> QED
        BY <1>2, <4>1, PassNames
    <3>7. u[7] = Pass("removed lead", u[6])
      <4>1. 7 \in 1..9 /\ 7 - 1 = 6
        OBVIOUS
      <4> QED
        BY <1>2, <4>1, PassNames
    <3>8. u[8] = Pass("removed trail", u[7])
      <4>1. 8 \in 1..9 /\ 8 - 1 = 7
        OBVIOUS
      <4> QED
        BY <1>2, <4>1, PassNames
    <3>9. u[9] = Pass("placeholder", u[8])
      <4>1. 9 \in 1..9 /\ 9 - 1 = 8
        OBVIOUS
      <4> QED
        BY <1>2, <4>1, PassNames
    <3> QED
      BY <3>1, <3>2, <3>3, <3>4, <3>5, <3>6, <3>7, <3>8, <3>9
  <2> QED
    BY <2>1 DEF Pass
<1>4. u[7] # u[6] => "removed lead" \in FixMessages(ms).issues
  <2> DEFINE lead == "removed lead"
             trail == "removed trail"
             none == "placeholder"
  <2>1. /\ it[7] = Fix(it[6], lead) /\ it[8] = Fix(it[7], trail)
        /\ it[9] = Fix(it[8], none) /\ it[9] = FixMessages(ms)
        /\ it[6] \in Fixing /\ it[7] \in Fixing /\ it[8] \in Fixing
    <3>1. \A n \in 1..9 : /\ it[n] = Fix(it[n - 1], Passes[n])
                          /\ it[n - 1] \in Fixing
      BY <1>1, PassNames DEF FixAlong
    <3>2. /\ 7 \in 1..9 /\ 8 \in 1..9 /\ 9 \in 1..9
          /\ 7 - 1 = 6 /\ 8 - 1 = 7 /\ 9 - 1 = 8
      OBVIOUS
    <3> QED
      BY <1>1, <3>1, <3>2, PassNames DEF FixAlong
  <2>2. u[7] = it[7].messages /\ u[6] = it[6].messages
    BY DEF u
  <2>3. /\ lead \in Named /\ trail \in Named /\ none \in Named
        /\ lead # "merged messages" /\ trail # "merged messages" /\ none # "merged messages"
    BY DEF Named
  <2> HIDE DEF lead, trail, none, u
  <2>4. /\ it[7].messages # it[6].messages => lead \in it[7].issues
        /\ it[7].issues \subseteq it[8].issues
        /\ it[8].issues \subseteq it[9].issues
    BY <2>1, <2>3, FixReports
  <2> QED
    BY <2>1, <2>2, <2>4 DEF lead
<1>5. PassesOf(u, ms)
  BY <1>2, <1>3, <1>4 DEF PassesOf
<1> QED
  BY <1>5

\* What fix_messages makes of messages is fit, and there is some of it.
LEMMA FixMessagesIs ==
    ASSUME NEW ms \in Seq(Seen(Items))
    PROVE  /\ FixMessages(ms).messages \in Seq(Seen(Sound))
           /\ \/ Len(FixMessages(ms).messages) <= Len(ms)
              \/ Len(FixMessages(ms).messages) = 1
           /\ Fit(FixMessages(ms).messages) /\ FixMessages(ms).messages # <<>>
<1>1. PICK u : PassesOf(u, ms)
  BY FixPasses, Zenon
<1>2. u[0] = ms /\ u[9] = FixMessages(ms).messages
  BY <1>1 DEF PassesOf
<1>3. /\ u[1] = Map(MergeTextContentInMessage, u[0])
      /\ u[2] = Map(TrimAssistantText, u[1])
      /\ u[3] = RemoveEmptyMessages(u[2])
      /\ u[4] = Map(FixEmptyToolResults, u[3])
      /\ u[5] = FixToolCalling(u[4])
      /\ u[6] = MergeConsecutiveMessages(u[5])
      /\ u[7] = RemoveLead(u[6])
      /\ u[8] = RemoveTrail(u[7])
      /\ u[9] = PopulateIfEmpty(u[8])
  BY <1>1 DEF PassesOf
<1>4. u[1] \in Seq(Seen(Items)) /\ Len(u[1]) = Len(ms)
  BY <1>2, <1>3, EachTyped
<1>5. u[2] \in Seq(Seen(Items)) /\ Len(u[2]) = Len(ms)
  BY <1>3, <1>4, EachTyped
<1>6. u[3] \in Seq(Seen(Items)) /\ Len(u[3]) <= Len(ms)
  BY <1>3, <1>5, RemoveEmptyIs
<1>7. u[4] \in Seq(Seen(Sound)) /\ Len(u[4]) <= Len(ms)
  BY <1>3, <1>6, EachTyped
<1>a. Sound \in SUBSET Items
  BY DEF Sound
<1>8. /\ u[5] \in Seq(Seen(Sound)) /\ Len(u[5]) <= Len(u[4])
      /\ AllSay(u[5]) /\ PairedUp(u[5])
  BY <1>3, <1>7, <1>a, FixToolCallingIs
<1>9. u[6] \in Seq(Seen(Sound)) /\ Len(u[6]) <= Len(u[5]) /\ Orderly(u[6])
  BY <1>3, <1>8, <1>a, MergeIs
<1>10. /\ u[7] \in Seq(Seen(Sound)) /\ Len(u[7]) <= Len(u[6]) /\ Orderly(u[7])
       /\ BeginsWell(u[7])
  BY <1>3, <1>9, <1>a, RemoveLeadIs
<1>11. /\ u[8] \in Seq(Seen(Sound)) /\ Len(u[8]) <= Len(u[7]) /\ Orderly(u[8])
       /\ BeginsWell(u[8]) /\ EndsWell(u[8])
  BY <1>3, <1>10, <1>a, RemoveTrailIs
<1>12. /\ u[9] \in Seq(Seen(Sound))
       /\ Len(u[9]) <= Len(u[8]) \/ Len(u[9]) = 1
       /\ Fit(u[9])
  BY <1>3, <1>11, PopulateIs DEF Fit
<1>b. /\ Len(u[4]) \in Nat /\ Len(u[5]) \in Nat /\ Len(u[6]) \in Nat
      /\ Len(u[7]) \in Nat /\ Len(u[8]) \in Nat /\ Len(u[9]) \in Nat
      /\ Len(ms) \in Nat
  <2>1. ASSUME NEW t \in Seq(Seen(Sound))
        PROVE  Len(t) \in Nat
    OBVIOUS
  <2>2. Len(ms) \in Nat
    OBVIOUS
  <2> QED
    BY <1>7, <1>8, <1>9, <1>10, <1>11, <1>12, <2>1, <2>2, Zenon
<1> DEFINE L(n) == Len(u[n])
           N == Len(ms)
<1>c. /\ L(4) <= N /\ L(5) <= L(4) /\ L(6) <= L(5) /\ L(7) <= L(6) /\ L(8) <= L(7)
      /\ L(9) <= L(8) \/ L(9) = 1
  BY <1>7, <1>8, <1>9, <1>10, <1>11, <1>12
<1>d. /\ L(4) \in Nat /\ L(5) \in Nat /\ L(6) \in Nat /\ L(7) \in Nat
      /\ L(8) \in Nat /\ L(9) \in Nat /\ N \in Nat
  BY <1>b
<1>13. L(8) <= N
  <2> HIDE DEF L, N
  <2>1. L(6) <= N
    BY <1>c, <1>d
  <2> QED
    BY <1>c, <1>d, <2>1
<1>14. Len(u[9]) <= Len(ms) \/ Len(u[9]) = 1
  <2> HIDE DEF L, N
  <2>1. L(9) <= N \/ L(9) = 1
    BY <1>13, <1>c, <1>d
  <2> QED
    BY <2>1 DEF L, N
<1>15. u[9] # <<>>
  <2>1. <<Placeholder>> # <<>>
    OBVIOUS
  <2> QED
    BY <1>3, <2>1 DEF PopulateIfEmpty
<1> QED
  BY <1>2, <1>12, <1>14, <1>15

-----------------------------------------------------------------------------
(***************************************************************************)
(* Putting the fixed messages back, and the context of a turn.             *)
(***************************************************************************)

\* The messages the agent sees.
InSight == {m \in Messages : m.visible}

\* What a conversation shows the agent.
LEMMA VisibleIs ==
    ASSUME NEW c \in Seq(Messages)
    PROVE  /\ Visible(c) = Among(c, InSight)
           /\ Visible(c) \in Seq(Seen(Items))
<1> DEFINE S == {m \in ToSet(c) : m.visible}
           v == Among(c, S)
<1>1. Visible(c) = v
  BY DEF Visible
<1>2. \A n \in 1..Len(c) : c[n] \in S <=> c[n] \in InSight
  <2>1. \A n \in 1..Len(c) : c[n] \in ToSet(c) /\ c[n] \in Messages
    BY ItemsOf
  <2> QED
    BY <2>1 DEF InSight
<1>3. v = Among(c, InSight)
  <2> HIDE DEF S
  <2> QED
    BY <1>2, AmongSame
<1>4. \A m \in S : m.visible
  OBVIOUS
<1> HIDE DEF S
<1>5. v \in Seq(Messages) /\ \A j \in 1..Len(v) : v[j] \in S
  BY AmongPart
<1> HIDE DEF v
<1>6. ASSUME NEW j \in 1..Len(v)
      PROVE  v[j] \in Seen(Items)
  <2>1. v[j] \in Messages /\ v[j].visible
    BY <1>4, <1>5
  <2>2. v[j].visible \in BOOLEAN
    BY <2>1 DEF Messages
  <2>3. v[j].visible = TRUE
    BY <2>1, <2>2
  <2>4. v[j] \in [id : Nat, role : Roles, visible : {TRUE}, content : Seq(Items)]
    BY <2>1, <2>3 DEF Messages
  <2> QED
    BY <2>4 DEF Seen
<1>7. v \in Seq(Seen(Items))
  <2>1. v = [j \in 1..Len(v) |-> v[j]] /\ Len(v) \in Nat
    BY <1>5
  <2>2. v \in [1..Len(v) -> Seen(Items)]
    BY <1>6, <2>1
  <2> QED
    BY <2>1, <2>2
<1> QED
  BY <1>1, <1>3, <1>7

\* v is how fixed begins, up to n messages of it.
Begin(v, fixed, n) ==
    /\ Len(v) = IF n < Len(fixed) THEN n ELSE Len(fixed)
    /\ \A j \in 1..Len(v) : v[j] = fixed[j]

\* Putting one more message back.
LEMMA PutStep ==
    ASSUME NEW fixed \in Seq(Seen(Items)), NEW acc \in Refilled, NEW m \in Messages,
           Begin(Among(acc.messages, InSight), fixed, acc.used)
    PROVE  /\ Begin(Among(Put(fixed, acc, m).messages, InSight), fixed,
                    Put(fixed, acc, m).used)
           /\ Put(fixed, acc, m).used =
                 IF m \in InSight THEN acc.used + 1 ELSE acc.used
<1> DEFINE s == acc.messages
           used == acc.used
           v == Among(s, InSight)
           res == Put(fixed, acc, m)
<1>0. s \in Seq(Messages) /\ used \in Nat /\ Len(fixed) \in Nat
  BY DEF Refilled
<1>1. Begin(v, fixed, used)
  OBVIOUS
<1>a. v \in Seq(Messages)
  BY <1>0, AmongPart
<1>2. CASE ~m.visible
  <2>1. res.messages = Append(s, m) /\ res.used = used
    BY <1>2 DEF Put, Refilled
  <2>2. m \notin InSight
    BY <1>2 DEF InSight
  <2> HIDE DEF s, res, used
  <2>3. Among(Append(s, m), InSight) = v
    BY <1>0, <2>2, AmongAppend
  <2> QED
    BY <1>1, <2>1, <2>2, <2>3 DEF res, used
<1>3. CASE m.visible /\ used < Len(fixed)
  <2> DEFINE f == fixed[used + 1]
  <2>1. res.messages = Append(s, f) /\ res.used = used + 1
    BY <1>3 DEF Put
  <2>2. m \in InSight
    BY <1>3 DEF InSight
  <2>3. used + 1 \in 1..Len(fixed)
    BY <1>0, <1>3
  <2>4. f \in Seen(Items)
    BY <2>3
  <2> HIDE DEF f
  <2>5. f \in Messages /\ f \in InSight
    BY <2>4 DEF Seen, Messages, InSight
  <2> HIDE DEF s, res, used
  <2>6. Among(Append(s, f), InSight) = Append(v, f)
    BY <1>0, <2>5, AmongAppend
  <2> HIDE DEF v
  <2>7. Len(v) = used /\ \A j \in 1..used : v[j] = fixed[j]
    BY <1>1, <1>3 DEF Begin
  <2>8. Begin(Append(v, f), fixed, used + 1)
    <3> DEFINE w == Append(v, f)
    <3>1. Len(w) = used + 1 /\ w[used + 1] = f /\ \A j \in 1..used : w[j] = v[j]
      BY <1>0, <1>a, <2>5, <2>7
    <3> HIDE DEF w
    <3>2. Len(w) = IF used + 1 < Len(fixed) THEN used + 1 ELSE Len(fixed)
      BY <1>0, <1>3, <3>1
    <3>3. \A j \in 1..(used + 1) : j = used + 1 \/ j \in 1..used
      BY <1>0
    <3>4. \A j \in 1..Len(w) : w[j] = fixed[j]
      BY <2>7, <3>1, <3>3 DEF f
    <3>5. Begin(w, fixed, used + 1)
      BY <3>2, <3>4 DEF Begin
    <3> QED
      BY <3>5 DEF w
  <2> QED
    BY <2>1, <2>2, <2>6, <2>8 DEF res, used
<1>4. CASE m.visible /\ ~(used < Len(fixed))
  <2>1. res.messages = s /\ res.used = used + 1
    BY <1>4 DEF Put
  <2>2. m \in InSight
    BY <1>4 DEF InSight
  <2> HIDE DEF s, res, used, v
  <2>3. ~(used + 1 < Len(fixed))
    BY <1>0, <1>4
  <2>4. Begin(v, fixed, used + 1)
    BY <1>1, <1>4, <2>3 DEF Begin
  <2> QED
    BY <2>1, <2>2, <2>4 DEF res, used, v
<1> QED
  BY <1>2, <1>3, <1>4 DEF Messages

\* Putting fixed messages back leaves a conversation, which shows the agent
\* the fixed messages (or nothing if it showed nothing before).
LEMMA RefillIs ==
    ASSUME NEW c \in Seq(Messages), NEW fixed \in Seq(Seen(Items)),
           Len(fixed) <= Len(Visible(c)) \/ Len(fixed) = 1
    PROVE  /\ Refill(c, fixed) \in Seq(Messages)
           /\ Visible(Refill(c, fixed)) = fixed \/ Visible(Refill(c, fixed)) = <<>>
           /\ Len(fixed) <= Len(Visible(c)) => Visible(Refill(c, fixed)) = fixed
<1>1. PICK it : RefillAlong(it, c, fixed)
  BY RefillFold, Zenon
<1>2. PICK iv : AmongAlong(iv, c, InSight, Messages)
  BY AmongFold, Zenon
<1>0. Len(c) \in Nat /\ Len(fixed) \in Nat /\ Len(c) \in 0..Len(c)
  OBVIOUS
<1>3. /\ it[0] = [messages |-> <<>>, used |-> 0]
      /\ \A n \in 1..Len(c) : /\ it[n - 1] \in Refilled
                              /\ c[n] \in Messages
                              /\ it[n] = Put(fixed, it[n - 1], c[n])
      /\ it[Len(c)] = RefillAll(c, fixed)
      /\ it[Len(c)] \in Refilled
  BY <1>0, <1>1 DEF RefillAlong
<1>4. /\ iv[0] = <<>>
      /\ \A n \in 1..Len(c) :
            iv[n] = IF c[n] \in InSight THEN Append(iv[n - 1], c[n]) ELSE iv[n - 1]
      /\ iv[Len(c)] = Among(c, InSight)
      /\ \A n \in 0..Len(c) : iv[n] \in Seq(Messages)
  BY <1>2 DEF AmongAlong
<1> DEFINE T == {n \in 0..Len(c) :
                    /\ it[n].used = Len(iv[n])
                    /\ Begin(Among(it[n].messages, InSight), fixed, it[n].used)}
<1>5. 0 \in T
  <2>1. /\ it[0].messages = <<>> /\ it[0].used = 0 /\ Len(iv[0]) = 0
        /\ Len(<<>>) = 0 /\ 1..0 = {}
    BY <1>3, <1>4
  <2>2. Among(it[0].messages, InSight) = <<>>
    BY <2>1, AmongEmpty
  <2>3. Begin(<<>>, fixed, 0)
    BY <1>0, <2>1 DEF Begin
  <2> QED
    BY <1>0, <2>1, <2>2, <2>3
<1>6. ASSUME NEW n \in 1..Len(c), n - 1 \in T
      PROVE  n \in T
  <2> DEFINE acc == it[n - 1]
             m == c[n]
  <2>1. /\ acc \in Refilled /\ m \in Messages /\ it[n] = Put(fixed, acc, m)
        /\ acc.used = Len(iv[n - 1])
        /\ Begin(Among(acc.messages, InSight), fixed, acc.used)
    BY <1>3, <1>6
  <2> HIDE DEF acc, m
  <2>2. /\ Begin(Among(it[n].messages, InSight), fixed, it[n].used)
        /\ it[n].used = IF m \in InSight THEN acc.used + 1 ELSE acc.used
    BY <2>1, PutStep
  <2>3. iv[n] = IF m \in InSight THEN Append(iv[n - 1], m) ELSE iv[n - 1]
    BY <1>4 DEF m
  <2>4. iv[n - 1] \in Seq(Messages)
    <3>1. n - 1 \in 0..Len(c)
      OBVIOUS
    <3> QED
      BY <1>4, <3>1
  <2>5. Len(Append(iv[n - 1], m)) = Len(iv[n - 1]) + 1
    BY <2>1, <2>4
  <2>6. it[n].used = Len(iv[n])
    BY <2>1, <2>2, <2>3, <2>5
  <2> QED
    BY <2>2, <2>6
<1>7. Len(c) \in T
  <2> HIDE DEF T
  <2>1. \A n \in 0..Len(c) : n \in T
    BY <1>0, <1>5, <1>6, Along
  <2> QED
    BY <1>0, <2>1
<1> DEFINE all == RefillAll(c, fixed)
           r == all.messages
           used == all.used
           v == Among(r, InSight)
<1>8. Refill(c, fixed) = r
  BY DEF Refill, RefillAll
<1>9. r \in Seq(Messages) /\ used = Len(Visible(c)) /\ Begin(v, fixed, used)
  <2>1. all \in Refilled
    BY <1>3
  <2>2. Visible(c) = iv[Len(c)]
    BY <1>4, VisibleIs
  <2>3. all.used = Len(iv[Len(c)]) /\ Begin(Among(all.messages, InSight), fixed, all.used)
    BY <1>3, <1>7
  <2> QED
    BY <2>1, <2>2, <2>3 DEF Refilled
<1>10. Visible(c) \in Seq(Seen(Items))
  BY VisibleIs
<1> HIDE DEF all, r, used
<1>11. Visible(r) = v /\ v \in Seq(Messages)
  BY <1>9, VisibleIs, AmongPart
<1> HIDE DEF v
<1>12. used \in Nat
  BY <1>9, <1>10
<1>13. CASE Len(fixed) <= used
  <2>1. Len(v) = Len(fixed) /\ \A j \in 1..Len(fixed) : v[j] = fixed[j]
    BY <1>0, <1>9, <1>12, <1>13 DEF Begin
  <2>2. v = fixed
    BY <1>11, <2>1
  <2> QED
    BY <1>8, <1>9, <1>11, <2>2
<1>14. CASE ~(Len(fixed) <= used)
  <2>1. used = 0
    BY <1>0, <1>9, <1>12, <1>14
  <2>2. Len(v) = 0
    BY <1>0, <1>9, <1>14, <2>1 DEF Begin
  <2>3. v = <<>>
    BY <1>11, <2>2
  <2>4. ~(Len(fixed) <= Len(Visible(c)))
    BY <1>9, <1>14
  <2> QED
    BY <1>8, <1>9, <1>11, <2>3, <2>4
<1> QED
  BY <1>13, <1>14

\* A context put in leaves a conversation.
LEMMA PutInTyped ==
    ASSUME NEW c \in Seq(Messages), NEW at
    PROVE  [c EXCEPT ![at].content = <<Text(1, FALSE)>> \o @] \in Seq(Messages)
<1> DEFINE item == Text(1, FALSE)
           content == <<item>> \o c[at].content
           m == [c[at] EXCEPT !.content = content]
           u == [c EXCEPT ![at] = m]
<1>1. [c EXCEPT ![at].content = <<Text(1, FALSE)>> \o @] = u
  OBVIOUS
<1>2. item \in Items
  BY DEF Text, Texts, Items
<1> HIDE DEF item
<1>3. CASE at \in DOMAIN c
  <2>1. c[at] \in Messages
    BY <1>3
  <2>2. <<item>> \in Seq(Items) /\ c[at].content \in Seq(Items)
    BY <1>2, <2>1 DEF Messages
  <2>3. content \in Seq(Items)
    BY <2>2
  <2> HIDE DEF content
  <2>4. m \in Messages
    BY <2>1, <2>3 DEF Messages
  <2> HIDE DEF m
  <2>5. at \in 1..Len(c)
    BY <1>3
  <2>6. u \in Seq(Messages)
    BY <2>4, <2>5, ExceptSeq
  <2> HIDE DEF u
  <2> QED
    BY <1>1, <2>6
<1>4. CASE at \notin DOMAIN c
  <2> HIDE DEF m
  <2>1. u = c
    BY <1>4
  <2> QED
    BY <1>1, <2>1
<1> QED
  BY <1>3, <1>4

-----------------------------------------------------------------------------
(***************************************************************************)
(* Pushing, and the theorems of the specification.                         *)
(***************************************************************************)

\* Messages made of the items in T.
Made(T) == [id : Nat, role : Roles, visible : BOOLEAN, content : Seq(T)]

\* x is the item a conversation ends with.
Ends(c, x) == c # <<>> /\ Last(c).content # <<>> /\ Last(Last(c).content) = x

\* Two contents put together.
LEMMA ConcatIs ==
    ASSUME NEW T, NEW a \in Seq(T), NEW b \in Seq(T)
    PROVE  /\ a \o b \in Seq(T) /\ Len(a \o b) = Len(a) + Len(b)
           /\ Len(a) \in Nat /\ Len(b) \in Nat
           /\ \A k \in 1..(Len(a) + Len(b)) :
                 (a \o b)[k] = IF k <= Len(a) THEN a[k] ELSE b[k - Len(a)]
  OBVIOUS

\* One item put after a content.
LEMMA ConcatOne ==
    ASSUME NEW T, NEW a \in Seq(T), NEW b \in Seq(T), Len(b) = 1
    PROVE  /\ a \o b \in Seq(T)
           /\ a \o b # <<>>
           /\ Last(a \o b) = b[1]
<1> DEFINE w == a \o b
           K == Len(a)
           L == Len(b)
<1>0. /\ w \in Seq(T) /\ Len(w) = K + L /\ K \in Nat /\ L \in Nat
      /\ \A k \in 1..(K + L) : w[k] = IF k <= K THEN a[k] ELSE b[k - K]
  BY ConcatIs, Zenon
<1>a. L = 1
  OBVIOUS
<1> HIDE DEF w, K, L
<1>1. Len(w) = K + 1 /\ K \in Nat
  BY <1>0, <1>a
<1>2. w[K + 1] = b[1]
  <2>1. K + 1 \in 1..(K + L) /\ ~(K + 1 <= K) /\ K + 1 - K = 1
    BY <1>0, <1>a
  <2> QED
    BY <1>0, <2>1
<1>3. w # <<>>
  BY <1>1
<1>4. Last(w) = b[1]
  BY <1>1, <1>2 DEF Last
<1> QED
  BY <1>0, <1>3, <1>4 DEF w

\* Pushing a message of one item: it goes on with the item the conversation ends
\* with, or becomes that item.
LEMMA PushIs ==
    ASSUME NEW T, NEW c \in Seq(Made(T)), NEW m \in Made(T), NEW new \in T,
           m.content = <<new>>,
           \A x \in T : Ends(c, x) /\ Continues(x, new) => Continued(x, new) \in T
    PROVE  /\ Push(c, m) \in Seq(Made(T))
           /\ \A y : Ends(Push(c, m), y) =>
                 \/ y = new
                 \/ \E x \in T : Ends(c, x) /\ Continues(x, new) /\ y = Continued(x, new)
<1> DEFINE p == Push(c, m)
<1>a. m.content \in Seq(T) /\ Len(m.content) = 1 /\ m.content[1] = new
  <2>1. <<new>> \in Seq(T) /\ Len(<<new>>) = 1 /\ <<new>>[1] = new
    OBVIOUS
  <2> QED
    BY <2>1
<1>1. CASE c = <<>> \/ Last(c).id # m.id
  <2>1. p = Append(c, m)
    BY <1>1 DEF Push
  <2>2. Append(c, m) \in Seq(Made(T)) /\ Last(Append(c, m)) = m
    <3>1. /\ Append(c, m) \in Seq(Made(T)) /\ Len(Append(c, m)) = Len(c) + 1
          /\ Append(c, m)[Len(c) + 1] = m
      OBVIOUS
    <3> QED
      BY <3>1 DEF Last
  <2>3. Last(m.content) = new
    BY <1>a DEF Last
  <2> HIDE DEF p
  <2>4. \A y : Ends(p, y) => y = new
    BY <2>1, <2>2, <2>3 DEF Ends
  <2> QED
    BY <2>1, <2>2, <2>4 DEF p
<1>2. CASE c # <<>> /\ Last(c).id = m.id
  <2> DEFINE L == Len(c)
             l == c[L]
             old == l.content
             goes == old # <<>> /\ Continues(Last(old), new)
             after == IF goes THEN Append(Front(old), Continued(Last(old), new))
                              ELSE old \o m.content
             n == [l EXCEPT !.content = after]
             u == [c EXCEPT ![L] = n]
  <2>1. L \in 1..L /\ l \in Made(T) /\ Last(c) = l /\ L \in Nat
    BY <1>2 DEF Last
  <2>2. old \in Seq(T)
    BY <2>1 DEF Made
  <2>3. p = u
    BY <1>2, <1>a, <2>1 DEF Push
  <2>4. /\ after \in Seq(T) /\ after # <<>>
        /\ Last(after) = IF goes THEN Continued(Last(old), new) ELSE new
    <3>1. CASE goes
      <4> DEFINE x == Last(old)
                 f == Front(old)
                 y == Continued(x, new)
      <4>1. x \in T /\ f \in Seq(T)
        BY <2>2, <3>1, LastFront
      <4>2. Ends(c, x)
        BY <1>2, <2>1, <3>1 DEF Ends
      <4>3. y \in T
        BY <3>1, <4>1, <4>2
      <4>4. after = Append(f, y)
        BY <3>1
      <4> HIDE DEF y, f, after
      <4>5. /\ Append(f, y) \in Seq(T) /\ Append(f, y) # <<>>
            /\ Len(Append(f, y)) = Len(f) + 1 /\ Append(f, y)[Len(f) + 1] = y
        BY <4>1, <4>3
      <4>6. Last(Append(f, y)) = y
        BY <4>5 DEF Last
      <4> QED
        BY <3>1, <4>4, <4>5, <4>6 DEF y
    <3>2. CASE ~goes
      <4> DEFINE b == m.content
      <4>1. after = old \o b
        BY <3>2
      <4> HIDE DEF b, goes, after, old
      <4>2. b \in Seq(T) /\ Len(b) = 1 /\ b[1] = new
        BY <1>a DEF b
      <4>3. old \o b \in Seq(T) /\ old \o b # <<>> /\ Last(old \o b) = new
        BY <2>2, <4>2, ConcatOne
      <4> QED
        BY <3>2, <4>1, <4>3
    <3> QED
      BY <3>1, <3>2
  <2> HIDE DEF after
  <2>5. n \in Made(T) /\ n.content = after
    BY <2>1, <2>4 DEF Made
  <2> HIDE DEF n
  <2>6. u \in Seq(Made(T)) /\ Last(u) = n /\ u # <<>>
    <3>1. u \in Seq(Made(T)) /\ Len(u) = L
      BY <2>1, <2>5, ExceptSeq
    <3>2. u[L] = n /\ L # 0
      BY <2>1
    <3> HIDE DEF u
    <3> QED
      BY <3>1, <3>2 DEF Last
  <2> HIDE DEF p, u
  <2>7. ASSUME NEW y, Ends(p, y)
        PROVE  y = new \/ \E x \in T : Ends(c, x) /\ Continues(x, new) /\ y = Continued(x, new)
    <3>1. y = Last(after)
      BY <2>3, <2>5, <2>6, <2>7 DEF Ends
    <3>2. CASE goes
      <4>1. Last(old) \in T
        BY <2>2, <3>2, LastFront
      <4>2. Ends(c, Last(old))
        BY <1>2, <2>1, <3>2 DEF Ends
      <4> QED
        BY <2>4, <3>1, <3>2, <4>1, <4>2
    <3>3. CASE ~goes
      BY <2>4, <3>1, <3>3
    <3> QED
      BY <3>2, <3>3
  <2> QED
    BY <2>3, <2>6, <2>7 DEF p
<1> QED
  BY <1>1, <1>2

\* An item goes on as an item of its kind.
LEMMA ContinuedTyped ==
    ASSUME NEW x \in Items, NEW new \in Items, Continues(x, new)
    PROVE  /\ Continued(x, new) \in Items
           /\ x.kind = "text" => Continued(x, new).kind = "text"
           /\ x.kind = "thinking" =>
                 /\ new.kind = "thinking"
                 /\ SameBlock(x, new)
                 /\ Continued(x, new).of = x.of \cup new.of
                 /\ Continued(x, new).signature =
                       IF new.signature = Unsigned THEN x.signature ELSE new.signature
           /\ x.kind \in {"text", "thinking"}
<1>1. CASE IsText(x)
  <2>1. IsText(new)
    BY <1>1 DEF Continues, IsText
  <2>2. Continued(x, new) \in Texts
    BY <1>1, <2>1, ItemKinds, ConcatTyped DEF Continued, IsText
  <2>3. Continued(x, new).kind = "text" /\ Continued(x, new) \in Items
    BY <2>2 DEF Texts, Items
  <2> QED
    BY <1>1, <2>3 DEF IsText
<1>2. CASE ~IsText(x)
  <2>1. x.kind = "thinking" /\ new.kind = "thinking" /\ SameBlock(x, new)
    BY <1>2 DEF Continues
  <2>2. x \in Thoughts /\ new \in Thoughts
    BY <2>1, ItemKinds
  <2> DEFINE sig == IF new.signature = Unsigned THEN x.signature ELSE new.signature
             y == [x EXCEPT !.of = x.of \cup new.of, !.signature = sig]
  <2>3. Continued(x, new) = y
    BY <1>2 DEF Continued
  <2>4. sig \in Nat /\ x.of \cup new.of \in SUBSET Nat
    BY <2>2 DEF Thoughts
  <2> HIDE DEF sig
  <2>5. y \in Thoughts /\ y.of = x.of \cup new.of /\ y.signature = sig
    BY <2>2, <2>4 DEF Thoughts
  <2> HIDE DEF y
  <2>6. y \in Items
    BY <2>5 DEF Items
  <2> QED
    BY <1>2, <2>1, <2>3, <2>5, <2>6 DEF IsText, sig
<1> QED
  BY <1>1, <1>2

-----------------------------------------------------------------------------
\* The items that are well signed when the provider is in block b: thinking is of
\* one block, at most b, and has no signature or that of the block.
WellSigned(b) ==
    {x \in Items : x.kind = "thinking" =>
                      \E k \in 1..b : x.of = {k} /\ x.signature \in {Unsigned, k}}

\* The inductive invariant.  Thinking without a signature that more may be added
\* to is of the block the provider is in, which it has not signed yet.
Signing ==
    /\ block \in Nat /\ signed \in BOOLEAN /\ pushes \in Nat
    /\ conversation \in Seq(Made(WellSigned(block)))
    /\ \A x : Ends(conversation, x) /\ x.kind = "thinking" /\ x.signature = Unsigned
              => x.of = {block} /\ ~signed

\* More is well signed in later blocks.
LEMMA WellSignedGrows ==
    ASSUME NEW b \in Nat, NEW d \in Nat, b <= d
    PROVE  /\ WellSigned(b) \subseteq WellSigned(d)
           /\ Seq(Made(WellSigned(b))) \subseteq Seq(Made(WellSigned(d)))
<1>1. \A k \in 1..b : k \in 1..d
  OBVIOUS
<1>2. WellSigned(b) \subseteq WellSigned(d)
  BY <1>1 DEF WellSigned
<1>3. Seq(WellSigned(b)) \subseteq Seq(WellSigned(d))
  BY <1>2
<1>4. Made(WellSigned(b)) \subseteq Made(WellSigned(d))
  BY <1>3 DEF Made
<1> QED
  BY <1>2, <1>4

\* What is well signed is a conversation.
LEMMA WellSignedMessages ==
    ASSUME NEW b \in Nat
    PROVE  Seq(Made(WellSigned(b))) \subseteq Seq(Messages)
<1>1. Seq(WellSigned(b)) \subseteq Seq(Items)
  BY DEF WellSigned
<1>2. Made(WellSigned(b)) \subseteq Messages
  BY <1>1 DEF Made, Messages
<1> QED
  BY <1>2

\* Initially nothing has been pushed.
LEMMA SigningInit == Init => Signing
<1> SUFFICES ASSUME Init PROVE Signing
  OBVIOUS
<1>1. conversation = <<>> /\ block = 0 /\ pushes = 0 /\ signed = TRUE
  BY DEF Init
<1>2. <<>> \in Seq(Made(WellSigned(0)))
  OBVIOUS
<1>3. \A x : ~Ends(conversation, x)
  BY <1>1 DEF Ends
<1> QED
  BY <1>1, <1>2, <1>3 DEF Signing

\* The message that is pushed.
LEMMA PushedIs ==
    ASSUME Signing, NEW T, NEW role \in Roles, NEW visible \in BOOLEAN,
           NEW item \in T, PushItem(role, visible, item)
    PROVE  /\ pushes' \in Nat
           /\ \E m \in Made(T) : /\ m.content = <<item>>
                                 /\ conversation' = Push(conversation, m)
<1>1. pushes \in Nat /\ conversation \in Seq(Made(WellSigned(block)))
  BY DEF Signing
<1>2. PICK id \in {pushes + 1} \cup {conversation[i].id : i \in DOMAIN conversation} :
         conversation' = Push(conversation,
            [id |-> id, role |-> role, visible |-> visible, content |-> <<item>>])
  BY DEF PushItem
<1>3. id \in Nat
  <2>1. CASE id = pushes + 1
    BY <1>1, <2>1
  <2>2. CASE id # pushes + 1
    <3>1. PICK i \in DOMAIN conversation : id = conversation[i].id
      BY <1>2, <2>2
    <3>2. conversation[i] \in Made(WellSigned(block))
      BY <1>1, <3>1
    <3> QED
      BY <3>1, <3>2 DEF Made
  <2> QED
    BY <2>1, <2>2
<1> DEFINE content == <<item>>
           m == [id |-> id, role |-> role, visible |-> visible, content |-> content]
<1>4. content \in Seq(T)
  OBVIOUS
<1> HIDE DEF content
<1>5. m \in Made(T) /\ m.content = content
  BY <1>3, <1>4 DEF Made
<1>6. conversation' = Push(conversation, m)
  BY <1>2 DEF content
<1> HIDE DEF m
<1>7. pushes' \in Nat
  BY <1>1 DEF PushItem
<1> QED
  BY <1>5, <1>6, <1>7 DEF content

\* What is said, but for thinking, leaves signatures as they are.
LEMMA SigningSay ==
    ASSUME Signing, Say
    PROVE  Signing'
<1>1. PICK d \in Deltas : PushItem(d.role, d.visible, d.item)
  BY DEF Say
<1>2. block' = block /\ signed' = signed
  BY DEF Say
<1> DEFINE T == WellSigned(block)
           item == d.item
<1>3. /\ block \in Nat /\ signed \in BOOLEAN
      /\ conversation \in Seq(Made(T))
      /\ \A x : Ends(conversation, x) /\ x.kind = "thinking" /\ x.signature = Unsigned
                => x.of = {block} /\ ~signed
  BY DEF Signing
<1>4. /\ d.role \in Roles /\ d.visible \in BOOLEAN
      /\ item \in Texts \cup Calls \cup Responses
  BY ConversationAssumption
<1>5. item \in Items /\ item.kind # "thinking"
  BY <1>4 DEF Items, Texts, Calls, Responses
<1>6. item \in T
  BY <1>5 DEF WellSigned
<1>7. pushes' \in Nat /\ \E m \in Made(T) : /\ m.content = <<item>>
                                            /\ conversation' = Push(conversation, m)
  BY <1>1, <1>4, <1>6, PushedIs, ZenonT(30)
<1>8. PICK m \in Made(T) : m.content = <<item>> /\ conversation' = Push(conversation, m)
  BY <1>7
<1> HIDE DEF item
<1>9. ASSUME NEW x \in T, Continues(x, item)
      PROVE  Continued(x, item) \in T /\ Continued(x, item).kind # "thinking"
  <2>1. x \in Items
    BY DEF WellSigned
  <2>2. Continued(x, item) \in Items /\ Continued(x, item).kind = "text"
    BY <1>5, <1>9, <2>1, ContinuedTyped
  <2> QED
    BY <2>2 DEF WellSigned
<1> HIDE DEF T
<1>10. /\ Push(conversation, m) \in Seq(Made(T))
       /\ \A y : Ends(Push(conversation, m), y) =>
             \/ y = item
             \/ \E x \in T : /\ Ends(conversation, x) /\ Continues(x, item)
                             /\ y = Continued(x, item)
  BY <1>3, <1>6, <1>8, <1>9, PushIs
<1>11. \A y : Ends(Push(conversation, m), y) => y.kind # "thinking"
  BY <1>5, <1>9, <1>10
<1>a. conversation' \in Seq(Made(T)) /\ \A y : Ends(conversation', y) => y.kind # "thinking"
  BY <1>8, <1>10, <1>11
<1> QED
  BY <1>2, <1>3, <1>7, <1>a DEF Signing, T

\* Thinking goes on with thinking of its block, or begins anew.
LEMMA SigningThink ==
    ASSUME Signing, Think
    PROVE  Signing'
<1>1. PICK b \in {block, block + 1}, sig \in {Unsigned, block, block + 1} :
         /\ b \in 1..MaxBlocks
         /\ b = block => ~signed \/ sig # Unsigned
         /\ b = block + 1 => signed
         /\ sig \in {Unsigned, b}
         /\ PushItem("assistant", TRUE, Thinking(b, sig))
         /\ block' = b
         /\ signed' = (sig = b \/ (b = block /\ signed))
  BY DEF Think
<1> DEFINE T == WellSigned(b)
           item == Thinking(b, sig)
<1>3. /\ block \in Nat /\ signed \in BOOLEAN
      /\ conversation \in Seq(Made(WellSigned(block)))
      /\ \A x : Ends(conversation, x) /\ x.kind = "thinking" /\ x.signature = Unsigned
                => x.of = {block} /\ ~signed
  BY DEF Signing
<1>4. b \in Nat \ {0} /\ block <= b /\ b \in 1..b /\ sig \in Nat
  BY <1>1, <1>3 DEF Unsigned
<1>5. WellSigned(block) \subseteq T /\ conversation \in Seq(Made(T))
  BY <1>3, <1>4, WellSignedGrows
<1>6. /\ item \in Items /\ item.kind = "thinking" /\ item.of = {b}
      /\ item.signature = sig
  BY <1>4 DEF Thinking, Items, Thoughts
<1>7. item \in T
  BY <1>1, <1>4, <1>6 DEF WellSigned
<1>8. pushes' \in Nat /\ \E m \in Made(T) : /\ m.content = <<item>>
                                            /\ conversation' = Push(conversation, m)
  <2>1. "assistant" \in Roles /\ TRUE \in BOOLEAN
    BY DEF Roles
  <2> HIDE DEF T, item
  <2>2. PushItem("assistant", TRUE, item)
    BY <1>1 DEF item
  <2> QED
    BY <1>7, <2>1, <2>2, PushedIs
<1>9. PICK m \in Made(T) : m.content = <<item>> /\ conversation' = Push(conversation, m)
  BY <1>8
<1> HIDE DEF item, T
<1>10. ASSUME NEW x \in T, Ends(conversation, x), Continues(x, item)
       PROVE  /\ Continued(x, item) \in T
              /\ /\ Continued(x, item).kind = "thinking"
                 /\ Continued(x, item).signature = Unsigned
                 => sig = Unsigned /\ b = block /\ ~signed
              /\ Continued(x, item).of = {b}
  <2> DEFINE y == Continued(x, item)
  <2>1. x \in Items /\ (x.kind = "thinking" =>
           \E k \in 1..b : x.of = {k} /\ x.signature \in {Unsigned, k})
    BY DEF WellSigned, T
  <2>2. x.kind = "thinking"
    BY <1>6, <1>10 DEF Continues, IsText
  <2>3. /\ y \in Items
        /\ SameBlock(x, item)
        /\ y.of = x.of \cup {b}
        /\ y.signature = IF sig = Unsigned THEN x.signature ELSE sig
    BY <1>6, <1>10, <2>1, <2>2, ContinuedTyped
  <2>4. x.signature \in {Unsigned, sig}
    BY <1>6, <2>3 DEF SameBlock
  <2> HIDE DEF y
  <2>5. CASE x.signature = Unsigned
    <3>1. x.of = {block} /\ ~signed
      BY <1>3, <1>10, <2>2, <2>5
    <3>2. b = block
      BY <1>1, <3>1
    <3>3. y.of = {b} /\ y.signature \in {Unsigned, b}
      BY <1>1, <2>3, <2>5, <3>1, <3>2
    <3>4. y \in T
      BY <1>4, <2>3, <3>3 DEF WellSigned, T
    <3>5. y.signature = Unsigned => sig = Unsigned
      BY <2>3, <2>5
    <3> QED
      BY <3>1, <3>2, <3>3, <3>4, <3>5 DEF y
  <2>6. CASE x.signature # Unsigned
    <3>1. x.signature = sig /\ sig = b
      BY <1>1, <2>4, <2>6
    <3>2. PICK k \in 1..b : x.of = {k} /\ x.signature \in {Unsigned, k}
      BY <2>1, <2>2
    <3>3. x.of = {b}
      BY <2>6, <3>1, <3>2
    <3>4. y.of = {b} /\ y.signature = b /\ b # Unsigned
      BY <2>3, <2>6, <3>1, <3>3
    <3>5. y \in T
      BY <1>4, <2>3, <3>4 DEF WellSigned, T
    <3> QED
      BY <3>4, <3>5 DEF y
  <2> QED
    BY <2>5, <2>6
<1>11. /\ Push(conversation, m) \in Seq(Made(T))
       /\ \A y : Ends(Push(conversation, m), y) =>
             \/ y = item
             \/ \E x \in T : /\ Ends(conversation, x) /\ Continues(x, item)
                             /\ y = Continued(x, item)
  BY <1>5, <1>7, <1>9, <1>10, PushIs
<1>12. ASSUME NEW y, Ends(Push(conversation, m), y), y.kind = "thinking",
              y.signature = Unsigned
       PROVE  y.of = {b} /\ ~signed'
  <2>1. CASE y = item
    <3>1. sig = Unsigned /\ y.of = {b}
      BY <1>6, <1>12, <2>1
    <3>2. ~(b = block /\ signed)
      BY <1>1, <3>1
    <3>3. sig # b
      BY <1>4, <3>1 DEF Unsigned
    <3> QED
      BY <1>1, <3>1, <3>2, <3>3
  <2>2. CASE y # item
    <3>1. PICK x \in T : /\ Ends(conversation, x) /\ Continues(x, item)
                         /\ y = Continued(x, item)
      BY <1>11, <1>12, <2>2
    <3>2. y.of = {b} /\ sig = Unsigned /\ b = block /\ ~signed
      BY <1>10, <1>12, <3>1
    <3>3. sig # b
      BY <1>4, <3>2 DEF Unsigned
    <3> QED
      BY <1>1, <3>2, <3>3
  <2> QED
    BY <2>1, <2>2
<1>13. /\ conversation' \in Seq(Made(WellSigned(b)))
       /\ \A y : Ends(conversation', y) /\ y.kind = "thinking" /\ y.signature = Unsigned
                 => y.of = {b} /\ ~signed'
  BY <1>9, <1>11, <1>12 DEF T
<1>14. block' = b /\ b \in Nat /\ signed' \in BOOLEAN
  BY <1>1, <1>4
<1> QED
  BY <1>8, <1>13, <1>14 DEF Signing

\* The invariant is inductive.
LEMMA SigningNext == Signing /\ [Next]_vars => Signing'
<1> SUFFICES ASSUME Signing, [Next]_vars
             PROVE  Signing'
  OBVIOUS
<1>1. CASE Say
  BY <1>1, SigningSay
<1>2. CASE Think
  BY <1>2, SigningThink
<1>3. CASE UNCHANGED vars
  BY <1>3 DEF vars, Signing, Ends
<1> QED
  BY <1>1, <1>2, <1>3 DEF Next

\* The signature of a block of thinking stands for that block's text, in whatever
\* pieces the provider sent it and whatever was said in between.
THEOREM SignaturesFit == Spec => []SignatureFitsBlock
<1>1. Signing => SignatureFitsBlock
  <2> SUFFICES ASSUME Signing, NEW i \in DOMAIN conversation,
                      NEW k \in DOMAIN conversation[i].content,
                      conversation[i].content[k].kind = "thinking"
               PROVE  LET item == conversation[i].content[k]
                      IN  /\ Cardinality(item.of) = 1
                          /\ item.signature # Unsigned => item.of = {item.signature}
    BY DEF SignatureFitsBlock
  <2> DEFINE item == conversation[i].content[k]
             T == WellSigned(block)
  <2>1. conversation \in Seq(Made(T))
    BY DEF Signing
  <2>2. conversation[i] \in Made(T)
    BY <2>1
  <2>3. conversation[i].content \in Seq(T)
    BY <2>2 DEF Made
  <2>4. item \in T
    BY <2>3
  <2> HIDE DEF item
  <2>5. item.kind = "thinking"
    BY DEF item
  <2>6. PICK b \in 1..block : item.of = {b} /\ item.signature \in {Unsigned, b}
    BY <2>4, <2>5 DEF WellSigned
  <2>7. Cardinality({b}) = 1
    BY FS_Singleton
  <2> QED
    BY <2>6, <2>7 DEF item
<1> QED
  BY <1>1, SigningInit, SigningNext, PTL DEF Spec

-----------------------------------------------------------------------------
(*****************************************************************************)
(* What the repair keeps.  First, the words of users.                      *)
(*****************************************************************************)

\* it counts the words of the first n items of content, for each n.
CountAlong(it, content) ==
    /\ it \in [0..Len(content) -> Nat]
    /\ it[0] = 0
    /\ \A n \in 1..Len(content) : it[n] = CountItem(it[n - 1], content[n])
    /\ it[Len(content)] = WordsIn(content)

\* One more item is counted.
LEMMA CountItemTyped ==
    ASSUME NEW n \in Nat, NEW item \in Items
    PROVE  CountItem(n, item) \in Nat
<1>1. IsText(item) => item.words \in Nat
  BY ItemKinds DEF IsText, Texts
<1> QED
  BY <1>1 DEF CountItem

\* The words of a content, item by item.
LEMMA CountFold ==
    ASSUME NEW content \in Seq(Items)
    PROVE  \E it : CountAlong(it, content)
<1> DEFINE f == [p \in Nat \X Items |-> CountItem(p[1], p[2])]
           Is(g) == g = [D \in SUBSET DOMAIN content |->
                           IF D = {} THEN 0
                           ELSE CountItem(g[D \ {Max(D)}], content[Max(D)])]
<1>0. DOMAIN content = 1..Len(content) /\ 0 \in Nat
  OBVIOUS
<1>1. f \in [Nat \X Items -> Nat]
  BY CountItemTyped
<1>2. ASSUME NEW a \in Nat, NEW x \in Items
      PROVE  f[<<a, x>>] = CountItem(a, x)
  OBVIOUS
<1> HIDE DEF f
<1>3. PICK h : FoldsSets(h, f, 0, content, Nat, Items)
  BY <1>0, <1>1, FoldExists, Zenon
<1>4. Is(h)
  BY <1>0, <1>2, <1>3 DEF FoldsSets
<1>5. PICK g : Is(g) /\ WordsIn(content) = g[DOMAIN content]
  <2>1. WordsIn(content) = (CHOOSE g : Is(g))[DOMAIN content]
    BY Zenon DEF WordsIn, FoldLeft, MapThenFoldSet
  <2> HIDE DEF Is
  <2> QED
    BY <1>4, <2>1, Zenon
<1>6. FoldsWhereTyped(g, f, 0, content, Nat)
  BY <1>0, <1>2, <1>3, <1>5 DEF FoldsSets, FoldsWhereTyped
<1>7. PICK it : FoldsAlong(it, f, 0, content, g[1..Len(content)], Nat, Items)
  BY <1>0, <1>1, <1>6, FoldSteps, Zenon
<1>8. /\ it \in [0..Len(content) -> Nat]
      /\ it[0] = 0
      /\ \A n \in 1..Len(content) : it[n] = CountItem(it[n - 1], content[n])
      /\ WordsIn(content) = it[Len(content)]
  BY <1>0, <1>2, <1>5, <1>7 DEF FoldsAlong
<1> QED
  BY <1>8 DEF CountAlong

\* The words of a content are a number.
LEMMA WordsInTyped ==
    ASSUME NEW content \in Seq(Items)
    PROVE  WordsIn(content) \in Nat
<1>1. PICK it : CountAlong(it, content)
  BY CountFold
<1>2. Len(content) \in 0..Len(content)
  OBVIOUS
<1> QED
  BY <1>1, <1>2 DEF CountAlong

\* Nothing has no words.
LEMMA CountEmpty == WordsIn(<<>>) = 0
<1>1. <<>> \in Seq(Items) /\ Len(<<>>) = 0
  OBVIOUS
<1> DEFINE s == <<>>
<1> HIDE DEF s
<1>2. s \in Seq(Items) /\ Len(s) = 0
  BY <1>1 DEF s
<1>3. PICK it : CountAlong(it, s)
  BY <1>2, CountFold
<1> QED
  BY <1>2, <1>3 DEF CountAlong, s

\* The words of two contents put together.
LEMMA CountConcat ==
    ASSUME NEW a \in Seq(Items), NEW b \in Seq(Items)
    PROVE  WordsIn(a \o b) = WordsIn(a) + WordsIn(b)
<1> DEFINE u == a \o b
           K == Len(a)
           L == Len(b)
<1>0. /\ u \in Seq(Items) /\ Len(u) = K + L /\ K \in Nat /\ L \in Nat
      /\ \A n \in 1..(K + L) : u[n] = IF n <= K THEN a[n] ELSE b[n - K]
  BY ConcatIs, Zenon
<1> HIDE DEF u
<1>1. PICK ia : CountAlong(ia, a)
  BY CountFold
<1>2. PICK ib : CountAlong(ib, b)
  BY CountFold
<1>3. PICK iu : CountAlong(iu, u)
  BY <1>0, CountFold
<1>a. /\ ia[0] = 0 /\ ia[K] = WordsIn(a)
      /\ \A n \in 1..K : ia[n] = CountItem(ia[n - 1], a[n])
      /\ \A n \in 0..K : ia[n] \in Nat
  BY <1>1 DEF CountAlong
<1>b. /\ ib[0] = 0 /\ ib[L] = WordsIn(b)
      /\ \A n \in 1..L : ib[n] = CountItem(ib[n - 1], b[n])
      /\ \A n \in 0..L : ib[n] \in Nat
  BY <1>2 DEF CountAlong
<1>c. /\ iu[0] = 0 /\ iu[K + L] = WordsIn(u)
      /\ \A n \in 1..(K + L) : iu[n] = CountItem(iu[n - 1], u[n])
  BY <1>0, <1>3 DEF CountAlong
<1>d. \A n \in 1..L : b[n] \in Items
  OBVIOUS
<1> HIDE DEF K, L
<1> DEFINE T == {n \in 0..K : iu[n] = ia[n]}
<1>4. 0 \in T
  BY <1>0, <1>a, <1>c
<1>5. ASSUME NEW n \in 1..K, n - 1 \in T
      PROVE  n \in T
  <2>1. n \in 1..(K + L) /\ n <= K /\ n \in 0..K
    BY <1>0
  <2>2. u[n] = a[n]
    BY <1>0, <2>1
  <2>3. iu[n] = ia[n]
    BY <1>5, <1>a, <1>c, <2>1, <2>2
  <2> QED
    BY <2>1, <2>3
<1>6. K \in T
  <2> HIDE DEF T
  <2>1. \A n \in 0..K : n \in T
    BY <1>0, <1>4, <1>5, Along
  <2> QED
    BY <1>0, <2>1
<1> DEFINE U == {n \in 0..L : iu[K + n] = ia[K] + ib[n]}
<1>7. 0 \in U
  <2>1. K + 0 = K /\ ia[K] + 0 = ia[K] /\ 0 \in 0..L
    BY <1>0, <1>a
  <2> QED
    BY <1>6, <1>b, <2>1
<1>8. ASSUME NEW n \in 1..L, n - 1 \in U
      PROVE  n \in U
  <2>1. /\ K + n \in 1..(K + L) /\ ~(K + n <= K) /\ K + n - K = n
        /\ K + n - 1 = K + (n - 1) /\ n \in 0..L /\ n - 1 \in 0..L /\ K \in 0..K
    BY <1>0
  <2>2. u[K + n] = b[n] /\ b[n] \in Items
    BY <1>0, <1>d, <2>1
  <2>3. iu[K + n] = CountItem(ia[K] + ib[n - 1], b[n])
    BY <1>8, <1>c, <2>1, <2>2
  <2>4. ib[n] = CountItem(ib[n - 1], b[n])
    BY <1>b
  <2>5. ib[n - 1] \in Nat /\ ia[K] \in Nat
    BY <1>a, <1>b, <2>1
  <2>6. IsText(b[n]) => b[n].words \in Nat
    BY <2>2, ItemKinds DEF IsText, Texts
  <2>7. iu[K + n] = ia[K] + ib[n]
    BY <2>3, <2>4, <2>5, <2>6 DEF CountItem
  <2> QED
    BY <2>1, <2>7
<1>9. L \in U
  <2> HIDE DEF U
  <2>1. \A n \in 0..L : n \in U
    BY <1>0, <1>7, <1>8, Along
  <2> QED
    BY <1>0, <2>1
<1> QED
  BY <1>9, <1>a, <1>b, <1>c DEF u

\* The words of a content with one more item.
LEMMA CountAppend ==
    ASSUME NEW a \in Seq(Items), NEW x \in Items
    PROVE  WordsIn(Append(a, x)) = CountItem(WordsIn(a), x)
<1> DEFINE b == <<x>>
<1>1. b \in Seq(Items) /\ Len(b) = 1 /\ b[1] = x
  OBVIOUS
<1>2. Append(a, x) = a \o b
  OBVIOUS
<1> HIDE DEF b
<1>3. PICK ib : CountAlong(ib, b)
  BY <1>1, CountFold
<1>4. 1 \in 1..Len(b) /\ 1 - 1 = 0
  BY <1>1
<1>5. WordsIn(b) = CountItem(0, x)
  BY <1>1, <1>3, <1>4 DEF CountAlong
<1>6. WordsIn(a \o b) = WordsIn(a) + WordsIn(b)
  BY <1>1, CountConcat
<1>7. WordsIn(a) \in Nat
  BY WordsInTyped
<1>8. IsText(x) => x.words \in Nat
  BY ItemKinds DEF IsText, Texts
<1>9. WordsIn(a) + CountItem(0, x) = CountItem(WordsIn(a), x)
  BY <1>7, <1>8 DEF CountItem
<1> QED
  BY <1>2, <1>5, <1>6, <1>9

\* it counts the words of the users among the first n messages, for each n.
WordsAlong(it, ms) ==
    /\ it \in [0..Len(ms) -> Nat]
    /\ it[0] = 0
    /\ \A n \in 1..Len(ms) : it[n] = CountMessage(it[n - 1], ms[n])
    /\ it[Len(ms)] = Words(ms)

\* One more message is counted.
LEMMA CountMessageTyped ==
    ASSUME NEW n \in Nat, NEW m \in Seen(Items)
    PROVE  CountMessage(n, m) \in Nat
<1>1. m.content \in Seq(Items)
  BY DEF Seen
<1>2. WordsIn(m.content) \in Nat
  BY <1>1, WordsInTyped
<1> QED
  BY <1>2 DEF CountMessage

\* The words of users, message by message.
LEMMA WordsFold ==
    ASSUME NEW ms \in Seq(Seen(Items))
    PROVE  \E it : WordsAlong(it, ms)
<1> DEFINE E == Seen(Items)
           f == [p \in Nat \X E |-> CountMessage(p[1], p[2])]
           Is(g) == g = [D \in SUBSET DOMAIN ms |->
                           IF D = {} THEN 0
                           ELSE CountMessage(g[D \ {Max(D)}], ms[Max(D)])]
<1>0. DOMAIN ms = 1..Len(ms) /\ 0 \in Nat /\ ms \in Seq(E)
  OBVIOUS
<1>a. ASSUME NEW a \in Nat, NEW x \in E
      PROVE  CountMessage(a, x) \in Nat
  BY CountMessageTyped
<1> HIDE DEF E
<1>1. f \in [Nat \X E -> Nat]
  BY <1>a
<1>2. ASSUME NEW a \in Nat, NEW x \in E
      PROVE  f[<<a, x>>] = CountMessage(a, x)
  OBVIOUS
<1> HIDE DEF f
<1>3. PICK h : FoldsSets(h, f, 0, ms, Nat, E)
  BY <1>0, <1>1, FoldExists, Zenon
<1>4. Is(h)
  BY <1>0, <1>2, <1>3 DEF FoldsSets
<1>5. PICK g : Is(g) /\ Words(ms) = g[DOMAIN ms]
  <2>1. Words(ms) = (CHOOSE g : Is(g))[DOMAIN ms]
    BY Zenon DEF Words, FoldLeft, MapThenFoldSet
  <2> HIDE DEF Is
  <2> QED
    BY <1>4, <2>1, Zenon
<1>6. FoldsWhereTyped(g, f, 0, ms, Nat)
  BY <1>0, <1>2, <1>3, <1>5 DEF FoldsSets, FoldsWhereTyped
<1>7. PICK it : FoldsAlong(it, f, 0, ms, g[1..Len(ms)], Nat, E)
  BY <1>0, <1>1, <1>6, FoldSteps, Zenon
<1>8. /\ it \in [0..Len(ms) -> Nat]
      /\ it[0] = 0
      /\ \A n \in 1..Len(ms) : it[n] = CountMessage(it[n - 1], ms[n])
      /\ Words(ms) = it[Len(ms)]
  BY <1>0, <1>2, <1>5, <1>7 DEF FoldsAlong
<1> QED
  BY <1>8 DEF WordsAlong

\* The words of users are a number.
LEMMA WordsTyped ==
    ASSUME NEW ms \in Seq(Seen(Items))
    PROVE  Words(ms) \in Nat
<1>1. PICK it : WordsAlong(it, ms)
  BY WordsFold
<1>2. Len(ms) \in 0..Len(ms)
  OBVIOUS
<1> QED
  BY <1>1, <1>2 DEF WordsAlong

\* Nobody has said anything.
LEMMA WordsEmpty == Words(<<>>) = 0
<1>1. <<>> \in Seq(Seen(Items)) /\ Len(<<>>) = 0
  OBVIOUS
<1> DEFINE s == <<>>
<1> HIDE DEF s
<1>2. s \in Seq(Seen(Items)) /\ Len(s) = 0
  BY <1>1 DEF s
<1>3. PICK it : WordsAlong(it, s)
  BY <1>2, WordsFold
<1> QED
  BY <1>2, <1>3 DEF WordsAlong, s

\* The users of b say as many words as those of a, message by message.
AsManyWords(a, b) ==
    /\ Len(a) = Len(b)
    /\ \A n \in 1..Len(a) :
          /\ a[n].role = b[n].role
          /\ a[n].role = "user" => WordsIn(a[n].content) = WordsIn(b[n].content)

\* What changes no message's words changes nothing.
LEMMA WordsSame ==
    ASSUME NEW a \in Seq(Seen(Items)), NEW b \in Seq(Seen(Items)), AsManyWords(a, b)
    PROVE  Words(a) = Words(b)
<1>1. PICK ia : WordsAlong(ia, a)
  BY WordsFold
<1>2. PICK ib : WordsAlong(ib, b)
  BY WordsFold
<1> DEFINE N == Len(a)
<1>0. N \in Nat /\ Len(b) = N
  BY DEF AsManyWords
<1>a. /\ ia[0] = 0 /\ ia[N] = Words(a)
      /\ \A n \in 1..N : ia[n] = CountMessage(ia[n - 1], a[n])
  BY <1>1 DEF WordsAlong
<1>b. /\ ib[0] = 0 /\ ib[N] = Words(b)
      /\ \A n \in 1..N : ib[n] = CountMessage(ib[n - 1], b[n])
  BY <1>0, <1>2 DEF WordsAlong
<1>c. \A n \in 1..N :
          /\ a[n].role = b[n].role
          /\ a[n].role = "user" => WordsIn(a[n].content) = WordsIn(b[n].content)
  BY DEF AsManyWords
<1> HIDE DEF N
<1> DEFINE T == {n \in 0..N : ia[n] = ib[n]}
<1>3. 0 \in T
  BY <1>0, <1>a, <1>b
<1>4. ASSUME NEW n \in 1..N, n - 1 \in T
      PROVE  n \in T
  <2>1. CountMessage(ia[n - 1], a[n]) = CountMessage(ib[n - 1], b[n])
    BY <1>4, <1>c DEF CountMessage
  <2>2. n \in 0..N
    BY <1>0
  <2> QED
    BY <1>a, <1>b, <2>1, <2>2
<1>5. N \in T
  <2> HIDE DEF T
  <2>1. \A n \in 0..N : n \in T
    BY <1>0, <1>3, <1>4, Along
  <2> QED
    BY <1>0, <2>1
<1> QED
  BY <1>5, <1>a, <1>b

\* The words of users with one more message.
LEMMA WordsAppend ==
    ASSUME NEW a \in Seq(Seen(Items)), NEW m \in Seen(Items)
    PROVE  Words(Append(a, m)) = CountMessage(Words(a), m)
<1> DEFINE u == Append(a, m)
           N == Len(a)
<1>0. /\ u \in Seq(Seen(Items)) /\ Len(u) = N + 1 /\ u[N + 1] = m
      /\ \A n \in 1..N : u[n] = a[n]
      /\ N \in Nat
  OBVIOUS
<1> HIDE DEF u
<1>1. PICK ia : WordsAlong(ia, a)
  BY WordsFold
<1>2. PICK iu : WordsAlong(iu, u)
  BY <1>0, WordsFold
<1>a. /\ ia[0] = 0 /\ ia[N] = Words(a)
      /\ \A n \in 1..N : ia[n] = CountMessage(ia[n - 1], a[n])
  BY <1>1 DEF WordsAlong
<1>b. /\ iu[0] = 0 /\ iu[N + 1] = Words(u)
      /\ \A n \in 1..(N + 1) : iu[n] = CountMessage(iu[n - 1], u[n])
  BY <1>0, <1>2 DEF WordsAlong
<1> HIDE DEF N
<1> DEFINE T == {n \in 0..N : iu[n] = ia[n]}
<1>3. 0 \in T
  BY <1>0, <1>a, <1>b
<1>4. ASSUME NEW n \in 1..N, n - 1 \in T
      PROVE  n \in T
  <2>1. n \in 1..(N + 1) /\ n \in 0..N /\ u[n] = a[n]
    BY <1>0
  <2>2. iu[n] = ia[n]
    BY <1>4, <1>a, <1>b, <2>1
  <2> QED
    BY <2>1, <2>2
<1>5. N \in T
  <2> HIDE DEF T
  <2>1. \A n \in 0..N : n \in T
    BY <1>0, <1>3, <1>4, Along
  <2> QED
    BY <1>0, <2>1
<1>6. N + 1 \in 1..(N + 1) /\ N + 1 - 1 = N
  BY <1>0
<1> QED
  BY <1>0, <1>5, <1>6, <1>a, <1>b DEF u

\* The words of users, last message apart.
LEMMA WordsLast ==
    ASSUME NEW ms \in Seq(Seen(Items)), ms # <<>>
    PROVE  Words(ms) = CountMessage(Words(Front(ms)), Last(ms))
<1>1. /\ Last(ms) \in Seen(Items) /\ Front(ms) \in Seq(Seen(Items))
      /\ Len(ms) \in Nat \ {0} /\ Len(Front(ms)) = Len(ms) - 1
      /\ \A n \in 1..(Len(ms) - 1) : Front(ms)[n] = ms[n]
      /\ Last(ms) = ms[Len(ms)]
  BY LastFront DEF Last
<1> DEFINE F == Front(ms)
           x == Last(ms)
<1> HIDE DEF F, x
<1>2. /\ x \in Seen(Items) /\ F \in Seq(Seen(Items))
      /\ Len(ms) \in Nat \ {0} /\ Len(F) = Len(ms) - 1
      /\ \A n \in 1..(Len(ms) - 1) : F[n] = ms[n]
      /\ x = ms[Len(ms)]
  BY <1>1 DEF F, x
<1>3. ms = Append(F, x)
  BY <1>2
<1>4. Words(Append(F, x)) = CountMessage(Words(F), x)
  BY <1>2, WordsAppend
<1> QED
  BY <1>3, <1>4 DEF F, x

-----------------------------------------------------------------------------
(*****************************************************************************)
(* Sweeping, message by message, and the words it leaves.                  *)
(*****************************************************************************)

\* pend[n] is what is pending after the first n messages.
Pends(pend, ms) ==
    /\ pend \in [0..Len(ms) -> SUBSET Ids]
    /\ pend[0] = {}
    /\ \A n \in 1..Len(ms) :
          pend[n] = SweepContent(ms[n].role, pend[n - 1], ms[n].content).pending

\* What the first sweep makes of a message.
FirstSweep(pending, m) ==
    [m EXCEPT !.content = SweepContent(m.role, pending, @).content]

\* What the sweeps make of each message.
SweptBy(pend, ms) ==
    \A n \in 1..Len(ms) :
        Swept(ms)[n] = DropPending(pend[Len(ms)], FirstSweep(pend[n - 1], ms[n]))

\* The sweeps, message by message.
LEMMA SweptEach ==
    ASSUME NEW J \in SUBSET Items, NEW ms \in Seq(Seen(J))
    PROVE  \E pend : Pends(pend, ms) /\ SweptBy(pend, ms)
<1>1. PICK it : SweepAlong(it, ms, J)
  BY SweepFold, Zenon
<1> DEFINE N == Len(ms)
           pend == [n \in 0..N |-> it[n].pending]
<1>0. N \in Nat
  OBVIOUS
<1>2. /\ it[0] = [messages |-> <<>>, pending |-> {}]
      /\ \A n \in 1..N :
            /\ it[n - 1] \in SweptUp(J)
            /\ ms[n] \in Seen(J)
            /\ it[n] = SweepMessage(it[n - 1], ms[n])
      /\ it[N] = SweepMessages(ms)
      /\ \A n \in 0..N : it[n] \in SweptUp(J)
  BY <1>1 DEF SweepAlong
<1>3. \A n \in 0..N : pend[n] = it[n].pending
  OBVIOUS
<1>4. pend \in [0..N -> SUBSET Ids]
  <2>1. \A n \in 0..N : it[n].pending \in SUBSET Ids
    BY <1>2 DEF SweptUp
  <2> QED
    BY <2>1
<1> HIDE DEF pend, N
<1>5. \A n \in 1..N : n - 1 \in 0..N /\ n \in 0..N
  BY <1>0
<1>6. ASSUME NEW n \in 1..N
      PROVE  /\ it[n].messages = Append(it[n - 1].messages,
                                        FirstSweep(pend[n - 1], ms[n]))
             /\ pend[n] = SweepContent(ms[n].role, pend[n - 1], ms[n].content).pending
  <2> DEFINE acc == it[n - 1]
             m == ms[n]
             new == SweepContent(m.role, acc.pending, m.content)
  <2>1. it[n] = SweepMessage(acc, m)
    BY <1>2
  <2>2. pend[n - 1] = acc.pending /\ pend[n] = it[n].pending
    BY <1>3, <1>5
  <2>3. SweepMessage(acc, m) =
           [messages |-> Append(acc.messages, [m EXCEPT !.content = new.content]),
            pending |-> new.pending]
    BY DEF SweepMessage
  <2> HIDE DEF acc, m, new
  <2>4. it[n].messages = Append(acc.messages, [m EXCEPT !.content = new.content])
        /\ it[n].pending = new.pending
    BY <2>1, <2>3
  <2>5. FirstSweep(acc.pending, m) = [m EXCEPT !.content = new.content]
    BY DEF FirstSweep, new
  <2> QED
    BY <2>2, <2>4, <2>5 DEF acc, m, new
<1> DEFINE T == {n \in 0..N :
                   /\ Len(it[n].messages) = n
                   /\ \A i \in 1..n :
                         it[n].messages[i] = FirstSweep(pend[i - 1], ms[i])}
<1>7. 0 \in T
  <2>1. it[0].messages = <<>> /\ Len(<<>>) = 0 /\ 1..0 = {} /\ 0 \in 0..N
    BY <1>0, <1>2
  <2> QED
    BY <2>1
<1>8. ASSUME NEW n \in 1..N, n - 1 \in T
      PROVE  n \in T
  <2> DEFINE old == it[n - 1].messages
             x == FirstSweep(pend[n - 1], ms[n])
  <2>1. /\ old \in Seq(Seen(J)) /\ Len(old) = n - 1
        /\ \A i \in 1..(n - 1) : old[i] = FirstSweep(pend[i - 1], ms[i])
    BY <1>2, <1>8 DEF SweptUp
  <2>2. it[n].messages = Append(old, x)
    BY <1>6
  <2>3. n \in Nat /\ n > 0 /\ n - 1 + 1 = n
    BY <1>0
  <2> HIDE DEF old
  <2> DEFINE y == x
  <2> HIDE DEF x
  <2>4. /\ Len(Append(old, x)) = n
        /\ Append(old, x)[n] = x
        /\ \A i \in 1..(n - 1) : Append(old, x)[i] = old[i]
    BY <2>1, <2>3
  <2>5. ASSUME NEW i \in 1..n
        PROVE  it[n].messages[i] = FirstSweep(pend[i - 1], ms[i])
    <3>1. CASE i = n
      BY <2>2, <2>4, <3>1 DEF x
    <3>2. CASE i # n
      <4>1. i \in 1..(n - 1)
        BY <2>3, <3>2
      <4> QED
        BY <2>1, <2>2, <2>4, <4>1
    <3> QED
      BY <3>1, <3>2
  <2> QED
    BY <1>5, <2>2, <2>4, <2>5
<1>9. N \in T
  <2> HIDE DEF T
  <2>1. \A n \in 0..N : n \in T
    BY <1>0, <1>7, <1>8, Along
  <2> QED
    BY <1>0, <2>1
<1> DEFINE s == SweepMessages(ms).messages
<1>10. /\ s \in Seq(Seen(J)) /\ Len(s) = N
       /\ \A i \in 1..N : s[i] = FirstSweep(pend[i - 1], ms[i])
  <2>1. N \in 0..N
    BY <1>0
  <2>2. it[N].messages \in Seq(Seen(J))
    BY <1>2, <2>1 DEF SweptUp
  <2> QED
    BY <1>2, <1>9, <2>2
<1>11. \A i \in 1..N : Swept(ms)[i] = DropPending(SweepMessages(ms).pending, s[i])
  <2>1. DOMAIN s = 1..N
    BY <1>10
  <2> QED
    BY <2>1 DEF Swept, Map
<1>12. SweepMessages(ms).pending = pend[N]
  <2>1. N \in 0..N
    BY <1>0
  <2> QED
    BY <1>2, <1>3, <2>1
<1> HIDE DEF s
<1>13. \A n \in 1..N : Swept(ms)[n] = DropPending(pend[N], FirstSweep(pend[n - 1], ms[n]))
  BY <1>10, <1>11, <1>12
<1>14. Pends(pend, ms)
  <2>1. pend[0] = {}
    <3>1. 0 \in 0..N
      BY <1>0
    <3> QED
      BY <1>2, <1>3, <3>1
  <2> QED
    BY <1>4, <1>6, <2>1 DEF Pends, N
<1>15. SweptBy(pend, ms)
  BY <1>13 DEF SweptBy, N
<1> QED
  BY <1>14, <1>15

\* What only leaves out what is no text leaves the words.
LEMMA AmongWords ==
    ASSUME NEW content \in Seq(Items), NEW S,
           \A n \in 1..Len(content) : IsText(content[n]) => content[n] \in S
    PROVE  WordsIn(Among(content, S)) = WordsIn(content)
<1>1. PICK it : AmongAlong(it, content, S, Items)
  BY AmongFold, Zenon
<1>2. PICK ic : CountAlong(ic, content)
  BY CountFold
<1> DEFINE N == Len(content)
<1>0. N \in Nat /\ \A n \in 1..N : n - 1 \in 0..N /\ n \in 0..N
  OBVIOUS
<1>3. /\ it[0] = <<>> /\ it[N] = Among(content, S)
      /\ \A n \in 1..N :
            it[n] = IF content[n] \in S THEN Append(it[n - 1], content[n])
                                        ELSE it[n - 1]
      /\ \A n \in 0..N : it[n] \in Seq(Items)
  BY <1>1 DEF AmongAlong
<1>4. /\ ic[0] = 0 /\ ic[N] = WordsIn(content)
      /\ \A n \in 1..N : ic[n] = CountItem(ic[n - 1], content[n])
  BY <1>2 DEF CountAlong
<1>5. \A n \in 1..N : content[n] \in Items
  OBVIOUS
<1> HIDE DEF N
<1> DEFINE T == {n \in 0..N : WordsIn(it[n]) = ic[n]}
<1>6. 0 \in T
  BY <1>0, <1>3, <1>4, CountEmpty
<1>7. ASSUME NEW n \in 1..N, n - 1 \in T
      PROVE  n \in T
  <2>1. WordsIn(it[n - 1]) = ic[n - 1] /\ it[n - 1] \in Seq(Items)
    BY <1>0, <1>3, <1>7
  <2>2. CASE content[n] \in S
    <3>1. it[n] = Append(it[n - 1], content[n])
      BY <1>3, <2>2
    <3>2. WordsIn(Append(it[n - 1], content[n])) = CountItem(WordsIn(it[n - 1]), content[n])
      BY <1>5, <2>1, CountAppend
    <3> QED
      BY <1>0, <1>4, <2>1, <3>1, <3>2
  <2>3. CASE content[n] \notin S
    <3>1. it[n] = it[n - 1] /\ ~IsText(content[n])
      BY <1>3, <2>3 DEF N
    <3>2. ic[n] = ic[n - 1]
      BY <1>4, <3>1 DEF CountItem
    <3> QED
      BY <1>0, <2>1, <3>1, <3>2
  <2> QED
    BY <2>2, <2>3
<1>8. N \in T
  <2> HIDE DEF T
  <2>1. \A n \in 0..N : n \in T
    BY <1>0, <1>6, <1>7, Along
  <2> QED
    BY <1>0, <2>1
<1> QED
  BY <1>3, <1>4, <1>8

\* Sweeping an item of a user counts it.
LEMMA SweepCounts ==
    ASSUME NEW acc \in Swiped(Items), NEW item \in Items
    PROVE  WordsIn(Sweep(acc, "user", item).content) = CountItem(WordsIn(acc.content), item)
<1>1. acc.content \in Seq(Items)
  BY DEF Swiped
<1>2. WordsIn(Append(acc.content, item)) = CountItem(WordsIn(acc.content), item)
  BY <1>1, CountAppend
<1>3. ~IsText(item) => CountItem(WordsIn(acc.content), item) = WordsIn(acc.content)
  BY DEF CountItem
<1>4. CASE item.kind \in Misplaced("user")
  <2>1. ~IsText(item) /\ Sweep(acc, "user", item) = acc
    BY <1>4 DEF Misplaced, IsText, Sweep
  <2> QED
    BY <1>3, <2>1
<1>5. CASE item.kind = "response" /\ item.kind \notin Misplaced("user")
  <2>1. ~IsText(item)
    BY <1>5 DEF IsText
  <2>2. \/ Sweep(acc, "user", item) = acc
        \/ Sweep(acc, "user", item).content = Append(acc.content, item)
    BY <1>5 DEF Sweep
  <2> QED
    BY <1>2, <1>3, <2>1, <2>2
<1>6. CASE item.kind # "response" /\ item.kind \notin Misplaced("user")
  <2>1. Sweep(acc, "user", item).content = Append(acc.content, item)
    BY <1>6 DEF Sweep
  <2> QED
    BY <1>2, <2>1
<1> QED
  BY <1>4, <1>5, <1>6

\* The first sweep leaves what users say.
LEMMA SweepWords ==
    ASSUME NEW content \in Seq(Items), NEW pending \in SUBSET Ids
    PROVE  WordsIn(SweepContent("user", pending, content).content) = WordsIn(content)
<1>a. Items \in SUBSET Items
  OBVIOUS
<1>1. PICK it : ContentAlong(it, "user", pending, content, Items)
  BY <1>a, SweepContentFold, Zenon
<1>2. PICK ic : CountAlong(ic, content)
  BY CountFold
<1> DEFINE N == Len(content)
<1>0. N \in Nat /\ \A n \in 1..N : n - 1 \in 0..N /\ n \in 0..N
  OBVIOUS
<1>3. /\ it[0] = [content |-> <<>>, pending |-> pending]
      /\ it[N] = SweepContent("user", pending, content)
      /\ \A n \in 1..N : /\ it[n - 1] \in Swiped(Items)
                         /\ content[n] \in Items
                         /\ it[n] = Sweep(it[n - 1], "user", content[n])
  BY <1>1 DEF ContentAlong
<1>4. /\ ic[0] = 0 /\ ic[N] = WordsIn(content)
      /\ \A n \in 1..N : ic[n] = CountItem(ic[n - 1], content[n])
  BY <1>2 DEF CountAlong
<1> HIDE DEF N
<1> DEFINE T == {n \in 0..N : WordsIn(it[n].content) = ic[n]}
<1>6. 0 \in T
  <2>1. it[0].content = <<>>
    BY <1>3
  <2> QED
    BY <1>0, <1>4, <2>1, CountEmpty
<1>7. ASSUME NEW n \in 1..N, n - 1 \in T
      PROVE  n \in T
  <2>1. WordsIn(it[n - 1].content) = ic[n - 1]
    BY <1>7
  <2>2. WordsIn(it[n].content) = CountItem(WordsIn(it[n - 1].content), content[n])
    BY <1>3, SweepCounts
  <2> QED
    BY <1>0, <1>4, <2>1, <2>2
<1>8. N \in T
  <2> HIDE DEF T
  <2>1. \A n \in 0..N : n \in T
    BY <1>0, <1>6, <1>7, Along
  <2> QED
    BY <1>0, <2>1
<1> QED
  BY <1>3, <1>4, <1>8

\* Both sweeps leave what users say.
LEMMA SweptWords ==
    ASSUME NEW ms \in Seq(Seen(Items))
    PROVE  Words(Swept(ms)) = Words(ms)
<1>a. Items \in SUBSET Items
  OBVIOUS
<1>1. PICK pend : Pends(pend, ms) /\ SweptBy(pend, ms)
  BY <1>a, SweptEach, Zenon
<1>2. Swept(ms) \in Seq(Seen(Items)) /\ Len(Swept(ms)) = Len(ms)
  BY <1>a, SweptIs
<1>3. ASSUME NEW n \in 1..Len(ms)
      PROVE  /\ Swept(ms)[n].role = ms[n].role
             /\ ms[n].role = "user"
                => WordsIn(Swept(ms)[n].content) = WordsIn(ms[n].content)
  <2> DEFINE m == ms[n]
             p == pend[n - 1]
             f == FirstSweep(p, m)
             final == pend[Len(ms)]
             c == f.content
             S == {item \in ToSet(c) : ~(item.kind = "request" /\ item.id \in final)}
  <2>1. m \in Seen(Items) /\ p \in SUBSET Ids
    <3>1. n - 1 \in 0..Len(ms)
      OBVIOUS
    <3> QED
      BY <1>1, <3>1 DEF Pends
  <2>2. Swept(ms)[n] = DropPending(final, f)
    BY <1>1 DEF SweptBy
  <2> HIDE DEF m, p, final
  <2>3. /\ m.content \in Seq(Items) /\ m.role \in Roles
        /\ f.role = m.role
        /\ c = SweepContent(m.role, p, m.content).content
    BY <2>1 DEF Seen, FirstSweep
  <2>4. SweepContent(m.role, p, m.content) \in Swiped(Items)
    BY <1>a, <2>1, <2>3, SweepContentTyped
  <2>5. c \in Seq(Items)
    BY <2>3, <2>4 DEF Swiped
  <2>6. f \in Seen(Items)
    BY <2>1, <2>3, <2>5 DEF Seen, FirstSweep
  <2>7. DropPending(final, f).role = f.role
        /\ DropPending(final, f).content = Among(c, S)
    BY <2>6 DEF DropPending, Seen
  <2>8. \A k \in 1..Len(c) : IsText(c[k]) => c[k] \in S
    <3>1. \A k \in 1..Len(c) : c[k] \in ToSet(c)
      BY <2>5, ItemsOf
    <3> QED
      BY <3>1 DEF IsText
  <2> HIDE DEF f, c, S
  <2>9. WordsIn(Among(c, S)) = WordsIn(c)
    BY <2>5, <2>8, AmongWords
  <2>10. m.role = "user" => WordsIn(c) = WordsIn(m.content)
    BY <2>1, <2>3, SweepWords
  <2> QED
    BY <2>2, <2>3, <2>7, <2>9, <2>10 DEF m, f
<1>4. AsManyWords(Swept(ms), ms)
  BY <1>2, <1>3 DEF AsManyWords
<1> QED
  BY <1>2, <1>4, WordsSame

\* A message with nothing in it has no words.
LEMMA EmptyWords ==
    ASSUME NEW m \in Seen(Items), ~HasContent(m)
    PROVE  WordsIn(m.content) = 0
<1> DEFINE c == m.content
           N == Len(c)
<1>1. c \in Seq(Items)
  BY DEF Seen
<1>2. \A n \in 1..N : IsText(c[n]) => c[n].words = 0
  <2>1. DOMAIN c = 1..N
    BY <1>1
  <2> QED
    BY <2>1 DEF HasContent, IsEmptyText
<1>3. PICK ic : CountAlong(ic, c)
  BY <1>1, CountFold
<1>0. N \in Nat
  BY <1>1
<1>4. /\ ic[0] = 0 /\ ic[N] = WordsIn(c)
      /\ \A n \in 1..N : ic[n] = CountItem(ic[n - 1], c[n])
  BY <1>3 DEF CountAlong
<1> HIDE DEF N
<1> DEFINE T == {n \in 0..N : ic[n] = 0}
<1>6. 0 \in T
  BY <1>0, <1>4
<1>7. ASSUME NEW n \in 1..N, n - 1 \in T
      PROVE  n \in T
  <2>1. ic[n] = 0
    BY <1>2, <1>4, <1>7 DEF CountItem
  <2>2. n \in 0..N
    BY <1>0
  <2> QED
    BY <2>1, <2>2
<1>8. N \in T
  <2> HIDE DEF T
  <2>1. \A n \in 0..N : n \in T
    BY <1>0, <1>6, <1>7, Along
  <2> QED
    BY <1>0, <2>1
<1> QED
  BY <1>4, <1>8

\* Removing empty messages leaves the words.
LEMMA RemoveEmptyWords ==
    ASSUME NEW ms \in Seq(Seen(Items))
    PROVE  Words(RemoveEmptyMessages(ms)) = Words(ms)
<1> DEFINE S == {m \in ToSet(ms) : HasContent(m)}
           E == Seen(Items)
           N == Len(ms)
<1>1. RemoveEmptyMessages(ms) = Among(ms, S)
  BY DEF RemoveEmptyMessages
<1>b. ms \in Seq(E)
  OBVIOUS
<1>2. \A n \in 1..N : ms[n] \in E /\ (ms[n] \notin S => ~HasContent(ms[n]))
  <2>1. \A n \in 1..N : ms[n] \in ToSet(ms)
    BY <1>b, ItemsOf
  <2> QED
    BY <2>1
<1> HIDE DEF S, E
<1>3. PICK it : AmongAlong(it, ms, S, E)
  BY <1>b, AmongFold, Zenon
<1>4. PICK iw : WordsAlong(iw, ms)
  BY WordsFold
<1>0. N \in Nat /\ \A n \in 1..N : n - 1 \in 0..N /\ n \in 0..N
  OBVIOUS
<1>5. /\ it[0] = <<>> /\ it[N] = Among(ms, S)
      /\ \A n \in 1..N :
            it[n] = IF ms[n] \in S THEN Append(it[n - 1], ms[n]) ELSE it[n - 1]
      /\ \A n \in 0..N : it[n] \in Seq(E)
  BY <1>3 DEF AmongAlong
<1>6. /\ iw[0] = 0 /\ iw[N] = Words(ms)
      /\ \A n \in 1..N : iw[n] = CountMessage(iw[n - 1], ms[n])
      /\ \A n \in 0..N : iw[n] \in Nat
  BY <1>4 DEF WordsAlong
<1> HIDE DEF N
<1> DEFINE T == {n \in 0..N : Words(it[n]) = iw[n]}
<1>7. 0 \in T
  BY <1>0, <1>5, <1>6, WordsEmpty
<1>8. ASSUME NEW n \in 1..N, n - 1 \in T
      PROVE  n \in T
  <2>1. /\ Words(it[n - 1]) = iw[n - 1] /\ it[n - 1] \in Seq(Seen(Items))
        /\ iw[n - 1] \in Nat /\ ms[n] \in Seen(Items)
    BY <1>0, <1>2, <1>5, <1>6, <1>8 DEF E
  <2>2. CASE ms[n] \in S
    <3>1. it[n] = Append(it[n - 1], ms[n])
      BY <1>5, <2>2
    <3>2. Words(Append(it[n - 1], ms[n])) = CountMessage(Words(it[n - 1]), ms[n])
      BY <2>1, WordsAppend
    <3> QED
      BY <1>0, <1>6, <2>1, <3>1, <3>2
  <2>3. CASE ms[n] \notin S
    <3>1. it[n] = it[n - 1] /\ ~HasContent(ms[n])
      BY <1>2, <1>5, <2>3
    <3>2. WordsIn(ms[n].content) = 0
      BY <2>1, <3>1, EmptyWords
    <3>3. iw[n] = iw[n - 1]
      BY <1>6, <2>1, <3>2 DEF CountMessage
    <3> QED
      BY <1>0, <2>1, <3>1, <3>3
  <2> QED
    BY <2>2, <2>3
<1>9. N \in T
  <2> HIDE DEF T
  <2>1. \A n \in 0..N : n \in T
    BY <1>0, <1>7, <1>8, Along
  <2> QED
    BY <1>0, <2>1
<1> QED
  BY <1>1, <1>5, <1>6, <1>9

\* One more message is merged.
LEMMA AddMessageWords ==
    ASSUME NEW merged \in Seq(Seen(Items)), NEW m \in Seen(Items)
    PROVE  Words(AddMessage(merged, m)) = CountMessage(Words(merged), m)
<1>1. CASE merged # <<>> /\ EffectiveRole(Last(merged)) = EffectiveRole(m)
  <2> DEFINE old == Last(merged)
             F == Front(merged)
             new == Joined(old, m)
             L == Len(merged)
             u == AddMessage(merged, m)
  <2>1. /\ old \in Seen(Items) /\ F \in Seq(Seen(Items))
        /\ L \in Nat \ {0} /\ Len(F) = L - 1
        /\ \A n \in 1..(L - 1) : F[n] = merged[n]
        /\ old = merged[L]
    BY <1>1, LastFront DEF Last
  <2>a. Items \in SUBSET Items
    OBVIOUS
  <2>2. /\ new \in Seen(Items) /\ new.role = old.role /\ old.role = m.role
    BY <1>1, <2>1, <2>a, JoinedIs
  <2>3. /\ old.content \in Seq(Items) /\ m.content \in Seq(Items)
        /\ new.content = old.content \o m.content
    BY <2>1 DEF Seen, Joined
  <2>4. u = [merged EXCEPT ![L] = new]
    <3>1. u = [merged EXCEPT ![L].content = @ \o m.content]
      BY <1>1 DEF AddMessage
    <3> QED
      BY <2>1, <3>1 DEF Joined
  <2>b. \A n \in 1..L : n = L \/ n \in 1..(L - 1)
    BY <2>1
  <2> HIDE DEF old, F, new, u
  <2>5. u = Append(F, new)
    <3> DEFINE w == Append(F, new)
    <3>1. w \in Seq(Seen(Items)) /\ Len(w) = L /\ w[L] = new
          /\ \A n \in 1..(L - 1) : w[n] = F[n]
      BY <2>1, <2>2
    <3>2. u \in Seq(Seen(Items)) /\ Len(u) = L
      BY <2>1, <2>2, <2>4
    <3>3. u[L] = new /\ \A n \in 1..(L - 1) : u[n] = merged[n]
      BY <2>1, <2>4
    <3> HIDE DEF w
    <3>4. \A n \in 1..L : u[n] = w[n]
      BY <2>1, <2>b, <3>1, <3>3
    <3> QED
      BY <3>1, <3>2, <3>4 DEF w
  <2>6. Words(u) = CountMessage(Words(F), new)
    BY <2>1, <2>2, <2>5, WordsAppend
  <2>7. Words(merged) = CountMessage(Words(F), old)
    BY <1>1, WordsLast DEF F, old
  <2>8. WordsIn(new.content) = WordsIn(old.content) + WordsIn(m.content)
    BY <2>3, CountConcat
  <2>9. WordsIn(old.content) \in Nat /\ WordsIn(m.content) \in Nat /\ Words(F) \in Nat
    BY <2>1, <2>3, WordsInTyped, WordsTyped
  <2>10. CountMessage(Words(F), new) = CountMessage(CountMessage(Words(F), old), m)
    BY <2>2, <2>8, <2>9 DEF CountMessage
  <2> QED
    BY <2>6, <2>7, <2>10 DEF u
<1>2. CASE ~(merged # <<>> /\ EffectiveRole(Last(merged)) = EffectiveRole(m))
  <2>1. AddMessage(merged, m) = Append(merged, m)
    BY <1>2 DEF AddMessage
  <2> QED
    BY <2>1, WordsAppend
<1> QED
  BY <1>1, <1>2

\* Merging messages leaves the words.
LEMMA MergeWords ==
    ASSUME NEW ms \in Seq(Seen(Items))
    PROVE  Words(MergeConsecutiveMessages(ms)) = Words(ms)
<1>1. PICK it : MergeAlong(it, ms, Items)
  BY MergeFold, Zenon
<1>2. PICK iw : WordsAlong(iw, ms)
  BY WordsFold
<1> DEFINE N == Len(ms)
<1>0. N \in Nat /\ \A n \in 1..N : n - 1 \in 0..N /\ n \in 0..N
  OBVIOUS
<1>3. /\ it[0] = <<>> /\ it[N] = MergeConsecutiveMessages(ms)
      /\ \A n \in 1..N : /\ it[n - 1] \in Seq(Seen(Items))
                         /\ ms[n] \in Seen(Items)
                         /\ it[n] = AddMessage(it[n - 1], ms[n])
  BY <1>1 DEF MergeAlong
<1>4. /\ iw[0] = 0 /\ iw[N] = Words(ms)
      /\ \A n \in 1..N : iw[n] = CountMessage(iw[n - 1], ms[n])
  BY <1>2 DEF WordsAlong
<1> HIDE DEF N
<1> DEFINE T == {n \in 0..N : Words(it[n]) = iw[n]}
<1>5. 0 \in T
  BY <1>0, <1>3, <1>4, WordsEmpty
<1>6. ASSUME NEW n \in 1..N, n - 1 \in T
      PROVE  n \in T
  <2>1. Words(it[n - 1]) = iw[n - 1]
    BY <1>6
  <2>2. Words(AddMessage(it[n - 1], ms[n])) = CountMessage(Words(it[n - 1]), ms[n])
    BY <1>3, AddMessageWords
  <2> QED
    BY <1>0, <1>3, <1>4, <2>1, <2>2
<1>7. N \in T
  <2> HIDE DEF T
  <2>1. \A n \in 0..N : n \in T
    BY <1>0, <1>5, <1>6, Along
  <2> QED
    BY <1>0, <2>1
<1> QED
  BY <1>3, <1>4, <1>7

\* A last message of an assistant has no words of users.
LEMMA RemoveTrailWords ==
    ASSUME NEW ms \in Seq(Seen(Items))
    PROVE  Words(RemoveTrail(ms)) = Words(ms)
<1>1. CASE ms # <<>> /\ Last(ms).role = "assistant"
  <2>1. Words(ms) = CountMessage(Words(Front(ms)), Last(ms))
    BY <1>1, WordsLast
  <2> QED
    BY <1>1, <2>1 DEF RemoveTrail, CountMessage
<1>2. CASE ~(ms # <<>> /\ Last(ms).role = "assistant")
  BY <1>2 DEF RemoveTrail
<1> QED
  BY <1>1, <1>2

\* Filling results leaves the words of a content.
LEMMA FilledWords ==
    ASSUME NEW a \in Seq(Items), NEW b \in Seq(Items), Len(a) = Len(b),
           \A n \in 1..Len(a) : b[n] = Filled(a[n])
    PROVE  WordsIn(b) = WordsIn(a)
<1>1. PICK ia : CountAlong(ia, a)
  BY CountFold
<1>2. PICK ib : CountAlong(ib, b)
  BY CountFold
<1> DEFINE N == Len(a)
<1>0. N \in Nat /\ Len(b) = N /\ \A n \in 1..N : a[n] \in Items
  OBVIOUS
<1>a. /\ ia[0] = 0 /\ ia[N] = WordsIn(a)
      /\ \A n \in 1..N : ia[n] = CountItem(ia[n - 1], a[n])
  BY <1>1 DEF CountAlong
<1>b. /\ ib[0] = 0 /\ ib[N] = WordsIn(b)
      /\ \A n \in 1..N : ib[n] = CountItem(ib[n - 1], b[n])
  BY <1>0, <1>2 DEF CountAlong
<1>c. ASSUME NEW x \in Items
      PROVE  \/ Filled(x) = x
             \/ ~IsText(x) /\ ~IsText(Filled(x))
  <2>1. CASE x.kind = "response"
    <3>1. Filled(x) = [x EXCEPT !.empty = FALSE] /\ x \in Responses
      BY <2>1, ItemKinds DEF Filled
    <3>2. Filled(x).kind = "response"
      BY <3>1 DEF Responses
    <3> QED
      BY <2>1, <3>2 DEF IsText
  <2>2. CASE x.kind # "response"
    BY <2>2 DEF Filled
  <2> QED
    BY <2>1, <2>2
<1> HIDE DEF N
<1> DEFINE T == {n \in 0..N : ia[n] = ib[n]}
<1>3. 0 \in T
  BY <1>0, <1>a, <1>b
<1>4. ASSUME NEW n \in 1..N, n - 1 \in T
      PROVE  n \in T
  <2>1. b[n] = a[n] \/ (~IsText(a[n]) /\ ~IsText(b[n]))
    <3>1. b[n] = Filled(a[n])
      BY DEF N
    <3> QED
      BY <1>0, <1>c, <3>1
  <2>2. CountItem(ia[n - 1], a[n]) = CountItem(ib[n - 1], b[n])
    BY <1>4, <2>1 DEF CountItem
  <2>3. n \in 0..N
    BY <1>0
  <2> QED
    BY <1>a, <1>b, <2>2, <2>3
<1>5. N \in T
  <2> HIDE DEF T
  <2>1. \A n \in 0..N : n \in T
    BY <1>0, <1>3, <1>4, Along
  <2> QED
    BY <1>0, <2>1
<1> QED
  BY <1>5, <1>a, <1>b

\* The passes that go message by message leave what users say.
LEMMA EachWords ==
    ASSUME NEW ms \in Seq(Seen(Items))
    PROVE  /\ Words(Map(MergeTextContentInMessage, ms)) = Words(ms)
           /\ Words(Map(TrimAssistantText, ms)) = Words(ms)
           /\ Words(Map(FixEmptyToolResults, ms)) = Words(ms)
<1> DEFINE a == Map(MergeTextContentInMessage, ms)
           b == Map(TrimAssistantText, ms)
           c == Map(FixEmptyToolResults, ms)
           N == Len(ms)
<1>1. /\ a \in Seq(Seen(Items)) /\ Len(a) = N
      /\ b \in Seq(Seen(Items)) /\ Len(b) = N
      /\ c \in Seq(Seen(Items)) /\ Len(c) = N
  BY EachTyped, SoundSeen
<1>2. \A n \in 1..N : /\ a[n] = MergeTextContentInMessage(ms[n])
                      /\ b[n] = TrimAssistantText(ms[n])
                      /\ c[n] = FixEmptyToolResults(ms[n])
                      /\ ms[n] \in Seen(Items)
  BY DEF Map
<1> HIDE DEF a, b, c, N
<1>3. ASSUME NEW n \in 1..N
      PROVE  /\ a[n].role = ms[n].role
             /\ ms[n].role = "user" => a[n] = ms[n]
  <2> DEFINE m == ms[n]
             new == FoldLeft(AddItem, <<>>, m.content)
  <2>1. m \in Seen(Items)
    BY <1>2
  <2> HIDE DEF m
  <2>2. MergeTextContentInMessage(m).role = m.role
        /\ (m.role = "user" => MergeTextContentInMessage(m) = m)
    <3>1. MergeTextContentInMessage(m) = IF m.role = "user" THEN m
                                         ELSE [m EXCEPT !.content = new]
      BY DEF MergeTextContentInMessage
    <3> HIDE DEF new
    <3> QED
      BY <2>1, <3>1 DEF Seen
  <2> QED
    BY <1>2, <2>2 DEF m
<1>4. ASSUME NEW n \in 1..N
      PROVE  /\ b[n].role = ms[n].role
             /\ ms[n].role = "user" => b[n] = ms[n]
  <2> DEFINE m == ms[n]
             new == Map(Trimmed, m.content)
  <2>1. m \in Seen(Items)
    BY <1>2
  <2> HIDE DEF m
  <2>2. TrimAssistantText(m).role = m.role
        /\ (m.role = "user" => TrimAssistantText(m) = m)
    <3>1. TrimAssistantText(m) = IF m.role = "user" THEN m
                                 ELSE [m EXCEPT !.content = new]
      BY DEF TrimAssistantText
    <3> HIDE DEF new
    <3> QED
      BY <2>1, <3>1 DEF Seen
  <2> QED
    BY <1>2, <2>2 DEF m
<1>5. ASSUME NEW n \in 1..N
      PROVE  /\ c[n].role = ms[n].role
             /\ WordsIn(c[n].content) = WordsIn(ms[n].content)
  <2> DEFINE m == ms[n]
             new == Map(Filled, m.content)
  <2>1. m \in Seen(Items) /\ c[n] \in Seen(Items) /\ c[n] = FixEmptyToolResults(m)
    BY <1>1, <1>2
  <2> HIDE DEF m
  <2>2. m.content \in Seq(Items) /\ c[n].content \in Seq(Items)
    BY <2>1 DEF Seen
  <2>3. c[n].role = m.role /\ c[n].content = new
    <3>1. c[n] = [m EXCEPT !.content = new]
      BY <2>1 DEF FixEmptyToolResults
    <3> HIDE DEF new
    <3> QED
      BY <2>1, <3>1 DEF Seen
  <2>4. Len(new) = Len(m.content) /\ \A k \in 1..Len(m.content) : new[k] = Filled(m.content[k])
    BY <2>2 DEF Map
  <2>5. WordsIn(c[n].content) = WordsIn(m.content)
    BY <2>2, <2>3, <2>4, FilledWords
  <2> QED
    BY <2>3, <2>5 DEF m
<1>6. AsManyWords(a, ms) /\ AsManyWords(b, ms) /\ AsManyWords(c, ms)
  BY <1>1, <1>3, <1>4, <1>5 DEF AsManyWords, N
<1>7. Words(a) = Words(ms) /\ Words(b) = Words(ms) /\ Words(c) = Words(ms)
  BY <1>1, <1>6, WordsSame
<1> QED
  BY <1>7 DEF a, b, c

-----------------------------------------------------------------------------
(*****************************************************************************)
(* What users say first, and the calls that are answered.                  *)
(*****************************************************************************)

\* No two messages have the same request.
AskedOnce(ms) ==
    \A i, j \in 1..Len(ms) : \A id :
        Has(ms[i], "request", id) /\ Has(ms[j], "request", id) => i = j

\* The first message is a user's, who says something.
SaysSome(m) == \E x \in ToSet(m.content) : IsText(x) /\ ~IsEmptyText(x)
SayFirst(ms) == ms # <<>> /\ ms[1].role = "user" /\ SaysSome(ms[1])

\* b has what the repair must keep of a, but for words.
Keeps(a, b) ==
    /\ SayFirst(a) => SayFirst(b)
    /\ \A id : Answered(a, id) => Answered(b, id)

KindsOfPairs == {"request", "response"}

\* b has the requests and the responses of a, and the texts if it is a user's.
LikeMessage(a, b) ==
    /\ b.role = a.role
    /\ \A kind \in KindsOfPairs : \A id : Has(b, kind, id) <=> Has(a, kind, id)
    /\ a.role = "user" /\ SaysSome(a) => SaysSome(b)

\* What is answered, by positions.
LEMMA AnsweredIs ==
    ASSUME NEW ms \in Seq(Seen(Items)), NEW id
    PROVE  Answered(ms, id) <=>
              \E i, j \in 1..Len(ms) :
                 /\ i < j
                 /\ ms[i].role = "assistant" /\ Has(ms[i], "request", id)
                 /\ ms[j].role = "user" /\ Has(ms[j], "response", id)
<1>1. DOMAIN ms = 1..Len(ms)
  OBVIOUS
<1> QED
  BY <1>1 DEF Answered

\* A pass that leaves each message like it was keeps all.
LEMMA LikeKeeps ==
    ASSUME NEW a \in Seq(Seen(Items)), NEW b \in Seq(Seen(Items)), Len(a) = Len(b),
           \A n \in 1..Len(a) : LikeMessage(a[n], b[n])
    PROVE  /\ Keeps(a, b)
           /\ AskedOnce(a) => AskedOnce(b)
<1> DEFINE N == Len(a)
<1>0. N \in Nat /\ Len(b) = N
  OBVIOUS
<1>1. \A n \in 1..N :
          /\ b[n].role = a[n].role
          /\ \A id : Has(b[n], "request", id) <=> Has(a[n], "request", id)
          /\ \A id : Has(b[n], "response", id) <=> Has(a[n], "response", id)
          /\ a[n].role = "user" /\ SaysSome(a[n]) => SaysSome(b[n])
  BY DEF LikeMessage, KindsOfPairs
<1>2. ASSUME SayFirst(a)
      PROVE  SayFirst(b)
  <2>1. a # <<>> /\ a[1].role = "user" /\ SaysSome(a[1])
    BY <1>2 DEF SayFirst
  <2>2. 1 \in 1..N /\ b # <<>>
    BY <2>1
  <2> QED
    BY <1>1, <2>1, <2>2 DEF SayFirst
<1>3. ASSUME NEW id, Answered(a, id)
      PROVE  Answered(b, id)
  <2>1. \E i, j \in 1..N :
           /\ i < j
           /\ a[i].role = "assistant" /\ Has(a[i], "request", id)
           /\ a[j].role = "user" /\ Has(a[j], "response", id)
    BY <1>3, AnsweredIs
  <2>2. \E i, j \in 1..N :
           /\ i < j
           /\ b[i].role = "assistant" /\ Has(b[i], "request", id)
           /\ b[j].role = "user" /\ Has(b[j], "response", id)
    BY <1>1, <2>1
  <2> QED
    BY <1>0, <2>2, AnsweredIs
<1>4. AskedOnce(a) => AskedOnce(b)
  BY <1>0, <1>1 DEF AskedOnce
<1> QED
  BY <1>2, <1>3, <1>4 DEF Keeps

\* The items of a sequence are its last one and those before it.
LEMMA ItemsLast ==
    ASSUME NEW s \in Seq(Items), s # <<>>
    PROVE  ToSet(s) = ToSet(Front(s)) \cup {Last(s)}
<1>1. /\ Last(s) \in Items /\ Front(s) \in Seq(Items)
      /\ Len(s) \in Nat \ {0} /\ Len(Front(s)) = Len(s) - 1
      /\ \A n \in 1..(Len(s) - 1) : Front(s)[n] = s[n]
      /\ Last(s) = s[Len(s)]
  BY LastFront DEF Last
<1> DEFINE F == Front(s)
           x == Last(s)
<1> HIDE DEF F, x
<1>2. /\ x \in Items /\ F \in Seq(Items)
      /\ Len(s) \in Nat \ {0} /\ Len(F) = Len(s) - 1
      /\ \A n \in 1..(Len(s) - 1) : F[n] = s[n]
      /\ x = s[Len(s)]
  BY <1>1 DEF F, x
<1>3. s = Append(F, x)
  BY <1>2
<1>4. ToSet(Append(F, x)) = ToSet(F) \cup {x}
  BY <1>2, ItemsAppend
<1> QED
  BY <1>3, <1>4 DEF F, x

\* Merging texts leaves what is no text.
LEMMA AddItemLeaves ==
    ASSUME NEW content \in Seq(Items), NEW item \in Items, NEW x, ~IsText(x)
    PROVE  x \in ToSet(AddItem(content, item)) <=> x \in ToSet(content) \/ x = item
<1>1. CASE content # <<>> /\ IsText(item) /\ IsText(Last(content))
  <2> DEFINE new == Concat(Last(content), item)
             F == Front(content)
  <2>1. AddItem(content, item) = Append(F, new)
    BY <1>1 DEF AddItem
  <2>2. F \in Seq(Items) /\ Last(content) \in Items
    BY <1>1, LastFront
  <2>3. new \in Items /\ IsText(new)
    <3>1. Last(content) \in Texts /\ item \in Texts
      BY <1>1, <2>2, ItemKinds DEF IsText
    <3>2. new \in Texts
      BY <3>1, ConcatTyped
    <3> QED
      BY <3>2 DEF Items, Texts, IsText
  <2>4. ToSet(content) = ToSet(F) \cup {Last(content)}
    BY <1>1, ItemsLast
  <2> HIDE DEF new, F
  <2>5. ToSet(Append(F, new)) = ToSet(F) \cup {new}
    BY <2>2, <2>3, ItemsAppend
  <2> QED
    BY <1>1, <2>1, <2>3, <2>4, <2>5
<1>2. CASE ~(content # <<>> /\ IsText(item) /\ IsText(Last(content)))
  <2>1. AddItem(content, item) = Append(content, item)
    BY <1>2 DEF AddItem
  <2>2. ToSet(Append(content, item)) = ToSet(content) \cup {item}
    BY ItemsAppend
  <2> QED
    BY <2>1, <2>2
<1> QED
  BY <1>1, <1>2

\* Merging texts adds and takes away nothing but texts.
LEMMA MergeTextLeaves ==
    ASSUME NEW content \in Seq(Items), NEW x, ~IsText(x)
    PROVE  x \in ToSet(FoldLeft(AddItem, <<>>, content)) <=> x \in ToSet(content)
<1>1. PICK it : TextsAlong(it, content)
  BY AddItemFold
<1> DEFINE N == Len(content)
<1>0. N \in Nat
  OBVIOUS
<1>2. /\ it[0] = <<>> /\ it[N] = FoldLeft(AddItem, <<>>, content)
      /\ \A n \in 1..N : /\ it[n - 1] \in Seq(Items)
                         /\ content[n] \in Items
                         /\ it[n] = AddItem(it[n - 1], content[n])
  BY <1>1 DEF TextsAlong
<1>3. DOMAIN content = 1..N
  OBVIOUS
<1> HIDE DEF N
<1> DEFINE T == {n \in 0..N : x \in ToSet(it[n]) <=> \E k \in 1..n : x = content[k]}
<1>4. 0 \in T
  <2>1. 1..0 = {} /\ 0 \in 0..N /\ ToSet(<<>>) = {}
    BY <1>0 DEF ToSet
  <2> QED
    BY <1>2, <2>1
<1>5. ASSUME NEW n \in 1..N, n - 1 \in T
      PROVE  n \in T
  <2>1. x \in ToSet(it[n]) <=> x \in ToSet(it[n - 1]) \/ x = content[n]
    BY <1>2, AddItemLeaves
  <2>2. x \in ToSet(it[n - 1]) <=> \E k \in 1..(n - 1) : x = content[k]
    BY <1>5
  <2>3. \A k : k \in 1..n <=> k = n \/ k \in 1..(n - 1)
    BY <1>0
  <2>4. n \in 0..N
    BY <1>0
  <2> QED
    BY <2>1, <2>2, <2>3, <2>4
<1>6. N \in T
  <2> HIDE DEF T
  <2>1. \A n \in 0..N : n \in T
    BY <1>0, <1>4, <1>5, Along
  <2> QED
    BY <1>0, <2>1
<1>7. x \in ToSet(content) <=> \E k \in 1..N : x = content[k]
  BY <1>3 DEF ToSet
<1> QED
  BY <1>2, <1>6, <1>7

\* Merging texts leaves requests and responses.
LEMMA MergeTextLike ==
    ASSUME NEW m \in Seen(Items)
    PROVE  LikeMessage(m, MergeTextContentInMessage(m))
<1>a. Items \in SUBSET Items
  OBVIOUS
<1>1. CASE m.role = "user"
  <2>1. MergeTextContentInMessage(m) = m
    BY <1>1 DEF MergeTextContentInMessage
  <2> QED
    BY <2>1 DEF LikeMessage
<1>2. CASE m.role # "user"
  <2> DEFINE new == FoldLeft(AddItem, <<>>, m.content)
             d == MergeTextContentInMessage(m)
  <2>1. d = [m EXCEPT !.content = new]
    BY <1>2 DEF MergeTextContentInMessage
  <2>2. d \in Seen(Items) /\ m.content \in Seq(Items)
    BY MergeTextTyped DEF Seen
  <2>3. \A x : ~IsText(x) => (x \in ToSet(new) <=> x \in ToSet(m.content))
    BY <2>2, MergeTextLeaves
  <2> HIDE DEF new, d
  <2>4. d.content = new /\ d.role = m.role
    BY <2>1 DEF Seen
  <2>5. ASSUME NEW kind \in KindsOfPairs, NEW id
        PROVE  Has(d, kind, id) <=> Has(m, kind, id)
    <3>1. \A x : x.kind = kind => ~IsText(x)
      BY DEF KindsOfPairs, IsText
    <3>2. Has(d, kind, id) <=> \E x \in ToSet(new) : x.kind = kind /\ x.id = id
      BY <1>a, <2>2, <2>4, ByItems
    <3>3. Has(m, kind, id) <=> \E x \in ToSet(m.content) : x.kind = kind /\ x.id = id
      BY <1>a, ByItems
    <3> QED
      BY <2>3, <3>1, <3>2, <3>3
  <2> QED
    BY <1>2, <2>4, <2>5 DEF LikeMessage, d
<1> QED
  BY <1>1, <1>2

\* Where a pass changes items one by one and leaves their kinds and ids.
LEMMA MappedLike ==
    ASSUME NEW m \in Seen(Items), NEW d \in Seen(Items), d.role = m.role,
           Len(d.content) = Len(m.content),
           \A k \in 1..Len(m.content) :
              /\ d.content[k].kind = m.content[k].kind
              /\ m.content[k].kind \in KindsOfPairs
                    => d.content[k].id = m.content[k].id
              /\ m.role = "user" /\ IsText(m.content[k])
                    => d.content[k] = m.content[k]
    PROVE  LikeMessage(m, d)
<1> DEFINE N == Len(m.content)
<1>1. DOMAIN m.content = 1..N /\ DOMAIN d.content = 1..N
  BY DEF Seen
<1>2. \A kind \in KindsOfPairs : \A id : Has(d, kind, id) <=> Has(m, kind, id)
  BY <1>1 DEF Has
<1>3. ASSUME m.role = "user", SaysSome(m)
      PROVE  SaysSome(d)
  <2>1. PICK k \in 1..N : IsText(m.content[k]) /\ ~IsEmptyText(m.content[k])
    BY <1>1, <1>3 DEF SaysSome, ToSet
  <2>2. d.content[k] = m.content[k]
    BY <1>3, <2>1
  <2>3. d.content[k] \in ToSet(d.content)
    BY <1>1 DEF ToSet
  <2> QED
    BY <2>1, <2>2, <2>3 DEF SaysSome
<1> QED
  BY <1>2, <1>3 DEF LikeMessage

\* Trimming leaves requests and responses.
LEMMA TrimLike ==
    ASSUME NEW m \in Seen(Items)
    PROVE  LikeMessage(m, TrimAssistantText(m))
<1>1. CASE m.role = "user"
  <2>1. TrimAssistantText(m) = m
    BY <1>1 DEF TrimAssistantText
  <2> QED
    BY <2>1 DEF LikeMessage
<1>2. CASE m.role # "user"
  <2> DEFINE new == Map(Trimmed, m.content)
             d == TrimAssistantText(m)
  <2>1. d = [m EXCEPT !.content = new]
    BY <1>2 DEF TrimAssistantText
  <2>2. d \in Seen(Items) /\ m.content \in Seq(Items)
    BY TrimTyped DEF Seen
  <2>3. Len(new) = Len(m.content)
        /\ \A k \in 1..Len(m.content) : new[k] = Trimmed(m.content[k])
    BY <2>2 DEF Map
  <2> HIDE DEF new, d
  <2>4. d.content = new /\ d.role = m.role
    BY <2>1 DEF Seen
  <2>5. ASSUME NEW x \in Items
        PROVE  /\ Trimmed(x).kind = x.kind
               /\ x.kind \in KindsOfPairs => Trimmed(x) = x
    <3>1. CASE IsText(x)
      <4>1. x \in Texts /\ Trimmed(x) = [x EXCEPT !.space = FALSE]
        BY <3>1, ItemKinds DEF IsText, Trimmed
      <4> QED
        BY <3>1, <4>1 DEF Texts, IsText, KindsOfPairs
    <3>2. CASE ~IsText(x)
      BY <3>2 DEF Trimmed
    <3> QED
      BY <3>1, <3>2
  <2>6. \A k \in 1..Len(m.content) : m.content[k] \in Items
    BY <2>2
  <2>7. LikeMessage(m, d)
    BY <1>2, <2>2, <2>3, <2>4, <2>5, <2>6, MappedLike
  <2> QED
    BY <2>7 DEF d
<1> QED
  BY <1>1, <1>2

\* Filling results leaves requests and responses.
LEMMA FillLike ==
    ASSUME NEW m \in Seen(Items)
    PROVE  LikeMessage(m, FixEmptyToolResults(m))
<1> DEFINE new == Map(Filled, m.content)
           d == FixEmptyToolResults(m)
<1>1. d = [m EXCEPT !.content = new]
  BY DEF FixEmptyToolResults
<1>2. d \in Seen(Items) /\ m.content \in Seq(Items)
  BY FillTyped, SoundSeen DEF Seen
<1>3. Len(new) = Len(m.content)
      /\ \A k \in 1..Len(m.content) : new[k] = Filled(m.content[k])
  BY <1>2 DEF Map
<1> HIDE DEF new, d
<1>4. d.content = new /\ d.role = m.role
  BY <1>1 DEF Seen
<1>5. ASSUME NEW x \in Items
      PROVE  /\ Filled(x).kind = x.kind
             /\ x.kind \in KindsOfPairs => Filled(x).id = x.id
             /\ IsText(x) => Filled(x) = x
  <2>1. CASE x.kind = "response"
    <3>1. x \in Responses /\ Filled(x) = [x EXCEPT !.empty = FALSE]
      BY <2>1, ItemKinds DEF Filled
    <3> QED
      BY <2>1, <3>1 DEF Responses, IsText
  <2>2. CASE x.kind # "response"
    BY <2>2 DEF Filled
  <2> QED
    BY <2>1, <2>2
<1>6. \A k \in 1..Len(m.content) : m.content[k] \in Items
  BY <1>2
<1>7. LikeMessage(m, d)
  BY <1>2, <1>3, <1>4, <1>5, <1>6, MappedLike
<1> QED
  BY <1>7 DEF d

\* The passes that go message by message keep all.
LEMMA EachKeeps ==
    ASSUME NEW ms \in Seq(Seen(Items))
    PROVE  /\ Keeps(ms, Map(MergeTextContentInMessage, ms))
           /\ AskedOnce(ms) => AskedOnce(Map(MergeTextContentInMessage, ms))
           /\ Keeps(ms, Map(TrimAssistantText, ms))
           /\ AskedOnce(ms) => AskedOnce(Map(TrimAssistantText, ms))
           /\ Keeps(ms, Map(FixEmptyToolResults, ms))
           /\ AskedOnce(ms) => AskedOnce(Map(FixEmptyToolResults, ms))
<1> DEFINE a == Map(MergeTextContentInMessage, ms)
           b == Map(TrimAssistantText, ms)
           c == Map(FixEmptyToolResults, ms)
           N == Len(ms)
<1>1. /\ a \in Seq(Seen(Items)) /\ Len(a) = N
      /\ b \in Seq(Seen(Items)) /\ Len(b) = N
      /\ c \in Seq(Seen(Items)) /\ Len(c) = N
  BY EachTyped, SoundSeen
<1>2. \A n \in 1..N : /\ a[n] = MergeTextContentInMessage(ms[n])
                      /\ b[n] = TrimAssistantText(ms[n])
                      /\ c[n] = FixEmptyToolResults(ms[n])
                      /\ ms[n] \in Seen(Items)
  BY DEF Map
<1> HIDE DEF a, b, c
<1>3. \A n \in 1..N : /\ LikeMessage(ms[n], a[n])
                      /\ LikeMessage(ms[n], b[n])
                      /\ LikeMessage(ms[n], c[n])
  BY <1>2, MergeTextLike, TrimLike, FillLike
<1>4. Keeps(ms, a) /\ (AskedOnce(ms) => AskedOnce(a))
  BY <1>1, <1>3, LikeKeeps
<1>5. Keeps(ms, b) /\ (AskedOnce(ms) => AskedOnce(b))
  BY <1>1, <1>3, LikeKeeps
<1>6. Keeps(ms, c) /\ (AskedOnce(ms) => AskedOnce(c))
  BY <1>1, <1>3, LikeKeeps
<1> QED
  BY <1>4, <1>5, <1>6 DEF a, b, c

\* A request, a response and what somebody says are no empty texts.
LEMMA PairSays ==
    ASSUME NEW m \in Seen(Items)
    PROVE  /\ \A kind \in KindsOfPairs : \A id : Has(m, kind, id) => HasContent(m)
           /\ SaysSome(m) => HasContent(m)
<1>1. DOMAIN m.content = 1..Len(m.content)
  BY DEF Seen
<1>2. \A kind \in KindsOfPairs : \A id : Has(m, kind, id) => HasContent(m)
  BY DEF Has, HasContent, IsEmptyText, IsText, KindsOfPairs
<1>3. SaysSome(m) => HasContent(m)
  BY <1>1 DEF SaysSome, HasContent, ToSet
<1> QED
  BY <1>2, <1>3

\* Removing empty messages keeps all.
LEMMA RemoveEmptyKeeps ==
    ASSUME NEW ms \in Seq(Seen(Items))
    PROVE  /\ Keeps(ms, RemoveEmptyMessages(ms))
           /\ AskedOnce(ms) => AskedOnce(RemoveEmptyMessages(ms))
<1> DEFINE t == RemoveEmptyMessages(ms)
           N == Len(ms)
           L == Len(t)
<1>1. t \in Seq(Seen(Items))
  BY RemoveEmptyIs
<1>2. PICK e : /\ PartOf(t, ms, e)
               /\ \A i \in 1..Len(ms) : HasContent(ms[i]) =>
                     \E j \in 1..Len(t) : e[j] = i
  BY RemoveEmptyIs, Zenon
<1> HIDE DEF t
<1>0. L \in Nat /\ N \in Nat
  BY <1>1
<1>3. /\ \A j \in 1..L : e[j] \in 1..N /\ t[j] = ms[e[j]]
      /\ \A i, j \in 1..L : i < j => e[i] < e[j]
  BY <1>2 DEF PartOf, PartUpTo
<1>4. \A i \in 1..N : HasContent(ms[i]) => \E j \in 1..L : e[j] = i
  BY <1>2
<1>5. \A i \in 1..N : ms[i] \in Seen(Items)
  OBVIOUS
<1> HIDE DEF L, N
<1>6. ASSUME NEW i \in 1..L, NEW j \in 1..L, e[i] < e[j]
      PROVE  i < j
  <2>1. e[i] \in 1..N /\ e[j] \in 1..N
    BY <1>3
  <2>2. CASE i = j
    BY <1>0, <1>6, <2>1, <2>2
  <2>3. CASE j < i
    <3>1. e[j] < e[i]
      BY <1>3, <2>3
    <3> QED
      BY <1>0, <1>6, <2>1, <3>1
  <2> QED
    BY <1>0, <2>2, <2>3
<1>7. ASSUME SayFirst(ms)
      PROVE  SayFirst(t)
  <2>1. ms # <<>> /\ ms[1].role = "user" /\ SaysSome(ms[1])
    BY <1>7 DEF SayFirst
  <2>2. 1 \in 1..N
    BY <2>1 DEF N
  <2>3. PICK j \in 1..L : e[j] = 1
    BY <1>4, <1>5, <2>1, <2>2, PairSays
  <2>4. j = 1
    <3>1. CASE 1 < j
      <4>1. 1 \in 1..L
        BY <1>0
      <4>2. e[1] < e[j] /\ e[1] \in 1..N
        BY <1>3, <3>1, <4>1
      <4> QED
        BY <1>0, <2>3, <4>2
    <3> QED
      BY <1>0, <3>1
  <2>5. t[1] = ms[1] /\ t # <<>>
    BY <1>1, <1>3, <2>3, <2>4 DEF L
  <2> QED
    BY <2>1, <2>5 DEF SayFirst
<1>8. ASSUME NEW id, Answered(ms, id)
      PROVE  Answered(t, id)
  <2>1. PICK i \in 1..N, j \in 1..N :
           /\ i < j
           /\ ms[i].role = "assistant" /\ Has(ms[i], "request", id)
           /\ ms[j].role = "user" /\ Has(ms[j], "response", id)
    BY <1>8, AnsweredIs DEF N
  <2>2. HasContent(ms[i]) /\ HasContent(ms[j])
    BY <1>5, <2>1, PairSays DEF KindsOfPairs
  <2>3. PICK k \in 1..L : e[k] = i
    BY <1>4, <2>2
  <2>4. PICK l \in 1..L : e[l] = j
    BY <1>4, <2>2
  <2>5. k < l
    BY <1>6, <2>1, <2>3, <2>4
  <2>6. t[k] = ms[i] /\ t[l] = ms[j]
    BY <1>3, <2>3, <2>4
  <2> QED
    BY <1>1, <2>1, <2>5, <2>6, AnsweredIs DEF L
<1>9. ASSUME AskedOnce(ms)
      PROVE  AskedOnce(t)
  <2>1. ASSUME NEW i \in 1..L, NEW j \in 1..L, NEW id,
               Has(t[i], "request", id), Has(t[j], "request", id)
        PROVE  i = j
    <3>1. e[i] \in 1..N /\ e[j] \in 1..N /\ t[i] = ms[e[i]] /\ t[j] = ms[e[j]]
      BY <1>3
    <3>2. e[i] = e[j]
      BY <1>9, <2>1, <3>1 DEF AskedOnce, N
    <3>3. ~(i < j) /\ ~(j < i)
      <4>1. i < j => e[i] < e[j]
        BY <1>3
      <4>2. j < i => e[j] < e[i]
        BY <1>3
      <4>3. ~(e[i] < e[i])
        BY <1>0, <3>1
      <4> QED
        BY <3>2, <4>1, <4>2, <4>3
    <3> QED
      BY <1>0, <3>3
  <2> QED
    BY <2>1 DEF AskedOnce, L
<1> QED
  BY <1>7, <1>8, <1>9 DEF Keeps, t

-----------------------------------------------------------------------------
(*****************************************************************************)
(* Sweeping keeps answered calls where no two messages ask the same.       *)
(*****************************************************************************)

\* Among the first n items there is one of that kind and id.
Amid(content, n, kind, id) ==
    \E k \in 1..n : content[k].kind = kind /\ content[k].id = id

\* What the first sweep makes of the first n items of a user: a response ends
\* what is pending and is kept if it does, and so is all text.
UserSwept(acc, pending, content, n) ==
    /\ \A id : id \in acc.pending <=> id \in pending /\ ~Amid(content, n, "response", id)
    /\ \A id \in pending : Amid(content, n, "response", id) =>
          \E x \in ToSet(acc.content) : x.kind = "response" /\ x.id = id
    /\ \A k \in 1..n : IsText(content[k]) => content[k] \in ToSet(acc.content)

\* And of an assistant: each request is kept, and pending.
AssistantSwept(acc, pending, content, n) ==
    /\ \A id : id \in acc.pending <=> id \in pending \/ Amid(content, n, "request", id)
    /\ \A k \in 1..n : content[k].kind = "request" => content[k] \in ToSet(acc.content)

\* The first n items are the first n - 1 and one more.
LEMMA AmidMore ==
    ASSUME NEW content, NEW n \in Nat \ {0}
    PROVE  /\ \A k : k \in 1..n <=> k = n \/ k \in 1..(n - 1)
           /\ \A kind, id :
                 Amid(content, n, kind, id) <=>
                    \/ Amid(content, n - 1, kind, id)
                    \/ content[n].kind = kind /\ content[n].id = id
<1>1. \A k : k \in 1..n <=> k = n \/ k \in 1..(n - 1)
  OBVIOUS
<1> QED
  BY <1>1, Zenon DEF Amid

\* One more item of a user.
LEMMA UserSweptStep ==
    ASSUME NEW acc \in Swiped(Items), NEW pending \in SUBSET Ids, NEW content,
           NEW n \in Nat \ {0}, content[n] \in Items,
           UserSwept(acc, pending, content, n - 1)
    PROVE  UserSwept(Sweep(acc, "user", content[n]), pending, content, n)
<1> DEFINE item == content[n]
           new == Sweep(acc, "user", item)
<1>0. acc.content \in Seq(Items) /\ acc.pending \in SUBSET Ids /\ item \in Items
  BY DEF Swiped
<1>1. ToSet(Append(acc.content, item)) = ToSet(acc.content) \cup {item}
  BY <1>0, ItemsAppend
<1>2. /\ \A id : id \in acc.pending
                   <=> id \in pending /\ ~Amid(content, n - 1, "response", id)
      /\ \A id \in pending : Amid(content, n - 1, "response", id) =>
            \E x \in ToSet(acc.content) : x.kind = "response" /\ x.id = id
      /\ \A k \in 1..(n - 1) : IsText(content[k]) => content[k] \in ToSet(acc.content)
  BY DEF UserSwept
<1>3. /\ \A k : k \in 1..n <=> k = n \/ k \in 1..(n - 1)
      /\ \A id : Amid(content, n, "response", id) <=>
                    \/ Amid(content, n - 1, "response", id)
                    \/ item.kind = "response" /\ item.id = id
  BY AmidMore
<1> HIDE DEF item
<1>4. CASE item.kind = "response" /\ item.id \in acc.pending
  <2>1. new = [content |-> Append(acc.content, item),
               pending |-> acc.pending \ {item.id}]
    BY <1>4 DEF Sweep, Misplaced, StillPending
  <2> HIDE DEF new
  <2>2. ToSet(new.content) = ToSet(acc.content) \cup {item}
        /\ new.pending = acc.pending \ {item.id}
    BY <1>1, <2>1
  <2>3. \A id : id \in new.pending <=> id \in pending /\ ~Amid(content, n, "response", id)
    BY <1>2, <1>3, <1>4, <2>2
  <2>4. \A id \in pending : Amid(content, n, "response", id) =>
            \E x \in ToSet(new.content) : x.kind = "response" /\ x.id = id
    BY <1>2, <1>3, <1>4, <2>2
  <2>5. \A k \in 1..n : IsText(content[k]) => content[k] \in ToSet(new.content)
    BY <1>2, <1>3, <2>2 DEF item
  <2> QED
    BY <2>3, <2>4, <2>5 DEF UserSwept, new, item
<1>5. CASE item.kind = "response" /\ item.id \notin acc.pending
  <2>1. new = acc
    BY <1>5 DEF Sweep, Misplaced
  <2>2. ~IsText(item)
    BY <1>5 DEF IsText
  <2> HIDE DEF new
  <2>3. \A id : id \in new.pending <=> id \in pending /\ ~Amid(content, n, "response", id)
    BY <1>2, <1>3, <1>5, <2>1
  <2>4. \A id \in pending : Amid(content, n, "response", id) =>
            \E x \in ToSet(new.content) : x.kind = "response" /\ x.id = id
    BY <1>2, <1>3, <1>5, <2>1
  <2>5. \A k \in 1..n : IsText(content[k]) => content[k] \in ToSet(new.content)
    BY <1>2, <1>3, <2>1, <2>2 DEF item
  <2> QED
    BY <2>3, <2>4, <2>5 DEF UserSwept, new, item
<1>6. CASE item.kind # "response"
  <2>1. /\ new.pending = acc.pending
        /\ \/ new.content = Append(acc.content, item)
           \/ new.content = acc.content /\ ~IsText(item)
    BY <1>6 DEF Sweep, Misplaced, IsText
  <2> HIDE DEF new
  <2>2. ToSet(acc.content) \subseteq ToSet(new.content)
        /\ (IsText(item) => item \in ToSet(new.content))
    BY <1>1, <2>1
  <2>3. \A id : id \in new.pending <=> id \in pending /\ ~Amid(content, n, "response", id)
    BY <1>2, <1>3, <1>6, <2>1
  <2>4. \A id \in pending : Amid(content, n, "response", id) =>
            \E x \in ToSet(new.content) : x.kind = "response" /\ x.id = id
    BY <1>2, <1>3, <1>6, <2>2
  <2>5. \A k \in 1..n : IsText(content[k]) => content[k] \in ToSet(new.content)
    BY <1>2, <1>3, <2>2 DEF item
  <2> QED
    BY <2>3, <2>4, <2>5 DEF UserSwept, new, item
<1> QED
  BY <1>4, <1>5, <1>6

\* One more item of an assistant.
LEMMA AssistantSweptStep ==
    ASSUME NEW acc \in Swiped(Items), NEW pending \in SUBSET Ids, NEW content,
           NEW n \in Nat \ {0}, content[n] \in Items,
           AssistantSwept(acc, pending, content, n - 1)
    PROVE  AssistantSwept(Sweep(acc, "assistant", content[n]), pending, content, n)
<1> DEFINE item == content[n]
           new == Sweep(acc, "assistant", item)
<1>0. acc.content \in Seq(Items) /\ acc.pending \in SUBSET Ids /\ item \in Items
  BY DEF Swiped
<1>1. ToSet(Append(acc.content, item)) = ToSet(acc.content) \cup {item}
  BY <1>0, ItemsAppend
<1>2. /\ \A id : id \in acc.pending
                   <=> id \in pending \/ Amid(content, n - 1, "request", id)
      /\ \A k \in 1..(n - 1) :
            content[k].kind = "request" => content[k] \in ToSet(acc.content)
  BY DEF AssistantSwept
<1>3. /\ \A k : k \in 1..n <=> k = n \/ k \in 1..(n - 1)
      /\ \A id : Amid(content, n, "request", id) <=>
                    \/ Amid(content, n - 1, "request", id)
                    \/ item.kind = "request" /\ item.id = id
  BY AmidMore
<1> HIDE DEF item
<1>4. CASE item.kind = "request"
  <2>1. new = [content |-> Append(acc.content, item),
               pending |-> acc.pending \cup {item.id}]
    BY <1>4 DEF Sweep, Misplaced
  <2> HIDE DEF new
  <2>2. ToSet(new.content) = ToSet(acc.content) \cup {item}
        /\ new.pending = acc.pending \cup {item.id}
    BY <1>1, <2>1
  <2>3. \A id : id \in new.pending <=> id \in pending \/ Amid(content, n, "request", id)
    BY <1>2, <1>3, <1>4, <2>2
  <2>4. \A k \in 1..n : content[k].kind = "request" => content[k] \in ToSet(new.content)
    BY <1>2, <1>3, <2>2 DEF item
  <2> QED
    BY <2>3, <2>4 DEF AssistantSwept, new, item
<1>5. CASE item.kind # "request"
  <2>1. /\ new.pending = acc.pending
        /\ \/ new.content = Append(acc.content, item)
           \/ new.content = acc.content
    BY <1>5 DEF Sweep, Misplaced
  <2> HIDE DEF new
  <2>2. ToSet(acc.content) \subseteq ToSet(new.content)
    BY <1>1, <2>1
  <2>3. \A id : id \in new.pending <=> id \in pending \/ Amid(content, n, "request", id)
    BY <1>2, <1>3, <1>5, <2>1
  <2>4. \A k \in 1..n : content[k].kind = "request" => content[k] \in ToSet(new.content)
    BY <1>2, <1>3, <1>5, <2>2 DEF item
  <2> QED
    BY <2>3, <2>4 DEF AssistantSwept, new, item
<1> QED
  BY <1>4, <1>5

\* The first sweep of a content, either way.
LEMMA ContentKept ==
    ASSUME NEW content \in Seq(Items), NEW pending \in SUBSET Ids
    PROVE  /\ UserSwept(SweepContent("user", pending, content), pending, content,
                        Len(content))
           /\ AssistantSwept(SweepContent("assistant", pending, content), pending,
                             content, Len(content))
<1>a. Items \in SUBSET Items
  OBVIOUS
<1> DEFINE N == Len(content)
<1>0. N \in Nat /\ \A n \in 1..N : n \in Nat \ {0} /\ n \in 0..N
  OBVIOUS
<1>b. \A id, kind : ~Amid(content, 0, kind, id)
  BY DEF Amid
<1>c. 1..0 = {}
  OBVIOUS
<1>1. UserSwept(SweepContent("user", pending, content), pending, content, N)
  <2>1. PICK it : ContentAlong(it, "user", pending, content, Items)
    BY <1>a, SweepContentFold, Zenon
  <2>2. /\ it[0] = [content |-> <<>>, pending |-> pending]
        /\ it[N] = SweepContent("user", pending, content)
        /\ \A n \in 1..N : /\ it[n - 1] \in Swiped(Items)
                           /\ content[n] \in Items
                           /\ it[n] = Sweep(it[n - 1], "user", content[n])
    BY <2>1 DEF ContentAlong
  <2> HIDE DEF N
  <2> DEFINE T == {n \in 0..N : UserSwept(it[n], pending, content, n)}
  <2>3. 0 \in T
    <3>1. it[0].pending = pending /\ 0 \in 0..N
      BY <1>0, <2>2
    <3> QED
      BY <1>b, <1>c, <3>1 DEF UserSwept
  <2>4. ASSUME NEW n \in 1..N, n - 1 \in T
        PROVE  n \in T
    <3>1. UserSwept(it[n - 1], pending, content, n - 1)
      BY <2>4
    <3>2. UserSwept(Sweep(it[n - 1], "user", content[n]), pending, content, n)
      BY <1>0, <2>2, <3>1, UserSweptStep
    <3> QED
      BY <1>0, <2>2, <3>2
  <2>5. N \in T
    <3> HIDE DEF T
    <3>1. \A n \in 0..N : n \in T
      BY <1>0, <2>3, <2>4, Along
    <3> QED
      BY <1>0, <3>1
  <2> QED
    BY <2>2, <2>5
<1>2. AssistantSwept(SweepContent("assistant", pending, content), pending, content, N)
  <2>1. PICK it : ContentAlong(it, "assistant", pending, content, Items)
    BY <1>a, SweepContentFold, Zenon
  <2>2. /\ it[0] = [content |-> <<>>, pending |-> pending]
        /\ it[N] = SweepContent("assistant", pending, content)
        /\ \A n \in 1..N : /\ it[n - 1] \in Swiped(Items)
                           /\ content[n] \in Items
                           /\ it[n] = Sweep(it[n - 1], "assistant", content[n])
    BY <2>1 DEF ContentAlong
  <2> HIDE DEF N
  <2> DEFINE T == {n \in 0..N : AssistantSwept(it[n], pending, content, n)}
  <2>3. 0 \in T
    <3>1. it[0].pending = pending /\ 0 \in 0..N
      BY <1>0, <2>2
    <3> QED
      BY <1>b, <1>c, <3>1 DEF AssistantSwept
  <2>4. ASSUME NEW n \in 1..N, n - 1 \in T
        PROVE  n \in T
    <3>1. AssistantSwept(it[n - 1], pending, content, n - 1)
      BY <2>4
    <3>2. AssistantSwept(Sweep(it[n - 1], "assistant", content[n]), pending, content, n)
      BY <1>0, <2>2, <3>1, AssistantSweptStep
    <3> QED
      BY <1>0, <2>2, <3>2
  <2>5. N \in T
    <3> HIDE DEF T
    <3>1. \A n \in 0..N : n \in T
      BY <1>0, <2>3, <2>4, Along
    <3> QED
      BY <1>0, <3>1
  <2> QED
    BY <2>2, <2>5
<1> QED
  BY <1>1, <1>2

\* The second sweep keeps what is said and the requests that are not pending.
LEMMA DropKeeps ==
    ASSUME NEW m \in Seen(Items), NEW pending
    PROVE  /\ \A id : Has(m, "request", id) /\ id \notin pending
                         => Has(DropPending(pending, m), "request", id)
           /\ SaysSome(m) => SaysSome(DropPending(pending, m))
<1> DEFINE c == m.content
           S == {item \in ToSet(c) : ~(item.kind = "request" /\ item.id \in pending)}
           new == Among(c, S)
           d == DropPending(pending, m)
<1>a. Items \in SUBSET Items
  OBVIOUS
<1>1. d = [m EXCEPT !.content = new]
  BY DEF DropPending
<1>2. c \in Seq(Items) /\ d \in Seen(Items)
  BY <1>a, DropIs DEF Seen
<1>3. \A k \in 1..Len(c) : c[k] \in ToSet(c)
  BY <1>2, ItemsOf
<1>4. \A x \in ToSet(c) : ~(x.kind = "request" /\ x.id \in pending) => x \in S
  OBVIOUS
<1>5. \A x \in ToSet(c) : \E k \in 1..Len(c) : c[k] = x
  BY <1>2, ItemsOf
<1> HIDE DEF S, c
<1>6. PICK e : /\ PartOf(new, c, e)
               /\ \A i \in 1..Len(c) : c[i] \in S => \E j \in 1..Len(new) : e[j] = i
  BY <1>2, AmongPart, Zenon
<1>7. new \in Seq(Items)
  BY <1>2, AmongPart
<1> HIDE DEF new, d
<1>8. d.content = new
  BY <1>1 DEF Seen
<1>9. ASSUME NEW x \in ToSet(c), x \in S
      PROVE  x \in ToSet(new)
  <2>1. PICK i \in 1..Len(c) : c[i] = x
    BY <1>5
  <2>2. PICK j \in 1..Len(new) : e[j] = i
    BY <1>6, <1>9, <2>1
  <2>3. new[j] = c[e[j]]
    BY <1>6 DEF PartOf, PartUpTo
  <2>4. new[j] \in ToSet(new)
    BY <1>7, ItemsOf
  <2> QED
    BY <2>1, <2>2, <2>3, <2>4
<1>10. ASSUME NEW id, Has(m, "request", id), id \notin pending
       PROVE  Has(d, "request", id)
  <2>1. PICK x \in ToSet(c) : x.kind = "request" /\ x.id = id
    BY <1>a, <1>10, ByItems DEF c
  <2>2. x \in ToSet(new)
    BY <1>4, <1>9, <1>10, <2>1
  <2> QED
    BY <1>a, <1>2, <1>8, <2>1, <2>2, ByItems
<1>11. ASSUME SaysSome(m)
       PROVE  SaysSome(d)
  <2>1. PICK x \in ToSet(c) : IsText(x) /\ ~IsEmptyText(x)
    BY <1>11 DEF SaysSome, c
  <2>2. x \in ToSet(new)
    BY <1>4, <1>9, <2>1 DEF IsText
  <2> QED
    BY <1>8, <2>1, <2>2 DEF SaysSome
<1> QED
  BY <1>10, <1>11 DEF d

\* Sweeping a message of a user, and of an assistant.
LEMMA FirstSweepIs ==
    ASSUME NEW m \in Seen(Items), NEW pending \in SUBSET Ids
    PROVE  LET f     == FirstSweep(pending, m)
               after == SweepContent(m.role, pending, m.content).pending
           IN  /\ f \in Seen(Items)
               /\ f.role = m.role
               /\ m.role = "user" =>
                     /\ \A id : id \in after
                                   <=> id \in pending /\ ~Has(m, "response", id)
                     /\ \A id \in pending : Has(m, "response", id)
                                               => Has(f, "response", id)
                     /\ SaysSome(m) => SaysSome(f)
               /\ m.role = "assistant" =>
                     /\ \A id : id \in after
                                   <=> id \in pending \/ Has(m, "request", id)
                     /\ \A id : Has(m, "request", id) => Has(f, "request", id)
<1> DEFINE f == FirstSweep(pending, m)
           c == m.content
           swept == SweepContent(m.role, pending, c)
           N == Len(c)
<1>a. Items \in SUBSET Items
  OBVIOUS
<1>1. c \in Seq(Items) /\ m.role \in Roles
  BY DEF Seen
<1>2. swept \in Swiped(Items)
  BY <1>a, <1>1, SweepContentTyped
<1>3. swept.content \in Seq(Items)
  BY <1>2 DEF Swiped
<1>4. DOMAIN c = 1..N
  BY <1>1
<1>5. f = [m EXCEPT !.content = swept.content]
  BY DEF FirstSweep
<1>6. \A kind, id : Has(m, kind, id) <=> Amid(c, N, kind, id)
  BY <1>4 DEF Has, Amid
<1>b. \A x \in ToSet(c) : \E k \in 1..N : c[k] = x
  BY <1>1, ItemsOf
<1>c. SaysSome(m) <=> \E x \in ToSet(c) : IsText(x) /\ ~IsEmptyText(x)
  BY DEF SaysSome
<1>7. /\ m.role = "user" => UserSwept(swept, pending, c, N)
      /\ m.role = "assistant" => AssistantSwept(swept, pending, c, N)
  BY <1>1, ContentKept
<1> HIDE DEF swept, f, c, N
<1>8. f \in Seen(Items) /\ f.role = m.role /\ f.content = swept.content
  BY <1>3, <1>5 DEF Seen
<1>9. \A kind, id : Has(f, kind, id) <=>
         \E x \in ToSet(swept.content) : x.kind = kind /\ x.id = id
  BY <1>a, <1>8, ByItems
<1>10. SaysSome(f) <=> \E x \in ToSet(swept.content) : IsText(x) /\ ~IsEmptyText(x)
  BY <1>8 DEF SaysSome
<1>11. CASE m.role = "user"
  <2>1. /\ \A id : id \in swept.pending <=> id \in pending /\ ~Amid(c, N, "response", id)
        /\ \A id \in pending : Amid(c, N, "response", id) =>
              \E x \in ToSet(swept.content) : x.kind = "response" /\ x.id = id
        /\ \A k \in 1..N : IsText(c[k]) => c[k] \in ToSet(swept.content)
    BY <1>7, <1>11 DEF UserSwept
  <2>2. SaysSome(m) => SaysSome(f)
    BY <1>10, <1>b, <1>c, <2>1
  <2>3. \A id \in pending : Has(m, "response", id) => Has(f, "response", id)
    BY <1>6, <1>9, <2>1
  <2>4. \A id : id \in swept.pending <=> id \in pending /\ ~Has(m, "response", id)
    BY <1>6, <2>1
  <2> QED
    BY <1>8, <1>11, <2>2, <2>3, <2>4 DEF f, swept, c
<1>12. CASE m.role = "assistant"
  <2>1. /\ \A id : id \in swept.pending <=> id \in pending \/ Amid(c, N, "request", id)
        /\ \A k \in 1..N : c[k].kind = "request" => c[k] \in ToSet(swept.content)
    BY <1>7, <1>12 DEF AssistantSwept
  <2>2. \A id : Has(m, "request", id) => Has(f, "request", id)
    <3>1. ASSUME NEW id, Amid(c, N, "request", id)
          PROVE  \E x \in ToSet(swept.content) : x.kind = "request" /\ x.id = id
      <4>1. PICK k \in 1..N : c[k].kind = "request" /\ c[k].id = id
        BY <3>1 DEF Amid
      <4> QED
        BY <2>1, <4>1
    <3> QED
      BY <1>6, <1>9, <3>1
  <2>3. \A id : id \in swept.pending <=> id \in pending \/ Has(m, "request", id)
    BY <1>6, <2>1
  <2> QED
    BY <1>8, <1>12, <2>2, <2>3 DEF f, swept, c
<1> QED
  BY <1>1, <1>11, <1>12 DEF Roles

\* The sweeps keep all where requests differ.
LEMMA SweptKeeps ==
    ASSUME NEW ms \in Seq(Seen(Items)), AskedOnce(ms)
    PROVE  Keeps(ms, Swept(ms))
<1> DEFINE t == Swept(ms)
           N == Len(ms)
<1>a. Items \in SUBSET Items
  OBVIOUS
<1>1. PICK pend : Pends(pend, ms) /\ SweptBy(pend, ms)
  BY <1>a, SweptEach, Zenon
<1>2. t \in Seq(Seen(Items)) /\ Len(t) = N
  BY <1>a, SweptIs
<1> DEFINE F(n) == FirstSweep(pend[n - 1], ms[n])
           final == pend[N]
<1>0. N \in Nat /\ \A n \in 1..N : n - 1 \in 0..N /\ n \in 0..N
  OBVIOUS
<1>3. /\ pend[0] = {}
      /\ \A n \in 0..N : pend[n] \in SUBSET Ids
      /\ \A n \in 1..N :
            pend[n] = SweepContent(ms[n].role, pend[n - 1], ms[n].content).pending
  BY <1>1 DEF Pends
<1>4. \A n \in 1..N : t[n] = DropPending(final, F(n)) /\ ms[n] \in Seen(Items)
  BY <1>1 DEF SweptBy
<1> HIDE DEF t, N, final
<1>5. ASSUME NEW n \in 1..N
      PROVE  /\ F(n) \in Seen(Items)
             /\ F(n).role = ms[n].role
             /\ ms[n].role = "user" =>
                   /\ \A id : id \in pend[n]
                                 <=> id \in pend[n - 1] /\ ~Has(ms[n], "response", id)
                   /\ \A id \in pend[n - 1] :
                         Has(ms[n], "response", id) => Has(F(n), "response", id)
                   /\ SaysSome(ms[n]) => SaysSome(F(n))
             /\ ms[n].role = "assistant" =>
                   /\ \A id : id \in pend[n]
                                 <=> id \in pend[n - 1] \/ Has(ms[n], "request", id)
                   /\ \A id : Has(ms[n], "request", id) => Has(F(n), "request", id)
  <2> DEFINE m == ms[n]
             p == pend[n - 1]
  <2>1. m \in Seen(Items) /\ p \in SUBSET Ids
    BY <1>0, <1>3, <1>4
  <2>2. pend[n] = SweepContent(m.role, p, m.content).pending
    BY <1>3
  <2> HIDE DEF m, p
  <2>3. LET f     == FirstSweep(p, m)
            after == SweepContent(m.role, p, m.content).pending
        IN  /\ f \in Seen(Items)
            /\ f.role = m.role
            /\ m.role = "user" =>
                  /\ \A id : id \in after <=> id \in p /\ ~Has(m, "response", id)
                  /\ \A id \in p : Has(m, "response", id) => Has(f, "response", id)
                  /\ SaysSome(m) => SaysSome(f)
            /\ m.role = "assistant" =>
                  /\ \A id : id \in after <=> id \in p \/ Has(m, "request", id)
                  /\ \A id : Has(m, "request", id) => Has(f, "request", id)
    BY <2>1, FirstSweepIs, Zenon
  <2> QED
    BY <2>2, <2>3 DEF m, p
<1>6. ASSUME NEW n \in 1..N
      PROVE  /\ t[n].role = ms[n].role
             /\ \A id : Has(F(n), "response", id) => Has(t[n], "response", id)
             /\ \A id : Has(F(n), "request", id) /\ id \notin final
                           => Has(t[n], "request", id)
             /\ SaysSome(F(n)) => SaysSome(t[n])
  <2> DEFINE f == F(n)
  <2>1. f \in Seen(Items) /\ f.role = ms[n].role /\ t[n] = DropPending(final, f)
    BY <1>4, <1>5
  <2> HIDE DEF f
  <2>2. /\ DropPending(final, f).role = f.role
        /\ \A id : Has(f, "response", id) => Has(DropPending(final, f), "response", id)
    BY <1>a, <2>1, DropIs
  <2>3. /\ \A id : Has(f, "request", id) /\ id \notin final
                      => Has(DropPending(final, f), "request", id)
        /\ SaysSome(f) => SaysSome(DropPending(final, f))
    BY <2>1, DropKeeps
  <2> QED
    BY <2>1, <2>2, <2>3 DEF f
<1>7. ASSUME SayFirst(ms)
      PROVE  SayFirst(t)
  <2>1. ms # <<>> /\ ms[1].role = "user" /\ SaysSome(ms[1])
    BY <1>7 DEF SayFirst
  <2>2. 1 \in 1..N
    BY <2>1 DEF N
  <2>3. t[1].role = "user" /\ SaysSome(t[1])
    BY <1>5, <1>6, <2>1, <2>2
  <2>4. t # <<>>
    BY <1>0, <1>2, <2>2
  <2> QED
    BY <2>3, <2>4 DEF SayFirst
<1>8. ASSUME NEW id, Answered(ms, id)
      PROVE  Answered(t, id)
  <2>1. PICK i \in 1..N, j \in 1..N :
           /\ i < j
           /\ ms[i].role = "assistant" /\ Has(ms[i], "request", id)
           /\ ms[j].role = "user" /\ Has(ms[j], "response", id)
    BY <1>8, AnsweredIs DEF N
  <2>2. \A n \in 1..N : Has(ms[n], "request", id) => n = i
    BY <2>1 DEF AskedOnce, N
  <2> DEFINE T == {n \in 0..N :
                     /\ n < i => id \notin pend[n]
                     /\ i <= n => \/ id \in pend[n]
                                  \/ \E b \in 1..n : /\ i < b
                                                     /\ ms[b].role = "user"
                                                     /\ Has(F(b), "response", id)
                     /\ j <= n => id \notin pend[n]}
  <2>3. 0 \in T
    <3>1. 0 \in 0..N /\ ~(i <= 0) /\ ~(j <= 0)
      BY <1>0
    <3> QED
      BY <1>3, <3>1
  <2>4. ASSUME NEW n \in 1..N, n - 1 \in T
        PROVE  n \in T
    <3>0. /\ n \in Nat /\ i \in Nat /\ j \in Nat /\ i < j /\ n - 1 < n
          /\ n \in 0..N
      BY <1>0, <2>1
    <3>a. /\ n - 1 < i => id \notin pend[n - 1]
          /\ i <= n - 1 => \/ id \in pend[n - 1]
                           \/ \E b \in 1..(n - 1) : /\ i < b
                                                    /\ ms[b].role = "user"
                                                    /\ Has(F(b), "response", id)
          /\ j <= n - 1 => id \notin pend[n - 1]
      BY <2>4
    <3>b. \A b \in 1..(n - 1) : b \in 1..n
      BY <3>0
    <3>c. n \in 1..n
      BY <3>0
    <3>1. CASE ms[n].role = "user"
      <4>1. /\ id \in pend[n] <=> id \in pend[n - 1] /\ ~Has(ms[n], "response", id)
            /\ id \in pend[n - 1] /\ Has(ms[n], "response", id)
                  => Has(F(n), "response", id)
        BY <1>5, <3>1
      <4>2. n # i
        BY <2>1, <3>1
      <4>3. n < i => id \notin pend[n]
        BY <3>0, <3>a, <4>1
      <4>4. ASSUME i <= n
            PROVE  \/ id \in pend[n]
                   \/ \E b \in 1..n : /\ i < b
                                      /\ ms[b].role = "user"
                                      /\ Has(F(b), "response", id)
        <5>1. i <= n - 1 /\ i < n
          BY <3>0, <4>2, <4>4
        <5> HIDE DEF F
        <5> QED
          BY <3>1, <3>a, <3>b, <3>c, <4>1, <5>1
      <4>5. ASSUME j <= n
            PROVE  id \notin pend[n]
        <5>1. j = n \/ j <= n - 1
          BY <3>0, <4>5
        <5> QED
          BY <2>1, <3>a, <4>1, <5>1
      <4> HIDE DEF F
      <4> QED
        BY <3>0, <4>3, <4>4, <4>5
    <3>2. CASE ms[n].role = "assistant"
      <4>1. /\ id \in pend[n] <=> id \in pend[n - 1] \/ Has(ms[n], "request", id)
        BY <1>5, <3>2
      <4>2. Has(ms[n], "request", id) <=> n = i
        BY <2>1, <2>2
      <4>3. n < i => id \notin pend[n]
        BY <3>0, <3>a, <4>1, <4>2
      <4>4. ASSUME i <= n
            PROVE  \/ id \in pend[n]
                   \/ \E b \in 1..n : /\ i < b
                                      /\ ms[b].role = "user"
                                      /\ Has(F(b), "response", id)
        <5>1. i <= n - 1 \/ i = n
          BY <3>0, <4>4
        <5> HIDE DEF F
        <5> QED
          BY <3>a, <3>b, <4>1, <4>2, <5>1
      <4>5. ASSUME j <= n
            PROVE  id \notin pend[n]
        <5>1. n # j
          BY <2>1, <3>2
        <5>2. j <= n - 1 /\ n # i
          BY <3>0, <4>5, <5>1
        <5> QED
          BY <3>a, <4>1, <4>2, <5>2
      <4> HIDE DEF F
      <4> QED
        BY <3>0, <4>3, <4>4, <4>5
    <3>3. ms[n].role \in Roles
      BY <1>4 DEF Seen
    <3> QED
      BY <3>1, <3>2, <3>3 DEF Roles
  <2>5. N \in T
    <3> HIDE DEF T
    <3>1. \A n \in 0..N : n \in T
      BY <1>0, <2>3, <2>4, Along
    <3> QED
      BY <1>0, <3>1
  <2>6. i <= N /\ j <= N
    BY <1>0
  <2>7. id \notin final
    BY <2>5, <2>6 DEF final
  <2>8. PICK b \in 1..N : i < b /\ ms[b].role = "user" /\ Has(F(b), "response", id)
    BY <2>5, <2>6, <2>7 DEF final
  <2>9. t[b].role = "user" /\ Has(t[b], "response", id)
    BY <1>6, <2>8
  <2>10. Has(F(i), "request", id)
    BY <1>5, <2>1
  <2>11. t[i].role = "assistant" /\ Has(t[i], "request", id)
    BY <1>6, <2>1, <2>7, <2>10
  <2> QED
    BY <1>2, <2>8, <2>9, <2>11, AnsweredIs
<1> QED
  BY <1>7, <1>8 DEF Keeps, t

-----------------------------------------------------------------------------
(*****************************************************************************)
(* What the passes keep together, and what is hidden.                      *)
(*****************************************************************************)

\* A part of a sequence of positions, in the order of the messages it is of.
LEMMA CollectedOrder ==
    ASSUME NEW merged, NEW ms, NEW n \in Nat, NEW p, Collected(merged, ms, n, p),
           NEW i \in 1..n, NEW j \in 1..n, i < j, ms[i].role # ms[j].role,
           Len(merged) \in Nat
    PROVE  p[i] < p[j]
<1>1. /\ p[i] \in 1..Len(merged) /\ p[j] \in 1..Len(merged)
      /\ p[i] <= p[j]
      /\ merged[p[i]].role = ms[i].role /\ merged[p[j]].role = ms[j].role
  BY DEF Collected
<1>2. p[i] # p[j]
  BY <1>1
<1> QED
  BY <1>1, <1>2

\* Merging messages keeps all.
LEMMA MergeKeeps ==
    ASSUME NEW ms \in Seq(Seen(Items))
    PROVE  Keeps(ms, MergeConsecutiveMessages(ms))
<1> DEFINE t == MergeConsecutiveMessages(ms)
           N == Len(ms)
           L == Len(t)
<1>a. Items \in SUBSET Items
  OBVIOUS
<1>1. t \in Seq(Seen(Items)) /\ \E p : Collected(t, ms, N, p)
  BY <1>a, MergeCollects
<1>2. PICK p : Collected(t, ms, N, p)
  BY <1>1
<1> HIDE DEF t
<1>0. L \in Nat /\ N \in Nat /\ \A i \in 1..N : ms[i] \in Seen(Items)
  BY <1>1
<1>3. /\ \A i \in 1..N : p[i] \in 1..L
      /\ \A i, j \in 1..N : i < j => p[i] <= p[j]
      /\ \A i \in 1..N : /\ t[p[i]].role = ms[i].role
                         /\ ToSet(ms[i].content) \subseteq ToSet(t[p[i]].content)
      /\ \A q \in 1..L : \E i \in 1..N : p[i] = q
  BY <1>2 DEF Collected
<1>4. \A q \in 1..L : t[q] \in Seen(Items)
  BY <1>1
<1>5. ASSUME NEW i \in 1..N, NEW kind, NEW id, Has(ms[i], kind, id)
      PROVE  Has(t[p[i]], kind, id)
  <2>1. ms[i] \in Seen(Items) /\ t[p[i]] \in Seen(Items)
    BY <1>0, <1>3, <1>4
  <2>2. PICK x \in ToSet(ms[i].content) : x.kind = kind /\ x.id = id
    BY <1>a, <1>5, <2>1, ByItems
  <2>3. x \in ToSet(t[p[i]].content)
    BY <1>3
  <2> QED
    BY <1>a, <2>1, <2>2, <2>3, ByItems
<1>6. ASSUME SayFirst(ms)
      PROVE  SayFirst(t)
  <2>1. ms # <<>> /\ ms[1].role = "user" /\ SaysSome(ms[1])
    BY <1>6 DEF SayFirst
  <2>2. 1 \in 1..N
    BY <2>1
  <2>3. 1 \in 1..L /\ p[1] \in 1..L
    BY <1>0, <1>3, <2>2
  <2>4. PICK i \in 1..N : p[i] = 1
    BY <1>3, <2>3
  <2>5. p[1] = 1
    <3>1. i = 1 \/ 1 < i
      BY <1>0
    <3>2. p[1] <= p[i]
      BY <1>0, <1>3, <2>2, <2>3, <3>1
    <3> QED
      BY <1>0, <2>3, <2>4, <3>2
  <2>6. t[1].role = "user" /\ ToSet(ms[1].content) \subseteq ToSet(t[1].content)
    BY <1>3, <2>1, <2>2, <2>5
  <2>7. SaysSome(t[1])
    BY <2>1, <2>6 DEF SaysSome
  <2>8. t # <<>>
    BY <1>1, <2>3
  <2> QED
    BY <2>6, <2>7, <2>8 DEF SayFirst
<1>7. ASSUME NEW id, Answered(ms, id)
      PROVE  Answered(t, id)
  <2>1. PICK i \in 1..N, j \in 1..N :
           /\ i < j
           /\ ms[i].role = "assistant" /\ Has(ms[i], "request", id)
           /\ ms[j].role = "user" /\ Has(ms[j], "response", id)
    BY <1>7, AnsweredIs
  <2>2. ms[i].role # ms[j].role
    BY <2>1
  <2>3. p[i] < p[j]
    BY <1>0, <1>2, <2>1, <2>2, CollectedOrder
  <2>4. Has(t[p[i]], "request", id) /\ Has(t[p[j]], "response", id)
    BY <1>5, <2>1
  <2>5. /\ p[i] \in 1..L /\ p[j] \in 1..L
        /\ t[p[i]].role = "assistant" /\ t[p[j]].role = "user"
    BY <1>3, <2>1
  <2> QED
    BY <1>1, <2>3, <2>4, <2>5, AnsweredIs
<1> QED
  BY <1>6, <1>7 DEF Keeps, t

\* Removing a last message of an assistant keeps all.
LEMMA RemoveTrailKeeps ==
    ASSUME NEW ms \in Seq(Seen(Items))
    PROVE  /\ Keeps(ms, RemoveTrail(ms))
           /\ RemoveTrail(ms) \in Seq(Seen(Items))
<1>1. CASE ms # <<>> /\ Last(ms).role = "assistant"
  <2> DEFINE t == Front(ms)
             N == Len(ms)
  <2>1. RemoveTrail(ms) = t
    BY <1>1 DEF RemoveTrail
  <2>2. /\ t \in Seq(Seen(Items)) /\ N \in Nat \ {0} /\ Len(t) = N - 1
        /\ \A n \in 1..(N - 1) : t[n] = ms[n]
        /\ ms[N].role = "assistant"
    BY <1>1, LastFront DEF Last
  <2> HIDE DEF t, N
  <2>3. \A n \in 1..N : ms[n].role = "user" => n \in 1..(N - 1)
    BY <2>2
  <2>4. ASSUME SayFirst(ms)
        PROVE  SayFirst(t)
    <3>1. ms # <<>> /\ ms[1].role = "user" /\ SaysSome(ms[1])
      BY <2>4 DEF SayFirst
    <3>2. 1 \in 1..N
      BY <2>2
    <3>3. 1 \in 1..(N - 1)
      BY <2>3, <3>1, <3>2
    <3>4. t[1] = ms[1] /\ t # <<>>
      BY <2>2, <3>3
    <3> QED
      BY <3>1, <3>4 DEF SayFirst
  <2>5. ASSUME NEW id, Answered(ms, id)
        PROVE  Answered(t, id)
    <3>1. PICK i \in 1..N, j \in 1..N :
             /\ i < j
             /\ ms[i].role = "assistant" /\ Has(ms[i], "request", id)
             /\ ms[j].role = "user" /\ Has(ms[j], "response", id)
      BY <2>5, AnsweredIs DEF N
    <3>2. j \in 1..(N - 1)
      BY <2>3, <3>1
    <3>3. i \in 1..(N - 1)
      BY <2>2, <3>1, <3>2
    <3>4. t[i] = ms[i] /\ t[j] = ms[j]
      BY <2>2, <3>2, <3>3
    <3> QED
      BY <2>2, <3>1, <3>2, <3>3, <3>4, AnsweredIs
  <2> QED
    BY <2>1, <2>2, <2>4, <2>5 DEF Keeps
<1>2. CASE ~(ms # <<>> /\ Last(ms).role = "assistant")
  <2>1. RemoveTrail(ms) = ms
    BY <1>2 DEF RemoveTrail
  <2> QED
    BY <2>1 DEF Keeps
<1> QED
  BY <1>1, <1>2

\* The fix keeps what it must.
LEMMA FixKeeps ==
    ASSUME NEW ms \in Seq(Seen(Items)), SayFirst(ms), AskedOnce(ms)
    PROVE  LET fixed == FixMessages(ms).messages
           IN  /\ SayFirst(fixed)
               /\ \A id : Answered(ms, id) => Answered(fixed, id)
               /\ Words(fixed) = Words(ms)
<1>1. PICK u : PassesOf(u, ms)
  BY FixPasses, Zenon
<1>2. /\ u[0] = ms
      /\ u[1] = Map(MergeTextContentInMessage, u[0])
      /\ u[2] = Map(TrimAssistantText, u[1])
      /\ u[3] = RemoveEmptyMessages(u[2])
      /\ u[4] = Map(FixEmptyToolResults, u[3])
      /\ u[5] = FixToolCalling(u[4])
      /\ u[6] = MergeConsecutiveMessages(u[5])
      /\ u[7] = RemoveLead(u[6])
      /\ u[8] = RemoveTrail(u[7])
      /\ u[9] = PopulateIfEmpty(u[8])
      /\ u[9] = FixMessages(ms).messages
  BY <1>1 DEF PassesOf
<1>a. Items \in SUBSET Items
  OBVIOUS
<1>3. /\ u[1] \in Seq(Seen(Items)) /\ Keeps(ms, u[1]) /\ AskedOnce(u[1])
      /\ Words(u[1]) = Words(ms)
  BY <1>2, EachTyped, EachKeeps, EachWords
<1>4. /\ u[2] \in Seq(Seen(Items)) /\ Keeps(u[1], u[2]) /\ AskedOnce(u[2])
      /\ Words(u[2]) = Words(u[1])
  BY <1>2, <1>3, EachTyped, EachKeeps, EachWords
<1>5. /\ u[3] \in Seq(Seen(Items)) /\ Keeps(u[2], u[3]) /\ AskedOnce(u[3])
      /\ Words(u[3]) = Words(u[2])
  BY <1>2, <1>4, RemoveEmptyIs, RemoveEmptyKeeps, RemoveEmptyWords
<1>6. /\ u[4] \in Seq(Seen(Items)) /\ Keeps(u[3], u[4]) /\ AskedOnce(u[4])
      /\ Words(u[4]) = Words(u[3])
  BY <1>2, <1>5, EachTyped, EachKeeps, EachWords, SoundSeen
<1>7. /\ u[5] \in Seq(Seen(Items)) /\ Keeps(u[4], u[5]) /\ Words(u[5]) = Words(u[4])
  <2> DEFINE s == Swept(u[4])
  <2>1. s \in Seq(Seen(Items))
    BY <1>a, <1>6, SweptIs
  <2>2. Keeps(u[4], s) /\ Words(s) = Words(u[4])
    BY <1>6, SweptKeeps, SweptWords
  <2>3. u[5] = RemoveEmptyMessages(s)
    BY <1>2 DEF FixToolCalling
  <2> HIDE DEF s
  <2>4. /\ u[5] \in Seq(Seen(Items)) /\ Keeps(s, u[5]) /\ Words(u[5]) = Words(s)
    BY <2>1, <2>3, RemoveEmptyIs, RemoveEmptyKeeps, RemoveEmptyWords
  <2> QED
    BY <2>2, <2>4 DEF Keeps
<1>8. /\ u[6] \in Seq(Seen(Items)) /\ Keeps(u[5], u[6]) /\ Words(u[6]) = Words(u[5])
  BY <1>2, <1>7, <1>a, MergeCollects, MergeKeeps, MergeWords
<1>9. SayFirst(u[6])
  BY <1>3, <1>4, <1>5, <1>6, <1>7, <1>8 DEF Keeps
<1>10. u[7] = u[6]
  <2>1. u[6] # <<>> /\ u[6][1].role = "user"
    BY <1>9 DEF SayFirst
  <2>2. Head(u[6]) = u[6][1]
    BY <1>8, <2>1
  <2> QED
    BY <1>2, <2>1, <2>2 DEF RemoveLead
<1>11. /\ u[8] \in Seq(Seen(Items)) /\ Keeps(u[7], u[8]) /\ Words(u[8]) = Words(u[7])
  BY <1>2, <1>8, <1>10, RemoveTrailKeeps, RemoveTrailWords
<1>12. SayFirst(u[8])
  BY <1>9, <1>10, <1>11 DEF Keeps
<1>13. u[9] = u[8]
  BY <1>2, <1>12 DEF PopulateIfEmpty, SayFirst
<1>14. \A id : Answered(ms, id) => Answered(u[9], id)
  BY <1>3, <1>4, <1>5, <1>6, <1>7, <1>8, <1>10, <1>11, <1>13 DEF Keeps
<1>15. Words(u[9]) = Words(ms)
  BY <1>3, <1>4, <1>5, <1>6, <1>7, <1>8, <1>10, <1>11, <1>13
<1> QED
  BY <1>2, <1>12, <1>13, <1>14, <1>15

\* The messages hidden from the agent.
OutOfSight == {m \in Messages : ~m.visible}

\* Hidden picks them, in their order.
LEMMA HiddenIs ==
    ASSUME NEW c \in Seq(Messages)
    PROVE  Hidden(c) = Among(c, OutOfSight)
<1> DEFINE S == {m \in ToSet(c) : ~m.visible}
<1>1. \A n \in 1..Len(c) : c[n] \in S <=> c[n] \in OutOfSight
  <2>1. \A n \in 1..Len(c) : c[n] \in ToSet(c) /\ c[n] \in Messages
    BY ItemsOf
  <2> QED
    BY <2>1 DEF OutOfSight
<1>2. Hidden(c) = Among(c, S)
  BY DEF Hidden
<1> HIDE DEF S
<1> QED
  BY <1>1, <1>2, AmongSame

\* A hidden message is put back, and nothing else that is hidden.
LEMMA PutHidden ==
    ASSUME NEW fixed \in Seq(Seen(Items)), NEW acc \in Refilled, NEW m \in Messages
    PROVE  Among(Put(fixed, acc, m).messages, OutOfSight) =
              IF m \in OutOfSight THEN Append(Among(acc.messages, OutOfSight), m)
                                  ELSE Among(acc.messages, OutOfSight)
<1> DEFINE s == acc.messages
           used == acc.used
           res == Put(fixed, acc, m)
<1>0. s \in Seq(Messages) /\ used \in Nat /\ Len(fixed) \in Nat
  BY DEF Refilled
<1>1. CASE ~m.visible
  <2>1. res.messages = Append(s, m)
    BY <1>1 DEF Put, Refilled
  <2>2. m \in OutOfSight
    BY <1>1 DEF OutOfSight
  <2> HIDE DEF s, res
  <2> QED
    BY <1>0, <2>1, <2>2, AmongAppend DEF res, s
<1>2. CASE m.visible /\ used < Len(fixed)
  <2> DEFINE f == fixed[used + 1]
  <2>1. res.messages = Append(s, f)
    BY <1>2 DEF Put
  <2>2. m \notin OutOfSight
    BY <1>2 DEF OutOfSight
  <2>3. used + 1 \in 1..Len(fixed)
    BY <1>0, <1>2
  <2>4. f \in Seen(Items)
    BY <2>3
  <2> HIDE DEF f
  <2>5. f \in Messages /\ f \notin OutOfSight
    BY <2>4 DEF Seen, Messages, OutOfSight
  <2> HIDE DEF s, res
  <2>6. Among(Append(s, f), OutOfSight) = Among(s, OutOfSight)
    BY <1>0, <2>5, AmongAppend
  <2> QED
    BY <2>1, <2>2, <2>6 DEF res, s
<1>3. CASE m.visible /\ ~(used < Len(fixed))
  <2>1. res.messages = s
    BY <1>3 DEF Put
  <2>2. m \notin OutOfSight
    BY <1>3 DEF OutOfSight
  <2> QED
    BY <2>1, <2>2
<1> QED
  BY <1>1, <1>2, <1>3

\* What is hidden stays as it is.
LEMMA RefillHidden ==
    ASSUME NEW c \in Seq(Messages), NEW fixed \in Seq(Seen(Items)),
           Refill(c, fixed) \in Seq(Messages)
    PROVE  Hidden(Refill(c, fixed)) = Hidden(c)
<1>1. PICK it : RefillAlong(it, c, fixed)
  BY RefillFold, Zenon
<1>2. PICK ih : AmongAlong(ih, c, OutOfSight, Messages)
  BY AmongFold, Zenon
<1> DEFINE N == Len(c)
<1>0. N \in Nat
  OBVIOUS
<1>3. /\ it[0] = [messages |-> <<>>, used |-> 0]
      /\ \A n \in 1..N : /\ it[n - 1] \in Refilled
                         /\ c[n] \in Messages
                         /\ it[n] = Put(fixed, it[n - 1], c[n])
      /\ it[N] = RefillAll(c, fixed)
  BY <1>1 DEF RefillAlong
<1>4. /\ ih[0] = <<>>
      /\ \A n \in 1..N : ih[n] = IF c[n] \in OutOfSight THEN Append(ih[n - 1], c[n])
                                                        ELSE ih[n - 1]
      /\ ih[N] = Among(c, OutOfSight)
  BY <1>2 DEF AmongAlong
<1> HIDE DEF N
<1> DEFINE T == {n \in 0..N : Among(it[n].messages, OutOfSight) = ih[n]}
<1>5. 0 \in T
  <2>1. it[0].messages = <<>> /\ 0 \in 0..N
    BY <1>0, <1>3
  <2> QED
    BY <1>4, <2>1, AmongEmpty
<1>6. ASSUME NEW n \in 1..N, n - 1 \in T
      PROVE  n \in T
  <2> DEFINE acc == it[n - 1]
             m == c[n]
  <2>1. acc \in Refilled /\ m \in Messages /\ it[n] = Put(fixed, acc, m)
    BY <1>3
  <2>2. Among(acc.messages, OutOfSight) = ih[n - 1]
    BY <1>6
  <2>3. ih[n] = IF m \in OutOfSight THEN Append(ih[n - 1], m) ELSE ih[n - 1]
    BY <1>4
  <2>4. n \in 0..N
    BY <1>0
  <2> HIDE DEF acc, m
  <2>5. Among(it[n].messages, OutOfSight) = ih[n]
    BY <2>1, <2>2, <2>3, PutHidden
  <2> QED
    BY <2>4, <2>5
<1>7. N \in T
  <2> HIDE DEF T
  <2>1. \A n \in 0..N : n \in T
    BY <1>0, <1>5, <1>6, Along
  <2> QED
    BY <1>0, <2>1
<1>8. Refill(c, fixed) = it[N].messages
  BY <1>3 DEF Refill, RefillAll
<1>9. Among(Refill(c, fixed), OutOfSight) = Among(c, OutOfSight)
  BY <1>4, <1>7, <1>8
<1> QED
  BY <1>9, HiddenIs

\* Requests that differ, by the messages they are in.
LEMMA RequestsDifferIs ==
    ASSUME NEW ms \in Seq(Seen(Items)), RequestsDiffer(ms)
    PROVE  AskedOnce(ms)
<1>1. DOMAIN ms = 1..Len(ms)
  OBVIOUS
<1>2. ASSUME NEW i \in 1..Len(ms), NEW j \in 1..Len(ms), NEW id,
             Has(ms[i], "request", id), Has(ms[j], "request", id)
      PROVE  i = j
  <2>1. PICK k \in DOMAIN ms[i].content :
           ms[i].content[k].kind = "request" /\ ms[i].content[k].id = id
    BY <1>2 DEF Has
  <2>2. PICK l \in DOMAIN ms[j].content :
           ms[j].content[l].kind = "request" /\ ms[j].content[l].id = id
    BY <1>2 DEF Has
  <2>3. ms[i].content[k] \in Items /\ ms[j].content[l] \in Items
    <3>1. ms[i] \in Seen(Items) /\ ms[j] \in Seen(Items)
      OBVIOUS
    <3>2. ms[i].content \in Seq(Items) /\ ms[j].content \in Seq(Items)
      BY <3>1 DEF Seen
    <3> QED
      BY <3>2
  <2>4. ms[i].content[k] \in Calls /\ ms[j].content[l] \in Calls
    BY <2>1, <2>2, <2>3, ItemKinds
  <2>5. ms[i].content[k] = ms[j].content[l]
    BY <2>1, <2>2, <2>4 DEF Calls
  <2> QED
    BY <1>1, <2>1, <2>2, <2>5 DEF RequestsDiffer
<1> QED
  BY <1>2 DEF AskedOnce

\* A conversation that is well begun, in the words of the lemmas.
LEMMA WellBegunIs ==
    ASSUME NEW c \in Seq(Messages), conversation = c, WellBegun
    PROVE  SayFirst(Visible(c)) /\ AskedOnce(Visible(c))
<1> DEFINE ms == Visible(c)
<1>1. ms \in Seq(Seen(Items))
  BY VisibleIs
<1>2. /\ ms # <<>> /\ Head(ms).role = "user"
      /\ \E k \in DOMAIN Head(ms).content :
            IsText(Head(ms).content[k]) /\ ~IsEmptyText(Head(ms).content[k])
      /\ RequestsDiffer(ms)
  BY DEF WellBegun
<1> HIDE DEF ms
<1>3. Head(ms) = ms[1]
  BY <1>1, <1>2
<1>4. SayFirst(ms)
  <2>1. SaysSome(ms[1])
    BY <1>2, <1>3 DEF SaysSome, ToSet
  <2> QED
    BY <1>2, <1>3, <2>1 DEF SayFirst
<1>5. AskedOnce(ms)
  BY <1>1, <1>2, RequestsDifferIs
<1> QED
  BY <1>4, <1>5 DEF ms

\* The repair of a conversation that is well begun loses no words of users, no
\* answered call and nothing that is hidden.
THEOREM KeptByRepair == Spec => []RepairKeeps
<1>1. Signing => RepairKeeps
  <2> SUFFICES ASSUME Signing, WellBegun
               PROVE  LET fixed == FixConversation(conversation).messages
                          before == Visible(conversation)
                          after == Visible(fixed)
                      IN  /\ Words(after) = Words(before)
                          /\ \A id \in Ids : Answered(before, id) => Answered(after, id)
                          /\ Hidden(fixed) = Hidden(conversation)
    BY DEF RepairKeeps
  <2> DEFINE c == conversation
             v == Visible(c)
             fixed == FixMessages(v).messages
             r == Refill(c, fixed)
  <2>1. c \in Seq(Messages)
    BY WellSignedMessages DEF Signing
  <2>2. v \in Seq(Seen(Items)) /\ SayFirst(v) /\ AskedOnce(v)
    BY <2>1, VisibleIs, WellBegunIs
  <2>3. FixConversation(c).messages = r
    BY DEF FixConversation
  <2> HIDE DEF v, c
  <2>4. /\ fixed \in Seq(Seen(Items))
        /\ Len(fixed) <= Len(v) \/ Len(fixed) = 1
    BY <2>2, FixMessagesIs, SoundSeen
  <2>5. /\ \A id : Answered(v, id) => Answered(fixed, id)
        /\ Words(fixed) = Words(v)
    BY <2>2, FixKeeps
  <2> HIDE DEF fixed
  <2>6. Len(fixed) <= Len(v)
    <3> DEFINE L == Len(fixed)
               N == Len(v)
    <3>1. N \in Nat /\ N # 0 /\ L \in Nat
      BY <2>2, <2>4 DEF SayFirst
    <3>2. L <= N \/ L = 1
      BY <2>4
    <3> HIDE DEF L, N
    <3>3. L <= N
      BY <3>1, <3>2
    <3> QED
      BY <3>3 DEF L, N
  <2>7. r \in Seq(Messages) /\ Visible(r) = fixed
    BY <2>1, <2>4, <2>6, RefillIs DEF v
  <2>8. Hidden(r) = Hidden(c)
    BY <2>1, <2>4, <2>7, RefillHidden
  <2> HIDE DEF r
  <2> QED
    BY <2>3, <2>5, <2>7, <2>8 DEF c, v
<1> QED
  BY <1>1, SigningInit, SigningNext, PTL DEF Spec

-----------------------------------------------------------------------------
(***************************************************************************)
(* RepairSettles: what is repaired once stays.  A content is kept by the   *)
(* sweep if no item of it is dropped, messages are tidy if all of them are *)
(* kept, one after the other, and nothing is pending in the end.  Tidiness *)
(* is what the sweeps make and what the later passes leave, and with it    *)
(* every pass of a second repair but the first finds nothing to do.        *)
(***************************************************************************)

\* The sweep keeps x for that role, and what is pending goes from p to q.
Takes(role, p, x, q) ==
    /\ x.kind \notin Misplaced(role)
    /\ x.kind = "response" => x.id \in p
    /\ q = IF x.kind = "response" THEN p \ {x.id}
           ELSE IF x.kind = "request" THEN p \cup {x.id} ELSE p

\* acc with one more item.
More(acc, x, q) == [content |-> Append(acc.content, x), pending |-> q]

\* An item is kept or left out.
LEMMA SweepTakes ==
    ASSUME NEW acc \in Swiped(Items), NEW role, NEW x
    PROVE  /\ \A q : Takes(role, acc.pending, x, q)
                        => Sweep(acc, role, x) = More(acc, x, q)
           /\ \/ \E q : Takes(role, acc.pending, x, q)
              \/ Sweep(acc, role, x) = acc
<1>1. CASE x.kind \in Misplaced(role)
  BY <1>1 DEF Takes, Sweep
<1>2. CASE x.kind \notin Misplaced(role) /\ x.kind = "response"
  <2>1. CASE x.id \in acc.pending
    BY <1>2, <2>1 DEF Takes, Sweep, StillPending, More
  <2>2. CASE x.id \notin acc.pending
    BY <1>2, <2>2 DEF Takes, Sweep
  <2> QED
    BY <2>1, <2>2
<1>3. CASE x.kind \notin Misplaced(role) /\ x.kind # "response"
  BY <1>3 DEF Takes, Sweep, More
<1> QED
  BY <1>1, <1>2, <1>3

\* The sweep keeps all of c, and what is pending goes from p to q.
Kept(role, p, c, q) ==
    SweepContent(role, p, c) = [content |-> c, pending |-> q]

\* r is what is pending after each item of c, all of which are kept.
KeptAlong(r, role, p, c, q) ==
    /\ r \in [0..Len(c) -> SUBSET Ids]
    /\ r[0] = p
    /\ \A n \in 1..Len(c) : Takes(role, r[n - 1], c[n], r[n])
    /\ r[Len(c)] = q

\* A content of which all is kept item by item is kept.
LEMMA KeptFrom ==
    ASSUME NEW c \in Seq(Items), NEW role, NEW p \in SUBSET Ids, NEW q, NEW r,
           KeptAlong(r, role, p, c, q)
    PROVE  Kept(role, p, c, q)
<1>a. Items \in SUBSET Items
  OBVIOUS
<1>1. PICK it : ContentAlong(it, role, p, c, Items)
  BY <1>a, SweepContentFold, Zenon
<1> DEFINE N == Len(c)
<1>0. N \in Nat
  OBVIOUS
<1>2. /\ it[0] = [content |-> <<>>, pending |-> p]
      /\ \A n \in 1..N :
            /\ it[n - 1] \in Swiped(Items)
            /\ it[n] = Sweep(it[n - 1], role, c[n])
      /\ \A n \in 0..N : it[n] \in Swiped(Items)
      /\ it[N] = SweepContent(role, p, c)
  BY <1>1 DEF ContentAlong
<1>3. /\ r[0] = p /\ r[N] = q
      /\ \A n \in 1..N : Takes(role, r[n - 1], c[n], r[n])
  BY DEF KeptAlong
<1>4. \A n \in 1..N : c[n] \in Items /\ n - 1 \in 0..N /\ n \in 0..N
  OBVIOUS
<1> HIDE DEF N
<1> DEFINE T == {n \in 0..N : /\ it[n].pending = r[n]
                              /\ Len(it[n].content) = n
                              /\ \A i \in 1..n : it[n].content[i] = c[i]}
<1>5. 0 \in T
  <2>1. it[0].content = <<>> /\ it[0].pending = p /\ Len(<<>>) = 0 /\ 1..0 = {}
    BY <1>2
  <2> QED
    BY <1>0, <1>3, <2>1
<1>6. ASSUME NEW n \in 1..N, n - 1 \in T
      PROVE  n \in T
  <2> DEFINE acc == it[n - 1]
             old == acc.content
             x == c[n]
             new == Append(old, x)
  <2>1. /\ acc \in Swiped(Items) /\ acc.pending = r[n - 1] /\ Len(old) = n - 1
        /\ \A i \in 1..(n - 1) : old[i] = c[i]
    BY <1>2, <1>6
  <2>2. it[n] = Sweep(acc, role, x)
    BY <1>2
  <2>a. Takes(role, acc.pending, x, r[n])
    BY <1>3, <2>1
  <2>b. acc \in Swiped(Items)
    BY <2>1
  <2>3. old \in Seq(Items) /\ x \in Items
    BY <1>4, <2>1 DEF Swiped
  <2> HIDE DEF acc, x
  <2>5. it[n] = [content |-> new, pending |-> r[n]]
    <3>1. Sweep(acc, role, x) = More(acc, x, r[n])
      BY <2>a, <2>b, SweepTakes
    <3> QED
      BY <2>2, <3>1 DEF More
  <2> HIDE DEF old, x
  <2>6. n \in Nat /\ n > 0 /\ n - 1 + 1 = n
    BY <1>0
  <2>7. /\ Len(new) = n /\ new[n] = x
        /\ \A i \in 1..(n - 1) : new[i] = old[i]
    BY <2>1, <2>3, <2>6
  <2> HIDE DEF new
  <2>8. ASSUME NEW i \in 1..n
        PROVE  new[i] = c[i]
    <3>1. CASE i = n
      BY <2>7, <3>1 DEF x
    <3>2. CASE i # n
      <4>1. i \in 1..(n - 1)
        BY <2>6, <3>2
      <4> QED
        BY <2>1, <2>7, <4>1
    <3> QED
      BY <3>1, <3>2
  <2> QED
    BY <1>4, <2>5, <2>7, <2>8
<1>7. N \in T
  <2> HIDE DEF T
  <2>1. \A n \in 0..N : n \in T
    BY <1>0, <1>5, <1>6, Along
  <2> QED
    BY <1>0, <2>1
<1> DEFINE d == it[N].content
<1>8. d \in Seq(Items) /\ it[N] = [content |-> d, pending |-> it[N].pending]
  <2>1. N \in 0..N
    BY <1>0
  <2> QED
    BY <1>2, <2>1 DEF Swiped
<1>9. Len(d) = Len(c) /\ \A i \in 1..Len(c) : d[i] = c[i]
  BY <1>7 DEF N
<1> HIDE DEF d
<1>10. d = c
  <2>1. d = [i \in 1..Len(d) |-> d[i]] /\ c = [i \in 1..Len(c) |-> c[i]]
    BY <1>8
  <2> QED
    BY <1>9, <2>1
<1> QED
  BY <1>2, <1>3, <1>7, <1>8, <1>10 DEF Kept

\* And what is kept is kept item by item.
LEMMA KeptSteps ==
    ASSUME NEW c \in Seq(Items), NEW role, NEW p \in SUBSET Ids, NEW q,
           Kept(role, p, c, q)
    PROVE  \E r : KeptAlong(r, role, p, c, q)
<1>a. Items \in SUBSET Items
  OBVIOUS
<1>1. PICK it : ContentAlong(it, role, p, c, Items)
  BY <1>a, SweepContentFold, Zenon
<1> DEFINE N == Len(c)
           r == [n \in 0..N |-> it[n].pending]
           L(n) == Len(it[n].content)
<1>0. N \in Nat
  OBVIOUS
<1>2. /\ it[0] = [content |-> <<>>, pending |-> p]
      /\ \A n \in 1..N :
            /\ it[n - 1] \in Swiped(Items)
            /\ it[n] = Sweep(it[n - 1], role, c[n])
      /\ \A n \in 0..N : it[n] \in Swiped(Items)
      /\ it[N] = SweepContent(role, p, c)
  BY <1>1 DEF ContentAlong
<1>3. \A n \in 1..N : c[n] \in Items /\ n - 1 \in 0..N /\ n \in 0..N
  OBVIOUS
<1>4. L(0) = 0 /\ L(N) = N /\ it[N].pending = q
  BY <1>2 DEF Kept
<1>b. \A n \in 0..N : L(n) \in Nat
  BY <1>2 DEF Swiped
<1>c. \A n \in 0..N : r[n] = it[n].pending
  OBVIOUS
<1> HIDE DEF N, L, r
<1>5. ASSUME NEW n \in 1..N
      PROVE  \/ L(n) = L(n - 1) + 1 /\ Takes(role, it[n - 1].pending, c[n], it[n].pending)
             \/ L(n) = L(n - 1)
  <2> DEFINE acc == it[n - 1]
             old == acc.content
             x == c[n]
  <2>1. acc \in Swiped(Items) /\ it[n] = Sweep(acc, role, x) /\ x \in Items
    BY <1>2, <1>3
  <2>2. old \in Seq(Items)
    BY <2>1 DEF Swiped
  <2> HIDE DEF acc, x
  <2>3. Len(Append(old, x)) = Len(old) + 1
    <3> HIDE DEF old
    <3> QED
      BY <2>1, <2>2
  <2>4. CASE \E q1 : Takes(role, acc.pending, x, q1)
    <3>1. PICK q1 : Takes(role, acc.pending, x, q1)
      BY <2>4
    <3>2. it[n] = [content |-> Append(old, x), pending |-> q1]
      <4>1. Sweep(acc, role, x) = More(acc, x, q1)
        BY <2>1, <3>1, SweepTakes, Zenon
      <4> QED
        BY <2>1, <4>1 DEF More
    <3>3. it[n].content = Append(old, x) /\ it[n].pending = q1
      BY <3>2
    <3> QED
      BY <2>3, <3>1, <3>3 DEF L, acc, x
  <2>5. CASE ~\E q1 : Takes(role, acc.pending, x, q1)
    <3>1. it[n] = acc
      <4>1. Sweep(acc, role, x) = acc
        BY <2>1, <2>5, SweepTakes, Zenon
      <4> QED
        BY <2>1, <4>1
    <3> QED
      BY <3>1 DEF L, acc
  <2> QED
    BY <2>4, <2>5
<1>6. \A n \in 0..N : L(n) <= n
  <2> DEFINE T == {n \in 0..N : L(n) <= n}
  <2>1. 0 \in T
    BY <1>0, <1>4
  <2>2. ASSUME NEW n \in 1..N, n - 1 \in T
        PROVE  n \in T
    BY <1>0, <1>3, <1>5, <1>b, <2>2
  <2>3. \A n \in 0..N : n \in T
    <3> HIDE DEF T
    <3> QED
      BY <1>0, <2>1, <2>2, Along
  <2> QED
    BY <2>3
<1>7. ASSUME NEW k \in 1..N, L(k) = L(k - 1)
      PROVE  FALSE
  <2> DEFINE T == {n \in 0..N : n >= k => L(n) <= n - 1}
  <2>1. 0 \in T
    BY <1>0
  <2>2. ASSUME NEW n \in 1..N, n - 1 \in T
        PROVE  n \in T
    <3>1. CASE n = k
      <4>1. L(n) = L(n - 1) /\ L(n - 1) <= n - 1
        BY <1>3, <1>6, <1>7, <3>1
      <4> QED
        BY <1>3, <4>1
    <3>2. CASE n # k
      BY <1>0, <1>3, <1>5, <1>b, <2>2, <3>2
    <3> QED
      BY <3>1, <3>2
  <2>3. \A n \in 0..N : n \in T
    <3> HIDE DEF T
    <3> QED
      BY <1>0, <2>1, <2>2, Along
  <2>4. L(N) <= N - 1
    BY <1>0, <2>3
  <2> QED
    BY <1>0, <1>4, <2>4
<1>8. \A n \in 1..N : Takes(role, r[n - 1], c[n], r[n])
  BY <1>3, <1>5, <1>7, <1>c
<1>9. r[0] = p /\ r[N] = q
  BY <1>0, <1>2, <1>4, <1>c
<1>10. r \in [0..N -> SUBSET Ids]
  <2>1. \A n \in 0..N : it[n].pending \in SUBSET Ids
    BY <1>2 DEF Swiped
  <2> QED
    BY <2>1 DEF r
<1> QED
  BY <1>8, <1>9, <1>10 DEF KeptAlong, N

\* What is pending are ids, before and after.
LEMMA KeptTyped ==
    ASSUME NEW c \in Seq(Items), NEW role, NEW p \in SUBSET Ids, NEW q,
           Kept(role, p, c, q)
    PROVE  q \in SUBSET Ids
<1>a. Items \in SUBSET Items
  OBVIOUS
<1>1. SweepContent(role, p, c) \in Swiped(Items)
  BY <1>a, SweepContentTyped, Zenon
<1> QED
  BY <1>1 DEF Kept, Swiped

\* So they are where one more item is kept.
LEMMA TakesTyped ==
    ASSUME NEW x \in Items, NEW role, NEW p \in SUBSET Ids, NEW q,
           Takes(role, p, x, q)
    PROVE  q \in SUBSET Ids
<1>1. x.kind = "request" => x.id \in Ids
  BY ItemKinds DEF Calls
<1> QED
  BY <1>1 DEF Takes

\* All of nothing is kept.
LEMMA KeptEmpty ==
    ASSUME NEW role, NEW p \in SUBSET Ids
    PROVE  Kept(role, p, <<>>, p)
<1> DEFINE r == [n \in 0..0 |-> p]
           c == <<>>
<1>1. Len(c) = 0 /\ 1..0 = {} /\ c \in Seq(Items)
  OBVIOUS
<1>2. r \in [0..0 -> SUBSET Ids] /\ r[0] = p
  OBVIOUS
<1> HIDE DEF r, c
<1>3. KeptAlong(r, role, p, c, p)
  BY <1>1, <1>2 DEF KeptAlong
<1>4. Kept(role, p, c, p)
  BY <1>1, <1>3, KeptFrom, Zenon
<1> QED
  BY <1>4 DEF c

\* One more item is kept.
LEMMA KeptAppend ==
    ASSUME NEW c \in Seq(Items), NEW role, NEW p \in SUBSET Ids, NEW s, NEW q,
           NEW x \in Items, Kept(role, p, c, s), Takes(role, s, x, q)
    PROVE  Kept(role, p, Append(c, x), q)
<1> DEFINE N == Len(c)
           u == Append(c, x)
<1>0. s \in SUBSET Ids /\ q \in SUBSET Ids
  BY KeptTyped, TakesTyped
<1>1. PICK r : KeptAlong(r, role, p, c, s)
  BY KeptSteps, Zenon
<1> DEFINE v == [n \in 0..(N + 1) |-> IF n = N + 1 THEN q ELSE r[n]]
<1>2. /\ u \in Seq(Items) /\ Len(u) = N + 1 /\ N \in Nat
      /\ u[N + 1] = x /\ \A k \in 1..N : u[k] = c[k]
  OBVIOUS
<1>3. /\ r \in [0..N -> SUBSET Ids] /\ r[0] = p /\ r[N] = s
      /\ \A n \in 1..N : Takes(role, r[n - 1], c[n], r[n])
  BY <1>1 DEF KeptAlong
<1> HIDE DEF N, u
<1>4. \A n \in 0..N : n \in 0..(N + 1) /\ n # N + 1
  BY <1>2
<1>5. v[N + 1] = q /\ \A n \in 0..N : v[n] = r[n]
  <2>1. N + 1 \in 0..(N + 1)
    BY <1>2
  <2> QED
    BY <1>4, <2>1
<1>6. v \in [0..(N + 1) -> SUBSET Ids]
  <2>1. ASSUME NEW n \in 0..(N + 1)
        PROVE  v[n] \in SUBSET Ids
    <3>1. n = N + 1 \/ n \in 0..N
      BY <1>2
    <3> QED
      BY <1>0, <1>3, <1>5, <3>1
  <2>2. v = [n \in 0..(N + 1) |-> v[n]]
    OBVIOUS
  <2> HIDE DEF v
  <2> QED
    BY <2>1, <2>2
<1> HIDE DEF v
<1>7. ASSUME NEW n \in 1..(N + 1)
      PROVE  Takes(role, v[n - 1], u[n], v[n])
  <2>1. CASE n = N + 1
    <3>1. n - 1 = N /\ N \in 0..N
      BY <1>2, <2>1
    <3>2. v[n - 1] = s /\ u[n] = x /\ v[n] = q
      BY <1>2, <1>3, <1>5, <2>1, <3>1
    <3> QED
      BY <3>2
  <2>2. CASE n # N + 1
    <3>1. n \in 1..N /\ n \in 0..N /\ n - 1 \in 0..N
      BY <1>2, <2>2
    <3>2. v[n - 1] = r[n - 1] /\ u[n] = c[n] /\ v[n] = r[n]
      BY <1>2, <1>5, <3>1
    <3> QED
      BY <1>3, <3>1, <3>2
  <2> QED
    BY <2>1, <2>2
<1>8. v[0] = p
  <2>1. 0 \in 0..N
    BY <1>2
  <2> QED
    BY <1>3, <1>5, <2>1
<1>9. KeptAlong(v, role, p, u, q)
  BY <1>2, <1>5, <1>6, <1>7, <1>8 DEF KeptAlong
<1>10. Kept(role, p, u, q)
  BY <1>2, <1>9, KeptFrom, Zenon
<1> QED
  BY <1>10 DEF u

\* Contents that are kept one after the other are kept together.
LEMMA KeptConcat ==
    ASSUME NEW a \in Seq(Items), NEW b \in Seq(Items), NEW role,
           NEW p \in SUBSET Ids, NEW s, NEW q,
           Kept(role, p, a, s), Kept(role, s, b, q)
    PROVE  Kept(role, p, a \o b, q)
<1> DEFINE K == Len(a)
           L == Len(b)
           u == a \o b
<1>0. s \in SUBSET Ids /\ q \in SUBSET Ids
  <2>1. s \in SUBSET Ids
    BY KeptTyped, Zenon
  <2> QED
    BY <2>1, KeptTyped, Zenon
<1>1. PICK r : KeptAlong(r, role, p, a, s)
  BY KeptSteps, Zenon
<1>2. PICK t : KeptAlong(t, role, s, b, q)
  BY <1>0, KeptSteps, Zenon
<1> DEFINE v == [n \in 0..(K + L) |-> IF n <= K THEN r[n] ELSE t[n - K]]
<1>3. /\ u \in Seq(Items) /\ Len(u) = K + L /\ K \in Nat /\ L \in Nat
      /\ \A n \in 1..(K + L) : u[n] = IF n <= K THEN a[n] ELSE b[n - K]
  OBVIOUS
<1>4. /\ r \in [0..K -> SUBSET Ids] /\ r[0] = p /\ r[K] = s
      /\ \A n \in 1..K : Takes(role, r[n - 1], a[n], r[n])
  BY <1>1 DEF KeptAlong
<1>5. /\ t \in [0..L -> SUBSET Ids] /\ t[0] = s /\ t[L] = q
      /\ \A n \in 1..L : Takes(role, t[n - 1], b[n], t[n])
  BY <1>2 DEF KeptAlong
<1> HIDE DEF K, L, u
<1>6. \A n \in 0..K : n \in 0..(K + L) /\ n <= K
  BY <1>3
<1>7. \A n \in 0..K : v[n] = r[n]
  BY <1>6
<1>8. \A n \in 0..L : v[K + n] = t[n]
  <2> SUFFICES ASSUME NEW n \in 0..L
               PROVE  v[K + n] = t[n]
    OBVIOUS
  <2>1. K + n \in 0..(K + L) /\ K + n - K = n
    BY <1>3
  <2>2. CASE n = 0
    <3>1. K + n = K /\ K \in 0..K
      BY <1>3, <2>2
    <3> QED
      BY <1>4, <1>5, <1>7, <2>2, <3>1
  <2>3. CASE n # 0
    <3> DEFINE k == K + n
    <3>1. k \in 0..(K + L) /\ ~(k <= K) /\ k - K = n
      BY <1>3, <2>1, <2>3
    <3> HIDE DEF k
    <3>2. v[k] = t[k - K]
      BY <3>1
    <3> QED
      BY <3>1, <3>2 DEF k
  <2> QED
    BY <2>2, <2>3
<1>9. \A n \in 0..(K + L) : n \in 0..K \/ (n - K \in 0..L /\ n = K + (n - K))
  BY <1>3
<1>10. v \in [0..(K + L) -> SUBSET Ids]
  <2>1. ASSUME NEW n \in 0..(K + L)
        PROVE  v[n] \in SUBSET Ids
    <3>1. CASE n \in 0..K
      BY <1>4, <1>7, <3>1
    <3>2. CASE n - K \in 0..L /\ n = K + (n - K)
      <4>1. v[n] = t[n - K]
        BY <1>8, <3>2
      <4> QED
        BY <1>5, <3>2, <4>1
    <3> QED
      BY <1>9, <3>1, <3>2
  <2>2. v = [n \in 0..(K + L) |-> v[n]]
    OBVIOUS
  <2> HIDE DEF v
  <2> QED
    BY <2>1, <2>2
<1> HIDE DEF v
<1>11. ASSUME NEW n \in 1..(K + L)
       PROVE  Takes(role, v[n - 1], u[n], v[n])
  <2>1. CASE n <= K
    <3>1. n \in 1..K /\ n \in 0..K /\ n - 1 \in 0..K
      BY <1>3, <2>1
    <3>2. v[n - 1] = r[n - 1] /\ u[n] = a[n] /\ v[n] = r[n]
      BY <1>3, <1>7, <2>1, <3>1
    <3> QED
      BY <1>4, <3>1, <3>2
  <2>2. CASE ~(n <= K)
    <3> DEFINE m == n - K
    <3>1. m \in 1..L /\ m \in 0..L /\ m - 1 \in 0..L /\ n = K + m /\ n - 1 = K + (m - 1)
      BY <1>3, <2>2
    <3>2. u[n] = b[m]
      BY <1>3, <2>2
    <3> HIDE DEF m
    <3>3. v[n - 1] = t[m - 1] /\ v[n] = t[m]
      BY <1>8, <3>1
    <3> QED
      BY <1>5, <3>1, <3>2, <3>3
  <2> QED
    BY <2>1, <2>2
<1>12. v[0] = p /\ v[K + L] = q
  <2>1. 0 \in 0..K /\ L \in 0..L
    BY <1>3
  <2> QED
    BY <1>4, <1>5, <1>7, <1>8, <2>1
<1>13. KeptAlong(v, role, p, u, q)
  BY <1>3, <1>10, <1>11, <1>12 DEF KeptAlong
<1>14. Kept(role, p, u, q)
  BY <1>3, <1>13, KeptFrom, Zenon
<1> QED
  BY <1>14 DEF u

\* Which texts there are does not matter.
LEMMA KeptLike ==
    ASSUME NEW c \in Seq(Items), NEW d \in Seq(Items), NEW role,
           NEW p \in SUBSET Ids, NEW q, Kept(role, p, c, q), Len(d) = Len(c),
           \A n \in 1..Len(c) : d[n] = c[n] \/ (IsText(c[n]) /\ IsText(d[n]))
    PROVE  Kept(role, p, d, q)
<1>1. PICK r : KeptAlong(r, role, p, c, q)
  BY KeptSteps, Zenon
<1>2. ASSUME NEW n \in 1..Len(c)
      PROVE  Takes(role, r[n - 1], d[n], r[n])
  <2>1. Takes(role, r[n - 1], c[n], r[n])
    BY <1>1 DEF KeptAlong
  <2>2. CASE d[n] = c[n]
    BY <2>1, <2>2
  <2>3. CASE IsText(c[n]) /\ IsText(d[n])
    BY <2>1, <2>3 DEF Takes, IsText
  <2> QED
    BY <2>2, <2>3
<1>3. KeptAlong(r, role, p, d, q)
  BY <1>1, <1>2 DEF KeptAlong
<1> QED
  BY <1>3, KeptFrom, Zenon

\* Texts leave what is pending.
LEMMA KeptTexts ==
    ASSUME NEW c \in Seq(Items), NEW role, NEW p \in SUBSET Ids, NEW q,
           Kept(role, p, c, q), \A n \in 1..Len(c) : IsText(c[n])
    PROVE  q = p
<1>1. PICK r : KeptAlong(r, role, p, c, q)
  BY KeptSteps, Zenon
<1> DEFINE N == Len(c)
           T == {n \in 0..N : r[n] = p}
<1>0. N \in Nat
  OBVIOUS
<1>2. 0 \in T
  BY <1>0, <1>1 DEF KeptAlong
<1>3. ASSUME NEW n \in 1..N, n - 1 \in T
      PROVE  n \in T
  <2>1. Takes(role, r[n - 1], c[n], r[n]) /\ r[n - 1] = p /\ IsText(c[n])
    BY <1>1, <1>3 DEF KeptAlong
  <2>2. r[n] = p
    BY <2>1 DEF Takes, IsText
  <2> QED
    BY <2>2
<1>4. N \in T
  <2> HIDE DEF T
  <2>1. \A n \in 0..N : n \in T
    BY <1>0, <1>2, <1>3, Along
  <2> QED
    BY <1>0, <2>1
<1> QED
  BY <1>1, <1>4 DEF KeptAlong

\* What an assistant says takes nothing off what is pending.
LEMMA KeptGrows ==
    ASSUME NEW c \in Seq(Items), NEW p \in SUBSET Ids, NEW q,
           Kept("assistant", p, c, q)
    PROVE  p \subseteq q
<1>1. PICK r : KeptAlong(r, "assistant", p, c, q)
  BY KeptSteps, Zenon
<1> DEFINE N == Len(c)
           T == {n \in 0..N : p \subseteq r[n]}
<1>0. N \in Nat
  OBVIOUS
<1>2. 0 \in T
  BY <1>0, <1>1 DEF KeptAlong
<1>3. ASSUME NEW n \in 1..N, n - 1 \in T
      PROVE  n \in T
  <2>1. Takes("assistant", r[n - 1], c[n], r[n]) /\ p \subseteq r[n - 1]
    BY <1>1, <1>3 DEF KeptAlong
  <2>2. p \subseteq r[n]
    BY <2>1 DEF Takes, Misplaced
  <2> QED
    BY <2>2
<1>4. N \in T
  <2> HIDE DEF T
  <2>1. \A n \in 0..N : n \in T
    BY <1>0, <1>2, <1>3, Along
  <2> QED
    BY <1>0, <2>1
<1> QED
  BY <1>1, <1>4 DEF KeptAlong

\* The items that are not a request in P.
NotAsked(P) == {x \in Items : ~(x.kind = "request" /\ x.id \in P)}

\* Without the requests in P, nothing of P is pending.
LEMMA TakesWithout ==
    ASSUME NEW role, NEW p, NEW x, NEW q, NEW P, Takes(role, p, x, q),
           x.kind = "response" => x.id \notin P,
           ~(x.kind = "request" /\ x.id \in P)
    PROVE  Takes(role, p \ P, x, q \ P)
<1>1. CASE x.kind = "response"
  BY <1>1 DEF Takes
<1>2. CASE x.kind = "request"
  BY <1>2 DEF Takes
<1>3. CASE x.kind # "response" /\ x.kind # "request"
  BY <1>3 DEF Takes
<1> QED
  BY <1>1, <1>2, <1>3

\* What the first sweep leaves is kept, also without the requests in P.
LEMMA SweptKept ==
    ASSUME NEW c \in Seq(Items), NEW role \in Roles, NEW p \in SUBSET Ids, NEW P,
           role = "user" => \A n \in 1..Len(c) :
              c[n].kind = "response" /\ c[n].id \in p => c[n].id \notin P
    PROVE  LET swept == SweepContent(role, p, c)
           IN  Kept(role, p \ P, Among(swept.content, NotAsked(P)),
                    swept.pending \ P)
<1>a. Items \in SUBSET Items
  OBVIOUS
<1>1. PICK it : ContentAlong(it, role, p, c, Items)
  BY <1>a, SweepContentFold, Zenon
<1> DEFINE N == Len(c)
           S == NotAsked(P)
           T == {n \in 0..N :
                   /\ Kept(role, p \ P, Among(it[n].content, S), it[n].pending \ P)
                   /\ role = "user" => it[n].pending \subseteq p}
<1>0. N \in Nat
  OBVIOUS
<1>b. p \ P \in SUBSET Ids
  OBVIOUS
<1>2. /\ it[0] = [content |-> <<>>, pending |-> p]
      /\ \A n \in 1..N :
            /\ it[n - 1] \in Swiped(Items)
            /\ it[n] = Sweep(it[n - 1], role, c[n])
      /\ it[N] = SweepContent(role, p, c)
  BY <1>1 DEF ContentAlong
<1>3. \A n \in 1..N : c[n] \in Items /\ n - 1 \in 0..N /\ n \in 0..N
  OBVIOUS
<1>c. \A x \in Items : x \in S <=> ~(x.kind = "request" /\ x.id \in P)
  BY DEF NotAsked
<1>d. \A n \in 1..N : role = "user" /\ c[n].kind = "response" /\ c[n].id \in p
                         => c[n].id \notin P
  OBVIOUS
<1> HIDE DEF N, S
<1>4. 0 \in T
  <2>1. Among(<<>>, S) = <<>>
    BY AmongEmpty
  <2>2. Kept(role, p \ P, <<>>, p \ P)
    BY <1>b, KeptEmpty, Zenon
  <2>3. it[0].content = <<>> /\ it[0].pending = p /\ 0 \in 0..N
    BY <1>0, <1>2
  <2> HIDE DEF S
  <2>4. Kept(role, p \ P, Among(it[0].content, S), it[0].pending \ P)
    BY <2>1, <2>2, <2>3
  <2> QED
    BY <2>3, <2>4
<1>5. ASSUME NEW n \in 1..N, n - 1 \in T
      PROVE  n \in T
  <2> DEFINE acc == it[n - 1]
             x == c[n]
             old == Among(acc.content, S)
  <2>1. /\ Kept(role, p \ P, old, acc.pending \ P)
        /\ role = "user" => acc.pending \subseteq p
    BY <1>5
  <2>2. acc \in Swiped(Items) /\ it[n] = Sweep(acc, role, x) /\ x \in Items
    BY <1>2, <1>3
  <2>3. acc.content \in Seq(Items) /\ acc.pending \in SUBSET Ids
    BY <2>2 DEF Swiped
  <2>4. role = "user" /\ x.kind = "response" /\ x.id \in p => x.id \notin P
    BY <1>d
  <2>5. old \in Seq(Items)
    <3> HIDE DEF acc
    <3> QED
      BY <2>3, AmongPart
  <2> HIDE DEF acc, x, T
  <2>6. CASE \E q : Takes(role, acc.pending, x, q)
    <3>1. PICK q : Takes(role, acc.pending, x, q)
      BY <2>6
    <3>2. Sweep(acc, role, x) = More(acc, x, q)
      BY <2>2, <3>1, SweepTakes
    <3>3. it[n].content = Append(acc.content, x) /\ it[n].pending = q
      BY <2>2, <3>2 DEF More
    <3>4. Among(Append(acc.content, x), S) = IF x \in S THEN Append(old, x) ELSE old
      <4> DEFINE k == acc.content
      <4>1. k \in Seq(Items)
        BY <2>3
      <4> HIDE DEF k, S
      <4>2. Among(Append(k, x), S) =
               IF x \in S THEN Append(Among(k, S), x) ELSE Among(k, S)
        BY <2>2, <4>1, AmongAppend, Zenon
      <4> QED
        BY <4>2 DEF k
    <3>5. role = "user" => q \subseteq p
      BY <2>1, <3>1 DEF Takes, Misplaced
    <3>6. CASE x \in S
      <4>1. x.kind = "response" => x.id \notin P
        <5>1. CASE role = "user"
          BY <2>1, <2>4, <3>1, <5>1 DEF Takes
        <5>2. CASE role = "assistant"
          BY <3>1, <5>2 DEF Takes, Misplaced
        <5> QED
          BY <5>1, <5>2 DEF Roles
      <4>2. ~(x.kind = "request" /\ x.id \in P)
        BY <1>c, <2>2, <3>6
      <4>3. Takes(role, acc.pending \ P, x, q \ P)
        BY <3>1, <4>1, <4>2, TakesWithout
      <4> HIDE DEF old
      <4>4. Kept(role, p \ P, Append(old, x), q \ P)
        BY <1>b, <2>1, <2>2, <2>5, <4>3, KeptAppend, Zenon
      <4> QED
        BY <1>3, <3>3, <3>4, <3>5, <3>6, <4>4 DEF T
    <3>7. CASE x \notin S
      <4>1. x.kind = "request" /\ x.id \in P
        BY <1>c, <2>2, <3>7
      <4>2. q \ P = acc.pending \ P
        BY <3>1, <4>1 DEF Takes
      <4> QED
        BY <1>3, <2>1, <3>3, <3>4, <3>5, <3>7, <4>2 DEF T
    <3> QED
      BY <3>6, <3>7
  <2>7. CASE ~\E q : Takes(role, acc.pending, x, q)
    <3>1. Sweep(acc, role, x) = acc
      BY <2>2, <2>7, SweepTakes
    <3> QED
      BY <1>3, <2>1, <2>2, <3>1 DEF T
  <2> QED
    BY <2>6, <2>7
<1>6. N \in T
  <2> HIDE DEF T
  <2>1. \A n \in 0..N : n \in T
    BY <1>0, <1>4, <1>5, Along
  <2> QED
    BY <1>0, <2>1
<1> QED
  BY <1>2, <1>6 DEF S

\* Texts put together leave a content that is kept.
LEMMA MergeTextKept ==
    ASSUME NEW c \in Seq(Items), NEW role \in Roles, NEW p \in SUBSET Ids, NEW q,
           Kept(role, p, c, q)
    PROVE  Kept(role, p, FoldLeft(AddItem, <<>>, c), q)
<1>1. PICK it : TextsAlong(it, c)
  BY AddItemFold
<1>2. PICK r : KeptAlong(r, role, p, c, q)
  BY KeptSteps, Zenon
<1> DEFINE N == Len(c)
           T == {n \in 0..N : Kept(role, p, it[n], r[n])}
<1>0. N \in Nat
  OBVIOUS
<1>3. /\ it[0] = <<>>
      /\ \A n \in 1..N : /\ it[n - 1] \in Seq(Items)
                         /\ c[n] \in Items
                         /\ it[n] = AddItem(it[n - 1], c[n])
      /\ it[N] = FoldLeft(AddItem, <<>>, c)
      /\ \A n \in 0..N : it[n] \in Seq(Items)
  BY <1>1 DEF TextsAlong
<1>4. /\ r \in [0..N -> SUBSET Ids] /\ r[0] = p /\ r[N] = q
      /\ \A n \in 1..N : Takes(role, r[n - 1], c[n], r[n])
  BY <1>2 DEF KeptAlong
<1> HIDE DEF N
<1>5. 0 \in T
  BY <1>0, <1>3, <1>4, KeptEmpty
<1>6. ASSUME NEW n \in 1..N, n - 1 \in T
      PROVE  n \in T
  <2> DEFINE old == it[n - 1]
             x == c[n]
             s == r[n - 1]
  <2>1. /\ old \in Seq(Items) /\ x \in Items /\ it[n] = AddItem(old, x)
        /\ Takes(role, s, x, r[n]) /\ Kept(role, p, old, s) /\ n \in 0..N
    BY <1>0, <1>3, <1>4, <1>6
  <2> HIDE DEF old, x, s
  <2>2. CASE old # <<>> /\ IsText(x) /\ IsText(Last(old))
    <3> DEFINE F == Front(old)
               L == Len(old)
               y == Concat(Last(old), x)
               new == Append(F, y)
    <3>1. /\ F \in Seq(Items) /\ L \in Nat \ {0} /\ Len(F) = L - 1
          /\ \A k \in 1..(L - 1) : F[k] = old[k]
          /\ Last(old) = old[L] /\ Last(old) \in Items
      <4>1. Last(old) = old[L]
        BY DEF Last
      <4> QED
        BY <2>1, <2>2, <4>1, LastFront
    <3>2. y \in Items /\ IsText(y)
      <4>1. Last(old) \in Texts /\ x \in Texts
        BY <2>1, <2>2, <3>1, ItemKinds DEF IsText
      <4>2. y \in Texts
        BY <4>1, ConcatTyped
      <4> QED
        BY <4>2 DEF Items, Texts, IsText
    <3>3. it[n] = new
      BY <2>1, <2>2 DEF AddItem
    <3> HIDE DEF F, y, L
    <3>4. /\ new \in Seq(Items) /\ Len(new) = L /\ new[L] = y
          /\ \A k \in 1..(L - 1) : new[k] = F[k]
      BY <3>1, <3>2
    <3> HIDE DEF new
    <3>5. ASSUME NEW k \in 1..L
          PROVE  new[k] = old[k] \/ (IsText(old[k]) /\ IsText(new[k]))
      <4>1. CASE k = L
        BY <2>2, <3>1, <3>2, <3>4, <4>1
      <4>2. CASE k # L
        <5>1. k \in 1..(L - 1)
          BY <3>1, <4>2
        <5> QED
          BY <3>1, <3>4, <5>1
      <4> QED
        BY <4>1, <4>2
    <3>6. Kept(role, p, new, s)
      BY <2>1, <3>4, <3>5, KeptLike DEF L
    <3>7. r[n] = s
      BY <2>1, <2>2 DEF Takes, IsText
    <3> QED
      BY <2>1, <3>3, <3>6, <3>7
  <2>3. CASE ~(old # <<>> /\ IsText(x) /\ IsText(Last(old)))
    <3>1. it[n] = Append(old, x)
      BY <2>1, <2>3 DEF AddItem
    <3>2. Kept(role, p, Append(old, x), r[n])
      BY <2>1, KeptAppend, Zenon
    <3> QED
      BY <2>1, <3>1, <3>2
  <2> QED
    BY <2>2, <2>3
<1>7. N \in T
  <2> HIDE DEF T
  <2>1. \A n \in 0..N : n \in T
    BY <1>0, <1>5, <1>6, Along
  <2> QED
    BY <1>0, <2>1
<1> QED
  BY <1>3, <1>4, <1>7

\* pend is what is pending after each message, all of which are kept.
TidyAlong(pend, ms, q) ==
    /\ pend \in [0..Len(ms) -> SUBSET Ids]
    /\ pend[0] = {}
    /\ \A n \in 1..Len(ms) :
          Kept(ms[n].role, pend[n - 1], ms[n].content, pend[n])
    /\ pend[Len(ms)] = q

\* Messages the sweeps would leave as they are, up to what is pending.
TidyTo(ms, q) == \E pend : TidyAlong(pend, ms, q)
Tidy(ms) == TidyTo(ms, {})

\* No messages leave nothing pending.
LEMMA TidyEmpty == TidyTo(<<>>, {})
<1> DEFINE pend == [n \in 0..0 |-> {}]
           ms == <<>>
<1>1. Len(ms) = 0 /\ 1..0 = {}
  OBVIOUS
<1>2. pend \in [0..0 -> SUBSET Ids] /\ pend[0] = {}
  OBVIOUS
<1> HIDE DEF pend, ms
<1>3. TidyAlong(pend, ms, {})
  BY <1>1, <1>2 DEF TidyAlong
<1> QED
  BY <1>3 DEF TidyTo, ms

\* What is pending in the end are ids.
LEMMA TidyTyped ==
    ASSUME NEW ms \in Seq(Seen(Items)), NEW q, TidyTo(ms, q)
    PROVE  q \in SUBSET Ids
<1>1. PICK pend : TidyAlong(pend, ms, q)
  BY DEF TidyTo
<1>2. Len(ms) \in 0..Len(ms)
  OBVIOUS
<1> QED
  BY <1>1, <1>2 DEF TidyAlong

\* One more message that is kept.
LEMMA TidyAppend ==
    ASSUME NEW ms \in Seq(Seen(Items)), NEW m \in Seen(Items), NEW p, NEW q,
           TidyTo(ms, p), Kept(m.role, p, m.content, q)
    PROVE  TidyTo(Append(ms, m), q)
<1> DEFINE N == Len(ms)
           u == Append(ms, m)
<1>0. p \in SUBSET Ids /\ q \in SUBSET Ids
  <2>1. p \in SUBSET Ids
    BY TidyTyped
  <2>2. m.content \in Seq(Items)
    BY DEF Seen
  <2>3. q \in SUBSET Ids
    BY <2>1, <2>2, KeptTyped, Zenon
  <2> QED
    BY <2>1, <2>3
<1>1. PICK pend : TidyAlong(pend, ms, p)
  BY DEF TidyTo
<1> DEFINE v == [n \in 0..(N + 1) |-> IF n = N + 1 THEN q ELSE pend[n]]
<1>2. /\ Len(u) = N + 1 /\ N \in Nat
      /\ u[N + 1] = m /\ \A k \in 1..N : u[k] = ms[k]
  OBVIOUS
<1>3. /\ pend \in [0..N -> SUBSET Ids] /\ pend[0] = {} /\ pend[N] = p
      /\ \A n \in 1..N : Kept(ms[n].role, pend[n - 1], ms[n].content, pend[n])
  BY <1>1 DEF TidyAlong
<1> HIDE DEF N, u
<1>4. \A n \in 0..N : n \in 0..(N + 1) /\ n # N + 1
  BY <1>2
<1>5. v[N + 1] = q /\ \A n \in 0..N : v[n] = pend[n]
  <2>1. N + 1 \in 0..(N + 1)
    BY <1>2
  <2> QED
    BY <1>4, <2>1
<1>6. v \in [0..(N + 1) -> SUBSET Ids]
  <2>1. ASSUME NEW n \in 0..(N + 1)
        PROVE  v[n] \in SUBSET Ids
    <3>1. n = N + 1 \/ n \in 0..N
      BY <1>2
    <3> QED
      BY <1>0, <1>3, <1>5, <3>1
  <2>2. v = [n \in 0..(N + 1) |-> v[n]]
    OBVIOUS
  <2> HIDE DEF v
  <2> QED
    BY <2>1, <2>2
<1> HIDE DEF v
<1>7. ASSUME NEW n \in 1..(N + 1)
      PROVE  Kept(u[n].role, v[n - 1], u[n].content, v[n])
  <2>1. CASE n = N + 1
    <3>1. n - 1 = N /\ N \in 0..N
      BY <1>2, <2>1
    <3>2. v[n - 1] = p /\ u[n] = m /\ v[n] = q
      BY <1>2, <1>3, <1>5, <2>1, <3>1
    <3> QED
      BY <3>2
  <2>2. CASE n # N + 1
    <3>1. n \in 1..N /\ n \in 0..N /\ n - 1 \in 0..N
      BY <1>2, <2>2
    <3>2. v[n - 1] = pend[n - 1] /\ u[n] = ms[n] /\ v[n] = pend[n]
      BY <1>2, <1>5, <3>1
    <3> QED
      BY <1>3, <3>1, <3>2
  <2> QED
    BY <2>1, <2>2
<1>8. v[0] = {}
  <2>1. 0 \in 0..N
    BY <1>2
  <2> QED
    BY <1>3, <1>5, <2>1
<1>9. TidyAlong(v, u, q)
  BY <1>2, <1>5, <1>6, <1>7, <1>8 DEF TidyAlong
<1> QED
  BY <1>9 DEF TidyTo, u

\* The last of them, and those before it.
LEMMA TidyLast ==
    ASSUME NEW ms \in Seq(Seen(Items)), ms # <<>>, NEW q, TidyTo(ms, q)
    PROVE  \E p : /\ p \in SUBSET Ids
                  /\ TidyTo(Front(ms), p)
                  /\ Kept(Last(ms).role, p, Last(ms).content, q)
<1> DEFINE N == Len(ms)
           F == Front(ms)
<1>1. PICK pend : TidyAlong(pend, ms, q)
  BY DEF TidyTo
<1>2. /\ N \in Nat \ {0} /\ Len(F) = N - 1
      /\ \A n \in 1..(N - 1) : F[n] = ms[n]
      /\ Last(ms) = ms[N]
  BY LastFront DEF Last
<1>3. /\ pend \in [0..N -> SUBSET Ids] /\ pend[0] = {} /\ pend[N] = q
      /\ \A n \in 1..N : Kept(ms[n].role, pend[n - 1], ms[n].content, pend[n])
  BY <1>1 DEF TidyAlong
<1> HIDE DEF N, F
<1> DEFINE v == [n \in 0..(N - 1) |-> pend[n]]
           p == pend[N - 1]
<1>4. \A n \in 0..(N - 1) : n \in 0..N /\ v[n] = pend[n]
  BY <1>2
<1>5. v \in [0..(N - 1) -> SUBSET Ids]
  BY <1>3, <1>4
<1> HIDE DEF v
<1>6. N - 1 \in 0..(N - 1) /\ 0 \in 0..(N - 1) /\ N \in 1..N
  BY <1>2
<1>7. p \in SUBSET Ids
  BY <1>3, <1>4, <1>6
<1>8. ASSUME NEW n \in 1..(N - 1)
      PROVE  Kept(F[n].role, v[n - 1], F[n].content, v[n])
  <2>1. n \in 1..N /\ n \in 0..(N - 1) /\ n - 1 \in 0..(N - 1)
    BY <1>2
  <2> QED
    BY <1>2, <1>3, <1>4, <2>1
<1>9. TidyAlong(v, F, p)
  BY <1>2, <1>3, <1>4, <1>5, <1>6, <1>8 DEF TidyAlong
<1>10. Kept(Last(ms).role, p, Last(ms).content, q)
  BY <1>2, <1>3, <1>6
<1> QED
  BY <1>7, <1>9, <1>10 DEF TidyTo, F

\* The last is replaced by changing what ends the sequence.
LEMMA ReplaceLast ==
    ASSUME NEW E, NEW s \in Seq(E), s # <<>>, NEW x \in E
    PROVE  [s EXCEPT ![Len(s)] = x] = Append(Front(s), x)
<1> DEFINE N == Len(s)
           F == Front(s)
           a == [s EXCEPT ![N] = x]
           b == Append(F, x)
<1>1. /\ N \in Nat \ {0} /\ F \in Seq(E) /\ Len(F) = N - 1
      /\ \A n \in 1..(N - 1) : F[n] = s[n]
  BY LastFront
<1>2. /\ a = [n \in 1..N |-> a[n]] /\ a[N] = x
      /\ \A n \in 1..N : n # N => a[n] = s[n]
  <2>1. DOMAIN s = 1..N /\ N \in 1..N
    OBVIOUS
  <2> QED
    BY <2>1
<1> HIDE DEF N, F, a
<1>3. N \in Nat /\ N > 0 /\ N - 1 + 1 = N
  BY <1>1
<1>4. /\ b \in Seq(E) /\ Len(b) = N /\ b[N] = x
      /\ \A n \in 1..(N - 1) : b[n] = F[n]
  BY <1>1, <1>3
<1> HIDE DEF b
<1>5. b = [n \in 1..N |-> b[n]]
  BY <1>4
<1>6. ASSUME NEW n \in 1..N
      PROVE  a[n] = b[n]
  <2>1. n = N \/ n \in 1..(N - 1)
    BY <1>3
  <2> QED
    BY <1>1, <1>2, <1>3, <1>4, <2>1
<1>7. a = b
  BY <1>2, <1>5, <1>6
<1> QED
  BY <1>7 DEF a, b, N, F

\* Merging one more message.
LEMMA AddMessageTidy ==
    ASSUME NEW merged \in Seq(Seen(Items)), NEW m \in Seen(Items), NEW p, NEW q,
           TidyTo(merged, p), Kept(m.role, p, m.content, q)
    PROVE  TidyTo(AddMessage(merged, m), q)
<1>a. Items \in SUBSET Items
  OBVIOUS
<1>1. CASE merged # <<>> /\ EffectiveRole(Last(merged)) = EffectiveRole(m)
  <2> DEFINE old == Last(merged)
             F == Front(merged)
             new == Joined(old, m)
  <2>1. old \in Seen(Items) /\ F \in Seq(Seen(Items)) /\ old = merged[Len(merged)]
    BY <1>1, LastFront DEF Last
  <2>2. PICK s : /\ s \in SUBSET Ids
                 /\ TidyTo(F, s)
                 /\ Kept(old.role, s, old.content, p)
    BY <1>1, TidyLast, Zenon
  <2>3. AddMessage(merged, m) = [merged EXCEPT ![Len(merged)] = new]
    BY <1>1, <2>1 DEF AddMessage, Joined
  <2> HIDE DEF old, F
  <2>4. new \in Seen(Items) /\ new.role = old.role /\ old.role = m.role
    BY <1>a, <1>1, <2>1, JoinedIs DEF old
  <2>5. old.content \in Seq(Items) /\ m.content \in Seq(Items)
        /\ new.content = old.content \o m.content
    BY <2>1 DEF Seen, Joined
  <2>6. Kept(old.role, p, m.content, q)
    BY <2>4
  <2>7. Kept(old.role, s, old.content \o m.content, q)
    BY <2>2, <2>5, <2>6, KeptConcat, Zenon
  <2>8. Kept(new.role, s, new.content, q)
    BY <2>4, <2>5, <2>7
  <2> HIDE DEF new
  <2>9. TidyTo(Append(F, new), q)
    BY <2>1, <2>2, <2>4, <2>8, TidyAppend, Zenon
  <2>10. AddMessage(merged, m) = Append(F, new)
    BY <1>1, <2>3, <2>4, ReplaceLast DEF F
  <2> QED
    BY <2>9, <2>10
<1>2. CASE ~(merged # <<>> /\ EffectiveRole(Last(merged)) = EffectiveRole(m))
  <2>1. AddMessage(merged, m) = Append(merged, m)
    BY <1>2 DEF AddMessage
  <2>2. TidyTo(Append(merged, m), q)
    BY TidyAppend, Zenon
  <2> QED
    BY <2>1, <2>2
<1> QED
  BY <1>1, <1>2

\* Merging messages leaves them tidy.
LEMMA MergeTidy ==
    ASSUME NEW ms \in Seq(Seen(Items)), Tidy(ms)
    PROVE  Tidy(MergeConsecutiveMessages(ms))
<1>1. PICK it : MergeAlong(it, ms, Items)
  BY MergeFold, Zenon
<1>2. PICK pend : TidyAlong(pend, ms, {})
  BY DEF Tidy, TidyTo
<1> DEFINE N == Len(ms)
           T == {n \in 0..N : TidyTo(it[n], pend[n])}
<1>0. N \in Nat
  OBVIOUS
<1>3. /\ it[0] = <<>>
      /\ \A n \in 1..N : /\ it[n - 1] \in Seq(Seen(Items))
                         /\ ms[n] \in Seen(Items)
                         /\ it[n] = AddMessage(it[n - 1], ms[n])
      /\ it[N] = MergeConsecutiveMessages(ms)
  BY <1>1 DEF MergeAlong
<1>4. /\ pend[0] = {} /\ pend[N] = {}
      /\ \A n \in 1..N : Kept(ms[n].role, pend[n - 1], ms[n].content, pend[n])
  BY <1>2 DEF TidyAlong
<1> HIDE DEF N
<1>5. 0 \in T
  <2>1. it[0] = <<>> /\ pend[0] = {} /\ 0 \in 0..N
    BY <1>0, <1>3, <1>4
  <2>2. TidyTo(it[0], pend[0])
    BY <2>1, TidyEmpty, Zenon
  <2> QED
    BY <2>1, <2>2
<1>6. ASSUME NEW n \in 1..N, n - 1 \in T
      PROVE  n \in T
  <2> DEFINE old == it[n - 1]
             m == ms[n]
             p == pend[n - 1]
             q == pend[n]
  <2>1. /\ old \in Seq(Seen(Items)) /\ m \in Seen(Items)
        /\ it[n] = AddMessage(old, m)
        /\ TidyTo(old, p) /\ Kept(m.role, p, m.content, q) /\ n \in 0..N
    BY <1>0, <1>3, <1>4, <1>6
  <2> HIDE DEF old, m, p, q
  <2>2. TidyTo(AddMessage(old, m), q)
    BY <2>1, AddMessageTidy, Zenon
  <2> QED
    BY <2>1, <2>2 DEF q
<1>7. N \in T
  <2> HIDE DEF T
  <2>1. \A n \in 0..N : n \in T
    BY <1>0, <1>5, <1>6, Along
  <2> QED
    BY <1>0, <2>1
<1> QED
  BY <1>3, <1>4, <1>7 DEF Tidy

\* So does removing what says nothing.
LEMMA RemoveEmptyTidy ==
    ASSUME NEW ms \in Seq(Seen(Items)), Tidy(ms)
    PROVE  Tidy(RemoveEmptyMessages(ms))
<1> DEFINE S == {m \in ToSet(ms) : HasContent(m)}
           N == Len(ms)
<1>1. PICK it : AmongAlong(it, ms, S, Seen(Items))
  <2> HIDE DEF S
  <2> QED
    BY AmongFold, Zenon
<1>2. PICK pend : TidyAlong(pend, ms, {})
  BY DEF Tidy, TidyTo
<1>b. RemoveEmptyMessages(ms) = Among(ms, S)
  BY DEF RemoveEmptyMessages
<1>c. \A n \in 1..N : ms[n] \in S <=> HasContent(ms[n])
  BY ItemsOf
<1> HIDE DEF S
<1> DEFINE T == {n \in 0..N : TidyTo(it[n], pend[n])}
<1>0. N \in Nat
  OBVIOUS
<1>3. /\ it[0] = <<>>
      /\ \A n \in 1..N :
            it[n] = IF ms[n] \in S THEN Append(it[n - 1], ms[n]) ELSE it[n - 1]
      /\ \A n \in 0..N : it[n] \in Seq(Seen(Items))
      /\ it[N] = Among(ms, S)
  BY <1>1 DEF AmongAlong
<1>4. /\ pend[0] = {} /\ pend[N] = {}
      /\ \A n \in 0..N : pend[n] \in SUBSET Ids
      /\ \A n \in 1..N : Kept(ms[n].role, pend[n - 1], ms[n].content, pend[n])
  BY <1>2 DEF TidyAlong
<1>d. \A n \in 1..N : ms[n] \in Seen(Items) /\ n - 1 \in 0..N /\ n \in 0..N
  OBVIOUS
<1> HIDE DEF N
<1>5. 0 \in T
  <2>1. it[0] = <<>> /\ pend[0] = {} /\ 0 \in 0..N
    BY <1>0, <1>3, <1>4
  <2>2. TidyTo(it[0], pend[0])
    BY <2>1, TidyEmpty, Zenon
  <2> QED
    BY <2>1, <2>2
<1>6. ASSUME NEW n \in 1..N, n - 1 \in T
      PROVE  n \in T
  <2> DEFINE old == it[n - 1]
             m == ms[n]
             p == pend[n - 1]
             q == pend[n]
  <2>1. /\ old \in Seq(Seen(Items)) /\ m \in Seen(Items) /\ p \in SUBSET Ids
        /\ TidyTo(old, p) /\ Kept(m.role, p, m.content, q) /\ n \in 0..N
    BY <1>3, <1>4, <1>6, <1>d
  <2>2. it[n] = IF m \in S THEN Append(old, m) ELSE old
    BY <1>3
  <2>3. m \in S <=> HasContent(m)
    BY <1>c
  <2> HIDE DEF old, m, p, q
  <2>4. CASE m \in S
    <3>1. TidyTo(Append(old, m), q)
      BY <2>1, TidyAppend, Zenon
    <3> QED
      BY <2>1, <2>2, <2>4, <3>1 DEF q
  <2>5. CASE m \notin S
    <3> DEFINE c == m.content
    <3>1. c \in Seq(Items)
      BY <2>1 DEF Seen
    <3>2. \A k \in 1..Len(c) : IsText(c[k])
      BY <2>3, <2>5, <3>1 DEF HasContent, IsEmptyText
    <3> HIDE DEF c
    <3>3. Kept(m.role, p, c, q)
      BY <2>1 DEF c
    <3>4. q = p
      BY <2>1, <3>1, <3>2, <3>3, KeptTexts
    <3> QED
      BY <2>1, <2>2, <2>5, <3>4 DEF q
  <2> QED
    BY <2>4, <2>5
<1>7. N \in T
  <2> HIDE DEF T
  <2>1. \A n \in 0..N : n \in T
    BY <1>0, <1>5, <1>6, Along
  <2> QED
    BY <1>0, <2>1
<1> QED
  BY <1>3, <1>4, <1>7, <1>b DEF Tidy

\* And removing what an assistant says last.
LEMMA RemoveTrailTidy ==
    ASSUME NEW ms \in Seq(Seen(Items)), Tidy(ms)
    PROVE  Tidy(RemoveTrail(ms))
<1>1. CASE ms # <<>> /\ Last(ms).role = "assistant"
  <2>1. RemoveTrail(ms) = Front(ms)
    BY <1>1 DEF RemoveTrail
  <2>2. PICK p : /\ p \in SUBSET Ids
                 /\ TidyTo(Front(ms), p)
                 /\ Kept(Last(ms).role, p, Last(ms).content, {})
    BY <1>1, TidyLast, Zenon DEF Tidy
  <2>3. Last(ms) \in Seen(Items)
    BY <1>1, LastFront
  <2>4. Last(ms).content \in Seq(Items)
    BY <2>3 DEF Seen
  <2> DEFINE c == Last(ms).content
             none == {}
  <2>a. c \in Seq(Items) /\ p \in SUBSET Ids /\ Kept("assistant", p, c, none)
    BY <1>1, <2>2, <2>4
  <2>5. p \subseteq none
    <3> HIDE DEF c, none
    <3> QED
      BY <2>a, KeptGrows, Zenon
  <2>6. p = {}
    BY <2>5
  <2> QED
    BY <2>1, <2>2, <2>6 DEF Tidy
<1>2. CASE ~(ms # <<>> /\ Last(ms).role = "assistant")
  BY <1>2 DEF RemoveTrail
<1> QED
  BY <1>1, <1>2

\* What is pending has been asked for, and nobody has answered since.
LEMMA PendingAsked ==
    ASSUME NEW ms \in Seq(Seen(Items)), NEW pend, Pends(pend, ms)
    PROVE  \A n \in 0..Len(ms) : \A id \in pend[n] :
              \E i \in 1..n :
                 /\ Has(ms[i], "request", id)
                 /\ \A j \in 1..n : i < j /\ ms[j].role = "user"
                                       => ~Has(ms[j], "response", id)
<1> DEFINE N == Len(ms)
           Asked(n, id, i) ==
              /\ Has(ms[i], "request", id)
              /\ \A j \in 1..n : i < j /\ ms[j].role = "user"
                                    => ~Has(ms[j], "response", id)
           T == {n \in 0..N : \A id \in pend[n] : \E i \in 1..n : Asked(n, id, i)}
<1>0. N \in Nat
  OBVIOUS
<1>1. /\ pend[0] = {}
      /\ \A n \in 0..N : pend[n] \in SUBSET Ids
      /\ \A n \in 1..N :
            pend[n] = SweepContent(ms[n].role, pend[n - 1], ms[n].content).pending
      /\ \A n \in 1..N : ms[n] \in Seen(Items)
  BY DEF Pends
<1> HIDE DEF N
<1>2. 0 \in T
  BY <1>0, <1>1
<1>3. ASSUME NEW n \in 1..N, n - 1 \in T
      PROVE  n \in T
  <2> DEFINE m == ms[n]
             p == pend[n - 1]
  <2>0. n \in 0..N /\ n - 1 \in 0..N /\ n \in Nat /\ n > 0
    BY <1>0
  <2>1. m \in Seen(Items) /\ p \in SUBSET Ids
    BY <1>1, <2>0
  <2>2. pend[n] = SweepContent(m.role, p, m.content).pending
    BY <1>1
  <2>a. \A id \in p : \E i \in 1..(n - 1) : Asked(n - 1, id, i)
    BY <1>3
  <2> HIDE DEF p
  <2>3. LET after == SweepContent(m.role, p, m.content).pending
        IN  /\ m.role = "user" =>
                  \A id : id \in after <=> id \in p /\ ~Has(m, "response", id)
            /\ m.role = "assistant" =>
                  \A id : id \in after <=> id \in p \/ Has(m, "request", id)
    <3> HIDE DEF m
    <3> QED
      BY <2>1, FirstSweepIs, Zenon
  <2>4. \A i \in 1..(n - 1) : i \in 1..n /\ i < n
    BY <2>0
  <2>5. \A j \in 1..n : j = n \/ j \in 1..(n - 1)
    BY <2>0
  <2>b. n \in 1..n /\ \A j \in 1..n : ~(n < j)
    BY <2>0
  <2>6. ASSUME NEW id \in pend[n]
        PROVE  \E i \in 1..n : Asked(n, id, i)
    <3>1. CASE m.role = "user"
      <4>1. id \in p /\ ~Has(m, "response", id)
        BY <2>2, <2>3, <2>6, <3>1
      <4>2. PICK i \in 1..(n - 1) : Asked(n - 1, id, i)
        BY <2>a, <4>1
      <4>3. Asked(n, id, i)
        BY <2>5, <4>1, <4>2
      <4> QED
        BY <2>4, <4>3
    <3>2. CASE m.role = "assistant"
      <4>1. CASE id \in p
        <5>1. PICK i \in 1..(n - 1) : Asked(n - 1, id, i)
          BY <2>a, <4>1
        <5>2. Asked(n, id, i)
          BY <2>5, <3>2, <5>1
        <5> QED
          BY <2>4, <5>2
      <4>2. CASE id \notin p
        <5>1. Has(m, "request", id)
          BY <2>2, <2>3, <2>6, <3>2, <4>2
        <5>2. Asked(n, id, n)
          BY <2>b, <5>1
        <5> QED
          BY <2>b, <5>2
      <4> QED
        BY <4>1, <4>2
    <3>3. m.role \in Roles
      BY <2>1 DEF Seen
    <3> QED
      BY <3>1, <3>2, <3>3 DEF Roles
  <2> QED
    BY <2>0, <2>6
<1>4. \A n \in 0..N : n \in T
  <2> HIDE DEF T
  <2> QED
    BY <1>0, <1>2, <1>3, Along
<1> QED
  BY <1>4 DEF N

\* Both sweeps leave messages tidy where requests differ.
LEMMA SweptTidy ==
    ASSUME NEW ms \in Seq(Seen(Items)), AskedOnce(ms)
    PROVE  Tidy(Swept(ms))
<1> DEFINE t == Swept(ms)
           N == Len(ms)
<1>a. Items \in SUBSET Items
  OBVIOUS
<1>1. PICK pend : Pends(pend, ms) /\ SweptBy(pend, ms)
  BY <1>a, SweptEach, Zenon
<1>2. t \in Seq(Seen(Items)) /\ Len(t) = N
  BY <1>a, SweptIs
<1> DEFINE final == pend[N]
           v == [n \in 0..N |-> pend[n] \ final]
<1>0. N \in Nat /\ \A n \in 1..N : n - 1 \in 0..N /\ n \in 0..N
  OBVIOUS
<1>3. /\ pend[0] = {}
      /\ \A n \in 0..N : pend[n] \in SUBSET Ids
      /\ \A n \in 1..N :
            pend[n] = SweepContent(ms[n].role, pend[n - 1], ms[n].content).pending
  BY <1>1 DEF Pends
<1>4. \A n \in 1..N : /\ t[n] = DropPending(final, FirstSweep(pend[n - 1], ms[n]))
                      /\ ms[n] \in Seen(Items)
  BY <1>1 DEF SweptBy
<1>b. \A n \in 0..N : \A id \in pend[n] :
              \E i \in 1..n :
                 /\ Has(ms[i], "request", id)
                 /\ \A j \in 1..n : i < j /\ ms[j].role = "user"
                                       => ~Has(ms[j], "response", id)
  BY <1>1, PendingAsked
<1>c. \A n \in 0..N : v[n] = pend[n] \ final
  OBVIOUS
<1>d. v \in [0..N -> SUBSET Ids]
  BY <1>3
<1>e. \A i, j \in 1..N : \A id :
         Has(ms[i], "request", id) /\ Has(ms[j], "request", id) => i = j
  BY DEF AskedOnce
<1> HIDE DEF t, N, v
<1>5. ASSUME NEW n \in 1..N
      PROVE  Kept(t[n].role, v[n - 1], t[n].content, v[n])
  <2> DEFINE m == ms[n]
             p == pend[n - 1]
             c == m.content
             swept == SweepContent(m.role, p, c)
             f == FirstSweep(p, m)
             S == {item \in ToSet(f.content) :
                      ~(item.kind = "request" /\ item.id \in final)}
  <2>1. m \in Seen(Items) /\ p \in SUBSET Ids /\ pend[n] = swept.pending
    BY <1>0, <1>3, <1>4
  <2>2. t[n] = DropPending(final, f)
    BY <1>4
  <2>3. m.role = "user" => \A k \in 1..Len(c) :
              c[k].kind = "response" /\ c[k].id \in p => c[k].id \notin final
    <3> SUFFICES ASSUME m.role = "user", NEW k \in 1..Len(c),
                        c[k].kind = "response", c[k].id \in p, c[k].id \in final
                 PROVE  FALSE
      OBVIOUS
    <3> DEFINE id == c[k].id
    <3>1. n - 1 \in 0..N /\ N \in 0..N
      BY <1>0
    <3>2. PICK i \in 1..(n - 1) : Has(ms[i], "request", id)
      BY <1>b, <3>1
    <3>3. PICK j \in 1..N :
             /\ Has(ms[j], "request", id)
             /\ \A l \in 1..N : j < l /\ ms[l].role = "user"
                                   => ~Has(ms[l], "response", id)
      BY <1>b, <3>1
    <3>4. i \in 1..N /\ i < n
      BY <1>0
    <3>5. i = j
      BY <1>e, <3>2, <3>3, <3>4
    <3>6. c \in Seq(Items)
      BY <2>1 DEF Seen
    <3>7. Has(m, "response", id)
      <4>1. k \in DOMAIN m.content
        BY <3>6
      <4> QED
        BY <4>1 DEF Has
    <3> QED
      BY <3>3, <3>4, <3>5, <3>7
  <2> HIDE DEF m, p, final
  <2>4. /\ c \in Seq(Items) /\ m.role \in Roles
        /\ f = [m EXCEPT !.content = swept.content]
    BY <2>1 DEF Seen, FirstSweep
  <2>5. f.role = m.role /\ f.content = swept.content /\ f \in [id : Nat, role : Roles, visible : {TRUE}, content : {swept.content}]
    BY <2>1, <2>4 DEF Seen
  <2>6. swept.content \in Seq(Items)
    <3>1. swept \in Swiped(Items)
      BY <1>a, <2>1, <2>4, SweepContentTyped
    <3> HIDE DEF swept
    <3> QED
      BY <3>1 DEF Swiped
  <2>7. DropPending(final, f).role = f.role
        /\ DropPending(final, f).content = Among(f.content, S)
    BY <2>5 DEF DropPending
  <2>8. Among(f.content, S) = Among(f.content, NotAsked(final))
    <3> DEFINE d == f.content
    <3>1. d \in Seq(Items)
      BY <2>5, <2>6
    <3>2. \A k \in 1..Len(d) : d[k] \in ToSet(d) /\ d[k] \in Items
      BY <3>1, ItemsOf
    <3>3. \A k \in 1..Len(d) : d[k] \in S <=> d[k] \in NotAsked(final)
      BY <3>2 DEF NotAsked
    <3> HIDE DEF d, S
    <3>4. Among(d, S) = Among(d, NotAsked(final))
      BY <3>1, <3>3, AmongSame
    <3> QED
      BY <3>4 DEF d
  <2> HIDE DEF f, S
  <2>9. Kept(m.role, p \ final, Among(swept.content, NotAsked(final)),
             swept.pending \ final)
    <3> HIDE DEF c
    <3> QED
      BY <2>1, <2>3, <2>4, SweptKept
  <2>10. v[n - 1] = p \ final /\ v[n] = swept.pending \ final
    BY <1>0, <1>c, <2>1 DEF p
  <2> QED
    BY <2>2, <2>5, <2>7, <2>8, <2>9, <2>10
<1>6. v[0] = {} /\ v[N] = {}
  <2>1. 0 \in 0..N /\ N \in 0..N
    BY <1>0
  <2> QED
    BY <1>3, <1>c, <2>1
<1>7. TidyAlong(v, t, {})
  BY <1>2, <1>5, <1>6, <1>d DEF TidyAlong
<1> QED
  BY <1>7 DEF Tidy, TidyTo, t

\* All of a sequence is what is among a set that has all of it.
LEMMA AmongAll ==
    ASSUME NEW E, NEW s \in Seq(E), NEW S, \A n \in 1..Len(s) : s[n] \in S
    PROVE  Among(s, S) = s
<1>1. PICK it : AmongAlong(it, s, S, E)
  BY AmongFold, Zenon
<1> DEFINE N == Len(s)
           T == {n \in 0..N : Len(it[n]) = n /\ \A i \in 1..n : it[n][i] = s[i]}
<1>0. N \in Nat
  OBVIOUS
<1>2. /\ it[0] = <<>>
      /\ \A n \in 1..N : it[n] = IF s[n] \in S THEN Append(it[n - 1], s[n]) ELSE it[n - 1]
      /\ \A n \in 0..N : it[n] \in Seq(E)
      /\ it[N] = Among(s, S)
  BY <1>1 DEF AmongAlong
<1>a. \A n \in 1..N : s[n] \in S /\ s[n] \in E /\ n \in 0..N /\ n - 1 \in 0..N
  OBVIOUS
<1> HIDE DEF N
<1>3. 0 \in T
  <2>1. it[0] = <<>> /\ Len(<<>>) = 0 /\ 1..0 = {} /\ 0 \in 0..N
    BY <1>0, <1>2
  <2> QED
    BY <2>1
<1>4. ASSUME NEW n \in 1..N, n - 1 \in T
      PROVE  n \in T
  <2> DEFINE old == it[n - 1]
             x == s[n]
             new == Append(old, x)
  <2>1. /\ old \in Seq(E) /\ Len(old) = n - 1
        /\ \A i \in 1..(n - 1) : old[i] = s[i]
        /\ x \in E /\ it[n] = new
    BY <1>2, <1>4, <1>a
  <2>2. n \in Nat /\ n > 0 /\ n - 1 + 1 = n /\ n \in 0..N
    BY <1>0
  <2> HIDE DEF old, x
  <2>3. /\ Len(new) = n /\ new[n] = x
        /\ \A i \in 1..(n - 1) : new[i] = old[i]
    BY <2>1, <2>2
  <2> HIDE DEF new
  <2>4. ASSUME NEW i \in 1..n
        PROVE  new[i] = s[i]
    <3>1. CASE i = n
      BY <2>3, <3>1 DEF x
    <3>2. CASE i # n
      <4>1. i \in 1..(n - 1)
        BY <2>2, <3>2
      <4> QED
        BY <2>1, <2>3, <4>1
    <3> QED
      BY <3>1, <3>2
  <2> QED
    BY <2>1, <2>2, <2>3, <2>4
<1>5. N \in T
  <2> HIDE DEF T
  <2>1. \A n \in 0..N : n \in T
    BY <1>0, <1>3, <1>4, Along
  <2> QED
    BY <1>0, <2>1
<1> DEFINE d == it[N]
<1>6. d \in Seq(E) /\ Len(d) = Len(s) /\ \A i \in 1..Len(s) : d[i] = s[i]
  <2>1. N \in 0..N
    BY <1>0
  <2> QED
    BY <1>2, <1>5, <2>1 DEF N
<1> HIDE DEF d
<1>7. d = s
  <2>1. d = [i \in 1..Len(d) |-> d[i]] /\ s = [i \in 1..Len(s) |-> s[i]]
    BY <1>6
  <2> QED
    BY <1>6, <2>1
<1> QED
  BY <1>2, <1>7 DEF d

\* The sweeps leave tidy messages as they are.
LEMMA TidySettles ==
    ASSUME NEW ms \in Seq(Seen(Items)), Tidy(ms)
    PROVE  Swept(ms) = ms
<1> DEFINE t == Swept(ms)
           N == Len(ms)
<1>a. Items \in SUBSET Items
  OBVIOUS
<1>1. PICK pend : Pends(pend, ms) /\ SweptBy(pend, ms)
  BY <1>a, SweptEach, Zenon
<1>2. PICK v : TidyAlong(v, ms, {})
  BY DEF Tidy, TidyTo
<1>3. t \in Seq(Seen(Items)) /\ Len(t) = N
  BY <1>a, SweptIs
<1>0. N \in Nat /\ \A n \in 1..N : n - 1 \in 0..N /\ n \in 0..N
  OBVIOUS
<1>4. /\ pend[0] = {}
      /\ \A n \in 1..N :
            pend[n] = SweepContent(ms[n].role, pend[n - 1], ms[n].content).pending
      /\ \A n \in 1..N : /\ t[n] = DropPending(pend[N], FirstSweep(pend[n - 1], ms[n]))
                         /\ ms[n] \in Seen(Items)
  BY <1>1 DEF Pends, SweptBy
<1>b. /\ v[0] = {} /\ v[N] = {}
      /\ \A n \in 1..N : Kept(ms[n].role, v[n - 1], ms[n].content, v[n])
  BY <1>2 DEF TidyAlong
<1>5. ASSUME NEW n \in 1..N
      PROVE  /\ SweepContent(ms[n].role, v[n - 1], ms[n].content).content = ms[n].content
             /\ SweepContent(ms[n].role, v[n - 1], ms[n].content).pending = v[n]
  <2> DEFINE swept == SweepContent(ms[n].role, v[n - 1], ms[n].content)
             c == ms[n].content
  <2>1. Kept(ms[n].role, v[n - 1], ms[n].content, v[n])
    BY <1>b
  <2>2. swept = [content |-> c, pending |-> v[n]]
    BY <2>1 DEF Kept
  <2> HIDE DEF swept, c
  <2>3. swept.content = c /\ swept.pending = v[n]
    BY <2>2
  <2> QED
    BY <2>3 DEF swept, c
<1>c. pend[0] = v[0]
  BY <1>4, <1>b
<1> HIDE DEF t, N
<1> DEFINE T == {n \in 0..N : pend[n] = v[n]}
<1>6. 0 \in T
  BY <1>0, <1>c
<1>7. ASSUME NEW n \in 1..N, n - 1 \in T
      PROVE  n \in T
  <2>1. pend[n - 1] = v[n - 1] /\ n \in 0..N
    BY <1>0, <1>7
  <2>2. pend[n] = SweepContent(ms[n].role, v[n - 1], ms[n].content).pending
    BY <1>4, <2>1
  <2>3. pend[n] = v[n]
    BY <1>5, <2>2
  <2> QED
    BY <2>1, <2>3
<1>8. \A n \in 0..N : pend[n] = v[n]
  <2> HIDE DEF T
  <2>1. \A n \in 0..N : n \in T
    BY <1>0, <1>6, <1>7, Along
  <2> QED
    BY <2>1 DEF T
<1>9. ASSUME NEW n \in 1..N
      PROVE  t[n] = ms[n]
  <2> DEFINE m == ms[n]
             c == m.content
             none == {}
             S == {item \in ToSet(c) : ~(item.kind = "request" /\ item.id \in none)}
  <2>1. m \in Seen(Items) /\ N \in 0..N
    BY <1>0, <1>4
  <2>2. SweepContent(m.role, pend[n - 1], c).content = c
    BY <1>0, <1>5, <1>8
  <2>3. t[n] = DropPending(none, FirstSweep(pend[n - 1], m))
    BY <1>4, <1>8, <1>b, <2>1
  <2> HIDE DEF m
  <2>4. FirstSweep(pend[n - 1], m) = m
    <3>1. FirstSweep(pend[n - 1], m) = [m EXCEPT !.content = c]
      BY <2>2 DEF FirstSweep
    <3> QED
      BY <2>1, <3>1 DEF Seen
  <2>5. Among(c, S) = c
    <3>1. c \in Seq(Items)
      BY <2>1 DEF Seen
    <3>2. \A k \in 1..Len(c) : c[k] \in S
      BY <3>1, ItemsOf
    <3> HIDE DEF c, S
    <3> QED
      BY <3>1, <3>2, AmongAll
  <2>6. DropPending(none, m) = [m EXCEPT !.content = c]
    BY <2>5 DEF DropPending
  <2>7. DropPending(none, m) = m
    BY <2>1, <2>6 DEF Seen
  <2> QED
    BY <2>3, <2>4, <2>7 DEF m
<1>10. t = ms
  <2>1. t = [i \in 1..Len(t) |-> t[i]] /\ ms = [i \in 1..Len(ms) |-> ms[i]]
    BY <1>3
  <2> QED
    BY <1>3, <1>9, <2>1 DEF N
<1> QED
  BY <1>10 DEF t

\* Texts put together leave messages tidy.
LEMMA MergeTextTidy ==
    ASSUME NEW ms \in Seq(Seen(Items)), Tidy(ms)
    PROVE  Tidy(Map(MergeTextContentInMessage, ms))
<1> DEFINE t == Map(MergeTextContentInMessage, ms)
           N == Len(ms)
<1>1. PICK v : TidyAlong(v, ms, {})
  BY DEF Tidy, TidyTo
<1>2. /\ Len(t) = N
      /\ \A n \in 1..N : t[n] = MergeTextContentInMessage(ms[n]) /\ ms[n] \in Seen(Items)
  <2>1. t \in Seq(Seen(Items)) /\ Len(t) = N
    BY EachTyped
  <2>2. DOMAIN ms = 1..N
    OBVIOUS
  <2> QED
    BY <2>1, <2>2 DEF Map
<1>3. /\ v \in [0..N -> SUBSET Ids] /\ v[0] = {} /\ v[N] = {}
      /\ \A n \in 1..N : Kept(ms[n].role, v[n - 1], ms[n].content, v[n])
  BY <1>1 DEF TidyAlong
<1>4. \A n \in 1..N : n - 1 \in 0..N
  OBVIOUS
<1> HIDE DEF t, N
<1>5. ASSUME NEW n \in 1..N
      PROVE  Kept(t[n].role, v[n - 1], t[n].content, v[n])
  <2> DEFINE m == ms[n]
             c == m.content
             p == v[n - 1]
             q == v[n]
  <2>1. /\ m \in Seen(Items) /\ t[n] = MergeTextContentInMessage(m)
        /\ p \in SUBSET Ids /\ Kept(m.role, p, c, q)
    BY <1>2, <1>3, <1>4
  <2>2. c \in Seq(Items) /\ m.role \in Roles
    BY <2>1 DEF Seen
  <2> HIDE DEF m, p, q
  <2>3. CASE m.role = "user"
    BY <2>1, <2>3 DEF MergeTextContentInMessage, p, q
  <2>4. CASE m.role # "user"
    <3>1. t[n].role = m.role /\ t[n].content = FoldLeft(AddItem, <<>>, c)
      BY <2>1, <2>4 DEF MergeTextContentInMessage, Seen
    <3> HIDE DEF c
    <3>2. Kept(m.role, p, FoldLeft(AddItem, <<>>, c), q)
      BY <2>1, <2>2, MergeTextKept, Zenon
    <3> QED
      BY <3>1, <3>2 DEF p, q
  <2> QED
    BY <2>3, <2>4
<1>6. TidyAlong(v, t, {})
  BY <1>2, <1>3, <1>5 DEF TidyAlong
<1> QED
  BY <1>6 DEF Tidy, TidyTo, t

\* No text an assistant said ends in white space.
TrimmedAll(ms) ==
    \A n \in 1..Len(ms) : ms[n].role = "assistant" =>
        \A x \in ToSet(ms[n].content) : IsText(x) => ~x.space

\* The texts of b are among those of a, from the same role.
TextsFrom(a, b) ==
    \A q \in 1..Len(b) : \A x \in ToSet(b[q].content) : IsText(x) =>
        \E i \in 1..Len(a) : a[i].role = b[q].role /\ x \in ToSet(a[i].content)

\* What passes on only what is trimmed stays trimmed.
LEMMA TrimmedFrom ==
    ASSUME NEW a, NEW b, TrimmedAll(a), TextsFrom(a, b)
    PROVE  TrimmedAll(b)
BY DEF TrimmedAll, TextsFrom

\* trim_assistant_text trims.
LEMMA TrimTrims ==
    ASSUME NEW ms \in Seq(Seen(Items))
    PROVE  TrimmedAll(Map(TrimAssistantText, ms))
<1> DEFINE t == Map(TrimAssistantText, ms)
           N == Len(ms)
<1>1. Len(t) = N /\ \A n \in 1..N : t[n] = TrimAssistantText(ms[n]) /\ ms[n] \in Seen(Items)
  <2>1. Len(t) = N
    BY EachTyped
  <2>2. DOMAIN ms = 1..N
    OBVIOUS
  <2> QED
    BY <2>1, <2>2 DEF Map
<1> HIDE DEF t, N
<1>2. ASSUME NEW n \in 1..N, t[n].role = "assistant",
             NEW x \in ToSet(t[n].content), IsText(x)
      PROVE  ~x.space
  <2> DEFINE m == ms[n]
             c == m.content
             d == Map(Trimmed, c)
  <2>1. m \in Seen(Items) /\ t[n] = TrimAssistantText(m)
    BY <1>1
  <2>2. c \in Seq(Items)
    BY <2>1 DEF Seen
  <2> HIDE DEF m
  <2>3. m.role # "user" /\ t[n] = [m EXCEPT !.content = d]
    <3>1. CASE m.role = "user"
      BY <1>2, <2>1, <3>1 DEF TrimAssistantText
    <3>2. CASE m.role # "user"
      BY <2>1, <3>2 DEF TrimAssistantText
    <3> QED
      BY <3>1, <3>2
  <2>4. t[n].content = d
    BY <2>1, <2>3 DEF Seen
  <2>5. DOMAIN c = 1..Len(c) /\ \A k \in 1..Len(c) : c[k] \in Items
    BY <2>2
  <2> HIDE DEF c
  <2>6. DOMAIN d = 1..Len(c) /\ \A k \in 1..Len(c) : d[k] = Trimmed(c[k])
    BY <2>5 DEF Map
  <2> HIDE DEF d
  <2>7. PICK k \in 1..Len(c) : x = d[k]
    BY <1>2, <2>4, <2>6 DEF ToSet
  <2> DEFINE y == c[k]
  <2>8. y \in Items /\ x = Trimmed(y)
    BY <2>5, <2>6, <2>7
  <2> HIDE DEF y
  <2>9. CASE IsText(y)
    <3>1. y \in Texts
      BY <2>8, <2>9, ItemKinds DEF IsText
    <3>2. x = [y EXCEPT !.space = FALSE]
      BY <2>8, <2>9 DEF Trimmed
    <3> QED
      BY <3>1, <3>2 DEF Texts
  <2>10. CASE ~IsText(y)
    BY <1>2, <2>8, <2>10 DEF Trimmed
  <2> QED
    BY <2>9, <2>10
<1> QED
  BY <1>1, <1>2 DEF TrimmedAll, t

\* The messages that are left are among those there were.
LEMMA PartTexts ==
    ASSUME NEW E, NEW a \in Seq(E), NEW b \in Seq(E), NEW e, PartOf(b, a, e)
    PROVE  TextsFrom(a, b)
<1>1. \A q \in 1..Len(b) : e[q] \in 1..Len(a) /\ b[q] = a[e[q]]
  BY DEF PartOf, PartUpTo
<1> QED
  BY <1>1 DEF TextsFrom

\* What is not removed for being empty is what there was.
LEMMA RemoveEmptyTexts ==
    ASSUME NEW ms \in Seq(Seen(Items))
    PROVE  TextsFrom(ms, RemoveEmptyMessages(ms))
<1>1. /\ RemoveEmptyMessages(ms) \in Seq(Seen(Items))
      /\ \E e : PartOf(RemoveEmptyMessages(ms), ms, e)
  BY RemoveEmptyIs
<1> QED
  BY <1>1, PartTexts, Zenon

\* What is left before a trailing message is what there was.
LEMMA RemoveTrailTexts ==
    ASSUME NEW ms \in Seq(Seen(Items))
    PROVE  TextsFrom(ms, RemoveTrail(ms))
<1>1. CASE RemoveTrail(ms) = ms
  BY <1>1 DEF TextsFrom
<1>2. CASE RemoveTrail(ms) # ms
  <2>1. ms # <<>> /\ RemoveTrail(ms) = Front(ms)
    BY <1>2 DEF RemoveTrail
  <2> DEFINE f == Front(ms)
             N == Len(ms)
  <2>2. /\ N \in Nat \ {0} /\ Len(f) = N - 1
        /\ \A n \in 1..(N - 1) : f[n] = ms[n]
    BY <2>1, LastFront
  <2> HIDE DEF f, N
  <2>3. \A n \in 1..Len(f) : n \in 1..N /\ f[n] = ms[n]
    BY <2>2
  <2>4. TextsFrom(ms, f)
    BY <2>3 DEF TextsFrom, N
  <2> QED
    BY <2>1, <2>4 DEF f
<1> QED
  BY <1>1, <1>2

\* Messages that are mapped one by one, and gain no text.
LEMMA EachTexts ==
    ASSUME NEW a, NEW b, Len(b) = Len(a),
           \A n \in 1..Len(a) :
              /\ b[n].role = a[n].role
              /\ \A x \in ToSet(b[n].content) : IsText(x) => x \in ToSet(a[n].content)
    PROVE  TextsFrom(a, b)
BY DEF TextsFrom

\* To fill a result adds no text.
LEMMA FillTexts ==
    ASSUME NEW ms \in Seq(Seen(Items))
    PROVE  TextsFrom(ms, Map(FixEmptyToolResults, ms))
<1> DEFINE t == Map(FixEmptyToolResults, ms)
           N == Len(ms)
<1>1. Len(t) = N /\ \A n \in 1..N : t[n] = FixEmptyToolResults(ms[n]) /\ ms[n] \in Seen(Items)
  <2>1. Len(t) = N
    BY EachTyped
  <2>2. DOMAIN ms = 1..N
    OBVIOUS
  <2> QED
    BY <2>1, <2>2 DEF Map
<1> HIDE DEF t, N
<1>2. ASSUME NEW n \in 1..N
      PROVE  /\ t[n].role = ms[n].role
             /\ \A x \in ToSet(t[n].content) : IsText(x) => x \in ToSet(ms[n].content)
  <2> DEFINE m == ms[n]
             c == m.content
             d == Map(Filled, c)
  <2>1. m \in Seen(Items) /\ t[n] = [m EXCEPT !.content = d]
    BY <1>1 DEF FixEmptyToolResults
  <2>2. c \in Seq(Items)
    BY <2>1 DEF Seen
  <2> HIDE DEF m
  <2>3. t[n].content = d /\ t[n].role = m.role
    BY <2>1 DEF Seen
  <2>4. DOMAIN c = 1..Len(c) /\ \A k \in 1..Len(c) : c[k] \in Items
    BY <2>2
  <2> HIDE DEF c
  <2>5. DOMAIN d = 1..Len(c) /\ \A k \in 1..Len(c) : d[k] = Filled(c[k])
    BY <2>4 DEF Map
  <2> HIDE DEF d
  <2>6. ASSUME NEW x \in ToSet(d), IsText(x)
        PROVE  x \in ToSet(c)
    <3>1. PICK k \in 1..Len(c) : x = d[k]
      BY <2>5, <2>6 DEF ToSet
    <3> DEFINE y == c[k]
    <3>2. y \in Items /\ x = Filled(y)
      BY <2>4, <2>5, <3>1
    <3>3. y \in ToSet(c)
      BY <2>4 DEF ToSet
    <3> HIDE DEF y
    <3>4. CASE y.kind = "response"
      <4>1. y \in Responses
        BY <3>2, <3>4, ItemKinds
      <4>2. x = [y EXCEPT !.empty = FALSE]
        BY <3>2, <3>4 DEF Filled
      <4>3. x.kind = "response"
        BY <4>1, <4>2 DEF Responses
      <4> QED
        BY <2>6, <4>3 DEF IsText
    <3>5. CASE y.kind # "response"
      BY <3>2, <3>3, <3>5 DEF Filled
    <3> QED
      BY <3>4, <3>5
  <2> QED
    BY <2>3, <2>6 DEF m, c
<1>3. TextsFrom(ms, t)
  BY <1>1, <1>2, EachTexts DEF N
<1> QED
  BY <1>3 DEF t

\* The merge moves what was said to a message of the same role.
LEMMA MergeTexts ==
    ASSUME NEW ms \in Seq(Seen(Items))
    PROVE  TextsFrom(ms, MergeConsecutiveMessages(ms))
<1> DEFINE t == MergeConsecutiveMessages(ms)
<1>a. Items \in SUBSET Items
  OBVIOUS
<1>1. PICK p : Collected(t, ms, Len(ms), p)
  BY <1>a, MergeCollects, Zenon
<1> HIDE DEF t
<1>2. \A i \in 1..Len(ms) : t[p[i]].role = ms[i].role
  BY <1>1 DEF Collected
<1>3. \A q \in 1..Len(t) : \A x \in ToSet(t[q].content) :
         \E i \in 1..Len(ms) : p[i] = q /\ x \in ToSet(ms[i].content)
  BY <1>1 DEF Collected
<1>4. TextsFrom(ms, t)
  BY <1>2, <1>3 DEF TextsFrom
<1> QED
  BY <1>4 DEF t

\* The sweeps only take items from messages.
LEMMA SweptItems ==
    ASSUME NEW ms \in Seq(Seen(Items))
    PROVE  /\ Len(Swept(ms)) = Len(ms)
           /\ \A n \in 1..Len(ms) :
                 /\ Swept(ms)[n].role = ms[n].role
                 /\ ToSet(Swept(ms)[n].content) \subseteq ToSet(ms[n].content)
<1> DEFINE t == Swept(ms)
           N == Len(ms)
<1>a. Items \in SUBSET Items
  OBVIOUS
<1>1. PICK pend : Pends(pend, ms) /\ SweptBy(pend, ms)
  BY <1>a, SweptEach, Zenon
<1>2. Len(t) = N
  BY <1>a, SweptIs
<1>3. \A n \in 1..N : /\ t[n] = DropPending(pend[N], FirstSweep(pend[n - 1], ms[n]))
                      /\ ms[n] \in Seen(Items)
                      /\ pend[n - 1] \in SUBSET Ids
  <2>1. \A n \in 1..N : n - 1 \in 0..N
    OBVIOUS
  <2> QED
    BY <1>1, <2>1 DEF Pends, SweptBy
<1> HIDE DEF t, N
<1>4. ASSUME NEW n \in 1..N
      PROVE  /\ t[n].role = ms[n].role
             /\ ToSet(t[n].content) \subseteq ToSet(ms[n].content)
  <2> DEFINE m == ms[n]
             c == m.content
             p == pend[n - 1]
             P == pend[N]
             f == FirstSweep(p, m)
             J == ToSet(c)
             s == SweepContent(m.role, p, c)
  <2>1. m \in Seen(Items) /\ t[n] = DropPending(P, f) /\ p \in SUBSET Ids
    BY <1>3
  <2>2. c \in Seq(Items) /\ f = [m EXCEPT !.content = s.content]
    BY <2>1 DEF Seen, FirstSweep
  <2> HIDE DEF p, P, f
  <2>3. J \in SUBSET Items /\ c \in Seq(J)
    <3>1. /\ ToSet(c) \in SUBSET Items
          /\ \A k \in 1..Len(c) : c[k] \in ToSet(c)
      BY <2>2, ItemsOf
    <3>2. c = [k \in 1..Len(c) |-> c[k]] /\ Len(c) \in Nat
      BY <2>2
    <3> HIDE DEF c, J
    <3>3. c \in [1..Len(c) -> ToSet(c)]
      BY <3>1, <3>2
    <3>4. c \in Seq(ToSet(c))
      BY <3>2, <3>3
    <3> QED
      BY <3>1, <3>4 DEF J
  <2> HIDE DEF J
  <2>4. s \in Swiped(J)
    <3> HIDE DEF c
    <3>1. m.role \in Roles
      BY <2>1 DEF Seen
    <3> QED
      BY <2>1, <2>3, SweepContentTyped
  <2>5. s.content \in Seq(J)
    BY <2>4 DEF Swiped
  <2> HIDE DEF s, c
  <2>6. f \in Seen(J) /\ f.role = m.role
    BY <2>1, <2>2, <2>5 DEF Seen
  <2> HIDE DEF m
  <2>7. t[n] \in Seen(J) /\ t[n].role = m.role
    BY <2>1, <2>3, <2>6, DropIs
  <2>8. t[n].content \in Seq(J)
    BY <2>7 DEF Seen
  <2>9. ToSet(t[n].content) \in SUBSET J
    BY <2>8, ItemsOf
  <2> QED
    BY <2>7, <2>9 DEF J, c, m
<1> QED
  BY <1>2, <1>4 DEF t, N

\* So they add no text,
LEMMA SweptTexts ==
    ASSUME NEW ms \in Seq(Seen(Items))
    PROVE  TextsFrom(ms, Swept(ms))
<1> DEFINE t == Swept(ms)
<1>1. /\ Len(t) = Len(ms)
      /\ \A n \in 1..Len(ms) : /\ t[n].role = ms[n].role
                               /\ ToSet(t[n].content) \subseteq ToSet(ms[n].content)
  BY SweptItems
<1> HIDE DEF t
<1>2. TextsFrom(ms, t)
  BY <1>1, EachTexts
<1> QED
  BY <1>2 DEF t

\* and no request.
LEMMA SweptOnce ==
    ASSUME NEW ms \in Seq(Seen(Items)), AskedOnce(ms)
    PROVE  AskedOnce(Swept(ms))
<1> DEFINE t == Swept(ms)
<1>a. Items \in SUBSET Items
  OBVIOUS
<1>1. /\ Len(t) = Len(ms)
      /\ \A n \in 1..Len(ms) : ToSet(t[n].content) \subseteq ToSet(ms[n].content)
  BY SweptItems
<1>2. t \in Seq(Seen(Items))
  BY <1>a, SweptIs
<1> HIDE DEF t
<1>3. ASSUME NEW n \in 1..Len(ms), NEW id, Has(t[n], "request", id)
      PROVE  Has(ms[n], "request", id)
  <2>1. t[n] \in Seen(Items) /\ ms[n] \in Seen(Items)
    BY <1>1, <1>2
  <2>2. PICK x \in ToSet(t[n].content) : x.kind = "request" /\ x.id = id
    BY <1>3, <1>a, <2>1, ByItems
  <2>3. x \in ToSet(ms[n].content)
    BY <1>1, <2>2
  <2> QED
    BY <1>a, <2>1, <2>2, <2>3, ByItems
<1>4. AskedOnce(t)
  BY <1>1, <1>3 DEF AskedOnce
<1> QED
  BY <1>4 DEF t

\* Items whose text, if they are one, does not end in white space.
Cut == {x \in Items : IsText(x) => ~x.space}

\* Trimmed texts put together are trimmed.
LEMMA AddItemCut ==
    ASSUME NEW content \in Seq(Cut), NEW item \in Cut
    PROVE  AddItem(content, item) \in Seq(Cut)
<1>1. CASE content # <<>> /\ IsText(item) /\ IsText(Last(content))
  <2> DEFINE last == Last(content)
             new == Concat(last, item)
             F == Front(content)
  <2>1. AddItem(content, item) = Append(F, new)
    BY <1>1 DEF AddItem
  <2>2. F \in Seq(Cut) /\ last \in Cut
    BY <1>1, LastFront
  <2> HIDE DEF last, F
  <2>3. /\ last \in Texts /\ item \in Texts /\ ~item.space
    BY <1>1, <2>2, ItemKinds DEF Cut, IsText, last
  <2>4. new \in Cut
    <3>1. new \in Texts
      BY <2>3, ConcatTyped
    <3>2. new \in Items
      BY <3>1 DEF Items
    <3>3. CASE IsEmptyText(item)
      BY <2>2, <3>3 DEF Concat
    <3>4. CASE ~IsEmptyText(item)
      <4>1. new = [kind |-> "text", words |-> last.words + item.words, space |-> item.space]
        BY <3>4 DEF Concat, Text
      <4>2. ~new.space
        BY <2>3, <4>1
      <4> HIDE DEF new
      <4> QED
        BY <3>2, <4>2 DEF Cut
    <3> QED
      BY <3>3, <3>4
  <2> HIDE DEF new
  <2> QED
    BY <2>1, <2>2, <2>4
<1>2. CASE ~(content # <<>> /\ IsText(item) /\ IsText(Last(content)))
  BY <1>2 DEF AddItem
<1> QED
  BY <1>1, <1>2

\* Texts put together end as the last of them does.
LEMMA MergeTextCut ==
    ASSUME NEW content \in Seq(Cut)
    PROVE  FoldLeft(AddItem, <<>>, content) \in Seq(Cut)
<1>1. content \in Seq(Items)
  BY DEF Cut
<1>2. PICK it : TextsAlong(it, content)
  BY <1>1, AddItemFold
<1> DEFINE N == Len(content)
           T == {n \in 0..N : it[n] \in Seq(Cut)}
<1>0. N \in Nat
  BY <1>1
<1>3. /\ it[0] = <<>> /\ it[N] = FoldLeft(AddItem, <<>>, content)
      /\ \A n \in 1..N : it[n] = AddItem(it[n - 1], content[n])
  BY <1>2 DEF TextsAlong
<1>4. \A n \in 1..N : content[n] \in Cut
  OBVIOUS
<1> HIDE DEF N
<1>5. 0 \in T
  <2>1. 0 \in 0..N /\ <<>> \in Seq(Cut)
    BY <1>0
  <2> QED
    BY <1>3, <2>1
<1>6. ASSUME NEW n \in 1..N, n - 1 \in T
      PROVE  n \in T
  <2>1. it[n - 1] \in Seq(Cut) /\ n \in 0..N
    BY <1>0, <1>6
  <2>2. AddItem(it[n - 1], content[n]) \in Seq(Cut)
    BY <1>4, <2>1, AddItemCut
  <2> QED
    BY <1>3, <2>1, <2>2
<1> HIDE DEF T
<1>7. \A n \in 0..N : n \in T
  BY <1>0, <1>5, <1>6, Along
<1> QED
  BY <1>0, <1>3, <1>7 DEF T

\* The first pass leaves trimmed messages trimmed.
LEMMA MergeTextTrimmed ==
    ASSUME NEW ms \in Seq(Seen(Items)), TrimmedAll(ms)
    PROVE  TrimmedAll(Map(MergeTextContentInMessage, ms))
<1> DEFINE t == Map(MergeTextContentInMessage, ms)
           N == Len(ms)
<1>1. /\ Len(t) = N
      /\ \A n \in 1..N : t[n] = MergeTextContentInMessage(ms[n]) /\ ms[n] \in Seen(Items)
  <2>1. Len(t) = N
    BY EachTyped
  <2>2. DOMAIN ms = 1..N
    OBVIOUS
  <2> QED
    BY <2>1, <2>2 DEF Map
<1>2. \A n \in 1..N : ms[n].role = "assistant" =>
         \A x \in ToSet(ms[n].content) : IsText(x) => ~x.space
  BY DEF TrimmedAll
<1> HIDE DEF t, N
<1>3. ASSUME NEW n \in 1..N, t[n].role = "assistant"
      PROVE  \A x \in ToSet(t[n].content) : IsText(x) => ~x.space
  <2> DEFINE m == ms[n]
             c == m.content
             new == FoldLeft(AddItem, <<>>, c)
  <2>1. /\ m \in Seen(Items) /\ t[n] = MergeTextContentInMessage(m)
        /\ m.role = "assistant" => \A x \in ToSet(c) : IsText(x) => ~x.space
    BY <1>1, <1>2
  <2>2. c \in Seq(Items)
    BY <2>1 DEF Seen
  <2> HIDE DEF m
  <2>3. m.role # "user" /\ t[n] = [m EXCEPT !.content = new]
    <3>1. CASE m.role = "user"
      BY <1>3, <2>1, <3>1 DEF MergeTextContentInMessage
    <3>2. CASE m.role # "user"
      BY <2>1, <3>2 DEF MergeTextContentInMessage
    <3> QED
      BY <3>1, <3>2
  <2>4. t[n].content = new /\ m.role = "assistant"
    BY <1>3, <2>1, <2>3 DEF Seen
  <2> HIDE DEF new
  <2>5. c \in Seq(Cut)
    <3> HIDE DEF c
    <3>1. Len(c) \in Nat /\ c = [k \in 1..Len(c) |-> c[k]]
      BY <2>2
    <3>2. \A k \in 1..Len(c) : c[k] \in Items /\ c[k] \in ToSet(c)
      BY <2>2, ItemsOf
    <3>3. \A k \in 1..Len(c) : c[k] \in Cut
      BY <2>1, <2>4, <3>2 DEF Cut, c
    <3>4. c \in [1..Len(c) -> Cut]
      BY <3>1, <3>3
    <3> QED
      BY <3>1, <3>4
  <2>6. new \in Seq(Cut)
    BY <2>5, MergeTextCut DEF new
  <2>7. ToSet(new) \in SUBSET Cut
    BY <2>6, ItemsOf
  <2> QED
    BY <2>4, <2>7 DEF Cut
<1> QED
  BY <1>1, <1>3 DEF TrimmedAll, t

\* What is trimmed is not trimmed again.
LEMMA TrimSettles ==
    ASSUME NEW ms \in Seq(Seen(Items)), TrimmedAll(ms)
    PROVE  Map(TrimAssistantText, ms) = ms
<1> DEFINE t == Map(TrimAssistantText, ms)
           N == Len(ms)
<1>1. /\ t \in Seq(Seen(Items)) /\ Len(t) = N
      /\ \A n \in 1..N : t[n] = TrimAssistantText(ms[n]) /\ ms[n] \in Seen(Items)
  <2>1. t \in Seq(Seen(Items)) /\ Len(t) = N
    BY EachTyped
  <2>2. DOMAIN ms = 1..N
    OBVIOUS
  <2> QED
    BY <2>1, <2>2 DEF Map
<1>2. \A n \in 1..N : ms[n].role = "assistant" =>
         \A x \in ToSet(ms[n].content) : IsText(x) => ~x.space
  BY DEF TrimmedAll
<1> HIDE DEF t, N
<1>3. ASSUME NEW n \in 1..N
      PROVE  t[n] = ms[n]
  <2> DEFINE m == ms[n]
             c == m.content
             d == Map(Trimmed, c)
  <2>1. /\ m \in Seen(Items) /\ t[n] = TrimAssistantText(m)
        /\ m.role = "assistant" => \A x \in ToSet(c) : IsText(x) => ~x.space
    BY <1>1, <1>2
  <2>2. c \in Seq(Items) /\ m.role \in Roles
    BY <2>1 DEF Seen
  <2> HIDE DEF m
  <2>3. CASE m.role = "user"
    BY <2>1, <2>3 DEF TrimAssistantText, m
  <2>4. CASE m.role # "user"
    <3>1. t[n] = [m EXCEPT !.content = d]
      BY <2>1, <2>4 DEF TrimAssistantText
    <3>2. \A x \in ToSet(c) : IsText(x) => ~x.space
      BY <2>1, <2>2, <2>4 DEF Roles
    <3> HIDE DEF c
    <3>3. ASSUME NEW k \in 1..Len(c)
          PROVE  Trimmed(c[k]) = c[k]
      <4> DEFINE y == c[k]
      <4>1. y \in Items /\ y \in ToSet(c)
        BY <2>2, ItemsOf
      <4> HIDE DEF y
      <4>2. CASE IsText(y)
        <5>1. y \in Texts /\ ~y.space
          BY <3>2, <4>1, <4>2, ItemKinds DEF IsText
        <5>2. Trimmed(y) = [y EXCEPT !.space = FALSE]
          BY <4>2 DEF Trimmed
        <5>3. y.space = FALSE
          BY <5>1 DEF Texts
        <5>4. [y EXCEPT !.space = FALSE] = y
          BY <5>1, <5>3 DEF Texts
        <5> QED
          BY <5>2, <5>4 DEF y
      <4>3. CASE ~IsText(y)
        BY <4>3 DEF Trimmed, y
      <4> QED
        BY <4>2, <4>3
    <3>4. d = c
      <4>1. DOMAIN c = 1..Len(c) /\ c = [k \in 1..Len(c) |-> c[k]]
        BY <2>2
      <4>2. d = [k \in 1..Len(c) |-> Trimmed(c[k])]
        BY <4>1 DEF Map
      <4> QED
        BY <3>3, <4>1, <4>2
    <3> HIDE DEF d
    <3>5. [m EXCEPT !.content = c] = m
      BY <2>1 DEF Seen, c, m
    <3> QED
      BY <3>1, <3>4, <3>5 DEF m
  <2> QED
    BY <2>3, <2>4
<1>4. t = ms
  <2>1. t = [i \in 1..Len(t) |-> t[i]] /\ ms = [i \in 1..Len(ms) |-> ms[i]]
    BY <1>1
  <2> QED
    BY <1>1, <1>3, <2>1 DEF N
<1> QED
  BY <1>4 DEF t

\* Nothing is removed from messages that all say something.
LEMMA SaySettles ==
    ASSUME NEW E, NEW ms \in Seq(E), AllSay(ms)
    PROVE  RemoveEmptyMessages(ms) = ms
<1> DEFINE S == {m \in ToSet(ms) : HasContent(m)}
<1>1. \A n \in 1..Len(ms) : ms[n] \in S
  BY ItemsOf DEF AllSay
<1>2. RemoveEmptyMessages(ms) = Among(ms, S)
  BY DEF RemoveEmptyMessages
<1> HIDE DEF S
<1> QED
  BY <1>1, <1>2, AmongAll

\* No result is empty, so that none is filled.
LEMMA FillSettles ==
    ASSUME NEW ms \in Seq(Seen(Sound))
    PROVE  Map(FixEmptyToolResults, ms) = ms
<1> DEFINE t == Map(FixEmptyToolResults, ms)
           N == Len(ms)
<1>1. /\ t \in Seq(Seen(Items)) /\ Len(t) = N
      /\ \A n \in 1..N : t[n] = FixEmptyToolResults(ms[n]) /\ ms[n] \in Seen(Sound)
  <2>1. ms \in Seq(Seen(Items))
    BY SoundSeen
  <2>2. t \in Seq(Seen(Sound)) /\ Len(t) = N
    BY <2>1, EachTyped
  <2>3. DOMAIN ms = 1..N /\ \A n \in 1..N : ms[n] \in Seen(Sound)
    OBVIOUS
  <2> QED
    BY <2>2, <2>3, SoundSeen DEF Map
<1> HIDE DEF t, N
<1>2. ASSUME NEW n \in 1..N
      PROVE  t[n] = ms[n]
  <2> DEFINE m == ms[n]
             c == m.content
             d == Map(Filled, c)
  <2>1. m \in Seen(Sound) /\ t[n] = [m EXCEPT !.content = d]
    BY <1>1 DEF FixEmptyToolResults
  <2>2. c \in Seq(Sound)
    BY <2>1 DEF Seen
  <2> HIDE DEF m, c
  <2>3. ASSUME NEW k \in 1..Len(c)
        PROVE  Filled(c[k]) = c[k]
    <3> DEFINE y == c[k]
    <3>1. y \in Items /\ (y.kind = "response" => ~y.empty)
      BY <2>2 DEF Sound
    <3> HIDE DEF y
    <3>2. CASE y.kind = "response"
      <4>1. y \in Responses /\ Filled(y) = [y EXCEPT !.empty = FALSE]
        BY <3>1, <3>2, ItemKinds DEF Filled
      <4>2. y.empty = FALSE
        BY <3>1, <3>2, <4>1 DEF Responses
      <4>3. [y EXCEPT !.empty = FALSE] = y
        BY <4>1, <4>2 DEF Responses
      <4> QED
        BY <4>1, <4>3 DEF y
    <3>3. CASE y.kind # "response"
      BY <3>3 DEF Filled, y
    <3> QED
      BY <3>2, <3>3
  <2>4. d = c
    <3>1. DOMAIN c = 1..Len(c) /\ c = [k \in 1..Len(c) |-> c[k]]
      BY <2>2
    <3>2. d = [k \in 1..Len(c) |-> Filled(c[k])]
      BY <3>1 DEF Map
    <3> QED
      BY <2>3, <3>1, <3>2
  <2> HIDE DEF d
  <2>5. [m EXCEPT !.content = c] = m
    BY <2>1 DEF Seen, c
  <2> QED
    BY <2>1, <2>4, <2>5 DEF m
<1>3. t = ms
  <2>1. t = [i \in 1..Len(t) |-> t[i]] /\ ms = [i \in 1..Len(ms) |-> ms[i]]
    BY <1>1
  <2> QED
    BY <1>1, <1>2, <2>1 DEF N
<1> QED
  BY <1>3 DEF t

\* Tidy messages that all say something keep their calls.
LEMMA CallsSettle ==
    ASSUME NEW ms \in Seq(Seen(Items)), Tidy(ms), AllSay(ms)
    PROVE  FixToolCalling(ms) = ms
<1>1. Swept(ms) = ms
  BY TidySettles
<1>2. RemoveEmptyMessages(ms) = ms
  BY SaySettles
<1> QED
  BY <1>1, <1>2 DEF FixToolCalling

\* Messages whose roles alternate are not merged.
LEMMA MergeSettles ==
    ASSUME NEW ms \in Seq(Seen(Items)), Alternates(ms)
    PROVE  MergeConsecutiveMessages(ms) = ms
<1>1. PICK it : MergeAlong(it, ms, Items)
  BY MergeFold, Zenon
<1> DEFINE N == Len(ms)
           T == {n \in 0..N : Len(it[n]) = n /\ \A i \in 1..n : it[n][i] = ms[i]}
<1>0. N \in Nat
  OBVIOUS
<1>2. /\ it[0] = <<>>
      /\ \A n \in 1..N : it[n] = AddMessage(it[n - 1], ms[n])
      /\ \A n \in 0..N : it[n] \in Seq(Seen(Items))
      /\ it[N] = MergeConsecutiveMessages(ms)
  BY <1>1 DEF MergeAlong
<1>a. \A n \in 1..N : ms[n] \in Seen(Items) /\ n \in 0..N /\ n - 1 \in 0..N
  OBVIOUS
<1>b. \A q \in 1..(N - 1) : EffectiveRole(ms[q]) # EffectiveRole(ms[q + 1])
  BY DEF Alternates
<1> HIDE DEF N
<1>3. 0 \in T
  <2>1. it[0] = <<>> /\ Len(<<>>) = 0 /\ 1..0 = {} /\ 0 \in 0..N
    BY <1>0, <1>2
  <2> QED
    BY <2>1
<1>4. ASSUME NEW n \in 1..N, n - 1 \in T
      PROVE  n \in T
  <2> DEFINE old == it[n - 1]
             x == ms[n]
             new == Append(old, x)
  <2>1. /\ old \in Seq(Seen(Items)) /\ Len(old) = n - 1
        /\ \A i \in 1..(n - 1) : old[i] = ms[i]
        /\ x \in Seen(Items)
        /\ it[n] = AddMessage(old, x)
    BY <1>2, <1>4, <1>a
  <2>2. n \in Nat /\ n > 0 /\ n - 1 + 1 = n /\ n \in 0..N
    BY <1>0
  <2> HIDE DEF old
  <2>a. ~(old # <<>> /\ EffectiveRole(Last(old)) = EffectiveRole(x))
    <3> SUFFICES ASSUME old # <<>>
                 PROVE  EffectiveRole(Last(old)) # EffectiveRole(x)
      OBVIOUS
    <3>1. Last(old) = old[n - 1] /\ n - 1 # 0
      BY <2>1 DEF Last
    <3>2. n - 1 \in 1..(N - 1) /\ n - 1 \in 1..(n - 1)
      BY <1>0, <2>2, <3>1
    <3>3. Last(old) = ms[n - 1]
      BY <2>1, <3>1, <3>2
    <3>4. EffectiveRole(ms[n - 1]) # EffectiveRole(ms[n - 1 + 1])
      BY <1>b, <3>2
    <3> QED
      BY <2>2, <3>3, <3>4
  <2>b. it[n] = new
    BY <2>1, <2>a DEF AddMessage
  <2> HIDE DEF x
  <2>3. /\ Len(new) = n /\ new[n] = x
        /\ \A i \in 1..(n - 1) : new[i] = old[i]
    BY <2>1, <2>2
  <2> HIDE DEF new
  <2>4. ASSUME NEW i \in 1..n
        PROVE  new[i] = ms[i]
    <3>1. CASE i = n
      BY <2>3, <3>1 DEF x
    <3>2. CASE i # n
      <4>1. i \in 1..(n - 1)
        BY <2>2, <3>2
      <4> QED
        BY <2>1, <2>3, <4>1
    <3> QED
      BY <3>1, <3>2
  <2> QED
    BY <2>b, <2>2, <2>3, <2>4
<1>5. N \in T
  <2> HIDE DEF T
  <2>1. \A n \in 0..N : n \in T
    BY <1>0, <1>3, <1>4, Along
  <2> QED
    BY <1>0, <2>1
<1> DEFINE d == it[N]
<1>6. d \in Seq(Seen(Items)) /\ Len(d) = Len(ms) /\ \A i \in 1..Len(ms) : d[i] = ms[i]
  <2>1. N \in 0..N
    BY <1>0
  <2> QED
    BY <1>2, <1>5, <2>1 DEF N
<1> HIDE DEF d
<1>7. d = ms
  <2>1. d = [i \in 1..Len(d) |-> d[i]] /\ ms = [i \in 1..Len(ms) |-> ms[i]]
    BY <1>6
  <2> QED
    BY <1>6, <2>1
<1> QED
  BY <1>2, <1>7 DEF d

\* Does a content say something?
Says(content) == \E x \in ToSet(content) : ~IsEmptyText(x)

\* A text put to another does not take away that something is said.
LEMMA AddItemSays ==
    ASSUME NEW content \in Seq(Items), NEW item \in Items,
           Says(content) \/ ~IsEmptyText(item)
    PROVE  Says(AddItem(content, item))
<1>1. CASE content # <<>> /\ IsText(item) /\ IsText(Last(content))
  <2> DEFINE last == Last(content)
             new == Concat(last, item)
             F == Front(content)
  <2>1. AddItem(content, item) = Append(F, new)
    BY <1>1 DEF AddItem
  <2>2. F \in Seq(Items) /\ last \in Items /\ ToSet(content) = ToSet(F) \cup {last}
    BY <1>1, LastFront, ItemsLast
  <2> HIDE DEF last, F
  <2>3. last \in Texts /\ item \in Texts
    BY <1>1, <2>2, ItemKinds DEF IsText, last
  <2>4. new \in Texts /\ new \in Items
    <3>1. new \in Texts
      BY <2>3, ConcatTyped
    <3> QED
      BY <3>1 DEF Items
  <2>5. ~IsEmptyText(last) \/ ~IsEmptyText(item) => ~IsEmptyText(new)
    <3>1. CASE IsEmptyText(item)
      BY <3>1 DEF Concat
    <3>2. CASE ~IsEmptyText(item)
      <4>1. new = [kind |-> "text", words |-> last.words + item.words, space |-> item.space]
        BY <3>2 DEF Concat, Text
      <4>2. last.words \in Nat /\ item.words \in Nat /\ item.kind = "text"
        BY <2>3 DEF Texts
      <4>3. item.words # 0 \/ item.space
        BY <3>2, <4>2 DEF IsEmptyText, IsText
      <4>4. new.words # 0 \/ new.space
        BY <4>1, <4>2, <4>3
      <4> HIDE DEF new
      <4> QED
        BY <4>4 DEF IsEmptyText
    <3> QED
      BY <3>1, <3>2
  <2> HIDE DEF new
  <2>6. ToSet(Append(F, new)) = ToSet(F) \cup {new}
    BY <2>2, <2>4, ItemsAppend
  <2> QED
    BY <2>1, <2>2, <2>5, <2>6 DEF Says
<1>2. CASE ~(content # <<>> /\ IsText(item) /\ IsText(Last(content)))
  <2>1. AddItem(content, item) = Append(content, item)
    BY <1>2 DEF AddItem
  <2>2. ToSet(Append(content, item)) = ToSet(content) \cup {item}
    BY ItemsAppend
  <2> QED
    BY <2>1, <2>2 DEF Says
<1> QED
  BY <1>1, <1>2

\* Texts put together say what they said.
LEMMA MergeTextSays ==
    ASSUME NEW content \in Seq(Items), Says(content)
    PROVE  Says(FoldLeft(AddItem, <<>>, content))
<1>1. PICK it : TextsAlong(it, content)
  BY AddItemFold
<1> DEFINE N == Len(content)
<1>0. N \in Nat
  OBVIOUS
<1>2. /\ it[0] = <<>> /\ it[N] = FoldLeft(AddItem, <<>>, content)
      /\ \A n \in 1..N : /\ it[n - 1] \in Seq(Items)
                         /\ content[n] \in Items
                         /\ it[n] = AddItem(it[n - 1], content[n])
  BY <1>1 DEF TextsAlong
<1>3. \E k \in 1..N : ~IsEmptyText(content[k])
  <2>1. \A x \in ToSet(content) : \E k \in 1..N : content[k] = x
    BY ItemsOf
  <2> QED
    BY <2>1 DEF Says
<1> HIDE DEF N
<1> DEFINE T == {n \in 0..N : (\E k \in 1..n : ~IsEmptyText(content[k])) => Says(it[n])}
<1>4. 0 \in T
  <2>1. 1..0 = {} /\ 0 \in 0..N
    BY <1>0
  <2> QED
    BY <2>1
<1>5. ASSUME NEW n \in 1..N, n - 1 \in T
      PROVE  n \in T
  <2>1. Says(it[n - 1]) \/ ~IsEmptyText(content[n]) => Says(it[n])
    BY <1>2, AddItemSays
  <2>2. (\E k \in 1..(n - 1) : ~IsEmptyText(content[k])) => Says(it[n - 1])
    BY <1>5
  <2>3. \A k : k \in 1..n <=> k = n \/ k \in 1..(n - 1)
    BY <1>0
  <2>4. n \in 0..N
    BY <1>0
  <2> QED
    BY <2>1, <2>2, <2>3, <2>4
<1>6. N \in T
  <2> HIDE DEF T
  <2>1. \A n \in 0..N : n \in T
    BY <1>0, <1>4, <1>5, Along
  <2> QED
    BY <1>0, <2>1
<1> QED
  BY <1>2, <1>3, <1>6

\* What the first pass leaves of a message as it was.
LEMMA MergeTextFits ==
    ASSUME NEW m \in Seen(Sound)
    PROVE  LET d == MergeTextContentInMessage(m)
           IN  /\ d \in Seen(Sound)
               /\ d.role = m.role
               /\ EffectiveRole(d) = EffectiveRole(m)
               /\ HasContent(m) => HasContent(d)
<1> DEFINE d == MergeTextContentInMessage(m)
           c == m.content
           new == FoldLeft(AddItem, <<>>, c)
<1>a. Items \in SUBSET Items /\ m \in Seen(Items)
  BY SoundSeen
<1>1. CASE m.role = "user"
  <2>1. d = m
    BY <1>1 DEF MergeTextContentInMessage
  <2> QED
    BY <2>1
<1>2. CASE m.role # "user"
  <2>1. d = [m EXCEPT !.content = new]
    BY <1>2 DEF MergeTextContentInMessage
  <2>2. d \in Seen(Items) /\ c \in Seq(Items) /\ c \in Seq(Sound)
    BY <1>a, MergeTextTyped DEF Seen
  <2>3. \A x : ~IsText(x) => (x \in ToSet(new) <=> x \in ToSet(c))
    <3> HIDE DEF c
    <3> QED
      BY <2>2, MergeTextLeaves
  <2>4. HasContent(m) => Says(new)
    <3>1. HasContent(m) <=> Says(c)
      BY <1>a, ByItems DEF Says
    <3> HIDE DEF c
    <3> QED
      BY <2>2, <3>1, MergeTextSays
  <2> HIDE DEF new, d
  <2>5. d.content = new /\ d.role = m.role
    BY <2>1 DEF Seen
  <2>6. new \in Seq(Items)
    BY <2>2, <2>5 DEF Seen
  <2>7. new \in Seq(Sound)
    <3>1. ToSet(c) \in SUBSET Sound
      BY <2>2, ItemsOf
    <3>2. \A k \in 1..Len(new) : new[k] \in Items /\ new[k] \in ToSet(new)
      BY <2>6, ItemsOf
    <3> HIDE DEF c
    <3>3. ASSUME NEW k \in 1..Len(new)
          PROVE  new[k] \in Sound
      <4> DEFINE x == new[k]
      <4>1. x \in Items /\ x \in ToSet(new)
        BY <3>2
      <4> HIDE DEF x
      <4>2. CASE IsText(x)
        BY <4>1, <4>2 DEF Sound, IsText, x
      <4>3. CASE ~IsText(x)
        BY <2>3, <3>1, <4>1, <4>3 DEF x
      <4> QED
        BY <4>2, <4>3
    <3>4. Len(new) \in Nat /\ new = [k \in 1..Len(new) |-> new[k]]
      BY <2>6
    <3>5. new \in [1..Len(new) -> Sound]
      BY <3>3, <3>4
    <3> QED
      BY <3>4, <3>5
  <2>8. d \in Seen(Sound)
    BY <2>1, <2>5, <2>7 DEF Seen
  <2>9. EffectiveRole(d) = EffectiveRole(m)
    BY <1>2, <2>5 DEF EffectiveRole
  <2>10. HasContent(m) => HasContent(d)
    <3>1. HasContent(d) <=> Says(new)
      BY <1>a, <2>2, <2>5, ByItems DEF Says
    <3> QED
      BY <2>4, <3>1
  <2> QED
    BY <2>5, <2>8, <2>9, <2>10 DEF d
<1> QED
  BY <1>1, <1>2

\* The head of a sequence is its first element.
LEMMA HeadIs ==
    ASSUME NEW E, NEW s \in Seq(E), s # <<>>
    PROVE  Head(s) = s[1]
OBVIOUS

\* Messages none of the later passes changes.
Steady(ms) ==
    /\ ms \in Seq(Seen(Sound)) /\ ms # <<>>
    /\ TrimmedAll(ms)
    /\ AllSay(ms)
    /\ Tidy(ms)
    /\ Alternates(ms)
    /\ ms[1].role = "user" /\ ms[Len(ms)].role = "user"

\* The first pass leaves steady messages steady.
LEMMA SteadyMerged ==
    ASSUME NEW ms, Steady(ms)
    PROVE  Steady(Map(MergeTextContentInMessage, ms))
<1> DEFINE t == Map(MergeTextContentInMessage, ms)
           N == Len(ms)
<1>1. ms \in Seq(Seen(Sound)) /\ ms \in Seq(Seen(Items)) /\ ms # <<>>
  BY SoundSeen DEF Steady
<1>2. Len(t) = N /\ t \in Seq(Seen(Items))
  BY <1>1, EachTyped
<1>3. \A n \in 1..N : t[n] = MergeTextContentInMessage(ms[n]) /\ ms[n] \in Seen(Sound)
  <2>1. DOMAIN ms = 1..N /\ \A n \in 1..N : ms[n] \in Seen(Sound)
    BY <1>1
  <2> QED
    BY <2>1 DEF Map
<1>4. TrimmedAll(t) /\ Tidy(t)
  BY <1>1, MergeTextTrimmed, MergeTextTidy DEF Steady
<1>5. N \in Nat \ {0}
  BY <1>1
<1> HIDE DEF t
<1>6. \A n \in 1..N : /\ t[n] \in Seen(Sound)
                      /\ t[n].role = ms[n].role
                      /\ EffectiveRole(t[n]) = EffectiveRole(ms[n])
                      /\ HasContent(ms[n]) => HasContent(t[n])
  BY <1>3, MergeTextFits
<1>7. /\ \A n \in 1..N : HasContent(ms[n])
      /\ \A q \in 1..(N - 1) : EffectiveRole(ms[q]) # EffectiveRole(ms[q + 1])
      /\ ms[1].role = "user" /\ ms[N].role = "user"
  BY DEF Steady, AllSay, Alternates
<1> HIDE DEF N
<1>8. t \in Seq(Seen(Sound)) /\ t # <<>>
  <2>1. Len(t) \in Nat /\ t = [n \in 1..Len(t) |-> t[n]]
    BY <1>2
  <2>2. t \in [1..Len(t) -> Seen(Sound)]
    BY <1>2, <1>6, <2>1
  <2> QED
    BY <1>2, <1>5, <2>1, <2>2
<1>9. AllSay(t)
  BY <1>2, <1>6, <1>7 DEF AllSay
<1>10. Alternates(t)
  <2>1. \A q \in 1..(N - 1) : q \in 1..N /\ q + 1 \in 1..N
    BY <1>5
  <2> QED
    BY <1>2, <1>6, <1>7, <2>1 DEF Alternates
<1>11. t[1].role = "user" /\ t[Len(t)].role = "user"
  <2>1. 1 \in 1..N /\ N \in 1..N
    BY <1>5
  <2> QED
    BY <1>2, <1>6, <1>7, <2>1
<1> QED
  BY <1>4, <1>8, <1>9, <1>10, <1>11 DEF Steady, t

\* The other passes leave steady messages as they are.
LEMMA SteadySettles ==
    ASSUME NEW ms, Steady(ms), NEW name \in Named, name # "merged text"
    PROVE  Pass(name, ms) = ms
<1>1. ms \in Seq(Seen(Sound)) /\ ms \in Seq(Seen(Items)) /\ ms # <<>>
  BY SoundSeen DEF Steady
<1>2. /\ TrimmedAll(ms) /\ AllSay(ms) /\ Tidy(ms) /\ Alternates(ms)
      /\ ms[1].role = "user" /\ ms[Len(ms)].role = "user"
  BY DEF Steady
<1>3. Map(TrimAssistantText, ms) = ms
  BY <1>1, <1>2, TrimSettles
<1>4. RemoveEmptyMessages(ms) = ms
  BY <1>1, <1>2, SaySettles
<1>5. Map(FixEmptyToolResults, ms) = ms
  BY <1>1, FillSettles
<1>6. FixToolCalling(ms) = ms
  BY <1>1, <1>2, CallsSettle
<1>7. MergeConsecutiveMessages(ms) = ms
  BY <1>1, <1>2, MergeSettles
<1>8. RemoveLead(ms) = ms
  <2>2. Head(ms) = ms[1]
    BY <1>1, HeadIs
  <2> QED
    BY <1>2, <2>2 DEF RemoveLead
<1>9. RemoveTrail(ms) = ms
  <2>1. Last(ms) = ms[Len(ms)]
    BY DEF Last
  <2> QED
    BY <1>2, <2>1 DEF RemoveTrail
<1>10. PopulateIfEmpty(ms) = ms
  BY <1>1 DEF PopulateIfEmpty
<1>11. name \in {"trimmed", "removed empty", "filled result", "removed calls",
                 "merged messages", "removed lead", "removed trail", "placeholder"}
  BY DEF Named
<1> HIDE DEF Steady
<1> QED
  BY <1>3, <1>4, <1>5, <1>6, <1>7, <1>8, <1>9, <1>10, <1>11 DEF Pass

\* A pass that changes nothing reports nothing.
LEMMA FixSteps ==
    ASSUME NEW acc \in Fixing, NEW name
    PROVE  /\ Fix(acc, name).messages = Pass(name, acc.messages)
           /\ Pass(name, acc.messages) = acc.messages
                 => Fix(acc, name).issues = acc.issues
           /\ name # "merged messages"
                 => Fix(acc, name).issues \subseteq acc.issues \cup {name}
<1> DEFINE w == Pass(name, acc.messages)
           found == Issues(name, acc.messages, w)
<1>1. Fix(acc, name) = [messages |-> w, issues |-> acc.issues \cup found]
  BY DEF Fix
<1>2. w = acc.messages => found = {}
  BY DEF Issues
<1>3. name # "merged messages" => found \subseteq {name}
  BY DEF Issues
<1> HIDE DEF found, w
<1>4. Fix(acc, name).messages = w /\ Fix(acc, name).issues = acc.issues \cup found
  BY <1>1
<1> QED
  BY <1>2, <1>3, <1>4 DEF w

\* A conversation none of the later passes changes has at most the first issue.
LEMMA SteadyIssues ==
    ASSUME NEW ms, Steady(ms)
    PROVE  FixMessages(ms).issues \subseteq {"merged text"}
<1> DEFINE w == Map(MergeTextContentInMessage, ms)
           first == "merged text"
<1>a. ms \in Seq(Seen(Items))
  BY SoundSeen DEF Steady
<1>1. PICK it : FixAlong(it, ms)
  BY <1>a, FixFold, Zenon
<1>2. \A name \in Named : name # first => Pass(name, w) = w
  <2>1. Steady(w)
    BY SteadyMerged
  <2> HIDE DEF w
  <2> QED
    BY <2>1, SteadySettles
<1>3. /\ it[0] = [messages |-> ms, issues |-> {}]
      /\ it[9] = FixMessages(ms)
      /\ \A n \in 1..9 : /\ it[n - 1] \in Fixing
                         /\ Passes[n] \in Named
                         /\ it[n] = Fix(it[n - 1], Passes[n])
  BY <1>1, PassNames DEF FixAlong
<1>4. Passes[1] = first /\ \A n \in 1..9 : n # 1 => Passes[n] # first
  <2>1. \A n \in 1..9 : \/ n = 1 \/ n = 2 \/ n = 3 \/ n = 4 \/ n = 5
                        \/ n = 6 \/ n = 7 \/ n = 8 \/ n = 9
    OBVIOUS
  <2> QED
    BY <2>1, PassNames
<1>5. w = Pass(first, ms) /\ first # "merged messages"
  BY DEF Pass
<1>6. it[0].messages = ms /\ it[0].issues = {}
  BY <1>3
<1> HIDE DEF w, first
<1> DEFINE Good(n) == it[n].messages = w /\ it[n].issues \subseteq {first}
<1>7. Good(1)
  <2>1. 1 \in 1..9 /\ 1 - 1 = 0
    OBVIOUS
  <2>2. it[0] \in Fixing /\ it[1] = Fix(it[0], first)
    BY <1>3, <1>4, <2>1
  <2> DEFINE acc == it[0]
  <2>a. acc \in Fixing /\ Pass(first, acc.messages) = w
    BY <1>5, <1>6, <2>2
  <2> HIDE DEF acc
  <2>b. /\ Fix(acc, first).messages = w
        /\ Fix(acc, first).issues \subseteq acc.issues \cup {first}
    BY <1>5, <2>a, FixSteps, Zenon
  <2>3. /\ Fix(it[0], first).messages = w
        /\ Fix(it[0], first).issues \subseteq it[0].issues \cup {first}
    BY <2>b DEF acc
  <2> QED
    BY <1>6, <2>2, <2>3
<1>8. ASSUME NEW n \in 1..9, n # 1, Good(n - 1)
      PROVE  Good(n)
  <2> DEFINE acc == it[n - 1]
             name == Passes[n]
  <2>1. /\ acc \in Fixing /\ it[n] = Fix(acc, name) /\ Pass(name, w) = w
        /\ acc.messages = w /\ acc.issues \subseteq {first}
    BY <1>2, <1>3, <1>4, <1>8
  <2> HIDE DEF acc, name
  <2>2. Fix(acc, name).messages = w /\ Fix(acc, name).issues = acc.issues
    BY <2>1, FixSteps
  <2> QED
    BY <2>1, <2>2
<1> HIDE DEF Good
<1> DEFINE T == {n \in 0..9 : n # 0 => Good(n)}
<1>9. 0 \in T
  OBVIOUS
<1>10. ASSUME NEW n \in 1..9, n - 1 \in T
       PROVE  n \in T
  <2>1. n - 1 # 0 => Good(n - 1)
    BY <1>10
  <2>2. n = 1 \/ n - 1 # 0
    OBVIOUS
  <2>3. n \in 0..9
    OBVIOUS
  <2> QED
    BY <1>7, <1>8, <2>1, <2>2, <2>3
<1>11. 9 \in T
  <2> HIDE DEF T
  <2>1. \A n \in 0..9 : n \in T
    BY <1>9, <1>10, Along
  <2> QED
    BY <2>1
<1>12. it[9].issues \subseteq {first}
  BY <1>11 DEF Good
<1> QED
  BY <1>3, <1>12 DEF first

-----------------------------------------------------------------------------
(***************************************************************************)
(* The requests of tidy messages, and of what fix_messages makes.          *)
(***************************************************************************)

\* The responses in c are a user's to what is pending before, p, and what is
\* pending after, q, was so before or is requested in c by an assistant.
Draws(role, p, c, q) ==
    /\ \A k \in 1..Len(c) : c[k].kind = "response" => role = "user" /\ c[k].id \in p
    /\ \A id \in q : id \in p \/ (/\ role = "assistant"
                                  /\ \E k \in 1..Len(c) :
                                        c[k].kind = "request" /\ c[k].id = id)

\* So it is with a content that is kept.
LEMMA KeptRequests ==
    ASSUME NEW c \in Seq(Items), NEW role \in Roles, NEW p \in SUBSET Ids, NEW q,
           Kept(role, p, c, q)
    PROVE  Draws(role, p, c, q)
<1> DEFINE N == Len(c)
           Asked(n, id) == /\ role = "assistant"
                           /\ \E k \in 1..n : c[k].kind = "request" /\ c[k].id = id
<1>1. PICK r : KeptAlong(r, role, p, c, q)
  BY KeptSteps, Zenon
<1>0. N \in Nat
  OBVIOUS
<1>2. /\ r[0] = p /\ r[N] = q
      /\ \A n \in 1..N : Takes(role, r[n - 1], c[n], r[n])
  BY <1>1 DEF KeptAlong
<1> HIDE DEF N
<1> DEFINE T == {n \in 0..N : \A id \in r[n] : id \in p \/ Asked(n, id)}
<1>3. 0 \in T
  BY <1>0, <1>2
<1>4. ASSUME NEW n \in 1..N, n - 1 \in T
      PROVE  n \in T
  <2>1. /\ c[n].kind \notin Misplaced(role)
        /\ r[n] \subseteq r[n - 1] \/ (/\ c[n].kind = "request"
                                       /\ r[n] = r[n - 1] \cup {c[n].id})
    BY <1>2 DEF Takes
  <2>2. n \in 0..N /\ \A k \in 1..(n - 1) : k \in 1..n
    BY <1>0
  <2>3. c[n].kind = "request" => role = "assistant"
    BY <2>1 DEF Misplaced, Roles
  <2>4. n \in 1..n
    BY <1>0
  <2>5. ASSUME NEW id \in r[n]
        PROVE  id \in p \/ Asked(n, id)
    <3>1. CASE id \in r[n - 1]
      <4>1. id \in p \/ Asked(n - 1, id)
        BY <1>4, <3>1
      <4> QED
        BY <2>2, <4>1
    <3>2. CASE id \notin r[n - 1]
      <4>1. c[n].kind = "request" /\ id = c[n].id
        BY <2>1, <2>5, <3>2
      <4> QED
        BY <2>3, <2>4, <4>1
    <3> QED
      BY <3>1, <3>2
  <2> QED
    BY <2>2, <2>5
<1>5. \A n \in 0..N : n \in T
  <2> HIDE DEF T
  <2> QED
    BY <1>0, <1>3, <1>4, Along
<1>6. ASSUME NEW k \in 1..N, c[k].kind = "response"
      PROVE  role = "user" /\ c[k].id \in p
  <2>1. c[k].kind \notin Misplaced(role) /\ c[k].id \in r[k - 1]
    BY <1>2, <1>6 DEF Takes
  <2>2. role = "user"
    BY <1>6, <2>1 DEF Misplaced, Roles
  <2>3. k - 1 \in 0..N
    BY <1>0
  <2>4. c[k].id \in p \/ Asked(k - 1, c[k].id)
    BY <1>5, <2>1, <2>3
  <2> QED
    BY <2>2, <2>4
<1>7. \A id \in r[N] : id \in p \/ Asked(N, id)
  <2>1. N \in 0..N
    BY <1>0
  <2> QED
    BY <1>5, <2>1
<1> QED
  BY <1>2, <1>6, <1>7 DEF N, Draws

\* Tidy messages have no orphaned responses.
LEMMA TidyRequested ==
    ASSUME NEW ms \in Seq(Seen(Items)), Tidy(ms)
    PROVE  ResponsesRequested(ms)
<1> DEFINE N == Len(ms)
           Asked(n, id) == \E i \in 1..n : /\ ms[i].role = "assistant"
                                           /\ Has(ms[i], "request", id)
<1>0. N \in Nat /\ DOMAIN ms = 1..N /\ \A n \in 1..N : ms[n] \in Seen(Items)
  OBVIOUS
<1>1. PICK pend : TidyAlong(pend, ms, {})
  BY DEF Tidy, TidyTo
<1>2. /\ pend[0] = {}
      /\ \A n \in 0..N : pend[n] \in SUBSET Ids
      /\ \A n \in 1..N : Kept(ms[n].role, pend[n - 1], ms[n].content, pend[n])
  BY <1>1 DEF TidyAlong
<1> HIDE DEF N
<1>3. ASSUME NEW n \in 1..N
      PROVE  /\ \A k \in DOMAIN ms[n].content : ms[n].content[k].kind = "response" =>
                   ms[n].role = "user" /\ ms[n].content[k].id \in pend[n - 1]
             /\ \A id \in pend[n] : id \in pend[n - 1] \/ (/\ ms[n].role = "assistant"
                                                           /\ Has(ms[n], "request", id))
  <2> DEFINE c == ms[n].content
             role == ms[n].role
             p == pend[n - 1]
             q == pend[n]
  <2>1. n - 1 \in 0..N
    BY <1>0
  <2>2. /\ c \in Seq(Items) /\ role \in Roles /\ p \in SUBSET Ids
        /\ Kept(role, p, c, q)
    BY <1>0, <1>2, <2>1 DEF Seen
  <2>3. \A id : Has(ms[n], "request", id) <=>
                   \E k \in DOMAIN c : c[k].kind = "request" /\ c[k].id = id
    BY DEF Has
  <2> HIDE DEF c, role, p, q
  <2>4. DOMAIN c = 1..Len(c)
    BY <2>2
  <2>5. Draws(role, p, c, q)
    BY <2>2, KeptRequests, Zenon
  <2>6. /\ \A k \in DOMAIN c : c[k].kind = "response" => role = "user" /\ c[k].id \in p
        /\ \A id \in q : id \in p \/ (role = "assistant" /\ Has(ms[n], "request", id))
    BY <2>3, <2>4, <2>5 DEF Draws
  <2> QED
    BY <2>6 DEF c, role, p, q
<1> DEFINE T == {n \in 0..N : \A id \in pend[n] : Asked(n, id)}
<1>4. 0 \in T
  BY <1>0, <1>2
<1>5. ASSUME NEW n \in 1..N, n - 1 \in T
      PROVE  n \in T
  <2>1. n \in 0..N /\ n \in 1..n /\ \A i \in 1..(n - 1) : i \in 1..n
    BY <1>0
  <2>2. ASSUME NEW id \in pend[n]
        PROVE  Asked(n, id)
    <3>1. CASE id \in pend[n - 1]
      <4>1. Asked(n - 1, id)
        BY <1>5, <3>1
      <4> QED
        BY <2>1, <4>1
    <3>2. CASE id \notin pend[n - 1]
      BY <1>3, <2>1, <2>2, <3>2
    <3> QED
      BY <3>1, <3>2
  <2> QED
    BY <2>1, <2>2
<1>6. \A n \in 0..N : n \in T
  <2> HIDE DEF T
  <2> QED
    BY <1>0, <1>4, <1>5, Along
<1>7. ASSUME NEW j \in 1..N, NEW k \in DOMAIN ms[j].content,
             ms[j].content[k].kind = "response"
      PROVE  /\ ms[j].role = "user"
             /\ \E i \in 1..N : /\ i < j /\ ms[i].role = "assistant"
                                /\ Has(ms[i], "request", ms[j].content[k].id)
  <2>1. ms[j].role = "user" /\ ms[j].content[k].id \in pend[j - 1]
    BY <1>3, <1>7
  <2>2. j - 1 \in 0..N /\ \A i \in 1..(j - 1) : i \in 1..N /\ i < j
    BY <1>0
  <2>3. Asked(j - 1, ms[j].content[k].id)
    BY <1>6, <2>1, <2>2
  <2> QED
    BY <2>1, <2>2, <2>3
<1> QED
  BY <1>0, <1>7 DEF ResponsesRequested

\* Requests that differ still do when messages are merged.
LEMMA MergeOnce ==
    ASSUME NEW ms \in Seq(Seen(Items)), AskedOnce(ms)
    PROVE  AskedOnce(MergeConsecutiveMessages(ms))
<1> DEFINE t == MergeConsecutiveMessages(ms)
<1>a. Items \in SUBSET Items
  OBVIOUS
<1>1. t \in Seq(Seen(Items)) /\ \E p : Collected(t, ms, Len(ms), p)
  BY <1>a, MergeCollects
<1> HIDE DEF t
<1>2. PICK p : Collected(t, ms, Len(ms), p)
  BY <1>1
<1>3. ASSUME NEW q \in 1..Len(t), NEW id, Has(t[q], "request", id)
      PROVE  \E i \in 1..Len(ms) : p[i] = q /\ Has(ms[i], "request", id)
  <2>1. t[q] \in Seen(Items)
    BY <1>1
  <2>2. PICK x \in ToSet(t[q].content) : x.kind = "request" /\ x.id = id
    BY <1>3, <1>a, <2>1, ByItems
  <2>3. PICK i \in 1..Len(ms) : p[i] = q /\ x \in ToSet(ms[i].content)
    BY <1>2, <2>2 DEF Collected
  <2>4. ms[i] \in Seen(Items)
    OBVIOUS
  <2>5. Has(ms[i], "request", id)
    BY <1>a, <2>2, <2>3, <2>4, ByItems
  <2> QED
    BY <2>3, <2>5
<1>4. AskedOnce(t)
  BY <1>3 DEF AskedOnce
<1> QED
  BY <1>4 DEF t

\* And without a trailing message.
LEMMA RemoveTrailOnce ==
    ASSUME NEW ms \in Seq(Seen(Items)), AskedOnce(ms)
    PROVE  AskedOnce(RemoveTrail(ms))
<1>1. CASE RemoveTrail(ms) = ms
  BY <1>1
<1>2. CASE RemoveTrail(ms) # ms
  <2>1. ms # <<>> /\ RemoveTrail(ms) = Front(ms)
    BY <1>2 DEF RemoveTrail
  <2> DEFINE f == Front(ms)
             N == Len(ms)
  <2>2. /\ N \in Nat \ {0} /\ Len(f) = N - 1
        /\ \A n \in 1..(N - 1) : f[n] = ms[n]
    BY <2>1, LastFront
  <2> HIDE DEF f, N
  <2>3. \A n \in 1..Len(f) : n \in 1..N /\ f[n] = ms[n]
    BY <2>2
  <2>4. AskedOnce(f)
    BY <2>3 DEF AskedOnce, N
  <2> QED
    BY <2>1, <2>4 DEF f
<1> QED
  BY <1>1, <1>2

\* A placeholder alone is tidy and asks nothing.
LEMMA PlaceholderTidy ==
    /\ <<Placeholder>> \in Seq(Seen(Items))
    /\ Tidy(<<Placeholder>>) /\ AskedOnce(<<Placeholder>>)
    /\ TrimmedAll(<<Placeholder>>)
<1> DEFINE h == Placeholder
           one == <<h>>
           item == Text(1, FALSE)
           c == <<item>>
           none == {}
<1>1. /\ h \in Seen(Items) /\ h.role = "user"
      /\ \A id : ~Has(h, "request", id)
  BY PlaceholderIs, SoundSeen
<1>2. h.content = c
  BY DEF Placeholder
<1>3. item \in Items /\ item.kind = "text"
  BY DEF Text, Texts, Items
<1> HIDE DEF item
<1>4. c \in Seq(Items) /\ Len(c) = 1 /\ c[1] = item
  BY <1>3
<1> HIDE DEF c
<1>5. Takes("user", none, item, none)
  BY <1>3 DEF Takes, Misplaced
<1>6. Kept("user", none, c, none)
  <2> DEFINE r == [n \in 0..1 |-> none]
  <2>1. /\ r \in [0..1 -> SUBSET Ids] /\ r[0] = none /\ r[1] = none
        /\ \A n \in 1..1 : n = 1 /\ n - 1 = 0
    OBVIOUS
  <2> HIDE DEF r, none
  <2>2. KeptAlong(r, "user", none, c, none)
    BY <1>4, <1>5, <2>1 DEF KeptAlong
  <2>3. none \in SUBSET Ids
    BY DEF none
  <2> QED
    BY <1>4, <2>2, <2>3, KeptFrom
<1> HIDE DEF h
<1>7. one \in Seq(Seen(Items)) /\ Len(one) = 1 /\ one[1] = h /\ one = Append(<<>>, h)
  BY <1>1
<1>8. Tidy(one)
  <2> DEFINE nil == <<>>
  <2>1. nil \in Seq(Seen(Items)) /\ TidyTo(nil, none)
    BY TidyEmpty
  <2>2. Kept(h.role, none, h.content, none)
    BY <1>1, <1>2, <1>6
  <2> HIDE DEF nil, none
  <2>3. TidyTo(Append(nil, h), none)
    BY <1>1, <2>1, <2>2, TidyAppend
  <2>4. TidyTo(one, none)
    BY <1>7, <2>3 DEF nil
  <2> QED
    BY <2>4 DEF Tidy, none
<1> HIDE DEF one
<1>9. AskedOnce(one) /\ TrimmedAll(one)
  BY <1>1, <1>7 DEF AskedOnce, TrimmedAll
<1> QED
  BY <1>7, <1>8, <1>9 DEF one, h

-----------------------------------------------------------------------------
(***************************************************************************)
(* What fix_messages has made of messages: always trimmed, and steady where *)
(* requests differ and no leading message was removed.                     *)
(***************************************************************************)

\* What fix_messages has made of messages is trimmed.
LEMMA FixedTrimmed ==
    ASSUME NEW ms \in Seq(Seen(Items))
    PROVE  TrimmedAll(FixMessages(ms).messages)
<1>1. PICK u : PassesOf(u, ms)
  BY FixPasses, Zenon
<1>2. /\ u[0] = ms
      /\ u[1] = Map(MergeTextContentInMessage, u[0])
      /\ u[2] = Map(TrimAssistantText, u[1])
      /\ u[3] = RemoveEmptyMessages(u[2])
      /\ u[4] = Map(FixEmptyToolResults, u[3])
      /\ u[5] = FixToolCalling(u[4])
      /\ u[6] = MergeConsecutiveMessages(u[5])
      /\ u[7] = RemoveLead(u[6])
      /\ u[8] = RemoveTrail(u[7])
      /\ u[9] = PopulateIfEmpty(u[8])
      /\ u[9] = FixMessages(ms).messages
  BY <1>1 DEF PassesOf
<1>a. Items \in SUBSET Items
  OBVIOUS
<1>3. u[1] \in Seq(Seen(Items))
  BY <1>2, EachTyped
<1>4. u[2] \in Seq(Seen(Items)) /\ TrimmedAll(u[2])
  BY <1>2, <1>3, EachTyped, TrimTrims
<1>5. u[3] \in Seq(Seen(Items)) /\ TrimmedAll(u[3])
  <2>1. TextsFrom(u[2], u[3])
    BY <1>2, <1>4, RemoveEmptyTexts
  <2> QED
    BY <1>2, <1>4, <2>1, RemoveEmptyIs, TrimmedFrom
<1>6. u[4] \in Seq(Seen(Items)) /\ TrimmedAll(u[4])
  <2>1. TextsFrom(u[3], u[4])
    BY <1>2, <1>5, FillTexts
  <2>2. u[4] \in Seq(Seen(Items))
    BY <1>2, <1>5, EachTyped, SoundSeen
  <2> QED
    BY <1>5, <2>1, <2>2, TrimmedFrom
<1>7. u[5] \in Seq(Seen(Items)) /\ TrimmedAll(u[5])
  <2> DEFINE s == Swept(u[4])
  <2>1. s \in Seq(Seen(Items)) /\ TextsFrom(u[4], s)
    BY <1>a, <1>6, SweptIs, SweptTexts
  <2>2. u[5] = RemoveEmptyMessages(s)
    BY <1>2 DEF FixToolCalling
  <2> HIDE DEF s
  <2>3. u[5] \in Seq(Seen(Items)) /\ TextsFrom(s, u[5])
    BY <2>1, <2>2, RemoveEmptyIs, RemoveEmptyTexts
  <2>4. TrimmedAll(s)
    BY <1>6, <2>1, TrimmedFrom
  <2>5. TrimmedAll(u[5])
    BY <2>3, <2>4, TrimmedFrom
  <2> QED
    BY <2>3, <2>5
<1>8. u[6] \in Seq(Seen(Items)) /\ TrimmedAll(u[6])
  <2>1. u[6] \in Seq(Seen(Items)) /\ TextsFrom(u[5], u[6])
    BY <1>2, <1>7, <1>a, MergeCollects, MergeTexts
  <2> QED
    BY <1>7, <2>1, TrimmedFrom
<1>9. u[7] \in Seq(Seen(Items)) /\ TrimmedAll(u[7])
  <2>1. CASE u[7] = u[6]
    BY <1>8, <2>1
  <2>2. CASE u[7] # u[6]
    <3>1. u[6] # <<>> /\ u[7] = Tail(u[6])
      BY <1>2, <2>2 DEF RemoveLead
    <3> DEFINE s == u[6]
               t == Tail(s)
    <3>2. s \in Seq(Seen(Items)) /\ s # <<>> /\ TrimmedAll(s)
      BY <1>8, <3>1
    <3> HIDE DEF s
    <3>3. /\ t \in Seq(Seen(Items)) /\ Len(t) = Len(s) - 1 /\ Len(s) \in Nat
          /\ \A n \in 1..Len(t) : t[n] = s[n + 1]
      BY <3>2
    <3> HIDE DEF t
    <3>4. \A n \in 1..Len(t) : n + 1 \in 1..Len(s) /\ t[n] = s[n + 1]
      BY <3>3
    <3>5. TrimmedAll(t)
      BY <3>2, <3>4 DEF TrimmedAll
    <3> QED
      BY <3>1, <3>3, <3>5 DEF s, t
  <2> QED
    BY <2>1, <2>2
<1>10. TrimmedAll(u[8])
  <2>1. TextsFrom(u[7], u[8])
    BY <1>2, <1>9, RemoveTrailTexts
  <2> QED
    BY <1>9, <2>1, TrimmedFrom
<1>11. TrimmedAll(u[9])
  BY <1>2, <1>10, PlaceholderTidy DEF PopulateIfEmpty
<1> QED
  BY <1>2, <1>11

LeadStays(ms) == "removed lead" \notin FixMessages(ms).issues

\* What fix_messages has made of messages whose requests differ, and whose first
\* one it did not have to remove, is steady.
LEMMA FixedIsSteady ==
    ASSUME NEW ms \in Seq(Seen(Items)), AskedOnce(ms), LeadStays(ms)
    PROVE  Steady(FixMessages(ms).messages) /\ AskedOnce(FixMessages(ms).messages)
<1>1. PICK u : PassesOf(u, ms)
  BY FixPasses, Zenon
<1>2. /\ u[0] = ms
      /\ u[1] = Map(MergeTextContentInMessage, u[0])
      /\ u[2] = Map(TrimAssistantText, u[1])
      /\ u[3] = RemoveEmptyMessages(u[2])
      /\ u[4] = Map(FixEmptyToolResults, u[3])
      /\ u[5] = FixToolCalling(u[4])
      /\ u[6] = MergeConsecutiveMessages(u[5])
      /\ u[7] = RemoveLead(u[6])
      /\ u[8] = RemoveTrail(u[7])
      /\ u[9] = PopulateIfEmpty(u[8])
      /\ u[9] = FixMessages(ms).messages
  BY <1>1 DEF PassesOf
<1>a. Items \in SUBSET Items
  OBVIOUS
<1>3. u[1] \in Seq(Seen(Items)) /\ AskedOnce(u[1])
  BY <1>2, EachTyped, EachKeeps
<1>4. /\ u[2] \in Seq(Seen(Items)) /\ AskedOnce(u[2])
  BY <1>2, <1>3, EachTyped, EachKeeps
<1>5. u[3] \in Seq(Seen(Items)) /\ AskedOnce(u[3])
  BY <1>2, <1>4, RemoveEmptyIs, RemoveEmptyKeeps
<1>6. u[4] \in Seq(Seen(Items)) /\ AskedOnce(u[4])
  BY <1>2, <1>5, EachTyped, EachKeeps, SoundSeen
<1>7. u[5] \in Seq(Seen(Items)) /\ AskedOnce(u[5]) /\ Tidy(u[5])
  <2> DEFINE s == Swept(u[4])
  <2>1. s \in Seq(Seen(Items)) /\ AskedOnce(s) /\ Tidy(s)
    BY <1>a, <1>6, SweptIs, SweptOnce, SweptTidy
  <2>2. u[5] = RemoveEmptyMessages(s)
    BY <1>2 DEF FixToolCalling
  <2> HIDE DEF s
  <2>3. u[5] \in Seq(Seen(Items))
    BY <2>1, <2>2, RemoveEmptyIs
  <2>4. AskedOnce(u[5])
    BY <2>1, <2>2, RemoveEmptyKeeps
  <2>5. Tidy(u[5])
    BY <2>1, <2>2, RemoveEmptyTidy
  <2> QED
    BY <2>3, <2>4, <2>5
<1>8. u[6] \in Seq(Seen(Items)) /\ AskedOnce(u[6]) /\ Tidy(u[6])
  BY <1>2, <1>7, <1>a, MergeCollects, MergeOnce, MergeTidy
<1>9. u[7] = u[6]
  BY <1>1 DEF PassesOf, LeadStays
<1>10. AskedOnce(u[8]) /\ Tidy(u[8])
  BY <1>2, <1>8, <1>9, RemoveTrailOnce, RemoveTrailTidy
<1>11. AskedOnce(u[9]) /\ Tidy(u[9])
  BY <1>2, <1>10, PlaceholderTidy DEF PopulateIfEmpty
<1> DEFINE w == FixMessages(ms).messages
<1>12. /\ w \in Seq(Seen(Sound)) /\ w # <<>> /\ Fit(w)
       /\ AskedOnce(w) /\ Tidy(w) /\ TrimmedAll(w)
  BY <1>2, <1>11, FixMessagesIs, FixedTrimmed
<1> HIDE DEF w
<1>13. Steady(w) /\ AskedOnce(w)
  BY <1>12 DEF Steady, Fit, Orderly, BeginsWell, EndsWell
<1> QED
  BY <1>13 DEF w


-----------------------------------------------------------------------------
(***************************************************************************)
(* What is sent is accepted.                                               *)
(***************************************************************************)

\* Fitting messages that are trimmed a provider accepts.
LEMMA FitAccepted ==
    ASSUME NEW ms \in Seq(Seen(Sound)), Fit(ms), ms # <<>>, TrimmedAll(ms)
    PROVE  Acceptable(ms)
<1>0. /\ DOMAIN ms = 1..Len(ms) /\ Len(ms) \in Nat
      /\ AllSay(ms) /\ PairedUp(ms) /\ Alternates(ms)
      /\ BeginsWell(ms) /\ EndsWell(ms)
  BY DEF Fit, Orderly
<1>1. Head(ms).role = "user" /\ Last(ms).role = "user"
  <2>1. Head(ms) = ms[1] /\ Last(ms) = ms[Len(ms)]
    BY DEF Last
  <2> QED
    BY <1>0, <2>1 DEF BeginsWell, EndsWell
<1>2. \A i \in DOMAIN ms : HasContent(ms[i])
  BY <1>0 DEF AllSay
<1>3. \A i \in 1..(Len(ms) - 1) : EffectiveRole(ms[i]) # EffectiveRole(ms[i + 1])
  BY <1>0 DEF Alternates
<1>4. ASSUME NEW i \in DOMAIN ms, NEW k \in DOMAIN ms[i].content
      PROVE  /\ IsText(ms[i].content[k]) /\ ms[i].role = "assistant" =>
                   ~ms[i].content[k].space
             /\ ms[i].content[k].kind = "request" => Answered(ms, ms[i].content[k].id)
             /\ ms[i].content[k].kind = "response" => ~ms[i].content[k].empty
  <2> DEFINE item == ms[i].content[k]
  <2>0. ms[i] \in Seen(Sound) /\ i \in 1..Len(ms)
    BY <1>0
  <2>1. ms[i].content \in Seq(Sound)
    BY <2>0 DEF Seen
  <2>2. item \in Sound /\ item \in ToSet(ms[i].content)
    BY <2>1, ItemsOf
  <2>3. ASSUME item.kind = "request"
        PROVE  Answered(ms, item.id)
    <3>1. Has(ms[i], "request", item.id)
      BY <2>3 DEF Has
    <3>2. i \in 1..Len(ms)
      BY <1>0
    <3> HIDE DEF item
    <3>3. /\ ms[i].role = "assistant"
          /\ \E j \in 1..Len(ms) : /\ i < j
                                   /\ ms[j].role = "user"
                                   /\ Has(ms[j], "response", item.id)
      BY <1>0, <3>1, <3>2 DEF PairedUp
    <3> QED
      BY <1>0, <3>1, <3>2, <3>3 DEF Answered
  <2>4. IsText(item) /\ ms[i].role = "assistant" => ~item.space
    <3> HIDE DEF item
    <3> QED
      BY <2>0, <2>2, Zenon DEF TrimmedAll
  <2> QED
    BY <2>2, <2>3, <2>4 DEF Sound
<1> QED
  BY <1>1, <1>2, <1>3, <1>4 DEF Acceptable

\* Whatever a conversation is, what is made of it shows the agent what
\* fix_messages makes of what it saw, and that a provider accepts.
LEMMA FixConversationIs ==
    ASSUME NEW c \in Seq(Messages), Visible(c) # <<>>
    PROVE  /\ FixConversation(c).messages \in Seq(Messages)
           /\ Visible(FixConversation(c).messages) = FixMessages(Visible(c)).messages
           /\ Visible(FixConversation(c).messages) # <<>>
           /\ FixConversation(c).issues = FixMessages(Visible(c)).issues
           /\ Acceptable(Visible(FixConversation(c).messages))
<1> DEFINE v == Visible(c)
           fixed == FixMessages(v).messages
           r == Refill(c, fixed)
<1>1. FixConversation(c).messages = r /\ FixConversation(c).issues = FixMessages(v).issues
  BY DEF FixConversation
<1>2. v \in Seq(Seen(Items)) /\ v # <<>>
  BY VisibleIs
<1> HIDE DEF v
<1>3. /\ fixed \in Seq(Seen(Sound)) /\ fixed # <<>>
      /\ Len(fixed) <= Len(v) \/ Len(fixed) = 1
      /\ Fit(fixed) /\ TrimmedAll(fixed)
  BY <1>2, FixMessagesIs, FixedTrimmed
<1> HIDE DEF fixed
<1>4. fixed \in Seq(Seen(Items)) /\ Acceptable(fixed)
  BY <1>3, SoundSeen, FitAccepted
<1>5. Len(fixed) <= Len(v)
  <2> DEFINE L == Len(fixed)
             N == Len(v)
  <2>1. N \in Nat /\ N # 0 /\ L \in Nat
    BY <1>2, <1>4
  <2>2. L <= N \/ L = 1
    BY <1>3
  <2> HIDE DEF L, N
  <2>3. L <= N
    BY <2>1, <2>2
  <2> QED
    BY <2>3 DEF L, N
<1>6. r \in Seq(Messages) /\ Visible(r) = fixed
  BY <1>4, <1>5, RefillIs DEF v
<1> HIDE DEF r
<1> QED
  BY <1>1, <1>3, <1>4, <1>6 DEF v, fixed

\* Where requests differ and no leading message was removed, it is steady and
\* has no orphaned response.
LEMMA RepairedIs ==
    ASSUME NEW c \in Seq(Messages), Visible(c) # <<>>, AskedOnce(Visible(c)),
           LeadStays(Visible(c))
    PROVE  /\ Steady(Visible(FixConversation(c).messages))
           /\ AskedOnce(Visible(FixConversation(c).messages))
           /\ ResponsesRequested(Visible(FixConversation(c).messages))
<1> DEFINE v == Visible(c)
           w == Visible(FixConversation(c).messages)
<1>1. v \in Seq(Seen(Items)) /\ AskedOnce(v) /\ LeadStays(v)
  BY VisibleIs
<1>2. w = FixMessages(v).messages
  BY FixConversationIs
<1> HIDE DEF v, w
<1>3. Steady(w) /\ AskedOnce(w)
  BY <1>1, <1>2, FixedIsSteady
<1>4. w \in Seq(Seen(Items)) /\ Tidy(w)
  BY <1>3, SoundSeen DEF Steady
<1>5. ResponsesRequested(w)
  BY <1>4, TidyRequested
<1> QED
  BY <1>3, <1>5 DEF w

\* v is what c shows: e says where.
Shows(v, c, e) ==
    /\ e \in [1..Len(v) -> 1..Len(c)]
    /\ \A j \in 1..Len(v) : v[j] = c[e[j]] /\ v[j] \in InSight
    /\ \A i, j \in 1..Len(v) : i < j => e[i] < e[j]
    /\ \A i \in 1..Len(c) : c[i] \in InSight => \E j \in 1..Len(v) : e[j] = i

LEMMA VisibleShows ==
    ASSUME NEW c \in Seq(Messages)
    PROVE  Visible(c) \in Seq(Seen(Items)) /\ \E e : Shows(Visible(c), c, e)
<1> DEFINE S == InSight
           v == Among(c, S)
<1>1. \A j \in 1..Len(v) : v[j] \in S
  BY AmongPart
<1>2. PICK e : /\ PartOf(v, c, e)
               /\ \A i \in 1..Len(c) : c[i] \in S => \E j \in 1..Len(v) : e[j] = i
  BY AmongPart, Zenon
<1> HIDE DEF v
<1>3. Shows(v, c, e)
  BY <1>1, <1>2 DEF PartOf, PartUpTo, Shows
<1>4. Visible(c) = v /\ Visible(c) \in Seq(Seen(Items))
  BY VisibleIs DEF v
<1> QED
  BY <1>3, <1>4

PutIn(c, at) == [c EXCEPT ![at].content = <<Text(1, FALSE)>> \o @]

\* The context, put in at any message: the messages remain in sight or not, and
\* ask what they asked.
LEMMA PutInEach ==
    ASSUME NEW c \in Seq(Messages), NEW at, NEW u, u = PutIn(c, at)
    PROVE  /\ Len(u) = Len(c)
           /\ \A n \in 1..Len(c) : /\ u[n] \in InSight <=> c[n] \in InSight
                                   /\ \A id : Has(u[n], "request", id)
                                                 => Has(c[n], "request", id)
<1> DEFINE item == Text(1, FALSE)
<1>1. u \in Seq(Messages)
  BY PutInTyped DEF PutIn
<1>2. item.kind = "text"
  BY DEF Text
<1>3. Len(u) = Len(c) /\ DOMAIN c = 1..Len(c) /\ DOMAIN u = 1..Len(c)
  BY DEF PutIn
<1>4. u = [c EXCEPT ![at].content = <<item>> \o @]
  BY DEF PutIn
<1> HIDE DEF item
<1>5. ASSUME NEW n \in 1..Len(c)
      PROVE  /\ u[n] \in InSight <=> c[n] \in InSight
             /\ \A id : Has(u[n], "request", id) => Has(c[n], "request", id)
  <2>1. u[n] \in Messages /\ c[n] \in Messages
    BY <1>1, <1>3
  <2>2. CASE n # at
    <3>1. u[n] = c[n]
      BY <1>3, <1>4, <2>2
    <3> QED
      BY <3>1
  <2>3. CASE n = at
    <3> DEFINE old == c[n].content
    <3>1. u[n] = [c[n] EXCEPT !.content = <<item>> \o old]
      BY <1>3, <1>4, <2>3
    <3>2. u[n].visible = c[n].visible /\ u[n].content = <<item>> \o old /\ old \in Seq(Items)
      BY <2>1, <3>1 DEF Messages
    <3>3. u[n] \in InSight <=> c[n] \in InSight
      BY <2>1, <3>2 DEF InSight
    <3> HIDE DEF old
    <3> DEFINE new == <<item>> \o old
    <3>4. \A k \in DOMAIN new : \/ new[k] = item
                                \/ k - 1 \in DOMAIN old /\ new[k] = old[k - 1]
      BY <3>2
    <3> HIDE DEF new
    <3>5. ASSUME NEW id, Has(u[n], "request", id)
          PROVE  Has(c[n], "request", id)
      <4>1. PICK k \in DOMAIN new : new[k].kind = "request" /\ new[k].id = id
        BY <3>2, <3>5 DEF Has, new
      <4>2. new[k] # item
        BY <1>2, <4>1
      <4>3. k - 1 \in DOMAIN old /\ old[k - 1].kind = "request" /\ old[k - 1].id = id
        BY <3>4, <4>1, <4>2
      <4> QED
        BY <4>3 DEF Has, old
    <3> QED
      BY <3>3, <3>5
  <2> QED
    BY <2>2, <2>3
<1> QED
  BY <1>3, <1>5

\* It puts nothing out of sight, and requests differ as before.
LEMMA PutInOnce ==
    ASSUME NEW c \in Seq(Messages), NEW at, NEW u, u = PutIn(c, at),
           Visible(c) # <<>>
    PROVE  /\ u \in Seq(Messages)
           /\ Visible(u) # <<>>
           /\ AskedOnce(Visible(c)) => AskedOnce(Visible(u))
<1> DEFINE v == Visible(c)
           w == Visible(u)
<1>1. u \in Seq(Messages)
  BY PutInTyped DEF PutIn
<1>2. /\ Len(u) = Len(c)
      /\ \A n \in 1..Len(c) : /\ u[n] \in InSight <=> c[n] \in InSight
                              /\ \A id : Has(u[n], "request", id)
                                            => Has(c[n], "request", id)
  BY PutInEach
<1>3. v \in Seq(Seen(Items)) /\ w \in Seq(Seen(Items)) /\ v # <<>>
  BY <1>1, VisibleIs
<1>4. PICK f : Shows(v, c, f)
  BY VisibleShows, Zenon
<1>5. PICK e : Shows(w, u, e)
  BY <1>1, VisibleShows, Zenon
<1> HIDE DEF v, w
<1>6. /\ \A j \in 1..Len(v) : f[j] \in 1..Len(c) /\ v[j] = c[f[j]] /\ v[j] \in InSight
      /\ \A i \in 1..Len(c) : c[i] \in InSight => \E j \in 1..Len(v) : f[j] = i
  BY <1>4 DEF Shows
<1>7. /\ \A j \in 1..Len(w) : e[j] \in 1..Len(c) /\ w[j] = u[e[j]] /\ w[j] \in InSight
      /\ \A i \in 1..Len(c) : u[i] \in InSight => \E j \in 1..Len(w) : e[j] = i
  BY <1>2, <1>5 DEF Shows
<1>9. \A i, j \in 1..Len(w) : e[i] = e[j] => i = j
  <2>1. \A i, j \in 1..Len(w) : i < j => e[i] < e[j]
    BY <1>5 DEF Shows
  <2>2. \A i, j \in 1..Len(w) : i < j \/ j < i \/ i = j
    BY <1>3
  <2>3. \A i, j \in 1..Len(w) : e[i] < e[j] => e[i] # e[j]
    BY <1>7
  <2> QED
    BY <2>1, <2>2, <2>3
<1>10. w # <<>>
  <2>1. 1 \in 1..Len(v)
    BY <1>3
  <2>2. c[f[1]] \in InSight /\ f[1] \in 1..Len(c)
    BY <1>6, <2>1
  <2>3. \E j \in 1..Len(w) : e[j] = f[1]
    BY <1>2, <1>7, <2>2
  <2> QED
    BY <1>3, <2>3
<1>11. ASSUME AskedOnce(v)
       PROVE  AskedOnce(w)
  <2>1. ASSUME NEW j \in 1..Len(w), NEW id, Has(w[j], "request", id)
        PROVE  \E a \in 1..Len(v) : f[a] = e[j] /\ Has(v[a], "request", id)
    <3>1. e[j] \in 1..Len(c) /\ w[j] = u[e[j]] /\ u[e[j]] \in InSight
      BY <1>7
    <3>2. c[e[j]] \in InSight /\ Has(c[e[j]], "request", id)
      BY <1>2, <2>1, <3>1
    <3>3. PICK a \in 1..Len(v) : f[a] = e[j]
      BY <1>6, <3>1, <3>2
    <3> QED
      BY <1>6, <3>2, <3>3
  <2>2. ASSUME NEW i \in 1..Len(w), NEW j \in 1..Len(w), NEW id,
               Has(w[i], "request", id), Has(w[j], "request", id)
        PROVE  i = j
    <3>1. PICK a \in 1..Len(v) : f[a] = e[i] /\ Has(v[a], "request", id)
      BY <2>1, <2>2
    <3>2. PICK b \in 1..Len(v) : f[b] = e[j] /\ Has(v[b], "request", id)
      BY <2>1, <2>2
    <3>3. a = b
      BY <1>11, <3>1, <3>2 DEF AskedOnce
    <3> QED
      BY <1>9, <3>1, <3>2, <3>3
  <2> QED
    BY <2>2 DEF AskedOnce
<1> QED
  BY <1>1, <1>10, <1>11 DEF v, w

\* Injecting the context, too, makes what a provider accepts, and leaves no
\* orphaned response where there was none.
LEMMA InjectMoimIs ==
    ASSUME NEW c \in Seq(Messages), Visible(c) # <<>>, Acceptable(Visible(c))
    PROVE  /\ Acceptable(Visible(InjectMoim(c)))
           /\ AskedOnce(Visible(c)) /\ ResponsesRequested(Visible(c))
                 => ResponsesRequested(Visible(InjectMoim(c)))
<1> DEFINE users == {i \in DOMAIN c : c[i].visible /\ EffectiveRole(c[i]) = "user"}
           latest == CHOOSE i \in users : \A j \in users : j <= i
           u == PutIn(c, latest)
<1>1. /\ u \in Seq(Messages) /\ Visible(u) # <<>>
      /\ AskedOnce(Visible(c)) => AskedOnce(Visible(u))
  <2> HIDE DEF latest
  <2> QED
    BY PutInOnce
<1>2. \/ /\ InjectMoim(c) = FixConversation(u).messages
         /\ FixConversation(u).issues \subseteq Expected
      \/ InjectMoim(c) = c
  BY DEF InjectMoim, PutIn
<1> HIDE DEF u
<1>3. CASE /\ InjectMoim(c) = FixConversation(u).messages
           /\ FixConversation(u).issues \subseteq Expected
  <2>1. Acceptable(Visible(FixConversation(u).messages))
    BY <1>1, FixConversationIs
  <2>2. LeadStays(Visible(u))
    <3>1. "removed lead" \notin FixConversation(u).issues
      BY <1>3 DEF Expected
    <3> QED
      BY <3>1 DEF LeadStays, FixConversation
  <2>3. AskedOnce(Visible(c)) => ResponsesRequested(Visible(FixConversation(u).messages))
    BY <1>1, <2>2, RepairedIs
  <2> QED
    BY <1>3, <2>1, <2>3
<1>4. CASE InjectMoim(c) = c
  BY <1>4
<1> QED
  BY <1>2, <1>3, <1>4

\* ProviderAccepts, for every list that can be pushed: what is sent is a list of
\* messages the provider accepts - a user first and last, every message with
\* something to say, roles in turn, requests answered - and where requests
\* differ and no leading message of an assistant had to be removed, no response
\* is sent whose request is missing.
THEOREM AlwaysAccepted == Spec => []ProviderAccepts
<1>1. Signing => ProviderAccepts
  <2> SUFFICES ASSUME Signing, Visible(conversation) # <<>>
               PROVE  \A repaired \in {FixConversation(conversation)} :
                      \A sent \in {repaired.messages, InjectMoim(repaired.messages)} :
                         /\ Acceptable(Visible(sent))
                         /\ Pairable(conversation, repaired)
                               => ResponsesRequested(Visible(sent))
    BY DEF ProviderAccepts
  <2> DEFINE c == conversation
             repaired == FixConversation(c)
             m == repaired.messages
  <2>1. c \in Seq(Messages)
    BY WellSignedMessages DEF Signing
  <2>2. m \in Seq(Messages) /\ Visible(m) # <<>> /\ Acceptable(Visible(m))
    BY <2>1, FixConversationIs
  <2>3. ASSUME Pairable(c, repaired)
        PROVE  AskedOnce(Visible(m)) /\ ResponsesRequested(Visible(m))
    <3>1. RequestsDiffer(Visible(c)) /\ LeadStays(Visible(c))
      BY <2>3 DEF Pairable, LeadStays, FixConversation
    <3>2. Visible(c) \in Seq(Seen(Items))
      BY <2>1, VisibleIs
    <3>3. AskedOnce(Visible(c))
      BY <3>1, <3>2, RequestsDifferIs
    <3> QED
      BY <2>1, <3>1, <3>3, RepairedIs
  <2> HIDE DEF m
  <2>4. /\ Acceptable(Visible(InjectMoim(m)))
        /\ AskedOnce(Visible(m)) /\ ResponsesRequested(Visible(m))
              => ResponsesRequested(Visible(InjectMoim(m)))
    BY <2>2, InjectMoimIs
  <2>5. ASSUME NEW sent \in {m, InjectMoim(m)}
        PROVE  /\ Acceptable(Visible(sent))
               /\ Pairable(c, repaired) => ResponsesRequested(Visible(sent))
    BY <2>2, <2>3, <2>4
  <2> QED
    BY <2>5 DEF m
<1> QED
  BY <1>1, SigningInit, SigningNext, PTL DEF Spec

\* RepairSettles, for every list that can be pushed: a conversation whose
\* requests differ and whose repair removes no leading message is repaired once;
\* what a second repair does is at most to put texts together.
THEOREM RepairIsSettled == Spec => []RepairSettles
<1>1. Signing => RepairSettles
  <2> DEFINE c == conversation
             repaired == FixConversation(c)
             m == repaired.messages
  <2> SUFFICES ASSUME Signing, Visible(c) # <<>>, Pairable(c, repaired)
               PROVE  FixConversation(m).issues \subseteq {"merged text"}
    BY DEF RepairSettles
  <2>1. c \in Seq(Messages)
    BY WellSignedMessages DEF Signing
  <2>2. RequestsDiffer(Visible(c)) /\ LeadStays(Visible(c))
    BY DEF Pairable, LeadStays, FixConversation
  <2>3. AskedOnce(Visible(c))
    <3>1. Visible(c) \in Seq(Seen(Items))
      BY <2>1, VisibleIs
    <3> QED
      BY <2>2, <3>1, RequestsDifferIs
  <2>4. Steady(Visible(m))
    BY <2>1, <2>2, <2>3, RepairedIs
  <2> HIDE DEF m
  <2>5. FixMessages(Visible(m)).issues \subseteq {"merged text"}
    BY <2>4, SteadyIssues
  <2>6. FixConversation(m).issues = FixMessages(Visible(m)).issues
    BY DEF FixConversation
  <2> QED
    BY <2>5, <2>6
<1> QED
  BY <1>1, SigningInit, SigningNext, PTL DEF Spec
=============================================================================
