--------------------------- MODULE TcpClientProofs ---------------------------
(***************************************************************************)
(* Proofs about TcpConnection as TcpClient and TcpServer use it, for any     *)
(* messages, any send buffer and any number of bytes from the peer.         *)
(***************************************************************************)
EXTENDS TcpClient, SequenceTheorems, WellFoundedInduction, TLAPS

-----------------------------------------------------------------------------
(* Induction over sequences, and joining the sequences of a sequence.       *)

\* A set of numbers that is not empty has a smallest one.
LEMMA LeastOfNat ==
  ASSUME NEW S, S \subseteq Nat, S # {}
  PROVE  \E x \in S : \A y \in S : x <= y
<1> DEFINE Less == {ss \in Nat \X Nat : ss[1] < ss[2]}
<1>1. OpToRel(<, Nat) = Less
  BY DEF OpToRel
<1>2. IsWellFoundedOn(Less, Nat)
  BY <1>1, NatLessThanWellFounded
<1>3. \E x \in S : \A y \in S : ~(<<y, x>> \in Less)
  <2> HIDE DEF Less
  <2> QED BY <1>2, WFMin
<1>4. PICK x \in S : \A y \in S : ~(<<y, x>> \in Less)
  BY <1>3
<1>5. ASSUME NEW y \in S PROVE x <= y
  <2>1. <<y, x>> \in Nat \X Nat /\ <<y, x>>[1] = y /\ <<y, x>>[2] = x
    OBVIOUS
  <2>2. ~(y < x)
    BY <1>4, <2>1
  <2> QED BY <2>2
<1> QED BY <1>5

\* A set that has the empty sequence, and with each sequence all that are one
\* element longer, has every sequence.
LEMMA EverySequence ==
  ASSUME NEW S, NEW T, <<>> \in T,
         \A s \in Seq(S), e \in S : s \in T => Append(s, e) \in T
  PROVE  Seq(S) \subseteq T
<1> SUFFICES ASSUME NEW s0 \in Seq(S), s0 \notin T PROVE FALSE
  OBVIOUS
<1> DEFINE Lengths == {n \in Nat : \E s \in Seq(S) : s \notin T /\ Len(s) = n}
<1>1. Lengths \subseteq Nat /\ Lengths # {}
  BY LenProperties
<1>2. PICK n \in Lengths : \A k \in Lengths : n <= k
  BY <1>1, LeastOfNat
<1>3. PICK s \in Seq(S) : s \notin T /\ Len(s) = n
  BY <1>2
<1>4. s # <<>>
  BY <1>3
<1>5. PICK u \in Seq(S), e \in S : s = Append(u, e)
  BY <1>4, SequenceEmptyOrAppend
<1>6. Len(u) \in Nat /\ Len(s) = Len(u) + 1
  BY <1>5, AppendProperties, LenProperties
<1>7. u \in T
  BY <1>2, <1>3, <1>6
<1> QED BY <1>3, <1>5, <1>7

\* The function FlattenSeq is defined by: f[i] is the first i sequences joined.
Joins(ss, f) == f = [i \in 1 .. Len(ss) |-> IF i = 1 THEN ss[i] ELSE f[i - 1] \o ss[i]]

\* Two such functions agree as far as their sequences do.
LEMMA JoinsAgree ==
  ASSUME NEW S, NEW s \in Seq(S), NEW t \in Seq(S), NEW f, NEW g, Joins(s, f), Joins(t, g),
         NEW n \in Nat, n > 0, n <= Len(s), n <= Len(t), \A i \in 1 .. n : s[i] = t[i]
  PROVE  f[n] = g[n]
<1> SUFFICES ASSUME f[n] # g[n] PROVE FALSE
  OBVIOUS
<1> DEFINE Differ == {i \in 1 .. n : f[i] # g[i]}
<1>1. Differ \subseteq Nat /\ Differ # {}
  OBVIOUS
<1>2. PICK k \in Differ : \A i \in Differ : k <= i
  BY <1>1, LeastOfNat
<1>3. Len(s) \in Nat /\ Len(t) \in Nat
  BY LenProperties
<1>4. k \in 1 .. Len(s) /\ k \in 1 .. Len(t)
  BY <1>2, <1>3
<1>5. /\ f[k] = IF k = 1 THEN s[k] ELSE f[k - 1] \o s[k]
      /\ g[k] = IF k = 1 THEN t[k] ELSE g[k - 1] \o t[k]
  BY <1>4 DEF Joins
<1>6. CASE k = 1
  BY <1>2, <1>5, <1>6
<1>7. CASE k # 1
  <2>1. k \in 1 .. n /\ k - 1 \in 1 .. n /\ ~(k <= k - 1)
    BY <1>2, <1>7
  <2>2. f[k - 1] = g[k - 1]
    BY <1>2, <2>1
  <2>3. s[k] = t[k]
    BY <2>1
  <2> QED BY <1>2, <1>5, <1>7, <2>2, <2>3
<1> QED BY <1>6, <1>7

\* Every sequence of sequences has such a function.
LEMMA JoinsExists == ASSUME NEW S, NEW ss \in Seq(S) PROVE \E f : Joins(ss, f)
<1> DEFINE T == {s \in Seq(S) : \E f : Joins(s, f)}
<1>1. <<>> \in T
  <2> DEFINE f == [i \in 1 .. 0 |-> <<>>]
  <2>1. Joins(<<>>, f)
    BY DEF Joins
  <2> QED BY <2>1, EmptySeq
<1>2. ASSUME NEW s \in Seq(S), NEW e \in S, s \in T PROVE Append(s, e) \in T
  <2> DEFINE t == Append(s, e)
             n == Len(s)
  <2>1. PICK f : Joins(s, f)
    BY <1>2
  <2> DEFINE h == [i \in 1 .. n + 1 |->
                     IF i <= n THEN f[i] ELSE IF i = 1 THEN t[i] ELSE f[n] \o t[i]]
  <2>2. n \in Nat /\ t \in Seq(S) /\ Len(t) = n + 1 /\ \A i \in 1 .. n : t[i] = s[i]
    BY AppendProperties, LenProperties
  <2>3. ASSUME NEW i \in 1 .. n + 1
        PROVE  h[i] = IF i = 1 THEN t[i] ELSE h[i - 1] \o t[i]
    <3> HIDE DEF t, n
    <3>1. CASE i <= n
      <4>1. i \in 1 .. n /\ (i # 1 => i - 1 \in 1 .. n + 1 /\ i - 1 <= n)
        BY <2>2, <3>1
      <4>2. f[i] = IF i = 1 THEN s[i] ELSE f[i - 1] \o s[i]
        BY <2>1, <4>1 DEF Joins, n
      <4>3. h[i] = f[i] /\ (i # 1 => h[i - 1] = f[i - 1])
        BY <3>1, <4>1
      <4> HIDE DEF h
      <4> QED BY <2>2, <4>1, <4>2, <4>3
    <3>2. CASE ~(i <= n)
      <4>1. i = n + 1 /\ i - 1 = n /\ (i # 1 => n \in 1 .. n + 1 /\ n <= n)
        BY <2>2, <3>2
      <4>2. h[i] = IF i = 1 THEN t[i] ELSE f[n] \o t[i]
        BY <3>2, <4>1
      <4>3. i # 1 => h[n] = f[n]
        BY <4>1
      <4> HIDE DEF h
      <4> QED BY <4>1, <4>2, <4>3
    <3> QED BY <3>1, <3>2
  <2>4. Joins(t, h)
    <3>1. h = [i \in 1 .. n + 1 |-> h[i]]
      OBVIOUS
    <3> HIDE DEF h, t, n
    <3> QED BY <2>2, <2>3, <3>1 DEF Joins
  <2> QED BY <2>2, <2>4
<1>3. Seq(S) \subseteq T
  <2> HIDE DEF T
  <2> QED BY <1>1, <1>2, EverySequence
<1> QED BY <1>3

LEMMA FlattenJoins ==
  ASSUME NEW S, NEW ss \in Seq(S), Len(ss) # 0
  PROVE  \E f : Joins(ss, f) /\ FlattenSeq(ss) = f[Len(ss)]
<1> DEFINE f == CHOOSE g : Joins(ss, g)
<1>1. Joins(ss, f)
  BY JoinsExists
<1>2. FlattenSeq(ss) = f[Len(ss)]
  BY DEF FlattenSeq, Joins
<1> QED BY <1>1, <1>2

\* One sequence more.
LEMMA FlattenAppend ==
  ASSUME NEW U, NEW ss \in Seq(Seq(U)), NEW s \in Seq(U), FlattenSeq(ss) \in Seq(U)
  PROVE  FlattenSeq(Append(ss, s)) = FlattenSeq(ss) \o s
<1> DEFINE t == Append(ss, s)
           n == Len(ss)
<1>1. n \in Nat /\ t \in Seq(Seq(U)) /\ Len(t) = n + 1 /\ t[n + 1] = s /\ \A i \in 1 .. n : t[i] = ss[i]
  BY AppendProperties, LenProperties
<1> HIDE DEF t
<1>2. PICK g : Joins(t, g) /\ FlattenSeq(t) = g[n + 1]
  BY <1>1, FlattenJoins
<1>3. g[n + 1] = IF n + 1 = 1 THEN t[n + 1] ELSE g[(n + 1) - 1] \o t[n + 1]
  <2>1. n + 1 \in 1 .. Len(t)
    BY <1>1
  <2> QED BY <1>2, <2>1 DEF Joins
<1>4. CASE n = 0
  <2>1. ss = <<>> /\ FlattenSeq(ss) = ss
    BY <1>4, EmptySeq DEF FlattenSeq
  <2>2. <<>> \o s = s
    BY ConcatEmptySeq
  <2>3. g[n + 1] = s
    BY <1>1, <1>3, <1>4
  <2> QED BY <1>2, <2>1, <2>2, <2>3 DEF t
<1>5. CASE n # 0
  <2>1. PICK f : Joins(ss, f) /\ FlattenSeq(ss) = f[n]
    BY <1>5, FlattenJoins
  <2>2. g[n] = f[n]
    <3>1. n > 0 /\ n <= Len(ss) /\ n <= Len(t) /\ n \in Nat
      BY <1>1, <1>5
    <3>2. Joins(ss, f) /\ Joins(t, g) /\ t \in Seq(Seq(U)) /\ \A i \in 1 .. n : ss[i] = t[i]
      BY <1>1, <1>2, <2>1
    <3> HIDE DEF n
    <3> QED BY ONLY <3>1, <3>2, ss \in Seq(Seq(U)), JoinsAgree
  <2>3. (n + 1) - 1 = n /\ n + 1 # 1
    BY <1>1, <1>5
  <2>4. g[n + 1] = g[n] \o s
    BY <1>1, <1>3, <2>3
  <2> QED BY <1>2, <2>1, <2>2, <2>4 DEF t
<1> QED BY <1>4, <1>5

\* Joining sequences over U gives one over U, and one sequence more comes behind.
LEMMA FlattenProperties ==
  ASSUME NEW U
  PROVE  /\ FlattenSeq(<<>>) = <<>>
         /\ \A ss \in Seq(Seq(U)) : FlattenSeq(ss) \in Seq(U)
         /\ \A ss \in Seq(Seq(U)), s \in Seq(U) : FlattenSeq(Append(ss, s)) = FlattenSeq(ss) \o s
<1> DEFINE T == {ss \in Seq(Seq(U)) : FlattenSeq(ss) \in Seq(U)}
<1>1. FlattenSeq(<<>>) = <<>> /\ <<>> \in Seq(Seq(U)) /\ <<>> \in Seq(U)
  BY EmptySeq DEF FlattenSeq
<1>2. ASSUME NEW ss \in Seq(Seq(U)), NEW s \in Seq(U), ss \in T PROVE Append(ss, s) \in T
  <2>1. FlattenSeq(Append(ss, s)) = FlattenSeq(ss) \o s
    BY <1>2, FlattenAppend
  <2>2. FlattenSeq(ss) \o s \in Seq(U)
    BY <1>2, ConcatProperties
  <2>3. Append(ss, s) \in Seq(Seq(U))
    BY AppendProperties
  <2> QED BY <2>1, <2>2, <2>3
<1>3. Seq(Seq(U)) \subseteq T
  <2>1. <<>> \in T
    BY <1>1
  <2> HIDE DEF T
  <2> QED BY <1>2, <2>1, EverySequence
<1> QED BY <1>1, <1>3, FlattenAppend

\* What f makes of every element of s, joined.
Gather(f, s) == FlattenSeq([i \in DOMAIN s |-> f[s[i]]])

LEMMA GatherAppend ==
  ASSUME NEW S, NEW U, NEW f \in [S -> Seq(U)]
  PROVE  /\ Gather(f, <<>>) = <<>>
         /\ \A s \in Seq(S) : Gather(f, s) \in Seq(U)
         /\ \A s \in Seq(S), e \in S : Gather(f, Append(s, e)) = Gather(f, s) \o f[e]
<1> DEFINE m(s) == [i \in DOMAIN s |-> f[s[i]]]
<1>1. m(<<>>) = <<>>
  OBVIOUS
<1>2. ASSUME NEW s \in Seq(S) PROVE m(s) \in Seq(Seq(U))
  <2>1. Len(s) \in Nat /\ DOMAIN s = 1 .. Len(s) /\ \A i \in 1 .. Len(s) : s[i] \in S
    BY LenProperties, ElementOfSeq
  <2>2. m(s) = [i \in 1 .. Len(s) |-> f[s[i]]] /\ \A i \in 1 .. Len(s) : f[s[i]] \in Seq(U)
    BY <2>1
  <2> QED BY <2>1, <2>2, IsASeq
<1>3. ASSUME NEW s \in Seq(S), NEW e \in S PROVE m(Append(s, e)) = Append(m(s), f[e])
  <2> DEFINE t == Append(s, e)
             a == m(t)
             b == Append(m(s), f[e])
             n == Len(s)
  <2>1. n \in Nat /\ t \in Seq(S) /\ Len(t) = n + 1 /\ t[n + 1] = e /\ \A i \in 1 .. n : t[i] = s[i]
    BY AppendProperties, LenProperties
  <2>2. a \in Seq(Seq(U)) /\ Len(a) = n + 1 /\ \A i \in 1 .. n + 1 : a[i] = f[t[i]]
    <3>1. DOMAIN t = 1 .. n + 1
      BY <2>1, LenProperties
    <3>2. a \in Seq(Seq(U))
      BY <1>2, <2>1
    <3>3. DOMAIN a = 1 .. n + 1 /\ \A i \in 1 .. n + 1 : a[i] = f[t[i]]
      BY <3>1
    <3> HIDE DEF a, t, n
    <3> QED BY <2>1, <3>2, <3>3, LenProperties
  <2>3. m(s) \in Seq(Seq(U)) /\ Len(m(s)) = n /\ \A i \in 1 .. n : m(s)[i] = f[s[i]]
    <3>1. m(s) \in Seq(Seq(U))
      BY <1>2
    <3>2. DOMAIN m(s) = 1 .. n /\ \A i \in 1 .. n : m(s)[i] = f[s[i]]
      BY LenProperties
    <3> HIDE DEF m, n
    <3> QED BY <2>1, <3>1, <3>2, LenProperties
  <2>4. f[e] \in Seq(U)
    OBVIOUS
  <2> HIDE DEF m, t, n, a
  <2>5. b \in Seq(Seq(U)) /\ Len(b) = n + 1 /\ b[n + 1] = f[e] /\ \A i \in 1 .. n : b[i] = m(s)[i]
    BY <2>3, <2>4, AppendProperties
  <2> HIDE DEF b
  <2>6. ASSUME NEW i \in 1 .. n + 1 PROVE a[i] = b[i]
    <3>1. CASE i \in 1 .. n
      <4>1. a[i] = f[t[i]] /\ t[i] = s[i]
        BY <2>1, <2>2, <3>1
      <4>2. b[i] = m(s)[i] /\ m(s)[i] = f[s[i]]
        BY <2>3, <2>5, <3>1
      <4> QED BY <4>1, <4>2
    <3>2. CASE i = n + 1
      BY <2>1, <2>2, <2>5, <3>2
    <3> QED BY <2>1, <3>1, <3>2
  <2>7. a = b
    <3>1. Len(a) = Len(b)
      BY <2>2, <2>5
    <3>2. \A i \in 1 .. Len(a) : a[i] = b[i]
      BY <2>2, <2>6
    <3> QED BY ONLY <2>2, <2>5, <3>1, <3>2, SeqEqual
  <2> QED BY <2>7 DEF a, b, t
<1> HIDE DEF m
<1>4. \A s \in Seq(S) : Gather(f, s) \in Seq(U)
  BY <1>2, FlattenProperties DEF Gather, m
<1>5. ASSUME NEW s \in Seq(S), NEW e \in S PROVE Gather(f, Append(s, e)) = Gather(f, s) \o f[e]
  <2>1. Gather(f, Append(s, e)) = FlattenSeq(Append(m(s), f[e]))
    BY <1>3 DEF Gather, m
  <2>2. FlattenSeq(Append(m(s), f[e])) = FlattenSeq(m(s)) \o f[e]
    <3>1. m(s) \in Seq(Seq(U)) /\ f[e] \in Seq(U)
      BY <1>2
    <3> QED BY <3>1, FlattenProperties
  <2>3. Gather(f, s) = FlattenSeq(m(s))
    BY DEF Gather, m
  <2> QED BY <2>1, <2>2, <2>3
<1> QED BY <1>1, <1>4, <1>5, FlattenProperties DEF Gather, m

LEMMA GatherOne ==
  ASSUME NEW S, NEW U, NEW f \in [S -> Seq(U)], NEW s \in Seq(S), NEW e \in S
  PROVE  Gather(f, Append(s, e)) = Gather(f, s) \o f[e]
<1>1. \A r \in Seq(S), x \in S : Gather(f, Append(r, x)) = Gather(f, r) \o f[x]
  BY GatherAppend
<1> QED BY <1>1

\* What f makes of two sequences in a row.
InARow(f, s, t) == Gather(f, s \o t) = Gather(f, s) \o Gather(f, t)

\* Sequences are joined in any order.
AnyOrder(a, b, c) == (a \o b) \o c = a \o (b \o c)

LEMMA Associates == ASSUME NEW S PROVE \A a, b, c \in Seq(S) : AnyOrder(a, b, c)
BY ConcatAssociative DEF AnyOrder

LEMMA GatherConcat ==
  ASSUME NEW S, NEW U, NEW f \in [S -> Seq(U)]
  PROVE  \A s, t \in Seq(S) : InARow(f, s, t)
<1> SUFFICES ASSUME NEW s \in Seq(S), NEW t0 \in Seq(S)
             PROVE  Gather(f, s \o t0) = Gather(f, s) \o Gather(f, t0)
  BY DEF InARow
<1> DEFINE T == {t \in Seq(S) : Gather(f, s \o t) = Gather(f, s) \o Gather(f, t)}
           g == Gather(f, s)
<1>1. g \in Seq(U)
  BY GatherAppend
<1>2. <<>> \in T
  <2>1. s \o <<>> = s /\ g \o <<>> = g /\ <<>> \in Seq(S)
    BY <1>1, ConcatEmptySeq, EmptySeq
  <2> QED BY <2>1, GatherAppend
<1>3. ASSUME NEW t \in Seq(S), NEW e \in S, t \in T PROVE Append(t, e) \in T
  <2>1. s \o Append(t, e) = Append(s \o t, e) /\ s \o t \in Seq(S) /\ Append(t, e) \in Seq(S)
    <3>1. s \o t \in Seq(S) /\ <<e>> \in Seq(S)
      BY ConcatProperties
    <3>2. (s \o t) \o <<e>> = s \o (t \o <<e>>)
      <4>1. AnyOrder(s, t, <<e>>)
        BY <3>1, Associates
      <4> QED BY ONLY Zenon, <4>1 DEF AnyOrder
    <3> QED BY <3>1, <3>2, AppendIsConcat, AppendProperties
  <2> DEFINE h == Gather(f, t)
             x == f[e]
             p == Gather(f, s \o t)
  <2>2. Gather(f, s \o Append(t, e)) = p \o x
    <3>1. Gather(f, Append(s \o t, e)) = p \o x
      BY <2>1, GatherOne
    <3> QED BY <2>1, <3>1
  <2>3. Gather(f, Append(t, e)) = h \o x
    BY GatherOne
  <2>4. p = g \o h
    BY <1>3
  <2>5. h \in Seq(U) /\ x \in Seq(U)
    BY GatherAppend
  <2> HIDE DEF g, h, x, p
  <2>6. p \o x = g \o (h \o x)
    <3>1. g \in Seq(U) /\ h \in Seq(U) /\ x \in Seq(U)
      BY <1>1, <2>5
    <3>2. (g \o h) \o x = g \o (h \o x)
      <4>1. AnyOrder(g, h, x)
        BY ONLY <3>1, Associates
      <4> QED BY ONLY Zenon, <4>1 DEF AnyOrder
    <3> QED BY <2>4, <3>2
  <2> QED BY <2>1, <2>2, <2>3, <2>6 DEF g
<1>4. Seq(S) \subseteq T
  <2> HIDE DEF T
  <2> QED BY <1>2, <1>3, EverySequence
<1> QED BY <1>4

-----------------------------------------------------------------------------
(* The units of buffers, and the stray ones among them.                    *)

\* The buffers of the messages, their units, and what io_vec_list_ holds.
Buffers == Messages \cup (Messages \X Nat)
AllUnits == Buffers \X (0 .. Width - 1)
Vecs == [msg : Buffers, base : 0 .. Width - 1, len : 1 .. Width - 1]

LEMMA JoinType == ASSUME NEW s \in Seq(AllUnits), NEW t \in Seq(AllUnits) PROVE s \o t \in Seq(AllUnits)
BY ConcatProperties

LEMMA JoinThree ==
  ASSUME NEW s \in Seq(AllUnits), NEW t \in Seq(AllUnits), NEW u \in Seq(AllUnits)
  PROVE  (s \o t) \o u = s \o (t \o u)
BY ConcatAssociative

\* What is cut at one place goes together again at that place.
Glued(p, c, r, q) == (p \o c) \o (r \o q) = p \o ((c \o r) \o q)

LEMMA JoinCut ==
  ASSUME NEW p \in Seq(AllUnits), NEW c \in Seq(AllUnits), NEW r \in Seq(AllUnits), NEW q \in Seq(AllUnits)
  PROVE  Glued(p, c, r, q)
<1> DEFINE rq == r \o q
<1>1. rq \in Seq(AllUnits)
  BY JoinType
<1>2. c \o rq = (c \o r) \o q
  BY JoinThree
<1> HIDE DEF rq
<1>3. AnyOrder(p, c, rq)
  BY <1>1, Associates
<1> QED BY Zenon, <1>2, <1>3 DEF rq, Glued, AnyOrder

LEMMA UnitsOfType ==
  ASSUME NEW v \in Vecs
  PROVE  UnitsOf(v) \in Seq(AllUnits) /\ Len(UnitsOf(v)) = v.len
<1>1. v.msg \in Buffers /\ v.base \in Nat /\ v.len \in Nat /\ Width \in Nat /\ Width > 0
  BY SizesAssumption DEF Vecs
<1>2. ASSUME NEW i \in 1 .. v.len PROVE <<v.msg, (v.base + i - 1) % Width>> \in AllUnits
  <2>1. (v.base + i - 1) \in Int /\ (v.base + i - 1) % Width \in 0 .. Width - 1
    BY <1>1
  <2> QED BY <1>1, <2>1 DEF AllUnits
<1>3. UnitsOf(v) \in [1 .. v.len -> AllUnits]
  BY <1>2 DEF UnitsOf
<1> QED BY <1>1, <1>3, IsASeq, LenProperties

\* Units of a list of buffers, and NoStrays, gather.
LEMMA UnitsProperties ==
  /\ Units(<<>>) = <<>>
  /\ \A l \in Seq(Vecs) : Units(l) \in Seq(AllUnits)
  /\ \A v \in Vecs : Units(<<v>>) = UnitsOf(v)
  /\ \A k, l \in Seq(Vecs) : Units(k \o l) = Units(k) \o Units(l)
<1> DEFINE f == [v \in Vecs |-> UnitsOf(v)]
<1>1. f \in [Vecs -> Seq(AllUnits)]
  BY UnitsOfType
<1>2. ASSUME NEW l \in Seq(Vecs) PROVE Units(l) = Gather(f, l)
  <2>1. \A i \in DOMAIN l : l[i] \in Vecs
    BY ElementOfSeq, LenProperties
  <2>2. [i \in DOMAIN l |-> UnitsOf(l[i])] = [i \in DOMAIN l |-> f[l[i]]]
    BY <2>1
  <2> QED BY <2>2 DEF Units, Gather
<1> HIDE DEF f
<1>3. <<>> \in Seq(Vecs) /\ \A v \in Vecs : <<v>> \in Seq(Vecs) /\ <<v>> = Append(<<>>, v)
  BY EmptySeq
<1>4. \A k, l \in Seq(Vecs) : k \o l \in Seq(Vecs)
  BY ConcatProperties
<1>5. Units(<<>>) = <<>> /\ \A l \in Seq(Vecs) : Units(l) \in Seq(AllUnits)
  <2>1. /\ Gather(f, <<>>) = <<>>
        /\ \A s \in Seq(Vecs) : Gather(f, s) \in Seq(AllUnits)
    BY <1>1, GatherAppend
  <2> QED BY <1>2, <1>3, <2>1
<1>6. ASSUME NEW v \in Vecs PROVE Units(<<v>>) = UnitsOf(v)
  <2> DEFINE none == <<>>
             one == <<v>>
  <2>1. none \in Seq(Vecs) /\ one \in Seq(Vecs) /\ one = Append(none, v) /\ Gather(f, none) = <<>>
    BY <1>1, <1>3, GatherAppend
  <2>2. f[v] = UnitsOf(v) /\ <<>> \o UnitsOf(v) = UnitsOf(v)
    BY UnitsOfType, ConcatEmptySeq DEF f
  <2> HIDE DEF none, one
  <2>3. Gather(f, Append(none, v)) = Gather(f, none) \o f[v]
    BY <1>1, <2>1, GatherOne
  <2>4. Units(one) = Gather(f, one)
    BY <1>2, <2>1
  <2> QED BY <2>1, <2>2, <2>3, <2>4 DEF one
<1>7. ASSUME NEW k \in Seq(Vecs), NEW l \in Seq(Vecs) PROVE Units(k \o l) = Units(k) \o Units(l)
  <2>1. InARow(f, k, l)
    BY <1>1, GatherConcat
  <2>2. Units(k \o l) = Gather(f, k \o l)
    BY Zenon, <1>2, <1>4
  <2>3. Units(k) = Gather(f, k) /\ Units(l) = Gather(f, l)
    BY <1>2
  <2> QED BY Zenon, <2>1, <2>2, <2>3 DEF InARow
<1> QED BY <1>5, <1>6, <1>7

LEMMA NoStraysProperties ==
  /\ NoStrays(<<>>) = <<>>
  /\ \A s \in Seq(AllUnits) : NoStrays(s) \in Seq(AllUnits)
  /\ \A s \in Seq(AllUnits), u \in AllUnits :
       NoStrays(Append(s, u)) = IF IsStray(u) THEN NoStrays(s) ELSE Append(NoStrays(s), u)
  /\ \A s, t \in Seq(AllUnits) : NoStrays(s \o t) = NoStrays(s) \o NoStrays(t)
<1> DEFINE f == [u \in AllUnits |-> IF IsStray(u) THEN <<>> ELSE <<u>>]
<1>1. f \in [AllUnits -> Seq(AllUnits)]
  BY EmptySeq
<1>2. ASSUME NEW s \in Seq(AllUnits) PROVE NoStrays(s) = Gather(f, s)
  <2>1. \A i \in DOMAIN s : s[i] \in AllUnits
    BY ElementOfSeq, LenProperties
  <2>2. [i \in DOMAIN s |-> IF IsStray(s[i]) THEN <<>> ELSE <<s[i]>>] = [i \in DOMAIN s |-> f[s[i]]]
    BY <2>1
  <2> QED BY <2>2 DEF NoStrays, Gather
<1>f. \A u \in AllUnits : f[u] = IF IsStray(u) THEN <<>> ELSE <<u>>
  OBVIOUS
<1> HIDE DEF f
<1>3. <<>> \in Seq(AllUnits)
  BY EmptySeq
<1>4. NoStrays(<<>>) = <<>> /\ \A s \in Seq(AllUnits) : NoStrays(s) \in Seq(AllUnits)
  <2>1. /\ Gather(f, <<>>) = <<>>
        /\ \A s \in Seq(AllUnits) : Gather(f, s) \in Seq(AllUnits)
    BY <1>1, GatherAppend
  <2> QED BY <1>2, <1>3, <2>1
<1>5. ASSUME NEW s \in Seq(AllUnits), NEW u \in AllUnits
      PROVE  NoStrays(Append(s, u)) = IF IsStray(u) THEN NoStrays(s) ELSE Append(NoStrays(s), u)
  <2> DEFINE g == NoStrays(s)
             all == Append(s, u)
  <2>1. g \in Seq(AllUnits) /\ g = Gather(f, s) /\ all \in Seq(AllUnits)
    BY <1>2, <1>4, AppendProperties
  <2>2. Gather(f, all) = g \o f[u]
    BY <1>1, <2>1, GatherOne
  <2>3. NoStrays(all) = Gather(f, all)
    BY <1>2, <2>1
  <2> HIDE DEF g, all
  <2>4. g \o <<>> = g /\ g \o <<u>> = Append(g, u)
    BY <2>1, ConcatEmptySeq, AppendIsConcat
  <2> QED BY <1>f, <2>2, <2>3, <2>4 DEF g, all
<1>6. ASSUME NEW s \in Seq(AllUnits), NEW t \in Seq(AllUnits)
      PROVE  NoStrays(s \o t) = NoStrays(s) \o NoStrays(t)
  <2>1. InARow(f, s, t)
    BY <1>1, GatherConcat
  <2>2. NoStrays(s \o t) = Gather(f, s \o t)
    BY Zenon, <1>2, JoinType
  <2>3. NoStrays(s) = Gather(f, s) /\ NoStrays(t) = Gather(f, t)
    BY <1>2
  <2> QED BY Zenon, <2>1, <2>2, <2>3 DEF InARow
<1> QED BY <1>4, <1>5, <1>6

\* A sequence without strays is all that is left of it.
LEMMA NoneStray ==
  ASSUME NEW s0 \in Seq(AllUnits), \A i \in 1 .. Len(s0) : ~IsStray(s0[i])
  PROVE  NoStrays(s0) = s0
<1> DEFINE T == {s \in Seq(AllUnits) : (\A i \in 1 .. Len(s) : ~IsStray(s[i])) => NoStrays(s) = s}
<1>1. <<>> \in T
  BY EmptySeq, NoStraysProperties
<1>2. ASSUME NEW s \in Seq(AllUnits), NEW u \in AllUnits, s \in T PROVE Append(s, u) \in T
  <2> DEFINE t == Append(s, u)
             n == Len(s)
  <2>1. n \in Nat /\ t \in Seq(AllUnits) /\ Len(t) = n + 1 /\ t[n + 1] = u /\ \A i \in 1 .. n : t[i] = s[i]
    BY AppendProperties, LenProperties
  <2>2. NoStrays(t) = IF IsStray(u) THEN NoStrays(s) ELSE Append(NoStrays(s), u)
    BY NoStraysProperties
  <2>3. ASSUME \A i \in 1 .. Len(t) : ~IsStray(t[i]) PROVE NoStrays(t) = t
    <3>1. ~IsStray(u)
      <4>1. n + 1 \in 1 .. Len(t)
        BY <2>1
      <4> HIDE DEF t
      <4> QED BY <2>1, <2>3, <4>1
    <3>2. \A i \in 1 .. n : ~IsStray(s[i])
      <4> HIDE DEF t, n
      <4> QED BY <2>1, <2>3
    <3>3. NoStrays(s) = s
      BY <1>2, <3>2
    <3> QED BY <2>2, <3>1, <3>3
  <2> HIDE DEF t
  <2> QED BY <2>1, <2>3 DEF t
<1>3. Seq(AllUnits) \subseteq T
  <2> HIDE DEF T
  <2> QED BY <1>1, <1>2, EverySequence
<1> QED BY <1>3

\* A buffer cut at c: what is in front of the cut and what is behind it.
Behind(v, c) == [v EXCEPT !.base = (@ + c) % Width, !.len = @ - c]

LEMMA BehindType ==
  ASSUME NEW v \in Vecs, NEW c \in 0 .. v.len - 1
  PROVE  /\ Behind(v, c) \in Vecs
         /\ Behind(v, c) = [msg |-> v.msg, base |-> (v.base + c) % Width, len |-> v.len - c]
<1>1. v.msg \in Buffers /\ v.base \in 0 .. Width - 1 /\ v.len \in 1 .. Width - 1 /\ Width \in Nat /\ Width > 0
  BY SizesAssumption DEF Vecs
<1>2. (v.base + c) % Width \in 0 .. Width - 1 /\ v.len - c \in 1 .. Width - 1
  BY <1>1
<1>3. Behind(v, c) = [msg |-> v.msg, base |-> (v.base + c) % Width, len |-> v.len - c]
  <2> DEFINE w == Behind(v, c)
             All == [msg : Buffers, base : Int, len : Int]
  <2>1. v \in All /\ (v.base + c) % Width \in Int /\ v.len - c \in Int
    BY <1>1, <1>2 DEF Vecs
  <2>2. w \in All
    BY <2>1 DEF Behind
  <2>3. w.msg = v.msg /\ w.base = (v.base + c) % Width /\ w.len = v.len - c
    BY <2>1 DEF Behind
  <2> HIDE DEF w
  <2>4. w = [msg |-> w.msg, base |-> w.base, len |-> w.len]
    BY <2>2
  <2> QED BY <2>3, <2>4 DEF w
<1> QED BY <1>1, <1>2, <1>3 DEF Vecs

\* Counting on modulo Width from a number that was counted modulo Width.
LEMMA CountOn ==
  ASSUME NEW W \in Nat \ {0}, NEW a \in Int, NEW k \in Int
  PROVE  ((a % W) + k) % W = (a + k) % W
<1> DEFINE q == a \div W
           y == (a % W) + k
           p == y \div W
           r == y % W
<1>1. \A x \in Int : x = (W * (x \div W)) + (x % W) /\ x \div W \in Int /\ x % W \in 0 .. W - 1
  OBVIOUS
<1>2. a = (W * q) + (a % W) /\ q \in Int /\ y \in Int
  BY <1>1
<1>3. y = (W * p) + r /\ p \in Int /\ r \in 0 .. W - 1
  BY <1>1, <1>2
<1> HIDE DEF q, p, r
<1>4. a + k = (W * q) + y
  <2>1. \A z, m \in Int : a = z + m => a + k = z + (m + k)
    OBVIOUS
  <2>2. W * q \in Int /\ a % W \in Int
    BY <1>1, <1>2
  <2> QED BY <1>2, <2>1, <2>2
<1> HIDE DEF y
<1>5. a + k = (W * q) + (W * p) + r
  BY <1>2, <1>3, <1>4
<1>6. (W * q) + (W * p) = (q + p) * W
  BY <1>2, <1>3
<1>7. \A j \in Int : (j * W + r) % W = r
  BY <1>3
<1>8. ((q + p) * W + r) % W = r /\ a + k = (q + p) * W + r
  <2>1. q + p \in Int
    BY <1>2, <1>3
  <2> QED BY <1>5, <1>6, <1>7, <2>1
<1> QED BY <1>8 DEF r, y

LEMMA CutUnits ==
  ASSUME NEW v \in Vecs, NEW c \in 0 .. v.len - 1
  PROVE  SubSeq(UnitsOf(v), 1, c) \o UnitsOf(Behind(v, c)) = UnitsOf(v)
<1> DEFINE U == UnitsOf(v)
           b == Behind(v, c)
           R == UnitsOf(b)
           P == SubSeq(U, 1, c)
<1>1. v.base \in Nat /\ v.len \in Nat /\ Width \in Nat /\ Width > 0 /\ c \in Nat /\ c <= v.len
  BY SizesAssumption DEF Vecs
<1>2. b \in Vecs /\ b.msg = v.msg /\ b.base = (v.base + c) % Width /\ b.len = v.len - c
  BY BehindType
<1>3. U \in Seq(AllUnits) /\ Len(U) = v.len /\ R \in Seq(AllUnits) /\ Len(R) = v.len - c
  BY <1>2, UnitsOfType
<1>4. \A i \in 1 .. v.len : U[i] = <<v.msg, (v.base + i - 1) % Width>>
  BY DEF UnitsOf
<1>5. \A i \in 1 .. v.len - c : R[i] = <<v.msg, (((v.base + c) % Width) + i - 1) % Width>>
  BY <1>2 DEF UnitsOf
<1> HIDE DEF U, R, b
<1>6. P \in Seq(AllUnits) /\ Len(P) = c /\ \A i \in 1 .. c : P[i] = U[i]
  <2>1. \A i \in 1 .. c : U[i] \in AllUnits
    BY <1>1, <1>3, ElementOfSeq
  <2> QED BY <1>1, <2>1, SubSeqProperties
<1> HIDE DEF P
<1> DEFINE J == P \o R
<1>7. J \in Seq(AllUnits) /\ Len(J) = v.len /\ \A i \in 1 .. v.len : J[i] = IF i <= c THEN P[i] ELSE R[i - c]
  <2>1. /\ J \in Seq(AllUnits) /\ Len(J) = Len(P) + Len(R)
        /\ \A i \in 1 .. Len(P) + Len(R) : J[i] = IF i <= Len(P) THEN P[i] ELSE R[i - Len(P)]
    BY ONLY <1>3, <1>6, ConcatProperties
  <2> HIDE DEF J
  <2>2. Len(P) + Len(R) = v.len
    BY <1>1, <1>3, <1>6
  <2> QED BY <1>6, <2>1, <2>2
<1> HIDE DEF J
<1>8. ASSUME NEW i \in 1 .. v.len PROVE J[i] = U[i]
  <2>1. CASE i <= c
    BY <1>1, <1>6, <1>7, <2>1
  <2>2. CASE ~(i <= c)
    <3> DEFINE k == i - c - 1
    <3>1. k \in Nat /\ i - c \in 1 .. v.len - c
      BY <1>1, <2>2
    <3>2. ((v.base + c) % Width) + (i - c) - 1 = ((v.base + c) % Width) + k /\ v.base + i - 1 = (v.base + c) + k
      BY <1>1
    <3>3. (((v.base + c) % Width) + k) % Width = ((v.base + c) + k) % Width
      <4>1. v.base + c \in Int /\ k \in Int /\ Width \in Nat \ {0}
        BY <1>1, <3>1
      <4> HIDE DEF k
      <4> QED BY <4>1, CountOn
    <3>4. R[i - c] = <<v.msg, (((v.base + c) % Width) + (i - c) - 1) % Width>>
      BY <1>5, <3>1
    <3> QED BY <1>4, <1>7, <2>2, <3>2, <3>3, <3>4
  <2> QED BY <2>1, <2>2
<1>9. J = U
  BY <1>3, <1>7, <1>8, SeqEqual
<1> QED BY <1>9 DEF J, P, R, U, b

\* A set of numbers up to a bound that is not empty has a greatest one.
LEMMA GreatestUpTo ==
  ASSUME NEW n \in Nat, NEW S, S \subseteq 0 .. n, S # {}
  PROVE  Max(S) \in S /\ \A y \in S : Max(S) >= y
<1> DEFINE D == {n - y : y \in S}
<1>1. D \subseteq Nat /\ D # {}
  <2>1. \A y \in S : n - y \in Nat
    OBVIOUS
  <2>2. PICK y \in S : TRUE
    OBVIOUS
  <2>3. n - y \in D
    OBVIOUS
  <2> QED BY <2>1, <2>3
<1>2. PICK d \in D : \A e \in D : d <= e
  BY <1>1, LeastOfNat
<1>3. PICK x \in S : d = n - x
  BY <1>2
<1>4. \A y \in S : x >= y
  BY <1>2, <1>3
<1> QED BY <1>4 DEF Max

\* The front of two sequences in a row, up to an element of the second.
LEMMA FrontOfTwo ==
  ASSUME NEW S, NEW s \in Seq(S), NEW t \in Seq(S), NEW c \in 0 .. Len(t)
  PROVE  SubSeq(s \o t, 1, Len(s) + c) = s \o SubSeq(t, 1, c)
<1> DEFINE J == s \o t
           F == SubSeq(t, 1, c)
           A == SubSeq(J, 1, Len(s) + c)
           B == s \o F
<1>1. Len(s) \in Nat /\ Len(t) \in Nat /\ c \in Nat /\ c <= Len(t)
  BY LenProperties
<1>2. /\ J \in Seq(S) /\ Len(J) = Len(s) + Len(t)
      /\ \A i \in 1 .. Len(s) + Len(t) : J[i] = IF i <= Len(s) THEN s[i] ELSE t[i - Len(s)]
  BY ConcatProperties
<1> HIDE DEF J
<1>3. F \in Seq(S) /\ Len(F) = c /\ \A i \in 1 .. c : F[i] = t[i]
  <2>1. \A i \in 1 .. c : t[i] \in S
    BY <1>1, ElementOfSeq
  <2> QED BY <1>1, <2>1, SubSeqProperties
<1>4. A \in Seq(S) /\ Len(A) = Len(s) + c /\ \A i \in 1 .. Len(s) + c : A[i] = J[i]
  <2>1. \A i \in 1 .. Len(s) + c : J[i] \in S
    <3>1. \A i \in 1 .. Len(J) : J[i] \in S
      BY <1>2, ElementOfSeq
    <3> QED BY <1>1, <1>2, <3>1
  <2> QED BY <1>1, <2>1, SubSeqProperties
<1> HIDE DEF F, A
<1>5. /\ B \in Seq(S) /\ Len(B) = Len(s) + Len(F)
      /\ \A i \in 1 .. Len(s) + Len(F) : B[i] = IF i <= Len(s) THEN s[i] ELSE F[i - Len(s)]
  BY <1>3, ConcatProperties
<1> HIDE DEF B
<1>6. ASSUME NEW i \in 1 .. Len(s) + c PROVE A[i] = B[i]
  <2>1. i \in 1 .. Len(s) + Len(t) /\ i \in 1 .. Len(s) + Len(F)
    BY <1>1, <1>3
  <2>2. CASE i <= Len(s)
    BY <1>2, <1>4, <1>5, <2>1, <2>2
  <2>3. CASE ~(i <= Len(s))
    <3>1. i - Len(s) \in 1 .. c
      BY <1>1, <2>3
    <3> QED BY <1>2, <1>3, <1>4, <1>5, <2>1, <2>3, <3>1
  <2> QED BY <2>2, <2>3
<1>7. A = B
  BY <1>1, <1>3, <1>4, <1>5, <1>6, SeqEqual
<1> QED BY <1>7 DEF A, B, F, J

\* Rest(list, n) is what Take(list, n) leaves of the units.
LEMMA RestProperties ==
  ASSUME NEW l \in Seq(Vecs), NEW n \in 0 .. Total(l)
  PROVE  Rest(l, n) \in Seq(Vecs) /\ SubSeq(Units(l), 1, n) \o Units(Rest(l, n)) = Units(l)
<1> DEFINE Before(i) == Total(SubSeq(l, 1, i))
           Gone == {i \in 0 .. Len(l) : Before(i) <= n}
           gone == Max(Gone)
           cut  == n - Before(gone)
           r    == Rest(l, n)
           size == Len(l)
<1>1. size \in Nat /\ l \in [1 .. size -> Vecs] /\ n \in Nat
  <2>1. Units(l) \in Seq(AllUnits)
    BY UnitsProperties
  <2> QED BY <2>1, LenProperties DEF Total
<1>2. \A i \in 0 .. size : SubSeq(l, 1, i) \in Seq(Vecs) /\ Before(i) \in Nat
  <2> SUFFICES ASSUME NEW i \in 0 .. size PROVE SubSeq(l, 1, i) \in Seq(Vecs) /\ Before(i) \in Nat
    OBVIOUS
  <2>1. SubSeq(l, 1, i) \in Seq(Vecs)
    <3>1. \A j \in 1 .. i : l[j] \in Vecs
      BY <1>1
    <3> QED BY <1>1, <3>1, SubSeqProperties
  <2>2. Units(SubSeq(l, 1, i)) \in Seq(AllUnits)
    BY <2>1, UnitsProperties
  <2> QED BY <2>1, <2>2, LenProperties DEF Total
<1>3. Before(0) = 0
  <2>1. SubSeq(l, 1, 0) = <<>>
    BY SubSeqEmpty
  <2> QED BY <2>1, UnitsProperties, EmptySeq DEF Total
<1>4. gone \in 0 .. size /\ Before(gone) <= n /\ \A i \in 0 .. size : Before(i) <= n => i <= gone
  <2>1. Gone \subseteq 0 .. size /\ 0 \in Gone
    BY <1>1, <1>3
  <2>2. gone \in Gone /\ \A i \in Gone : gone >= i
    <3> HIDE DEF Gone, size
    <3> QED BY <1>1, <2>1, GreatestUpTo
  <2> QED BY <1>1, <2>2
<1>5. r = [i \in 1 .. size - gone |-> IF i = 1 THEN Behind(l[gone + 1], cut) ELSE l[gone + i]]
  BY DEF Rest, Behind
<1> HIDE DEF gone, Gone, r
<1>6. CASE gone = size
  <2>1. SubSeq(l, 1, size) = l
    BY SubSeqFull
  <2>2. n = Total(l)
    <3>1. Before(gone) = Total(l)
      BY <1>6, <2>1
    <3>2. Total(l) \in Nat
      <4>1. Units(l) \in Seq(AllUnits)
        BY UnitsProperties
      <4> QED BY <4>1, LenProperties DEF Total
    <3> HIDE DEF Before
    <3> QED BY <1>1, <1>4, <3>1, <3>2
  <2>3. r = <<>>
    BY <1>1, <1>5, <1>6
  <2>4. Units(l) \in Seq(AllUnits) /\ Units(<<>>) = <<>> /\ <<>> \in Seq(Vecs)
    BY UnitsProperties, EmptySeq
  <2> DEFINE u == Units(l)
  <2>5. SubSeq(u, 1, Len(u)) = u /\ u \o <<>> = u
    BY <2>4, SubSeqFull, ConcatEmptySeq
  <2> QED BY <2>2, <2>3, <2>4, <2>5 DEF Total, r
<1>7. CASE gone # size
  <2> DEFINE pre  == SubSeq(l, 1, gone)
             v    == l[gone + 1]
             post == SubSeq(l, gone + 2, size)
             w    == Behind(v, cut)
             P    == Units(pre)
             V    == UnitsOf(v)
             Q    == Units(post)
             C    == SubSeq(V, 1, cut)
             R    == UnitsOf(w)
  <2>1. gone \in Nat /\ gone + 1 \in 1 .. size /\ v \in Vecs /\ pre \in Seq(Vecs) /\ Before(gone) \in Nat
    BY <1>1, <1>2, <1>4, <1>7
  <2>2. post \in Seq(Vecs) /\ Len(post) = size - gone - 1
        /\ \A i \in 1 .. size - gone - 1 : post[i] = l[gone + 1 + i]
    <3>1. \A i \in gone + 2 .. size : l[i] \in Vecs
      BY <1>1, <2>1
    <3>2. /\ post \in Seq(Vecs)
          /\ Len(post) = IF gone + 2 <= size THEN size - (gone + 2) + 1 ELSE 0
          /\ \A i \in 1 .. size - (gone + 2) + 1 : post[i] = l[(gone + 2) + i - 1]
      <4>1. gone + 2 \in Int /\ size \in Int
        BY <1>1, <2>1
      <4> QED BY <3>1, <4>1, SubSeqProperties
    <3>3. /\ size - (gone + 2) + 1 = size - gone - 1
          /\ gone + 2 <= size \/ size - gone - 1 = 0
          /\ \A i \in Int : (gone + 2) + i - 1 = gone + 1 + i
      BY <1>1, <2>1
    <3>4. size \in Nat /\ gone \in Nat
      BY <1>1, <2>1
    <3> HIDE DEF post, size
    <3>5. Len(post) = size - gone - 1
      BY <3>2, <3>3, <3>4
    <3>6. ASSUME NEW i \in 1 .. size - gone - 1 PROVE post[i] = l[gone + 1 + i]
      <4>1. i \in 1 .. size - (gone + 2) + 1 /\ i \in Int
        BY <3>3, <3>4
      <4>2. post[i] = l[(gone + 2) + i - 1]
        BY <3>2, <4>1
      <4> QED BY <3>3, <4>1, <4>2
    <3> QED BY <3>2, <3>5, <3>6
  <2>3. <<v>> \in Seq(Vecs) /\ l = pre \o (<<v>> \o post)
    <3>1. pre \o SubSeq(l, gone + 1, size) = SubSeq(l, 1, size)
      <4>1. 1 \in 1 .. size + 1 /\ gone \in 1 - 1 .. size /\ size \in gone .. size
        BY <1>1, <2>1
      <4> QED BY <4>1, ConcatAdjacentSubSeq
    <3>2. SubSeq(l, gone + 1, size) = <<v>> \o SubSeq(l, (gone + 1) + 1, size)
      <4>1. gone + 1 \in 1 .. size /\ size \in gone + 1 .. size
        BY <1>1, <2>1
      <4> QED BY <4>1, SubSeqRecursiveFirst
    <3>3. (gone + 1) + 1 = gone + 2
      BY <2>1
    <3>4. SubSeq(l, 1, size) = l
      BY SubSeqFull
    <3>5. <<v>> \in Seq(Vecs)
      BY <2>1
    <3> HIDE DEF size, v
    <3> QED BY <3>1, <3>2, <3>3, <3>4, <3>5
  <2>4. cut \in 0 .. v.len - 1 /\ n = Len(P) + cut /\ v.len \in Nat
    <3>1. SubSeq(l, 1, gone + 1) = SubSeq(l, 1, (gone + 1) - 1) \o <<v>>
      <4>1. 1 \in 1 .. size /\ gone + 1 \in 1 .. size
        BY <1>1, <2>1
      <4> QED BY <4>1, SubSeqRecursiveSecond
    <3>2. (gone + 1) - 1 = gone
      BY <2>1
    <3>3. Units(SubSeq(l, 1, gone + 1)) = P \o V
      <4>1. SubSeq(l, 1, gone + 1) = pre \o <<v>>
        BY <3>1, <3>2
      <4>2. Units(<<v>>) = V
        BY <2>1, UnitsProperties
      <4> DEFINE one == <<v>>
      <4>3. one \in Seq(Vecs)
        BY <2>3
      <4> HIDE DEF one, pre, v, V
      <4>4. Units(pre \o one) = Units(pre) \o Units(one)
        BY <2>1, <4>3, UnitsProperties
      <4> QED BY <4>1, <4>2, <4>4 DEF one
    <3>4. P \in Seq(AllUnits) /\ V \in Seq(AllUnits) /\ Len(V) = v.len
      BY <2>1, UnitsProperties, UnitsOfType
    <3>5. Len(P \o V) = Len(P) + Len(V) /\ Len(P) \in Nat /\ Len(V) \in Nat
      <4> HIDE DEF P, V
      <4> QED BY <3>4, ConcatProperties, LenProperties
    <3>6. ~(Before(gone + 1) <= n)
      <4>1. ~(gone + 1 <= gone) /\ gone + 1 \in 0 .. size
        BY <1>1, <2>1
      <4> QED BY <1>4, <4>1
    <3>7. Before(gone + 1) = Len(P) + v.len /\ Before(gone) = Len(P) /\ v.len \in Nat
      BY <3>3, <3>4, <3>5 DEF Total
    <3> HIDE DEF P, V, v, Before
    <3> QED BY <1>1, <1>4, <3>5, <3>6, <3>7
  <2>5. w \in Vecs /\ C \o R = V
    <3> HIDE DEF cut, v
    <3> QED BY <2>1, <2>4, BehindType, CutUnits
  <2>6. r = <<w>> \o post /\ <<w>> \in Seq(Vecs)
    <3> DEFINE one == <<w>>
               b   == one \o post
    <3>1. one \in Seq(Vecs) /\ Len(one) = 1 /\ one[1] = w
      BY <2>5
    <3>2. /\ b \in Seq(Vecs) /\ Len(b) = Len(one) + Len(post)
          /\ \A i \in 1 .. Len(one) + Len(post) :
               b[i] = IF i <= Len(one) THEN one[i] ELSE post[i - Len(one)]
      <4> HIDE DEF one, post
      <4> QED BY <2>2, <3>1, ConcatProperties
    <3>3. r \in Seq(Vecs) /\ Len(r) = size - gone /\ DOMAIN r = 1 .. size - gone
      <4>1. \A i \in 1 .. size - gone : (IF i = 1 THEN w ELSE l[gone + i]) \in Vecs
        BY <1>1, <2>1, <2>5
      <4>2. r \in [1 .. size - gone -> Vecs] /\ size - gone \in Nat
        <5> HIDE DEF w
        <5> QED BY <1>1, <1>5, <2>1, <4>1 DEF w
      <4> HIDE DEF size
      <4> QED BY <4>2, IsASeq, LenProperties
    <3>4. ASSUME NEW i \in 1 .. size - gone PROVE r[i] = b[i]
      <4>0. /\ Len(one) = 1 /\ Len(post) = size - gone - 1 /\ size - gone \in Nat \ {0}
            /\ size \in Nat /\ gone \in Nat
        <5>1. size \in Nat /\ gone \in Nat /\ size - gone \in Nat \ {0}
          BY <1>1, <2>1
        <5>2. Len(post) = size - gone - 1
          BY <2>2
        <5> QED BY <3>1, <5>1, <5>2
      <4>1. r[i] = IF i = 1 THEN w ELSE l[gone + i]
        BY <1>5
      <4>2. CASE i = 1
        <5>1. i \in 1 .. Len(one) + Len(post) /\ i <= Len(one)
          <6> HIDE DEF one, post
          <6> QED BY <4>0, <4>2
        <5> HIDE DEF b, one, w, post
        <5> QED BY <3>1, <3>2, <4>1, <4>2, <5>1
      <4>3. CASE i # 1
        <5>1. /\ i \in 1 .. Len(one) + Len(post) /\ ~(i <= Len(one)) /\ i - Len(one) = i - 1
              /\ i - 1 \in 1 .. size - gone - 1 /\ gone + 1 + (i - 1) = gone + i
          <6> HIDE DEF one, post, size
          <6> QED BY <4>0, <4>3
        <5> HIDE DEF b, one, w, post
        <5> QED BY <2>2, <3>1, <3>2, <4>1, <4>3, <5>1
      <4> QED BY <4>2, <4>3
    <3>5. Len(b) = size - gone
      BY <1>1, <2>1, <2>2, <3>1, <3>2
    <3> HIDE DEF b, size
    <3>6. r = b
      BY <3>2, <3>3, <3>4, <3>5, SeqEqual
    <3> QED BY <3>1, <3>6 DEF b
  <2>7. /\ P \in Seq(AllUnits) /\ V \in Seq(AllUnits) /\ Q \in Seq(AllUnits) /\ R \in Seq(AllUnits)
        /\ C \in Seq(AllUnits) /\ Len(V) = v.len
    <3>1. V \in Seq(AllUnits) /\ Len(V) = v.len /\ R \in Seq(AllUnits)
      BY <2>1, <2>5, UnitsOfType
    <3>2. P \in Seq(AllUnits) /\ Q \in Seq(AllUnits)
      BY <2>1, <2>2, UnitsProperties
    <3>3. C \in Seq(AllUnits)
      <4>1. \A i \in 1 .. cut : V[i] \in AllUnits
        <5> HIDE DEF V, cut, v
        <5> QED BY <2>4, <3>1, ElementOfSeq
      <4>2. cut \in Int
        BY <2>4
      <4> HIDE DEF V, cut
      <4> QED BY <4>1, <4>2, SubSeqProperties
    <3> QED BY <3>1, <3>2, <3>3
  <2>8. Units(l) = P \o (V \o Q)
    <3> DEFINE one == <<v>>
               rest == one \o post
    <3>1. one \in Seq(Vecs) /\ rest \in Seq(Vecs) /\ Units(one) = V
      <4>1. one \in Seq(Vecs) /\ Units(one) = V
        BY <2>1, <2>3, UnitsProperties
      <4> HIDE DEF one, post
      <4> QED BY <2>2, <4>1, ConcatProperties
    <3>2. \A k, m \in Seq(Vecs) : Units(k \o m) = Units(k) \o Units(m)
      BY UnitsProperties
    <3>3. l = pre \o rest
      BY <2>3
    <3> HIDE DEF one, V, pre, post
    <3>4. Units(rest) = V \o Q
      BY <2>2, <3>1, <3>2
    <3> HIDE DEF rest
    <3>5. Units(pre \o rest) = P \o Units(rest)
      BY <2>1, <3>1, <3>2
    <3> QED BY <3>3, <3>4, <3>5
  <2>9. Units(r) = R \o Q
    <3> DEFINE one == <<w>>
    <3>1. one \in Seq(Vecs) /\ Units(one) = R
      BY <2>5, <2>6, UnitsProperties
    <3>2. r = one \o post
      BY <2>6
    <3>3. \A k, m \in Seq(Vecs) : Units(k \o m) = Units(k) \o Units(m)
      BY UnitsProperties
    <3> HIDE DEF one, R, post
    <3>4. Units(one \o post) = Units(one) \o Units(post)
      BY <2>2, <3>1, <3>3
    <3> QED BY <3>1, <3>2, <3>4
  <2>10. SubSeq(Units(l), 1, n) = P \o C
    <3> HIDE DEF P, V, Q, cut, v
    <3>1. V \o Q \in Seq(AllUnits) /\ Len(V \o Q) = Len(V) + Len(Q) /\ Len(V) \in Nat /\ Len(Q) \in Nat
      BY <2>7, ConcatProperties, LenProperties
    <3> DEFINE t == V \o Q
    <3>2. cut \in 0 .. Len(t)
      BY <2>4, <2>7, <3>1
    <3>3. SubSeq(P \o t, 1, Len(P) + cut) = P \o SubSeq(t, 1, cut)
      <4>1. t \in Seq(AllUnits)
        BY <3>1
      <4> HIDE DEF t
      <4> QED BY <2>7, <3>2, <4>1, FrontOfTwo
    <3>4. SubSeq(t, 1, cut) = SubSeq(V, 1, cut)
      <4>1. CASE cut = 0
        <5>1. SubSeq(t, 1, 0) = <<>> /\ SubSeq(V, 1, 0) = <<>>
          BY SubSeqEmpty
        <5> QED BY <4>1, <5>1
      <4>2. CASE cut # 0
        <5>1. 1 \in 1 .. Len(V) /\ cut \in 1 .. Len(V)
          BY <2>4, <2>7, <4>2
        <5> QED BY <2>7, <5>1, SubSeqOfConcat1
      <4> QED BY <4>1, <4>2
    <3> HIDE DEF t
    <3> QED BY <2>4, <2>8, <3>3, <3>4 DEF t
  <2>11. (P \o C) \o (R \o Q) = P \o (V \o Q)
    <3>1. C \o R = V
      BY <2>5
    <3> HIDE DEF P, V, Q, R, C
    <3>2. Glued(P, C, R, Q)
      BY <2>7, JoinCut
    <3> QED BY Zenon, <3>1, <3>2 DEF Glued
  <2>12. r \in Seq(Vecs)
    <3> DEFINE one == <<w>>
    <3>1. one \in Seq(Vecs) /\ r = one \o post
      BY <2>6
    <3> HIDE DEF one, post
    <3> QED BY <2>2, <3>1, ConcatProperties
  <2> HIDE DEF P, V, Q, R, C
  <2> QED BY <2>8, <2>9, <2>10, <2>11, <2>12 DEF r
<1> QED BY <1>4, <1>6, <1>7

-----------------------------------------------------------------------------
(* What the socket took and what is queued account for what is due.          *)

\* A buffer no part of which is written, with none of its bytes stray.
Fresh == [msg : Buffers, base : {0}, len : 1 .. Width - 2]
Accounts(w, l, d) == NoStrays(w \o Units(l)) = d

LEMMA FreshIsVec ==
  /\ Fresh \subseteq Vecs
  /\ \A l \in Seq(Fresh) : l \in Seq(Vecs)
  /\ Width \in Nat
<1>1. Width \in Nat
  BY SizesAssumption
<1>2. Fresh \subseteq Vecs
  BY <1>1 DEF Fresh, Vecs
<1> QED BY <1>1, <1>2, SeqMonotonic

LEMMA FreshUnits == ASSUME NEW l0 \in Seq(Fresh) PROVE NoStrays(Units(l0)) = Units(l0)
<1> DEFINE T == {l \in Seq(Fresh) : NoStrays(Units(l)) = Units(l)}
<1>1. <<>> \in T
  BY EmptySeq, UnitsProperties, NoStraysProperties
<1>2. ASSUME NEW l \in Seq(Fresh), NEW v \in Fresh, l \in T PROVE Append(l, v) \in T
  <2> DEFINE u   == Units(l)
             x   == UnitsOf(v)
             one == <<v>>
  <2>1. l \in Seq(Vecs) /\ v \in Vecs /\ Width \in Nat /\ one \in Seq(Vecs)
    BY FreshIsVec
  <2>2. u \in Seq(AllUnits) /\ x \in Seq(AllUnits) /\ Len(x) = v.len
    BY <2>1, UnitsProperties, UnitsOfType
  <2>3. NoStrays(x) = x
    <3>1. ASSUME NEW i \in 1 .. v.len PROVE ~IsStray(x[i])
      <4>1. v.base = 0 /\ v.len \in 1 .. Width - 2
        BY DEF Fresh
      <4>2. x[i] = <<v.msg, (v.base + i - 1) % Width>>
        BY DEF UnitsOf
      <4>3. (v.base + i - 1) % Width = i - 1 /\ i - 1 # Width - 1
        <5>1. i - 1 \in 0 .. Width - 2 /\ v.base + i - 1 = i - 1
          BY <2>1, <4>1
        <5>2. \A j \in 0 .. Width - 2 : j % Width = j /\ j # Width - 1
          BY <2>1
        <5> QED BY <5>1, <5>2
      <4> HIDE DEF x
      <4> QED BY <4>2, <4>3 DEF IsStray
    <3> HIDE DEF x
    <3> QED BY <2>2, <3>1, NoneStray
  <2>4. Units(Append(l, v)) = u \o x
    <3>1. Append(l, v) = l \o one
      BY <2>1, AppendIsConcat
    <3>2. Units(one) = x
      BY <2>1, UnitsProperties
    <3> HIDE DEF one, x
    <3>3. Units(l \o one) = Units(l) \o Units(one)
      BY <2>1, UnitsProperties
    <3> QED BY Zenon, <3>1, <3>2, <3>3
  <2>5. NoStrays(u) = u
    BY <1>2
  <2>6. Append(l, v) \in Seq(Fresh)
    BY AppendProperties
  <2> HIDE DEF u, x
  <2>7. NoStrays(u \o x) = NoStrays(u) \o NoStrays(x)
    BY <2>2, NoStraysProperties
  <2> QED BY <2>3, <2>4, <2>5, <2>6, <2>7
<1>3. Seq(Fresh) \subseteq T
  <2> HIDE DEF T
  <2> QED BY <1>1, <1>2, EverySequence
<1> QED BY <1>3

\* The write that fails queues the byte in front of the buffer and the buffer.
LEMMA FailedUnits ==
  ASSUME NEW v \in Fresh
  PROVE  LET f == [msg |-> v.msg, base |-> Width - 1, len |-> v.len + 1]
         IN  f \in Vecs /\ NoStrays(UnitsOf(f)) = UnitsOf(v)
<1> DEFINE f == [msg |-> v.msg, base |-> Width - 1, len |-> v.len + 1]
           F == UnitsOf(f)
           x == UnitsOf(v)
           u == <<v.msg, Width - 1>>
           s == SubSeq(F, 1, 1)
<1>1. v.msg \in Buffers /\ v.base = 0 /\ v.len \in 1 .. Width - 2 /\ Width \in Nat /\ Width > 0
  BY FreshIsVec DEF Fresh
<1>2. f \in Vecs /\ v \in Vecs /\ v = [msg |-> v.msg, base |-> 0, len |-> v.len]
  BY <1>1 DEF Fresh, Vecs
<1>3. Behind(f, 1) = v
  <2>1. 1 \in 0 .. f.len - 1 /\ ((Width - 1) + 1) % Width = 0 /\ (v.len + 1) - 1 = v.len
    BY <1>1
  <2>2. Behind(f, 1) = [msg |-> f.msg, base |-> (f.base + 1) % Width, len |-> f.len - 1]
    <3> HIDE DEF f
    <3> QED BY <1>2, <2>1, BehindType
  <2> QED BY <1>2, <2>1, <2>2
<1>4. s \o x = F
  <2>1. 1 \in 0 .. f.len - 1
    BY <1>1
  <2>2. SubSeq(UnitsOf(f), 1, 1) \o UnitsOf(Behind(f, 1)) = UnitsOf(f)
    <3> HIDE DEF f
    <3> QED BY <1>2, <2>1, CutUnits
  <2> QED BY Zenon, <1>3, <2>2
<1>5. F \in Seq(AllUnits) /\ x \in Seq(AllUnits)
  <2> HIDE DEF f
  <2> QED BY <1>2, UnitsOfType
<1>6. u \in AllUnits /\ IsStray(u) /\ F[1] = u
  <2>1. (Width - 1 + 1 - 1) % Width = Width - 1 /\ Width - 1 \in 0 .. Width - 1 /\ 1 \in 1 .. v.len + 1
    BY <1>1
  <2> QED BY <1>1, <2>1 DEF AllUnits, IsStray, UnitsOf
<1>7. s = Append(<<>>, u)
  <2>1. \A i \in 1 .. 1 : F[i] \in AllUnits
    BY <1>6
  <2>2. s \in Seq(AllUnits) /\ Len(s) = 1 /\ s[1] = u
    <3>1. s \in Seq(AllUnits) /\ Len(s) = 1 - 1 + 1 /\ \A i \in 1 .. 1 - 1 + 1 : s[i] = F[1 + i - 1]
      <4> HIDE DEF F
      <4> QED BY <2>1, SubSeqProperties
    <3> HIDE DEF s, F, u
    <3> QED BY <1>6, <3>1
  <2> HIDE DEF s, u
  <2> QED BY <2>2
<1>8. NoStrays(s) = <<>> /\ s \in Seq(AllUnits)
  <2>1. <<>> \in Seq(AllUnits)
    BY EmptySeq
  <2> HIDE DEF u, s
  <2> QED BY <1>6, <1>7, <2>1, NoStraysProperties, AppendProperties
<1>9. NoStrays(x) = x
  <2>1. <<v>> \in Seq(Fresh)
    OBVIOUS
  <2>2. Units(<<v>>) = x
    BY <1>2, UnitsProperties
  <2> QED BY <2>1, <2>2, FreshUnits
<1> HIDE DEF s, x, F
<1>10. NoStrays(s \o x) = NoStrays(s) \o NoStrays(x)
  BY <1>5, <1>8, NoStraysProperties
<1>11. <<>> \o x = x
  BY <1>5, ConcatEmptySeq
<1>12. NoStrays(F) = x
  BY Zenon, <1>4, <1>8, <1>9, <1>10, <1>11
<1> QED BY <1>2, <1>12 DEF F, x

\* Buffers that are handed over come behind what is queued.
LEMMA QueuedAccounts ==
  ASSUME NEW w \in Seq(AllUnits), NEW l \in Seq(Vecs), NEW d, Accounts(w, l, d), NEW k \in Seq(Fresh)
  PROVE  Accounts(w, l \o k, d \o Units(k))
<1> DEFINE u == Units(l)
           x == Units(k)
<1>1. k \in Seq(Vecs)
  BY FreshIsVec
<1>2. u \in Seq(AllUnits) /\ x \in Seq(AllUnits) /\ Units(l \o k) = u \o x
  BY <1>1, UnitsProperties
<1>3. NoStrays(x) = x
  BY FreshUnits
<1>4. NoStrays(w \o u) = d
  BY DEF Accounts
<1> HIDE DEF u, x
<1> DEFINE wu == w \o u
<1>5. wu \in Seq(AllUnits) /\ wu \o x = w \o (u \o x)
  BY <1>2, JoinType, JoinThree
<1> HIDE DEF wu
<1>6. NoStrays(wu \o x) = NoStrays(wu) \o NoStrays(x)
  BY <1>2, <1>5, NoStraysProperties
<1>7. NoStrays(wu) = d
  BY <1>4 DEF wu
<1>8. NoStrays(w \o Units(l \o k)) = d \o x
  BY Zenon, <1>2, <1>3, <1>5, <1>6, <1>7
<1> QED BY Zenon, <1>8 DEF Accounts, x

\* What the socket takes leaves the list, and nothing else does.
LEMMA TakenAccounts ==
  ASSUME NEW w \in Seq(AllUnits), NEW l \in Seq(Vecs), NEW d, Accounts(w, l, d), NEW n \in 0 .. Total(l)
  PROVE  /\ w \o SubSeq(Units(l), 1, n) \in Seq(AllUnits)
         /\ Rest(l, n) \in Seq(Vecs)
         /\ Accounts(w \o SubSeq(Units(l), 1, n), Rest(l, n), d)
<1> DEFINE u == Units(l)
           s == SubSeq(u, 1, n)
           r == Rest(l, n)
           x == Units(r)
<1>1. r \in Seq(Vecs) /\ s \o x = u
  BY RestProperties
<1>2. u \in Seq(AllUnits) /\ x \in Seq(AllUnits)
  <2> HIDE DEF r
  <2> QED BY <1>1, UnitsProperties
<1>3. s \in Seq(AllUnits)
  <2>1. \A i \in 1 .. n : u[i] \in AllUnits
    <3> HIDE DEF u
    <3> QED BY <1>2, ElementOfSeq, LenProperties DEF Total, u
  <2>2. n \in Int
    BY <1>2, LenProperties DEF Total
  <2> HIDE DEF u
  <2> QED BY <2>1, <2>2, SubSeqProperties
<1>4. NoStrays(w \o u) = d
  BY DEF Accounts
<1> HIDE DEF u, s, x
<1>5. w \o s \in Seq(AllUnits) /\ (w \o s) \o x = w \o (s \o x)
  <2>1. AnyOrder(w, s, x)
    BY <1>2, <1>3, Associates
  <2>2. w \o s \in Seq(AllUnits)
    BY <1>3, JoinType
  <2> QED BY ONLY Zenon, <2>1, <2>2 DEF AnyOrder
<1>6. NoStrays((w \o s) \o x) = d
  BY Zenon, <1>1, <1>4, <1>5
<1>7. Accounts(w \o s, r, d)
  BY Zenon, <1>6 DEF Accounts, x
<1> QED BY <1>1, <1>5, <1>7 DEF s, u

\* A buffer written as far as it goes, with the rest of it queued.
LEMMA WrittenAccounts ==
  ASSUME NEW w \in Seq(AllUnits), NEW d, Accounts(w, <<>>, d), NEW v \in Fresh, NEW n \in 0 .. v.len
  PROVE  /\ w \o SubSeq(Units(<<v>>), 1, n) \in Seq(AllUnits)
         /\ n = v.len => Accounts(w \o SubSeq(Units(<<v>>), 1, n), <<>>, d \o Units(<<v>>))
         /\ n < v.len => LET rest == [msg |-> v.msg, base |-> n, len |-> v.len - n]
                         IN  /\ rest \in Vecs
                             /\ Accounts(w \o SubSeq(Units(<<v>>), 1, n), <<rest>>, d \o Units(<<v>>))
<1> DEFINE one == <<v>>
           u == Units(one)
           s == SubSeq(u, 1, n)
           e == d \o u
<1>1. v \in Vecs /\ one \in Seq(Fresh) /\ one \in Seq(Vecs) /\ u = UnitsOf(v) /\ v.base = 0
      /\ v.len \in 1 .. Width - 2 /\ Width \in Nat
  BY FreshIsVec, UnitsProperties DEF Fresh
<1>2. u \in Seq(AllUnits) /\ Len(u) = v.len
  <2> HIDE DEF u
  <2> QED BY <1>1, UnitsOfType
<1>3. s \in Seq(AllUnits) /\ w \o s \in Seq(AllUnits)
  <2>1. \A i \in 1 .. n : u[i] \in AllUnits
    <3> HIDE DEF u
    <3> QED BY <1>1, <1>2, ElementOfSeq
  <2>2. n \in Int
    BY <1>1
  <2>3. s \in Seq(AllUnits)
    <3> HIDE DEF u
    <3> QED BY <2>1, <2>2, SubSeqProperties
  <2> HIDE DEF s
  <2> QED BY <2>3, JoinType
<1>4. NoStrays(w \o u) = e
  <2>1. <<>> \in Seq(Vecs) /\ <<>> \o one = one
    BY EmptySeq, ConcatEmptySeq
  <2>2. Accounts(w, <<>> \o one, d \o Units(one))
    <3> HIDE DEF one
    <3> QED BY <1>1, <2>1, QueuedAccounts
  <2> QED BY Zenon, <2>1, <2>2 DEF Accounts
<1>5. ASSUME n = v.len PROVE Accounts(w \o s, <<>>, e)
  <2>1. s = u
    <3> HIDE DEF u
    <3> QED BY <1>2, <1>5, SubSeqFull
  <2>2. Units(<<>>) = <<>> /\ (w \o s) \o <<>> = w \o s
    <3> HIDE DEF s
    <3> QED BY <1>3, UnitsProperties, ConcatEmptySeq
  <2>3. NoStrays((w \o s) \o Units(<<>>)) = e
    BY Zenon, <1>4, <2>1, <2>2
  <2> QED BY Zenon, <2>3 DEF Accounts
<1>6. ASSUME n < v.len
      PROVE  LET rest == [msg |-> v.msg, base |-> n, len |-> v.len - n]
             IN  rest \in Vecs /\ Accounts(w \o s, <<rest>>, e)
  <2> DEFINE rest == [msg |-> v.msg, base |-> n, len |-> v.len - n]
             list == <<rest>>
             x == UnitsOf(rest)
  <2>1. n \in 0 .. v.len - 1 /\ (v.base + n) % Width = n
    BY <1>1, <1>6
  <2>2. Behind(v, n) = rest /\ rest \in Vecs
    BY <1>1, <2>1, BehindType
  <2>3. s \o x = u
    <3>1. SubSeq(UnitsOf(v), 1, n) \o UnitsOf(Behind(v, n)) = UnitsOf(v)
      BY <1>1, <2>1, CutUnits
    <3> HIDE DEF u, rest
    <3> QED BY Zenon, <1>1, <2>2, <3>1
  <2>4. x \in Seq(AllUnits) /\ Units(list) = x
    <3> HIDE DEF rest
    <3> QED BY <2>2, UnitsOfType, UnitsProperties
  <2> HIDE DEF x, s, u, rest, list
  <2>5. (w \o s) \o x = w \o (s \o x)
    BY <1>3, <2>4, JoinThree
  <2>6. NoStrays((w \o s) \o Units(list)) = e
    BY Zenon, <1>4, <2>3, <2>4, <2>5
  <2> QED BY Zenon, <2>2, <2>6 DEF Accounts, rest, list
<1> HIDE DEF s, e
<1> QED BY <1>3, <1>5, <1>6 DEF s, e

\* A buffer whose write failed: the size is taken for negative, as it were.
LEMMA FailedAccounts ==
  ASSUME NEW w \in Seq(AllUnits), NEW d \in Seq(AllUnits), Accounts(w, <<>>, d), NEW v \in Fresh
  PROVE  LET f == [msg |-> v.msg, base |-> Width - 1, len |-> v.len + 1]
         IN  f \in Vecs /\ Accounts(w, <<f>>, d \o Units(<<v>>))
<1> DEFINE f    == [msg |-> v.msg, base |-> Width - 1, len |-> v.len + 1]
           list == <<f>>
           x    == UnitsOf(f)
           y    == UnitsOf(v)
<1>1. f \in Vecs /\ NoStrays(x) = y /\ v \in Vecs
  BY FailedUnits, FreshIsVec
<1>2. x \in Seq(AllUnits) /\ y \in Seq(AllUnits) /\ Units(list) = x /\ Units(<<v>>) = y
  <2> HIDE DEF f
  <2> QED BY <1>1, UnitsOfType, UnitsProperties
<1>3. NoStrays(w) = d
  <2>1. Units(<<>>) = <<>> /\ w \o <<>> = w
    BY UnitsProperties, ConcatEmptySeq
  <2>2. NoStrays(w \o Units(<<>>)) = d
    BY DEF Accounts
  <2> QED BY Zenon, <2>1, <2>2
<1> HIDE DEF list, x, y
<1>4. NoStrays(w \o x) = NoStrays(w) \o NoStrays(x)
  BY <1>2, NoStraysProperties
<1>5. NoStrays(w \o Units(list)) = d \o Units(<<v>>)
  BY Zenon, <1>1, <1>2, <1>3, <1>4
<1>6. Accounts(w, list, d \o Units(<<v>>))
  BY Zenon, <1>5 DEF Accounts
<1> QED BY <1>1, <1>6 DEF list

-----------------------------------------------------------------------------
(* Where the loop's thread and the socket are.                              *)

Flags ==
  /\ closed \in BOOLEAN /\ writeOn \in BOOLEAN /\ ready \in BOOLEAN
  /\ fin \in BOOLEAN /\ reset \in BOOLEAN /\ sockErr \in BOOLEAN /\ missed \in BOOLEAN

Mails == Seq([send : BOOLEAN, msg : Messages])

\* The states of the threads; what was closed is off the ready list for good.
Control ==
  /\ phase \in {"idle", "callback", "read", "write", "killed"} /\ ret \in {"idle", "read"}
  /\ Flags
  /\ inq \in Nat /\ chunks \in Nat
  /\ status \in {"Accepted", "Init", "Connecting", "Connected", "DisConnected"}
  /\ peer \in {"none", "pending", "up"}
  /\ mail \in Mails
  /\ phase = "write" => ~closed
  /\ closed => ~ready /\ status \in {"Accepted", "DisConnected"}

\* What Deliver does to the thread and the socket.
Delivered(back) ==
  /\ phase' \in {back, "callback", "killed"} /\ phase' # "write"
  /\ ret' = ret \/ (ret' = back /\ back = "idle")
  /\ closed' = closed /\ (closed => ready' = ready) /\ (ready => ready')
  /\ ret' # ret => phase' = "callback"
  /\ writeOn' \in BOOLEAN /\ ready' \in BOOLEAN /\ sockErr' \in BOOLEAN

LEMMA EnableType ==
  ASSUME Control, NEW on \in BOOLEAN, EnableWriting(on)
  PROVE  writeOn' \in BOOLEAN /\ ready' \in BOOLEAN /\ (ready => ready')
BY DEF EnableWriting, Control, Flags

LEMMA DeliverControl ==
  ASSUME Control, NEW m, NEW back \in {"idle", "callback"}, Deliver(m, back)
  PROVE  Delivered(back)
<1>1. writeOn \in BOOLEAN /\ ready \in BOOLEAN /\ sockErr \in BOOLEAN
  BY DEF Control, Flags
<1>2. EnableWriting(TRUE) => writeOn' \in BOOLEAN /\ ready' \in BOOLEAN /\ (ready => ready')
  BY EnableType
<1>3. ASSUME SendListInLoop(m, back) PROVE Delivered(back)
  BY <1>1, <1>2, <1>3 DEF SendListInLoop, Delivered
<1>4. ASSUME SendInLoop(m, back) PROVE Delivered(back)
  BY <1>1, <1>2, <1>4 DEF SendInLoop, Delivered, WriteComplete
<1> QED BY <1>3, <1>4 DEF Deliver

LEMMA ControlInit == ClientInit => Control
<1> SUFFICES ASSUME ClientInit PROVE Control
  OBVIOUS
<1>1. Chunks \in Nat
  BY SizesAssumption
<1>2. <<>> \in Mails
  BY EmptySeq DEF Mails
<1> QED BY <1>1, <1>2 DEF ClientInit, Init, Control, Flags

LEMMA ControlStep == Control /\ [ClientNext]_clientVars => Control'
<1> SUFFICES ASSUME Control, [ClientNext]_clientVars PROVE Control'
  OBVIOUS
<1> USE DEF Control, Flags
<1>1. ASSUME ConnectInLoop PROVE Control'
  <2>1. /\ phase = "idle" /\ status = "Init"
        /\ UNCHANGED <<inq, chunks, fin, reset, sockErr, mail, missed>>
    BY <1>1 DEF ConnectInLoop, kernelIn, appVars
  <2>2. CASE UpdateConnectionStatus /\ peer' = "up" /\ writeOn' = TRUE /\ ready' = TRUE /\ UNCHANGED closed
    BY <2>1, <2>2 DEF UpdateConnectionStatus
  <2>3. CASE status' = "Connecting" /\ peer' = "pending" /\ writeOn' = TRUE /\ UNCHANGED <<phase, ret, ready, closed>>
    BY <2>1, <2>3
  <2>4. CASE status' = "DisConnected" /\ OnClose /\ UNCHANGED <<phase, ret, peer, writeOn>>
    BY <2>1, <2>4 DEF OnClose
  <2> QED BY <1>1, <2>2, <2>3, <2>4 DEF ConnectInLoop
<1>2. ASSUME PeerAnswers PROVE Control'
  <2>1. /\ ~closed /\ ready' = TRUE
        /\ UNCHANGED <<phase, ret, closed, writeOn, inq, chunks, fin, mail, status, missed>>
    BY <1>2 DEF PeerAnswers, kernelIn, kernelOut, appVars
  <2>2. CASE peer' = "up" /\ UNCHANGED <<reset, sockErr>>
    BY <2>1, <2>2
  <2>3. CASE peer' = "none" /\ reset' = TRUE /\ sockErr' = TRUE
    BY <2>1, <2>3
  <2> QED BY <1>2, <2>2, <2>3 DEF PeerAnswers
<1>3. ASSUME FirstReport PROVE Control'
  <2>1. missed' \in BOOLEAN
    BY <1>3 DEF FirstReport
  <2>2. /\ status' = "Connected" /\ phase' = "callback" /\ ret' = "idle" /\ ready' = FALSE /\ ~closed
        /\ UNCHANGED <<closed, writeOn, inq, chunks, fin, reset, sockErr, mail, peer>>
    BY <1>3 DEF FirstReport, UpdateConnectionStatus, kernelIn, appVars
  <2> QED BY <2>1, <2>2
<1>4. ASSUME LoopDispatch PROVE Control'
  <2>1. /\ phase = "idle" /\ ready /\ UNCHANGED <<ret, writeOn, inq, chunks, fin, reset, mail, peer>>
        /\ status' = IF closed' /\ status # "Accepted" THEN "DisConnected" ELSE status
        /\ missed' = (missed /\ phase' # "read")
    BY <1>4 DEF LoopDispatch, Base, Dispatch, kernelIn, appVars
  <2>2. CASE ready' = FALSE /\ UNCHANGED <<phase, closed, sockErr>>
    BY <2>1, <2>2
  <2>3. CASE OnClose /\ sockErr' = FALSE /\ UNCHANGED phase
    BY <2>1, <2>3 DEF OnClose
  <2>4. CASE phase' \in {"read", "write"} /\ ready' = FALSE /\ UNCHANGED <<closed, sockErr>>
    BY <2>1, <2>4
  <2> QED BY <1>4, <2>2, <2>3, <2>4 DEF LoopDispatch, Base, Dispatch
<1>5. ASSUME Base(PeerSends) PROVE Control'
  BY <1>5 DEF Base, PeerSends, kernelIn, kernelOut, appVars
<1>6. ASSUME Base(PeerCloses) PROVE Control'
  BY <1>6 DEF Base, PeerCloses, kernelIn, kernelOut, appVars
<1>7. ASSUME Base(PeerResets) PROVE Control'
  BY <1>7 DEF Base, PeerResets, kernelIn, kernelOut, appVars
<1>8. ASSUME Base(PeerAcks) PROVE Control'
  BY <1>8 DEF Base, PeerAcks, kernelIn, kernelOut, appVars
<1>9. ASSUME Base(CallbackClose) PROVE Control'
  BY <1>9 DEF Base, CallbackClose, OnClose, kernelIn, kernelOut, appVars
<1>10. ASSUME Base(OnTimeout) PROVE Control'
  BY <1>10 DEF Base, OnTimeout, OnClose, kernelIn, kernelOut, appVars
<1>11. ASSUME NEW m \in Messages, Send(m) PROVE Control'
  <2>1. Append(mail, [send |-> TRUE, msg |-> m]) \in Mails
    BY AppendProperties DEF Mails
  <2>2. CASE Base(Post(m))
    BY <2>1, <2>2 DEF Base, Post, kernelIn
  <2>3. CASE UNCHANGED <<phase, ret, closed, writeOn, mail, ready, kernelIn, sockErr, status, peer, missed>>
    BY <2>3 DEF kernelIn
  <2> QED BY <1>11, <2>2, <2>3 DEF Send
<1>12. ASSUME NEW m \in Messages, Base(PostClose(m)) PROVE Control'
  <2>1. Append(mail, [send |-> FALSE, msg |-> m]) \in Mails
    BY AppendProperties DEF Mails
  <2> QED BY <1>12, <2>1 DEF Base, PostClose, kernelIn, kernelOut, appVars
<1>13. ASSUME NEW m \in Messages, Base(CallbackSend(m)) PROVE Control'
  <2>1. Delivered("callback")
    BY <1>13, DeliverControl DEF Base, CallbackSend
  <2> QED BY <1>13, <2>1 DEF Base, CallbackSend, Delivered, kernelIn
<1>14. ASSUME Base(RunTask) PROVE Control'
  <2>1. Tail(mail) \in Mails
    BY <1>14, HeadTailProperties DEF Base, RunTask, Mails
  <2>2. CASE Deliver(Head(mail).msg, "idle")
    <3>1. Delivered("idle")
      BY <2>2, DeliverControl
    <3> QED BY <1>14, <2>1, <3>1 DEF Base, RunTask, Delivered, kernelIn
  <2>3. CASE OnClose /\ UNCHANGED <<phase, ret, ioVec, writeOn, sockErr, kernelOut, due, completed>>
    BY <1>14, <2>1, <2>3 DEF Base, RunTask, OnClose, kernelIn
  <2> QED BY <1>14, <2>2, <2>3 DEF Base, RunTask
<1>15. ASSUME Base(CallbackDone) PROVE Control'
  BY <1>15 DEF Base, CallbackDone, kernelIn, kernelOut, appVars
<1>16. ASSUME Base(OnRead) PROVE Control'
  <2>1. /\ phase = "read" /\ UNCHANGED <<writeOn, chunks, fin, reset, mail, peer>>
        /\ status' = IF closed' /\ status # "Accepted" THEN "DisConnected" ELSE status
        /\ missed' = (missed /\ phase' # "read")
    BY <1>16 DEF Base, OnRead, appVars
  <2>2. CASE inq > 0 /\ inq' = inq - 1 /\ phase' = "callback" /\ ret' = "read" /\ UNCHANGED <<closed, ready, sockErr>>
    BY <2>1, <2>2
  <2>3. CASE OnClose /\ sockErr' = FALSE /\ phase' = "idle" /\ UNCHANGED <<inq, ret>>
    BY <2>1, <2>3 DEF OnClose
  <2>4. CASE phase' = "idle" /\ UNCHANGED <<closed, ready, inq, ret, sockErr>>
    BY <2>1, <2>4
  <2> QED BY <1>16, <2>2, <2>3, <2>4 DEF Base, OnRead
<1>17. ASSUME Base(OnWrite) PROVE Control'
  <2>1. EnableWriting(FALSE) => writeOn' \in BOOLEAN /\ ready' \in BOOLEAN /\ (ready => ready')
    BY EnableType
  <2>2. /\ phase = "write" /\ ~closed /\ UNCHANGED <<inq, chunks, fin, reset, mail, peer>>
        /\ status' = IF closed' /\ status # "Accepted" THEN "DisConnected" ELSE status
        /\ missed' = (missed /\ phase' # "read")
    BY <1>17 DEF Base, OnWrite, kernelIn, appVars
  <2>3. CASE EnableWriting(FALSE) /\ WriteComplete("idle") /\ UNCHANGED <<closed, sockErr>>
    BY <2>1, <2>2, <2>3 DEF WriteComplete
  <2>4. CASE phase' \in {phase, "idle", "killed"} /\ UNCHANGED <<ret, closed, writeOn, ready, sockErr>>
    BY <2>2, <2>4
  <2>5. CASE OnClose /\ phase' = "idle" /\ sockErr' = FALSE /\ UNCHANGED <<ret, writeOn>>
    BY <2>2, <2>5 DEF OnClose
  <2> QED BY <1>17, <2>3, <2>4, <2>5 DEF Base, OnWrite
<1>18. ASSUME UNCHANGED clientVars PROVE Control'
  BY <1>18 DEF clientVars, vars
<1> QED
  BY <1>1, <1>2, <1>3, <1>4, <1>5, <1>6, <1>7, <1>8, <1>9, <1>10, <1>11, <1>12, <1>13, <1>14, <1>15,
     <1>16, <1>17, <1>18 DEF ClientNext, Base, Peer

\* The thread of the loop, what is closed and what has been posted are always
\* as the types say, and what is closed is off epoll's ready list for good.
THEOREM ClientControl == ClientSpec => []Control
BY ControlInit, ControlStep, PTL DEF ClientSpec

-----------------------------------------------------------------------------
(* Input is known.                                                          *)

\* The loop's thread will ask epoll again before it reads.
Asking == phase \in {"idle", "write"} \/ (phase = "callback" /\ ret = "idle")

\* InputKnown holds on through the callbacks that do not return into OnRead.
Told == missed \/ peer # "up" \/ ((Asking /\ ~closed /\ Input) => ready)

LEMMA ToldStep == Control /\ Told /\ [ClientNext]_clientVars => Told'
<1> SUFFICES ASSUME Control, Told, [ClientNext]_clientVars PROVE Told'
  OBVIOUS
<1> USE DEF Told, Asking, Input
<1>c. ret \in {"idle", "read"} /\ Flags /\ inq \in Nat
  BY DEF Control
<1>1. ASSUME ConnectInLoop PROVE Told'
  <2>1. UNCHANGED <<inq, fin, reset, missed>>
    BY <1>1 DEF ConnectInLoop, kernelIn
  <2> QED BY <1>1, <2>1 DEF ConnectInLoop, OnClose
<1>2. ASSUME PeerAnswers PROVE Told'
  BY <1>2 DEF PeerAnswers
<1>3. ASSUME FirstReport PROVE Told'
  <2>1. ("IN" \in Poll) <=> Input
    BY DEF Poll
  <2> QED BY <1>3, <2>1 DEF FirstReport, kernelIn
<1>4. ASSUME LoopDispatch PROVE Told'
  <2>1. Dispatch /\ UNCHANGED peer /\ missed' = (missed /\ phase' # "read")
    BY <1>4 DEF LoopDispatch, Base
  <2>2. ("IN" \in Poll) <=> Input
    BY DEF Poll
  <2>3. UNCHANGED <<ret, inq, fin, reset>> /\ phase = "idle"
    BY <2>1 DEF Dispatch, kernelIn
  <2>4. CASE Poll = {} /\ UNCHANGED <<phase, closed>>
    BY <2>1, <2>2, <2>3, <2>4
  <2>5. CASE OnClose \/ phase' = "read"
    BY <2>1, <2>3, <2>5 DEF OnClose
  <2>6. CASE Poll = {"OUT"} /\ phase' = "write" /\ UNCHANGED closed
    BY <2>1, <2>2, <2>3, <2>6
  <2> QED BY <2>1, <2>4, <2>5, <2>6 DEF Dispatch
<1>5. ASSUME Base(PeerSends) \/ Base(PeerCloses) \/ Base(PeerResets) PROVE Told'
  BY <1>5 DEF Base, PeerSends, PeerCloses, PeerResets
<1>6. ASSUME Base(PeerAcks) \/ (\E m \in Messages : Base(PostClose(m)) \/ Base(Post(m))) PROVE Told'
  <2>1. /\ UNCHANGED <<phase, ret, closed, inq, fin, reset, peer>> /\ (ready => ready')
        /\ missed' = (missed /\ phase' # "read")
    BY <1>6 DEF Base, PeerAcks, PostClose, Post, kernelIn
  <2> QED BY <2>1
<1>7. ASSUME Base(CallbackClose) \/ Base(OnTimeout) PROVE Told'
  BY <1>7 DEF Base, CallbackClose, OnTimeout, OnClose
<1>8. ASSUME NEW m \in Messages, Send(m) PROVE Told'
  <2>1. CASE Base(Post(m))
    BY <1>6, <2>1
  <2>2. CASE UNCHANGED <<phase, ret, closed, ready, kernelIn, peer, missed>>
    BY <2>2 DEF kernelIn
  <2> QED BY <1>8, <2>1, <2>2 DEF Send
<1>9. ASSUME NEW m \in Messages, Base(CallbackSend(m)) PROVE Told'
  <2>1. Delivered("callback") /\ phase = "callback" /\ UNCHANGED <<inq, fin, reset, peer>>
        /\ missed' = (missed /\ phase' # "read")
    BY <1>9, DeliverControl DEF Base, CallbackSend, kernelIn
  <2> QED BY <2>1 DEF Delivered
<1>10. ASSUME Base(RunTask) PROVE Told'
  <2>1. phase = "idle" /\ UNCHANGED <<inq, fin, reset, peer>> /\ missed' = (missed /\ phase' # "read")
    BY <1>10 DEF Base, RunTask, kernelIn
  <2>2. CASE Deliver(Head(mail).msg, "idle")
    <3>1. Delivered("idle")
      BY <2>2, DeliverControl
    <3> QED BY <2>1, <3>1 DEF Delivered
  <2>3. CASE OnClose
    BY <2>1, <2>3 DEF OnClose
  <2> QED BY <1>10, <2>2, <2>3 DEF Base, RunTask
<1>11. ASSUME Base(CallbackDone) PROVE Told'
  <2>1. /\ phase = "callback" /\ phase' = ret /\ UNCHANGED <<closed, ready, inq, fin, reset, peer>>
        /\ missed' = (missed /\ phase' # "read")
    BY <1>11 DEF Base, CallbackDone, kernelIn
  <2> QED BY <1>c, <2>1
<1>12. ASSUME Base(OnRead) PROVE Told'
  <2>1. phase = "read" /\ UNCHANGED <<fin, reset, peer>> /\ missed' = (missed /\ phase' # "read")
    BY <1>12 DEF Base, OnRead
  <2>2. CASE (phase' = "callback" /\ ret' = "read") \/ OnClose
    BY <2>1, <2>2 DEF OnClose
  <2>3. CASE (closed \/ (inq = 0 /\ ~fin /\ ~reset)) /\ UNCHANGED <<closed, inq>>
    BY <2>1, <2>3
  <2> QED BY <1>12, <2>2, <2>3 DEF Base, OnRead
<1>13. ASSUME Base(OnWrite) PROVE Told'
  <2>1. phase = "write" /\ UNCHANGED <<inq, fin, reset, peer>> /\ missed' = (missed /\ phase' # "read")
    BY <1>13 DEF Base, OnWrite, kernelIn
  <2>2. EnableWriting(FALSE) => (ready => ready')
    BY EnableType
  <2>3. CASE UNCHANGED closed /\ (ready => ready')
    BY <2>1, <2>3
  <2>4. CASE OnClose
    BY <2>1, <2>4 DEF OnClose
  <2> QED BY <1>13, <2>2, <2>3, <2>4 DEF Base, OnWrite
<1>14. ASSUME UNCHANGED clientVars PROVE Told'
  BY <1>14 DEF clientVars, vars
<1> QED
  BY <1>1, <1>2, <1>3, <1>4, <1>5, <1>6, <1>7, <1>8, <1>9, <1>10, <1>11, <1>12, <1>13, <1>14
     DEF ClientNext, Base, Peer

\* Unread input of a connection that is up is on the ready list whenever the
\* loop is about to ask for it, but for what the report that ended Connecting had.
THEOREM ClientInputKnown == ClientSpec => []InputKnown
<1>1. ClientInit => Told
  BY DEF ClientInit, Init, Told, Input
<1>2. Told => InputKnown
  BY DEF Told, Asking, Input, InputKnown, InputReported
<1> QED BY <1>1, <1>2, ToldStep, ClientControl, PTL DEF ClientSpec

-----------------------------------------------------------------------------
(* The stream is in order.                                                  *)

StreamTypeOK ==
  /\ ioVec \in Seq(Vecs) /\ wire \in Seq(AllUnits) /\ due \in Seq(AllUnits)
  /\ unacked \in 0 .. SndBuf

Stream == StreamTypeOK /\ (~closed => Accounts(wire, ioVec, due))

\* The buffer of a message of one node, and the buffers of a list.
Whole(m) == [msg |-> m, base |-> 0, len |-> Nodes[m][1]]
Listed(m) == [i \in DOMAIN Nodes[m] |-> [msg |-> <<m, i>>, base |-> 0, len |-> Nodes[m][i]]]

LEMMA MessageBuffers ==
  ASSUME NEW m \in Messages
  PROVE  Whole(m) \in Fresh /\ Listed(m) \in Seq(Fresh) /\ Nodes[m][1] \in 1 .. Width - 2
<1> DEFINE l == Nodes[m]
<1>1. l \in Seq(Nat \ {0}) /\ l # <<>>
  BY MessagesAssumption
<1>2. DOMAIN l = 1 .. Len(l) /\ Len(l) \in Nat \ {0}
  BY <1>1, LenProperties, EmptySeq
<1>3. ASSUME NEW i \in DOMAIN l PROVE l[i] \in 1 .. Width - 2
  <2>1. l[i] \in Nat \ {0}
    BY <1>1, <1>2, ElementOfSeq
  <2>2. l[i] + 1 < Width /\ Width \in Nat
    BY SizesAssumption
  <2> QED BY <2>1, <2>2
<1>4. 1 \in DOMAIN l
  BY <1>2
<1>5. Whole(m) \in Fresh
  BY <1>3, <1>4 DEF Whole, Fresh, Buffers
<1>6. \A i \in 1 .. Len(l) : [msg |-> <<m, i>>, base |-> 0, len |-> l[i]] \in Fresh
  BY <1>2, <1>3 DEF Fresh, Buffers
<1>7. Listed(m) = [i \in 1 .. Len(l) |-> [msg |-> <<m, i>>, base |-> 0, len |-> l[i]]]
  BY <1>2 DEF Listed
<1>8. Listed(m) \in Seq(Fresh)
  <2> HIDE DEF l
  <2> QED BY <1>2, <1>6, <1>7, IsASeq
<1> QED BY <1>3, <1>4, <1>5, <1>8

\* What is handed over while something is queued, or as a list, is queued.
LEMMA QueueStream ==
  ASSUME Stream, ~closed, NEW k \in Seq(Fresh), due' = due \o Units(k), ioVec' = ioVec \o k,
         UNCHANGED <<closed, kernelOut>>
  PROVE  Stream'
<1>1. ioVec \in Seq(Vecs) /\ wire \in Seq(AllUnits) /\ due \in Seq(AllUnits) /\ unacked \in 0 .. SndBuf
  BY DEF Stream, StreamTypeOK
<1>2. k \in Seq(Vecs) /\ Units(k) \in Seq(AllUnits)
  BY FreshIsVec, UnitsProperties
<1>3. ioVec' \in Seq(Vecs)
  BY <1>1, <1>2, ConcatProperties
<1>4. due' \in Seq(AllUnits)
  BY <1>1, <1>2, JoinType
<1>5. Accounts(wire, ioVec \o k, due \o Units(k))
  BY <1>1, QueuedAccounts DEF Stream
<1>6. Accounts(wire, ioVec', due')
  BY Zenon, <1>5
<1>7. wire' = wire /\ unacked' = unacked
  BY DEF kernelOut
<1>8. (Accounts(wire, ioVec, due))'
  BY Zenon, <1>6, <1>7 DEF Accounts
<1> QED BY <1>1, <1>3, <1>4, <1>7, <1>8 DEF Stream, StreamTypeOK

\* SendInLoop of one buffer.
LEMMA SendStream ==
  ASSUME Stream, NEW m \in Messages, NEW back, SendInLoop(m, back)
  PROVE  Stream'
<1> DEFINE size == Nodes[m][1]
           v    == Whole(m)
           one  == <<v>>
           n    == WriteLen(size)
           left == (size - n) % Width
<1>1. v \in Fresh /\ size \in 1 .. Width - 2 /\ Width \in Nat /\ one \in Seq(Fresh)
      /\ v.msg = m /\ v.len = size
  BY MessageBuffers, FreshIsVec DEF Whole
<1>2. /\ ioVec \in Seq(Vecs) /\ wire \in Seq(AllUnits) /\ due \in Seq(AllUnits)
      /\ unacked \in 0 .. SndBuf /\ SndBuf \in Nat
  BY SizesAssumption DEF Stream, StreamTypeOK
<1>3. CASE UNCHANGED <<closed, ioVec, kernelOut, due>>
  BY <1>3 DEF Stream, StreamTypeOK, kernelOut
<1>4. CASE ~closed /\ ioVec # <<>> /\ due' = due \o Units(one) /\ ioVec' = ioVec \o one
           /\ UNCHANGED <<closed, kernelOut>>
  <2> HIDE DEF one
  <2> QED BY <1>1, <1>4, QueueStream
<1>5. CASE /\ ~closed /\ ioVec = <<>> /\ due' = due \o Units(one) /\ UNCHANGED closed
           /\ IF n = Width - 1 THEN UNCHANGED kernelOut ELSE Take(one, n)
           /\ IF left = 0 THEN UNCHANGED ioVec ELSE ioVec' = <<[msg |-> m, base |-> n, len |-> left]>>
  <2>1. Accounts(wire, <<>>, due)
    BY <1>5 DEF Stream
  <2>2. due' \in Seq(AllUnits)
    <3>1. Units(one) \in Seq(AllUnits)
      <4>1. one \in Seq(Vecs)
        BY <1>1, FreshIsVec
      <4> QED BY <4>1, UnitsProperties
    <3> HIDE DEF one
    <3> QED BY <1>2, <1>5, <3>1, JoinType
  <2>3. CASE n = Width - 1
    <3>1. left = size + 1
      <4>1. size - n = size + 1 - Width /\ size + 1 \in 0 .. Width - 1
        BY <1>1, <2>3
      <4>2. (size + 1 - Width) % Width = size + 1
        BY <1>1, <4>1
      <4> QED BY <4>1, <4>2
    <3> DEFINE f == [msg |-> v.msg, base |-> Width - 1, len |-> v.len + 1]
    <3>2. f \in Vecs /\ Accounts(wire, <<f>>, due \o Units(one))
      BY <1>1, <1>2, <2>1, FailedAccounts
    <3>3. ioVec' = <<f>>
      BY <1>1, <1>5, <2>3, <3>1
    <3>4. wire' = wire /\ unacked' = unacked /\ closed' = closed
      BY <1>5, <2>3 DEF kernelOut
    <3> HIDE DEF f
    <3>5. ioVec' \in Seq(Vecs)
      BY <3>2, <3>3
    <3>6. (Accounts(wire, ioVec, due))'
      BY Zenon, <1>5, <3>2, <3>3, <3>4 DEF Accounts
    <3> QED BY <1>2, <2>2, <3>4, <3>5, <3>6 DEF Stream, StreamTypeOK
  <2>4. CASE n # Width - 1
    <3>1. n \in 0 .. size /\ unacked + n \in 0 .. SndBuf
      <4>1. Free > 0 /\ n = IF size < Free THEN size ELSE Free
        BY <2>4 DEF WriteLen
      <4>2. size \in Nat /\ unacked \in 0 .. SndBuf /\ SndBuf \in Nat /\ Free = SndBuf - unacked
        BY <1>1, <1>2, SizesAssumption DEF Free
      <4> HIDE DEF n, size, Free
      <4> QED BY <4>1, <4>2
    <3>2. left = size - n
      BY <1>1, <3>1
    <3> DEFINE took == wire \o SubSeq(Units(one), 1, n)
               e    == due \o Units(one)
               rest == [msg |-> v.msg, base |-> n, len |-> v.len - n]
    <3>3. /\ took \in Seq(AllUnits)
          /\ n = v.len => Accounts(took, <<>>, e)
          /\ n < v.len => rest \in Vecs /\ Accounts(took, <<rest>>, e)
      <4> HIDE DEF size, n
      <4> QED BY <1>1, <1>2, <2>1, <3>1, WrittenAccounts
    <3>4. wire' = took /\ unacked' = unacked + n /\ due' = e /\ closed' = closed
      BY <1>5, <2>4 DEF Take
    <3>5. ioVec' = (IF n = size THEN <<>> ELSE <<rest>>)
      <4>1. left = 0 <=> n = size
        BY <1>1, <3>1, <3>2
      <4>2. n # size => rest = [msg |-> m, base |-> n, len |-> left]
        BY <1>1, <3>2
      <4> HIDE DEF left, n, size
      <4> QED BY <1>1, <1>5, <4>1, <4>2
    <3> HIDE DEF took, e, rest, n, size
    <3>6. ioVec' \in Seq(Vecs) /\ (Accounts(took, ioVec', e))
      <4>1. CASE n = size
        BY <1>1, <3>3, <3>5, <4>1, EmptySeq
      <4>2. CASE n # size
        <5>1. n < v.len
          BY <1>1, <3>1, <4>2
        <5> QED BY <3>3, <3>5, <4>2, <5>1
      <4> QED BY <4>1, <4>2
    <3>7. (Accounts(wire, ioVec, due))'
      BY Zenon, <3>4, <3>6 DEF Accounts
    <3> QED BY <2>2, <3>1, <3>3, <3>4, <3>6, <3>7 DEF Stream, StreamTypeOK
  <2> QED BY <2>3, <2>4
<1> QED BY <1>3, <1>4, <1>5 DEF SendInLoop, Whole, WriteComplete

LEMMA DeliverStream ==
  ASSUME Stream, NEW m \in Messages, NEW back, Deliver(m, back)
  PROVE  Stream'
<1>1. CASE SendInLoop(m, back)
  BY <1>1, SendStream
<1>2. CASE SendListInLoop(m, back)
  <2>1. CASE UNCHANGED <<closed, ioVec, kernelOut, due>>
    BY <2>1 DEF Stream, StreamTypeOK, kernelOut
  <2>2. CASE ~closed /\ due' = due \o Units(Listed(m)) /\ ioVec' = ioVec \o Listed(m) /\ UNCHANGED <<closed, kernelOut>>
    BY <2>2, MessageBuffers, QueueStream
  <2> QED BY <1>2, <2>1, <2>2 DEF SendListInLoop, Listed
<1> QED BY <1>1, <1>2 DEF Deliver

\* A round of OnWrite.
LEMMA WriteStream == ASSUME Stream, OnWrite PROVE Stream'
<1> DEFINE n == IF Total(ioVec) < Free THEN Total(ioVec) ELSE Free
<1>1. /\ ioVec \in Seq(Vecs) /\ wire \in Seq(AllUnits) /\ due \in Seq(AllUnits)
      /\ unacked \in 0 .. SndBuf /\ SndBuf \in Nat
  BY SizesAssumption DEF Stream, StreamTypeOK
<1>2. CASE UNCHANGED <<ioVec, kernelOut, due>> /\ (closed' = closed \/ OnClose)
  BY <1>2 DEF Stream, StreamTypeOK, kernelOut, OnClose
<1>3. CASE n > 0 /\ Take(ioVec, n) /\ ioVec' = Rest(ioVec, n) /\ due' = due /\ UNCHANGED closed
  <2>1. Total(ioVec) \in Nat
    BY <1>1, UnitsProperties, LenProperties DEF Total
  <2>2. n \in 0 .. Total(ioVec) /\ unacked + n \in 0 .. SndBuf
    BY <1>1, <1>3, <2>1 DEF Free
  <2>3. wire' = wire \o SubSeq(Units(ioVec), 1, n) /\ unacked' = unacked + n
    BY <1>3 DEF Take
  <2> HIDE DEF n
  <2>4. SubSeq(Units(ioVec), 1, n) \in Seq(AllUnits)
    <3>1. Units(ioVec) \in Seq(AllUnits)
      BY <1>1, UnitsProperties
    <3>2. \A i \in 1 .. n : Units(ioVec)[i] \in AllUnits
      BY <2>1, <2>2, <3>1, ElementOfSeq DEF Total
    <3> QED BY <2>1, <2>2, <3>2, SubSeqProperties
  <2> DEFINE s == SubSeq(Units(ioVec), 1, n)
             took == wire \o s
  <2>5. took \in Seq(AllUnits)
    <3> HIDE DEF s
    <3> QED BY <1>1, <2>4, JoinType DEF s
  <2>6. Rest(ioVec, n) \in Seq(Vecs)
    BY <1>1, <2>2, RestProperties
  <2>7. ~closed => Accounts(took, Rest(ioVec, n), due)
    BY <1>1, <2>2, TakenAccounts DEF Stream
  <2>8. wire' = took
    BY <2>3
  <2> HIDE DEF s, took
  <2>9. ~closed' => (Accounts(wire, ioVec, due))'
    BY Zenon, <1>3, <2>7, <2>8 DEF Accounts
  <2> QED BY <1>1, <1>3, <2>2, <2>3, <2>5, <2>6, <2>8, <2>9 DEF Stream, StreamTypeOK
<1> QED BY <1>2, <1>3 DEF OnWrite, EnableWriting, WriteComplete, kernelOut

LEMMA StreamStep == Control /\ Stream /\ [ClientNext]_clientVars => Stream'
<1> SUFFICES ASSUME Control, Stream, [ClientNext]_clientVars PROVE Stream'
  OBVIOUS
\* Whatever leaves the output alone and opens nothing.
<1>0. ASSUME UNCHANGED <<ioVec, wire, due>>, unacked' \in 0 .. SndBuf, closed' = closed \/ closed'
      PROVE  Stream'
  BY <1>0 DEF Stream, StreamTypeOK, Accounts
<1>a. unacked \in 0 .. SndBuf
  BY DEF Stream, StreamTypeOK
<1>1. CASE ConnectInLoop \/ PeerAnswers \/ FirstReport
  BY <1>0, <1>1, <1>a DEF ConnectInLoop, PeerAnswers, FirstReport, OnClose, kernelOut
<1>2. CASE LoopDispatch
  BY <1>0, <1>2, <1>a DEF LoopDispatch, Base, Dispatch, OnClose, kernelOut
<1>3. CASE Base(PeerSends) \/ Base(PeerCloses) \/ Base(PeerResets)
  BY <1>0, <1>3, <1>a DEF Base, PeerSends, PeerCloses, PeerResets, kernelOut
<1>4. CASE Base(PeerAcks)
  <2>1. unacked' \in 0 .. SndBuf
    BY <1>4, <1>a, SizesAssumption DEF Base, PeerAcks
  <2> QED BY <1>0, <1>4, <2>1 DEF Base, PeerAcks
<1>5. CASE Base(CallbackClose) \/ Base(OnTimeout)
  BY <1>0, <1>5, <1>a DEF Base, CallbackClose, OnTimeout, OnClose, kernelOut
<1>6. ASSUME NEW m \in Messages, Send(m) \/ Base(PostClose(m)) PROVE Stream'
  BY <1>0, <1>6, <1>a DEF Send, Base, Post, PostClose, kernelOut
<1>7. ASSUME NEW m \in Messages, Base(CallbackSend(m)) PROVE Stream'
  BY <1>7, DeliverStream DEF Base, CallbackSend
<1>8. CASE Base(RunTask)
  <2>1. CASE Deliver(Head(mail).msg, "idle")
    <3>1. Head(mail) \in [send : BOOLEAN, msg : Messages]
      BY <1>8, HeadTailProperties DEF Base, RunTask, Control, Mails
    <3>2. Head(mail).msg \in Messages
      BY <3>1
    <3> QED BY <2>1, <3>2, DeliverStream
  <2>2. CASE OnClose /\ UNCHANGED <<ioVec, kernelOut, due>>
    BY <1>0, <1>a, <2>2 DEF OnClose, kernelOut
  <2> QED BY <1>8, <2>1, <2>2 DEF Base, RunTask
<1>9. CASE Base(CallbackDone)
  BY <1>0, <1>9, <1>a DEF Base, CallbackDone, kernelOut
<1>10. CASE Base(OnRead)
  BY <1>0, <1>10, <1>a DEF Base, OnRead, OnClose, kernelOut
<1>11. CASE Base(OnWrite)
  BY <1>11, WriteStream DEF Base
<1>12. CASE UNCHANGED clientVars
  BY <1>0, <1>12, <1>a DEF clientVars, vars
<1> QED
  BY <1>1, <1>2, <1>3, <1>4, <1>5, <1>6, <1>7, <1>8, <1>9, <1>10, <1>11, <1>12 DEF ClientNext, Base, Peer

LEMMA StreamInit == ClientInit => Stream
<1> SUFFICES ASSUME ClientInit PROVE Stream
  OBVIOUS
<1>1. ioVec = <<>> /\ wire = <<>> /\ due = <<>> /\ unacked = 0
  BY DEF ClientInit, Init
<1>2. <<>> \in Seq(Vecs) /\ <<>> \in Seq(AllUnits) /\ 0 \in 0 .. SndBuf
  BY EmptySeq, SizesAssumption
<1>3. <<>> \o <<>> = <<>>
  BY <1>2, ConcatEmptySeq
<1>4. Accounts(<<>>, <<>>, <<>>)
  BY <1>3, UnitsProperties, NoStraysProperties DEF Accounts
<1> QED BY <1>1, <1>2, <1>4 DEF Stream, StreamTypeOK

\* Types of the output, and that nothing in it is lost, doubled or reordered.
THEOREM ClientStream == ClientSpec => []Stream
BY ClientControl, StreamInit, StreamStep, PTL DEF ClientSpec

\* What the socket took and then what is queued is what was handed over, but
\* for stray bytes: over partial writes, full buffers and failed writes.
THEOREM ClientStreamInOrder == ClientSpec => []StreamInOrder
<1>1. Stream => StreamInOrder
  BY DEF Stream, Accounts, StreamInOrder
<1> QED BY <1>1, ClientStream, PTL

\* The step runs no write_complete_cb_, or runs it with nothing queued.
NoneOrAll == completed' = completed \/ (completed' = due' /\ ioVec' = <<>> /\ ~closed')

LEMMA CompleteStep == Control /\ [ClientNext]_clientVars => NoneOrAll
<1> SUFFICES ASSUME Control, [ClientNext]_clientVars PROVE NoneOrAll
  OBVIOUS
<1> USE DEF NoneOrAll
<1>1. ASSUME NEW m, NEW back, Deliver(m, back) PROVE NoneOrAll
  <2>1. CASE SendInLoop(m, back)
    BY <2>1 DEF SendInLoop, WriteComplete
  <2>2. CASE SendListInLoop(m, back)
    BY <2>2 DEF SendListInLoop
  <2> QED BY <1>1, <2>1, <2>2 DEF Deliver
<1>2. CASE Base(OnWrite)
  <2>1. phase = "write" /\ ~closed
    BY <1>2 DEF Base, OnWrite, Control
  <2> QED BY <1>2, <2>1 DEF Base, OnWrite, WriteComplete
<1>3. CASE Base(RunTask)
  BY <1>1, <1>3 DEF Base, RunTask
<1>4. ASSUME NEW m \in Messages, Base(CallbackSend(m)) PROVE NoneOrAll
  BY <1>1, <1>4 DEF Base, CallbackSend
<1>5. CASE ConnectInLoop \/ PeerAnswers \/ FirstReport
  BY <1>5 DEF ConnectInLoop, PeerAnswers, FirstReport
<1>6. CASE LoopDispatch
  BY <1>6 DEF LoopDispatch, Base, Dispatch
<1>7. CASE Base(PeerSends) \/ Base(PeerCloses) \/ Base(PeerResets) \/ Base(PeerAcks)
  BY <1>7 DEF Base, PeerSends, PeerCloses, PeerResets, PeerAcks
<1>8. CASE Base(CallbackClose) \/ Base(OnTimeout)
  BY <1>8 DEF Base, CallbackClose, OnTimeout
<1>9. ASSUME NEW m \in Messages, Send(m) \/ Base(PostClose(m)) PROVE NoneOrAll
  BY <1>9 DEF Send, Base, Post, PostClose
<1>10. CASE Base(CallbackDone) \/ Base(OnRead)
  BY <1>10 DEF Base, CallbackDone, OnRead
<1>11. CASE UNCHANGED clientVars
  BY <1>11 DEF clientVars, vars
<1> QED
  BY <1>2, <1>3, <1>4, <1>5, <1>6, <1>7, <1>8, <1>9, <1>10, <1>11 DEF ClientNext, Base, Peer

\* write_complete_cb_ runs only when the socket has taken all there was to send.
THEOREM ClientCompleteMeansWritten == ClientSpec => CompleteMeansWritten
<1>1. Control /\ Stream' /\ [ClientNext]_clientVars
        => [completed' # completed => NoStrays(wire') = completed' /\ ioVec' = <<>>]_vars
  <2> SUFFICES ASSUME Control, Stream', [ClientNext]_clientVars, completed' # completed
               PROVE  NoStrays(wire') = completed' /\ ioVec' = <<>>
    OBVIOUS
  <2>1. completed' = due' /\ ioVec' = <<>> /\ ~closed'
    BY CompleteStep DEF NoneOrAll
  <2>2. wire' \in Seq(AllUnits) /\ NoStrays(wire' \o Units(ioVec')) = due'
    BY <2>1 DEF Stream, StreamTypeOK, Accounts
  <2>3. Units(ioVec') = <<>>
    BY <2>1, UnitsProperties
  <2>4. wire' \o <<>> = wire'
    BY <2>2, ConcatEmptySeq
  <2> QED BY Zenon, <2>1, <2>2, <2>3, <2>4
<1> QED BY <1>1, ClientControl, ClientStream, PTL DEF ClientSpec, CompleteMeansWritten
=============================================================================
