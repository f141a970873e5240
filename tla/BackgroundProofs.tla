--------------------------- MODULE BackgroundProofs ---------------------------
(***************************************************************************)
(* Proofs about the work that goes on in the background: DnsService, and     *)
(* LogFiles, which share nothing but this module.                            *)
(*                                                                         *)
(* DnsService, for any hosts, any results of getaddrinfo and any width of     *)
(* size_t: a list that GetHostInfo is filling and the rest of its chain are   *)
(* together a whole result, which makes an update of the table whole.         *)
(*                                                                         *)
(* LogFiles, for any threads, logs, tasks and calendar: the date of a         *)
(* rotation is later than all dates the log has, and the descriptor writes    *)
(* to the last file, so that no line is lost or comes before an earlier one.  *)
(***************************************************************************)
EXTENDS DnsService, LogFiles, SequenceTheorems, FiniteSetTheorems, TLAPS

-----------------------------------------------------------------------------
(* The table of hosts.                                                     *)

\* A chain of results: null, or what a lookup has found for some host.
Chains == {<<>>} \cup UNION {Answers[g] : g \in Hosts}

TypeOK ==
  /\ Known \subseteq Hosts
  /\ hosts = [h \in Known |-> hosts[h]]
  /\ pc \in {"none", "test", "next", "ask", "chain", "ended"}
  /\ pass \subseteq Hosts
  /\ pc \in {"ask", "chain"} => host \in Hosts
  /\ list \in Seq(Addresses) /\ rest \in Seq(Addresses)

\* What is in the table is whole, and what the worker has read and has yet to
\* read of a chain make up the whole of it.
WholeLists ==
  /\ \A h \in Known : hosts[h] \in Chains
  /\ old \in Chains
  /\ pc = "ask" => list = <<>>
  /\ pc = "chain" => list \o rest \in Chains

ChainInv == TypeOK /\ WholeLists

\* Every result of a lookup is a sequence that is not empty, and null is an
\* empty one.
LEMMA ChainsType ==
  /\ Chains \subseteq Seq(Addresses) /\ <<>> \in Chains
  /\ \A a \in Chains : a # <<>> => \E g \in Hosts : a \in Answers[g]
  /\ \A g \in Hosts : Answers[g] \subseteq Chains
<1>1. \A g \in Hosts : Answers[g] \subseteq Seq(Addresses) /\ <<>> \notin Answers[g]
  BY AnswersAssumption
<1>2. <<>> \in Seq(Addresses)
  BY EmptySeq
<1> QED BY <1>1, <1>2 DEF Chains

\* One turn of the loop over the chain moves an address from its head to the
\* end of the list.
LEMMA PushKeepsTheChain ==
  ASSUME NEW S, NEW s \in Seq(S), NEW t \in Seq(S), t # <<>>
  PROVE  Append(s, Head(t)) \o Tail(t) = s \o t
<1> DEFINE u == Append(s, Head(t))
           r == Tail(t)
<1>1. Head(t) \in S /\ r \in Seq(S) /\ Len(r) = Len(t) - 1 /\ Head(t) = t[1]
  BY HeadTailProperties
<1>2. \A i \in 1 .. Len(r) : r[i] = t[i + 1]
  BY HeadTailProperties
<1>3. /\ u \in Seq(S) /\ Len(u) = Len(s) + 1
      /\ \A i \in 1 .. Len(s) : u[i] = s[i]
      /\ u[Len(s) + 1] = t[1]
  BY <1>1, AppendProperties
<1>4. /\ Len(s) \in Nat /\ Len(t) \in Nat /\ Len(t) # 0
  BY EmptySeq
<1> HIDE DEF u, r
<1>5. /\ u \o r \in Seq(S) /\ Len(u \o r) = Len(s) + Len(t)
      /\ \A i \in 1 .. Len(u) + Len(r) :
           (u \o r)[i] = IF i <= Len(u) THEN u[i] ELSE r[i - Len(u)]
  <2>1. Len(u) + Len(r) = Len(s) + Len(t)
    BY <1>1, <1>3, <1>4
  <2>2. u \in Seq(S) /\ r \in Seq(S)
    BY <1>1, <1>3
  <2>3. /\ u \o r \in Seq(S) /\ Len(u \o r) = Len(u) + Len(r)
        /\ \A i \in 1 .. Len(u) + Len(r) :
             (u \o r)[i] = IF i <= Len(u) THEN u[i] ELSE r[i - Len(u)]
    BY <2>2, ConcatProperties
  <2> QED BY <2>1, <2>3
<1>6. /\ s \o t \in Seq(S) /\ Len(s \o t) = Len(s) + Len(t)
      /\ \A i \in 1 .. Len(s) + Len(t) :
           (s \o t)[i] = IF i <= Len(s) THEN s[i] ELSE t[i - Len(s)]
  BY ConcatProperties
<1>7. ASSUME NEW i \in 1 .. Len(s) + Len(t) PROVE (u \o r)[i] = (s \o t)[i]
  <2>1. CASE i <= Len(s)
    BY <1>1, <1>3, <1>4, <1>5, <1>6, <2>1
  <2>2. CASE i = Len(s) + 1
    BY <1>1, <1>3, <1>4, <1>5, <1>6, <2>2
  <2>3. CASE i > Len(s) + 1
    <3>1. i - Len(u) \in 1 .. Len(r) /\ (u \o r)[i] = r[i - Len(u)]
      BY <1>1, <1>3, <1>4, <1>5, <2>3
    <3>2. (s \o t)[i] = t[i - Len(s)] /\ i - Len(s) = (i - Len(u)) + 1
      BY <1>3, <1>4, <1>6, <2>3
    <3> QED BY <1>2, <3>1, <3>2
  <2>4. i <= Len(s) \/ i = Len(s) + 1 \/ i > Len(s) + 1
    BY <1>4
  <2> QED BY <2>1, <2>2, <2>3, <2>4
<1>8. u \o r = s \o t
  BY <1>5, <1>6, <1>7, SeqEqual
<1> QED BY <1>8 DEF u, r

-----------------------------------------------------------------------------
LEMMA InitChain == Init => ChainInv
<1> SUFFICES ASSUME Init PROVE ChainInv
  OBVIOUS
<1>1. Known = {}
  BY DEF Init, Known
<1> QED BY <1>1, ChainsType DEF Init, ChainInv, TypeOK, WholeLists

Whole == \A h \in Known : /\ h \in DOMAIN hosts'
                          /\ hosts'[h] = hosts[h] \/ \E g \in Hosts : hosts'[h] \in Answers[g]

\* Every step keeps the invariant, and leaves the table alone or puts a whole
\* list into it.
LEMMA ChainStep == ChainInv /\ [Next]_vars => ChainInv' /\ Whole
<1> SUFFICES ASSUME ChainInv, [Next]_vars PROVE ChainInv' /\ Whole
  OBVIOUS
<1> USE DEF ChainInv
<1>1. ASSUME UNCHANGED hosts, TypeOK', WholeLists' PROVE ChainInv' /\ Whole
  BY <1>1 DEF Whole, Known
<1>2. CASE Start \/ Stop \/ Joined \/ Leave \/ PassDone \/ Sleep
  <2>1. pc' \notin {"ask", "chain"} \/ pc' = pc
    BY <1>2 DEF Start, Stop, Joined, Leave, PassDone, Sleep
  <2>2. UNCHANGED <<hosts, work>> /\ pc' \in {"none", "test", "next", "ask", "chain", "ended"}
    BY <1>2 DEF Start, Stop, Joined, Leave, PassDone, Sleep, TypeOK
  <2>3. TypeOK'
    BY <2>1, <2>2 DEF TypeOK, Known, work
  <2>4. WholeLists'
    BY <2>1, <2>2 DEF WholeLists, Known, work
  <2> QED BY <1>1, <2>2, <2>3, <2>4
<1>3. CASE Copy
  <2>1. TypeOK'
    BY <1>3 DEF Copy, TypeOK, Known
  <2>2. WholeLists'
    BY <1>3 DEF Copy, WholeLists, Known
  <2> QED BY <1>1, <1>3, <2>1, <2>2 DEF Copy
<1>4. ASSUME NEW h \in Hosts, NextHost(h) PROVE ChainInv' /\ Whole
  <2>1. TypeOK'
    BY <1>4 DEF NextHost, TypeOK, Known
  <2>2. WholeLists'
    BY <1>4 DEF NextHost, WholeLists, Known
  <2> QED BY <1>1, <1>4, <2>1, <2>2 DEF NextHost
<1>5. ASSUME NEW a \in Answers[host], host \in Hosts, Found(a) PROVE ChainInv' /\ Whole
  <2>1. a \in Chains /\ a \in Seq(Addresses) /\ <<>> \o a = a
    BY <1>5, ChainsType, ConcatEmptySeq
  <2>2. TypeOK'
    BY <1>5, <2>1 DEF Found, TypeOK, Known
  <2>3. WholeLists'
    BY <1>5, <2>1 DEF Found, WholeLists, Known
  <2> QED BY <1>1, <1>5, <2>2, <2>3 DEF Found
<1>6. CASE NotFound
  <2>1. PICK stale \in {<<>>, old} : rest' = stale
    BY <1>6 DEF NotFound
  <2>2. rest' \in Chains /\ rest' \in Seq(Addresses) /\ <<>> \o rest' = rest'
    BY <2>1, ChainsType, ConcatEmptySeq DEF WholeLists
  <2>3. TypeOK'
    BY <1>6, <2>2 DEF NotFound, TypeOK, Known
  <2>4. WholeLists'
    BY <1>6, <2>2 DEF NotFound, WholeLists, Known
  <2> QED BY <1>1, <1>6, <2>3, <2>4 DEF NotFound
<1>7. CASE Push
  <2>1. list' \o rest' = list \o rest
    BY <1>7, PushKeepsTheChain DEF Push, TypeOK
  <2>2. list' \in Seq(Addresses) /\ rest' \in Seq(Addresses)
    BY <1>7, HeadTailProperties, AppendProperties DEF Push, TypeOK
  <2>3. TypeOK'
    BY <1>7, <2>2 DEF Push, TypeOK, Known
  <2>4. WholeLists'
    BY <1>7, <2>1 DEF Push, WholeLists, Known
  <2> QED BY <1>1, <1>7, <2>3, <2>4 DEF Push
<1>8. CASE UpdateHost
  <2>1. list \o rest = list /\ list \in Chains /\ host \in Hosts
    BY <1>8, ConcatEmptySeq DEF UpdateHost, TypeOK, WholeLists
  <2>2. hosts' = With(hosts, host, list)
    BY <1>8 DEF UpdateHost
  <2>3. /\ DOMAIN hosts' = Known \cup {host} /\ hosts'[host] = list
        /\ \A g \in Known : g # host => hosts'[g] = hosts[g]
        /\ hosts' = [g \in DOMAIN hosts' |-> hosts'[g]]
    BY <2>2 DEF With, Known
  <2>4. TypeOK'
    BY <1>8, <2>1, <2>3, EmptySeq DEF UpdateHost, TypeOK, Known
  <2>5. WholeLists'
    BY <1>8, <2>1, <2>3 DEF UpdateHost, WholeLists, Known
  <2>6. \E g \in Hosts : list \in Answers[g]
    BY <1>8, <2>1, ChainsType DEF UpdateHost
  <2>7. Whole
    BY <2>3, <2>6 DEF Whole
  <2> QED BY <2>4, <2>5, <2>7
<1>9. ASSUME NEW h \in Hosts, AddHost(h) PROVE ChainInv' /\ Whole
  <2>1. h \notin Known /\ hosts' = With(hosts, h, <<>>)
    BY <1>9 DEF AddHost
  <2>2. /\ DOMAIN hosts' = Known \cup {h} /\ hosts'[h] = <<>>
        /\ \A g \in Known : hosts'[g] = hosts[g]
        /\ hosts' = [g \in DOMAIN hosts' |-> hosts'[g]]
    BY <2>1 DEF With, Known
  <2>3. TypeOK'
    BY <1>9, <2>2 DEF AddHost, TypeOK, Known, work
  <2>4. WholeLists'
    BY <1>9, <2>2, ChainsType DEF AddHost, WholeLists, Known, work
  <2>5. Whole
    BY <2>2 DEF Whole
  <2> QED BY <2>3, <2>4, <2>5
<1>10. CASE UNCHANGED vars
  <2>1. TypeOK'
    BY <1>10 DEF vars, work, TypeOK, Known
  <2>2. WholeLists'
    BY <1>10 DEF vars, work, WholeLists, Known
  <2> QED BY <1>1, <1>10, <2>1, <2>2 DEF vars
<1> QED BY <1>2, <1>3, <1>4, <1>5, <1>6, <1>7, <1>8, <1>9, <1>10 DEF Next, OnWork

-----------------------------------------------------------------------------
\* 2^n is the number of subsets of a set of n, so it is a positive number.
LEMMA PowerPositive == \A n \in Nat : 2 ^ n \in Nat \ {0}
<1> SUFFICES ASSUME NEW n \in Nat PROVE 2 ^ n \in Nat \ {0}
  OBVIOUS
<1>1. IsFiniteSet(1 .. n) /\ Cardinality(1 .. n) = n
  BY FS_Interval
<1>2. IsFiniteSet(SUBSET (1 .. n)) /\ Cardinality(SUBSET (1 .. n)) = 2 ^ n
  BY <1>1, FS_SUBSET
<1>3. SUBSET (1 .. n) # {}
  OBVIOUS
<1> QED BY <1>2, <1>3, FS_EmptySet, FS_CardinalityType

\* A position is one of the list, whatever the index was.
LEMMA PositionInRange ==
  ASSUME NEW index \in Int, NEW size \in Nat \ {0} PROVE Position(index, size) \in 0 .. size - 1
<1>1. 2 ^ Width \in Nat \ {0}
  BY WidthAssumption, PowerPositive
<1>2. index % 2 ^ Width \in Int
  BY <1>1
<1> QED BY <1>2 DEF Position

\* ChainInv is an invariant of the service.
THEOREM ServiceInvariant == Spec => []ChainInv
<1>1. ChainInv /\ [Next]_vars => ChainInv'
  BY ChainStep
<1> QED BY <1>1, InitChain, PTL DEF Spec

\* A list in the table is replaced by the whole of what one lookup found, and
\* never emptied.
THEOREM ServiceUpdatesAreWhole == Spec => UpdatesAreWhole
<1>1. ChainInv /\ [Next]_vars =>
        [\A h \in Known : /\ h \in DOMAIN hosts'
                          /\ hosts'[h] = hosts[h] \/ \E g \in Hosts : hosts'[h] \in Answers[g]]_vars
  BY ChainStep DEF Whole
<1> QED BY <1>1, ServiceInvariant, PTL DEF Spec, UpdatesAreWhole

\* Whatever index a caller has, GetHostAddress gives it an address of the list.
THEOREM ServiceIndexIsSafe == Spec => []IndexIsSafe
<1>1. ChainInv => IndexIsSafe
  <2> SUFFICES ASSUME ChainInv, NEW h \in Known, hosts[h] # <<>>,
                      NEW index \in -(2^(Width - 1))..(2^(Width - 1) - 1)
               PROVE  \E i \in DOMAIN hosts[h] : GetHostAddress(h, index) = hosts[h][i]
    BY DEF IndexIsSafe
  <2>1. Width - 1 \in Nat
    BY WidthAssumption
  <2>2. 2 ^ (Width - 1) \in Nat
    BY <2>1, PowerPositive
  <2>3. index \in Int
    BY <2>2
  <2>4. hosts[h] \in Seq(Addresses)
    BY ChainsType DEF ChainInv, WholeLists
  <2>5. Len(hosts[h]) \in Nat \ {0} /\ DOMAIN hosts[h] = 1 .. Len(hosts[h])
    BY <2>4, EmptySeq
  <2> DEFINE p == Position(index, Len(hosts[h])) + 1
  <2>6. p \in DOMAIN hosts[h]
    <3>1. Position(index, Len(hosts[h])) \in 0 .. Len(hosts[h]) - 1
      BY <2>3, <2>5, PositionInRange
    <3> QED BY <2>5, <3>1
  <2>7. GetHostAddress(h, index) = hosts[h][p]
    BY <2>6 DEF GetHostAddress
  <2> QED BY <2>6, <2>7
<1> QED BY <1>1, ServiceInvariant, PTL

-----------------------------------------------------------------------------
(* The files of one log.                                                   *)

\* NothingLost for the files f of a log to which n lines were written, line by
\* line.
AllLines(f, n) ==
  /\ f = [s \in DOMAIN f |-> f[s]] /\ DOMAIN f \subseteq Nat \cup {Live}
  /\ \A s \in DOMAIN f : f[s] \in Seq(Nat)
  /\ \A i \in 1..n : \E s \in DOMAIN f : \E m \in 1..Len(f[s]) : f[s][m] = i
  /\ \A s \in DOMAIN f : \A m \in 1..Len(f[s]) : f[s][m] \in 1..n
  /\ \A s \in DOMAIN f : \A m, k \in 1..Len(f[s]) : m < k => f[s][m] < f[s][k]
  /\ \A s, d \in DOMAIN f :
       Earlier(s, d) => \A m \in 1..Len(f[s]), k \in 1..Len(f[d]) : f[s][m] < f[d][k]

\* The descriptor writes to the last file; a live file beside it is empty.
WritesLast(f, d) ==
  d # Live => /\ d \in DOMAIN f /\ \A s \in DOMAIN f : s <= d
              /\ Live \in DOMAIN f => f[Live] = <<>>

LEMMA WholeIsInOrder ==
  ASSUME NEW f, NEW n \in Nat, AllLines(f, n)
  PROVE  /\ UNION {Range(f[s]) : s \in DOMAIN f} = 1..n
         /\ \A s \in DOMAIN f : \A m, k \in DOMAIN f[s] : m < k => f[s][m] < f[s][k]
         /\ \A s, d \in DOMAIN f : Earlier(s, d) => \A i \in Range(f[s]), j \in Range(f[d]) : i < j
<1>1. ASSUME NEW s \in DOMAIN f
      PROVE  DOMAIN f[s] = 1..Len(f[s]) /\ Range(f[s]) = {f[s][m] : m \in 1..Len(f[s])}
  <2>1. f[s] \in Seq(Nat)
    BY DEF AllLines
  <2>2. DOMAIN f[s] = 1..Len(f[s])
    BY <2>1
  <2> QED BY <2>2 DEF Range
<1>2. UNION {Range(f[s]) : s \in DOMAIN f} = 1..n
  <2>1. ASSUME NEW i \in UNION {Range(f[s]) : s \in DOMAIN f} PROVE i \in 1..n
    <3>1. PICK s \in DOMAIN f : i \in Range(f[s])
      BY <2>1
    <3>2. PICK m \in 1..Len(f[s]) : i = f[s][m]
      BY <1>1, <3>1
    <3> QED BY <3>2 DEF AllLines
  <2>2. ASSUME NEW i \in 1..n PROVE i \in UNION {Range(f[s]) : s \in DOMAIN f}
    <3>1. PICK s \in DOMAIN f : \E m \in 1..Len(f[s]) : f[s][m] = i
      BY DEF AllLines
    <3>2. i \in Range(f[s])
      BY <1>1, <3>1
    <3> QED BY <3>2
  <2> QED BY <2>1, <2>2
<1>3. ASSUME NEW s \in DOMAIN f, NEW m \in DOMAIN f[s], NEW k \in DOMAIN f[s], m < k PROVE f[s][m] < f[s][k]
  <2>1. m \in 1..Len(f[s]) /\ k \in 1..Len(f[s])
    BY <1>1
  <2> QED BY <1>3, <2>1 DEF AllLines
<1>4. ASSUME NEW s \in DOMAIN f, NEW d \in DOMAIN f, Earlier(s, d), NEW i \in Range(f[s]), NEW j \in Range(f[d])
      PROVE  i < j
  <2>1. PICK m \in 1..Len(f[s]) : i = f[s][m]
    BY <1>1
  <2>2. PICK k \in 1..Len(f[d]) : j = f[d][k]
    BY <1>1
  <2> QED BY <1>4, <2>1, <2>2 DEF AllLines
<1> QED BY <1>2, <1>3, <1>4

\* A line goes to the end of the last file.
LEMMA WriteKeeps ==
  ASSUME NEW f, NEW n \in Nat, AllLines(f, n), NEW d, WritesLast(f, d), d \in DOMAIN f
  PROVE  /\ AllLines([f EXCEPT ![d] = Append(f[d], n + 1)], n + 1)
         /\ DOMAIN [f EXCEPT ![d] = Append(f[d], n + 1)] = DOMAIN f
         /\ WritesLast([f EXCEPT ![d] = Append(f[d], n + 1)], d)
<1> DEFINE q == Append(f[d], n + 1)
           g == [f EXCEPT ![d] = q]
<1>1. /\ q \in Seq(Nat) /\ Len(q) = Len(f[d]) + 1 /\ Len(f[d]) \in Nat
      /\ q[Len(q)] = n + 1 /\ \A m \in 1..Len(f[d]) : q[m] = f[d][m]
  <2>1. f[d] \in Seq(Nat) /\ n + 1 \in Nat
    BY DEF AllLines
  <2> QED BY <2>1
<1> HIDE DEF q
<1>2. /\ DOMAIN g = DOMAIN f /\ g = [s \in DOMAIN g |-> g[s]] /\ g[d] = q
      /\ \A s \in DOMAIN f : s # d => g[s] = f[s]
  BY DEF AllLines
<1> HIDE DEF g
<1>3. ASSUME NEW s \in DOMAIN g PROVE g[s] \in Seq(Nat) /\ Len(g[s]) \in Nat
  <2>1. g[s] \in Seq(Nat)
    <3>1. f[s] \in Seq(Nat)
      BY <1>2 DEF AllLines
    <3> QED BY <1>1, <1>2, <3>1
  <2> QED BY <2>1
<1>4. \A m \in 1..Len(q) : m = Len(q) \/ m \in 1..Len(f[d])
  BY <1>1
<1>5. ASSUME NEW i \in 1..(n + 1) PROVE \E s \in DOMAIN g : \E m \in 1..Len(g[s]) : g[s][m] = i
  <2>1. CASE i = n + 1
    <3>1. Len(q) \in 1..Len(q)
      BY <1>1
    <3> QED BY <1>1, <1>2, <2>1, <3>1
  <2>2. CASE i # n + 1
    <3>1. i \in 1..n
      BY <2>2
    <3>0. PICK s \in DOMAIN f : \E m \in 1..Len(f[s]) : f[s][m] = i
      BY <3>1 DEF AllLines
    <3>2. PICK m \in 1..Len(f[s]) : f[s][m] = i
      BY <3>0
    <3>3. CASE s = d
      <4>1. m \in 1..Len(q) /\ q[m] = i
        BY <1>1, <3>2, <3>3
      <4> QED BY <1>2, <3>3, <4>1
    <3>4. CASE s # d
      BY <1>2, <3>2, <3>4
    <3> QED BY <3>3, <3>4
  <2> QED BY <2>1, <2>2
<1>6. ASSUME NEW s \in DOMAIN g, NEW m \in 1..Len(g[s]) PROVE g[s][m] \in 1..(n + 1)
  <2>1. CASE s = d
    <3>1. \A k \in 1..Len(f[d]) : f[d][k] \in 1..n
      BY <1>2, <2>1 DEF AllLines
    <3> QED BY <1>1, <1>2, <1>4, <2>1, <3>1
  <2>2. CASE s # d
    <3>1. g[s][m] \in 1..n
      BY <1>2, <2>2 DEF AllLines
    <3> QED BY <3>1
  <2> QED BY <2>1, <2>2
<1>7. ASSUME NEW s \in DOMAIN g, NEW m \in 1..Len(g[s]), NEW k \in 1..Len(g[s]), m < k
      PROVE  g[s][m] < g[s][k]
  <2>1. CASE s = d
    <3>1. m \in 1..Len(f[d]) /\ q[m] = f[d][m]
      BY <1>1, <1>2, <1>7, <2>1
    <3>2. f[d][m] \in 1..n
      BY <1>2, <2>1, <3>1 DEF AllLines
    <3>3. CASE k = Len(q)
      BY <1>1, <1>2, <2>1, <3>1, <3>2, <3>3
    <3>4. CASE k \in 1..Len(f[d])
      <4>1. f[d][m] < f[d][k]
        BY <1>2, <1>7, <2>1, <3>1, <3>4 DEF AllLines
      <4> QED BY <1>1, <1>2, <2>1, <3>1, <3>4, <4>1
    <3> QED BY <1>2, <1>4, <2>1, <3>3, <3>4
  <2>2. CASE s # d
    BY <1>2, <1>7, <2>2 DEF AllLines
  <2> QED BY <2>1, <2>2
<1>8. ASSUME NEW s \in DOMAIN g, NEW e \in DOMAIN g, Earlier(s, e), NEW m \in 1..Len(g[s]), NEW k \in 1..Len(g[e])
      PROVE  g[s][m] < g[e][k]
  <2>1. CASE s # d /\ e # d
    <3>1. s \in DOMAIN f /\ e \in DOMAIN f /\ g[s] = f[s] /\ g[e] = f[e]
      BY <1>2, <2>1
    <3>2. f[s][m] < f[e][k]
      BY <1>8, <3>1 DEF AllLines
    <3> QED BY <3>1, <3>2
  <2>2. CASE e = d
    <3>1. s # d /\ s \in DOMAIN f
      BY <1>2, <1>8, <2>2 DEF Earlier, AllLines, Live
    <3>2. f[s][m] \in 1..n /\ m \in 1..Len(f[s]) /\ g[s] = f[s]
      BY <1>2, <3>1 DEF AllLines
    <3>3. CASE k = Len(q)
      BY <1>1, <1>2, <2>2, <3>2, <3>3
    <3>4. CASE k \in 1..Len(f[d])
      <4>1. f[s][m] < f[d][k]
        BY <1>8, <2>2, <3>1, <3>2, <3>4 DEF AllLines
      <4> QED BY <1>1, <1>2, <2>2, <3>2, <3>4, <4>1
    <3> QED BY <1>2, <1>4, <2>2, <3>3, <3>4
  <2>3. CASE s = d /\ e # d
    <3>1. d # Live /\ e \in DOMAIN f
      BY <1>2, <1>8, <2>3 DEF Earlier
    <3>2. e = Live
      <4>1. e <= d /\ (e = Live \/ d < e)
        BY <1>8, <2>3, <3>1 DEF WritesLast, Earlier
      <4>2. e \in Int /\ d \in Int
        BY <3>1 DEF AllLines, Live
      <4> QED BY <4>1, <4>2
    <3>3. f[e] = <<>>
      BY <3>1, <3>2 DEF WritesLast
    <3>4. Len(g[e]) = 0
      BY <1>2, <2>3, <3>1, <3>3
    <3> QED BY <3>4
  <2> QED BY <2>1, <2>2, <2>3
<1>9. AllLines(g, n + 1)
  <2>1. DOMAIN g \subseteq Nat \cup {Live}
    BY <1>2 DEF AllLines
  <2> QED BY <1>2, <1>3, <1>5, <1>6, <1>7, <1>8, <2>1 DEF AllLines
<1>10. WritesLast(g, d)
  BY <1>2 DEF WritesLast
<1> QED BY <1>2, <1>9, <1>10 DEF g, q

\* The file is created, or opened again after a rename.
LEMMA CreatedKeeps ==
  ASSUME NEW f, NEW n \in Nat, AllLines(f, n), Live \notin DOMAIN f
  PROVE  /\ AllLines(Put(f, Live, <<>>), n)
         /\ DOMAIN Put(f, Live, <<>>) = DOMAIN f \cup {Live}
         /\ \A d : WritesLast(f, d) => WritesLast(Put(f, Live, <<>>), d)
<1> DEFINE g == Put(f, Live, <<>>)
<1>1. /\ DOMAIN g = DOMAIN f \cup {Live} /\ g = [s \in DOMAIN g |-> g[s]] /\ g[Live] = <<>>
      /\ \A s \in DOMAIN f : s # Live /\ g[s] = f[s]
  BY DEF Put
<1> HIDE DEF g
<1>2. Len(g[Live]) = 0 /\ g[Live] \in Seq(Nat)
  BY <1>1
<1>3. ASSUME NEW s \in DOMAIN g, NEW m \in 1..Len(g[s]) PROVE s \in DOMAIN f /\ g[s] = f[s] /\ m \in 1..Len(f[s])
  BY <1>1, <1>2
<1>4. \A s \in DOMAIN g : g[s] \in Seq(Nat)
  BY <1>1, <1>2 DEF AllLines
<1>5. ASSUME NEW i \in 1..n PROVE \E s \in DOMAIN g : \E m \in 1..Len(g[s]) : g[s][m] = i
  <2>1. PICK s \in DOMAIN f : \E m \in 1..Len(f[s]) : f[s][m] = i
    BY DEF AllLines
  <2> QED BY <1>1, <2>1
<1>6. \A s \in DOMAIN g : \A m \in 1..Len(g[s]) : g[s][m] \in 1..n
  BY <1>3 DEF AllLines
<1>7. \A s \in DOMAIN g : \A m, k \in 1..Len(g[s]) : m < k => g[s][m] < g[s][k]
  BY <1>3 DEF AllLines
<1>8. ASSUME NEW s \in DOMAIN g, NEW d \in DOMAIN g, Earlier(s, d), NEW m \in 1..Len(g[s]), NEW k \in 1..Len(g[d])
      PROVE  g[s][m] < g[d][k]
  BY <1>3, <1>8 DEF AllLines
<1>9. AllLines(g, n)
  <2>1. DOMAIN g \subseteq Nat \cup {Live}
    BY <1>1 DEF AllLines
  <2> QED BY <1>1, <1>4, <1>5, <1>6, <1>7, <1>8, <2>1 DEF AllLines
<1>10. ASSUME NEW d, WritesLast(f, d) PROVE WritesLast(g, d)
  <2>1. ASSUME d # Live PROVE d \in DOMAIN f /\ d \in Nat /\ \A s \in DOMAIN g : s <= d
    BY <1>1, <1>10, <2>1 DEF WritesLast, AllLines, Live
  <2> QED BY <1>1, <2>1 DEF WritesLast
<1> QED BY <1>1, <1>9, <1>10 DEF g

\* The live file gets a date later than all others.
LEMMA RenamedKeeps ==
  ASSUME NEW f, NEW n \in Nat, AllLines(f, n), Live \in DOMAIN f, NEW d \in Nat,
         \A s \in DOMAIN f \ {Live} : s < d
  PROVE  LET g == Put([s \in DOMAIN f \ {Live} |-> f[s]], d, f[Live])
         IN  /\ AllLines(g, n) /\ DOMAIN g = (DOMAIN f \ {Live}) \cup {d}
             /\ Live \notin DOMAIN g /\ WritesLast(g, d)
<1> DEFINE r == [s \in DOMAIN f \ {Live} |-> f[s]]
           g == Put(r, d, f[Live])
           from(s) == IF s = d THEN Live ELSE s
<1>1. /\ DOMAIN g = (DOMAIN f \ {Live}) \cup {d} /\ g = [s \in DOMAIN g |-> g[s]]
      /\ \A s \in DOMAIN g : from(s) \in DOMAIN f /\ g[s] = f[from(s)]
  <2>1. DOMAIN r = DOMAIN f \ {Live} /\ \A s \in DOMAIN r : r[s] = f[s]
    OBVIOUS
  <2> HIDE DEF r
  <2> QED BY <2>1 DEF Put
<1> HIDE DEF g
<1>2. d # Live /\ d \notin DOMAIN f /\ Live \notin DOMAIN g
  <2>1. \A s \in DOMAIN f : s \in Int
    BY DEF AllLines, Live
  <2>2. d # Live
    BY DEF Live
  <2> QED BY <1>1, <2>1, <2>2
<1>3. \A s, e \in DOMAIN g : Earlier(s, e) => Earlier(from(s), from(e))
  <2> SUFFICES ASSUME NEW s \in DOMAIN g, NEW e \in DOMAIN g, Earlier(s, e) PROVE Earlier(from(s), from(e))
    OBVIOUS
  <2>1. s # Live /\ e # Live /\ s < e /\ s \in Int /\ e \in Int
    BY <1>1, <1>2 DEF Earlier, AllLines, Live
  <2>2. s # d
    BY <1>1, <1>2, <2>1
  <2> QED BY <2>1, <2>2 DEF Earlier
<1>4. \A s \in DOMAIN f : \E e \in DOMAIN g : from(e) = s
  BY <1>1, <1>2
<1> HIDE DEF from
<1>5. \A s \in DOMAIN g : g[s] \in Seq(Nat)
  BY <1>1 DEF AllLines
<1>6. ASSUME NEW i \in 1..n PROVE \E s \in DOMAIN g : \E m \in 1..Len(g[s]) : g[s][m] = i
  <2>1. PICK s \in DOMAIN f : \E m \in 1..Len(f[s]) : f[s][m] = i
    BY DEF AllLines
  <2>2. PICK e \in DOMAIN g : from(e) = s
    BY <1>4
  <2> QED BY <1>1, <2>1, <2>2
<1>7. \A s \in DOMAIN g : \A m \in 1..Len(g[s]) : g[s][m] \in 1..n
  BY <1>1 DEF AllLines
<1>8. \A s \in DOMAIN g : \A m, k \in 1..Len(g[s]) : m < k => g[s][m] < g[s][k]
  BY <1>1 DEF AllLines
<1>9. ASSUME NEW s \in DOMAIN g, NEW e \in DOMAIN g, Earlier(s, e), NEW m \in 1..Len(g[s]), NEW k \in 1..Len(g[e])
      PROVE  g[s][m] < g[e][k]
  <2>1. from(s) \in DOMAIN f /\ from(e) \in DOMAIN f /\ g[s] = f[from(s)] /\ g[e] = f[from(e)]
    BY <1>1
  <2>2. Earlier(from(s), from(e))
    BY <1>3, <1>9
  <2>3. m \in 1..Len(f[from(s)]) /\ k \in 1..Len(f[from(e)])
    BY <2>1
  <2>4. f[from(s)][m] < f[from(e)][k]
    BY <2>1, <2>2, <2>3 DEF AllLines
  <2> QED BY <2>1, <2>4
<1>10. DOMAIN g \subseteq Nat \cup {Live}
  BY <1>1 DEF AllLines
<1>11. AllLines(g, n)
  BY <1>1, <1>5, <1>6, <1>7, <1>8, <1>9, <1>10 DEF AllLines
<1>12. WritesLast(g, d)
  <2>1. \A s \in DOMAIN g : s <= d
    BY <1>1 DEF AllLines
  <2> QED BY <1>1, <1>2, <2>1 DEF WritesLast
<1> QED BY <1>1, <1>2, <1>11, <1>12 DEF g, r

\* A day that is not earlier than another one's moment is not an earlier day.
LEMMA DaysGoOn ==
  ASSUME NEW a \in Nat, NEW b \in Nat, a <= b
  PROVE  Day(a) \in Nat /\ Day(b) \in Nat /\ Day(a) <= Day(b)
<1> DEFINE p == PerDay
           da == a \div p
           db == b \div p
<1>1. p \in Nat /\ p > 0
  BY CalendarAssumption
<1>2. da \in Int /\ db \in Int /\ p * da <= a /\ a < p * da + p /\ p * db <= b /\ b < p * db + p
  BY <1>1
<1> HIDE DEF p, da, db
<1>3. da >= 0 /\ db >= 0
  <2>1. ASSUME NEW x \in Int, NEW y \in Nat, x < 0, y < p * x + p PROVE FALSE
    <3>1. x + 1 <= 0 /\ p * x + p = p * (x + 1)
      BY <1>1, <2>1
    <3>2. p * (x + 1) <= 0
      BY <1>1, <3>1
    <3> QED BY <1>1, <2>1, <3>1, <3>2
  <2> QED BY <1>2, <2>1
<1>4. da <= db
  <2>1. ASSUME da > db PROVE FALSE
    <3>1. da >= db + 1 /\ p * (db + 1) = p * db + p
      BY <1>1, <1>2, <2>1
    <3>2. p * da >= p * (db + 1)
      BY <1>1, <1>2, <3>1
    <3> QED BY <1>1, <1>2, <3>1, <3>2
  <2> QED BY <1>2, <2>1
<1> QED BY <1>2, <1>3, <1>4 DEF Day, da, db, p

-----------------------------------------------------------------------------
(* The inductive invariant.                                                *)

WorkState ==
  [pc : {"out", "scan", "check", "restart", "rotate", "open", "dup"}, start : Nat, left : SUBSET Tasks,
   changed : SUBSET {"minute", "hour", "day"}, seen : Nat, rotate : SUBSET Logs, log : Logs \cup {Nobody}]

LogTypes ==
  /\ now \in Nat /\ last \in Nat \cup {-1} /\ last <= now
  /\ tasks \subseteq Tasks /\ when \in [Tasks -> Nat] /\ ran \in [Tasks -> BOOLEAN]
  /\ logs \subseteq Logs /\ fd \in [Logs -> Int] /\ lines \in [Logs -> Nat]
  /\ files = [l \in Logs |-> files[l]] /\ type \in [Logs -> RotateTypes]
  /\ w \in [Threads -> WorkState]

Rotating(th) == w[th].pc \in {"rotate", "open", "dup"}

HasLocks(th) == (w[th].pc # "out" => lock = th) /\ (Rotating(th) => flock = th)

\* What a thread reads of the clock is not later than the clock.
ReadsClock(th) == w[th].start <= now /\ w[th].seen <= now

\* A check that found a change comes after the last one, and one that found
\* another day a day after it.
Checks(th) ==
  w[th].pc = "check" =>
    /\ last \in Nat /\ w[th].seen > last
    /\ "day" \in w[th].changed => Day(w[th].seen) > Day(last)

\* No file of a log that is yet to be rotated has the date it will get.
Rotates(th) ==
  Rotating(th) =>
    /\ last \in Nat
    /\ \A l \in w[th].rotate :
         type[l] \in w[th].changed /\ (w[th].pc = "rotate" \/ l # w[th].log) =>
           \A s \in DOMAIN files[l] : s # Live => s < Stamp(l)

\* Between rename and dup2 the descriptor writes to the file that was renamed.
Reopens(th) ==
  /\ w[th].pc \in {"open", "dup"} => w[th].log \in Logs /\ fd[w[th].log] # Live
  /\ w[th].pc = "open" => Live \notin DOMAIN files[w[th].log]

ThreadInv(th) == HasLocks(th) /\ ReadsClock(th) /\ Checks(th) /\ Rotates(th) /\ Reopens(th)

Dated(l) == \A s \in DOMAIN files[l] : s # Live => last \in Nat /\ s <= Stamp(l)

Reopened(l) ==
  fd[l] # Live /\ Live \in DOMAIN files[l] => \E th \in Threads : w[th].pc = "dup" /\ w[th].log = l

LogFile(l) == AllLines(files[l], lines[l]) /\ WritesLast(files[l], fd[l]) /\ Dated(l) /\ Reopened(l)

LogInv == LogTypes /\ (\A th \in Threads : ThreadInv(th)) /\ (\A l \in Logs : LogFile(l))

\* Who has TaskMgr::lock_, or takes it, is alone in OnWork.
LEMMA Alone ==
  ASSUME LogInv, NEW th \in Threads, lock = th \/ lock = Nobody
  PROVE  \A o \in Threads : o # th => w[o].pc = "out"
BY ThreadsAssumption DEF LogInv, ThreadInv, HasLocks

\* A thread that is out stays correct while it does not move.
LEMMA OutIsFine ==
  ASSUME LogInv, NEW o \in Threads, w[o].pc = "out", w'[o] = w[o], now' \in Nat, now <= now'
  PROVE  ThreadInv(o)'
<1>1. w[o] \in WorkState /\ ReadsClock(o) /\ now \in Nat
  BY DEF LogInv, LogTypes, ThreadInv
<1>2. ReadsClock(o)'
  BY <1>1 DEF ReadsClock, WorkState
<1> QED BY <1>2 DEF ThreadInv, HasLocks, Rotating, Checks, Rotates, Reopens

\* A log whose files, descriptor and rotation do not change stays correct.
LEMMA LogRests ==
  ASSUME LogInv, NEW l \in Logs, files'[l] = files[l], fd'[l] = fd[l], lines'[l] = lines[l],
         \A th \in Threads : w[th].pc = "dup" /\ w[th].log = l => w'[th].pc = "dup" /\ w'[th].log = l,
         Dated(l)'
  PROVE  LogFile(l)'
BY DEF LogInv, LogFile, Reopened

\* The step of a thread that is not at dup2 and leaves the files alone.
LEMMA FilesRest ==
  ASSUME LogInv, NEW th \in Threads, \A o \in Threads : o # th => w'[o] = w[o], w[th].pc # "dup",
         UNCHANGED <<last, type, fd, files, lines>>
  PROVE  \A l \in Logs : LogFile(l)'
<1> SUFFICES ASSUME NEW l \in Logs PROVE LogFile(l)'
  OBVIOUS
<1>1. Dated(l)'
  BY DEF LogInv, LogFile, Dated, Stamp
<1>2. \A o \in Threads : w[o].pc = "dup" /\ w[o].log = l => w'[o].pc = "dup" /\ w'[o].log = l
  OBVIOUS
<1> QED BY <1>1, <1>2, LogRests

\* A step of a thread in OnWork, put together.
LEMMA ThreadMoves ==
  ASSUME LogInv, NEW th \in Threads, lock = th \/ lock = Nobody, now' = now, LogTypes',
         \A o \in Threads : o # th => w'[o] = w[o], ThreadInv(th)', \A l \in Logs : LogFile(l)'
  PROVE  LogInv'
<1>1. ASSUME NEW o \in Threads PROVE ThreadInv(o)'
  <2>1. CASE o = th
    BY <2>1
  <2>2. CASE o # th
    <3>1. w[o].pc = "out" /\ w'[o] = w[o]
      BY <2>2, Alone
    <3>2. now \in Nat /\ now <= now
      BY DEF LogInv, LogTypes
    <3> QED BY <3>1, <3>2, OutIsFine
  <2> QED BY <2>1, <2>2
<1> QED BY <1>1 DEF LogInv

LEMMA InitKeeps == LogInit => LogInv
<1> SUFFICES ASSUME LogInit PROVE LogInv
  OBVIOUS
<1>1. LogTypes
  BY DEF LogInit, LogTypes, WorkState, Out, Live
<1>2. ASSUME NEW th \in Threads PROVE ThreadInv(th)
  BY DEF LogInit, Out, ThreadInv, HasLocks, Rotating, ReadsClock, Checks, Rotates, Reopens
<1>3. ASSUME NEW l \in Logs PROVE LogFile(l)
  <2>1. /\ files[l] = [s \in {} |-> <<>>] /\ DOMAIN files[l] = {}
        /\ lines[l] = 0 /\ fd[l] = Live
    BY DEF LogInit
  <2>2. AllLines(files[l], lines[l])
    <3>1. 1..lines[l] = {}
      BY <2>1
    <3> QED BY <2>1, <3>1 DEF AllLines
  <2> QED BY <2>1, <2>2 DEF LogFile, WritesLast, Dated, Reopened
<1> QED BY <1>1, <1>2, <1>3 DEF LogInv

-----------------------------------------------------------------------------
(* The steps that leave the files alone.                                   *)

LEMMA TickKeeps == LogInv /\ Tick => LogInv'
<1> SUFFICES ASSUME LogInv, Tick PROVE LogInv'
  OBVIOUS
<1>1. LogTypes' /\ now \in Nat /\ now' = now + 1
  BY DEF LogInv, LogTypes, Tick, taskVars, fileVars
<1>2. UNCHANGED <<w, lock, flock, last, fd, files, lines, type>>
  BY DEF Tick, taskVars, fileVars
<1>3. ASSUME NEW th \in Threads PROVE ThreadInv(th)'
  <2>1. w[th] \in WorkState /\ ThreadInv(th)
    BY DEF LogInv, LogTypes
  <2>2. ReadsClock(th)'
    BY <1>1, <1>2, <2>1 DEF ThreadInv, ReadsClock, WorkState
  <2> QED BY <1>2, <2>1, <2>2 DEF ThreadInv, HasLocks, Rotating, Checks, Rotates, Reopens, Stamp
<1>4. ASSUME NEW l \in Logs PROVE LogFile(l)'
  BY <1>2 DEF LogInv, LogFile, Dated, Reopened, Stamp
<1> QED BY <1>1, <1>3, <1>4 DEF LogInv

\* The calls of other threads that change neither a log nor OnWork.
LEMMA CallKeeps ==
  ASSUME LogInv, LogTypes', UNCHANGED <<now, w, lock, flock, last, fd, files, lines, type>>
  PROVE  LogInv'
<1>1. ASSUME NEW th \in Threads PROVE ThreadInv(th)'
  BY DEF LogInv, ThreadInv, HasLocks, Rotating, ReadsClock, Checks, Rotates, Reopens, Stamp
<1>2. ASSUME NEW l \in Logs PROVE LogFile(l)'
  BY DEF LogInv, LogFile, Dated, Reopened, Stamp
<1> QED BY <1>1, <1>2 DEF LogInv

LEMMA AddKeeps ==
  ASSUME LogInv, UNCHANGED type, NEW t \in Tasks, Add(t) \/ Del(t) PROVE LogInv'
<1>1. UNCHANGED <<now, w, lock, flock, last, fd, files, lines, logs>>
  BY DEF Add, Del, fileVars
<1>2. LogTypes'
  <2>1. CASE Add(t)
    <3>1. now + Interval[t] \in Nat
      BY TasksAssumption DEF LogInv, LogTypes
    <3>2. tasks' \subseteq Tasks /\ when' \in [Tasks -> Nat] /\ ran' \in [Tasks -> BOOLEAN]
      BY <2>1, <3>1 DEF LogInv, LogTypes, Add
    <3> QED BY <1>1, <3>2 DEF LogInv, LogTypes
  <2>2. CASE Del(t)
    BY <1>1, <2>2 DEF LogInv, LogTypes, Del
  <2> QED BY <2>1, <2>2
<1> QED BY <1>1, <1>2, CallKeeps

LEMMA RemoveKeeps ==
  ASSUME LogInv, UNCHANGED type, NEW l \in Logs, RemoveFileLog(l) PROVE LogInv'
<1>1. UNCHANGED <<now, w, lock, flock, last, fd, files, lines>>
  BY DEF RemoveFileLog, taskVars
<1>2. LogTypes'
  BY DEF LogInv, LogTypes, RemoveFileLog, taskVars
<1> QED BY <1>1, <1>2, CallKeeps

LEMMA EnterKeeps ==
  ASSUME LogInv, UNCHANGED type, NEW th \in Threads, Enter(th) PROVE LogInv'
<1> DEFINE v == [Out EXCEPT !.pc = "scan", !.start = now, !.left = tasks]
<1>1. /\ v \in WorkState /\ v.pc = "scan" /\ v.start = now /\ v.seen = 0
      /\ w' = [w EXCEPT ![th] = v] /\ lock = Nobody /\ lock' = th /\ w[th].pc = "out"
      /\ UNCHANGED <<now, last, tasks, when, ran, flock, logs, fd, files, lines, type>>
  BY DEF LogInv, LogTypes, WorkState, Out, Enter, fileVars
<1> HIDE DEF v
<1>2. w'[th] = v /\ \A o \in Threads : o # th => w'[o] = w[o]
  BY <1>1 DEF LogInv, LogTypes
<1>3. LogTypes'
  BY <1>1 DEF LogInv, LogTypes
<1>4. ThreadInv(th)'
  <2>1. now \in Nat
    BY DEF LogInv, LogTypes
  <2> QED BY <1>1, <1>2, <2>1 DEF ThreadInv, HasLocks, Rotating, ReadsClock, Checks, Rotates, Reopens
<1>5. \A l \in Logs : LogFile(l)'
  BY <1>1, <1>2, FilesRest
<1> QED BY <1>1, <1>2, <1>3, <1>4, <1>5, ThreadMoves

\* A step of the pass over tasks_ that only goes on to the next task.
LEMMA ScanGoesOn ==
  ASSUME LogInv, UNCHANGED <<type, now, lock, flock, last, logs, fd, files, lines>>, NEW th \in Threads,
         w[th].pc \in {"scan", "restart"}, NEW t,
         w' = [w EXCEPT ![th].pc = "scan", ![th].left = @ \ {t}], LogTypes'
  PROVE  LogInv'
<1> DEFINE v == [w[th] EXCEPT !.pc = "scan", !.left = @ \ {t}]
<1>1. w[th] \in WorkState /\ ThreadInv(th) /\ lock = th
  BY DEF LogInv, LogTypes, ThreadInv, HasLocks
<1>2. w' = [w EXCEPT ![th] = v] /\ v.pc = "scan" /\ v.start = w[th].start /\ v.seen = w[th].seen
  BY <1>1 DEF WorkState
<1> HIDE DEF v
<1>3. w'[th] = v /\ \A o \in Threads : o # th => w'[o] = w[o]
  BY <1>2 DEF LogInv, LogTypes
<1>4. ThreadInv(th)'
  BY <1>1, <1>2, <1>3 DEF ThreadInv, HasLocks, Rotating, ReadsClock, Checks, Rotates, Reopens
<1>5. \A l \in Logs : LogFile(l)'
  BY <1>3, FilesRest
<1> QED BY <1>1, <1>3, <1>4, <1>5, ThreadMoves

LEMMA ScanKeeps ==
  ASSUME LogInv, UNCHANGED type, NEW th \in Threads, NEW t \in Tasks, NotDue(th, t) \/ Run(th, t)
  PROVE  LogInv'
<1>1. w[th] \in WorkState /\ w[th].pc = "scan"
  BY DEF LogInv, LogTypes, NotDue, Run, Due
<1>2. w' = [w EXCEPT ![th].left = @ \ {t}]
  BY DEF NotDue, Run
<1>3. w' = [w EXCEPT ![th].pc = "scan", ![th].left = @ \ {t}]
  BY <1>1, <1>2 DEF WorkState
<1>4. UNCHANGED <<type, now, lock, flock, last, logs, fd, files, lines>>
  BY DEF NotDue, Run, taskVars, fileVars
<1>5. w' \in [Threads -> WorkState]
  BY <1>1, <1>2 DEF LogInv, LogTypes, WorkState
<1>6. tasks' \subseteq Tasks /\ when' = when /\ ran' \in [Tasks -> BOOLEAN]
  BY DEF LogInv, LogTypes, NotDue, Run, Erase, taskVars
<1>7. LogTypes'
  BY <1>4, <1>5, <1>6 DEF LogInv, LogTypes
<1> QED BY <1>1, <1>3, <1>4, <1>7, ScanGoesOn

LEMMA RestartKeeps ==
  ASSUME LogInv, UNCHANGED type, NEW th \in Threads, Restart(th) PROVE LogInv'
<1>1. w[th] \in WorkState /\ w[th].pc = "restart"
  BY DEF LogInv, LogTypes, Restart
<1>2. w' = [w EXCEPT ![th].pc = "scan", ![th].left = @ \ {Check}]
  BY DEF Restart
<1>3. UNCHANGED <<type, now, lock, flock, last, logs, fd, files, lines>>
  BY DEF Restart, fileVars
<1>4. w' \in [Threads -> WorkState]
  BY <1>1, <1>2 DEF LogInv, LogTypes, WorkState
<1>5. tasks' \subseteq Tasks /\ when' \in [Tasks -> Nat] /\ ran' = ran
  <2>1. now + Interval[Check] \in Nat
    BY TasksAssumption DEF LogInv, LogTypes
  <2> QED BY <2>1 DEF LogInv, LogTypes, Restart, Erase
<1>6. LogTypes'
  BY <1>3, <1>4, <1>5 DEF LogInv, LogTypes
<1> QED BY <1>1, <1>2, <1>3, <1>6, ScanGoesOn

LEMMA EndPassKeeps ==
  ASSUME LogInv, UNCHANGED type, NEW th \in Threads, EndPass(th) PROVE LogInv'
<1>1. /\ Out \in WorkState /\ Out.pc = "out" /\ Out.start = 0 /\ Out.seen = 0
      /\ w' = [w EXCEPT ![th] = Out] /\ lock' = Nobody /\ w[th].pc = "scan"
      /\ UNCHANGED <<now, last, tasks, when, ran, flock, logs, fd, files, lines, type>>
  BY DEF WorkState, Out, EndPass, fileVars
<1>2. w'[th] = Out /\ (\A o \in Threads : o # th => w'[o] = w[o]) /\ lock = th
  BY <1>1 DEF LogInv, LogTypes, ThreadInv, HasLocks
<1>3. LogTypes'
  BY <1>1 DEF LogInv, LogTypes
<1>4. ThreadInv(th)'
  <2>1. now \in Nat
    BY DEF LogInv, LogTypes
  <2> QED BY <1>1, <1>2, <2>1 DEF ThreadInv, HasLocks, Rotating, ReadsClock, Checks, Rotates, Reopens
<1>5. \A l \in Logs : LogFile(l)'
  BY <1>1, <1>2, FilesRest
<1> QED BY <1>1, <1>2, <1>3, <1>4, <1>5, ThreadMoves

\* The check reads the clock and what has changed.
LEMMA RunCheckKeeps ==
  ASSUME LogInv, UNCHANGED type, NEW th \in Threads, RunCheck(th) PROVE LogInv'
<1> DEFINE before == IF last = -1 THEN now ELSE last
           changed == (IF Minute(before) # Minute(now) THEN {"minute"} ELSE {}) \cup
                      (IF Hour(before) # Hour(now) THEN {"hour"} ELSE {}) \cup
                      (IF Day(before) # Day(now) THEN {"day"} ELSE {})
           goal == IF changed = {} THEN "restart" ELSE "check"
           v == [w[th] EXCEPT !.pc = goal, !.changed = changed, !.seen = now]
<1>1. w[th] \in WorkState /\ w[th].pc = "scan" /\ lock = th /\ ReadsClock(th)
  BY DEF LogInv, LogTypes, ThreadInv, HasLocks, RunCheck, Due
<1>2. now \in Nat /\ before \in Nat /\ before <= now /\ (last # -1 => last = before)
  BY DEF LogInv, LogTypes
<1>3. changed # {} => before # now
  OBVIOUS
<1>4. "day" \in changed => Day(before) # Day(now)
  OBVIOUS
<1>5. changed \subseteq {"minute", "hour", "day"}
  OBVIOUS
<1>6. last' = before /\ w' = [w EXCEPT ![th].pc = goal, ![th].changed = changed, ![th].seen = now]
  BY DEF RunCheck
<1>7. /\ ran' = [ran EXCEPT ![Check] = TRUE]
      /\ UNCHANGED <<now, tasks, when, lock, flock, logs, fd, files, lines>>
  BY DEF RunCheck
<1> HIDE DEF before, changed
<1>8. /\ v \in WorkState /\ w' = [w EXCEPT ![th] = v]
      /\ v.pc = goal /\ v.changed = changed /\ v.seen = now /\ v.start = w[th].start
  BY <1>1, <1>2, <1>5, <1>6 DEF WorkState
<1> HIDE DEF v
<1>9. w'[th] = v /\ \A o \in Threads : o # th => w'[o] = w[o]
  BY <1>8 DEF LogInv, LogTypes
<1>10. LogTypes'
  <2>1. w' \in [Threads -> WorkState]
    BY <1>8 DEF LogInv, LogTypes
  <2>2. ran' \in [Tasks -> BOOLEAN]
    BY <1>7 DEF LogInv, LogTypes
  <2>3. last' \in Nat \cup {-1} /\ last' <= now'
    BY <1>2, <1>6, <1>7
  <2> QED BY <1>7, <2>1, <2>2, <2>3 DEF LogInv, LogTypes
<1>11. ThreadInv(th)'
  <2>1. Checks(th)'
    <3>1. CASE changed # {}
      <4>1. now > before
        BY <1>2, <1>3, <3>1
      <4>2. "day" \in changed => Day(now) > Day(before)
        BY <1>2, <1>4, DaysGoOn
      <4> QED BY <1>2, <1>6, <1>8, <1>9, <4>1, <4>2 DEF Checks
    <3>2. CASE changed = {}
      BY <1>8, <1>9, <3>2 DEF Checks
    <3> QED BY <3>1, <3>2
  <2>2. v.pc \notin {"rotate", "open", "dup"} /\ v.pc # "open"
    BY <1>8
  <2>3. HasLocks(th)' /\ Rotates(th)' /\ Reopens(th)'
    BY <1>1, <1>7, <1>9, <2>2 DEF HasLocks, Rotating, Rotates, Reopens
  <2>4. ReadsClock(th)'
    BY <1>1, <1>2, <1>7, <1>8, <1>9 DEF ReadsClock
  <2> QED BY <2>1, <2>3, <2>4 DEF ThreadInv
<1>12. ASSUME NEW l \in Logs PROVE LogFile(l)'
  <2>1. Dated(l)'
    <3>1. Dated(l)
      BY DEF LogInv, LogFile
    <3>2. CASE last = -1
      <4>1. \A s \in DOMAIN files[l] : s = Live
        BY <3>1, <3>2 DEF Dated
      <4> QED BY <1>7, <4>1 DEF Dated
    <3>3. CASE last # -1
      BY <1>2, <1>6, <1>7, <3>1, <3>3 DEF Dated, Stamp
    <3> QED BY <3>2, <3>3
  <2>2. \A o \in Threads : w[o].pc = "dup" /\ w[o].log = l => w'[o].pc = "dup" /\ w'[o].log = l
    BY <1>1, <1>9
  <2> QED BY <1>7, <2>1, <2>2, LogRests
<1> QED BY <1>1, <1>7, <1>9, <1>10, <1>11, <1>12, ThreadMoves

\* The check takes lock_, and last_* becomes what it saw: all dates are before.
LEMMA CheckLockKeeps ==
  ASSUME LogInv, UNCHANGED type, NEW th \in Threads, CheckLock(th) PROVE LogInv'
<1> DEFINE v == [w[th] EXCEPT !.pc = "rotate", !.rotate = logs]
           seen == w[th].seen
<1>1. w[th] \in WorkState /\ w[th].pc = "check" /\ lock = th /\ ReadsClock(th) /\ Checks(th)
  BY DEF LogInv, LogTypes, ThreadInv, HasLocks, CheckLock
<1>2. /\ now \in Nat /\ last \in Nat /\ seen \in Nat /\ seen > last /\ seen <= now
      /\ "day" \in w[th].changed => Day(seen) > Day(last)
  BY <1>1 DEF LogInv, LogTypes, WorkState, Checks, ReadsClock
<1>3. /\ w' = [w EXCEPT ![th] = v] /\ v \in WorkState
      /\ v.pc = "rotate" /\ v.changed = w[th].changed /\ v.rotate = logs /\ v.start = w[th].start /\ v.seen = seen
  BY <1>1 DEF LogInv, LogTypes, WorkState, CheckLock
<1>4. /\ flock' = th /\ last' = seen
      /\ UNCHANGED <<now, tasks, when, ran, lock, logs, fd, files, lines, type>>
  BY DEF CheckLock, taskVars
<1> HIDE DEF v, seen
<1>5. w'[th] = v /\ \A o \in Threads : o # th => w'[o] = w[o]
  BY <1>3 DEF LogInv, LogTypes
<1>6. LogTypes'
  BY <1>2, <1>3, <1>4 DEF LogInv, LogTypes
<1>7. Day(last) \in Nat /\ Day(seen) \in Nat /\ Day(last) <= Day(seen)
  BY <1>2, DaysGoOn
<1>8. ASSUME NEW l \in Logs, NEW s \in DOMAIN files[l], s # Live
      PROVE  /\ s \in Nat /\ s <= Stamp(l)' /\ Stamp(l)' \in Nat
             /\ type[l] \in w[th].changed => s < Stamp(l)'
  <2>1. s \in Nat /\ s <= Stamp(l)
    BY <1>8 DEF LogInv, LogFile, Dated, AllLines
  <2>2. Stamp(l) \in Nat /\ Stamp(l)' \in Nat /\ Stamp(l) <= Stamp(l)'
    BY <1>2, <1>4, <1>7 DEF Stamp
  <2>3. type[l] \in w[th].changed => Stamp(l) < Stamp(l)'
    BY <1>2, <1>4, <1>7 DEF Stamp
  <2> QED BY <2>1, <2>2, <2>3
<1>9. ThreadInv(th)'
  <2>1. Rotates(th)'
    <3>1. logs \subseteq Logs
      BY DEF LogInv, LogTypes
    <3> QED BY <1>2, <1>3, <1>4, <1>5, <1>8, <3>1 DEF Rotates
  <2> QED BY <1>1, <1>2, <1>3, <1>4, <1>5, <2>1 DEF ThreadInv, HasLocks, Rotating, ReadsClock, Checks, Reopens
<1>10. ASSUME NEW l \in Logs PROVE LogFile(l)'
  <2>1. Dated(l)'
    BY <1>2, <1>4, <1>8 DEF Dated
  <2>2. \A o \in Threads : w[o].pc = "dup" /\ w[o].log = l => w'[o].pc = "dup" /\ w'[o].log = l
    BY <1>1, <1>5
  <2> QED BY <1>4, <2>1, <2>2, LogRests
<1> QED BY <1>1, <1>4, <1>5, <1>6, <1>9, <1>10, ThreadMoves

\* A log is done with: it was not to be rotated, or its rotation ended.
LEMMA NextLog ==
  ASSUME LogInv, NEW th \in Threads, Rotating(th), NEW l, w' = Next1(th, l), w[th].pc = "rotate" \/ l = w[th].log,
         UNCHANGED <<now, tasks, when, ran, lock, flock, last, logs, files, lines, type>>
  PROVE  /\ \A o \in Threads : o # th => w'[o] = w[o]
         /\ w'[th].pc = "rotate" /\ w' \in [Threads -> WorkState] /\ ThreadInv(th)'
<1> DEFINE v == [w[th] EXCEPT !.pc = "rotate", !.rotate = @ \ {l}]
<1>1. w[th] \in WorkState /\ ThreadInv(th) /\ lock = th /\ flock = th
  BY DEF LogInv, LogTypes, ThreadInv, HasLocks, Rotating
<1>2. /\ w' = [w EXCEPT ![th] = v] /\ v \in WorkState
      /\ v.pc = "rotate" /\ v.changed = w[th].changed /\ v.rotate = w[th].rotate \ {l}
      /\ v.start = w[th].start /\ v.seen = w[th].seen
  BY <1>1 DEF WorkState, Next1
<1> HIDE DEF v
<1>3. w'[th] = v /\ \A o \in Threads : o # th => w'[o] = w[o]
  BY <1>2 DEF LogInv, LogTypes
<1>4. w' \in [Threads -> WorkState]
  BY <1>2 DEF LogInv, LogTypes
<1>5. Rotates(th)'
  BY <1>1, <1>2, <1>3 DEF ThreadInv, Rotates, Rotating, Stamp
<1>6. HasLocks(th)' /\ ReadsClock(th)' /\ Checks(th)' /\ Reopens(th)'
  BY <1>1, <1>2, <1>3 DEF ThreadInv, HasLocks, Rotating, ReadsClock, Checks, Reopens
<1> QED BY <1>2, <1>3, <1>4, <1>5, <1>6 DEF ThreadInv

LEMMA NoRotateKeeps ==
  ASSUME LogInv, UNCHANGED type, NEW th \in Threads, NEW l \in Logs, NoRotate(th, l) \/ RenameFails(th, l)
  PROVE  LogInv'
<1>1. w[th].pc = "rotate" /\ w' = Next1(th, l)
  BY DEF NoRotate, RenameFails
<1>2. UNCHANGED <<now, tasks, when, ran, lock, flock, last, logs, fd, files, lines, type>>
  BY DEF NoRotate, RenameFails, taskVars, fileVars
<1>3. Rotating(th) /\ lock = th
  BY <1>1 DEF LogInv, ThreadInv, HasLocks, Rotating
<1>4. /\ \A o \in Threads : o # th => w'[o] = w[o]
      /\ w' \in [Threads -> WorkState] /\ ThreadInv(th)'
  BY <1>1, <1>2, <1>3, NextLog
<1>5. LogTypes'
  BY <1>2, <1>4 DEF LogInv, LogTypes
<1>6. \A k \in Logs : LogFile(k)'
  BY <1>1, <1>2, <1>4, FilesRest
<1> QED BY <1>2, <1>3, <1>4, <1>5, <1>6, ThreadMoves

LEMMA OpenFailsKeeps ==
  ASSUME LogInv, UNCHANGED type, NEW th \in Threads, OpenFails(th) PROVE LogInv'
<1>1. w[th].pc = "open" /\ w' = Next1(th, w[th].log)
  BY DEF OpenFails
<1>2. UNCHANGED <<now, tasks, when, ran, lock, flock, last, logs, fd, files, lines, type>>
  BY DEF OpenFails, taskVars, fileVars
<1>3. Rotating(th) /\ lock = th
  BY <1>1 DEF LogInv, ThreadInv, HasLocks, Rotating
<1>4. /\ \A o \in Threads : o # th => w'[o] = w[o]
      /\ w' \in [Threads -> WorkState] /\ ThreadInv(th)'
  BY <1>1, <1>2, <1>3, NextLog
<1>5. LogTypes'
  BY <1>2, <1>4 DEF LogInv, LogTypes
<1>6. \A k \in Logs : LogFile(k)'
  BY <1>1, <1>2, <1>4, FilesRest
<1> QED BY <1>2, <1>3, <1>4, <1>5, <1>6, ThreadMoves

LEMMA CheckDoneKeeps ==
  ASSUME LogInv, UNCHANGED type, NEW th \in Threads, CheckDone(th) PROVE LogInv'
<1> DEFINE v == [w[th] EXCEPT !.pc = "restart"]
<1>1. w[th] \in WorkState /\ w[th].pc = "rotate" /\ lock = th /\ ReadsClock(th)
  BY DEF LogInv, LogTypes, ThreadInv, HasLocks, CheckDone
<1>2. /\ w' = [w EXCEPT ![th] = v] /\ v \in WorkState
      /\ v.pc = "restart" /\ v.start = w[th].start /\ v.seen = w[th].seen
  BY <1>1 DEF WorkState, CheckDone
<1>3. UNCHANGED <<now, tasks, when, ran, lock, last, logs, fd, files, lines, type>>
  BY DEF CheckDone, taskVars
<1> HIDE DEF v
<1>4. w'[th] = v /\ \A o \in Threads : o # th => w'[o] = w[o]
  BY <1>2 DEF LogInv, LogTypes
<1>5. LogTypes'
  BY <1>2, <1>3 DEF LogInv, LogTypes
<1>6. ThreadInv(th)'
  BY <1>1, <1>2, <1>3, <1>4 DEF ThreadInv, HasLocks, Rotating, ReadsClock, Checks, Rotates, Reopens
<1>7. \A l \in Logs : LogFile(l)'
  BY <1>1, <1>3, <1>4, FilesRest
<1> QED BY <1>1, <1>3, <1>4, <1>5, <1>6, <1>7, ThreadMoves

-----------------------------------------------------------------------------
(* The steps that change files or descriptors.                             *)

\* The other logs stay correct when the thread that moves is not at their dup2.
LEMMA OtherLogsRest ==
  ASSUME LogInv, NEW l \in Logs, UNCHANGED <<last, type>>, NEW k \in Logs, k # l,
         files'[k] = files[k], fd'[k] = fd[k], lines'[k] = lines[k],
         \A o \in Threads : w[o].pc = "dup" /\ w[o].log = k => w'[o].pc = "dup" /\ w'[o].log = k
  PROVE  LogFile(k)'
<1>1. Dated(k)'
  BY DEF LogInv, LogFile, Dated, Stamp
<1> QED BY <1>1, LogRests

LEMMA RenameKeeps ==
  ASSUME LogInv, UNCHANGED type, NEW th \in Threads, NEW l \in Logs, Rename(th, l) PROVE LogInv'
<1> DEFINE f == files[l]
           d == Stamp(l)
           g == Put([s \in DOMAIN f \ {Live} |-> f[s]], d, f[Live])
           v == [w[th] EXCEPT !.pc = "open", !.log = l]
<1>1. w[th] \in WorkState /\ w[th].pc = "rotate" /\ lock = th /\ flock = th /\ ThreadInv(th)
  BY DEF LogInv, LogTypes, ThreadInv, HasLocks, Rename, Rotating
<1>2. l \in w[th].rotate /\ type[l] \in w[th].changed /\ Live \in DOMAIN f /\ AllLines(f, lines[l]) /\ lines[l] \in Nat
  BY DEF LogInv, LogTypes, LogFile, Rename, Changed
<1>3. d \in Nat /\ \A s \in DOMAIN f \ {Live} : s < d
  <2>1. last \in Nat /\ \A s \in DOMAIN f : s # Live => s < d
    BY <1>1, <1>2 DEF ThreadInv, Rotates, Rotating
  <2>2. d \in Nat
    BY <2>1, DaysGoOn DEF Stamp
  <2> QED BY <2>1, <2>2
<1>4. fd[l] = Live
  <2>1. \A o \in Threads : w[o].pc # "dup"
    BY <1>1, Alone
  <2> QED BY <1>2, <2>1 DEF LogInv, LogFile, Reopened
<1>5. /\ files' = [files EXCEPT ![l] = g] /\ fd' = [fd EXCEPT ![l] = d]
      /\ w' = [w EXCEPT ![th].pc = "open", ![th].log = l]
      /\ UNCHANGED <<now, tasks, when, ran, lock, flock, last, logs, lines, type>>
  BY <1>4 DEF Rename, taskVars, LogInv, LogTypes
<1>6. /\ AllLines(g, lines[l]) /\ DOMAIN g = (DOMAIN f \ {Live}) \cup {d}
      /\ Live \notin DOMAIN g /\ WritesLast(g, d)
  BY <1>2, <1>3, RenamedKeeps
<1>7. /\ w' = [w EXCEPT ![th] = v] /\ v \in WorkState /\ v.pc = "open" /\ v.log = l
      /\ v.changed = w[th].changed /\ v.rotate = w[th].rotate /\ v.start = w[th].start /\ v.seen = w[th].seen
  BY <1>1, <1>5 DEF WorkState
<1> HIDE DEF v, g
<1>8. w'[th] = v /\ \A o \in Threads : o # th => w'[o] = w[o]
  BY <1>7 DEF LogInv, LogTypes
<1>9. /\ files'[l] = g /\ fd'[l] = d /\ files' = [k \in Logs |-> files'[k]]
      /\ \A k \in Logs : k # l => files'[k] = files[k] /\ fd'[k] = fd[k]
  BY <1>5 DEF LogInv, LogTypes
<1> HIDE DEF f, d
<1>10. LogTypes'
  <2>1. w' \in [Threads -> WorkState] /\ fd' \in [Logs -> Int]
    <3>1. d \in Int /\ fd' = [fd EXCEPT ![l] = d]
      BY <1>3, <1>5
    <3> QED BY <1>7, <3>1 DEF LogInv, LogTypes
  <2>2. UNCHANGED <<now, tasks, when, ran, last, logs, lines, type>>
    BY <1>5
  <2>3. files' = [k \in Logs |-> files'[k]]
    BY <1>9
  <2> QED BY <2>1, <2>2, <2>3 DEF LogInv, LogTypes
<1>11. ThreadInv(th)'
  <2>1. Rotates(th)'
    <3>1. last \in Nat /\ \A k \in w[th].rotate : type[k] \in w[th].changed =>
                             \A s \in DOMAIN files[k] : s # Live => s < Stamp(k)
      BY <1>1 DEF ThreadInv, Rotates, Rotating
    <3>2. w[th].rotate \subseteq Logs
      BY <1>1 DEF WorkState
    <3> QED BY <1>5, <1>7, <1>8, <1>9, <3>1, <3>2 DEF Rotates, Stamp
  <2>2. Reopens(th)'
    BY <1>3, <1>6, <1>7, <1>8, <1>9 DEF Reopens, Live
  <2> QED BY <1>1, <1>5, <1>7, <1>8, <2>1, <2>2 DEF ThreadInv, HasLocks, ReadsClock, Checks
<1>12. LogFile(l)'
  <2>1. Dated(l)'
    <3>1. last \in Nat /\ d <= d /\ \A s \in DOMAIN g : s # Live => s <= d
      <4>1. last \in Nat
        BY <1>1 DEF ThreadInv, Rotates, Rotating
      <4> QED BY <1>3, <1>6, <4>1 DEF WritesLast, Live
    <3>2. Stamp(l)' = d
      BY <1>5 DEF Stamp, d
    <3> QED BY <1>5, <1>9, <3>1, <3>2 DEF Dated
  <2>2. Reopened(l)'
    BY <1>6, <1>9 DEF Reopened
  <2> QED BY <1>5, <1>6, <1>9, <2>1, <2>2 DEF LogFile
<1>13. \A k \in Logs : k # l => LogFile(k)'
  BY <1>1, <1>5, <1>8, <1>9, OtherLogsRest
<1> QED BY <1>1, <1>5, <1>8, <1>10, <1>11, <1>12, <1>13, ThreadMoves

LEMMA OpenNewKeeps ==
  ASSUME LogInv, UNCHANGED type, NEW th \in Threads, OpenNew(th) PROVE LogInv'
<1>1. w[th] \in WorkState /\ w[th].pc = "open" /\ lock = th /\ flock = th /\ ThreadInv(th)
  BY DEF LogInv, LogTypes, ThreadInv, HasLocks, OpenNew, Rotating
<1>0. PICK l \in Logs : l = w[th].log
  BY <1>1 DEF ThreadInv, Reopens
<1> DEFINE f == files[l]
           g == Put(f, Live, <<>>)
           v == [w[th] EXCEPT !.pc = "dup"]
<1>2. fd[l] # Live /\ Live \notin DOMAIN f
  BY <1>0, <1>1 DEF ThreadInv, Reopens
<1>3. AllLines(f, lines[l]) /\ lines[l] \in Nat /\ WritesLast(f, fd[l]) /\ Dated(l)
  BY DEF LogInv, LogTypes, LogFile
<1>4. AllLines(g, lines[l]) /\ DOMAIN g = DOMAIN f \cup {Live} /\ WritesLast(g, fd[l])
  BY <1>2, <1>3, CreatedKeeps
<1>5. /\ files' = [files EXCEPT ![l] = g] /\ w' = [w EXCEPT ![th].pc = "dup"]
      /\ UNCHANGED <<now, tasks, when, ran, lock, flock, last, logs, fd, lines, type>>
  BY <1>0 DEF OpenNew, taskVars
<1>6. /\ w' = [w EXCEPT ![th] = v] /\ v \in WorkState /\ v.pc = "dup" /\ v.log = l
      /\ v.changed = w[th].changed /\ v.rotate = w[th].rotate /\ v.start = w[th].start /\ v.seen = w[th].seen
  BY <1>0, <1>1, <1>5 DEF WorkState
<1> HIDE DEF v, g
<1>7. w'[th] = v /\ \A o \in Threads : o # th => w'[o] = w[o]
  BY <1>6 DEF LogInv, LogTypes
<1>8. /\ files'[l] = g /\ files' = [k \in Logs |-> files'[k]]
      /\ \A k \in Logs : k # l => files'[k] = files[k]
  BY <1>2, <1>5 DEF LogInv, LogTypes
<1>9. LogTypes'
  BY <1>5, <1>6, <1>8 DEF LogInv, LogTypes
<1>10. ThreadInv(th)'
  <2>1. Rotates(th)'
    <3>1. last \in Nat /\ \A k \in w[th].rotate : type[k] \in w[th].changed /\ k # l =>
                             \A s \in DOMAIN files[k] : s # Live => s < Stamp(k)
      BY <1>0, <1>1 DEF ThreadInv, Rotates, Rotating
    <3>2. w[th].rotate \subseteq Logs
      BY <1>1 DEF WorkState
    <3> QED BY <1>5, <1>6, <1>7, <1>8, <3>1, <3>2 DEF Rotates, Stamp
  <2>2. Reopens(th)'
    BY <1>2, <1>5, <1>6, <1>7 DEF Reopens
  <2> QED BY <1>1, <1>5, <1>6, <1>7, <2>1, <2>2 DEF ThreadInv, HasLocks, ReadsClock, Checks
<1>11. LogFile(l)'
  <2>1. Dated(l)'
    BY <1>3, <1>4, <1>5, <1>8 DEF Dated, Stamp
  <2>2. Reopened(l)'
    BY <1>6, <1>7 DEF Reopened
  <2> QED BY <1>4, <1>5, <1>8, <2>1, <2>2 DEF LogFile
<1>12. \A k \in Logs : k # l => LogFile(k)'
  BY <1>1, <1>2, <1>5, <1>7, <1>8, OtherLogsRest
<1> QED BY <1>1, <1>5, <1>7, <1>9, <1>10, <1>11, <1>12, ThreadMoves

LEMMA DupKeeps ==
  ASSUME LogInv, UNCHANGED type, NEW th \in Threads, Dup(th) PROVE LogInv'
<1>0. w[th].pc = "dup" /\ w[th].log \in Logs
  BY DEF Dup, LogInv, ThreadInv, Reopens
<1> PICK l \in Logs : l = w[th].log
  BY <1>0
<1>1. w[th].pc = "dup" /\ w' = Next1(th, l) /\ fd' = [fd EXCEPT ![l] = Live]
  BY DEF Dup
<1>2. UNCHANGED <<now, tasks, when, ran, lock, flock, last, logs, files, lines, type>>
  BY DEF Dup, taskVars
<1>3. Rotating(th) /\ lock = th
  BY <1>1 DEF LogInv, ThreadInv, HasLocks, Rotating
<1>4. /\ \A o \in Threads : o # th => w'[o] = w[o]
      /\ w' \in [Threads -> WorkState] /\ ThreadInv(th)'
  BY <1>1, <1>2, <1>3, NextLog
<1>5. fd'[l] = Live /\ fd' \in [Logs -> Int] /\ \A k \in Logs : k # l => fd'[k] = fd[k]
  BY <1>1, <1>3 DEF LogInv, LogTypes, Live
<1>6. LogTypes'
  BY <1>2, <1>4, <1>5 DEF LogInv, LogTypes
<1>7. LogFile(l)'
  BY <1>2, <1>3, <1>5 DEF LogInv, LogFile, WritesLast, Reopened, Dated, Stamp
<1>8. \A k \in Logs : k # l => LogFile(k)'
  <2> SUFFICES ASSUME NEW k \in Logs, k # l PROVE LogFile(k)'
    OBVIOUS
  <2>1. files'[k] = files[k] /\ fd'[k] = fd[k] /\ lines'[k] = lines[k]
    BY <1>2, <1>5
  <2>2. \A o \in Threads : w[o].pc = "dup" /\ w[o].log = k => w'[o].pc = "dup" /\ w'[o].log = k
    BY <1>4
  <2> QED BY <1>2, <1>3, <2>1, <2>2, OtherLogsRest
<1> QED BY <1>2, <1>3, <1>4, <1>6, <1>7, <1>8, ThreadMoves

\* A call of a thread that does not go through OnWork, on a log that no
\* rotation has in hand, or that keeps its files' dates and its descriptor.
LEMMA GetFileLogKeeps ==
  ASSUME LogInv, UNCHANGED type, NEW l \in Logs, GetFileLog(l) PROVE LogInv'
<1> DEFINE f == files[l]
           g == Put(f, Live, <<>>)
<1>1. /\ flock = Nobody /\ logs' = logs \cup {l} /\ fd' = [fd EXCEPT ![l] = Live]
      /\ files' = IF Live \in DOMAIN f THEN files ELSE [files EXCEPT ![l] = g]
      /\ UNCHANGED <<now, tasks, when, ran, lock, w, flock, last, lines, type>>
  BY DEF GetFileLog, taskVars
<1>2. AllLines(f, lines[l]) /\ lines[l] \in Nat /\ Dated(l)
  BY DEF LogInv, LogTypes, LogFile
<1>3. Live \notin DOMAIN f => AllLines(g, lines[l]) /\ DOMAIN g = DOMAIN f \cup {Live}
  BY <1>2, CreatedKeeps
<1> HIDE DEF g
<1>4. /\ fd'[l] = Live /\ fd' \in [Logs -> Int] /\ files' = [k \in Logs |-> files'[k]]
      /\ files'[l] = IF Live \in DOMAIN f THEN f ELSE g
      /\ \A k \in Logs : k # l => files'[k] = files[k] /\ fd'[k] = fd[k]
  BY <1>1 DEF LogInv, LogTypes, Live
<1>5. LogTypes'
  BY <1>1, <1>4 DEF LogInv, LogTypes
<1>6. ASSUME NEW th \in Threads PROVE ThreadInv(th)'
  <2>1. ThreadInv(th) /\ ~Rotating(th)
    BY <1>1, ThreadsAssumption DEF LogInv, ThreadInv, HasLocks
  <2> QED BY <1>1, <2>1 DEF ThreadInv, HasLocks, Rotating, ReadsClock, Checks, Rotates, Reopens
<1>7. LogFile(l)'
  <2>1. AllLines(files'[l], lines'[l]) /\ WritesLast(files'[l], fd'[l])
    BY <1>1, <1>2, <1>3, <1>4 DEF WritesLast
  <2>2. Dated(l)'
    BY <1>1, <1>2, <1>3, <1>4 DEF Dated, Stamp
  <2> QED BY <1>4, <2>1, <2>2 DEF LogFile, Reopened
<1>8. \A k \in Logs : k # l => LogFile(k)'
  BY <1>1, <1>4, OtherLogsRest
<1> QED BY <1>5, <1>6, <1>7, <1>8 DEF LogInv

LEMMA WriteLogKeeps ==
  ASSUME LogInv, UNCHANGED type, NEW l \in Logs, WriteLog(l) PROVE LogInv'
<1> DEFINE f == files[l]
           d == fd[l]
           n == lines[l]
           g == [f EXCEPT ![d] = Append(f[d], n + 1)]
<1>1. AllLines(f, n) /\ n \in Nat /\ Dated(l) /\ WritesLast(f, d) /\ Reopened(l) /\ d \in DOMAIN f
  BY DEF LogInv, LogTypes, LogFile, WriteLog
<1>2. AllLines(g, n + 1) /\ DOMAIN g = DOMAIN f /\ WritesLast(g, d)
  BY <1>1, WriteKeeps
<1>3. lines' = [lines EXCEPT ![l] = n + 1] /\ lines'[l] = n + 1 /\ lines' \in [Logs -> Nat]
  BY <1>1 DEF WriteLog, LogInv, LogTypes
<1>4. /\ files' = [files EXCEPT ![l] = g]
      /\ UNCHANGED <<now, tasks, when, ran, lock, w, flock, last, logs, fd, type>>
  BY <1>3 DEF WriteLog, taskVars
<1> HIDE DEF g
<1>5. /\ files' = [k \in Logs |-> files'[k]] /\ files'[l] = g
      /\ \A k \in Logs : k # l => files'[k] = files[k] /\ lines'[k] = lines[k]
  BY <1>3, <1>4 DEF LogInv, LogTypes
<1>6. LogTypes'
  BY <1>3, <1>4, <1>5 DEF LogInv, LogTypes
<1>7. \A k \in Logs : DOMAIN files'[k] = DOMAIN files[k]
  BY <1>2, <1>5
<1>8. ASSUME NEW th \in Threads PROVE ThreadInv(th)'
  <2>1. ThreadInv(th) /\ w[th].rotate \subseteq Logs
    BY DEF LogInv, LogTypes, WorkState
  <2>2. Rotates(th)'
    BY <1>4, <1>7, <2>1 DEF ThreadInv, Rotates, Rotating, Stamp
  <2>3. Reopens(th)'
    BY <1>4, <1>7, <2>1 DEF ThreadInv, Reopens
  <2> QED BY <1>4, <2>1, <2>2, <2>3 DEF ThreadInv, HasLocks, Rotating, ReadsClock, Checks
<1>9. LogFile(l)'
  <2>1. Dated(l)' /\ Reopened(l)'
    BY <1>1, <1>4, <1>7 DEF Dated, Reopened, Stamp
  <2> QED BY <1>2, <1>3, <1>4, <1>5, <2>1 DEF LogFile
<1>10. \A k \in Logs : k # l => LogFile(k)'
  BY <1>4, <1>5, OtherLogsRest
<1> QED BY <1>6, <1>8, <1>9, <1>10 DEF LogInv

-----------------------------------------------------------------------------
(* The theorems.                                                           *)

LEMMA StepKeeps == LogInv /\ [LogNext]_logVars => LogInv'
<1> SUFFICES ASSUME LogInv, [LogNext]_logVars PROVE LogInv'
  OBVIOUS
<1>1. CASE Tick
  BY <1>1, TickKeeps
<1>2. CASE Work
  <2>1. PICK th \in Threads : TaskWork(th)
    BY <1>2 DEF Work
  <2>2. UNCHANGED type
    BY <1>2 DEF Work
  <2>3. ASSUME NEW t \in Tasks, NotDue(th, t) \/ Run(th, t) PROVE LogInv'
    BY <2>2, <2>3, ScanKeeps
  <2>4. ASSUME NEW l \in Logs, NoRotate(th, l) \/ RenameFails(th, l) PROVE LogInv'
    BY <2>2, <2>4, NoRotateKeeps
  <2>5. ASSUME NEW l \in Logs, Rename(th, l) PROVE LogInv'
    BY <2>2, <2>5, RenameKeeps
  <2> QED BY <2>1, <2>2, <2>3, <2>4, <2>5, EnterKeeps, RunCheckKeeps, RestartKeeps, EndPassKeeps,
             CheckLockKeeps, OpenNewKeeps, OpenFailsKeeps, DupKeeps, CheckDoneKeeps DEF TaskWork
<1>3. CASE Callers
  <2>1. UNCHANGED type
    BY <1>3 DEF Callers
  <2>2. ASSUME NEW t \in Tasks, Add(t) \/ Del(t) PROVE LogInv'
    BY <2>1, <2>2, AddKeeps
  <2>3. ASSUME NEW l \in Logs, GetFileLog(l) \/ RemoveFileLog(l) \/ WriteLog(l) PROVE LogInv'
    BY <2>1, <2>3, GetFileLogKeeps, RemoveKeeps, WriteLogKeeps
  <2> QED BY <1>3, <2>2, <2>3 DEF Callers
<1>4. CASE UNCHANGED logVars
  <2>1. UNCHANGED <<now, w, lock, flock, last, fd, files, lines, type>> /\ LogTypes'
    BY <1>4 DEF LogInv, LogTypes, logVars, taskVars, fileVars
  <2> QED BY <2>1, CallKeeps
<1> QED BY <1>1, <1>2, <1>3, <1>4 DEF LogNext

\* The inductive invariant: what a thread has read of the clock is not later
\* than it, a check that goes on to rotate gives each log a date later than all
\* it has, and the descriptor writes to the last file, for any threads, logs,
\* tasks and calendar.
THEOREM LogsInvariant == LogSpec => []LogInv
<1>1. LogInit => LogInv
  BY InitKeeps
<1>2. LogInv /\ [LogNext]_logVars => LogInv'
  BY StepKeeps
<1> QED BY <1>1, <1>2, PTL DEF LogSpec

\* No line is lost, moved before an earlier one or written twice, whoever
\* writes between the steps of a rotation and wherever it fails (FileLog::Rotate).
THEOREM LogsNothingLost == LogSpec => []NothingLost
<1>1. LogInv => NothingLost
  <2> SUFFICES ASSUME LogInv, NEW l \in Logs
               PROVE  /\ UNION {Range(files[l][s]) : s \in DOMAIN files[l]} = 1..lines[l]
                      /\ \A s \in DOMAIN files[l] : \A m, n \in DOMAIN files[l][s] :
                           m < n => files[l][s][m] < files[l][s][n]
                      /\ \A s, d \in DOMAIN files[l] :
                           Earlier(s, d) => \A i \in Range(files[l][s]), j \in Range(files[l][d]) : i < j
    BY DEF NothingLost
  <2>1. AllLines(files[l], lines[l]) /\ lines[l] \in Nat
    BY DEF LogInv, LogTypes, LogFile
  <2> QED BY <2>1, WholeIsInOrder
<1> QED BY <1>1, LogsInvariant, PTL

\* A task that TaskMgr drops was deleted or has run, and is not the one that
\* checks the logs: Restart makes it due again, not before this pass began.
THEOREM LogsErasedOnlyWhenDone == LogSpec => ErasedOnlyWhenDone
<1>1. LogInv /\ [LogNext]_logVars => [\A t \in tasks \ tasks' : Del(t) \/ (ran'[t] /\ t # Check)]_logVars
  <2> SUFFICES ASSUME LogInv, LogNext, NEW t \in tasks \ tasks'
               PROVE  Del(t) \/ (ran'[t] /\ t # Check)
    OBVIOUS
  <2>1. tasks' # tasks
    OBVIOUS
  <2>2. CASE Tick
    BY <2>1, <2>2 DEF Tick, taskVars
  <2>3. CASE Work
    <3>1. PICK th \in Threads : TaskWork(th)
      BY <2>3 DEF Work
    <3>2. CASE Restart(th)
      <4>1. when'[Check] = now + Interval[Check] /\ Interval[Check] \in Nat
        BY <3>2, TasksAssumption DEF LogInv, LogTypes, Restart
      <4>2. w[th].start \in Nat /\ w[th].start <= now /\ now \in Nat
        BY DEF LogInv, LogTypes, WorkState, ThreadInv, ReadsClock
      <4>3. ~(when'[Check] < w[th].start)
        BY <4>1, <4>2
      <4> QED BY <2>1, <3>2, <4>3 DEF Restart, Erase
    <3>3. CASE \E s \in Tasks : Run(th, s)
      <4>1. PICK s \in Tasks : Run(th, s)
        BY <3>3
      <4>2. t = s
        BY <4>1 DEF Run, Erase
      <4>3. ran'[s] = TRUE /\ s # Check
        BY <4>1 DEF Run, LogInv, LogTypes
      <4> QED BY <4>2, <4>3
    <3>4. CASE ~Restart(th) /\ ~(\E s \in Tasks : Run(th, s))
      BY <2>1, <3>1, <3>4
         DEF TaskWork, Enter, RunCheck, EndPass, CheckLock, OpenNew, OpenFails, Dup, CheckDone, NotDue,
             NoRotate, Rename, RenameFails, taskVars
    <3> QED BY <3>2, <3>3, <3>4
  <2>4. CASE Callers
    <3>1. ASSUME NEW s \in Tasks, Add(s) PROVE FALSE
      BY <3>1 DEF Add
    <3>2. ASSUME NEW s \in Tasks, Del(s) PROVE Del(t)
      <4>1. t = s
        BY <3>2 DEF Del
      <4> QED BY <3>2, <4>1
    <3>3. ASSUME NEW l \in Logs, GetFileLog(l) \/ RemoveFileLog(l) \/ WriteLog(l) PROVE FALSE
      BY <2>1, <3>3 DEF GetFileLog, RemoveFileLog, WriteLog, taskVars
    <3> QED BY <2>4, <3>1, <3>2, <3>3 DEF Callers
  <2> QED BY <2>2, <2>3, <2>4 DEF LogNext
<1> QED BY <1>1, LogsInvariant, PTL DEF LogSpec, ErasedOnlyWhenDone
=============================================================================
