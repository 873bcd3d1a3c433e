------------------------- MODULE MessageQueueProofs -------------------------
(***************************************************************************)
(* What TLAPS proves about MemMgr and MessageQueue: the lists of dope      *)
(* vectors, the arrays they describe, who owns them, and the message       *)
(* queues, for any program, any pool and any queues.                       *)
(***************************************************************************)
EXTENDS MessageQueue, FiniteSetTheorems, WellFoundedInduction, TLAPS

\* A DV or none, as links and slots hold it.
Ids == DVs \cup {NOT_A_DS_ID}

\* The records that MemMgr passes around.
Memories ==
  [Head : Ids, Tail : Ids, FreeHead : Ids, Link : [DVs -> Ids], BackLink : [DVs -> Ids],
   Offset : [DVs -> Nat], ElemSize : [DVs -> Nat], Count : [DVs -> Nat], DataspaceSize : Nat]

-----------------------------------------------------------------------------
(***************************************************************************)
(* Sequences of DVs.                                                       *)
(***************************************************************************)

\* A sequence in which nothing is twice.
Distinct(u) == u \in Seq(DVs) /\ \A i, j \in 1 .. Len(u) : u[i] = u[j] => i = j

\* u with its k-th member taken out.
Without(u, k) == [i \in 1 .. Len(u) - 1 |-> IF i < k THEN u[i] ELSE u[i + 1]]

\* The members of a sequence of DVs.
LEMMA Ranges ==
  ASSUME NEW u \in Seq(DVs)
  PROVE  /\ Len(u) \in Nat /\ DOMAIN u = 1 .. Len(u)
         /\ \A i \in 1 .. Len(u) : u[i] \in DVs /\ u[i] \in Range_(u)
         /\ Range_(u) \subseteq DVs
         /\ \A d \in Range_(u) : \E i \in 1 .. Len(u) : u[i] = d
BY DEF Range_

\* Taking out the k-th member leaves the others, in their order.
LEMMA WithoutSeq ==
  ASSUME NEW u, Distinct(u), NEW k \in 1 .. Len(u)
  PROVE  /\ Distinct(Without(u, k)) /\ Len(Without(u, k)) = Len(u) - 1
         /\ \A i \in 1 .. Len(u) - 1 : Without(u, k)[i] = IF i < k THEN u[i] ELSE u[i + 1]
         /\ Range_(Without(u, k)) = Range_(u) \ {u[k]}
<1> DEFINE w == Without(u, k)
<1>1. u \in Seq(DVs) /\ Len(u) \in Nat /\ DOMAIN u = 1 .. Len(u)
  BY DEF Distinct
<1>2. Len(u) - 1 \in Nat /\ k \in Nat
  BY <1>1
<1>3. \A i \in 1 .. Len(u) - 1 : w[i] = IF i < k THEN u[i] ELSE u[i + 1]
  BY DEF Without
<1>4. w \in Seq(DVs) /\ Len(w) = Len(u) - 1 /\ DOMAIN w = 1 .. Len(u) - 1
  <2>1. w \in [1 .. Len(u) - 1 -> DVs]
    BY <1>1 DEF Without
  <2>2. QED
    BY <2>1, <1>2
<1> HIDE DEF w
<1>5. \A i, j \in 1 .. Len(w) : w[i] = w[j] => i = j
  BY <1>1, <1>2, <1>3, <1>4 DEF Distinct
<1>6. Range_(w) = Range_(u) \ {u[k]}
  <2>1. ASSUME NEW x \in Range_(w) PROVE x \in Range_(u) \ {u[k]}
    <3>1. PICK i \in 1 .. Len(u) - 1 : w[i] = x
      BY <1>4 DEF Range_
    <3>2. CASE i < k
      BY <3>1, <3>2, <1>1, <1>2, <1>3 DEF Range_, Distinct
    <3>3. CASE ~(i < k)
      <4>1. i + 1 \in 1 .. Len(u) /\ i + 1 # k
        BY <3>3, <1>1, <1>2
      <4>2. QED
        BY <3>1, <3>3, <4>1, <1>1, <1>2, <1>3 DEF Range_, Distinct
    <3>4. QED
      BY <3>2, <3>3
  <2>2. ASSUME NEW x \in Range_(u) \ {u[k]} PROVE x \in Range_(w)
    <3>1. PICK i \in 1 .. Len(u) : u[i] = x
      BY <1>1 DEF Range_
    <3>2. CASE i < k
      <4>1. i \in 1 .. Len(u) - 1 /\ w[i] = x
        BY <3>1, <3>2, <1>1, <1>2, <1>3
      <4>2. QED
        BY <4>1, <1>4 DEF Range_
    <3>3. CASE ~(i < k)
      <4>1. i - 1 \in 1 .. Len(u) - 1 /\ w[i - 1] = x
        <5>1. i # k
          BY <2>2, <3>1
        <5>2. i > k /\ i - 1 \in 1 .. Len(u) - 1 /\ ~(i - 1 < k) /\ (i - 1) + 1 = i
          BY <5>1, <3>1, <3>3, <1>1, <1>2
        <5>3. QED
          BY <5>2, <1>3, <3>1
      <4>2. QED
        BY <4>1, <1>4 DEF Range_
    <3>4. QED
      BY <3>2, <3>3
  <2>3. QED
    BY <2>1, <2>2
<1>7. QED
  BY <1>3, <1>4, <1>5, <1>6 DEF Distinct, w

\* A new DV at the end of a sequence.
LEMMA AppendSeq ==
  ASSUME NEW u, Distinct(u), NEW d \in DVs, d \notin Range_(u)
  PROVE  /\ Distinct(Append(u, d)) /\ Len(Append(u, d)) = Len(u) + 1
         /\ \A i \in 1 .. Len(u) : Append(u, d)[i] = u[i]
         /\ Append(u, d)[Len(u) + 1] = d
         /\ Range_(Append(u, d)) = Range_(u) \cup {d}
<1> DEFINE w == Append(u, d)
<1>1. u \in Seq(DVs) /\ Len(u) \in Nat /\ DOMAIN u = 1 .. Len(u)
  BY DEF Distinct
<1>2. /\ w \in Seq(DVs) /\ Len(w) = Len(u) + 1 /\ DOMAIN w = 1 .. Len(u) + 1
      /\ \A i \in 1 .. Len(u) : w[i] = u[i]
      /\ w[Len(u) + 1] = d
  BY <1>1
<1> HIDE DEF w
<1>3. \A i, j \in 1 .. Len(w) : w[i] = w[j] => i = j
  BY <1>1, <1>2 DEF Distinct, Range_
<1>4. Range_(w) = Range_(u) \cup {d}
  <2>1. Range_(w) \subseteq Range_(u) \cup {d}
    BY <1>1, <1>2 DEF Range_
  <2>2. ASSUME NEW x \in Range_(u) PROVE x \in Range_(w)
    <3>1. PICK i \in 1 .. Len(u) : u[i] = x
      BY <1>1 DEF Range_
    <3>2. i \in DOMAIN w /\ w[i] = x
      BY <3>1, <1>1, <1>2
    <3>3. QED
      BY <3>2 DEF Range_
  <2>3. d \in Range_(w)
    <3>1. Len(u) + 1 \in DOMAIN w
      BY <1>1, <1>2
    <3>2. QED
      BY <3>1, <1>2 DEF Range_
  <2>4. QED
    BY <2>1, <2>2, <2>3
<1>5. QED
  BY <1>2, <1>3, <1>4 DEF Distinct, w

\* d in front of u.
Before(d, u) == [i \in 1 .. Len(u) + 1 |-> IF i = 1 THEN d ELSE u[i - 1]]

\* A new DV in front of a sequence.
LEMMA BeforeSeq ==
  ASSUME NEW u, Distinct(u), NEW d \in DVs, d \notin Range_(u)
  PROVE  /\ Distinct(Before(d, u)) /\ Len(Before(d, u)) = Len(u) + 1
         /\ \A i \in 1 .. Len(u) + 1 : Before(d, u)[i] = IF i = 1 THEN d ELSE u[i - 1]
         /\ Range_(Before(d, u)) = Range_(u) \cup {d}
<1> DEFINE w == Before(d, u)
<1>1. u \in Seq(DVs) /\ Len(u) \in Nat /\ DOMAIN u = 1 .. Len(u)
  BY DEF Distinct
<1>2. \A i \in 1 .. Len(u) + 1 : w[i] = IF i = 1 THEN d ELSE u[i - 1]
  BY DEF Before
<1>3. w \in Seq(DVs) /\ Len(w) = Len(u) + 1 /\ DOMAIN w = 1 .. Len(u) + 1
  <2>1. w \in [1 .. Len(u) + 1 -> DVs]
    BY <1>1 DEF Before
  <2>2. QED
    BY <2>1, <1>1
<1> HIDE DEF w
<1>4. \A i, j \in 1 .. Len(w) : w[i] = w[j] => i = j
  <2> SUFFICES ASSUME NEW i \in 1 .. Len(w), NEW j \in 1 .. Len(w), w[i] = w[j]
               PROVE  i = j
    OBVIOUS
  <2>1. \A k \in 1 .. Len(w) : k # 1 => k - 1 \in 1 .. Len(u) /\ w[k] = u[k - 1] /\ w[k] # d
    BY <1>1, <1>2, <1>3 DEF Range_
  <2>2. i = 1 <=> j = 1
    BY <2>1, <1>2, <1>3, <1>1
  <2>3. CASE i # 1
    <3>1. i - 1 = j - 1
      BY <2>1, <2>2, <2>3 DEF Distinct
    <3>2. QED
      BY <3>1, <1>1, <1>3
  <2>4. QED
    BY <2>2, <2>3
<1>5. Range_(w) = Range_(u) \cup {d}
  <2>1. ASSUME NEW x \in Range_(w) PROVE x \in Range_(u) \cup {d}
    BY <1>1, <1>2, <1>3 DEF Range_
  <2>2. ASSUME NEW x \in Range_(u) PROVE x \in Range_(w)
    <3>1. PICK i \in 1 .. Len(u) : u[i] = x
      BY <1>1 DEF Range_
    <3>2. i + 1 \in DOMAIN w /\ w[i + 1] = x
      BY <3>1, <1>1, <1>2, <1>3
    <3>3. QED
      BY <3>2 DEF Range_
  <2>3. d \in Range_(w)
    <3>1. 1 \in DOMAIN w /\ w[1] = d
      BY <1>1, <1>2, <1>3
    <3>2. QED
      BY <3>1 DEF Range_
  <2>4. QED
    BY <2>1, <2>2, <2>3
<1>6. QED
  BY <1>2, <1>3, <1>4, <1>5 DEF Distinct, w

-----------------------------------------------------------------------------
(***************************************************************************)
(* Doubly linked lists.                                                    *)
(***************************************************************************)

\* The marks for no DV and for an element that was never written are no DVs.
LEMMA NotADV ==
  /\ NOT_A_DS_ID \notin DVs /\ STALE \notin DVs /\ NOT_A_DS_ID # STALE
  /\ MaxDV \in Nat /\ 0 \in DVs
BY MemMgrConstants DEF DVs, NOT_A_DS_ID, STALE

\* The links L and the links back B make up the list u, which starts at first.
Chain(L, B, first, u) ==
  /\ Distinct(u)
  /\ first = IF Len(u) = 0 THEN NOT_A_DS_ID ELSE u[1]
  /\ \A i \in 1 .. Len(u) : L[u[i]] = IF i = Len(u) THEN NOT_A_DS_ID ELSE u[i + 1]
  /\ \A i \in 1 .. Len(u) : B[u[i]] = IF i = 1 THEN NOT_A_DS_ID ELSE u[i - 1]

\* A list does not depend on links of others.
LEMMA ChainFrame ==
  ASSUME NEW L, NEW B, NEW L1, NEW B1, NEW first, NEW u, Chain(L, B, first, u),
         \A d \in Range_(u) : L1[d] = L[d] /\ B1[d] = B[d]
  PROVE  Chain(L1, B1, first, u)
<1>1. \A i \in 1 .. Len(u) : u[i] \in Range_(u)
  BY Ranges DEF Chain, Distinct
<1>2. QED
  BY <1>1 DEF Chain

\* The first link of a chain leads to its first member, or nowhere if it is empty.
LEMMA ChainFirst ==
  ASSUME NEW L, NEW B, NEW first, NEW u, Chain(L, B, first, u)
  PROVE  /\ first \in DVs => Len(u) >= 1 /\ first = u[1] /\ first \in Range_(u)
         /\ first = NOT_A_DS_ID => Len(u) = 0 /\ Range_(u) = {}
         /\ first \in Ids
<1>1. Len(u) \in Nat /\ u \in Seq(DVs)
  BY DEF Chain, Distinct
<1>2. Len(u) # 0 => 1 \in 1 .. Len(u)
  BY <1>1
<1>3. Len(u) # 0 => u[1] \in DVs /\ u[1] \in Range_(u)
  BY <1>1, <1>2, Ranges
<1>4. Len(u) = 0 => Range_(u) = {}
  BY <1>1 DEF Range_
<1>5. QED
  BY <1>1, <1>3, <1>4, NotADV DEF Chain, Ids

\* Taking a member out joins its neighbours.
LEMMA ChainWithout ==
  ASSUME NEW L, NEW B, NEW L1, NEW B1, NEW first, NEW u, Chain(L, B, first, u),
         NEW k \in 1 .. Len(u), NEW prev, NEW post,
         prev = IF k = 1 THEN NOT_A_DS_ID ELSE B[u[k]], post = L[u[k]],
         \A d \in Range_(u) \ {u[k]} : L1[d] = IF d = prev THEN post ELSE L[d],
         \A d \in Range_(u) \ {u[k]} : B1[d] = IF d = post THEN prev ELSE B[d]
  PROVE  Chain(L1, B1, IF k = 1 THEN post ELSE first, Without(u, k))
<1> DEFINE w == Without(u, k)
           n == Len(u)
<1>1. Distinct(u) /\ u \in Seq(DVs) /\ n \in Nat /\ k \in Nat
  BY DEF Chain, Distinct
<1>2. /\ Distinct(w) /\ Len(w) = n - 1
      /\ \A i \in 1 .. n - 1 : w[i] = IF i < k THEN u[i] ELSE u[i + 1]
      /\ Range_(w) = Range_(u) \ {u[k]}
  BY <1>1, WithoutSeq
<1>3. \A i \in 1 .. n - 1 : w[i] \in Range_(u) \ {u[k]}
  BY <1>2, Ranges DEF Distinct
<1>4. /\ prev = IF k = 1 THEN NOT_A_DS_ID ELSE u[k - 1]
      /\ post = IF k = n THEN NOT_A_DS_ID ELSE u[k + 1]
  BY DEF Chain
<1>5. \A i \in 1 .. n : u[i] \in DVs /\ u[i] # NOT_A_DS_ID
  BY <1>1, Ranges, NotADV
<1> HIDE DEF w, n
<1>6. ASSUME NEW i \in 1 .. n - 1
      PROVE  /\ L1[w[i]] = IF i = n - 1 THEN NOT_A_DS_ID ELSE w[i + 1]
             /\ B1[w[i]] = IF i = 1 THEN NOT_A_DS_ID ELSE w[i - 1]
  <2>1. /\ L1[w[i]] = IF w[i] = prev THEN post ELSE L[w[i]]
        /\ B1[w[i]] = IF w[i] = post THEN prev ELSE B[w[i]]
    BY <1>3
  <2>2. \A p, q \in 1 .. n : u[p] = u[q] => p = q
    BY <1>1 DEF Distinct, n
  <2>3. \A p \in 1 .. n : /\ L[u[p]] = IF p = n THEN NOT_A_DS_ID ELSE u[p + 1]
                          /\ B[u[p]] = IF p = 1 THEN NOT_A_DS_ID ELSE u[p - 1]
    BY DEF Chain, n
  <2>4. w[i] = prev <=> (i < k /\ i = k - 1)
    <3>1. CASE k = 1
      BY <3>1, <1>1, <1>2, <1>4, <1>5, SMTT(30)
    <3>2. CASE k # 1 /\ i < k
      <4>1. w[i] = u[i] /\ prev = u[k - 1] /\ k - 1 \in 1 .. n /\ i \in 1 .. n
        BY <3>2, <1>1, <1>2, <1>4, k \in 1 .. n DEF n
      <4>2. QED
        BY <4>1, <2>2, <3>2, <1>1
    <3>3. CASE k # 1 /\ ~(i < k)
      <4>1. w[i] = u[i + 1] /\ prev = u[k - 1] /\ k - 1 \in 1 .. n /\ i + 1 \in 1 .. n
        BY <3>3, <1>1, <1>2, <1>4, k \in 1 .. n DEF n
      <4>2. i + 1 # k - 1
        BY <3>3, <1>1
      <4>3. QED
        BY <4>1, <4>2, <2>2, <3>3, <1>1
    <3>4. QED
      BY <3>1, <3>2, <3>3
  <2>5. w[i] = post <=> i = k
    <3>1. CASE k = n
      <4>1. i # k
        BY <3>1, <1>1
      <4>2. w[i] \in DVs
        BY <1>2, <1>5, <1>1
      <4>3. QED
        BY <3>1, <4>1, <4>2, <1>4, NotADV
    <3>2. CASE k # n /\ i < k
      <4>0. k + 1 \in 1 .. n /\ i \in 1 .. n
        BY <3>2, <1>1, k \in 1 .. n DEF n
      <4>1. w[i] = u[i] /\ post = u[k + 1] /\ k + 1 \in 1 .. n /\ i \in 1 .. n
        BY <3>2, <1>2, <1>4, <4>0
      <4>2. i # k + 1 /\ i # k
        BY <3>2, <1>1
      <4>3. QED
        BY <4>1, <4>2, <2>2, <3>2, <1>1
    <3>3. CASE k # n /\ ~(i < k)
      <4>1. w[i] = u[i + 1] /\ post = u[k + 1] /\ k + 1 \in 1 .. n /\ i + 1 \in 1 .. n
        BY <3>3, <1>1, <1>2, <1>4, k \in 1 .. n DEF n
      <4>2. QED
        BY <4>1, <2>2, <3>3, <1>1
    <3>4. QED
      BY <3>1, <3>2, <3>3
  <2>6. L1[w[i]] = IF i = n - 1 THEN NOT_A_DS_ID ELSE w[i + 1]
    <3>1. CASE i < k - 1
      <4>1. L1[w[i]] = L[u[i]] /\ i \in 1 .. n /\ i # n /\ i # n - 1
        BY <3>1, <2>1, <2>4, <1>1, <1>2, k \in 1 .. n DEF n
      <4>2. w[i + 1] = u[i + 1]
        BY <3>1, <1>1, <1>2, k \in 1 .. n DEF n
      <4>3. QED
        BY <4>1, <4>2, <2>3
    <3>2. CASE i = k - 1
      <4>1. L1[w[i]] = post /\ (k = n <=> i = n - 1)
        BY <3>2, <2>1, <2>4, <1>1
      <4>2. k # n => w[i + 1] = u[k + 1]
        <5>1. ASSUME k # n PROVE i + 1 \in 1 .. n - 1 /\ ~(i + 1 < k) /\ i + 2 = k + 1
          BY <5>1, <3>2, <1>1, k \in 1 .. n DEF n
        <5>2. QED
          BY <5>1, <1>2, <1>1
      <4>3. QED
        BY <4>1, <4>2, <1>4
    <3>3. CASE i >= k
      <4>1. L1[w[i]] = L[u[i + 1]] /\ i + 1 \in 1 .. n /\ (i + 1 = n <=> i = n - 1)
        BY <3>3, <2>1, <2>4, <1>1, <1>2, k \in 1 .. n DEF n
      <4>2. i # n - 1 => w[i + 1] = u[(i + 1) + 1]
        BY <3>3, <1>1, <1>2
      <4>3. QED
        BY <4>1, <4>2, <2>3
    <3>4. QED
      BY <3>1, <3>2, <3>3, <1>1
  <2>7. B1[w[i]] = IF i = 1 THEN NOT_A_DS_ID ELSE w[i - 1]
    <3>1. CASE i < k
      <4>1. B1[w[i]] = B[u[i]] /\ i \in 1 .. n
        BY <3>1, <2>1, <2>5, <1>1, <1>2, k \in 1 .. n DEF n
      <4>2. i # 1 => w[i - 1] = u[i - 1]
        <5>1. ASSUME i # 1 PROVE i - 1 \in 1 .. n - 1 /\ i - 1 < k
          BY <5>1, <3>1, <1>1
        <5>2. QED
          BY <5>1, <1>2
      <4>3. QED
        BY <4>1, <4>2, <2>3
    <3>2. CASE i = k
      <4>1. B1[w[i]] = prev
        BY <3>2, <2>1, <2>5
      <4>2. k # 1 => w[i - 1] = u[k - 1]
        <5>1. ASSUME k # 1 PROVE i - 1 \in 1 .. n - 1 /\ i - 1 < k /\ i - 1 = k - 1
          BY <5>1, <3>2, <1>1
        <5>2. QED
          BY <5>1, <1>2
      <4>3. QED
        BY <4>1, <4>2, <1>4, <3>2
    <3>3. CASE i > k
      <4>1. B1[w[i]] = B[u[i + 1]] /\ i + 1 \in 1 .. n /\ i + 1 # 1 /\ i # 1
        BY <3>3, <2>1, <2>5, <1>1, <1>2, k \in 1 .. n DEF n
      <4>2. w[i - 1] = u[(i + 1) - 1]
        <5>1. i - 1 \in 1 .. n - 1 /\ ~(i - 1 < k) /\ (i - 1) + 1 = (i + 1) - 1
          BY <3>3, <1>1, k \in 1 .. n DEF n
        <5>2. QED
          BY <5>1, <1>2
      <4>3. QED
        BY <4>1, <4>2, <2>3
    <3>4. QED
      BY <3>1, <3>2, <3>3, <1>1
  <2>8. QED
    BY <2>6, <2>7
<1>7. (IF k = 1 THEN post ELSE first) = IF n - 1 = 0 THEN NOT_A_DS_ID ELSE w[1]
  <2>1. k \in 1 .. n
    BY DEF n
  <2>2. first = u[1]
    BY <2>1, <1>1 DEF Chain, n
  <2>3. CASE n = 1
    BY <2>1, <2>3, <1>4
  <2>4. CASE n # 1
    <3>1. w[1] = IF 1 < k THEN u[1] ELSE u[2]
      BY <1>1, <1>2, <2>1, <2>4
    <3>2. QED
      BY <3>1, <2>1, <2>2, <2>4, <1>1, <1>4
  <2>5. QED
    BY <2>3, <2>4
<1>8. QED
  <2>1. Chain(L1, B1, IF k = 1 THEN post ELSE first, w)
    BY <1>2, <1>6, <1>7 DEF Chain
  <2>2. QED
    BY <2>1 DEF w

\* A new member at the end.
LEMMA ChainAppend ==
  ASSUME NEW L, NEW B, NEW L1, NEW B1, NEW first, NEW u, Chain(L, B, first, u),
         Len(u) >= 1, NEW d \in DVs, d \notin Range_(u),
         \A x \in Range_(u) : L1[x] = IF x = u[Len(u)] THEN d ELSE L[x],
         \A x \in Range_(u) : B1[x] = B[x],
         L1[d] = NOT_A_DS_ID, B1[d] = u[Len(u)]
  PROVE  Chain(L1, B1, first, Append(u, d))
<1> DEFINE w == Append(u, d)
           n == Len(u)
<1>1. Distinct(u) /\ u \in Seq(DVs) /\ n \in Nat /\ n >= 1
  BY DEF Chain, Distinct
<1>2. /\ Distinct(w) /\ Len(w) = n + 1 /\ w[n + 1] = d
      /\ \A i \in 1 .. n : w[i] = u[i]
  BY <1>1, AppendSeq
<1>3. \A i \in 1 .. n : u[i] \in Range_(u)
  BY <1>1, Ranges
<1>4. \A i, j \in 1 .. n : u[i] = u[j] => i = j
  BY <1>1 DEF Distinct
<1>5. /\ \A i \in 1 .. n : L[u[i]] = IF i = n THEN NOT_A_DS_ID ELSE u[i + 1]
      /\ \A i \in 1 .. n : B[u[i]] = IF i = 1 THEN NOT_A_DS_ID ELSE u[i - 1]
      /\ first = u[1]
  BY <1>1 DEF Chain
<1> HIDE DEF w
<1>6. \A i \in 1 .. n + 1 : L1[w[i]] = IF i = n + 1 THEN NOT_A_DS_ID ELSE w[i + 1]
  <2>1. ASSUME NEW i \in 1 .. n PROVE L1[w[i]] = w[i + 1]
    <3>1. CASE i = n
      BY <3>1, <1>1, <1>2, <1>3
    <3>2. CASE i # n
      BY <3>2, <1>1, <1>2, <1>3, <1>4, <1>5
    <3>3. QED
      BY <3>1, <3>2
  <2>2. QED
    BY <2>1, <1>1, <1>2
<1>7. \A i \in 1 .. n + 1 : B1[w[i]] = IF i = 1 THEN NOT_A_DS_ID ELSE w[i - 1]
  <2>1. ASSUME NEW i \in 1 .. n PROVE B1[w[i]] = IF i = 1 THEN NOT_A_DS_ID ELSE w[i - 1]
    <3>1. w[i] = u[i] /\ B1[u[i]] = B[u[i]]
      BY <1>2, <1>3
    <3>2. CASE i = 1
      BY <3>1, <3>2, <1>5
    <3>3. CASE i # 1
      <4>1. i - 1 \in 1 .. n
        BY <3>3, <1>1
      <4>2. w[i - 1] = u[i - 1]
        BY <4>1, <1>2
      <4>3. QED
        BY <3>1, <3>3, <4>2, <1>5
    <3>4. QED
      BY <3>2, <3>3
  <2>2. B1[w[n + 1]] = w[n]
    BY <1>1, <1>2
  <2>3. \A i \in 1 .. n + 1 : i \in 1 .. n \/ (i = n + 1 /\ i - 1 = n /\ i # 1)
    BY <1>1
  <2>4. QED
    BY <2>1, <2>2, <2>3
<1>8. QED
  <2>1. Chain(L1, B1, first, w)
    BY <1>1, <1>2, <1>5, <1>6, <1>7 DEF Chain
  <2>2. QED
    BY <2>1 DEF w

\* A new member at the front.
LEMMA ChainBefore ==
  ASSUME NEW L, NEW B, NEW L1, NEW B1, NEW first, NEW u, Chain(L, B, first, u),
         NEW d \in DVs, d \notin Range_(u),
         \A x \in Range_(u) : L1[x] = L[x],
         \A x \in Range_(u) : B1[x] = IF x = first THEN d ELSE B[x],
         L1[d] = first, B1[d] = NOT_A_DS_ID
  PROVE  Chain(L1, B1, d, Before(d, u))
<1> DEFINE w == Before(d, u)
           n == Len(u)
<1>1. Distinct(u) /\ u \in Seq(DVs) /\ n \in Nat
  BY DEF Chain, Distinct
<1>2. /\ Distinct(w) /\ Len(w) = n + 1
      /\ \A i \in 1 .. n + 1 : w[i] = IF i = 1 THEN d ELSE u[i - 1]
  BY <1>1, BeforeSeq
<1>3. \A i \in 1 .. n : u[i] \in Range_(u)
  BY <1>1, Ranges
<1>4. \A i, j \in 1 .. n : u[i] = u[j] => i = j
  BY <1>1 DEF Distinct
<1>5. /\ \A i \in 1 .. n : L[u[i]] = IF i = n THEN NOT_A_DS_ID ELSE u[i + 1]
      /\ \A i \in 1 .. n : B[u[i]] = IF i = 1 THEN NOT_A_DS_ID ELSE u[i - 1]
      /\ first = IF n = 0 THEN NOT_A_DS_ID ELSE u[1]
  BY <1>1 DEF Chain
<1> HIDE DEF w, n
<1>6. w[1] = d
  BY <1>1, <1>2
<1>7. \A i \in 1 .. n : w[i + 1] = u[i]
  BY <1>1, <1>2
<1>8. ASSUME NEW i \in 1 .. n
      PROVE  /\ L1[w[i + 1]] = IF i = n THEN NOT_A_DS_ID ELSE w[i + 2]
             /\ B1[w[i + 1]] = w[i]
  <2>1. L1[w[i + 1]] = IF i = n THEN NOT_A_DS_ID ELSE u[i + 1]
    BY <1>7, <1>3, <1>5
  <2>2. i # n => w[i + 2] = u[i + 1]
    BY <1>1, <1>7
  <2>3. CASE i = 1
    BY <2>3, <1>1, <1>3, <1>5, <1>6, <1>7
  <2>4. CASE i # 1
    <3>1. i - 1 \in 1 .. n /\ w[i] = u[i - 1]
      BY <2>4, <1>1, <1>7
    <3>2. u[i] # first
      BY <2>4, <1>1, <1>4, <1>5
    <3>3. QED
      BY <3>1, <3>2, <2>4, <1>3, <1>5, <1>7, <2>1, <2>2
  <2>5. QED
    BY <2>1, <2>2, <2>3, <2>4
<1>9. \A i \in 1 .. n + 1 : L1[w[i]] = IF i = n + 1 THEN NOT_A_DS_ID ELSE w[i + 1]
  <2>1. ASSUME NEW i \in 1 .. n + 1
        PROVE  L1[w[i]] = IF i = n + 1 THEN NOT_A_DS_ID ELSE w[i + 1]
    <3>1. CASE i = 1
      BY <3>1, <1>1, <1>5, <1>6, <1>7
    <3>2. CASE i # 1
      <4>1. i - 1 \in 1 .. n /\ (i - 1) + 1 = i /\ (i - 1) + 2 = i + 1 /\ (i - 1 = n <=> i = n + 1)
        BY <3>2, <1>1
      <4>2. QED
        BY <4>1, <1>8
    <3>3. QED
      BY <3>1, <3>2
  <2>2. QED
    BY <2>1
<1>10. \A i \in 1 .. n + 1 : B1[w[i]] = IF i = 1 THEN NOT_A_DS_ID ELSE w[i - 1]
  <2>1. ASSUME NEW i \in 1 .. n + 1
        PROVE  B1[w[i]] = IF i = 1 THEN NOT_A_DS_ID ELSE w[i - 1]
    <3>1. CASE i = 1
      BY <3>1, <1>6
    <3>2. CASE i # 1
      <4>1. i - 1 \in 1 .. n /\ (i - 1) + 1 = i
        BY <3>2, <1>1
      <4>2. QED
        BY <4>1, <3>2, <1>8
    <3>3. QED
      BY <3>1, <3>2
  <2>2. QED
    BY <2>1
<1>11. QED
  <2>1. Chain(L1, B1, d, w)
    BY <1>1, <1>2, <1>6, <1>9, <1>10 DEF Chain
  <2>2. QED
    BY <2>1 DEF w

\* A set of natural numbers has a least element.
LEMMA LeastNat ==
  ASSUME NEW T, T \in SUBSET Nat, T # {}
  PROVE  \E n \in T : \A k \in T : n <= k
<1>1. PICK b \in T : TRUE
  OBVIOUS
<1>2. IsFiniteSet(0 .. b)
  BY <1>1, FS_Interval
<1>3. IsWellFoundedOn(StrictSubsetOrdering(0 .. b), FiniteSubsetsOf(0 .. b))
  BY <1>2, FS_StrictSubsetOrderingWellFounded
<1> DEFINE D == {A \in SUBSET (0 .. b) : \E n \in T : n <= b /\ A = 0 .. n}
<1>4. D \subseteq FiniteSubsetsOf(0 .. b)
  BY <1>2, FS_Subset DEF FiniteSubsetsOf
<1>5. 0 .. b \in D
  BY <1>1
<1> HIDE DEF D
<1>6. PICK A \in D : \A B \in D : <<B, A>> \notin StrictSubsetOrdering(0 .. b)
  BY <1>3, <1>4, <1>5, WFMin
<1>7. PICK n \in T : n <= b /\ A = 0 .. n
  BY <1>6 DEF D
<1>8. \A k \in T : n <= k
  <2> SUFFICES ASSUME NEW k \in T, k < n PROVE FALSE
    BY <1>7
  <2>1. 0 .. k \in D
    BY <1>7 DEF D
  <2>2. 0 .. k \subseteq A /\ 0 .. k # A
    <3>1. n \notin 0 .. k /\ n \in A
      BY <1>7
    <3> QED BY <1>7, <3>1
  <2>3. QED
    BY <1>6, <2>1, <2>2, <1>4, <1>2 DEF StrictSubsetOrdering, D
<1>9. QED
  BY <1>8

\* A walk along a list meets its members.
LEMMA WalkOfList ==
  ASSUME NEW M, NEW first, NEW s, Chain(M.Link, M.BackLink, first, s), Len(s) <= MaxDV + 1
  PROVE  Walk(M, first) = s
<1> DEFINE limit == MaxDV + 2
           steps == 1 .. limit
           L == M.Link
           After(x) == IF x = NOT_A_DS_ID THEN NOT_A_DS_ID ELSE L[x]
           g == [n \in steps |-> IF n <= Len(s) THEN s[n] ELSE NOT_A_DS_ID]
           met[n \in steps] ==
             IF n = 1 THEN first
             ELSE LET last == met[n - 1]
                  IN  IF last = NOT_A_DS_ID THEN NOT_A_DS_ID ELSE M.Link[last]
<1>0. Walk(M, first) = [n \in {i \in steps : met[i] # NOT_A_DS_ID} |-> met[n]]
  BY DEF Walk
<1>1. s \in Seq(DVs) /\ \A i, j \in 1 .. Len(s) : s[i] = s[j] => i = j
  BY DEF Chain, Distinct
<1>2. /\ first = IF Len(s) = 0 THEN NOT_A_DS_ID ELSE s[1]
      /\ \A i \in 1 .. Len(s) : L[s[i]] = IF i = Len(s) THEN NOT_A_DS_ID ELSE s[i + 1]
  BY DEF Chain
<1>3. Len(s) \in Nat /\ limit \in Nat /\ Len(s) < limit
  BY <1>1, NotADV
<1> HIDE DEF limit, L
<1>4. \A i \in 1 .. Len(s) : s[i] \in DVs /\ s[i] # NOT_A_DS_ID
  BY <1>1, NotADV
<1>5. ASSUME NEW n \in steps
      PROVE  g[n] = IF n = 1 THEN first ELSE After(g[n - 1])
  <2>1. CASE n = 1
    BY <2>1, <1>2, <1>3
  <2>2. CASE n # 1 /\ n <= Len(s)
    BY <2>2, <1>2, <1>3, <1>4
  <2>3. CASE n # 1 /\ n = Len(s) + 1
    BY <2>3, <1>2, <1>3, <1>4
  <2>4. CASE n # 1 /\ n > Len(s) + 1
    BY <2>4, <1>3
  <2>5. QED
    BY <1>3, <2>1, <2>2, <2>3, <2>4
<1>6. g = [n \in steps |-> IF n = 1 THEN first ELSE After(g[n - 1])]
  <2> HIDE DEF After
  <2> DEFINE f == [n \in steps |-> IF n = 1 THEN first ELSE After(g[n - 1])]
  <2>1. \A n \in steps : g[n] = f[n]
    BY <1>5
  <2>2. QED
    BY <2>1
<1>7. \E f : f = [n \in steps |-> IF n = 1 THEN first ELSE After(f[n - 1])]
  <2> HIDE DEF g, After
  <2>1. QED
    BY <1>6
<1>8. met = [n \in steps |-> IF n = 1 THEN first ELSE After(met[n - 1])]
  BY <1>7 DEF L
<1> HIDE DEF met, After
<1>9. \A n \in steps : met[n] = IF n = 1 THEN first ELSE After(met[n - 1])
  BY <1>8
<1> HIDE DEF g
<1>10. \A n \in steps : met[n] = g[n]
  <2> DEFINE wrong == {n \in steps : met[n] # g[n]}
  <2> SUFFICES ASSUME wrong # {} PROVE FALSE
    OBVIOUS
  <2>1. wrong \in SUBSET Nat
    BY <1>3
  <2>2. PICK n \in wrong : \A k \in wrong : n <= k
    BY <2>1, LeastNat
  <2>3. n \in steps /\ n \in Nat /\ n >= 1 /\ met[n] # g[n]
    BY <1>3
  <2>4. CASE n = 1
    BY <2>3, <2>4, <1>5, <1>9
  <2>5. CASE n # 1
    <3>1. n - 1 \in steps /\ n - 1 \notin wrong
      BY <2>2, <2>3, <2>5, <1>3
    <3>2. met[n - 1] = g[n - 1]
      BY <3>1
    <3>3. QED
      BY <3>2, <2>3, <2>5, <1>5, <1>9
  <2>6. QED
    BY <2>4, <2>5
<1>11. {i \in steps : met[i] # NOT_A_DS_ID} = 1 .. Len(s)
  BY <1>3, <1>4, <1>10 DEF g
<1>12. \A n \in 1 .. Len(s) : met[n] = s[n]
  BY <1>3, <1>10 DEF g
<1>13. [n \in {i \in steps : met[i] # NOT_A_DS_ID} |-> met[n]] = s
  <2> DEFINE D == {i \in steps : met[i] # NOT_A_DS_ID}
             w == [n \in D |-> met[n]]
  <2>1. D = 1 .. Len(s)
    BY <1>11
  <2> HIDE DEF D
  <2>2. w = [n \in 1 .. Len(s) |-> s[n]]
    BY <2>1, <1>12
  <2>3. s = [n \in 1 .. Len(s) |-> s[n]]
    BY <1>1
  <2>4. w = s
    BY <2>2, <2>3
  <2>5. QED
    BY <2>4 DEF D
<1>14. QED
  BY <1>0, <1>13

-----------------------------------------------------------------------------
(***************************************************************************)
(* Recursive functions.                                                    *)
(***************************************************************************)

\* What holds of the first value and is passed on by every step holds of all.
LEMMA RecursionInv ==
  ASSUME NEW n \in Nat, NEW T, NEW f, f[0] \in T[0],
         \A i \in 1 .. n : f[i - 1] \in T[i - 1] => f[i] \in T[i]
  PROVE  \A i \in 0 .. n : f[i] \in T[i]
<1> DEFINE wrong == {i \in 0 .. n : f[i] \notin T[i]}
<1> SUFFICES ASSUME wrong # {} PROVE FALSE
  OBVIOUS
<1>1. PICK i \in wrong : \A k \in wrong : i <= k
  <2>1. wrong \in SUBSET Nat
    OBVIOUS
  <2>2. QED
    BY <2>1, LeastNat
<1>2. i # 0 /\ i \in 1 .. n /\ i - 1 \in 0 .. n
  OBVIOUS
<1>3. i - 1 \notin wrong
  BY <1>1, <1>2
<1>4. QED
  BY <1>2, <1>3

\* The function f on 0 .. n that begins with b and goes on with the steps G[i].
Recursive(f, n, b, G) == f = [i \in 0 .. n |-> IF i = 0 THEN b ELSE G[i][f[i - 1]]]

\* G[i] is a step from T[i - 1] to T[i].
Steps(n, T, b, G) ==
  n \in Nat /\ b \in T[0] /\ \A i \in 1 .. n : \A x \in T[i - 1] : G[i][x] \in T[i]

\* Every value of f up to n is in its set.
Within(f, n, T) == \A i \in 0 .. n : f[i] \in T[i]

\* Steps define a function.
LEMMA Recursion ==
  ASSUME NEW n, NEW T, NEW G, NEW b, Steps(n, T, b, G)
  PROVE  \E f : Recursive(f, n, b, G) /\ Within(f, n, T)
<1>0. n \in Nat /\ b \in T[0] /\ \A i \in 1 .. n : \A x \in T[i - 1] : G[i][x] \in T[i]
  BY DEF Steps
<1> DEFINE Upto(k) == \E f : /\ f = [i \in 0 .. k |-> IF i = 0 THEN b ELSE G[i][f[i - 1]]]
                             /\ \A i \in 0 .. k : f[i] \in T[i]
           wrong == {m \in 0 .. n : ~Upto(m)}
<1> SUFFICES ASSUME wrong # {} PROVE FALSE
  <2>1. n \in 0 .. n
    BY <1>0
  <2>2. QED
    BY <2>1 DEF Recursive, Within
<1>1. PICK k \in wrong : \A j \in wrong : k <= j
  <2>1. wrong \in SUBSET Nat
    BY <1>0
  <2> HIDE DEF wrong
  <2>2. QED
    BY <2>1, LeastNat
<1>2. k \in 0 .. n /\ k \in Nat /\ ~Upto(k)
  BY <1>0
<1>3. CASE k = 0
  <2> DEFINE f == [i \in 0 .. 0 |-> b]
  <2>1. f = [i \in 0 .. 0 |-> IF i = 0 THEN b ELSE G[i][f[i - 1]]]
    <3> DEFINE g == [i \in 0 .. 0 |-> IF i = 0 THEN b ELSE G[i][f[i - 1]]]
    <3>1. \A i \in 0 .. 0 : f[i] = g[i]
      OBVIOUS
    <3>2. QED
      BY <3>1
  <2>2. \A i \in 0 .. 0 : f[i] \in T[i]
    BY <1>0
  <2> HIDE DEF f
  <2>3. Upto(0)
    BY <2>1, <2>2
  <2>4. QED
    BY <2>3, <1>2, <1>3
<1>4. CASE k # 0
  <2>1. k - 1 \in 0 .. n /\ k - 1 \notin wrong
    <3> HIDE DEF wrong
    <3>1. QED
      BY <1>0, <1>1, <1>2, <1>4
  <2>2. Upto(k - 1)
    BY <2>1
  <2>3. PICK f : /\ f = [i \in 0 .. k - 1 |-> IF i = 0 THEN b ELSE G[i][f[i - 1]]]
                 /\ \A i \in 0 .. k - 1 : f[i] \in T[i]
    BY <2>2
  <2> DEFINE h == [i \in 0 .. k |-> IF i = k THEN G[k][f[k - 1]] ELSE f[i]]
             g == [i \in 0 .. k |-> IF i = 0 THEN b ELSE G[i][h[i - 1]]]
  <2>4. \A i \in 0 .. k - 1 : f[i] = IF i = 0 THEN b ELSE G[i][f[i - 1]]
    BY <2>3
  <2>5. \A i \in 0 .. k - 1 : h[i] = f[i]
    BY <1>2
  <2>6. h[k] = G[k][f[k - 1]]
    BY <1>2
  <2>7. \A i \in 0 .. k : h[i] = IF i = 0 THEN b ELSE G[i][h[i - 1]]
    <3> HIDE DEF h
    <3>1. ASSUME NEW i \in 0 .. k PROVE h[i] = IF i = 0 THEN b ELSE G[i][h[i - 1]]
      <4>1. CASE i = k
        <5>1. h[k - 1] = f[k - 1]
          BY <2>5, <1>2, <1>4
        <5>2. QED
          BY <4>1, <5>1, <2>6, <1>4
      <4>2. CASE i = 0
        BY <4>2, <2>4, <2>5, <1>2, <1>4
      <4>3. CASE i # k /\ i # 0
        <5>1. i \in 0 .. k - 1 /\ i - 1 \in 0 .. k - 1
          BY <4>3, <1>2
        <5>2. h[i] = f[i] /\ h[i - 1] = f[i - 1]
          BY <5>1, <2>5
        <5>3. QED
          BY <5>1, <5>2, <2>4, <4>3
      <4>4. QED
        BY <4>1, <4>2, <4>3
    <3>2. QED
      BY <3>1
  <2>8. h = g
    <3>1. \A i \in 0 .. k : h[i] = g[i]
      BY <2>7
    <3>2. QED
      BY <3>1
  <2>9. \A i \in 0 .. k : h[i] \in T[i]
    <3> HIDE DEF h
    <3>1. G[k][f[k - 1]] \in T[k]
      BY <1>0, <2>3, <1>2, <1>4
    <3>2. QED
      BY <3>1, <2>3, <2>5, <2>6, <1>2
  <2> HIDE DEF h
  <2>10. h = [i \in 0 .. k |-> IF i = 0 THEN b ELSE G[i][h[i - 1]]]
    BY <2>8
  <2>11. Upto(k)
    BY <2>9, <2>10
  <2>12. QED
    BY <2>11, <1>2
<1>5. QED
  BY <1>3, <1>4

-----------------------------------------------------------------------------
(***************************************************************************)
(* Sizes and offsets.                                                      *)
(***************************************************************************)

\* What the assumptions say of the constants, in numbers.
LEMMA Constants ==
  /\ {DVSize, IndexSize, LeafSize, SIZE_ULONG} \subseteq Nat \ {0}
  /\ {MaxCount, DSStaticSize, POOL_MAX_SIZE} \subseteq Nat
  /\ POOL_MAX_SIZE <= (MaxDV + 1) * DVSize + DSStaticSize
  /\ POOL_MAX_SIZE <= NOT_AN_OFFSET
  /\ Align(POOL_MAX_SIZE) = POOL_MAX_SIZE /\ Align(DSStaticSize) = DSStaticSize
  /\ NOT_AN_OFFSET \in Nat
BY MemMgrConstants DEF NOT_AN_OFFSET

\* Division with remainder.
LEMMA Quotient ==
  ASSUME NEW a \in Nat, NEW b \in Nat \ {0}
  PROVE  /\ a \div b \in Nat
         /\ (a \div b) * b <= a /\ a < (a \div b) * b + b
OBVIOUS

\* Products of natural numbers, in the order of their factors.
LEMMA Product ==
  ASSUME NEW a \in Nat, NEW b \in Nat, NEW c \in Nat
  PROVE  a * c \in Nat /\ (a <= b => a * c <= b * c) /\ (a * c < b * c => a < b)
OBVIOUS

\* Aligning goes up to the next multiple, and no further.
LEMMA Aligning ==
  ASSUME NEW a \in Nat
  PROVE  /\ Align(a) \in Nat /\ a <= Align(a) /\ Align(Align(a)) = Align(a)
         /\ \A b \in Nat : a <= b => Align(a) <= Align(b)
<1> DEFINE s == SIZE_ULONG
           q(n) == (n + s - 1) \div s
<1>1. s \in Nat \ {0}
  BY Constants
<1>2. \A n : Align(n) = q(n) * s
  BY DEF Align
<1> HIDE DEF s
<1>3. ASSUME NEW n \in Nat
      PROVE  q(n) \in Nat /\ q(n) * s \in Nat /\ q(n) * s <= n + s - 1 /\ n <= q(n) * s
  <2>1. n + s - 1 \in Nat
    BY <1>1
  <2>2. /\ q(n) \in Nat
        /\ q(n) * s <= n + s - 1 /\ n + s - 1 < q(n) * s + s
    BY <1>1, <2>1, Quotient
  <2>3. q(n) * s \in Nat
    BY <1>1, <2>2, Product
  <2>4. QED
    BY <1>1, <2>2, <2>3
<1> HIDE DEF q
<1>4. ASSUME NEW m \in Nat, NEW n \in Nat, m <= n
      PROVE  q(m) * s <= q(n) * s
  <2>1. q(m) * s <= m + s - 1 /\ n <= q(n) * s /\ q(m) * s \in Nat /\ q(n) * s \in Nat
    BY <1>3
  <2>2. q(m) * s < q(n) * s + s
    BY <2>1, <1>1, <1>4
  <2>3. (q(n) + 1) * s = q(n) * s + s /\ q(n) + 1 \in Nat /\ q(m) \in Nat /\ q(n) \in Nat
    <3>1. \A x \in Nat : (x + 1) * s = x * s + s
      BY <1>1
    <3>2. QED
      BY <1>3, <3>1
  <2>4. q(m) < q(n) + 1
    BY <2>2, <2>3, <1>1, Product
  <2>5. q(m) <= q(n)
    BY <2>3, <2>4
  <2>6. QED
    BY <2>5, <2>3, <1>1, Product
<1>5. q(q(a) * s) * s = q(a) * s
  <2> DEFINE c == q(a) * s
             k == q(c)
  <2>1. q(a) \in Nat /\ c \in Nat /\ k \in Nat /\ k * s \in Nat /\ k * s <= c + s - 1 /\ c <= k * s
    BY <1>3
  <2> HIDE DEF k
  <2>2. q(a) * s <= k * s /\ k * s < q(a) * s + s
    BY <2>1, <1>1
  <2>3. (q(a) + 1) * s = q(a) * s + s
    <3>1. \A x \in Nat : (x + 1) * s = x * s + s
      BY <1>1
    <3>2. QED
      BY <2>1, <3>1
  <2>4. k < q(a) + 1
    <3>1. k * s < (q(a) + 1) * s
      BY <2>2, <2>3
    <3>2. q(a) + 1 \in Nat
      BY <2>1
    <3>3. QED
      BY <3>1, <3>2, <2>1, <1>1, Product
  <2>5. k * s <= q(a) * s
    <3>1. k <= q(a)
      BY <2>1, <2>4
    <3>2. QED
      BY <3>1, <2>1, <1>1, Product
  <2>6. k * s = c
    BY <2>1, <2>5
  <2>7. QED
    BY <2>6 DEF k
<1>6. QED
  BY <1>2, <1>3, <1>4, <1>5

\* Arrays at the offsets O, of the extents E, lie in the order of the list u,
\* none over the next one or over the end D of the dataspace.
Placed(O, E, D, u) ==
  /\ O \in [DVs -> Nat] /\ E \in [DVs -> Nat] /\ D \in Nat /\ DSStaticSize <= D
  /\ \A i, j \in 1 .. Len(u) :
       i < j /\ O[u[i]] # NOT_AN_OFFSET /\ O[u[j]] # NOT_AN_OFFSET
       => O[u[i]] + E[u[i]] <= O[u[j]]
  /\ \A d \in DVs :
       O[d] # NOT_AN_OFFSET =>
         /\ d \in Range_(u) /\ DSStaticSize <= O[d] /\ Align(O[d]) = O[d]
         /\ O[d] + E[d] <= D

\* Arrays that lie within a dataspace lie within a larger one.
LEMMA PlacedLarger ==
  ASSUME NEW O, NEW E, NEW D, NEW u, Placed(O, E, D, u), NEW D1 \in Nat, D <= D1
  PROVE  Placed(O, E, D1, u)
<1>1. DSStaticSize \in Nat
  BY Constants
<1>2. \A d \in DVs : O[d] \in Nat /\ E[d] \in Nat
  BY DEF Placed
<1>3. D \in Nat /\ DSStaticSize <= D1
  BY <1>1 DEF Placed
<1>4. \A d \in DVs : O[d] # NOT_AN_OFFSET => O[d] + E[d] <= D1
  BY <1>2, <1>3 DEF Placed
<1>5. QED
  BY <1>3, <1>4 DEF Placed

\* Arrays may have smaller extents.
LEMMA PlacedSmaller ==
  ASSUME NEW O, NEW E, NEW D, NEW u, Distinct(u), Placed(O, E, D, u),
         NEW E1 \in [DVs -> Nat], \A d \in DVs : E1[d] <= E[d]
  PROVE  Placed(O, E1, D, u)
<1>1. \A d \in DVs : O[d] \in Nat /\ E[d] \in Nat /\ E1[d] \in Nat
  BY DEF Placed
<1>2. \A i \in 1 .. Len(u) : u[i] \in DVs
  BY Ranges DEF Distinct
<1>3. \A i, j \in 1 .. Len(u) :
         i < j /\ O[u[i]] # NOT_AN_OFFSET /\ O[u[j]] # NOT_AN_OFFSET
         => O[u[i]] + E1[u[i]] <= O[u[j]]
  <2> SUFFICES ASSUME NEW i \in 1 .. Len(u), NEW j \in 1 .. Len(u),
                      i < j, O[u[i]] # NOT_AN_OFFSET, O[u[j]] # NOT_AN_OFFSET
               PROVE  O[u[i]] + E1[u[i]] <= O[u[j]]
    OBVIOUS
  <2>1. O[u[i]] + E[u[i]] <= O[u[j]]
    BY DEF Placed
  <2>2. E1[u[i]] <= E[u[i]]
    BY <1>2
  <2>3. QED
    BY <2>1, <2>2, <1>1, <1>2
<1>4. \A d \in DVs : O[d] # NOT_AN_OFFSET => O[d] + E1[d] <= D
  BY <1>1 DEF Placed
<1>5. QED
  BY <1>3, <1>4 DEF Placed

\* Without one of the list, if its array is gone as well.
LEMMA PlacedWithout ==
  ASSUME NEW O, NEW E, NEW D, NEW u, Placed(O, E, D, u), Distinct(u), NEW k \in 1 .. Len(u),
         NEW O1 \in [DVs -> Nat], NEW E1 \in [DVs -> Nat], O1[u[k]] = NOT_AN_OFFSET,
         \A d \in DVs \ {u[k]} : O1[d] = O[d] /\ E1[d] = E[d]
  PROVE  Placed(O1, E1, D, Without(u, k))
<1> DEFINE w == Without(u, k)
           n == Len(u)
           At_(i) == IF i < k THEN i ELSE i + 1
<1>1. u \in Seq(DVs) /\ n \in Nat /\ k \in Nat
  BY DEF Distinct
<1>2. /\ Distinct(w) /\ Len(w) = n - 1
      /\ \A i \in 1 .. n - 1 : w[i] = IF i < k THEN u[i] ELSE u[i + 1]
      /\ Range_(w) = Range_(u) \ {u[k]}
  BY WithoutSeq
<1>3. \A i \in 1 .. n : u[i] \in DVs
  BY <1>1, Ranges
<1> HIDE DEF w
<1>4. \A i \in 1 .. n - 1 : At_(i) \in 1 .. n /\ w[i] = u[At_(i)] /\ w[i] \in DVs \ {u[k]}
  <2> SUFFICES ASSUME NEW i \in 1 .. n - 1
               PROVE  At_(i) \in 1 .. n /\ w[i] = u[At_(i)] /\ w[i] \in DVs \ {u[k]}
    OBVIOUS
  <2>1. At_(i) \in 1 .. n /\ At_(i) # k
    BY <1>1
  <2>2. w[i] = u[At_(i)]
    BY <1>2
  <2>3. u[At_(i)] # u[k]
    BY <2>1 DEF Distinct
  <2>4. QED
    BY <2>1, <2>2, <2>3, <1>3
<1>5. \A i, j \in 1 .. n - 1 : i < j => At_(i) < At_(j)
  BY <1>1
<1> HIDE DEF At_
<1>6. \A i, j \in 1 .. n - 1 :
         i < j /\ O1[w[i]] # NOT_AN_OFFSET /\ O1[w[j]] # NOT_AN_OFFSET
         => O1[w[i]] + E1[w[i]] <= O1[w[j]]
  <2> SUFFICES ASSUME NEW i \in 1 .. n - 1, NEW j \in 1 .. n - 1, i < j,
                      O1[w[i]] # NOT_AN_OFFSET, O1[w[j]] # NOT_AN_OFFSET
               PROVE  O1[w[i]] + E1[w[i]] <= O1[w[j]]
    OBVIOUS
  <2>1. O1[w[i]] = O[w[i]] /\ E1[w[i]] = E[w[i]] /\ O1[w[j]] = O[w[j]]
    BY <1>4
  <2>2. At_(i) \in 1 .. n /\ At_(j) \in 1 .. n /\ At_(i) < At_(j)
    BY <1>4, <1>5
  <2>3. O[u[At_(i)]] + E[u[At_(i)]] <= O[u[At_(j)]]
    BY <2>1, <2>2, <1>4 DEF Placed
  <2>4. QED
    BY <2>1, <2>3, <1>4
<1>7. \A d \in DVs :
         O1[d] # NOT_AN_OFFSET =>
           /\ d \in Range_(w) /\ DSStaticSize <= O1[d] /\ Align(O1[d]) = O1[d]
           /\ O1[d] + E1[d] <= D
  <2> SUFFICES ASSUME NEW d \in DVs, O1[d] # NOT_AN_OFFSET
               PROVE  /\ d \in Range_(w) /\ DSStaticSize <= O1[d] /\ Align(O1[d]) = O1[d]
                      /\ O1[d] + E1[d] <= D
    OBVIOUS
  <2>1. d # u[k] /\ O1[d] = O[d] /\ E1[d] = E[d]
    OBVIOUS
  <2>2. QED
    BY <2>1, <1>2 DEF Placed
<1>8. QED
  <2>1. Placed(O1, E1, D, w)
    BY <1>2, <1>6, <1>7 DEF Placed
  <2>2. QED
    BY <2>1 DEF w

\* One more at the end of the list, without an array or with one at the end
\* of the dataspace.
LEMMA PlacedAppend ==
  ASSUME NEW O, NEW E, NEW D, NEW u, Placed(O, E, D, u), Distinct(u),
         NEW e \in DVs, e \notin Range_(u), NEW D1 \in Nat, D <= D1,
         NEW O1 \in [DVs -> Nat], NEW E1 \in [DVs -> Nat],
         \A d \in DVs \ {e} : O1[d] = O[d] /\ E1[d] = E[d],
         \/ O1[e] = NOT_AN_OFFSET
         \/ D <= O1[e] /\ Align(O1[e]) = O1[e] /\ O1[e] + E1[e] <= D1
  PROVE  Placed(O1, E1, D1, Append(u, e))
<1> DEFINE w == Append(u, e)
           n == Len(u)
<1>1. u \in Seq(DVs) /\ n \in Nat
  BY DEF Distinct
<1>2. /\ Distinct(w) /\ Len(w) = n + 1 /\ w[n + 1] = e
      /\ \A i \in 1 .. n : w[i] = u[i]
      /\ Range_(w) = Range_(u) \cup {e}
  BY AppendSeq
<1>3. \A i \in 1 .. n : u[i] \in DVs \ {e}
  BY <1>1, Ranges
<1>4. \A d \in DVs : O[d] \in Nat /\ E[d] \in Nat /\ O1[d] \in Nat /\ E1[d] \in Nat
  BY DEF Placed
<1>5. D \in Nat /\ DSStaticSize <= D /\ DSStaticSize \in Nat
  BY Constants DEF Placed
<1> HIDE DEF w
<1>6. \A i, j \in 1 .. n + 1 :
         i < j /\ O1[w[i]] # NOT_AN_OFFSET /\ O1[w[j]] # NOT_AN_OFFSET
         => O1[w[i]] + E1[w[i]] <= O1[w[j]]
  <2> SUFFICES ASSUME NEW i \in 1 .. n + 1, NEW j \in 1 .. n + 1, i < j,
                      O1[w[i]] # NOT_AN_OFFSET, O1[w[j]] # NOT_AN_OFFSET
               PROVE  O1[w[i]] + E1[w[i]] <= O1[w[j]]
    OBVIOUS
  <2>1. i \in 1 .. n /\ w[i] = u[i] /\ u[i] \in DVs \ {e}
    BY <1>1, <1>2, <1>3
  <2>2. O1[w[i]] = O[u[i]] /\ E1[w[i]] = E[u[i]] /\ O[u[i]] # NOT_AN_OFFSET
    BY <2>1
  <2>3. CASE j = n + 1
    <3>1. w[j] = e /\ D <= O1[e] /\ O1[e] \in Nat
      BY <2>3, <1>2
    <3>2. O[u[i]] + E[u[i]] <= D
      BY <2>1, <2>2 DEF Placed
    <3>3. O[u[i]] + E[u[i]] \in Nat
      BY <2>1, <1>4
    <3>4. QED
      BY <3>1, <3>2, <3>3, <2>2, <1>5
  <2>4. CASE j # n + 1
    <3>0. j \in 1 .. n
      BY <2>4, <1>1
    <3>1. w[j] = u[j] /\ u[j] \in DVs \ {e}
      BY <3>0, <1>2, <1>3
    <3>2. O[u[i]] + E[u[i]] <= O[u[j]]
      BY <2>1, <2>2, <3>0, <3>1 DEF Placed
    <3>3. QED
      BY <2>2, <3>1, <3>2
  <2>5. QED
    BY <2>3, <2>4
<1>7. \A d \in DVs :
         O1[d] # NOT_AN_OFFSET =>
           /\ d \in Range_(w) /\ DSStaticSize <= O1[d] /\ Align(O1[d]) = O1[d]
           /\ O1[d] + E1[d] <= D1
  <2> SUFFICES ASSUME NEW d \in DVs, O1[d] # NOT_AN_OFFSET
               PROVE  /\ d \in Range_(w) /\ DSStaticSize <= O1[d] /\ Align(O1[d]) = O1[d]
                      /\ O1[d] + E1[d] <= D1
    OBVIOUS
  <2>1. CASE d = e
    BY <2>1, <1>2, <1>4, <1>5
  <2>2. CASE d # e
    <3>1. O1[d] = O[d] /\ E1[d] = E[d]
      BY <2>2
    <3>2. /\ d \in Range_(u) /\ DSStaticSize <= O[d] /\ Align(O[d]) = O[d]
          /\ O[d] + E[d] <= D
      BY <3>1 DEF Placed
    <3>3. O[d] + E[d] <= D1
      BY <3>2, <1>4, <1>5
    <3>4. QED
      BY <3>1, <3>2, <3>3, <1>2
  <2>3. QED
    BY <2>1, <2>2
<1>8. DSStaticSize <= D1
  BY <1>5
<1>9. QED
  <2>1. Placed(O1, E1, D1, w)
    BY <1>2, <1>6, <1>7, <1>8 DEF Placed
  <2>2. QED
    BY <2>1 DEF w

\* An array gets a new extent where it is.
LEMMA PlacedResize ==
  ASSUME NEW O, NEW E, NEW D, NEW u, Placed(O, E, D, u), Distinct(u), NEW k \in 1 .. Len(u),
         NEW E1 \in [DVs -> Nat], \A d \in DVs \ {u[k]} : E1[d] = E[d],
         O[u[k]] # NOT_AN_OFFSET /\ E1[u[k]] > E[u[k]] =>
           /\ O[u[k]] + E1[u[k]] <= D
           /\ \A j \in 1 .. Len(u) :
                k < j /\ O[u[j]] # NOT_AN_OFFSET => O[u[k]] + E1[u[k]] <= O[u[j]]
  PROVE  Placed(O, E1, D, u)
<1> DEFINE n == Len(u)
<1>1. u \in Seq(DVs) /\ n \in Nat
  BY DEF Distinct
<1>2. \A i \in 1 .. n : u[i] \in DVs /\ (u[i] = u[k] => i = k)
  BY <1>1, Ranges DEF Distinct
<1>3. \A d \in DVs : O[d] \in Nat /\ E[d] \in Nat /\ E1[d] \in Nat
  BY DEF Placed
<1>4. D \in Nat
  BY DEF Placed
<1> HIDE DEF n
<1>5. ASSUME NEW i \in 1 .. n, NEW j \in 1 .. n, i < j,
             O[u[i]] # NOT_AN_OFFSET, O[u[j]] # NOT_AN_OFFSET
      PROVE  O[u[i]] + E1[u[i]] <= O[u[j]]
  <2>1. O[u[i]] + E[u[i]] <= O[u[j]]
    BY <1>5 DEF Placed, n
  <2>2. O[u[i]] \in Nat /\ E[u[i]] \in Nat /\ E1[u[i]] \in Nat /\ O[u[j]] \in Nat
    BY <1>2, <1>3
  <2>3. CASE E1[u[i]] <= E[u[i]]
    BY <2>1, <2>2, <2>3
  <2>4. CASE E1[u[i]] > E[u[i]]
    <3>1. u[i] = u[k]
      <4>1. u[i] # u[k] => E1[u[i]] = E[u[i]]
        BY <1>2
      <4>2. QED
        BY <4>1, <2>4, <2>2
    <3>2. i = k
      BY <3>1, <1>2
    <3>3. /\ O[u[k]] # NOT_AN_OFFSET /\ E1[u[k]] > E[u[k]]
          /\ j \in 1 .. Len(u) /\ k < j
      BY <3>2, <2>4, <1>5 DEF n
    <3>4. O[u[k]] + E1[u[k]] <= O[u[j]]
      BY <3>3, <1>5
    <3>5. QED
      BY <3>2, <3>4
  <2>5. QED
    BY <2>2, <2>3, <2>4
<1>6. ASSUME NEW d \in DVs, O[d] # NOT_AN_OFFSET PROVE O[d] + E1[d] <= D
  <2>1. O[d] + E[d] <= D /\ O[d] \in Nat /\ E[d] \in Nat /\ E1[d] \in Nat
    BY <1>6, <1>3 DEF Placed
  <2>2. CASE d = u[k]
    <3>1. CASE E1[d] > E[d]
      BY <3>1, <2>2, <1>6
    <3>2. CASE E1[d] <= E[d]
      BY <3>2, <2>1, <1>4
    <3>3. QED
      BY <3>1, <3>2, <2>1
  <2>3. CASE d # u[k]
    BY <2>1, <2>3
  <2>4. QED
    BY <2>2, <2>3
<1>7. QED
  BY <1>5, <1>6 DEF Placed, n

\* end[i] is where the i-th array of the list ends after a compaction.
Ends(end, O, S, u) ==
  /\ end[0] = DSStaticSize
  /\ \A i \in 1 .. Len(u) :
       end[i] = IF O[u[i]] = NOT_AN_OFFSET THEN Align(end[i - 1])
                ELSE Align(end[i - 1]) + S[u[i]]

\* The ends go up.
LEMMA EndsGoUp ==
  ASSUME NEW end, NEW O, NEW S \in [DVs -> Nat], NEW u, Distinct(u), Ends(end, O, S, u)
  PROVE  \A j \in 0 .. Len(u) : end[j] \in Nat /\ \A i \in 0 .. j : end[i] <= end[j]
<1> DEFINE n == Len(u)
           T == [j \in 0 .. n |-> {x \in Nat : \A i \in 0 .. j : end[i] \in Nat /\ end[i] <= x}]
<1>1. n \in Nat /\ \A i \in 1 .. n : u[i] \in DVs
  BY Ranges DEF Distinct
<1>2. end[0] \in Nat
  BY Constants DEF Ends
<1>3. end[0] \in T[0]
  BY <1>1, <1>2
<1>4. ASSUME NEW i \in 1 .. n, end[i - 1] \in T[i - 1] PROVE end[i] \in T[i]
  <2>1. i - 1 \in 0 .. n /\ i \in 0 .. n
    BY <1>1
  <2>2. end[i - 1] \in Nat /\ \A j \in 0 .. i - 1 : end[j] \in Nat /\ end[j] <= end[i - 1]
    BY <1>4, <2>1
  <2> DEFINE a == Align(end[i - 1])
  <2>3. a \in Nat /\ end[i - 1] <= a
    BY <2>2, Aligning
  <2>4. end[i] = a \/ end[i] = a + S[u[i]]
    BY <1>1 DEF Ends
  <2>5. S[u[i]] \in Nat
    BY <1>1
  <2> HIDE DEF a
  <2>6. end[i] \in Nat /\ end[i - 1] <= end[i]
    BY <2>2, <2>3, <2>4, <2>5
  <2>7. \A j \in 0 .. i : end[j] \in Nat /\ end[j] <= end[i]
    <3>1. ASSUME NEW j \in 0 .. i - 1 PROVE end[j] \in Nat /\ end[j] <= end[i]
      BY <2>2, <2>6
    <3>2. \A j \in 0 .. i : j \in 0 .. i - 1 \/ j = i
      BY <1>1
    <3>3. QED
      BY <3>1, <3>2, <2>6
  <2>8. QED
    BY <2>1, <2>6, <2>7
<1> HIDE DEF T
<1>5. \A j \in 0 .. n : end[j] \in T[j]
  BY <1>1, <1>3, <1>4, RecursionInv
<1>6. QED
  BY <1>5 DEF T

\* After a compaction the arrays lie one after the other.
LEMMA PlacedCompacted ==
  ASSUME NEW end, NEW O, NEW S \in [DVs -> Nat], NEW u, Distinct(u), Ends(end, O, S, u),
         NEW O1 \in [DVs -> Nat], NEW E1 \in [DVs -> Nat],
         \A i \in 1 .. Len(u) :
           O1[u[i]] = IF O[u[i]] = NOT_AN_OFFSET THEN NOT_AN_OFFSET ELSE Align(end[i - 1]),
         \A d \in DVs : d \notin Range_(u) => O1[d] = NOT_AN_OFFSET,
         \A d \in DVs : E1[d] <= S[d]
  PROVE  Placed(O1, E1, end[Len(u)], u)
<1> DEFINE n == Len(u)
<1>1. n \in Nat /\ \A i \in 1 .. n : u[i] \in DVs
  BY Ranges DEF Distinct
<1>2. \A j \in 0 .. n : end[j] \in Nat /\ \A i \in 0 .. j : end[i] <= end[j]
  BY EndsGoUp
<1>3. ASSUME NEW i \in 1 .. n, O1[u[i]] # NOT_AN_OFFSET
      PROVE  /\ O1[u[i]] = Align(end[i - 1]) /\ end[i - 1] \in Nat /\ end[i - 1] <= O1[u[i]]
             /\ O1[u[i]] + E1[u[i]] <= end[i] /\ end[i] \in Nat
  <2>1. i - 1 \in 0 .. n /\ i \in 0 .. n
    BY <1>1
  <2>2. end[i - 1] \in Nat /\ end[i] \in Nat
    BY <2>1, <1>2
  <2>3. O[u[i]] # NOT_AN_OFFSET /\ O1[u[i]] = Align(end[i - 1])
    BY <1>3
  <2>4. end[i] = Align(end[i - 1]) + S[u[i]]
    BY <2>3 DEF Ends
  <2>5. Align(end[i - 1]) \in Nat /\ end[i - 1] <= Align(end[i - 1])
    BY <2>2, Aligning
  <2>6. E1[u[i]] <= S[u[i]] /\ E1[u[i]] \in Nat /\ S[u[i]] \in Nat
    BY <1>1
  <2>7. QED
    BY <2>2, <2>3, <2>4, <2>5, <2>6
<1> HIDE DEF n
<1>4. ASSUME NEW i \in 1 .. n, NEW j \in 1 .. n, i < j,
             O1[u[i]] # NOT_AN_OFFSET, O1[u[j]] # NOT_AN_OFFSET
      PROVE  O1[u[i]] + E1[u[i]] <= O1[u[j]]
  <2>1. O1[u[i]] + E1[u[i]] <= end[i] /\ end[i] \in Nat
    BY <1>3, <1>4
  <2>2. end[j - 1] <= O1[u[j]] /\ end[j - 1] \in Nat
    BY <1>3, <1>4
  <2>3. end[i] <= end[j - 1]
    <3>1. j - 1 \in 0 .. n /\ i \in 0 .. j - 1
      BY <1>1, <1>4
    <3>2. QED
      BY <3>1, <1>2
  <2>4. O1[u[i]] \in Nat /\ E1[u[i]] \in Nat /\ O1[u[j]] \in Nat
    BY <1>1
  <2>5. \A a, b, c, d \in Nat : a <= b /\ b <= c /\ c <= d => a <= d
    OBVIOUS
  <2>6. O1[u[i]] + E1[u[i]] \in Nat
    BY <2>4
  <2>7. QED
    BY <2>1, <2>2, <2>3, <2>4, <2>5, <2>6
<1>5. ASSUME NEW d \in DVs, O1[d] # NOT_AN_OFFSET
      PROVE  /\ d \in Range_(u) /\ DSStaticSize <= O1[d] /\ Align(O1[d]) = O1[d]
             /\ O1[d] + E1[d] <= end[n]
  <2>1. d \in Range_(u)
    BY <1>5
  <2>2. PICK i \in 1 .. n : u[i] = d
    BY <2>1, Ranges DEF Distinct, n
  <2>3. /\ O1[d] = Align(end[i - 1]) /\ end[i - 1] \in Nat /\ end[i - 1] <= O1[d]
        /\ O1[d] + E1[d] <= end[i] /\ end[i] \in Nat
    BY <2>2, <1>3, <1>5
  <2>4. Align(O1[d]) = O1[d]
    BY <2>3, Aligning
  <2>5. end[i] <= end[n] /\ end[n] \in Nat
    <3>1. n \in 0 .. n /\ i \in 0 .. n
      BY <1>1
    <3>2. QED
      BY <3>1, <1>2
  <2>6. DSStaticSize <= end[i - 1] /\ DSStaticSize \in Nat
    <3>1. i - 1 \in 0 .. n /\ 0 \in 0 .. i - 1
      BY <1>1
    <3>2. end[0] <= end[i - 1]
      BY <3>1, <1>2
    <3>3. QED
      BY <3>2, Constants DEF Ends
  <2>7. O1[d] \in Nat /\ E1[d] \in Nat
    OBVIOUS
  <2>8. QED
    BY <2>1, <2>3, <2>4, <2>5, <2>6, <2>7
<1>6. end[n] \in Nat /\ DSStaticSize <= end[n]
  <2>1. n \in 0 .. n /\ 0 \in 0 .. n
    BY <1>1
  <2>2. QED
    BY <2>1, <1>2 DEF Ends
<1>7. QED
  BY <1>4, <1>5, <1>6 DEF Placed, n

\* Arrays that do not overlap only move down, within the aligned dataspace.
LEMMA EndsStayBelow ==
  ASSUME NEW end, NEW O, NEW S, NEW D, NEW u, Distinct(u), Ends(end, O, S, u),
         Placed(O, S, D, u)
  PROVE  /\ end[Len(u)] <= Align(D)
         /\ \A i \in 1 .. Len(u) : O[u[i]] # NOT_AN_OFFSET => Align(end[i - 1]) <= O[u[i]]
<1> DEFINE n == Len(u)
           T == [j \in 0 .. n |->
                   {x \in Nat : /\ x <= Align(D)
                                /\ \A m \in j + 1 .. n :
                                     O[u[m]] # NOT_AN_OFFSET => x <= O[u[m]]}]
<1>1. n \in Nat /\ \A i \in 1 .. n : u[i] \in DVs
  BY Ranges DEF Distinct
<1>2. D \in Nat /\ DSStaticSize \in Nat /\ DSStaticSize <= D
  BY Constants DEF Placed
<1>3. Align(D) \in Nat /\ D <= Align(D) /\ Align(Align(D)) = Align(D)
  BY <1>2, Aligning
<1>4. \A d \in DVs : O[d] \in Nat /\ S[d] \in Nat
  BY DEF Placed
<1>5. end[0] \in T[0]
  <2>1. end[0] = DSStaticSize
    BY DEF Ends
  <2>2. DSStaticSize <= Align(D)
    BY <1>2, <1>3
  <2>3. \A m \in 1 .. n : O[u[m]] # NOT_AN_OFFSET => DSStaticSize <= O[u[m]]
    BY <1>1 DEF Placed
  <2>4. QED
    BY <2>1, <2>2, <2>3, <1>1, <1>2
<1>6. ASSUME NEW i \in 1 .. n, end[i - 1] \in T[i - 1]
      PROVE  /\ end[i] \in T[i]
             /\ O[u[i]] # NOT_AN_OFFSET => Align(end[i - 1]) <= O[u[i]]
  <2> DEFINE x == end[i - 1]
             a == Align(x)
  <2>1. i - 1 \in 0 .. n /\ i \in 0 .. n /\ (i - 1) + 1 = i /\ i \in Nat
    BY <1>1
  <2>2. /\ x \in Nat /\ x <= Align(D)
        /\ \A m \in i .. n : O[u[m]] # NOT_AN_OFFSET => x <= O[u[m]]
    BY <1>6, <2>1
  <2>3. a \in Nat /\ a <= Align(D)
    BY <2>2, <1>3, Aligning
  <2>4. ASSUME NEW m \in i .. n, O[u[m]] # NOT_AN_OFFSET PROVE a <= O[u[m]]
    <3>1. m \in 1 .. n
      BY <1>1, <2>1
    <3>2. O[u[m]] \in Nat /\ Align(O[u[m]]) = O[u[m]]
      BY <3>1, <1>1, <1>4, <2>4 DEF Placed
    <3>3. x <= O[u[m]]
      BY <2>2, <2>4
    <3>4. Align(x) <= Align(O[u[m]])
      BY <2>2, <3>2, <3>3, Aligning
    <3>5. QED
      BY <3>2, <3>4
  <2>5. i \in i .. n
    BY <2>1, <1>1
  <2>6. O[u[i]] # NOT_AN_OFFSET => a <= O[u[i]]
    BY <2>4, <2>5
  <2>7. end[i] = IF O[u[i]] = NOT_AN_OFFSET THEN a ELSE a + S[u[i]]
    BY DEF Ends
  <2> HIDE DEF a, x
  <2>8. CASE O[u[i]] = NOT_AN_OFFSET
    <3>1. end[i] = a
      BY <2>7, <2>8
    <3>2. \A m \in i + 1 .. n : m \in i .. n
      BY <2>1, <1>1
    <3>3. \A m \in i + 1 .. n : O[u[m]] # NOT_AN_OFFSET => a <= O[u[m]]
      BY <3>2, <2>4
    <3>4. QED
      BY <3>1, <3>3, <2>1, <2>3, <2>8
  <2>9. CASE O[u[i]] # NOT_AN_OFFSET
    <3>1. end[i] = a + S[u[i]] /\ a <= O[u[i]]
      BY <2>6, <2>7, <2>9
    <3>2. O[u[i]] \in Nat /\ S[u[i]] \in Nat
      BY <1>1, <1>4
    <3>3. end[i] \in Nat /\ end[i] <= O[u[i]] + S[u[i]]
      BY <3>1, <3>2, <2>3
    <3>4. O[u[i]] + S[u[i]] <= D
      BY <1>1, <2>9 DEF Placed
    <3>5. end[i] <= Align(D)
      BY <3>2, <3>3, <3>4, <1>2, <1>3
    <3>6. ASSUME NEW m \in i + 1 .. n, O[u[m]] # NOT_AN_OFFSET PROVE end[i] <= O[u[m]]
      <4>1. m \in 1 .. n /\ i < m
        BY <2>1, <1>1
      <4>2. O[u[i]] + S[u[i]] <= O[u[m]]
        BY <4>1, <3>6, <2>9 DEF Placed
      <4>3. O[u[m]] \in Nat
        BY <4>1, <1>1, <1>4
      <4>4. QED
        BY <4>2, <4>3, <3>2, <3>3
    <3>7. QED
      BY <3>3, <3>5, <3>6, <2>1, <2>6 DEF a, x
  <2>10. QED
    BY <2>8, <2>9, <2>6 DEF a, x
<1> HIDE DEF T
<1>7. \A j \in 0 .. n : end[j] \in T[j]
  BY <1>1, <1>5, <1>6, RecursionInv
<1>8. end[n] <= Align(D)
  <2>1. n \in 0 .. n
    BY <1>1
  <2>2. QED
    BY <2>1, <1>7 DEF T
<1>9. \A i \in 1 .. n : O[u[i]] # NOT_AN_OFFSET => Align(end[i - 1]) <= O[u[i]]
  <2>1. ASSUME NEW i \in 1 .. n PROVE end[i - 1] \in T[i - 1]
    <3>1. i - 1 \in 0 .. n
      BY <1>1
    <3>2. QED
      BY <3>1, <1>7
  <2>2. QED
    BY <2>1, <1>6
<1>10. QED
  BY <1>8, <1>9

-----------------------------------------------------------------------------
(***************************************************************************)
(* What the operations on DVs leave in the fields of the memory.           *)
(***************************************************************************)

\* The neighbours that unlinking d joins.
Prev(M, d) == IF d = M.Head THEN NOT_A_DS_ID ELSE M.BackLink[d]

\* The fields after Unlink.
LEMMA UnlinkFields ==
  ASSUME NEW M \in Memories, NEW d \in DVs
  PROVE  /\ Unlink(M, d) =
              [Head |-> IF d = M.Head THEN M.Link[d] ELSE M.Head, Tail |-> M.Tail,
               FreeHead |-> M.FreeHead,
               Link |-> [M.Link EXCEPT ![Prev(M, d)] = M.Link[d]],
               BackLink |-> [M.BackLink EXCEPT ![M.Link[d]] = Prev(M, d)],
               Offset |-> M.Offset, ElemSize |-> M.ElemSize, Count |-> M.Count,
               DataspaceSize |-> M.DataspaceSize]
         /\ Unlink(M, d) \in Memories
<1> DEFINE N == Unlink(M, d)
           H == IF d = M.Head THEN M.Link[d] ELSE M.Head
           L == [M.Link EXCEPT ![Prev(M, d)] = M.Link[d]]
           B == [M.BackLink EXCEPT ![M.Link[d]] = Prev(M, d)]
<1>1. N = [M EXCEPT !.Head = H, !.Link = L, !.BackLink = B]
  BY DEF Unlink, Prev, Memories
<1>2. M.Link[d] \in Ids /\ Prev(M, d) \in Ids
  BY NotADV DEF Memories, Prev, Ids
<1>3. H \in Ids /\ L \in [DVs -> Ids] /\ B \in [DVs -> Ids]
  BY <1>2 DEF Memories
<1> HIDE DEF N, H, L, B
<1>4. N = [Head |-> H, Tail |-> M.Tail, FreeHead |-> M.FreeHead, Link |-> L, BackLink |-> B,
           Offset |-> M.Offset, ElemSize |-> M.ElemSize, Count |-> M.Count,
           DataspaceSize |-> M.DataspaceSize]
  BY <1>1 DEF Memories
<1>5. N \in Memories
  BY <1>3, <1>4 DEF Memories
<1>6. QED
  BY <1>4, <1>5 DEF N, H, L, B

\* The fields after InsertAtTail.
LEMMA InsertFields ==
  ASSUME NEW M \in Memories, NEW d \in DVs
  PROVE  /\ InsertAtTail(M, d) =
              [Head |-> M.Head, Tail |-> d, FreeHead |-> M.FreeHead,
               Link |-> [M.Link EXCEPT ![M.Tail] = d, ![d] = NOT_A_DS_ID],
               BackLink |-> [M.BackLink EXCEPT ![d] = M.Tail],
               Offset |-> M.Offset, ElemSize |-> M.ElemSize, Count |-> M.Count,
               DataspaceSize |-> M.DataspaceSize]
         /\ InsertAtTail(M, d) \in Memories
<1> DEFINE N == InsertAtTail(M, d)
           L == [M.Link EXCEPT ![M.Tail] = d, ![d] = NOT_A_DS_ID]
           B == [M.BackLink EXCEPT ![d] = M.Tail]
<1>1. N = [M EXCEPT !.Link = L, !.BackLink = B, !.Tail = d]
  BY DEF InsertAtTail, Memories
<1>2. d \in Ids /\ NOT_A_DS_ID \in Ids /\ M.Tail \in Ids
  BY DEF Memories, Ids
<1>3. L \in [DVs -> Ids] /\ B \in [DVs -> Ids]
  BY <1>2 DEF Memories
<1> HIDE DEF N, L, B
<1>4. N = [Head |-> M.Head, Tail |-> d, FreeHead |-> M.FreeHead, Link |-> L, BackLink |-> B,
           Offset |-> M.Offset, ElemSize |-> M.ElemSize, Count |-> M.Count,
           DataspaceSize |-> M.DataspaceSize]
  BY <1>1 DEF Memories
<1>5. N \in Memories
  BY <1>2, <1>3, <1>4 DEF Memories
<1>6. QED
  BY <1>4, <1>5 DEF N, L, B

\* The fields after MoveToTail of a DV that is not the last one.
LEMMA MoveFields ==
  ASSUME NEW M \in Memories, NEW d \in DVs, d # M.Tail
  PROVE  /\ MoveToTail(M, d) =
              [Head |-> IF d = M.Head THEN M.Link[d] ELSE M.Head, Tail |-> d,
               FreeHead |-> M.FreeHead,
               Link |-> [[M.Link EXCEPT ![Prev(M, d)] = M.Link[d]]
                            EXCEPT ![M.Tail] = d, ![d] = NOT_A_DS_ID],
               BackLink |-> [[M.BackLink EXCEPT ![M.Link[d]] = Prev(M, d)] EXCEPT ![d] = M.Tail],
               Offset |-> M.Offset, ElemSize |-> M.ElemSize, Count |-> M.Count,
               DataspaceSize |-> M.DataspaceSize]
         /\ MoveToTail(M, d) \in Memories
<1> DEFINE N == Unlink(M, d)
           H == IF d = M.Head THEN M.Link[d] ELSE M.Head
           L == [M.Link EXCEPT ![Prev(M, d)] = M.Link[d]]
           B == [M.BackLink EXCEPT ![M.Link[d]] = Prev(M, d)]
<1>1. MoveToTail(M, d) = InsertAtTail(N, d)
  BY DEF MoveToTail
<1>2. /\ N = [Head |-> H, Tail |-> M.Tail, FreeHead |-> M.FreeHead, Link |-> L, BackLink |-> B,
              Offset |-> M.Offset, ElemSize |-> M.ElemSize, Count |-> M.Count,
              DataspaceSize |-> M.DataspaceSize]
      /\ N \in Memories
  BY UnlinkFields
<1> HIDE DEF N, H, L, B
<1>3. /\ InsertAtTail(N, d) =
           [Head |-> N.Head, Tail |-> d, FreeHead |-> N.FreeHead,
            Link |-> [N.Link EXCEPT ![N.Tail] = d, ![d] = NOT_A_DS_ID],
            BackLink |-> [N.BackLink EXCEPT ![d] = N.Tail],
            Offset |-> N.Offset, ElemSize |-> N.ElemSize, Count |-> N.Count,
            DataspaceSize |-> N.DataspaceSize]
      /\ InsertAtTail(N, d) \in Memories
  BY <1>2, InsertFields
<1>4. /\ N.Head = H /\ N.Tail = M.Tail /\ N.FreeHead = M.FreeHead /\ N.Link = L /\ N.BackLink = B
      /\ N.Offset = M.Offset /\ N.ElemSize = M.ElemSize /\ N.Count = M.Count
      /\ N.DataspaceSize = M.DataspaceSize
  BY <1>2
<1>5. QED
  BY <1>1, <1>3, <1>4 DEF H, L, B

\* The fields after FreeDopeVector.
LEMMA FreeFields ==
  ASSUME NEW M \in Memories, NEW d \in DVs
  PROVE  /\ FreeDopeVector(M, d) =
              [Head |-> IF d = M.Head THEN M.Link[d] ELSE M.Head,
               Tail |-> IF d = M.Tail /\ d # M.Head THEN M.BackLink[d] ELSE M.Tail,
               FreeHead |-> d,
               Link |-> [[M.Link EXCEPT ![Prev(M, d)] = M.Link[d]] EXCEPT ![d] = M.FreeHead],
               BackLink |-> [[M.BackLink EXCEPT ![M.Link[d]] = Prev(M, d)]
                                EXCEPT ![d] = NOT_A_DS_ID, ![M.FreeHead] = d],
               Offset |-> [M.Offset EXCEPT ![d] = NOT_AN_OFFSET],
               ElemSize |-> [M.ElemSize EXCEPT ![d] = 0],
               Count |-> [M.Count EXCEPT ![d] = 0],
               DataspaceSize |-> M.DataspaceSize]
         /\ FreeDopeVector(M, d) \in Memories
<1> DEFINE N == Unlink(M, d)
           R == FreeDopeVector(M, d)
           H == IF d = M.Head THEN M.Link[d] ELSE M.Head
           T == IF d = M.Tail /\ d # M.Head THEN M.BackLink[d] ELSE M.Tail
           L == [M.Link EXCEPT ![Prev(M, d)] = M.Link[d]]
           B == [M.BackLink EXCEPT ![M.Link[d]] = Prev(M, d)]
           L1 == [L EXCEPT ![d] = M.FreeHead]
           B1 == [B EXCEPT ![d] = NOT_A_DS_ID, ![M.FreeHead] = d]
           O1 == [M.Offset EXCEPT ![d] = NOT_AN_OFFSET]
           E1 == [M.ElemSize EXCEPT ![d] = 0]
           C1 == [M.Count EXCEPT ![d] = 0]
<1>1. /\ N = [Head |-> H, Tail |-> M.Tail, FreeHead |-> M.FreeHead, Link |-> L, BackLink |-> B,
              Offset |-> M.Offset, ElemSize |-> M.ElemSize, Count |-> M.Count,
              DataspaceSize |-> M.DataspaceSize]
      /\ N \in Memories
  BY UnlinkFields
<1>2. R = [N EXCEPT !.Count[d] = 0, !.ElemSize[d] = 0, !.Offset[d] = NOT_AN_OFFSET,
                    !.Tail = IF d = M.Tail /\ d # M.Head THEN M.BackLink[d] ELSE @,
                    !.Link[d] = M.FreeHead,
                    !.BackLink = [@ EXCEPT ![d] = NOT_A_DS_ID, ![M.FreeHead] = d],
                    !.FreeHead = d]
  BY DEF FreeDopeVector
<1>3. H \in Ids /\ T \in Ids /\ d \in Ids
  BY DEF Memories, Ids
<1> HIDE DEF N, R, H, L, B
<1>4. /\ N.Head = H /\ N.Tail = M.Tail /\ N.FreeHead = M.FreeHead /\ N.Link = L /\ N.BackLink = B
      /\ N.Offset = M.Offset /\ N.ElemSize = M.ElemSize /\ N.Count = M.Count
      /\ N.DataspaceSize = M.DataspaceSize
  BY <1>1
<1>5. R = [N EXCEPT !.Count = C1, !.ElemSize = E1, !.Offset = O1, !.Tail = T,
                    !.Link = L1, !.BackLink = B1, !.FreeHead = d]
  BY <1>1, <1>2, <1>4 DEF Memories
<1>6. L1 \in [DVs -> Ids] /\ B1 \in [DVs -> Ids]
  <2>1. L \in [DVs -> Ids] /\ B \in [DVs -> Ids]
    BY <1>1, <1>4 DEF Memories
  <2>2. NOT_A_DS_ID \in Ids /\ M.FreeHead \in Ids
    BY DEF Memories, Ids
  <2>3. QED
    BY <2>1, <2>2, <1>3
<1>7. O1 \in [DVs -> Nat] /\ E1 \in [DVs -> Nat] /\ C1 \in [DVs -> Nat]
  BY Constants DEF Memories
<1> HIDE DEF T, L1, B1, O1, E1, C1
<1>8. R = [Head |-> H, Tail |-> T, FreeHead |-> d, Link |-> L1, BackLink |-> B1,
           Offset |-> O1, ElemSize |-> E1, Count |-> C1, DataspaceSize |-> M.DataspaceSize]
  BY <1>1, <1>4, <1>5 DEF Memories
<1>9. R \in Memories
  BY <1>3, <1>6, <1>7, <1>8 DEF Memories
<1>10. QED
  BY <1>8, <1>9 DEF R, H, T, L, B, L1, B1, O1, E1, C1

\* The fields after TakeDopeVector.
LEMMA TakeFields ==
  ASSUME NEW M \in Memories, NEW d \in DVs, NEW size \in Nat
  PROVE  /\ TakeDopeVector(M, d, size) =
              [Head |-> M.Head, Tail |-> d, FreeHead |-> M.Link[d],
               Link |-> [M.Link EXCEPT ![M.Tail] = d, ![d] = NOT_A_DS_ID],
               BackLink |-> [[M.BackLink EXCEPT ![M.Link[d]] = NOT_A_DS_ID] EXCEPT ![d] = M.Tail],
               Offset |-> [M.Offset EXCEPT ![d] = NOT_AN_OFFSET],
               ElemSize |-> [M.ElemSize EXCEPT ![d] = size],
               Count |-> [M.Count EXCEPT ![d] = 0],
               DataspaceSize |-> M.DataspaceSize]
         /\ TakeDopeVector(M, d, size) \in Memories
<1> DEFINE B == [M.BackLink EXCEPT ![M.Link[d]] = NOT_A_DS_ID]
           O1 == [M.Offset EXCEPT ![d] = NOT_AN_OFFSET]
           E1 == [M.ElemSize EXCEPT ![d] = size]
           C1 == [M.Count EXCEPT ![d] = 0]
           N == [M EXCEPT !.FreeHead = M.Link[d],
                          !.BackLink[M.Link[d]] = NOT_A_DS_ID,
                          !.Offset[d] = NOT_AN_OFFSET,
                          !.ElemSize[d] = size,
                          !.Count[d] = 0]
<1>1. N = [M EXCEPT !.FreeHead = M.Link[d], !.BackLink = B, !.Offset = O1, !.ElemSize = E1,
                    !.Count = C1]
  BY DEF Memories
<1>2. M.Link[d] \in Ids /\ NOT_A_DS_ID \in Ids
  BY DEF Memories, Ids
<1>3. B \in [DVs -> Ids]
  BY <1>2 DEF Memories
<1>4. O1 \in [DVs -> Nat] /\ E1 \in [DVs -> Nat] /\ C1 \in [DVs -> Nat]
  BY Constants DEF Memories
<1>5. TakeDopeVector(M, d, size) = InsertAtTail(N, d)
  BY DEF TakeDopeVector
<1> HIDE DEF N, B, O1, E1, C1
<1>6. N = [Head |-> M.Head, Tail |-> M.Tail, FreeHead |-> M.Link[d], Link |-> M.Link,
           BackLink |-> B, Offset |-> O1, ElemSize |-> E1, Count |-> C1,
           DataspaceSize |-> M.DataspaceSize]
  BY <1>1 DEF Memories
<1>7. N \in Memories
  BY <1>2, <1>3, <1>4, <1>6 DEF Memories
<1>8. /\ InsertAtTail(N, d) =
           [Head |-> N.Head, Tail |-> d, FreeHead |-> N.FreeHead,
            Link |-> [N.Link EXCEPT ![N.Tail] = d, ![d] = NOT_A_DS_ID],
            BackLink |-> [N.BackLink EXCEPT ![d] = N.Tail],
            Offset |-> N.Offset, ElemSize |-> N.ElemSize, Count |-> N.Count,
            DataspaceSize |-> N.DataspaceSize]
      /\ InsertAtTail(N, d) \in Memories
  BY <1>7, InsertFields
<1>9. /\ N.Head = M.Head /\ N.Tail = M.Tail /\ N.FreeHead = M.Link[d] /\ N.Link = M.Link
      /\ N.BackLink = B /\ N.Offset = O1 /\ N.ElemSize = E1 /\ N.Count = C1
      /\ N.DataspaceSize = M.DataspaceSize
  BY <1>6
<1>10. QED
  BY <1>5, <1>8, <1>9 DEF B, O1, E1, C1

-----------------------------------------------------------------------------
(***************************************************************************)
(* The list of DVs in use and the free list.                               *)
(***************************************************************************)

\* u is the list of DVs in use and f the free list, and these are all DVs.
Lists(M, u, f) ==
  /\ M \in Memories
  /\ Chain(M.Link, M.BackLink, M.Head, u)
  /\ Chain(M.Link, M.BackLink, M.FreeHead, f)
  /\ Len(u) >= 1 /\ M.Tail = u[Len(u)]
  /\ Range_(u) \cap Range_(f) = {}
  /\ Range_(u) \cup Range_(f) = 0 .. M.Count[0] - 1
  /\ Len(u) + Len(f) = M.Count[0]
  /\ 0 \in Range_(u)

\* The two lists are what a walk along the links meets, and hold DVs that exist.
LEMMA ListsFacts ==
  ASSUME NEW M, NEW u, NEW f, Lists(M, u, f)
  PROVE  /\ Distinct(u) /\ Distinct(f) /\ Len(u) \in Nat /\ Len(f) \in Nat
         /\ M.Count[0] \in Nat /\ M.Count[0] <= MaxDV + 1
         /\ Range_(u) \subseteq DVs /\ Range_(f) \subseteq DVs
         /\ \A i \in 1 .. Len(u) : u[i] \in DVs /\ u[i] \in Range_(u)
         /\ \A d \in Range_(u) : \E i \in 1 .. Len(u) : u[i] = d
         /\ Used(M) = u /\ Free(M) = f
<1>1. Distinct(u) /\ Distinct(f)
  BY DEF Lists, Chain
<1>2. u \in Seq(DVs) /\ f \in Seq(DVs) /\ Len(u) \in Nat /\ Len(f) \in Nat
  BY <1>1 DEF Distinct
<1>3. /\ Range_(u) \subseteq DVs /\ Range_(f) \subseteq DVs
      /\ \A i \in 1 .. Len(u) : u[i] \in DVs /\ u[i] \in Range_(u)
      /\ \A d \in Range_(u) : \E i \in 1 .. Len(u) : u[i] = d
  BY <1>2, Ranges
<1>4. M.Count[0] \in Nat
  BY NotADV DEF Lists, Memories
<1>5. M.Count[0] <= MaxDV + 1
  <2> DEFINE c == M.Count[0]
  <2>1. 0 .. c - 1 \subseteq DVs
    BY <1>3 DEF Lists
  <2>2. c \in Nat
    BY <1>4
  <2> HIDE DEF c
  <2>3. CASE c = 0
    BY <2>3, NotADV DEF c
  <2>4. CASE c # 0
    <3>1. c - 1 \in 0 .. c - 1
      BY <2>2, <2>4
    <3>2. c - 1 \in 0 .. MaxDV
      BY <3>1, <2>1 DEF DVs
    <3>3. QED
      BY <3>2, <2>2, NotADV DEF c
  <2>5. QED
    BY <2>3, <2>4
<1>6. Len(u) <= MaxDV + 1 /\ Len(f) <= MaxDV + 1
  BY <1>2, <1>4, <1>5, NotADV DEF Lists
<1>7. Used(M) = u
  BY <1>6, WalkOfList DEF Used, Lists
<1>8. Free(M) = f
  BY <1>6, WalkOfList DEF Free, Lists
<1>9. QED
  BY <1>1, <1>2, <1>3, <1>4, <1>5, <1>7, <1>8

\* The lists are in some of the fields only.
LEMMA ListsFrame ==
  ASSUME NEW M, NEW u, NEW f, Lists(M, u, f), NEW N \in Memories,
         N.Head = M.Head, N.Tail = M.Tail, N.FreeHead = M.FreeHead,
         N.Link = M.Link, N.BackLink = M.BackLink, N.Count[0] = M.Count[0]
  PROVE  Lists(N, u, f)
BY DEF Lists

\* Moving a DV to the end of the list.
LEMMA MoveLists ==
  ASSUME NEW M, NEW u, NEW f, Lists(M, u, f), NEW k \in 1 .. Len(u)
  PROVE  /\ Lists(MoveToTail(M, u[k]), Append(Without(u, k), u[k]), f)
         /\ MoveToTail(M, u[k]).Offset = M.Offset /\ MoveToTail(M, u[k]).ElemSize = M.ElemSize
         /\ MoveToTail(M, u[k]).Count = M.Count
         /\ MoveToTail(M, u[k]).DataspaceSize = M.DataspaceSize
<1> DEFINE d == u[k]
           n == Len(u)
           w == Without(u, k)
           v == Append(w, d)
           N == MoveToTail(M, d)
<1>1. /\ Distinct(u) /\ Distinct(f) /\ n \in Nat /\ d \in DVs /\ d \in Range_(u)
      /\ Range_(u) \subseteq DVs /\ Range_(f) \subseteq DVs
  BY ListsFacts
<1>2. /\ M \in Memories /\ Chain(M.Link, M.BackLink, M.Head, u)
      /\ Chain(M.Link, M.BackLink, M.FreeHead, f)
      /\ n >= 1 /\ M.Tail = u[n] /\ Range_(u) \cap Range_(f) = {}
  BY DEF Lists
<1>3. /\ Distinct(w) /\ Len(w) = n - 1 /\ Range_(w) = Range_(u) \ {d}
      /\ \A i \in 1 .. n - 1 : w[i] = IF i < k THEN u[i] ELSE u[i + 1]
  BY <1>1, WithoutSeq
<1>4. /\ Distinct(v) /\ Len(v) = n /\ Range_(v) = Range_(u) /\ v[n] = d
      /\ \A i \in 1 .. n - 1 : v[i] = w[i]
  <2>1. d \notin Range_(w)
    BY <1>3
  <2>2. /\ Distinct(v) /\ Len(v) = Len(w) + 1 /\ v[Len(w) + 1] = d
        /\ \A i \in 1 .. Len(w) : v[i] = w[i]
        /\ Range_(v) = Range_(w) \cup {d}
    BY <2>1, <1>1, <1>3, AppendSeq
  <2>3. Len(w) + 1 = n
    BY <1>1, <1>3
  <2>4. QED
    BY <2>2, <2>3, <1>1, <1>3
<1>5. CASE k = n
  <2>1. N = M
    BY <1>2, <1>5 DEF MoveToTail
  <2>2. v = u
    <3>1. \A i \in 1 .. n : v[i] = u[i]
      BY <1>1, <1>3, <1>4, <1>5
    <3>2. v \in Seq(DVs) /\ u \in Seq(DVs) /\ Len(v) = Len(u)
      BY <1>1, <1>4 DEF Distinct
    <3>3. QED
      BY <3>1, <3>2
  <2>3. QED
    BY <2>1, <2>2
<1>6. CASE k # n
  <2>1. d # M.Tail
    BY <1>1, <1>2, <1>6 DEF Distinct
  <2> DEFINE L1 == [M.Link EXCEPT ![Prev(M, d)] = M.Link[d]]
             B1 == [M.BackLink EXCEPT ![M.Link[d]] = Prev(M, d)]
             H == IF d = M.Head THEN M.Link[d] ELSE M.Head
  <2>2. /\ N = [Head |-> H, Tail |-> d, FreeHead |-> M.FreeHead,
                Link |-> [L1 EXCEPT ![M.Tail] = d, ![d] = NOT_A_DS_ID],
                BackLink |-> [B1 EXCEPT ![d] = M.Tail],
                Offset |-> M.Offset, ElemSize |-> M.ElemSize, Count |-> M.Count,
                DataspaceSize |-> M.DataspaceSize]
        /\ N \in Memories
    BY <1>1, <1>2, <2>1, MoveFields
  <2>3. M.Head = u[1] /\ (d = M.Head <=> k = 1)
    BY <1>1, <1>2 DEF Chain, Distinct
  <2>4. /\ M.Link \in [DVs -> Ids] /\ M.BackLink \in [DVs -> Ids]
        /\ Prev(M, d) = IF k = 1 THEN NOT_A_DS_ID ELSE M.BackLink[u[k]]
    BY <1>2, <2>3 DEF Memories, Prev
  <2>5. /\ \A x \in DVs : L1[x] = IF x = Prev(M, d) THEN M.Link[d] ELSE M.Link[x]
        /\ \A x \in DVs : B1[x] = IF x = M.Link[d] THEN Prev(M, d) ELSE M.BackLink[x]
        /\ L1 \in [DVs -> Ids] /\ B1 \in [DVs -> Ids]
    <3>1. M.Link[d] \in Ids /\ Prev(M, d) \in Ids
      BY <2>4, <1>1 DEF Ids
    <3>2. QED
      BY <2>4, <3>1
  <2> DEFINE P == Prev(M, d)
  <2> HIDE DEF P, L1, B1, N, w, v, d
  <2>6. Chain(L1, B1, IF k = 1 THEN M.Link[d] ELSE M.Head, w)
    <3>1. \A x \in Range_(u) \ {u[k]} : L1[x] = IF x = P THEN M.Link[d] ELSE M.Link[x]
      BY <2>5, <1>1 DEF P
    <3>2. \A x \in Range_(u) \ {u[k]} : B1[x] = IF x = M.Link[d] THEN P ELSE M.BackLink[x]
      BY <2>5, <1>1 DEF P
    <3>3. P = IF k = 1 THEN NOT_A_DS_ID ELSE M.BackLink[u[k]]
      BY <2>4 DEF P
    <3>4. M.Link[d] = M.Link[u[k]]
      BY DEF d
    <3>5. QED
      BY <3>1, <3>2, <3>3, <3>4, <1>2, ChainWithout DEF w
  <2>7. Len(w) >= 1 /\ M.Tail = w[Len(w)]
    <3>1. n - 1 \in 1 .. n - 1 /\ ~(n - 1 < k) /\ (n - 1) + 1 = n
      BY <1>1, <1>6
    <3>2. QED
      BY <3>1, <1>2, <1>3, <1>1
  <2>8. /\ N.Head = H /\ N.Tail = d /\ N.FreeHead = M.FreeHead /\ N.Count = M.Count
        /\ N.Link = [L1 EXCEPT ![M.Tail] = d, ![d] = NOT_A_DS_ID]
        /\ N.BackLink = [B1 EXCEPT ![d] = M.Tail]
        /\ N.Offset = M.Offset /\ N.ElemSize = M.ElemSize
        /\ N.DataspaceSize = M.DataspaceSize
    BY <2>2
  <2>9. /\ \A x \in DVs : N.Link[x] = IF x = d THEN NOT_A_DS_ID
                                      ELSE IF x = M.Tail THEN d ELSE L1[x]
        /\ \A x \in DVs : N.BackLink[x] = IF x = d THEN M.Tail ELSE B1[x]
    BY <2>5, <2>8
  <2>10. Chain(N.Link, N.BackLink, N.Head, v)
    <3>1. d \notin Range_(w) /\ d \in DVs /\ Range_(w) \subseteq DVs
      BY <1>1, <1>3
    <3>2. \A x \in Range_(w) : N.Link[x] = IF x = w[Len(w)] THEN d ELSE L1[x]
      BY <2>7, <2>9, <3>1
    <3>3. \A x \in Range_(w) : N.BackLink[x] = B1[x]
      BY <2>9, <3>1
    <3>4. N.Link[d] = NOT_A_DS_ID /\ N.BackLink[d] = w[Len(w)]
      BY <2>7, <2>9, <3>1
    <3>5. N.Head = IF k = 1 THEN M.Link[d] ELSE M.Head
      BY <2>3, <2>8 DEF d
    <3>6. QED
      BY <3>1, <3>2, <3>3, <3>4, <3>5, <2>6, <2>7, ChainAppend DEF v
  <2>11. Chain(N.Link, N.BackLink, N.FreeHead, f)
    <3>1. ASSUME NEW x \in Range_(f) PROVE N.Link[x] = M.Link[x] /\ N.BackLink[x] = M.BackLink[x]
      <4>1. x \in DVs /\ x \notin Range_(u)
        BY <1>1, <1>2
      <4>2. x # d /\ x # M.Tail
        <5>1. M.Tail \in Range_(u)
          BY <1>2, <1>1, ListsFacts
        <5>2. QED
          BY <4>1, <5>1, <1>1
      <4>3. x # P /\ x # M.Link[d]
        <5>1. \A i \in 1 .. n : u[i] \in Range_(u)
          BY ListsFacts
        <5>2. P = NOT_A_DS_ID \/ P \in Range_(u)
          <6>1. CASE k = 1
            BY <6>1, <2>4 DEF P
          <6>2. CASE k # 1
            <7>1. P = u[k - 1] /\ k - 1 \in 1 .. n
              BY <6>2, <2>4, <1>1, <1>2 DEF P, Chain, n
            <7>2. QED
              BY <7>1, <5>1
          <6>3. QED
            BY <6>1, <6>2
        <5>3. M.Link[d] = NOT_A_DS_ID \/ M.Link[d] \in Range_(u)
          <6>1. M.Link[d] = u[k + 1] /\ k + 1 \in 1 .. n
            BY <1>6, <1>1, <1>2 DEF Chain, n, d
          <6>2. QED
            BY <6>1, <5>1
        <5>4. QED
          BY <5>2, <5>3, <4>1, NotADV
      <4>4. QED
        BY <4>1, <4>2, <4>3, <2>5, <2>9 DEF P
    <3>2. Chain(M.Link, M.BackLink, M.FreeHead, f)
      BY <1>2
    <3>3. Chain(N.Link, N.BackLink, M.FreeHead, f)
      BY <3>1, <3>2, ChainFrame
    <3>4. QED
      BY <3>3, <2>8
  <2>12. Len(v) >= 1 /\ N.Tail = v[Len(v)]
    BY <1>2, <1>4, <2>8
  <2>13. /\ Range_(v) \cap Range_(f) = {} /\ Range_(v) \cup Range_(f) = 0 .. N.Count[0] - 1
         /\ Len(v) + Len(f) = N.Count[0] /\ 0 \in Range_(v)
    BY <1>4, <2>8 DEF Lists
  <2>14. Lists(N, v, f)
    BY <2>2, <2>10, <2>11, <2>12, <2>13 DEF Lists
  <2>15. QED
    BY <2>8, <2>14 DEF N, v, w, d
<1>7. QED
  BY <1>5, <1>6

\* The neighbours of a DV in use are in use.
LEMMA Neighbours ==
  ASSUME NEW M, NEW u, NEW f, Lists(M, u, f), NEW k \in 1 .. Len(u)
  PROVE  /\ u[k] = M.Head <=> k = 1
         /\ u[k] = M.Tail <=> k = Len(u)
         /\ Prev(M, u[k]) = IF k = 1 THEN NOT_A_DS_ID ELSE u[k - 1]
         /\ Prev(M, u[k]) = IF k = 1 THEN NOT_A_DS_ID ELSE M.BackLink[u[k]]
         /\ M.Link[u[k]] = IF k = Len(u) THEN NOT_A_DS_ID ELSE u[k + 1]
         /\ Prev(M, u[k]) \in Range_(u) \cup {NOT_A_DS_ID}
         /\ M.Link[u[k]] \in Range_(u) \cup {NOT_A_DS_ID}
<1>1. /\ Distinct(u) /\ Len(u) \in Nat
      /\ \A i \in 1 .. Len(u) : u[i] \in DVs /\ u[i] \in Range_(u)
  BY ListsFacts
<1>2. Chain(M.Link, M.BackLink, M.Head, u) /\ Len(u) >= 1 /\ M.Tail = u[Len(u)]
  BY DEF Lists
<1>3. M.Head = u[1]
  BY <1>1, <1>2 DEF Chain
<1>4. 1 \in 1 .. Len(u) /\ Len(u) \in 1 .. Len(u)
  BY <1>1, <1>2
<1>5. (u[k] = M.Head <=> k = 1) /\ (u[k] = M.Tail <=> k = Len(u))
  BY <1>1, <1>2, <1>3, <1>4 DEF Distinct
<1>6. /\ Prev(M, u[k]) = IF k = 1 THEN NOT_A_DS_ID ELSE u[k - 1]
      /\ Prev(M, u[k]) = IF k = 1 THEN NOT_A_DS_ID ELSE M.BackLink[u[k]]
      /\ M.Link[u[k]] = IF k = Len(u) THEN NOT_A_DS_ID ELSE u[k + 1]
  BY <1>2, <1>5 DEF Chain, Prev
<1>7. k # 1 => k - 1 \in 1 .. Len(u)
  BY <1>1
<1>8. k # Len(u) => k + 1 \in 1 .. Len(u)
  BY <1>1
<1>9. QED
  BY <1>1, <1>5, <1>6, <1>7, <1>8

\* Freeing a DV.
LEMMA FreeLists ==
  ASSUME NEW M, NEW u, NEW f, Lists(M, u, f), NEW k \in 1 .. Len(u), u[k] # 0
  PROVE  /\ Lists(FreeDopeVector(M, u[k]), Without(u, k), Before(u[k], f))
         /\ FreeDopeVector(M, u[k]).Offset = [M.Offset EXCEPT ![u[k]] = NOT_AN_OFFSET]
         /\ FreeDopeVector(M, u[k]).ElemSize = [M.ElemSize EXCEPT ![u[k]] = 0]
         /\ FreeDopeVector(M, u[k]).Count = [M.Count EXCEPT ![u[k]] = 0]
         /\ FreeDopeVector(M, u[k]).DataspaceSize = M.DataspaceSize
<1> DEFINE d == u[k]
           n == Len(u)
           w == Without(u, k)
           g == Before(d, f)
           N == FreeDopeVector(M, d)
           P == Prev(M, d)
           L1 == [M.Link EXCEPT ![P] = M.Link[d]]
           B1 == [M.BackLink EXCEPT ![M.Link[d]] = P]
           H == IF d = M.Head THEN M.Link[d] ELSE M.Head
           T == IF d = M.Tail /\ d # M.Head THEN M.BackLink[d] ELSE M.Tail
<1>1. /\ Distinct(u) /\ Distinct(f) /\ n \in Nat /\ d \in DVs /\ d \in Range_(u)
      /\ Range_(u) \subseteq DVs /\ Range_(f) \subseteq DVs
      /\ \A i \in 1 .. n : u[i] \in DVs /\ u[i] \in Range_(u)
      /\ \A x \in Range_(u) : \E i \in 1 .. n : u[i] = x
  BY ListsFacts
<1>2. /\ M \in Memories /\ Chain(M.Link, M.BackLink, M.Head, u)
      /\ Chain(M.Link, M.BackLink, M.FreeHead, f)
      /\ n >= 1 /\ M.Tail = u[n] /\ Range_(u) \cap Range_(f) = {}
      /\ Range_(u) \cup Range_(f) = 0 .. M.Count[0] - 1
      /\ n + Len(f) = M.Count[0] /\ 0 \in Range_(u)
  BY DEF Lists
<1>3. /\ Distinct(w) /\ Len(w) = n - 1 /\ Range_(w) = Range_(u) \ {d}
      /\ \A i \in 1 .. n - 1 : w[i] = IF i < k THEN u[i] ELSE u[i + 1]
  BY <1>1, WithoutSeq
<1>4. d \notin Range_(f)
  BY <1>1, <1>2
<1>5. Distinct(g) /\ Len(g) = Len(f) + 1 /\ Range_(g) = Range_(f) \cup {d}
  BY <1>1, <1>4, BeforeSeq
<1>6. n >= 2
  <2>1. PICK i \in 1 .. n : u[i] = 0
    BY <1>1, <1>2
  <2>2. i # k
    BY <2>1
  <2>3. QED
    BY <2>2, <1>1
<1>7. /\ d = M.Head <=> k = 1
      /\ d = M.Tail <=> k = n
      /\ P = IF k = 1 THEN NOT_A_DS_ID ELSE M.BackLink[d]
      /\ P = IF k = 1 THEN NOT_A_DS_ID ELSE u[k - 1]
      /\ M.Link[d] = IF k = n THEN NOT_A_DS_ID ELSE u[k + 1]
      /\ P \in Range_(u) \cup {NOT_A_DS_ID}
      /\ M.Link[d] \in Range_(u) \cup {NOT_A_DS_ID}
  BY Neighbours
<1>8. /\ N = [Head |-> H, Tail |-> T, FreeHead |-> d,
              Link |-> [L1 EXCEPT ![d] = M.FreeHead],
              BackLink |-> [B1 EXCEPT ![d] = NOT_A_DS_ID, ![M.FreeHead] = d],
              Offset |-> [M.Offset EXCEPT ![d] = NOT_AN_OFFSET],
              ElemSize |-> [M.ElemSize EXCEPT ![d] = 0],
              Count |-> [M.Count EXCEPT ![d] = 0],
              DataspaceSize |-> M.DataspaceSize]
      /\ N \in Memories
  BY <1>1, <1>2, FreeFields
<1>9. /\ M.Link \in [DVs -> Ids] /\ M.BackLink \in [DVs -> Ids] /\ M.Count \in [DVs -> Nat]
  BY <1>2 DEF Memories
<1>10. /\ \A x \in DVs : L1[x] = IF x = P THEN M.Link[d] ELSE M.Link[x]
       /\ \A x \in DVs : B1[x] = IF x = M.Link[d] THEN P ELSE M.BackLink[x]
       /\ L1 \in [DVs -> Ids] /\ B1 \in [DVs -> Ids]
  <2>1. M.Link[d] \in Ids /\ P \in Ids
    BY <1>1, <1>7 DEF Ids
  <2>2. QED
    BY <1>9, <2>1
<1> HIDE DEF P, L1, B1, N, w, g, H, T
<1>11. /\ N.Head = H /\ N.Tail = T /\ N.FreeHead = d
       /\ N.Link = [L1 EXCEPT ![d] = M.FreeHead]
       /\ N.BackLink = [B1 EXCEPT ![d] = NOT_A_DS_ID, ![M.FreeHead] = d]
       /\ N.Offset = [M.Offset EXCEPT ![d] = NOT_AN_OFFSET]
       /\ N.ElemSize = [M.ElemSize EXCEPT ![d] = 0]
       /\ N.Count = [M.Count EXCEPT ![d] = 0]
       /\ N.DataspaceSize = M.DataspaceSize
  BY <1>8
<1>12. M.FreeHead # d
  BY <1>2, <1>4, <1>1, NotADV, ChainFirst
<1>13. /\ \A x \in DVs : N.Link[x] = IF x = d THEN M.FreeHead ELSE L1[x]
       /\ \A x \in DVs : N.BackLink[x] = IF x = d THEN NOT_A_DS_ID
                                         ELSE IF x = M.FreeHead THEN d ELSE B1[x]
  BY <1>10, <1>11, <1>12
<1>14. M.FreeHead \notin Range_(u)
  BY <1>2, <1>1, NotADV, ChainFirst
<1>15. Chain(N.Link, N.BackLink, N.Head, w)
  <2>1. \A x \in Range_(u) \ {u[k]} : N.Link[x] = IF x = P THEN M.Link[d] ELSE M.Link[x]
    BY <1>1, <1>10, <1>13
  <2>2. \A x \in Range_(u) \ {u[k]} : N.BackLink[x] = IF x = M.Link[d] THEN P ELSE M.BackLink[x]
    BY <1>1, <1>10, <1>13, <1>14
  <2>3. P = IF k = 1 THEN NOT_A_DS_ID ELSE M.BackLink[u[k]]
    BY <1>7
  <2>4. Chain(M.Link, M.BackLink, M.Head, u)
    BY <1>2
  <2>5. Chain(N.Link, N.BackLink, IF k = 1 THEN M.Link[d] ELSE M.Head, w)
    BY <2>1, <2>2, <2>3, <2>4, ChainWithout DEF w
  <2>6. N.Head = IF k = 1 THEN M.Link[d] ELSE M.Head
    BY <1>7, <1>11 DEF H
  <2>7. QED
    BY <2>5, <2>6
<1>16. Chain(N.Link, N.BackLink, N.FreeHead, g)
  <2>1. ASSUME NEW x \in Range_(f)
        PROVE  N.Link[x] = M.Link[x] /\ N.BackLink[x] = IF x = M.FreeHead THEN d ELSE M.BackLink[x]
    <3>1. x \in DVs /\ x \notin Range_(u)
      BY <1>1, <1>2
    <3>2. x # d /\ x # P /\ x # M.Link[d]
      BY <3>1, <1>1, <1>7, NotADV
    <3>3. QED
      BY <3>1, <3>2, <1>10, <1>13
  <2>2. N.Link[d] = M.FreeHead /\ N.BackLink[d] = NOT_A_DS_ID
    BY <1>1, <1>13
  <2>3. Chain(M.Link, M.BackLink, M.FreeHead, f)
    BY <1>2
  <2>4. Chain(N.Link, N.BackLink, d, g)
    BY <2>1, <2>2, <2>3, <1>1, <1>4, ChainBefore DEF g
  <2>5. QED
    BY <2>4, <1>11
<1>17. Len(w) >= 1 /\ N.Tail = w[Len(w)]
  <2>1. n - 1 \in 1 .. n - 1 /\ (n - 1) + 1 = n
    BY <1>1, <1>6
  <2>2. CASE k = n
    <3>1. w[n - 1] = u[n - 1]
      BY <2>1, <2>2, <1>3, <1>1
    <3>2. T = M.BackLink[d] /\ M.BackLink[d] = u[n - 1]
      BY <2>2, <1>6, <1>7 DEF T
    <3>3. QED
      BY <3>1, <3>2, <2>1, <1>3, <1>6, <1>11, <1>1
  <2>3. CASE k # n
    <3>0. ~(n - 1 < k)
      BY <2>3, <1>1
    <3>1. w[n - 1] = u[n]
      BY <2>1, <3>0, <1>3
    <3>2. T = M.Tail
      BY <2>3, <1>7 DEF T
    <3>3. QED
      BY <3>1, <3>2, <2>1, <1>2, <1>3, <1>6, <1>11, <1>1
  <2>4. QED
    BY <2>2, <2>3
<1>18. N.Count[0] = M.Count[0]
  BY <1>9, <1>11, NotADV
<1>19. /\ Range_(w) \cap Range_(g) = {} /\ Range_(w) \cup Range_(g) = 0 .. N.Count[0] - 1
       /\ 0 \in Range_(w)
  <2>1. Range_(w) = Range_(u) \ {d} /\ Range_(g) = Range_(f) \cup {d} /\ d \in Range_(u) /\ d # 0
    BY <1>1, <1>3, <1>5
  <2>2. /\ Range_(u) \cap Range_(f) = {} /\ Range_(u) \cup Range_(f) = 0 .. M.Count[0] - 1
        /\ 0 \in Range_(u)
    BY <1>2
  <2>3. Range_(w) \cup Range_(g) = Range_(u) \cup Range_(f)
    BY <2>1
  <2>4. QED
    BY <2>1, <2>2, <2>3, <1>18
<1>20. Len(w) + Len(g) = N.Count[0]
  <2>1. Len(f) \in Nat
    BY ListsFacts
  <2>2. QED
    BY <2>1, <1>1, <1>2, <1>3, <1>5, <1>18
<1>21. Lists(N, w, g)
  BY <1>8, <1>15, <1>16, <1>17, <1>19, <1>20 DEF Lists
<1>22. QED
  BY <1>11, <1>21 DEF N, w, g

\* Taking a DV from the free list.
LEMMA TakeLists ==
  ASSUME NEW M, NEW u, NEW f, Lists(M, u, f), M.FreeHead # NOT_A_DS_ID, NEW size \in Nat
  PROVE  LET d == M.FreeHead
             N == TakeDopeVector(M, d, size)
         IN  /\ d \in DVs \ {0} /\ d \notin Range_(u)
             /\ \E g : Lists(N, Append(u, d), g)
             /\ N.Offset = [M.Offset EXCEPT ![d] = NOT_AN_OFFSET]
             /\ N.ElemSize = [M.ElemSize EXCEPT ![d] = size]
             /\ N.Count = [M.Count EXCEPT ![d] = 0]
             /\ N.DataspaceSize = M.DataspaceSize
<1> DEFINE d == f[1]
           n == Len(u)
           v == Append(u, d)
           g == Without(f, 1)
           N == TakeDopeVector(M, d, size)
           B1 == [M.BackLink EXCEPT ![M.Link[d]] = NOT_A_DS_ID]
<1>1. /\ Distinct(u) /\ Distinct(f) /\ n \in Nat /\ Len(f) \in Nat
      /\ Range_(u) \subseteq DVs /\ Range_(f) \subseteq DVs
      /\ \A i \in 1 .. n : u[i] \in DVs /\ u[i] \in Range_(u)
  BY ListsFacts
<1>2. /\ M \in Memories /\ Chain(M.Link, M.BackLink, M.Head, u)
      /\ Chain(M.Link, M.BackLink, M.FreeHead, f)
      /\ n >= 1 /\ M.Tail = u[n] /\ Range_(u) \cap Range_(f) = {}
      /\ Range_(u) \cup Range_(f) = 0 .. M.Count[0] - 1
      /\ n + Len(f) = M.Count[0] /\ 0 \in Range_(u)
  BY DEF Lists
<1>3. 1 \in 1 .. Len(f)
  BY <1>1, <1>2, ChainFirst DEF Chain
<1>4. M.FreeHead = d /\ d \in DVs /\ d \in Range_(f)
  BY <1>1, <1>2, <1>3, Ranges DEF Chain, Distinct
<1>5. d \notin Range_(u) /\ d # 0
  BY <1>2, <1>4
<1>6. Distinct(v) /\ Len(v) = n + 1 /\ Range_(v) = Range_(u) \cup {d} /\ v[n + 1] = d
  BY <1>1, <1>4, <1>5, AppendSeq
<1>7. Distinct(g) /\ Len(g) = Len(f) - 1 /\ Range_(g) = Range_(f) \ {d}
  BY <1>1, <1>3, WithoutSeq
<1>8. /\ N = [Head |-> M.Head, Tail |-> d, FreeHead |-> M.Link[d],
              Link |-> [M.Link EXCEPT ![M.Tail] = d, ![d] = NOT_A_DS_ID],
              BackLink |-> [B1 EXCEPT ![d] = M.Tail],
              Offset |-> [M.Offset EXCEPT ![d] = NOT_AN_OFFSET],
              ElemSize |-> [M.ElemSize EXCEPT ![d] = size],
              Count |-> [M.Count EXCEPT ![d] = 0],
              DataspaceSize |-> M.DataspaceSize]
      /\ N \in Memories
  BY <1>2, <1>4, TakeFields
<1>9. M.Link[d] = IF 1 = Len(f) THEN NOT_A_DS_ID ELSE f[2]
  <2>1. \A i \in 1 .. Len(f) : M.Link[f[i]] = IF i = Len(f) THEN NOT_A_DS_ID ELSE f[i + 1]
    BY <1>2 DEF Chain
  <2>2. M.Link[f[1]] = IF 1 = Len(f) THEN NOT_A_DS_ID ELSE f[1 + 1]
    BY <2>1, <1>3
  <2>3. QED
    BY <2>2
<1>10. M.Link[d] \in Ids /\ M.Link[d] \notin Range_(u) /\ M.Link[d] # d
  <2>1. CASE Len(f) = 1
    BY <2>1, <1>1, <1>4, <1>9, NotADV DEF Ids
  <2>2. CASE Len(f) # 1
    <3>1. 2 \in 1 .. Len(f)
      <4>1. Len(f) \in Nat /\ Len(f) >= 1
        BY <1>1, <1>3
      <4>2. \A m \in Nat : m >= 1 /\ m # 1 => 2 \in 1 .. m
        OBVIOUS
      <4>3. QED
        BY <2>2, <4>1, <4>2
    <3>2. f[2] # f[1]
      <4>1. \A i, j \in 1 .. Len(f) : f[i] = f[j] => i = j
        BY <1>1 DEF Distinct
      <4>2. f[2] = f[1] => 2 = 1
        BY <4>1, <3>1, <1>3
      <4>3. QED
        BY <4>2
    <3>3. f[2] \in DVs /\ f[2] \in Range_(f)
      BY <3>1, <1>1, Ranges DEF Distinct
    <3>4. M.Link[d] = f[2]
      BY <2>2, <1>9
    <3>5. QED
      BY <3>2, <3>3, <3>4, <1>2 DEF Ids
  <2>3. QED
    BY <2>1, <2>2
<1>11. /\ M.Link \in [DVs -> Ids] /\ M.BackLink \in [DVs -> Ids] /\ M.Count \in [DVs -> Nat]
  BY <1>2 DEF Memories
<1>12. /\ \A x \in DVs : B1[x] = IF x = M.Link[d] THEN NOT_A_DS_ID ELSE M.BackLink[x]
       /\ B1 \in [DVs -> Ids]
  BY <1>11 DEF Ids
<1> HIDE DEF B1, N, v, g
<1>13. /\ N.Head = M.Head /\ N.Tail = d /\ N.FreeHead = M.Link[d]
       /\ N.Link = [M.Link EXCEPT ![M.Tail] = d, ![d] = NOT_A_DS_ID]
       /\ N.BackLink = [B1 EXCEPT ![d] = M.Tail]
       /\ N.Offset = [M.Offset EXCEPT ![d] = NOT_AN_OFFSET]
       /\ N.ElemSize = [M.ElemSize EXCEPT ![d] = size]
       /\ N.Count = [M.Count EXCEPT ![d] = 0]
       /\ N.DataspaceSize = M.DataspaceSize
  BY <1>8
<1>14. n \in 1 .. n /\ M.Tail \in Range_(u)
  BY <1>1, <1>2
<1>15. /\ \A x \in DVs : N.Link[x] = IF x = d THEN NOT_A_DS_ID
                                     ELSE IF x = M.Tail THEN d ELSE M.Link[x]
       /\ \A x \in DVs : N.BackLink[x] = IF x = d THEN M.Tail ELSE B1[x]
  BY <1>11, <1>12, <1>13
<1>16. Chain(N.Link, N.BackLink, N.Head, v)
  <2>1. \A x \in Range_(u) : N.Link[x] = IF x = u[Len(u)] THEN d ELSE M.Link[x]
    BY <1>1, <1>2, <1>5, <1>15
  <2>2. \A x \in Range_(u) : N.BackLink[x] = M.BackLink[x]
    BY <1>1, <1>5, <1>10, <1>12, <1>15
  <2>3. N.Link[d] = NOT_A_DS_ID /\ N.BackLink[d] = u[Len(u)]
    BY <1>2, <1>4, <1>15
  <2>4. Chain(M.Link, M.BackLink, M.Head, u) /\ Len(u) >= 1
    BY <1>2
  <2>5. Chain(N.Link, N.BackLink, M.Head, v)
    BY <2>1, <2>2, <2>3, <2>4, <1>4, <1>5, ChainAppend DEF v
  <2>6. QED
    BY <2>5, <1>13
<1>17. Chain(N.Link, N.BackLink, N.FreeHead, g)
  <2>1. ASSUME NEW x \in Range_(f) \ {f[1]}
        PROVE  /\ N.Link[x] = IF x = NOT_A_DS_ID THEN M.Link[d] ELSE M.Link[x]
               /\ N.BackLink[x] = IF x = M.Link[d] THEN NOT_A_DS_ID ELSE M.BackLink[x]
    <3>1. x \in DVs /\ x \notin Range_(u) /\ x # NOT_A_DS_ID /\ x # d
      BY <1>1, <1>2, NotADV
    <3>2. x # M.Tail
      BY <3>1, <1>14
    <3>3. QED
      BY <3>1, <3>2, <1>12, <1>15
  <2>2. Chain(M.Link, M.BackLink, M.FreeHead, f) /\ M.Link[d] = M.Link[f[1]]
    BY <1>2
  <2>3. NOT_A_DS_ID = IF 1 = 1 THEN NOT_A_DS_ID ELSE M.BackLink[f[1]]
    OBVIOUS
  <2>4. Chain(N.Link, N.BackLink, IF 1 = 1 THEN M.Link[d] ELSE M.FreeHead, g)
    BY <2>1, <2>2, <2>3, <1>3, ChainWithout DEF g
  <2>5. QED
    BY <2>4, <1>13
<1>18. Len(v) >= 1 /\ N.Tail = v[Len(v)]
  BY <1>1, <1>6, <1>13
<1>19. N.Count[0] = M.Count[0]
  BY <1>5, <1>11, <1>13, NotADV
<1>20. /\ Range_(v) \cap Range_(g) = {} /\ Range_(v) \cup Range_(g) = 0 .. N.Count[0] - 1
       /\ 0 \in Range_(v)
  <2>1. Range_(v) = Range_(u) \cup {d} /\ Range_(g) = Range_(f) \ {d} /\ d \in Range_(f)
    BY <1>4, <1>6, <1>7
  <2>2. /\ Range_(u) \cap Range_(f) = {} /\ Range_(u) \cup Range_(f) = 0 .. M.Count[0] - 1
        /\ 0 \in Range_(u)
    BY <1>2
  <2>3. Range_(v) \cup Range_(g) = Range_(u) \cup Range_(f)
    BY <2>1
  <2>4. QED
    BY <2>1, <2>2, <2>3, <1>19
<1>21. Len(v) + Len(g) = N.Count[0]
  BY <1>1, <1>2, <1>6, <1>7, <1>19
<1>22. Lists(N, v, g)
  BY <1>8, <1>16, <1>17, <1>18, <1>20, <1>21 DEF Lists
<1>23. d \in DVs \ {0} /\ \E h : Lists(N, Append(u, d), h)
  BY <1>4, <1>5, <1>22 DEF v
<1> HIDE DEF d
<1>24. QED
  BY <1>4, <1>5, <1>13, <1>23 DEF N

\* The DVs lo .. lo + k - 1, in this order.
Consecutive(lo, k) == [i \in 1 .. k |-> lo + i - 1]

\* The DVs from lo on, k of them.
LEMMA ConsecutiveSeq ==
  ASSUME NEW lo \in Nat, NEW k \in Nat, lo + k <= MaxDV + 1
  PROVE  /\ Distinct(Consecutive(lo, k)) /\ Len(Consecutive(lo, k)) = k
         /\ \A i \in 1 .. k : Consecutive(lo, k)[i] = lo + i - 1
         /\ Range_(Consecutive(lo, k)) = lo .. (lo + k) - 1
<1> DEFINE g == Consecutive(lo, k)
<1>1. \A i \in 1 .. k : g[i] = lo + i - 1
  BY DEF Consecutive
<1>2. \A i \in 1 .. k : lo + i - 1 \in DVs
  BY NotADV DEF DVs
<1>3. g \in [1 .. k -> DVs]
  BY <1>2 DEF Consecutive
<1>4. g \in Seq(DVs) /\ Len(g) = k /\ DOMAIN g = 1 .. k
  BY <1>3
<1> HIDE DEF g
<1>5. \A i, j \in 1 .. k : g[i] = g[j] => i = j
  BY <1>1
<1>6. Range_(g) = lo .. (lo + k) - 1
  <2>1. Range_(g) \subseteq lo .. (lo + k) - 1
    BY <1>1, <1>4 DEF Range_
  <2>2. ASSUME NEW x \in lo .. (lo + k) - 1 PROVE x \in Range_(g)
    <3>1. x - lo + 1 \in 1 .. k /\ lo + (x - lo + 1) - 1 = x
      OBVIOUS
    <3>2. g[x - lo + 1] = x
      BY <3>1, <1>1
    <3>3. QED
      BY <3>1, <3>2, <1>4 DEF Range_
  <2>3. QED
    BY <2>1, <2>2
<1>7. QED
  BY <1>1, <1>4, <1>5, <1>6 DEF Distinct, g

\* N is M with k new DVs after the first old ones.
IsGrown(N, M, old, k) ==
  LET new == old .. (old + k) - 1
  IN  /\ N.Head = M.Head /\ N.Tail = M.Tail
      /\ N.FreeHead = IF k = 0 THEN M.FreeHead ELSE old
      /\ \A i \in DVs : N.Link[i] = IF i \notin new THEN M.Link[i]
                                    ELSE IF i + 1 \in new THEN i + 1 ELSE M.FreeHead
      /\ \A i \in DVs : i \in new =>
           N.BackLink[i] = IF i - 1 \in new THEN i - 1 ELSE NOT_A_DS_ID
      /\ \A i \in DVs : i \notin new /\ i # M.FreeHead => N.BackLink[i] = M.BackLink[i]
      /\ N.Offset = [M.Offset EXCEPT ![0] = M.DataspaceSize]
      /\ N.ElemSize = M.ElemSize
      /\ N.Count = [M.Count EXCEPT ![0] = old + k]
      /\ N.DataspaceSize = M.DataspaceSize + DVSize * (old + k)
      /\ N \in Memories

\* The fields after GrownDopeVectors with k new DVs.
LEMMA GrownFields ==
  ASSUME NEW M \in Memories, NEW old \in Nat, NEW k \in Nat, old + k <= MaxDV + 1
  PROVE  IsGrown(GrownDopeVectors(M, old, old + k), M, old, k)
<1> DEFINE new == old .. (old + k) - 1
           N == GrownDopeVectors(M, old, old + k)
           F == IF new = {} THEN M.FreeHead ELSE old
           L == [i \in DVs |-> IF i \notin new THEN M.Link[i]
                               ELSE IF i + 1 \in new THEN i + 1 ELSE M.FreeHead]
           B == [i \in DVs |->
                   IF i \in new THEN IF i - 1 \in new THEN i - 1 ELSE NOT_A_DS_ID
                   ELSE IF i = M.FreeHead /\ new # {} THEN (old + k) - 1
                   ELSE M.BackLink[i]]
           O == [M.Offset EXCEPT ![0] = M.DataspaceSize]
           C == [M.Count EXCEPT ![0] = old + k]
           D == M.DataspaceSize + DVSize * (old + k)
<1>1. N = [M EXCEPT !.Offset = O, !.Count = C, !.DataspaceSize = D, !.Link = L, !.BackLink = B,
                    !.FreeHead = F]
  BY DEF GrownDopeVectors, Memories
<1>2. new = {} <=> k = 0
  <2>1. k = 0 => new = {}
    OBVIOUS
  <2>2. k # 0 => old \in new
    OBVIOUS
  <2>3. QED
    BY <2>1, <2>2
<1>3. new \subseteq DVs
  BY NotADV DEF DVs
<1>4. F \in Ids
  <2>1. k # 0 => old \in new
    OBVIOUS
  <2>2. QED
    BY <2>1, <1>2, <1>3 DEF Ids, Memories
<1>5. L \in [DVs -> Ids]
  <2>1. \A i \in DVs : M.Link[i] \in Ids /\ M.FreeHead \in Ids
    BY DEF Memories
  <2> HIDE DEF new
  <2>2. ASSUME NEW i \in DVs
        PROVE  (IF i \notin new THEN M.Link[i] ELSE IF i + 1 \in new THEN i + 1 ELSE M.FreeHead) \in Ids
    BY <2>1, <1>3 DEF Ids
  <2>3. QED
    BY <2>2
<1>6. B \in [DVs -> Ids]
  <2>1. \A i \in DVs : M.BackLink[i] \in Ids
    BY DEF Memories
  <2>2. new # {} => (old + k) - 1 \in new
    OBVIOUS
  <2> HIDE DEF new
  <2>3. ASSUME NEW i \in DVs
        PROVE  (IF i \in new THEN IF i - 1 \in new THEN i - 1 ELSE NOT_A_DS_ID
                ELSE IF i = M.FreeHead /\ new # {} THEN (old + k) - 1
                ELSE M.BackLink[i]) \in Ids
    BY <2>1, <2>2, <1>3 DEF Ids
  <2>4. QED
    BY <2>3
<1>7. O \in [DVs -> Nat] /\ C \in [DVs -> Nat] /\ D \in Nat
  <2>1. M.DataspaceSize \in Nat /\ M.Offset \in [DVs -> Nat] /\ M.Count \in [DVs -> Nat]
    BY DEF Memories
  <2>2. DVSize * (old + k) \in Nat
    BY Constants
  <2>3. old + k \in Nat
    OBVIOUS
  <2>4. O \in [DVs -> Nat]
    BY <2>1
  <2>5. C \in [DVs -> Nat]
    BY <2>1, <2>3
  <2>6. D \in Nat
    BY <2>1, <2>2
  <2>7. QED
    BY <2>4, <2>5, <2>6
<1>8. /\ \A i \in DVs : L[i] = IF i \notin new THEN M.Link[i]
                               ELSE IF i + 1 \in new THEN i + 1 ELSE M.FreeHead
      /\ \A i \in DVs : i \in new => B[i] = IF i - 1 \in new THEN i - 1 ELSE NOT_A_DS_ID
      /\ \A i \in DVs : i \notin new /\ i # M.FreeHead => B[i] = M.BackLink[i]
  <2> HIDE DEF new
  <2>0. ASSUME NEW i \in DVs
        PROVE  L[i] = IF i \notin new THEN M.Link[i]
                      ELSE IF i + 1 \in new THEN i + 1 ELSE M.FreeHead
    OBVIOUS
  <2>1. ASSUME NEW i \in DVs, i \in new
        PROVE  B[i] = IF i - 1 \in new THEN i - 1 ELSE NOT_A_DS_ID
    BY <2>1
  <2>2. ASSUME NEW i \in DVs, i \notin new, i # M.FreeHead PROVE B[i] = M.BackLink[i]
    BY <2>2
  <2>3. QED
    BY <2>0, <2>1, <2>2
<1>9. F = IF k = 0 THEN M.FreeHead ELSE old
  BY <1>2
<1> HIDE DEF N, F, L, B, O, C, D
<1>10. N = [Head |-> M.Head, Tail |-> M.Tail, FreeHead |-> F, Link |-> L, BackLink |-> B,
            Offset |-> O, ElemSize |-> M.ElemSize, Count |-> C, DataspaceSize |-> D]
  BY <1>1 DEF Memories
<1>11. N \in Memories
  BY <1>4, <1>5, <1>6, <1>7, <1>10 DEF Memories
<1>12. /\ N.Head = M.Head /\ N.Tail = M.Tail /\ N.FreeHead = F /\ N.Link = L /\ N.BackLink = B
       /\ N.Offset = O /\ N.ElemSize = M.ElemSize /\ N.Count = C /\ N.DataspaceSize = D
  BY <1>10
<1> HIDE DEF new
<1>13. QED
  BY <1>8, <1>9, <1>11, <1>12 DEF N, O, C, D, new, IsGrown

\* New DVs become the free list when there was none.
LEMMA GrownLists ==
  ASSUME NEW M, NEW u, NEW f, Lists(M, u, f), Len(f) = 0, NEW k \in Nat,
         M.Count[0] + k <= MaxDV + 1
  PROVE  Lists(GrownDopeVectors(M, M.Count[0], M.Count[0] + k), u, Consecutive(M.Count[0], k))
<1> DEFINE old == M.Count[0]
           new == old .. (old + k) - 1
           N == GrownDopeVectors(M, old, old + k)
           g == Consecutive(old, k)
<1>1. /\ Distinct(u) /\ Len(u) \in Nat /\ old \in Nat /\ Range_(u) \subseteq DVs
  BY ListsFacts
<1>2. /\ M \in Memories /\ Chain(M.Link, M.BackLink, M.Head, u)
      /\ Chain(M.Link, M.BackLink, M.FreeHead, f)
      /\ Len(u) >= 1 /\ M.Tail = u[Len(u)]
      /\ Range_(u) \cup Range_(f) = 0 .. old - 1
      /\ Len(u) + Len(f) = old /\ 0 \in Range_(u)
  BY DEF Lists
<1>3. M.FreeHead = NOT_A_DS_ID /\ Range_(f) = {}
  <2>1. M.FreeHead = NOT_A_DS_ID
    BY <1>2 DEF Chain
  <2>2. QED
    BY <2>1, <1>2, ChainFirst
<1>4. Range_(u) = 0 .. old - 1
  BY <1>2, <1>3
<1> HIDE DEF old
<1>5. Distinct(g) /\ Len(g) = k /\ Range_(g) = new /\ \A i \in 1 .. k : g[i] = old + i - 1
  BY <1>1, ConsecutiveSeq DEF old
<1>6. /\ N.Head = M.Head /\ N.Tail = M.Tail
      /\ N.FreeHead = IF k = 0 THEN M.FreeHead ELSE old
      /\ \A i \in DVs : N.Link[i] = IF i \notin new THEN M.Link[i]
                                    ELSE IF i + 1 \in new THEN i + 1 ELSE M.FreeHead
      /\ \A i \in DVs : i \in new =>
           N.BackLink[i] = IF i - 1 \in new THEN i - 1 ELSE NOT_A_DS_ID
      /\ \A i \in DVs : i \notin new /\ i # M.FreeHead => N.BackLink[i] = M.BackLink[i]
      /\ N.Count = [M.Count EXCEPT ![0] = old + k]
      /\ N \in Memories
  <2>1. old \in Nat /\ old + k <= MaxDV + 1 /\ M \in Memories
    BY <1>1, <1>2 DEF old
  <2>2. QED
    <3>1. IsGrown(N, M, old, k)
      BY <2>1, GrownFields
    <3> HIDE DEF N
    <3>2. QED
      BY <3>1 DEF IsGrown
<1> HIDE DEF N, g
<1>7. N.Count[0] = old + k
  BY <1>2, <1>6, NotADV DEF Memories
<1>8. Range_(u) \cap new = {} /\ Range_(u) \cup new = 0 .. (old + k) - 1
  BY <1>1, <1>4
<1>9. new \subseteq DVs
  BY <1>1, NotADV DEF DVs, old
<1>10. Chain(N.Link, N.BackLink, N.Head, u)
  <2>1. ASSUME NEW x \in Range_(u) PROVE N.Link[x] = M.Link[x] /\ N.BackLink[x] = M.BackLink[x]
    <3>1. x \in DVs /\ x \notin new /\ x # M.FreeHead
      BY <1>1, <1>3, <1>8, NotADV
    <3>2. QED
      BY <3>1, <1>6
  <2>2. Chain(N.Link, N.BackLink, M.Head, u)
    BY <2>1, <1>2, ChainFrame
  <2>3. QED
    BY <2>2, <1>6
<1>11. Chain(N.Link, N.BackLink, N.FreeHead, g)
  <2>1. N.FreeHead = IF Len(g) = 0 THEN NOT_A_DS_ID ELSE g[1]
    BY <1>1, <1>3, <1>5, <1>6
  <2>2. ASSUME NEW i \in 1 .. k
        PROVE  /\ N.Link[g[i]] = IF i = k THEN NOT_A_DS_ID ELSE g[i + 1]
               /\ N.BackLink[g[i]] = IF i = 1 THEN NOT_A_DS_ID ELSE g[i - 1]
    <3>1. g[i] = old + i - 1 /\ g[i] \in new /\ g[i] \in DVs
      BY <1>1, <1>5, <1>9
    <3>2. (g[i] + 1 \in new <=> i # k) /\ (g[i] - 1 \in new <=> i # 1)
      BY <1>1, <3>1
    <3>3. i # k => g[i + 1] = g[i] + 1
      BY <1>1, <1>5
    <3>4. i # 1 => g[i - 1] = g[i] - 1
      BY <1>1, <1>5
    <3>5. N.Link[g[i]] = IF g[i] + 1 \in new THEN g[i] + 1 ELSE NOT_A_DS_ID
      BY <3>1, <1>3, <1>6
    <3>6. N.BackLink[g[i]] = IF g[i] - 1 \in new THEN g[i] - 1 ELSE NOT_A_DS_ID
      BY <3>1, <1>6
    <3> HIDE DEF new
    <3>7. QED
      BY <3>2, <3>3, <3>4, <3>5, <3>6
  <2>3. QED
    BY <2>1, <2>2, <1>5 DEF Chain
<1>12. Lists(N, u, g)
  <2>1. Len(u) = old /\ Len(u) + Len(g) = old + k
    BY <1>1, <1>2, <1>5
  <2>2. Range_(u) \cap Range_(g) = {} /\ Range_(u) \cup Range_(g) = 0 .. N.Count[0] - 1
    <3>1. Range_(g) = new /\ N.Count[0] = old + k
      BY <1>5, <1>7
    <3>2. Range_(u) \cap new = {} /\ Range_(u) \cup new = 0 .. (old + k) - 1
      BY <1>8
    <3> HIDE DEF new
    <3>3. QED
      BY <3>1, <3>2
  <2>3. N.Tail = u[Len(u)] /\ Len(u) >= 1 /\ 0 \in Range_(u)
    BY <1>2, <1>6
  <2>4. QED
    BY <2>1, <2>2, <2>3, <1>6, <1>7, <1>10, <1>11 DEF Lists
<1>13. QED
  BY <1>12 DEF N, g, old

-----------------------------------------------------------------------------
(***************************************************************************)
(* Memories that are as they should be.                                    *)
(***************************************************************************)

\* What the arrays are held to take up: their sizes if s, else nothing.
Extents(M, s) == [d \in DVs |-> IF s THEN Size(M, d) ELSE 0]

\* The lists are u and f, and the arrays lie in the order of u, within the
\* dataspace and, if s, the pool.  Without s nothing is said of their sizes,
\* which is all that is left when an array has grown over another.
Good(M, u, f, s) ==
  /\ Lists(M, u, f)
  /\ M.ElemSize[0] = DVSize
  /\ Placed(M.Offset, Extents(M, s), M.DataspaceSize, u)
  /\ s => M.DataspaceSize <= POOL_MAX_SIZE

\* Extents are the sizes of the arrays, or nothing once memory has been overgrown.
LEMMA ExtentsNat ==
  ASSUME NEW M \in Memories, NEW s \in BOOLEAN
  PROVE  /\ Extents(M, s) \in [DVs -> Nat]
         /\ \A d \in DVs : /\ Size(M, d) \in Nat
                           /\ Extents(M, s)[d] = IF s THEN Size(M, d) ELSE 0
                           /\ Extents(M, s)[d] <= Size(M, d)
<1>1. \A d \in DVs : M.ElemSize[d] \in Nat /\ M.Count[d] \in Nat
  BY DEF Memories
<1>2. \A d \in DVs : Size(M, d) \in Nat
  BY <1>1, Product DEF Size
<1>3. QED
  BY <1>2 DEF Extents

\* What a good memory is made of.
LEMMA GoodFacts ==
  ASSUME NEW M, NEW u, NEW f, NEW s \in BOOLEAN, Good(M, u, f, s)
  PROVE  /\ Lists(M, u, f) /\ M \in Memories /\ Distinct(u) /\ Range_(u) \subseteq DVs /\ 0 \in Range_(u)
         /\ M.DataspaceSize \in Nat /\ M.Offset \in [DVs -> Nat]
         /\ M.ElemSize \in [DVs -> Nat] /\ M.Count \in [DVs -> Nat]
         /\ Extents(M, s) \in [DVs -> Nat]
BY ListsFacts, ExtentsNat DEF Good, Lists, Memories

\* A memory that is good with the arrays' sizes is good without them.
LEMMA GoodWeaker ==
  ASSUME NEW M, NEW u, NEW f, NEW s \in BOOLEAN, Good(M, u, f, s)
  PROVE  Good(M, u, f, FALSE)
<1> DEFINE X == Extents(M, FALSE)
           Y == Extents(M, s)
<1>1. M \in Memories /\ Distinct(u)
  BY GoodFacts
<1>2. X \in [DVs -> Nat] /\ Y \in [DVs -> Nat] /\ \A d \in DVs : X[d] = 0
  BY <1>1, ExtentsNat
<1>3. Placed(M.Offset, Y, M.DataspaceSize, u)
  BY DEF Good
<1> HIDE DEF X, Y
<1>4. \A d \in DVs : X[d] <= Y[d]
  BY <1>2
<1>5. Placed(M.Offset, X, M.DataspaceSize, u)
  BY <1>1, <1>2, <1>3, <1>4, PlacedSmaller
<1>6. QED
  BY <1>5 DEF Good, X

\* The offsets and sizes agree but for x.
Elsewhere(O, E, O0, E0, x) ==
  /\ O0 \in [DVs -> Nat] /\ E0 \in [DVs -> Nat]
  /\ \A d \in DVs \ {x} : O0[d] = O[d] /\ E0[d] = E[d]

\* An array that loses its place leaves the others where they are.
LEMMA PlacedTaken ==
  ASSUME NEW O, NEW E, NEW D, NEW u, Placed(O, E, D, u), Distinct(u), NEW k \in 1 .. Len(u)
  PROVE  \E O0, E0 : Elsewhere(O, E, O0, E0, u[k]) /\ Placed(O0, E0, D, Without(u, k))
<1> DEFINE O0 == [O EXCEPT ![u[k]] = NOT_AN_OFFSET]
           E0 == [E EXCEPT ![u[k]] = 0]
<1>1. u[k] \in DVs
  BY Ranges DEF Distinct
<1>2. O \in [DVs -> Nat] /\ E \in [DVs -> Nat] /\ D \in Nat
  BY DEF Placed
<1>3. O0 \in [DVs -> Nat] /\ E0 \in [DVs -> Nat] /\ O0[u[k]] = NOT_AN_OFFSET
  BY <1>1, <1>2, Constants
<1>4. \A d \in DVs \ {u[k]} : O0[d] = O[d] /\ E0[d] = E[d]
  BY <1>2
<1> HIDE DEF O0, E0
<1>5. Placed(O0, E0, D, Without(u, k))
  BY <1>3, <1>4, PlacedWithout
<1>6. Elsewhere(O, E, O0, E0, u[k])
  BY <1>3, <1>4 DEF Elsewhere
<1>7. QED
  BY <1>5, <1>6

\* An array moves to the end of the dataspace, and to the end of the list.
LEMMA PlacedMoved ==
  ASSUME NEW O, NEW E, NEW D, NEW u, Placed(O, E, D, u), Distinct(u), NEW k \in DOMAIN u,
         NEW O1 \in [DVs -> Nat], NEW E1 \in [DVs -> Nat], NEW D1 \in Nat, D <= D1,
         \A d \in DVs \ {u[k]} : O1[d] = O[d] /\ E1[d] = E[d],
         D <= O1[u[k]], Align(O1[u[k]]) = O1[u[k]], O1[u[k]] + E1[u[k]] <= D1
  PROVE  Placed(O1, E1, D1, Append(Without(u, k), u[k]))
<1>1. k \in 1 .. Len(u) /\ u[k] \in DVs
  BY Ranges DEF Distinct
<1>2. PICK O0, E0 : Elsewhere(O, E, O0, E0, u[k]) /\ Placed(O0, E0, D, Without(u, k))
  BY <1>1, PlacedTaken
<1>3. Distinct(Without(u, k)) /\ u[k] \notin Range_(Without(u, k))
  BY <1>1, WithoutSeq
<1>4. \A d \in DVs \ {u[k]} : O1[d] = O0[d] /\ E1[d] = E0[d]
  BY <1>2 DEF Elsewhere
<1>5. u[k] \in DVs
  BY <1>1
<1>6. O0 \in [DVs -> Nat] /\ E0 \in [DVs -> Nat]
  BY <1>2 DEF Elsewhere
<1>7. QED
  BY <1>2, <1>3, <1>4, <1>5, <1>6, PlacedAppend

\* The extent of a DV depends on its own count and element size only.
LEMMA ExtentsFrame ==
  ASSUME NEW M \in Memories, NEW N \in Memories, NEW s \in BOOLEAN,
         NEW d \in DVs, N.ElemSize[d] = M.ElemSize[d], N.Count[d] = M.Count[d]
  PROVE  Extents(N, s)[d] = Extents(M, s)[d]
BY DEF Extents, Size

\* The dataspace's end is aligned before anything is put behind it.
LEMMA AlignedGood ==
  ASSUME NEW M, NEW u, NEW f, NEW s \in BOOLEAN, Good(M, u, f, s)
  PROVE  LET A == [M EXCEPT !.DataspaceSize = Align(M.DataspaceSize)]
         IN  /\ Good(A, u, f, s)
             /\ A.Head = M.Head /\ A.Tail = M.Tail /\ A.FreeHead = M.FreeHead
             /\ A.Link = M.Link /\ A.BackLink = M.BackLink /\ A.Offset = M.Offset
             /\ A.ElemSize = M.ElemSize /\ A.Count = M.Count
             /\ A.DataspaceSize = Align(M.DataspaceSize)
<1> DEFINE D == Align(M.DataspaceSize)
           A == [M EXCEPT !.DataspaceSize = D]
<1>1. M \in Memories /\ Lists(M, u, f) /\ M.DataspaceSize \in Nat
  BY GoodFacts
<1>2. D \in Nat /\ M.DataspaceSize <= D
  BY <1>1, Aligning
<1>3. s => D <= POOL_MAX_SIZE
  <2>1. ASSUME s PROVE Align(M.DataspaceSize) <= Align(POOL_MAX_SIZE)
    BY <2>1, <1>1, Constants, Aligning DEF Good
  <2>2. QED
    BY <2>1, Constants
<1> HIDE DEF D
<1>4. /\ A \in Memories
      /\ A.Head = M.Head /\ A.Tail = M.Tail /\ A.FreeHead = M.FreeHead
      /\ A.Link = M.Link /\ A.BackLink = M.BackLink /\ A.Offset = M.Offset
      /\ A.ElemSize = M.ElemSize /\ A.Count = M.Count /\ A.DataspaceSize = D
  BY <1>1, <1>2 DEF Memories
<1> HIDE DEF A
<1>5. Lists(A, u, f)
  BY <1>1, <1>4, ListsFrame
<1>6. Extents(A, s) = Extents(M, s)
  BY <1>4 DEF Extents, Size
<1>7. Placed(A.Offset, Extents(A, s), D, u)
  <2>1. Placed(M.Offset, Extents(M, s), M.DataspaceSize, u)
    BY DEF Good
  <2>2. Placed(M.Offset, Extents(M, s), D, u)
    BY <1>2, <2>1, PlacedLarger
  <2>3. QED
    BY <2>2, <1>4, <1>6
<1>8. Good(A, u, f, s)
  BY <1>3, <1>4, <1>5, <1>7 DEF Good
<1>9. QED
  BY <1>4, <1>8 DEF A, D

\* Growing the array of DVs, when none is free.
LEMMA GrowGood ==
  ASSUME NEW M, NEW u, NEW f, NEW s \in BOOLEAN, Good(M, u, f, s),
         M.FreeHead = NOT_A_DS_ID, NEW k \in Nat
  PROVE  LET R == GrowDopeVectorArray(M, k)
         IN  /\ R.status \in {"NO_ERR", "ERR_MEM"}
             /\ R.status = "ERR_MEM" => Good(R.mem, u, f, s)
             /\ R.status = "NO_ERR" =>
                  \E v, g : Good(R.mem, v, g, s) /\ Range_(v) = Range_(u) /\ Len(g) = k
             /\ \A d \in DVs \ {0} : R.mem.Count[d] = M.Count[d]
<1> DEFINE A == [M EXCEPT !.DataspaceSize = Align(M.DataspaceSize)]
           old == M.Count[0]
           new == old + k
           D0 == Align(M.DataspaceSize)
           D1 == D0 + DVSize * new
           R == GrowDopeVectorArray(M, k)
<1>1. /\ Good(A, u, f, s) /\ A.FreeHead = M.FreeHead /\ A.Offset = M.Offset
      /\ A.ElemSize = M.ElemSize /\ A.Count = M.Count /\ A.DataspaceSize = D0
  BY AlignedGood
<1>2. /\ Lists(M, u, f) /\ M \in Memories /\ Distinct(u) /\ M.DataspaceSize \in Nat
      /\ 0 \in Range_(u) /\ 0 \in DVs
  BY GoodFacts, NotADV
<1>3. old \in Nat /\ D0 \in Nat /\ Align(D0) = D0 /\ DVSize \in Nat \ {0}
  BY <1>2, ListsFacts, Aligning, Constants
<1>4. new \in Nat /\ DVSize * new \in Nat /\ D1 \in Nat /\ D0 <= D1
  <2>1. new \in Nat
    BY <1>3
  <2>2. DVSize * new \in Nat
    BY <2>1, <1>3, Product
  <2>3. QED
    BY <2>1, <2>2, <1>3
<1>5. M.DataspaceSize >= DSStaticSize /\ D0 >= DSStaticSize
  BY <1>2, Aligning, Constants DEF Good, Placed
<1> HIDE DEF A, D0
<1>6. R = IF D0 + DVSize * new < POOL_MAX_SIZE
          THEN [mem |-> MoveToTail(GrownDopeVectors(A, old, new), 0), status |-> "NO_ERR"]
          ELSE [mem |-> A, status |-> "ERR_MEM"]
  BY DEF GrowDopeVectorArray, Fits, A, D0
<1> HIDE DEF R
<1>7. CASE ~(D0 + DVSize * new < POOL_MAX_SIZE)
  <2>1. R.mem = A /\ R.status = "ERR_MEM"
    BY <1>6, <1>7
  <2>2. QED
    BY <2>1, <1>1 DEF R
<1>8. CASE D0 + DVSize * new < POOL_MAX_SIZE
  <2> DEFINE N1 == GrownDopeVectors(A, old, new)
             N == MoveToTail(N1, 0)
             g == Consecutive(old, k)
  <2>1. R.mem = N /\ R.status = "NO_ERR"
    BY <1>6, <1>8
  <2>2. new <= MaxDV + 1
    <3>1. DVSize * new < (MaxDV + 1) * DVSize
      <4>1. (MaxDV + 1) * DVSize \in Nat
        BY NotADV, <1>3
      <4>2. /\ POOL_MAX_SIZE <= (MaxDV + 1) * DVSize + DSStaticSize
            /\ DSStaticSize \in Nat /\ POOL_MAX_SIZE \in Nat
        BY Constants
      <4> DEFINE x == DVSize * new
                 y == (MaxDV + 1) * DVSize
      <4> HIDE DEF x, y
      <4>3. x < y
        BY <4>1, <4>2, <1>3, <1>4, <1>5, <1>8 DEF x, y
      <4>4. QED
        BY <4>3 DEF x, y
    <3>2. MaxDV + 1 \in Nat /\ new * DVSize < (MaxDV + 1) * DVSize
      BY <3>1, <1>3, <1>4, NotADV
    <3> HIDE DEF new
    <3>3. new < MaxDV + 1
      BY <3>2, <1>3, <1>4, Product
    <3>4. QED
      BY <3>2, <3>3, <1>4
  <2>3. A \in Memories /\ Lists(A, u, f) /\ A.Count[0] = old /\ A.DataspaceSize = D0
    BY <1>1, GoodFacts
  <2>4. Len(f) = 0
    BY <1>1, <2>3, ChainFirst DEF Lists
  <2>5. Lists(N1, u, g)
    BY <2>2, <2>3, <2>4, GrownLists
  <2>6. /\ N1.Offset = [A.Offset EXCEPT ![0] = D0] /\ N1.ElemSize = A.ElemSize
        /\ N1.Count = [A.Count EXCEPT ![0] = new] /\ N1.DataspaceSize = D1
    <3>1. IsGrown(N1, A, old, k)
      BY <1>3, <2>2, <2>3, GrownFields
    <3> HIDE DEF N1
    <3>2. QED
      BY <3>1, <2>3 DEF IsGrown
  <2>7. PICK j \in 1 .. Len(u) : u[j] = 0
    BY <1>2, ListsFacts
  <2> HIDE DEF N1
  <2>8. /\ Lists(N, Append(Without(u, j), 0), g)
        /\ N.Offset = N1.Offset /\ N.ElemSize = N1.ElemSize /\ N.Count = N1.Count
        /\ N.DataspaceSize = N1.DataspaceSize
    BY <2>5, <2>7, MoveLists
  <2> HIDE DEF N, g, new, D1, old
  <2>9. \A d \in DVs \ {0} : N.Count[d] = M.Count[d] /\ N.ElemSize[d] = M.ElemSize[d]
    BY <1>1, <1>2, <2>6, <2>8 DEF Memories
  <2>10. N \in Memories /\ N.Count[0] = new /\ N.ElemSize[0] = DVSize
    <3>1. M.Count \in [DVs -> Nat] /\ M.ElemSize[0] = DVSize /\ 0 \in DVs
      BY <1>2, NotADV DEF Memories, Good
    <3>2. N.ElemSize = M.ElemSize /\ N.Count = [M.Count EXCEPT ![0] = new]
      BY <1>1, <2>6, <2>8
    <3>3. N \in Memories
      BY <2>8 DEF Lists
    <3>4. QED
      BY <3>1, <3>2, <3>3
  <2>11. Placed(N.Offset, Extents(N, s), N.DataspaceSize, Append(Without(u, j), 0))
    <3>1. N.Offset \in [DVs -> Nat] /\ Extents(N, s) \in [DVs -> Nat]
      BY <2>10, ExtentsNat DEF Memories
    <3>2. Extents(N, s)[0] = IF s THEN DVSize * new ELSE 0
      BY <2>10, <1>2 DEF Extents, Size
    <3>3. \A d \in DVs \ {0} : Extents(N, s)[d] = Extents(A, s)[d]
      BY <1>1, <2>3, <2>9, <2>10, ExtentsFrame
    <3>4. N.Offset[0] = D0 /\ \A d \in DVs \ {0} : N.Offset[d] = A.Offset[d]
      BY <1>2, <2>3, <2>6, <2>8 DEF Memories
    <3>5. Placed(A.Offset, Extents(A, s), D0, u)
      BY <1>1, <2>3 DEF Good
    <3>6. N.DataspaceSize = D1 /\ D0 + Extents(N, s)[0] <= D1
      BY <2>6, <2>8, <3>2, <1>3, <1>4 DEF D1
    <3>7. j \in DOMAIN u
      BY <2>7, <1>2, Ranges DEF Distinct
    <3> DEFINE X == Extents(N, s)
               Y == Extents(A, s)
               P == N.Offset
               Q == A.Offset
    <3>8. /\ P \in [DVs -> Nat] /\ X \in [DVs -> Nat] /\ Placed(Q, Y, D0, u) /\ Distinct(u)
          /\ D1 \in Nat /\ D0 <= D1
      BY <3>1, <3>5, <1>2, <1>4
    <3>9. \A d \in DVs \ {u[j]} : P[d] = Q[d] /\ X[d] = Y[d]
      BY <3>3, <3>4, <2>7
    <3>10. D0 <= P[u[j]] /\ Align(P[u[j]]) = P[u[j]] /\ P[u[j]] + X[u[j]] <= D1
      BY <3>4, <3>6, <2>7, <1>3
    <3> HIDE DEF X, Y, P, Q
    <3>11. Placed(P, X, D1, Append(Without(u, j), u[j]))
      BY <3>7, <3>8, <3>9, <3>10, PlacedMoved
    <3>12. Placed(P, X, D1, Append(Without(u, j), 0))
      BY <3>11, <2>7
    <3>13. QED
      BY <3>6, <3>12 DEF P, X
  <2>12. s => N.DataspaceSize <= POOL_MAX_SIZE
    BY <1>8, <2>6, <2>8, Constants, <1>4 DEF D1
  <2>13. Good(N, Append(Without(u, j), 0), g, s)
    BY <2>8, <2>10, <2>11, <2>12 DEF Good
  <2>14. Range_(Append(Without(u, j), 0)) = Range_(u)
    <3>1. Distinct(Without(u, j)) /\ Range_(Without(u, j)) = Range_(u) \ {0}
      BY <1>2, <2>7, WithoutSeq
    <3>2. 0 \notin Range_(Without(u, j))
      BY <3>1
    <3>3. Range_(Append(Without(u, j), 0)) = Range_(Without(u, j)) \cup {0}
      BY <3>1, <3>2, <1>2, AppendSeq
    <3>4. QED
      BY <3>1, <3>3, <1>2
  <2>15. Len(g) = k
    BY <1>3, <2>2, ConsecutiveSeq DEF g, new
  <2>16. QED
    BY <2>1, <2>9, <2>13, <2>14, <2>15 DEF R
<1>9. QED
  BY <1>7, <1>8

\* The memory is good, and the DVs in U are those in use.
Sound(M, U, s) == \E u, f : Good(M, u, f, s) /\ Range_(u) = U

\* What soundness says of the DVs in use.
LEMMA SoundFacts ==
  ASSUME NEW M, NEW U, NEW s \in BOOLEAN, Sound(M, U, s)
  PROVE  /\ M \in Memories /\ U \subseteq DVs /\ 0 \in U /\ Sound(M, U, FALSE)
         /\ \A d \in U : d < M.Count[0]
         /\ M.Count[0] \in Nat /\ M.Count[0] <= MaxDV + 1
         /\ Range_(Used(M)) = U
<1>1. PICK u, f : Good(M, u, f, s) /\ Range_(u) = U
  BY DEF Sound
<1>2. /\ Lists(M, u, f) /\ M \in Memories /\ U \subseteq DVs /\ 0 \in U
  BY <1>1, GoodFacts
<1>3. Sound(M, U, FALSE)
  BY <1>1, GoodWeaker DEF Sound
<1>4. M.Count[0] \in Nat /\ M.Count[0] <= MaxDV + 1 /\ Used(M) = u
  BY <1>2, ListsFacts
<1>5. U \subseteq 0 .. M.Count[0] - 1
  BY <1>1, <1>2 DEF Lists
<1>6. \A d \in U : d < M.Count[0]
  BY <1>4, <1>5
<1>7. QED
  BY <1>1, <1>2, <1>3, <1>4, <1>6

\* Taking a free DV.
LEMMA TakeSound ==
  ASSUME NEW M, NEW u, NEW f, NEW s \in BOOLEAN, Good(M, u, f, s), M.FreeHead # NOT_A_DS_ID,
         NEW size \in Nat
  PROVE  LET d == M.FreeHead
             N == TakeDopeVector(M, d, size)
         IN  /\ d \in DVs \ {0} /\ d \notin Range_(u)
             /\ Sound(N, Range_(u) \cup {d}, s)
             /\ N.Offset[d] = NOT_AN_OFFSET /\ N.Count[d] = 0
             /\ \A e \in DVs \ {d} : N.Count[e] = M.Count[e]
<1> DEFINE N == TakeDopeVector(M, M.FreeHead, size)
           d == M.FreeHead
<1>1. /\ Lists(M, u, f) /\ M \in Memories /\ Distinct(u) /\ M.DataspaceSize \in Nat
  BY GoodFacts
<1>2. /\ d \in DVs \ {0} /\ d \notin Range_(u) /\ \E h : Lists(N, Append(u, d), h)
      /\ N.Offset = [M.Offset EXCEPT ![d] = NOT_AN_OFFSET]
      /\ N.ElemSize = [M.ElemSize EXCEPT ![d] = size]
      /\ N.Count = [M.Count EXCEPT ![d] = 0]
      /\ N.DataspaceSize = M.DataspaceSize
  BY <1>1, TakeLists
<1> HIDE DEF N, d
<1>3. PICK g : Lists(N, Append(u, d), g)
  BY <1>2
<1>4. N \in Memories
  BY <1>3 DEF Lists
<1>5. /\ N.Offset[d] = NOT_AN_OFFSET /\ N.Count[d] = 0
      /\ \A e \in DVs \ {d} : /\ N.Offset[e] = M.Offset[e] /\ N.Count[e] = M.Count[e]
                              /\ N.ElemSize[e] = M.ElemSize[e]
  BY <1>1, <1>2 DEF Memories
<1>6. N.ElemSize[0] = DVSize
  BY <1>2, <1>5, NotADV DEF Good
<1>7. Placed(N.Offset, Extents(N, s), N.DataspaceSize, Append(u, d))
  <2> DEFINE X == Extents(N, s)
             Y == Extents(M, s)
             P == N.Offset
             Q == M.Offset
             D == M.DataspaceSize
  <2>1. P \in [DVs -> Nat] /\ X \in [DVs -> Nat] /\ D \in Nat /\ D <= D
    BY <1>1, <1>4, ExtentsNat DEF Memories
  <2>2. \A e \in DVs \ {d} : P[e] = Q[e] /\ X[e] = Y[e]
    BY <1>1, <1>4, <1>5, ExtentsFrame
  <2>3. Placed(Q, Y, D, u)
    BY DEF Good
  <2>4. P[d] = NOT_AN_OFFSET
    BY <1>5
  <2> HIDE DEF X, Y, P, Q, D
  <2>5. Placed(P, X, D, Append(u, d))
    BY <2>1, <2>2, <2>3, <2>4, <1>1, <1>2, PlacedAppend
  <2>6. QED
    BY <2>5, <1>2 DEF X, P, D
<1>8. Good(N, Append(u, d), g, s)
  BY <1>2, <1>3, <1>6, <1>7 DEF Good
<1>9. Range_(Append(u, d)) = Range_(u) \cup {d}
  BY <1>1, <1>2, AppendSeq
<1>10. Sound(N, Range_(u) \cup {d}, s)
  BY <1>8, <1>9 DEF Sound
<1>11. QED
  BY <1>2, <1>5, <1>10 DEF N, d

\* cCmdAllocDopeVector.
LEMMA AllocSound ==
  ASSUME NEW M, NEW U, NEW s \in BOOLEAN, Sound(M, U, s), NEW size \in Nat
  PROVE  LET R == AllocDopeVector(M, size)
         IN  /\ \/ /\ R.status = "ERR_MEM" /\ R.dv = NOT_A_DS_ID
                   /\ Sound(R.mem, U, s)
                \/ /\ R.status = "NO_ERR" /\ R.dv \in DVs \ {0} /\ R.dv \notin U
                   /\ Sound(R.mem, U \cup {R.dv}, s)
                   /\ R.mem.Offset[R.dv] = NOT_AN_OFFSET /\ R.mem.Count[R.dv] = 0
             /\ \A d \in U \ {0} : R.mem.Count[d] = M.Count[d]
<1> DEFINE R == AllocDopeVector(M, size)
<1>1. PICK u, f : Good(M, u, f, s) /\ Range_(u) = U
  BY DEF Sound
<1>2. U \subseteq DVs
  BY <1>1, GoodFacts
<1>3. CASE M.FreeHead # NOT_A_DS_ID
  <2> DEFINE d == M.FreeHead
             N == TakeDopeVector(M, d, size)
  <2>1. R = [mem |-> N, status |-> "NO_ERR", dv |-> d]
    BY <1>3 DEF AllocDopeVector, TakenFrom
  <2>2. /\ d \in DVs \ {0} /\ d \notin U /\ Sound(N, U \cup {d}, s)
        /\ N.Offset[d] = NOT_AN_OFFSET /\ N.Count[d] = 0
        /\ \A e \in DVs \ {d} : N.Count[e] = M.Count[e]
    <3>1. /\ d \in DVs \ {0} /\ d \notin Range_(u) /\ Sound(N, Range_(u) \cup {d}, s)
          /\ N.Offset[d] = NOT_AN_OFFSET /\ N.Count[d] = 0
          /\ \A e \in DVs \ {d} : N.Count[e] = M.Count[e]
      BY <1>1, <1>3, TakeSound, ZenonT(40)
    <3> HIDE DEF R, N, d
    <3>2. QED
      BY <1>1, <3>1
  <2> HIDE DEF R, N, d
  <2>3. \A e \in U \ {0} : N.Count[e] = M.Count[e]
    BY <2>2, <1>2
  <2>4. R.mem = N /\ R.status = "NO_ERR" /\ R.dv = d
    BY <2>1
  <2>5. QED
    BY <2>1, <2>2, <2>3, <2>4 DEF R
<1>4. CASE M.FreeHead = NOT_A_DS_ID
  <2> DEFINE G == GrowDopeVectorArray(M, DV_ARRAY_GROWTH_COUNT)
             K == G.mem
             d == K.FreeHead
             N == TakeDopeVector(K, d, size)
  <2>1. R = IF G.status = "ERR_MEM" THEN [mem |-> K, status |-> "ERR_MEM", dv |-> NOT_A_DS_ID]
            ELSE [mem |-> N, status |-> "NO_ERR", dv |-> d]
    BY <1>4 DEF AllocDopeVector, TakenFrom
  <2>2. /\ G.status \in {"NO_ERR", "ERR_MEM"}
        /\ G.status = "ERR_MEM" => Good(K, u, f, s)
        /\ G.status = "NO_ERR" => \E v, g : Good(K, v, g, s) /\ Range_(v) = U /\ Len(g) = 1
        /\ \A e \in DVs \ {0} : K.Count[e] = M.Count[e]
    <3>1. /\ G.status \in {"NO_ERR", "ERR_MEM"}
          /\ G.status = "ERR_MEM" => Good(K, u, f, s)
          /\ G.status = "NO_ERR" =>
               \E v, g : Good(K, v, g, s) /\ Range_(v) = Range_(u) /\ Len(g) = DV_ARRAY_GROWTH_COUNT
          /\ \A e \in DVs \ {0} : K.Count[e] = M.Count[e]
      <4>1. DV_ARRAY_GROWTH_COUNT \in Nat
        BY DEF DV_ARRAY_GROWTH_COUNT
      <4>2. QED
        BY <1>1, <1>4, <4>1, GrowGood
    <3> HIDE DEF G
    <3>2. QED
      BY <1>1, <3>1 DEF DV_ARRAY_GROWTH_COUNT
  <2> HIDE DEF R, G, K
  <2>3. CASE G.status = "ERR_MEM"
    <3>1. R.mem = K /\ R.status = "ERR_MEM" /\ R.dv = NOT_A_DS_ID
      BY <2>1, <2>3
    <3>2. Sound(R.mem, U, s)
      BY <1>1, <2>2, <2>3, <3>1 DEF Sound
    <3>3. \A e \in U \ {0} : R.mem.Count[e] = M.Count[e]
      BY <1>2, <2>2, <3>1
    <3>4. QED
      BY <2>1, <2>3, <3>1, <3>2, <3>3 DEF R
  <2>4. CASE G.status = "NO_ERR"
    <3>1. PICK v, g : Good(K, v, g, s) /\ Range_(v) = U /\ Len(g) = 1
      BY <2>2, <2>4
    <3>2. K.FreeHead # NOT_A_DS_ID
      <4>1. Chain(K.Link, K.BackLink, K.FreeHead, g)
        BY <3>1, GoodFacts DEF Lists
      <4>2. QED
        BY <3>1, <4>1, ChainFirst
    <3>3. /\ d \in DVs \ {0} /\ d \notin U /\ Sound(N, U \cup {d}, s)
          /\ N.Offset[d] = NOT_AN_OFFSET /\ N.Count[d] = 0
          /\ \A e \in DVs \ {d} : N.Count[e] = K.Count[e]
      <4>1. /\ d \in DVs \ {0} /\ d \notin Range_(v) /\ Sound(N, Range_(v) \cup {d}, s)
            /\ N.Offset[d] = NOT_AN_OFFSET /\ N.Count[d] = 0
            /\ \A e \in DVs \ {d} : N.Count[e] = K.Count[e]
        BY <3>1, <3>2, TakeSound, ZenonT(40)
      <4> HIDE DEF N, d
      <4>2. QED
        BY <3>1, <4>1
    <3> HIDE DEF N, d
    <3>4. \A e \in U \ {0} : N.Count[e] = M.Count[e]
      BY <3>3, <2>2, <1>2
    <3>5. R.mem = N /\ R.status = "NO_ERR" /\ R.dv = d
      BY <2>1, <2>4
    <3>6. QED
      BY <2>1, <2>4, <3>3, <3>4, <3>5 DEF R
  <2>5. QED
    BY <2>2, <2>3, <2>4
<1>5. QED
  BY <1>3, <1>4

\* cCmdFreeDopeVector.
LEMMA FreeSound ==
  ASSUME NEW M, NEW U, NEW s \in BOOLEAN, Sound(M, U, s), NEW d \in U \ {0}
  PROVE  /\ Sound(FreeDopeVector(M, d), U \ {d}, s)
         /\ \A e \in U \ {d} : FreeDopeVector(M, d).Count[e] = M.Count[e]
<1> DEFINE N == FreeDopeVector(M, d)
<1>1. PICK u, f : Good(M, u, f, s) /\ Range_(u) = U
  BY DEF Sound
<1>2. /\ Lists(M, u, f) /\ M \in Memories /\ Distinct(u) /\ U \subseteq DVs /\ d \in DVs
  BY <1>1, GoodFacts
<1>3. PICK k \in 1 .. Len(u) : u[k] = d
  BY <1>1, <1>2, ListsFacts
<1>4. /\ Lists(N, Without(u, k), Before(d, f))
      /\ N.Offset = [M.Offset EXCEPT ![d] = NOT_AN_OFFSET]
      /\ N.ElemSize = [M.ElemSize EXCEPT ![d] = 0]
      /\ N.Count = [M.Count EXCEPT ![d] = 0]
      /\ N.DataspaceSize = M.DataspaceSize
  <2>1. u[k] # 0
    BY <1>3
  <2>2. Lists(FreeDopeVector(M, u[k]), Without(u, k), Before(u[k], f))
    BY <1>2, <2>1, FreeLists
  <2>3. Lists(N, Without(u, k), Before(d, f))
    BY <1>3, <2>2
  <2>4. /\ N.Offset = [M.Offset EXCEPT ![d] = NOT_AN_OFFSET]
        /\ N.ElemSize = [M.ElemSize EXCEPT ![d] = 0]
        /\ N.Count = [M.Count EXCEPT ![d] = 0]
        /\ N.DataspaceSize = M.DataspaceSize
    <3>1. N = [Head |-> N.Head, Tail |-> N.Tail, FreeHead |-> N.FreeHead,
               Link |-> N.Link, BackLink |-> N.BackLink,
               Offset |-> [M.Offset EXCEPT ![d] = NOT_AN_OFFSET],
               ElemSize |-> [M.ElemSize EXCEPT ![d] = 0],
               Count |-> [M.Count EXCEPT ![d] = 0],
               DataspaceSize |-> M.DataspaceSize]
      BY <1>2, FreeFields
    <3> HIDE DEF N
    <3>2. QED
      BY <3>1
  <2>5. QED
    BY <2>3, <2>4
<1> HIDE DEF N
<1>5. N \in Memories
  BY <1>4 DEF Lists
<1>6. /\ N.Offset[d] = NOT_AN_OFFSET
      /\ \A e \in DVs \ {d} : /\ N.Offset[e] = M.Offset[e] /\ N.Count[e] = M.Count[e]
                              /\ N.ElemSize[e] = M.ElemSize[e]
  BY <1>2, <1>4 DEF Memories
<1>7. N.ElemSize[0] = DVSize
  BY <1>1, <1>6, NotADV DEF Good
<1>8. Placed(N.Offset, Extents(N, s), N.DataspaceSize, Without(u, k))
  <2> DEFINE X == Extents(N, s)
             Y == Extents(M, s)
             P == N.Offset
             Q == M.Offset
  <2>1. P \in [DVs -> Nat] /\ X \in [DVs -> Nat]
    BY <1>5, ExtentsNat DEF Memories
  <2>2. \A e \in DVs \ {u[k]} : P[e] = Q[e] /\ X[e] = Y[e]
    BY <1>2, <1>3, <1>5, <1>6, ExtentsFrame
  <2>3. Placed(Q, Y, M.DataspaceSize, u)
    BY <1>1 DEF Good
  <2>4. P[u[k]] = NOT_AN_OFFSET
    BY <1>3, <1>6
  <2> HIDE DEF X, Y, P, Q
  <2>5. Placed(P, X, M.DataspaceSize, Without(u, k))
    BY <2>1, <2>2, <2>3, <2>4, <1>2, <1>3, PlacedWithout, SMTT(30)
  <2>6. QED
    BY <2>5, <1>4 DEF X, P
<1>9. Good(N, Without(u, k), Before(d, f), s)
  BY <1>1, <1>4, <1>7, <1>8 DEF Good
<1>10. Range_(Without(u, k)) = U \ {d}
  BY <1>1, <1>2, <1>3, WithoutSeq
<1>11. QED
  BY <1>2, <1>6, <1>9, <1>10 DEF N, Sound

-----------------------------------------------------------------------------
(***************************************************************************)
(* Resizing an array.                                                      *)
(***************************************************************************)

\* Overgrows, of any memory.
Overgrown(M, d, n) ==
  /\ n > M.Count[d]
  /\ M.Offset[d] # NOT_AN_OFFSET
  /\ M.Link[d] # NOT_A_DS_ID /\ M.Offset[M.Link[d]] = NOT_AN_OFFSET
  /\ n * M.ElemSize[d] > InplaceRoom(M, d)

\* Whatever d grows to, it cannot grow over an array.
Calm(M, d) ==
  \/ M.Offset[d] = NOT_AN_OFFSET
  \/ M.Link[d] = NOT_A_DS_ID
  \/ M.Offset[M.Link[d]] # NOT_AN_OFFSET

\* An array and what is placed behind it.
LEMMA PlacedFacts ==
  ASSUME NEW O, NEW E, NEW D, NEW u, Placed(O, E, D, u), Distinct(u),
         NEW k \in 1 .. Len(u), O[u[k]] # NOT_AN_OFFSET
  PROVE  /\ O[u[k]] \in Nat /\ E[u[k]] \in Nat /\ D \in Nat
         /\ O[u[k]] <= D /\ O[u[k]] + E[u[k]] <= D
         /\ \A j \in 1 .. Len(u) :
              k < j /\ O[u[j]] # NOT_AN_OFFSET => O[u[j]] \in Nat /\ O[u[k]] + E[u[k]] <= O[u[j]]
<1>1. u[k] \in DVs /\ \A j \in 1 .. Len(u) : u[j] \in DVs
  BY Ranges DEF Distinct
<1>2. O[u[k]] \in Nat /\ E[u[k]] \in Nat /\ D \in Nat /\ O[u[k]] + E[u[k]] <= D
  BY <1>1 DEF Placed
<1>3. O[u[k]] <= D
  BY <1>2
<1>4. QED
  BY <1>1, <1>2, <1>3 DEF Placed

\* What InplaceRoom promises.
LEMMA RoomFits ==
  ASSUME NEW M, NEW u, NEW f, Good(M, u, f, TRUE), NEW k \in 1 .. Len(u),
         M.Offset[u[k]] # NOT_AN_OFFSET, NEW x \in Nat
  PROVE  /\ InplaceRoom(M, u[k]) \in Int
         /\ InplaceRoom(M, u[k]) <= M.DataspaceSize - M.Offset[u[k]]
         /\ x <= InplaceRoom(M, u[k]) =>
              /\ M.Offset[u[k]] + x <= M.DataspaceSize
              /\ \A j \in 1 .. Len(u) :
                   k < j /\ M.Offset[u[j]] # NOT_AN_OFFSET => M.Offset[u[k]] + x <= M.Offset[u[j]]
<1> DEFINE O == M.Offset
           D == M.DataspaceSize
           r == InplaceRoom(M, u[k])
           above == {O[u[i]] : i \in {i \in DOMAIN u : \E j \in 1 .. i - 1 : u[j] = u[k]}}
                    \ {NOT_AN_OFFSET}
<1>1. /\ Distinct(u) /\ Lists(M, u, f) /\ Placed(O, Extents(M, TRUE), D, u)
  BY GoodFacts DEF Good
<1>2. Used(M) = u /\ DOMAIN u = 1 .. Len(u) /\ Len(u) \in Nat
  BY <1>1, ListsFacts, Ranges DEF Distinct
<1>3. \A i \in 1 .. Len(u) : (\E j \in 1 .. i - 1 : u[j] = u[k]) <=> k < i
  <2>1. ASSUME NEW i \in 1 .. Len(u), NEW j \in 1 .. i - 1, u[j] = u[k] PROVE k < i
    <3>1. j \in 1 .. Len(u) /\ j < i
      BY <1>2
    <3>2. j = k
      BY <2>1, <3>1, <1>1 DEF Distinct
    <3>3. QED
      BY <3>1, <3>2
  <2>2. ASSUME NEW i \in 1 .. Len(u), k < i PROVE k \in 1 .. i - 1
    BY <2>2, <1>2
  <2>3. QED
    BY <2>1, <2>2
<1>4. r = (IF above = {} THEN D ELSE Min(above)) - O[u[k]]
  BY <1>2 DEF InplaceRoom
<1>5. \A y : y \in above <=> \E i \in 1 .. Len(u) : k < i /\ y = O[u[i]] /\ y # NOT_AN_OFFSET
  BY <1>2, <1>3
<1>6. /\ O[u[k]] \in Nat /\ D \in Nat /\ O[u[k]] <= D
      /\ \A j \in 1 .. Len(u) : k < j /\ O[u[j]] # NOT_AN_OFFSET => O[u[j]] \in Nat /\ O[u[j]] <= D
  BY <1>1, PlacedFacts
<1> HIDE DEF above, r, O, D
<1>7. CASE above = {}
  <2>1. r = D - O[u[k]]
    BY <1>4, <1>7
  <2>2. r \in Int /\ r <= D - O[u[k]] /\ (x <= r => O[u[k]] + x <= D)
    BY <2>1, <1>6
  <2>3. \A j \in 1 .. Len(u) : ~(k < j /\ O[u[j]] # NOT_AN_OFFSET)
    BY <1>5, <1>7
  <2>4. QED
    BY <2>2, <2>3 DEF O, D, r
<1>8. CASE above # {}
  <2>1. above \in SUBSET Nat /\ \A y \in above : y <= D
    BY <1>5, <1>6
  <2>2. \E y \in above : \A z \in above : y <= z
    BY <2>1, <1>8, LeastNat
  <2>3. Min(above) \in above /\ \A z \in above : Min(above) <= z
    BY <2>2 DEF Min
  <2> DEFINE m == Min(above)
  <2>4. m \in Nat /\ m <= D
    BY <2>1, <2>3
  <2>5. \A j \in 1 .. Len(u) : k < j /\ O[u[j]] # NOT_AN_OFFSET => m <= O[u[j]]
    BY <1>5, <2>3
  <2>6. r = m - O[u[k]]
    BY <1>4, <1>8
  <2> HIDE DEF m
  <2>7. r \in Int /\ r <= D - O[u[k]] /\ (x <= r => O[u[k]] + x <= m)
    BY <2>4, <2>6, <1>6
  <2>8. x <= r => O[u[k]] + x <= D
    BY <2>4, <2>7, <1>6
  <2>9. ASSUME x <= r, NEW j \in 1 .. Len(u), k < j, O[u[j]] # NOT_AN_OFFSET
        PROVE  O[u[k]] + x <= O[u[j]]
    BY <2>4, <2>5, <2>7, <2>9, <1>6
  <2>10. QED
    BY <2>7, <2>8, <2>9 DEF O, D, r
<1>9. QED
  BY <1>7, <1>8

\* Growing in place does not reach another array, nor leave the dataspace,
\* unless it overgrows.
LEMMA InplaceFits ==
  ASSUME NEW M, NEW u, NEW f, Good(M, u, f, TRUE), NEW k \in 1 .. Len(u), NEW n \in Nat,
         n > M.Count[u[k]], M.Offset[u[k]] # NOT_AN_OFFSET,
         n * M.ElemSize[u[k]] <= InplaceSize(M, u[k]), ~Overgrown(M, u[k], n)
  PROVE  /\ M.Offset[u[k]] + n * M.ElemSize[u[k]] <= M.DataspaceSize
         /\ \A j \in 1 .. Len(u) :
              k < j /\ M.Offset[u[j]] # NOT_AN_OFFSET
              => M.Offset[u[k]] + n * M.ElemSize[u[k]] <= M.Offset[u[j]]
<1> DEFINE O == M.Offset
           D == M.DataspaceSize
           x == n * M.ElemSize[u[k]]
<1>1. /\ Distinct(u) /\ Lists(M, u, f) /\ Placed(O, Extents(M, TRUE), D, u) /\ M \in Memories
  BY GoodFacts DEF Good
<1>2. Len(u) \in Nat /\ \A i \in 1 .. Len(u) : u[i] \in DVs
  BY <1>1, Ranges DEF Distinct
<1>3. x \in Nat
  BY <1>1, <1>2, Product DEF Memories
<1>4. O[u[k]] \in Nat /\ D \in Nat
  BY <1>1, PlacedFacts
<1>5. M.Link[u[k]] = IF k = Len(u) THEN NOT_A_DS_ID ELSE u[k + 1]
  BY <1>1 DEF Lists, Chain
<1> HIDE DEF x, O, D
<1>6. CASE k = Len(u)
  <2>1. InplaceSize(M, u[k]) = D - O[u[k]]
    BY <1>5, <1>6 DEF InplaceSize, O, D
  <2>2. O[u[k]] + x <= D
    BY <2>1, <1>3, <1>4 DEF x
  <2>3. QED
    BY <2>2, <1>2, <1>6 DEF O, D, x
<1>7. CASE k # Len(u) /\ O[u[k + 1]] # NOT_AN_OFFSET
  <2>1. k + 1 \in 1 .. Len(u) /\ u[k + 1] \in DVs
    BY <1>2, <1>7
  <2>2. M.Link[u[k]] = u[k + 1] /\ u[k + 1] # NOT_A_DS_ID
    BY <1>5, <1>7, <2>1, NotADV
  <2>3. InplaceSize(M, u[k]) = O[u[k + 1]] - O[u[k]]
    BY <2>2 DEF InplaceSize, O
  <2> DEFINE y == O[u[k + 1]]
             e == Extents(M, TRUE)[u[k + 1]]
  <2>4. /\ y \in Nat /\ e \in Nat /\ y <= D
        /\ \A j \in 1 .. Len(u) : k + 1 < j /\ O[u[j]] # NOT_AN_OFFSET => O[u[j]] \in Nat /\ y + e <= O[u[j]]
    BY <1>1, <1>7, <2>1, PlacedFacts
  <2>5. O[u[k]] + x <= y
    BY <2>3, <2>4, <1>3, <1>4 DEF x
  <2> HIDE DEF y, e
  <2>6. O[u[k]] + x <= D
    BY <2>4, <2>5, <1>3, <1>4
  <2>7. ASSUME NEW j \in 1 .. Len(u), k < j, O[u[j]] # NOT_AN_OFFSET
        PROVE  O[u[k]] + x <= O[u[j]]
    <3>1. CASE j = k + 1
      BY <3>1, <2>5 DEF y
    <3>2. CASE j # k + 1
      <4>1. k + 1 < j
        BY <3>2, <2>7, <1>2
      <4>2. QED
        BY <4>1, <2>4, <2>5, <2>7, <1>3, <1>4, SMTT(30)
    <3>3. QED
      BY <3>1, <3>2
  <2>8. QED
    BY <2>6, <2>7 DEF O, D, x
<1>8. CASE k # Len(u) /\ O[u[k + 1]] = NOT_AN_OFFSET
  <2>1. k + 1 \in 1 .. Len(u) /\ u[k + 1] \in DVs
    BY <1>2, <1>8
  <2>2. M.Link[u[k]] # NOT_A_DS_ID /\ M.Offset[M.Link[u[k]]] = NOT_AN_OFFSET
    BY <1>5, <1>8, <2>1, NotADV DEF O
  <2>3. ~(x > InplaceRoom(M, u[k]))
    BY <2>2 DEF Overgrown, x
  <2>4. InplaceRoom(M, u[k]) \in Int
    BY <1>3, RoomFits
  <2>5. x <= InplaceRoom(M, u[k])
    BY <2>3, <2>4, <1>3
  <2>6. QED
    BY <2>5, <1>3, RoomFits DEF O, D, x
<1>9. QED
  BY <1>6, <1>7, <1>8

\* An array gets a new count where it is.
LEMMA InplaceGood ==
  ASSUME NEW M, NEW u, NEW f, NEW s \in BOOLEAN, Good(M, u, f, s), NEW k \in 1 .. Len(u),
         u[k] # 0, NEW n \in Nat, s => ~Overgrown(M, u[k], n),
         \/ n <= M.Count[u[k]]
         \/ M.Offset[u[k]] # NOT_AN_OFFSET /\ n * M.ElemSize[u[k]] <= InplaceSize(M, u[k])
  PROVE  Good([M EXCEPT !.Count = [M.Count EXCEPT ![u[k]] = n]], u, f, s)
<1> DEFINE C == [M.Count EXCEPT ![u[k]] = n]
           N == [M EXCEPT !.Count = C]
           E == Extents(M, s)
           X == Extents(N, s)
           O == M.Offset
           D == M.DataspaceSize
<1>1. /\ Distinct(u) /\ Lists(M, u, f) /\ Placed(O, E, D, u) /\ M \in Memories
      /\ M.Count \in [DVs -> Nat] /\ E \in [DVs -> Nat]
  BY GoodFacts DEF Good
<1>2. u[k] \in DVs /\ 0 \in DVs
  BY <1>1, Ranges, NotADV DEF Distinct
<1>3. /\ C \in [DVs -> Nat] /\ C[u[k]] = n /\ C[0] = M.Count[0]
      /\ \A d \in DVs \ {u[k]} : C[d] = M.Count[d]
  BY <1>1, <1>2
<1> HIDE DEF C
<1>4. /\ N \in Memories
      /\ N.Head = M.Head /\ N.Tail = M.Tail /\ N.FreeHead = M.FreeHead
      /\ N.Link = M.Link /\ N.BackLink = M.BackLink /\ N.Offset = O
      /\ N.ElemSize = M.ElemSize /\ N.Count = C /\ N.DataspaceSize = D
  BY <1>1, <1>3 DEF Memories
<1> HIDE DEF N
<1>5. Lists(N, u, f)
  BY <1>1, <1>3, <1>4, ListsFrame
<1>6. X \in [DVs -> Nat] /\ \A d \in DVs \ {u[k]} : X[d] = E[d]
  <2>1. X \in [DVs -> Nat]
    BY <1>4, ExtentsNat
  <2>2. ASSUME NEW d \in DVs \ {u[k]} PROVE X[d] = E[d]
    BY <1>1, <1>3, <1>4, ExtentsFrame
  <2>3. QED
    BY <2>1, <2>2
<1>7. /\ X[u[k]] = IF s THEN n * M.ElemSize[u[k]] ELSE 0
      /\ E[u[k]] = IF s THEN M.Count[u[k]] * M.ElemSize[u[k]] ELSE 0
  <2>1. M.ElemSize[u[k]] \in Nat /\ M.Count[u[k]] \in Nat
    BY <1>1, <1>2 DEF Memories
  <2>2. Size(N, u[k]) = M.ElemSize[u[k]] * n /\ Size(M, u[k]) = M.ElemSize[u[k]] * M.Count[u[k]]
    BY <1>3, <1>4 DEF Size
  <2>3. Size(N, u[k]) = n * M.ElemSize[u[k]] /\ Size(M, u[k]) = M.Count[u[k]] * M.ElemSize[u[k]]
    BY <2>1, <2>2
  <2>4. QED
    BY <2>3, <1>2 DEF Extents
<1>8. O[u[k]] # NOT_AN_OFFSET /\ X[u[k]] > E[u[k]] =>
        /\ O[u[k]] + X[u[k]] <= D
        /\ \A j \in 1 .. Len(u) :
             k < j /\ O[u[j]] # NOT_AN_OFFSET => O[u[k]] + X[u[k]] <= O[u[j]]
  <2> SUFFICES ASSUME O[u[k]] # NOT_AN_OFFSET, X[u[k]] > E[u[k]]
               PROVE  /\ O[u[k]] + X[u[k]] <= D
                      /\ \A j \in 1 .. Len(u) :
                           k < j /\ O[u[j]] # NOT_AN_OFFSET => O[u[k]] + X[u[k]] <= O[u[j]]
    OBVIOUS
  <2>1. s
    BY <1>7
  <2>2. n > M.Count[u[k]]
    <3>1. M.ElemSize[u[k]] \in Nat /\ M.Count[u[k]] \in Nat
      BY <1>1, <1>2 DEF Memories
    <3>2. M.Count[u[k]] * M.ElemSize[u[k]] < n * M.ElemSize[u[k]]
      BY <2>1, <1>7
    <3>3. QED
      BY <3>1, <3>2, Product
  <2>3. n * M.ElemSize[u[k]] <= InplaceSize(M, u[k])
    <3>1. M.Count[u[k]] \in Nat
      BY <1>1, <1>2
    <3>2. ~(n <= M.Count[u[k]])
      BY <3>1, <2>2
    <3>3. QED
      BY <3>2
  <2>4. /\ M.Offset[u[k]] + n * M.ElemSize[u[k]] <= M.DataspaceSize
        /\ \A j \in 1 .. Len(u) :
             k < j /\ M.Offset[u[j]] # NOT_AN_OFFSET
             => M.Offset[u[k]] + n * M.ElemSize[u[k]] <= M.Offset[u[j]]
    BY <2>1, <2>2, <2>3, InplaceFits
  <2>5. X[u[k]] = n * M.ElemSize[u[k]]
    BY <2>1, <1>7
  <2>6. QED
    BY <2>4, <2>5
<1> HIDE DEF E, X
<1>9. Placed(O, X, D, u)
  BY <1>1, <1>6, <1>8, PlacedResize
<1>10. N.ElemSize[0] = DVSize /\ (s => N.DataspaceSize <= POOL_MAX_SIZE)
  BY <1>4 DEF Good
<1>11. Good(N, u, f, s)
  BY <1>4, <1>5, <1>9, <1>10 DEF Good, X
<1>12. QED
  BY <1>11 DEF N, C

\* An array at the end of the dataspace, with a new count.
AtEnd(M, d, n) ==
  [M EXCEPT !.DataspaceSize = M.DataspaceSize + n * M.ElemSize[d],
            !.Offset = [M.Offset EXCEPT ![d] = M.DataspaceSize],
            !.Count = [M.Count EXCEPT ![d] = n]]

\* An array moved to the end of the dataspace, with its DV at the end of the list.
LEMMA MovedGood ==
  ASSUME NEW M, NEW u, NEW f, NEW s \in BOOLEAN, Good(M, u, f, s), NEW k \in DOMAIN u,
         u[k] # 0, NEW n \in Nat, Align(M.DataspaceSize) = M.DataspaceSize,
         M.DataspaceSize + n * M.ElemSize[u[k]] < POOL_MAX_SIZE
  PROVE  /\ Good(MoveToTail(AtEnd(M, u[k], n), u[k]), Append(Without(u, k), u[k]), f, s)
         /\ MoveToTail(AtEnd(M, u[k], n), u[k]).Count = [M.Count EXCEPT ![u[k]] = n]
<1> DEFINE D0 == M.DataspaceSize
           x == n * M.ElemSize[u[k]]
           D == D0 + x
           O == [M.Offset EXCEPT ![u[k]] = D0]
           C == [M.Count EXCEPT ![u[k]] = n]
           N == [M EXCEPT !.DataspaceSize = D, !.Offset = O, !.Count = C]
           R == MoveToTail(N, u[k])
           v == Append(Without(u, k), u[k])
<1>1. /\ Distinct(u) /\ Lists(M, u, f) /\ M \in Memories /\ D0 \in Nat
      /\ Placed(M.Offset, Extents(M, s), D0, u)
      /\ M.Count \in [DVs -> Nat] /\ M.Offset \in [DVs -> Nat] /\ M.ElemSize \in [DVs -> Nat]
  BY GoodFacts DEF Good
<1>2. u[k] \in DVs /\ 0 \in DVs /\ k \in 1 .. Len(u)
  BY <1>1, Ranges, NotADV DEF Distinct
<1>3. x \in Nat /\ D \in Nat /\ D0 <= D
  <2>1. x \in Nat
    BY <1>1, <1>2, Product
  <2> HIDE DEF x
  <2>2. QED
    BY <2>1, <1>1
<1>4. /\ C \in [DVs -> Nat] /\ C[u[k]] = n /\ C[0] = M.Count[0]
      /\ \A d \in DVs \ {u[k]} : C[d] = M.Count[d]
  BY <1>1, <1>2
<1>5. /\ O \in [DVs -> Nat] /\ O[u[k]] = D0 /\ \A d \in DVs \ {u[k]} : O[d] = M.Offset[d]
  BY <1>1, <1>2
<1> HIDE DEF C, O, D
<1>6. /\ N \in Memories
      /\ N.Head = M.Head /\ N.Tail = M.Tail /\ N.FreeHead = M.FreeHead
      /\ N.Link = M.Link /\ N.BackLink = M.BackLink /\ N.Offset = O
      /\ N.ElemSize = M.ElemSize /\ N.Count = C /\ N.DataspaceSize = D
  BY <1>1, <1>3, <1>4, <1>5 DEF Memories
<1> HIDE DEF N
<1>7. Lists(N, u, f)
  BY <1>1, <1>4, <1>6, ListsFrame
<1>8. /\ Lists(R, v, f) /\ R.Offset = N.Offset /\ R.ElemSize = N.ElemSize /\ R.Count = N.Count
      /\ R.DataspaceSize = N.DataspaceSize
  BY <1>2, <1>7, MoveLists
<1> HIDE DEF R
<1>9. /\ R \in Memories /\ R.Offset = O /\ R.ElemSize = M.ElemSize /\ R.Count = C
      /\ R.DataspaceSize = D
  BY <1>6, <1>8 DEF Lists
<1> DEFINE X == Extents(R, s)
<1>10. X \in [DVs -> Nat] /\ \A d \in DVs \ {u[k]} : X[d] = Extents(M, s)[d]
  BY <1>1, <1>4, <1>9, ExtentsFrame, ExtentsNat
<1>11. X[u[k]] \in Nat /\ X[u[k]] <= x
  <2>1. Size(R, u[k]) = M.ElemSize[u[k]] * n
    BY <1>4, <1>9 DEF Size
  <2>2. M.ElemSize[u[k]] \in Nat
    BY <1>1, <1>2
  <2>3. Size(R, u[k]) = x
    BY <2>1, <2>2
  <2>4. QED
    BY <2>3, <1>2, <1>3, <1>9, ExtentsNat
<1> HIDE DEF X, x
<1>12. D0 <= O[u[k]] /\ Align(O[u[k]]) = O[u[k]] /\ O[u[k]] + X[u[k]] <= D
  BY <1>1, <1>3, <1>5, <1>11 DEF D
<1>13. Placed(O, X, D, Append(Without(u, k), u[k]))
  <2>1. \A d \in DVs \ {u[k]} : O[d] = M.Offset[d] /\ X[d] = Extents(M, s)[d]
    BY <1>5, <1>10
  <2> HIDE DEF v
  <2>2. QED
    BY <1>1, <1>3, <1>5, <1>10, <1>12, <2>1, PlacedMoved
<1>14. R.ElemSize[0] = DVSize /\ (s => R.DataspaceSize <= POOL_MAX_SIZE)
  <2>1. R.ElemSize[0] = DVSize
    BY <1>9 DEF Good
  <2>2. D < POOL_MAX_SIZE
    BY DEF D, x
  <2>3. QED
    BY <2>1, <2>2, <1>3, <1>9, Constants
<1>15. Good(R, v, f, s)
  BY <1>8, <1>9, <1>13, <1>14 DEF Good, X
<1>16. QED
  BY <1>9, <1>15 DEF AtEnd, R, N, C, O, D, x

\* The same, of a DV in use, with the DVs in use unchanged.
LEMMA MovedSound ==
  ASSUME NEW M, NEW u, NEW f, NEW s \in BOOLEAN, Good(M, u, f, s), NEW d \in Range_(u) \ {0},
         NEW n \in Nat, Align(M.DataspaceSize) = M.DataspaceSize,
         M.DataspaceSize + n * M.ElemSize[d] < POOL_MAX_SIZE
  PROVE  /\ Sound(MoveToTail(AtEnd(M, d, n), d), Range_(u), s)
         /\ MoveToTail(AtEnd(M, d, n), d).Count = [M.Count EXCEPT ![d] = n]
<1>1. Distinct(u) /\ Range_(u) \subseteq DVs
  BY GoodFacts
<1>2. PICK k \in DOMAIN u : u[k] = d
  BY DEF Range_
<1> DEFINE v == Append(Without(u, k), u[k])
<1>3. u[k] # 0 /\ M.DataspaceSize + n * M.ElemSize[u[k]] < POOL_MAX_SIZE
  BY <1>2
<1>4. /\ Good(MoveToTail(AtEnd(M, u[k], n), u[k]), v, f, s)
      /\ MoveToTail(AtEnd(M, u[k], n), u[k]).Count = [M.Count EXCEPT ![u[k]] = n]
  BY <1>3, MovedGood
<1>5. Range_(v) = Range_(u)
  <2>1. k \in 1 .. Len(u)
    BY <1>1, Ranges DEF Distinct
  <2>2. Distinct(Without(u, k)) /\ Range_(Without(u, k)) = Range_(u) \ {d}
    BY <1>1, <1>2, <2>1, WithoutSeq
  <2>3. d \notin Range_(Without(u, k))
    BY <2>2
  <2>4. Range_(Append(Without(u, k), d)) = Range_(Without(u, k)) \cup {d}
    BY <2>2, <2>3, <1>1, AppendSeq
  <2>5. QED
    BY <2>2, <2>4, <1>2
<1> HIDE DEF v
<1>6. QED
  BY <1>2, <1>4, <1>5 DEF Sound

\* cCmdDVArrayAlloc.
LEMMA ResizeSound ==
  ASSUME NEW M, NEW U, NEW s \in BOOLEAN, Sound(M, U, s), NEW d \in U \ {0}, NEW n \in Nat,
         s => ~Overgrown(M, d, n)
  PROVE  LET R == DVArrayAlloc(M, d, n)
         IN  /\ R = [mem |-> R.mem, status |-> R.status]
             /\ R.status \in {"NO_ERR", "ERR_MEM"}
             /\ Sound(R.mem, U, s)
             /\ \A e \in DVs \ {d} : R.mem.Count[e] = M.Count[e]
             /\ R.status = "NO_ERR" => R.mem.Count[d] = n
             /\ R.status = "ERR_MEM" =>
                  R.mem.Count[d] = M.Count[d] /\ n > M.Count[d] /\ (s => Calm(R.mem, d))
<1> DEFINE R == DVArrayAlloc(M, d, n)
           x == n * M.ElemSize[d]
           A == [M EXCEPT !.DataspaceSize = Align(M.DataspaceSize)]
           D0 == Align(M.DataspaceSize)
<1>1. PICK u, f : Good(M, u, f, s) /\ Range_(u) = U
  BY DEF Sound
<1>2. /\ Lists(M, u, f) /\ M \in Memories /\ Distinct(u) /\ U \subseteq DVs /\ d \in DVs
      /\ M.Count \in [DVs -> Nat] /\ M.ElemSize \in [DVs -> Nat] /\ M.DataspaceSize \in Nat
  BY <1>1, GoodFacts
<1>3. PICK k \in 1 .. Len(u) : u[k] = d
  BY <1>1, <1>2, ListsFacts
<1>4. x \in Nat /\ u[k] # 0
  BY <1>2, <1>3, Product
<1>5. CASE n <= M.Count[d] \/ (M.Offset[d] # NOT_AN_OFFSET /\ x <= InplaceSize(M, d))
  <2> DEFINE N == [M EXCEPT !.Count = [M.Count EXCEPT ![d] = n]]
  <2>1. R = [mem |-> N, status |-> "NO_ERR"]
    BY <1>5 DEF DVArrayAlloc
  <2>2. Good(N, u, f, s)
    <3>1. \/ n <= M.Count[u[k]]
          \/ M.Offset[u[k]] # NOT_AN_OFFSET /\ n * M.ElemSize[u[k]] <= InplaceSize(M, u[k])
      BY <1>3, <1>5
    <3>2. s => ~Overgrown(M, u[k], n)
      BY <1>3
    <3>3. Good([M EXCEPT !.Count = [M.Count EXCEPT ![u[k]] = n]], u, f, s)
      BY <1>1, <1>4, <3>1, <3>2, InplaceGood
    <3>4. QED
      BY <1>3, <3>3
  <2>3. N.Count = [M.Count EXCEPT ![d] = n]
    BY <1>2 DEF Memories
  <2> HIDE DEF N, R
  <2>4. N.Count[d] = n /\ \A e \in DVs \ {d} : N.Count[e] = M.Count[e]
    BY <1>2, <2>3
  <2>5. R.mem = N /\ R.status = "NO_ERR"
    BY <2>1
  <2>6. Sound(N, U, s)
    BY <1>1, <2>2 DEF Sound
  <2>7. QED
    BY <2>1, <2>4, <2>5, <2>6 DEF R
<1>6. CASE ~(n <= M.Count[d] \/ (M.Offset[d] # NOT_AN_OFFSET /\ x <= InplaceSize(M, d)))
  <2>1. /\ Good(A, u, f, s) /\ A.Offset = M.Offset /\ A.Link = M.Link
        /\ A.ElemSize = M.ElemSize /\ A.Count = M.Count /\ A.DataspaceSize = D0
    BY <1>1, AlignedGood
  <2>2. D0 \in Nat /\ Align(D0) = D0
    BY <1>2, Aligning
  <2> DEFINE N == AtEnd(A, d, n)
  <2>3. R = IF D0 + x < POOL_MAX_SIZE THEN [mem |-> MoveToTail(N, d), status |-> "NO_ERR"]
            ELSE [mem |-> A, status |-> "ERR_MEM"]
    <3> DEFINE K == [A EXCEPT !.DataspaceSize = @ + x, !.Offset[d] = A.DataspaceSize, !.Count[d] = n]
    <3>1. R = IF D0 + x < POOL_MAX_SIZE THEN [mem |-> MoveToTail(K, d), status |-> "NO_ERR"]
              ELSE [mem |-> A, status |-> "ERR_MEM"]
      BY <1>6 DEF DVArrayAlloc, Fits
    <3> HIDE DEF A
    <3>2. K = N
      BY <2>1, GoodFacts DEF Memories, AtEnd
    <3> HIDE DEF K, N
    <3>3. QED
      BY <3>1, <3>2
  <2> HIDE DEF A, D0, R
  <2>4. n > M.Count[d]
    BY <1>2, <1>6
  <2>5. CASE ~(D0 + x < POOL_MAX_SIZE)
    <3>1. R.mem = A /\ R.status = "ERR_MEM"
      BY <2>3, <2>5
    <3>2. Sound(A, U, s)
      BY <1>1, <2>1 DEF Sound
    <3>3. s => Calm(M, d)
      <4> SUFFICES ASSUME s, M.Offset[d] # NOT_AN_OFFSET, M.Link[d] # NOT_A_DS_ID,
                          M.Offset[M.Link[d]] = NOT_AN_OFFSET
                   PROVE  FALSE
        BY DEF Calm
      <4>1. ~(x > InplaceRoom(M, d))
        BY <2>4 DEF Overgrown
      <4>2. /\ InplaceRoom(M, d) \in Int
            /\ InplaceRoom(M, d) <= M.DataspaceSize - M.Offset[d]
        BY <1>1, <1>3, <1>4, RoomFits
      <4>3. InplaceSize(M, d) = NOT_AN_OFFSET - M.Offset[d]
        BY DEF InplaceSize
      <4>4. M.DataspaceSize <= POOL_MAX_SIZE /\ M.Offset[d] \in Nat
        BY <1>1, <1>2 DEF Good, Memories
      <4>5. x <= NOT_AN_OFFSET - M.Offset[d]
        <5> DEFINE r == InplaceRoom(M, d)
                   o == M.Offset[d]
                   D == M.DataspaceSize
        <5>1. /\ x \in Nat /\ r \in Int /\ o \in Nat /\ D \in Nat
              /\ POOL_MAX_SIZE \in Nat /\ NOT_AN_OFFSET \in Nat
          BY <4>2, <4>4, <1>2, <1>4, Constants
        <5>2. ~(x > r) /\ r <= D - o /\ D <= POOL_MAX_SIZE /\ POOL_MAX_SIZE <= NOT_AN_OFFSET
          BY <4>1, <4>2, <4>4, Constants
        <5> HIDE DEF x, r, o, D
        <5>3. x <= NOT_AN_OFFSET - o
          BY <5>1, <5>2
        <5>4. QED
          BY <5>3 DEF o
      <4>6. QED
        BY <1>6, <4>3, <4>5
    <3>4. s => Calm(A, d)
      BY <3>3, <2>1 DEF Calm
    <3>5. \A e \in DVs : A.Count[e] = M.Count[e]
      BY <2>1
    <3>6. QED
      BY <1>2, <2>3, <2>4, <2>5, <3>1, <3>2, <3>4, <3>5 DEF R
  <2>6. CASE D0 + x < POOL_MAX_SIZE
    <3> DEFINE K == MoveToTail(N, d)
    <3>1. d \in Range_(u) \ {0}
      BY <1>1
    <3>2. A.DataspaceSize + n * A.ElemSize[d] < POOL_MAX_SIZE /\ Align(A.DataspaceSize) = A.DataspaceSize
      BY <2>1, <2>2, <2>6
    <3>3. Sound(K, Range_(u), s) /\ K.Count = [A.Count EXCEPT ![d] = n]
      BY <2>1, <3>1, <3>2, MovedSound
    <3>4. R.mem = K /\ R.status = "NO_ERR"
      BY <2>3, <2>6
    <3>5. R = [mem |-> K, status |-> "NO_ERR"]
      BY <2>3, <2>6
    <3> HIDE DEF N, K
    <3>6. K.Count[d] = n /\ \A e \in DVs \ {d} : K.Count[e] = M.Count[e]
      BY <1>2, <2>1, <3>3
    <3>7. Sound(K, U, s)
      BY <1>1, <3>3
    <3>8. QED
      BY <3>4, <3>5, <3>6, <3>7 DEF R
  <2>7. QED
    BY <2>5, <2>6
<1>7. QED
  BY <1>5, <1>6

-----------------------------------------------------------------------------
(***************************************************************************)
(* Compaction.                                                             *)
(***************************************************************************)

\* The recursive function Compacted is what its equations say.
LEMMA CompactedEnds ==
  ASSUME NEW M \in Memories, NEW u, Distinct(u), Used(M) = u
  PROVE  Ends(Compacted(M), M.Offset, [d \in DVs |-> Size(M, d)], u)
<1> DEFINE n == Len(u)
           O == M.Offset
           S == [d \in DVs |-> Size(M, d)]
           end[i \in 0 .. n] ==
             IF i = 0 THEN DSStaticSize
             ELSE IF M.Offset[u[i]] = NOT_AN_OFFSET THEN Align(end[i - 1])
             ELSE Align(end[i - 1]) + Size(M, u[i])
           G == [i \in 1 .. n |-> [x \in Nat |-> IF M.Offset[u[i]] = NOT_AN_OFFSET THEN Align(x)
                                                 ELSE Align(x) + Size(M, u[i])]]
           T == [i \in 0 .. n |-> Nat]
<1>1. Compacted(M) = end
  BY DEF Compacted
<1>2. n \in Nat /\ \A i \in 1 .. n : u[i] \in DVs
  BY Ranges DEF Distinct
<1>3. \A i \in 1 .. n : Size(M, u[i]) \in Nat /\ S[u[i]] = Size(M, u[i])
  BY <1>2, ExtentsNat
<1>4. \E f : /\ f = [i \in 0 .. n |-> IF i = 0 THEN DSStaticSize ELSE G[i][f[i - 1]]]
             /\ \A i \in 0 .. n : f[i] \in Nat
  <2>1. \A i \in 1 .. n : \A x \in Nat : G[i][x] \in Nat
    <3>1. ASSUME NEW i \in 1 .. n, NEW x \in Nat PROVE G[i][x] \in Nat
      <4>1. G[i][x] = IF M.Offset[u[i]] = NOT_AN_OFFSET THEN Align(x) ELSE Align(x) + Size(M, u[i])
        OBVIOUS
      <4>2. Align(x) \in Nat /\ Size(M, u[i]) \in Nat
        BY <1>3, Aligning
      <4> HIDE DEF G
      <4>3. QED
        BY <4>1, <4>2
    <3>2. QED
      BY <3>1
  <2>2. DSStaticSize \in Nat
    BY Constants
  <2>3. \A i \in 0 .. n : T[i] = Nat
    OBVIOUS
  <2> HIDE DEF G, T, n
  <2>4. DSStaticSize \in T[0] /\ \A i \in 1 .. n : \A x \in T[i - 1] : G[i][x] \in T[i]
    BY <2>1, <2>2, <2>3, <1>2
  <2>5. Steps(n, T, DSStaticSize, G)
    BY <1>2, <2>4 DEF Steps
  <2>6. PICK f : Recursive(f, n, DSStaticSize, G) /\ Within(f, n, T)
    BY <2>5, Recursion
  <2>7. QED
    BY <2>3, <2>6, ZenonT(40) DEF Recursive, Within
<1>5. PICK f : /\ f = [i \in 0 .. n |-> IF i = 0 THEN DSStaticSize ELSE G[i][f[i - 1]]]
               /\ \A i \in 0 .. n : f[i] \in Nat
  BY <1>4
<1>6. f = [i \in 0 .. n |->
             IF i = 0 THEN DSStaticSize
             ELSE IF M.Offset[u[i]] = NOT_AN_OFFSET THEN Align(f[i - 1])
             ELSE Align(f[i - 1]) + Size(M, u[i])]
  <2> DEFINE h == [i \in 0 .. n |->
                     IF i = 0 THEN DSStaticSize
                     ELSE IF M.Offset[u[i]] = NOT_AN_OFFSET THEN Align(f[i - 1])
                     ELSE Align(f[i - 1]) + Size(M, u[i])]
  <2>1. ASSUME NEW i \in 0 .. n PROVE f[i] = h[i]
    <3>1. f[i] = IF i = 0 THEN DSStaticSize ELSE G[i][f[i - 1]]
      BY <1>5
    <3>2. i # 0 => i \in 1 .. n /\ i - 1 \in 0 .. n
      BY <1>2
    <3>2a. i # 0 => f[i - 1] \in Nat
      BY <3>2, <1>5
    <3>3. QED
      BY <3>1, <3>2, <3>2a
  <2>2. f = [i \in 0 .. n |-> f[i]]
    BY <1>5
  <2> HIDE DEF G
  <2>3. QED
    BY <2>1, <2>2
<1>7. end = [i \in 0 .. n |->
               IF i = 0 THEN DSStaticSize
               ELSE IF M.Offset[u[i]] = NOT_AN_OFFSET THEN Align(end[i - 1])
               ELSE Align(end[i - 1]) + Size(M, u[i])]
  BY <1>6
<1> HIDE DEF end, S
<1>8. end[0] = DSStaticSize
  BY <1>2, <1>7
<1>9. ASSUME NEW i \in 1 .. n
      PROVE  end[i] = IF O[u[i]] = NOT_AN_OFFSET THEN Align(end[i - 1])
                      ELSE Align(end[i - 1]) + S[u[i]]
  <2>1. i \in 0 .. n /\ i # 0
    BY <1>2
  <2>2. end[i] = IF M.Offset[u[i]] = NOT_AN_OFFSET THEN Align(end[i - 1])
                 ELSE Align(end[i - 1]) + Size(M, u[i])
    BY <2>1, <1>7
  <2>3. QED
    BY <2>2, <1>3
<1>10. Ends(end, O, S, u)
  BY <1>8, <1>9 DEF Ends
<1>11. QED
  BY <1>1, <1>10 DEF S

\* What cCmdDSCompact changes.
LEMMA CompactFields ==
  ASSUME NEW M \in Memories, NEW u, Distinct(u), Used(M) = u,
         \A d \in DVs : M.Offset[d] # NOT_AN_OFFSET => d \in Range_(u)
  PROVE  LET N == DSCompact(M)
             end == Compacted(M)
         IN  /\ N \in Memories
             /\ N.Head = M.Head /\ N.Tail = M.Tail /\ N.FreeHead = M.FreeHead
             /\ N.Link = M.Link /\ N.BackLink = M.BackLink
             /\ N.ElemSize = M.ElemSize /\ N.Count = M.Count
             /\ N.DataspaceSize = end[Len(u)]
             /\ \A d \in DVs : M.Offset[d] = NOT_AN_OFFSET => N.Offset[d] = NOT_AN_OFFSET
             /\ \A i \in 1 .. Len(u) :
                  N.Offset[u[i]] = IF M.Offset[u[i]] = NOT_AN_OFFSET THEN NOT_AN_OFFSET
                                   ELSE Align(end[i - 1])
<1> DEFINE n == Len(u)
           end == Compacted(M)
           place(d) == CHOOSE i \in DOMAIN u : u[i] = d
           P == [d \in DVs |-> IF M.Offset[d] = NOT_AN_OFFSET THEN NOT_AN_OFFSET
                               ELSE Align(end[place(d) - 1])]
           D == end[n]
           N == [M EXCEPT !.Offset = P, !.DataspaceSize = D]
           S == [d \in DVs |-> Size(M, d)]
<1>1. n \in Nat /\ DOMAIN u = 1 .. n /\ \A i \in 1 .. n : u[i] \in DVs
  BY Ranges DEF Distinct
<1>2. DSCompact(M) = N
  BY DEF DSCompact
<1>3. S \in [DVs -> Nat]
  BY ExtentsNat
<1>4. Ends(end, M.Offset, S, u)
  BY CompactedEnds
<1>5. \A j \in 0 .. n : end[j] \in Nat
  <2> HIDE DEF end, S
  <2>1. QED
    BY <1>3, <1>4, EndsGoUp
<1>6. \A i \in 1 .. n : place(u[i]) = i
  <2>1. ASSUME NEW i \in 1 .. n PROVE place(u[i]) = i
    <3> DEFINE p == place(u[i])
    <3>1. i \in DOMAIN u /\ u[i] = u[i]
      BY <1>1
    <3>2. p \in DOMAIN u /\ u[p] = u[i]
      BY <3>1
    <3> HIDE DEF p
    <3>3. p = i
      BY <3>2, <1>1 DEF Distinct
    <3>4. QED
      BY <3>3 DEF p
  <2>2. QED
    BY <2>1
<1> HIDE DEF place, end, S
<1>7. \A i \in 1 .. n : P[u[i]] = IF M.Offset[u[i]] = NOT_AN_OFFSET THEN NOT_AN_OFFSET
                                  ELSE Align(end[i - 1])
  BY <1>1, <1>6
<1>8. \A d \in DVs : M.Offset[d] = NOT_AN_OFFSET => P[d] = NOT_AN_OFFSET
  OBVIOUS
<1>9. \A d \in DVs : P[d] \in Nat
  <2> SUFFICES ASSUME NEW d \in DVs PROVE P[d] \in Nat
    OBVIOUS
  <2>1. CASE M.Offset[d] = NOT_AN_OFFSET
    BY <2>1, <1>8, Constants
  <2>2. CASE M.Offset[d] # NOT_AN_OFFSET
    <3>1. PICK i \in 1 .. n : u[i] = d
      BY <2>2, Ranges DEF Distinct
    <3>2. P[d] = Align(end[i - 1])
      BY <3>1, <2>2, <1>7
    <3>3. end[i - 1] \in Nat
      <4>1. i - 1 \in 0 .. n
        BY <1>1
      <4>2. QED
        BY <4>1, <1>5
    <3>4. QED
      BY <3>2, <3>3, Aligning
  <2>3. QED
    BY <2>1, <2>2
<1>10. P \in [DVs -> Nat]
  BY <1>9
<1>11. D \in Nat
  BY <1>1, <1>5
<1> HIDE DEF P, D
<1>12. /\ N \in Memories
       /\ N.Head = M.Head /\ N.Tail = M.Tail /\ N.FreeHead = M.FreeHead
       /\ N.Link = M.Link /\ N.BackLink = M.BackLink
       /\ N.ElemSize = M.ElemSize /\ N.Count = M.Count
       /\ N.DataspaceSize = D /\ N.Offset = P
  BY <1>10, <1>11 DEF Memories
<1> HIDE DEF N
<1>13. QED
  BY <1>2, <1>7, <1>8, <1>12 DEF D, end

\* Compaction keeps the lists, brings the arrays into order, and moves them
\* down.
LEMMA CompactSound ==
  ASSUME NEW M, NEW U, NEW s \in BOOLEAN, Sound(M, U, s)
  PROVE  LET N == DSCompact(M)
         IN  /\ Sound(N, U, s)
             /\ N.Count = M.Count /\ N.ElemSize = M.ElemSize /\ N.Link = M.Link
             /\ s => \A d \in DVs : Calm(M, d) => Calm(N, d)
             /\ s => MovesDown(M)
<1> DEFINE N == DSCompact(M)
           end == Compacted(M)
           S == [d \in DVs |-> Size(M, d)]
           O == M.Offset
           D == M.DataspaceSize
<1>1. PICK u, f : Good(M, u, f, s) /\ Range_(u) = U
  BY DEF Sound
<1>2. /\ Lists(M, u, f) /\ M \in Memories /\ Distinct(u) /\ U \subseteq DVs
      /\ D \in Nat /\ O \in [DVs -> Nat]
  BY <1>1, GoodFacts
<1>3. Used(M) = u /\ \A d \in U : \E i \in 1 .. Len(u) : u[i] = d
  BY <1>1, <1>2, ListsFacts
<1>4. \A d \in DVs : O[d] # NOT_AN_OFFSET => d \in Range_(u)
  BY <1>1 DEF Good, Placed
<1>5. /\ N \in Memories
      /\ N.Head = M.Head /\ N.Tail = M.Tail /\ N.FreeHead = M.FreeHead
      /\ N.Link = M.Link /\ N.BackLink = M.BackLink
      /\ N.ElemSize = M.ElemSize /\ N.Count = M.Count
      /\ N.DataspaceSize = end[Len(u)]
      /\ \A d \in DVs : O[d] = NOT_AN_OFFSET => N.Offset[d] = NOT_AN_OFFSET
      /\ \A i \in 1 .. Len(u) :
           N.Offset[u[i]] = IF O[u[i]] = NOT_AN_OFFSET THEN NOT_AN_OFFSET ELSE Align(end[i - 1])
  BY <1>2, <1>3, <1>4, CompactFields
<1>6. S \in [DVs -> Nat]
  BY <1>2, ExtentsNat
<1>7. Ends(end, O, S, u)
  BY <1>2, <1>3, CompactedEnds
<1>8. Extents(N, s) \in [DVs -> Nat] /\ \A d \in DVs : Extents(N, s)[d] <= S[d]
  <2>1. Extents(N, s) \in [DVs -> Nat] /\ \A d \in DVs : Extents(N, s)[d] <= Size(N, d)
    BY <1>5, ExtentsNat
  <2>2. \A d \in DVs : Size(N, d) = S[d]
    BY <1>5 DEF Size
  <2>3. QED
    BY <2>1, <2>2
<1>9. s => S = Extents(M, s)
  BY DEF Extents
<1> DEFINE X == Extents(N, s)
           P == N.Offset
<1>10. P \in [DVs -> Nat] /\ N.Count[0] = M.Count[0] /\ N.ElemSize[0] = DVSize
  BY <1>1, <1>5 DEF Memories, Good
<1> HIDE DEF N, end, S, O, D
<1>11. Lists(N, u, f)
  BY <1>2, <1>5, <1>10, ListsFrame
<1>12. Placed(P, X, N.DataspaceSize, u)
  <2>1. \A d \in DVs : d \notin Range_(u) => P[d] = NOT_AN_OFFSET
    BY <1>4, <1>5
  <2>2. \A i \in 1 .. Len(u) :
          P[u[i]] = IF O[u[i]] = NOT_AN_OFFSET THEN NOT_AN_OFFSET ELSE Align(end[i - 1])
    BY <1>5
  <2>3. X \in [DVs -> Nat] /\ \A d \in DVs : X[d] <= S[d]
    BY <1>8
  <2> HIDE DEF P, X
  <2>4. Placed(P, X, end[Len(u)], u)
    BY <1>2, <1>6, <1>7, <1>10, <2>1, <2>2, <2>3, PlacedCompacted
  <2>5. QED
    BY <2>4, <1>5
<1>13. ASSUME s
       PROVE  /\ end[Len(u)] <= Align(D) /\ D <= POOL_MAX_SIZE
              /\ \A d \in DVs : O[d] # NOT_AN_OFFSET => P[d] <= O[d] /\ O[d] <= D
  <2>1. Placed(O, S, D, u) /\ D <= POOL_MAX_SIZE
    BY <1>1, <1>9, <1>13 DEF Good, O, D
  <2>2. /\ end[Len(u)] <= Align(D)
        /\ \A i \in 1 .. Len(u) : O[u[i]] # NOT_AN_OFFSET => Align(end[i - 1]) <= O[u[i]]
    BY <1>2, <1>7, <2>1, EndsStayBelow
  <2>3. ASSUME NEW d \in DVs, O[d] # NOT_AN_OFFSET PROVE P[d] <= O[d] /\ O[d] <= D
    <3>1. PICK i \in 1 .. Len(u) : u[i] = d
      BY <2>3, <1>1, <1>3, <1>4
    <3>2. P[d] = Align(end[i - 1])
      BY <3>1, <2>3, <1>5
    <3>3. O[d] <= D
      BY <2>1, <2>3, <3>1, <1>2, PlacedFacts
    <3>4. QED
      BY <2>2, <2>3, <3>1, <3>2, <3>3
  <2>4. QED
    BY <2>1, <2>2, <2>3
<1>14. s => N.DataspaceSize <= POOL_MAX_SIZE
  <2>1. ASSUME s PROVE end[Len(u)] <= POOL_MAX_SIZE
    <3>1. Align(D) <= Align(POOL_MAX_SIZE) /\ Align(D) \in Nat
      BY <1>2, <1>13, <2>1, Constants, Aligning
    <3>2. end[Len(u)] \in Nat
      BY <1>5 DEF Memories
    <3>3. QED
      BY <3>1, <3>2, <1>13, <2>1, Constants
  <2>2. QED
    BY <2>1, <1>5
<1>15. Good(N, u, f, s)
  BY <1>10, <1>11, <1>12, <1>14 DEF Good
<1>16. Sound(N, U, s)
  BY <1>1, <1>15 DEF Sound
<1>17. ASSUME s, NEW d \in DVs, Calm(M, d) PROVE Calm(N, d)
  <2>1. CASE O[d] = NOT_AN_OFFSET
    BY <2>1, <1>5 DEF Calm
  <2>2. CASE M.Link[d] = NOT_A_DS_ID
    BY <2>2, <1>5 DEF Calm
  <2>3. CASE M.Link[d] # NOT_A_DS_ID /\ O[M.Link[d]] # NOT_AN_OFFSET
    <3> DEFINE e == M.Link[d]
    <3>1. e \in DVs
      BY <2>3, <1>2 DEF Memories, Ids
    <3>2. P[e] <= O[e] /\ O[e] <= D /\ D <= POOL_MAX_SIZE
      BY <3>1, <2>3, <1>13, <1>17
    <3>3. P[e] \in Nat /\ O[e] \in Nat
      BY <3>1, <1>2, <1>10
    <3> HIDE DEF P, e
    <3>4. P[e] # NOT_AN_OFFSET
      <4>1. O[e] # NOT_AN_OFFSET /\ POOL_MAX_SIZE <= NOT_AN_OFFSET
        BY <2>3, Constants DEF e
      <4>2. POOL_MAX_SIZE \in Nat /\ NOT_AN_OFFSET \in Nat
        BY Constants
      <4>3. QED
        BY <4>1, <4>2, <3>2, <3>3, <1>2
    <3>5. QED
      BY <3>4, <1>5 DEF Calm, P, e
  <2>4. QED
    BY <2>1, <2>2, <2>3, <1>17 DEF Calm, O
<1>18. s => MovesDown(M)
  BY <1>13 DEF MovesDown, N, O
<1>19. QED
  BY <1>5, <1>16, <1>17, <1>18 DEF N

-----------------------------------------------------------------------------
(***************************************************************************)
(* The second attempt of an instruction that found no memory.              *)
(***************************************************************************)

\* DVArrayAlloc, tried once more after a compaction.
ResizedTwice(M, d, n) ==
  LET R == DVArrayAlloc(M, d, n)
  IN  IF R.status = "ERR_MEM" THEN DVArrayAlloc(DSCompact(R.mem), d, n) ELSE R

\* An array that has no neighbour without an offset overgrows none.
LEMMA CalmNotOvergrown ==
  ASSUME NEW M, NEW d, Calm(M, d), NEW n
  PROVE  ~Overgrown(M, d, n)
BY DEF Calm, Overgrown

\* An array that could not grow over another before the compaction cannot do
\* so after it.
LEMMA RetrySound ==
  ASSUME NEW M, NEW U, NEW s \in BOOLEAN, Sound(M, U, s), NEW d \in U \ {0}, NEW n \in Nat,
         s => ~Overgrown(M, d, n)
  PROVE  LET R == ResizedTwice(M, d, n)
         IN  /\ R = [mem |-> R.mem, status |-> R.status]
             /\ R.status \in {"NO_ERR", "ERR_MEM"}
             /\ Sound(R.mem, U, s)
             /\ \A e \in DVs \ {d} : R.mem.Count[e] = M.Count[e]
             /\ R.status = "NO_ERR" => R.mem.Count[d] = n
             /\ R.status = "ERR_MEM" => R.mem.Count[d] = M.Count[d] /\ n > M.Count[d]
<1> DEFINE R == DVArrayAlloc(M, d, n)
           C == DSCompact(R.mem)
           Q == DVArrayAlloc(C, d, n)
<1>1. /\ R = [mem |-> R.mem, status |-> R.status]
      /\ R.status \in {"NO_ERR", "ERR_MEM"}
      /\ Sound(R.mem, U, s)
      /\ \A e \in DVs \ {d} : R.mem.Count[e] = M.Count[e]
      /\ R.status = "NO_ERR" => R.mem.Count[d] = n
      /\ R.status = "ERR_MEM" =>
           R.mem.Count[d] = M.Count[d] /\ n > M.Count[d] /\ (s => Calm(R.mem, d))
  BY ResizeSound
<1>2. ResizedTwice(M, d, n) = IF R.status = "ERR_MEM" THEN Q ELSE R
  BY DEF ResizedTwice
<1>3. CASE R.status # "ERR_MEM"
  <2> HIDE DEF R, Q
  <2>1. ResizedTwice(M, d, n) = R
    BY <1>2, <1>3
  <2>2. QED
    BY <2>1, <1>1, <1>3
<1>4. CASE R.status = "ERR_MEM"
  <2> DEFINE N == R.mem
  <2>1. Sound(N, U, s)
    BY <1>1
  <2>2. d \in DVs
    BY SoundFacts
  <2> HIDE DEF N
  <2>3. /\ Sound(DSCompact(N), U, s) /\ DSCompact(N).Count = N.Count
        /\ s => (Calm(N, d) => Calm(DSCompact(N), d))
    BY <2>1, <2>2, CompactSound
  <2>4. Sound(C, U, s) /\ C.Count = N.Count
    BY <2>3 DEF N
  <2>5. s => Calm(C, d)
    BY <2>3, <1>1, <1>4 DEF N
  <2> HIDE DEF C, R
  <2>6. s => ~Overgrown(C, d, n)
    BY <2>5, CalmNotOvergrown
  <2>7. /\ Q = [mem |-> Q.mem, status |-> Q.status]
        /\ Q.status \in {"NO_ERR", "ERR_MEM"}
        /\ Sound(Q.mem, U, s)
        /\ \A e \in DVs \ {d} : Q.mem.Count[e] = C.Count[e]
        /\ Q.status = "NO_ERR" => Q.mem.Count[d] = n
        /\ Q.status = "ERR_MEM" => Q.mem.Count[d] = C.Count[d]
    BY <2>4, <2>6, ResizeSound
  <2> HIDE DEF Q
  <2>8. ResizedTwice(M, d, n) = Q
    BY <1>2, <1>4
  <2>9. \A e \in DVs \ {d} : Q.mem.Count[e] = M.Count[e]
    BY <1>1, <2>4, <2>7 DEF N
  <2>10. Q.status = "ERR_MEM" => Q.mem.Count[d] = M.Count[d] /\ n > M.Count[d]
    BY <1>1, <1>4, <2>4, <2>7 DEF N
  <2>11. QED
    BY <2>7, <2>8, <2>9, <2>10
<1>5. QED
  BY <1>3, <1>4

-----------------------------------------------------------------------------
(***************************************************************************)
(* The elements of an array of arrays.                                     *)
(***************************************************************************)

\* r holds the memory M with some DVs more than U, at most i of them.
Provided(M, U, s, r, i) ==
  /\ r \in [mem : Memories, status : {"NO_ERR", "ERR_MEM"}, dvs : Seq(DVs)]
  /\ Distinct(r.dvs) /\ Len(r.dvs) <= i
  /\ Range_(r.dvs) \cap U = {}
  /\ Sound(r.mem, U \cup Range_(r.dvs), s)
  /\ \A e \in U \ {0} : r.mem.Count[e] = M.Count[e]

\* One more element gets its DV.
LEMMA ProvideOne ==
  ASSUME NEW M, NEW U \in SUBSET DVs, NEW s \in BOOLEAN, NEW i \in Nat, NEW r,
         Provided(M, U, s, r, i), r.status # "ERR_MEM"
  PROVE  Provided(M, U, s, WithElement(r.dvs, AllocDopeVector(r.mem, LeafSize)), i + 1)
<1> DEFINE R == AllocDopeVector(r.mem, LeafSize)
           V == U \cup Range_(r.dvs)
           w == WithElement(r.dvs, R)
<1>1. /\ Sound(r.mem, V, s) /\ Distinct(r.dvs) /\ LeafSize \in Nat /\ Len(r.dvs) \in Nat
      /\ Len(r.dvs) <= i /\ r.dvs \in Seq(DVs)
  BY Constants DEF Provided, Distinct
<1>2. /\ \/ /\ R.status = "ERR_MEM" /\ R.dv = NOT_A_DS_ID
            /\ Sound(R.mem, V, s)
         \/ /\ R.status = "NO_ERR" /\ R.dv \in DVs \ {0} /\ R.dv \notin V
            /\ Sound(R.mem, V \cup {R.dv}, s)
      /\ \A d \in V \ {0} : R.mem.Count[d] = r.mem.Count[d]
  <2> DEFINE N == r.mem
  <2>1. Sound(N, V, s) /\ LeafSize \in Nat
    BY <1>1
  <2> HIDE DEF V, N
  <2>2. /\ \/ /\ AllocDopeVector(N, LeafSize).status = "ERR_MEM"
               /\ AllocDopeVector(N, LeafSize).dv = NOT_A_DS_ID
               /\ Sound(AllocDopeVector(N, LeafSize).mem, V, s)
            \/ /\ AllocDopeVector(N, LeafSize).status = "NO_ERR"
               /\ AllocDopeVector(N, LeafSize).dv \in DVs \ {0}
               /\ AllocDopeVector(N, LeafSize).dv \notin V
               /\ Sound(AllocDopeVector(N, LeafSize).mem,
                        V \cup {AllocDopeVector(N, LeafSize).dv}, s)
        /\ \A d \in V \ {0} : AllocDopeVector(N, LeafSize).mem.Count[d] = N.Count[d]
    BY <2>1, AllocSound, SMTT(30)
  <2>3. QED
    BY <2>2 DEF N
<1> HIDE DEF R
<1>3. \A e \in U \ {0} : R.mem.Count[e] = M.Count[e]
  BY <1>2 DEF Provided
<1>4. R.mem \in Memories
  <2> DEFINE N == R.mem
             W == V \cup {R.dv}
  <2>1. Sound(N, V, s) \/ Sound(N, W, s)
    BY <1>2
  <2> HIDE DEF N, V, W
  <2>2. N \in Memories
    BY <2>1, SoundFacts
  <2>3. QED
    BY <2>2 DEF N
<1>5. CASE R.status = "ERR_MEM"
  <2>1. w = [mem |-> R.mem, status |-> "ERR_MEM", dvs |-> r.dvs]
    BY <1>5 DEF WithElement
  <2> HIDE DEF w
  <2>2. w.mem = R.mem /\ w.status = "ERR_MEM" /\ w.dvs = r.dvs
    BY <2>1
  <2>3. w \in [mem : Memories, status : {"NO_ERR", "ERR_MEM"}, dvs : Seq(DVs)]
    BY <2>1, <1>1, <1>4
  <2>4. Len(r.dvs) <= i + 1
    BY <1>1
  <2>5. Sound(R.mem, V, s)
    BY <1>2, <1>5
  <2>6. Provided(M, U, s, w, i + 1)
    BY <2>2, <2>3, <2>4, <2>5, <1>1, <1>3 DEF Provided
  <2>7. QED
    BY <2>6 DEF w, R
<1>6. CASE R.status # "ERR_MEM"
  <2> DEFINE a == Append(r.dvs, R.dv)
  <2>1. /\ R.status = "NO_ERR" /\ R.dv \in DVs /\ R.dv \notin V /\ Sound(R.mem, V \cup {R.dv}, s)
    BY <1>2, <1>6
  <2>2. w = [mem |-> R.mem, status |-> "NO_ERR", dvs |-> a]
    BY <1>6, <2>1 DEF WithElement
  <2>3. /\ Distinct(a) /\ Len(a) = Len(r.dvs) + 1 /\ Range_(a) = Range_(r.dvs) \cup {R.dv}
    BY <1>1, <2>1, AppendSeq
  <2>4. a \in Seq(DVs) /\ Len(a) <= i + 1
    BY <2>3, <1>1 DEF Distinct
  <2> HIDE DEF a, w
  <2>5. w.mem = R.mem /\ w.status = "NO_ERR" /\ w.dvs = a
    BY <2>2
  <2>6. w \in [mem : Memories, status : {"NO_ERR", "ERR_MEM"}, dvs : Seq(DVs)]
    BY <2>2, <2>4, <1>4
  <2>7. V \cup {R.dv} = U \cup Range_(a) /\ Range_(a) \cap U = {}
    BY <2>1, <2>3 DEF Provided
  <2>8. Provided(M, U, s, w, i + 1)
    BY <2>1, <2>3, <2>4, <2>5, <2>6, <2>7, <1>3 DEF Provided
  <2>9. QED
    BY <2>8 DEF w, R
<1>7. QED
  BY <1>5, <1>6

\* cCmdAllocSubArrayDopeVectors.
LEMMA AllocSubSound ==
  ASSUME NEW M, NEW U, NEW s \in BOOLEAN, Sound(M, U, s), NEW k \in Nat
  PROVE  Provided(M, U, s, AllocSubArrays(M, k), k)
<1> DEFINE b == [mem |-> M, status |-> "NO_ERR", dvs |-> <<>>]
           T == [i \in 0 .. k |->
                   {r \in [mem : Memories, status : {"NO_ERR", "ERR_MEM"}, dvs : Seq(DVs)] :
                      Provided(M, U, s, r, i)}]
           G == [i \in 1 .. k |->
                   [r \in T[i - 1] |->
                      IF r.status = "ERR_MEM" THEN r
                      ELSE WithElement(r.dvs, AllocDopeVector(r.mem, LeafSize))]]
           after[i \in 0 .. k] ==
             IF i = 0 THEN b
             ELSE IF after[i - 1].status = "ERR_MEM" THEN after[i - 1]
             ELSE WithElement(after[i - 1].dvs, AllocDopeVector(after[i - 1].mem, LeafSize))
<1>1. AllocSubArrays(M, k) = after[k]
  BY DEF AllocSubArrays
<1>2. M \in Memories /\ U \in SUBSET DVs
  BY SoundFacts
<1>3. \A i \in 0 .. k : \A r : r \in T[i] <=> Provided(M, U, s, r, i)
  BY DEF Provided
<1>4. Provided(M, U, s, b, 0)
  <2>1. <<>> \in Seq(DVs) /\ Len(<<>>) = 0 /\ Range_(<<>>) = {}
    BY DEF Range_
  <2>2. Distinct(<<>>)
    BY <2>1 DEF Distinct
  <2>3. b \in [mem : Memories, status : {"NO_ERR", "ERR_MEM"}, dvs : Seq(DVs)]
    BY <1>2, <2>1
  <2>4. b.mem = M /\ b.dvs = <<>>
    OBVIOUS
  <2>5. Len(b.dvs) <= 0 /\ Distinct(b.dvs) /\ Range_(b.dvs) = {}
    BY <2>1, <2>2, <2>4
  <2>6. U \cup Range_(b.dvs) = U /\ Range_(b.dvs) \cap U = {}
    BY <2>5
  <2> HIDE DEF b
  <2>7. Sound(b.mem, U \cup Range_(b.dvs), s) /\ \A e \in U \ {0} : b.mem.Count[e] = M.Count[e]
    BY <2>4, <2>6
  <2>8. QED
    BY <2>3, <2>5, <2>6, <2>7 DEF Provided
<1>5. ASSUME NEW i \in 1 .. k, NEW r \in T[i - 1] PROVE G[i][r] \in T[i]
  <2>1. i - 1 \in 0 .. k /\ i \in 0 .. k /\ i - 1 \in Nat /\ (i - 1) + 1 = i
    OBVIOUS
  <2>2. G[i][r] = IF r.status = "ERR_MEM" THEN r
                  ELSE WithElement(r.dvs, AllocDopeVector(r.mem, LeafSize))
    BY <1>5
  <2>3. Provided(M, U, s, r, i - 1)
    BY <2>1, <1>3, <1>5
  <2> HIDE DEF G, T
  <2>4. CASE r.status = "ERR_MEM"
    <3>1. Len(r.dvs) \in Nat
      BY <2>3 DEF Provided
    <3>2. Provided(M, U, s, r, i)
      BY <2>1, <2>3, <3>1 DEF Provided
    <3>3. QED
      BY <2>1, <2>2, <2>4, <3>2, <1>3
  <2>5. CASE r.status # "ERR_MEM"
    <3>1. Provided(M, U, s, WithElement(r.dvs, AllocDopeVector(r.mem, LeafSize)), (i - 1) + 1)
      BY <2>1, <2>3, <2>5, <1>2, ProvideOne
    <3>2. QED
      BY <2>1, <2>2, <2>5, <3>1, <1>3
  <2>6. QED
    BY <2>4, <2>5
<1>6. PICK f : Recursive(f, k, b, G) /\ Within(f, k, T)
  <2>1. b \in T[0]
    BY <1>3, <1>4
  <2> HIDE DEF G, T, b
  <2>2. Steps(k, T, b, G)
    BY <2>1, <1>5 DEF Steps
  <2>3. QED
    BY <2>2, Recursion
<1>7. f = [i \in 0 .. k |->
             IF i = 0 THEN b
             ELSE IF f[i - 1].status = "ERR_MEM" THEN f[i - 1]
             ELSE WithElement(f[i - 1].dvs, AllocDopeVector(f[i - 1].mem, LeafSize))]
  <2> DEFINE h == [i \in 0 .. k |->
             IF i = 0 THEN b
             ELSE IF f[i - 1].status = "ERR_MEM" THEN f[i - 1]
             ELSE WithElement(f[i - 1].dvs, AllocDopeVector(f[i - 1].mem, LeafSize))]
  <2>1. ASSUME NEW i \in 0 .. k PROVE f[i] = h[i]
    <3> HIDE DEF b, T
    <3>1. f[i] = IF i = 0 THEN b ELSE G[i][f[i - 1]]
      BY <1>6 DEF Recursive
    <3>2. i # 0 => i \in 1 .. k /\ i - 1 \in 0 .. k
      OBVIOUS
    <3>3. i # 0 => f[i - 1] \in T[i - 1]
      BY <3>2, <1>6 DEF Within
    <3>4. QED
      BY <3>1, <3>2, <3>3
  <2>2. f = [i \in 0 .. k |-> f[i]]
    BY <1>6 DEF Recursive
  <2> HIDE DEF G
  <2>3. QED
    BY <2>1, <2>2
<1> HIDE DEF b
<1>8. after = [i \in 0 .. k |->
                 IF i = 0 THEN b
                 ELSE IF after[i - 1].status = "ERR_MEM" THEN after[i - 1]
                 ELSE WithElement(after[i - 1].dvs, AllocDopeVector(after[i - 1].mem, LeafSize))]
  BY <1>7
<1> HIDE DEF after, T, G
<1>9. ASSUME NEW i \in 1 .. k, after[i - 1] \in T[i - 1] PROVE after[i] \in T[i]
  <2>1. i \in 0 .. k /\ i # 0 /\ i - 1 \in 0 .. k
    OBVIOUS
  <2>2. after[i] = IF after[i - 1].status = "ERR_MEM" THEN after[i - 1]
                   ELSE WithElement(after[i - 1].dvs, AllocDopeVector(after[i - 1].mem, LeafSize))
    BY <2>1, <1>8
  <2>3. G[i][after[i - 1]] = after[i]
    BY <2>2, <1>9 DEF G
  <2>4. QED
    BY <2>3, <1>5, <1>9
<1>10. after[0] \in T[0]
  <2>1. 0 \in 0 .. k
    OBVIOUS
  <2>2. after[0] = b
    BY <2>1, <1>8
  <2>3. QED
    BY <2>1, <2>2, <1>3, <1>4
<1>11. after[k] \in T[k]
  <2>1. \A i \in 0 .. k : after[i] \in T[i]
    BY <1>9, <1>10, RecursionInv
  <2>2. k \in 0 .. k
    OBVIOUS
  <2>3. QED
    BY <2>1, <2>2
<1>12. QED
  <2>1. k \in 0 .. k
    OBVIOUS
  <2>2. QED
    BY <2>1, <1>1, <1>3, <1>11

\* N is the memory M without the first i DVs of the sequence dvs.
Released(M, U, s, dvs, N, i) ==
  /\ N \in Memories
  /\ Sound(N, U \ {dvs[j] : j \in 1 .. i}, s)
  /\ \A e \in U \ {dvs[j] : j \in 1 .. i} : N.Count[e] = M.Count[e]

\* The n elements dvs can be freed, those that were written once each.
Releasable(U, dvs, n) ==
  /\ \A j \in 1 .. n : dvs[j] \in U \ {0} \/ dvs[j] = STALE
  /\ \A j, m \in 1 .. n : dvs[j] = dvs[m] /\ dvs[j] # STALE => j = m

\* One more element loses its DV.
LEMMA ReleaseOne ==
  ASSUME NEW M, NEW U \in SUBSET DVs, NEW s \in BOOLEAN, NEW n \in Nat, NEW dvs,
         Releasable(U, dvs, n),
         NEW i \in 1 .. n, NEW N, Released(M, U, s, dvs, N, i - 1)
  PROVE  Released(M, U, s, dvs, IF dvs[i] = STALE THEN N ELSE FreeDopeVector(N, dvs[i]), i)
<1> DEFINE x == dvs[i]
           V == U \ {dvs[j] : j \in 1 .. i - 1}
           W == U \ {dvs[j] : j \in 1 .. i}
<1>1. W = V \ {x}
  <2>1. \A j : j \in 1 .. i <=> j \in 1 .. i - 1 \/ j = i
    OBVIOUS
  <2>2. QED
    BY <2>1
<1>2. N \in Memories /\ Sound(N, V, s) /\ \A e \in V : N.Count[e] = M.Count[e]
  BY DEF Released
<1>3. STALE \notin U
  BY NotADV
<1>4. CASE x = STALE
  <2>1. W = V
    BY <1>1, <1>3, <1>4
  <2>2. QED
    BY <1>2, <1>4, <2>1 DEF Released
<1>5. CASE x # STALE
  <2>1. x \in V \ {0}
    <3>1. x \in U \ {0}
      BY <1>5 DEF Releasable
    <3>2. \A j \in 1 .. i - 1 : dvs[j] # x
      <4>1. \A j \in 1 .. i - 1 : j \in 1 .. n /\ j # i
        OBVIOUS
      <4>2. QED
        BY <4>1, <1>5 DEF Releasable
    <3>3. QED
      BY <3>1, <3>2
  <2> DEFINE F == FreeDopeVector(N, x)
  <2> HIDE DEF x, V, W
  <2>2. Sound(F, V \ {x}, s) /\ \A e \in V \ {x} : F.Count[e] = N.Count[e]
    BY <1>2, <2>1, FreeSound
  <2> HIDE DEF F
  <2>3. F \in Memories
    BY <2>2, SoundFacts
  <2>4. Sound(F, W, s) /\ \A e \in W : F.Count[e] = M.Count[e]
    BY <1>1, <1>2, <2>2
  <2>5. Released(M, U, s, dvs, F, i)
    BY <2>3, <2>4 DEF Released, W
  <2>6. QED
    BY <2>5, <1>5 DEF F, x
<1>6. QED
  BY <1>4, <1>5

\* cCmdFreeSubArrayDopeVectors.
LEMMA FreeSubSound ==
  ASSUME NEW M, NEW U, NEW s \in BOOLEAN, Sound(M, U, s), NEW dvs, NEW n \in Nat, Len(dvs) = n,
         Releasable(U, dvs, n)
  PROVE  Released(M, U, s, dvs, FreeSubArrays(M, dvs), n)
<1> DEFINE T == [i \in 0 .. n |-> {N \in Memories : Released(M, U, s, dvs, N, i)}]
           G == [i \in 1 .. n |->
                   [N \in T[i - 1] |-> IF dvs[i] = STALE THEN N ELSE FreeDopeVector(N, dvs[i])]]
           after[i \in 0 .. n] ==
             IF i = 0 THEN M
             ELSE IF dvs[i] = STALE THEN after[i - 1] ELSE FreeDopeVector(after[i - 1], dvs[i])
<1>1. FreeSubArrays(M, dvs) = after[n]
  BY DEF FreeSubArrays
<1>2. M \in Memories /\ U \in SUBSET DVs
  BY SoundFacts
<1>3. \A i \in 0 .. n : \A N : N \in T[i] <=> Released(M, U, s, dvs, N, i)
  BY DEF Released
<1>4. Released(M, U, s, dvs, M, 0)
  <2>1. {dvs[j] : j \in 1 .. 0} = {}
    OBVIOUS
  <2>2. U \ {} = U
    OBVIOUS
  <2>3. QED
    BY <1>2, <2>1, <2>2 DEF Released
<1>5. ASSUME NEW i \in 1 .. n, NEW N \in T[i - 1] PROVE G[i][N] \in T[i]
  <2>1. i - 1 \in 0 .. n /\ i \in 0 .. n
    OBVIOUS
  <2>2. G[i][N] = IF dvs[i] = STALE THEN N ELSE FreeDopeVector(N, dvs[i])
    BY <1>5
  <2>3. Released(M, U, s, dvs, N, i - 1)
    BY <2>1, <1>3, <1>5
  <2> HIDE DEF G, T
  <2>4. Released(M, U, s, dvs, IF dvs[i] = STALE THEN N ELSE FreeDopeVector(N, dvs[i]), i)
    BY <2>3, <1>2, ReleaseOne
  <2>5. QED
    BY <2>1, <2>2, <2>4, <1>3
<1>6. PICK f : Recursive(f, n, M, G) /\ Within(f, n, T)
  <2>1. M \in T[0]
    BY <1>3, <1>4
  <2> HIDE DEF G, T
  <2>2. Steps(n, T, M, G)
    BY <2>1, <1>5 DEF Steps
  <2>3. QED
    BY <2>2, Recursion
<1>7. f = [i \in 0 .. n |->
             IF i = 0 THEN M
             ELSE IF dvs[i] = STALE THEN f[i - 1] ELSE FreeDopeVector(f[i - 1], dvs[i])]
  <2> DEFINE h == [i \in 0 .. n |->
             IF i = 0 THEN M
             ELSE IF dvs[i] = STALE THEN f[i - 1] ELSE FreeDopeVector(f[i - 1], dvs[i])]
  <2>1. ASSUME NEW i \in 0 .. n PROVE f[i] = h[i]
    <3> HIDE DEF T
    <3>1. f[i] = IF i = 0 THEN M ELSE G[i][f[i - 1]]
      BY <1>6 DEF Recursive
    <3>2. i # 0 => i \in 1 .. n /\ i - 1 \in 0 .. n
      OBVIOUS
    <3>3. i # 0 => f[i - 1] \in T[i - 1]
      BY <3>2, <1>6 DEF Within
    <3>4. QED
      BY <3>1, <3>2, <3>3
  <2>2. f = [i \in 0 .. n |-> f[i]]
    BY <1>6 DEF Recursive
  <2> HIDE DEF G
  <2>3. QED
    BY <2>1, <2>2
<1>8. after = [i \in 0 .. n |->
                 IF i = 0 THEN M
                 ELSE IF dvs[i] = STALE THEN after[i - 1]
                 ELSE FreeDopeVector(after[i - 1], dvs[i])]
  BY <1>7
<1> HIDE DEF after, T, G
<1>9. ASSUME NEW i \in 1 .. n, after[i - 1] \in T[i - 1] PROVE after[i] \in T[i]
  <2>1. i \in 0 .. n /\ i # 0 /\ i - 1 \in 0 .. n
    OBVIOUS
  <2>2. after[i] = IF dvs[i] = STALE THEN after[i - 1] ELSE FreeDopeVector(after[i - 1], dvs[i])
    BY <2>1, <1>8
  <2>3. G[i][after[i - 1]] = after[i]
    BY <2>2, <1>9 DEF G
  <2>4. QED
    BY <2>3, <1>5, <1>9
<1>10. after[0] \in T[0]
  <2>1. 0 \in 0 .. n
    OBVIOUS
  <2>2. after[0] = M
    BY <2>1, <1>8
  <2>3. QED
    BY <2>1, <2>2, <1>3, <1>4
<1>11. after[n] \in T[n]
  <2>1. \A i \in 0 .. n : after[i] \in T[i]
    BY <1>9, <1>10, RecursionInv
  <2>2. n \in 0 .. n
    OBVIOUS
  <2>3. QED
    BY <2>1, <2>2
<1>12. QED
  <2>1. n \in 0 .. n
    OBVIOUS
  <2>2. QED
    BY <2>1, <1>1, <1>3, <1>11

-----------------------------------------------------------------------------
(***************************************************************************)
(* Whose the DVs in use are.                                               *)
(***************************************************************************)

\* The DVs of the elements of all arrays of arrays.
ElemDVs(El) == {x \in DVs : \E d \in Nested : \E i \in 1 .. Len(El[d]) : El[d][i] = x}

\* The DVs in U are those of P and those of the elements El, each once.
Holds(U, El, P) ==
  /\ El \in [Nested -> Seq(DVs \cup {STALE})]
  /\ P \subseteq DVs
  /\ U = P \cup ElemDVs(El) /\ P \cap ElemDVs(El) = {}
  /\ \A d, e \in Nested : \A i \in 1 .. Len(El[d]), j \in 1 .. Len(El[e]) :
       El[d][i] = El[e][j] /\ El[d][i] # STALE => d = e /\ i = j

\* Every array of arrays has as many elements as its DV says.
Counted(M, El) == \A d \in Nested : Len(El[d]) = M.Count[d] /\ M.Count[d] <= MaxCount

\* Elements are DVs that are in ElemDVs, or were never written.
LEMMA ElemFacts ==
  ASSUME NEW El \in [Nested -> Seq(DVs \cup {STALE})], NEW d \in Nested
  PROVE  /\ El[d] \in Seq(DVs \cup {STALE}) /\ Len(El[d]) \in Nat
         /\ \A i \in 1 .. Len(El[d]) : /\ El[d][i] \in DVs \cup {STALE}
                                       /\ El[d][i] # STALE => El[d][i] \in ElemDVs(El)
<1>1. El[d] \in Seq(DVs \cup {STALE})
  OBVIOUS
<1>2. Len(El[d]) \in Nat /\ \A i \in 1 .. Len(El[d]) : El[d][i] \in DVs \cup {STALE}
  BY <1>1
<1>3. \A i \in 1 .. Len(El[d]) : El[d][i] \in DVs => El[d][i] \in ElemDVs(El)
  BY DEF ElemDVs
<1>4. QED
  BY <1>1, <1>2, <1>3

\* Membership in ElemDVs.
LEMMA ElemOf ==
  ASSUME NEW El, NEW x
  PROVE  x \in ElemDVs(El) <=>
           x \in DVs /\ \E d \in Nested : \E i \in 1 .. Len(El[d]) : El[d][i] = x
BY DEF ElemDVs

\* Two sets that share nothing.
Apart(X, Y) == X \cap Y = {}

\* E1 differs from El in the elements of d only, of which it has n.
Relength(E1, El, d, n) == (\A e \in Nested \ {d} : E1[e] = El[e]) /\ Len(E1[d]) = n

\* The first i members of dvs.
Among(dvs, i) == {dvs[j] : j \in 1 .. i}

\* El with the array d made shorter, and the elements that go.
Shorter(El, d, n) == [El EXCEPT ![d] = SubSeq(@, 1, n)]
\* The elements that a shorter array loses.
Gone(El, d, n) == SubSeq(El[d], n + 1, Len(El[d]))

\* Without the elements that go, every DV still has one owner, and the DVs that go can be freed.
LEMMA HoldsShorter ==
  ASSUME NEW U, NEW El, NEW P, Holds(U, El, P), 0 \in P, NEW d \in Nested, NEW n \in 0 .. Len(El[d])
  PROVE  LET gone == Gone(El, d, n)
             k == Len(El[d]) - n
         IN  /\ Len(gone) = k /\ k \in Nat
             /\ Apart(P, Among(gone, k)) /\ Releasable(U, gone, k)
             /\ Holds(U \ Among(gone, k), Shorter(El, d, n), P)
             /\ Relength(Shorter(El, d, n), El, d, n)
<1> DEFINE gone == Gone(El, d, n)
           k == Len(El[d]) - n
           kept == SubSeq(El[d], 1, n)
           E1 == Shorter(El, d, n)
           G == Among(gone, k)
<1>1. /\ El \in [Nested -> Seq(DVs \cup {STALE})] /\ P \subseteq DVs
      /\ U = P \cup ElemDVs(El) /\ P \cap ElemDVs(El) = {}
  BY DEF Holds
<1>2. /\ El[d] \in Seq(DVs \cup {STALE}) /\ Len(El[d]) \in Nat
      /\ \A i \in 1 .. Len(El[d]) : /\ El[d][i] \in DVs \cup {STALE}
                                    /\ El[d][i] # STALE => El[d][i] \in ElemDVs(El)
  BY <1>1, ElemFacts
<1>3. kept \in Seq(DVs \cup {STALE}) /\ Len(kept) = n /\ \A i \in 1 .. n : kept[i] = El[d][i]
  BY <1>2
<1>4. k \in Nat /\ Len(gone) = k /\ \A j \in 1 .. k : gone[j] = El[d][n + j]
  BY <1>2 DEF Gone
<1>5. /\ E1 \in [Nested -> Seq(DVs \cup {STALE})] /\ E1[d] = kept
      /\ \A e \in Nested \ {d} : E1[e] = El[e]
  BY <1>1, <1>3 DEF Shorter
<1>6. \A j \in 1 .. k : n + j \in 1 .. Len(El[d]) /\ n + j > n
  BY <1>2
<1> HIDE DEF gone, kept, E1, k
<1>7. \A j \in 1 .. k : gone[j] \in ElemDVs(El) \/ gone[j] = STALE
  BY <1>2, <1>4, <1>6
<1>8. P \cap G = {}
  BY <1>1, <1>7, NotADV DEF Among
<1>9. Releasable(U, gone, k)
  <2>1. ASSUME NEW j \in 1 .. k PROVE gone[j] \in U \ {0} \/ gone[j] = STALE
    BY <2>1, <1>1, <1>7
  <2>2. ASSUME NEW j \in 1 .. k, NEW m \in 1 .. k, gone[j] = gone[m], gone[j] # STALE PROVE j = m
    <3>1. /\ n + j \in 1 .. Len(El[d]) /\ n + m \in 1 .. Len(El[d])
          /\ El[d][n + j] = El[d][n + m] /\ El[d][n + j] # STALE
      BY <2>2, <1>4, <1>6
    <3>2. n + j = n + m
      BY <3>1 DEF Holds
    <3>3. QED
      BY <3>2
  <2>3. QED
    BY <2>1, <2>2 DEF Releasable
<1>10. ASSUME NEW e \in Nested
       PROVE  /\ Len(E1[e]) <= Len(El[e]) /\ Len(E1[e]) \in Nat /\ Len(El[e]) \in Nat
              /\ \A i \in 1 .. Len(E1[e]) : i \in 1 .. Len(El[e]) /\ E1[e][i] = El[e][i]
  <2>1. Len(El[e]) \in Nat
    BY <1>1, ElemFacts
  <2>2. CASE e = d
    BY <2>1, <2>2, <1>3, <1>5
  <2>3. CASE e # d
    BY <2>1, <2>3, <1>5
  <2>4. QED
    BY <2>2, <2>3
<1>11. ElemDVs(E1) = ElemDVs(El) \ G
  <2>1. ASSUME NEW x \in ElemDVs(E1) PROVE x \in ElemDVs(El) \ G
    <3>0. PICK e \in Nested : x \in DVs /\ \E i \in 1 .. Len(E1[e]) : E1[e][i] = x
      BY ElemOf
    <3>1. PICK i \in 1 .. Len(E1[e]) : x \in DVs /\ E1[e][i] = x
      BY <3>0
    <3>2. i \in 1 .. Len(El[e]) /\ El[e][i] = x
      BY <3>1, <1>10
    <3>3. x \in ElemDVs(El)
      BY <3>1, <3>2, ElemOf
    <3>4. ASSUME NEW j \in 1 .. k, gone[j] = x PROVE FALSE
      <4>1. El[d][n + j] = El[e][i] /\ El[e][i] # STALE
        BY <3>1, <3>2, <3>4, <1>4, NotADV
      <4>2. e = d /\ i = n + j
        BY <4>1, <3>2, <1>6 DEF Holds
      <4>3. i \in 1 .. n
        BY <4>2, <1>3, <1>5
      <4>4. QED
        BY <4>2, <4>3, <1>6
    <3>5. QED
      BY <3>3, <3>4 DEF Among
  <2>2. ASSUME NEW x \in ElemDVs(El) \ G PROVE x \in ElemDVs(E1)
    <3>0. PICK e \in Nested : x \in DVs /\ \E i \in 1 .. Len(El[e]) : El[e][i] = x
      BY ElemOf
    <3>1. PICK i \in 1 .. Len(El[e]) : x \in DVs /\ El[e][i] = x
      BY <3>0
    <3>2. CASE e = d /\ i > n
      <4>1. i - n \in 1 .. k /\ n + (i - n) = i
        BY <3>2, <1>2 DEF k
      <4>2. gone[i - n] = x
        BY <4>1, <3>1, <3>2, <1>4
      <4>3. QED
        BY <4>1, <4>2 DEF Among
    <3>3. CASE ~(e = d /\ i > n)
      <4>1. i \in 1 .. Len(E1[e])
        <5>1. CASE e = d
          BY <5>1, <3>3, <1>2, <1>3, <1>5
        <5>2. CASE e # d
          BY <5>2, <1>5
        <5>3. QED
          BY <5>1, <5>2
      <4>2. E1[e][i] = x
        BY <4>1, <3>1, <1>10
      <4>3. QED
        BY <3>1, <4>1, <4>2, ElemOf
    <3>4. QED
      BY <3>2, <3>3
  <2>3. QED
    BY <2>1, <2>2
<1> HIDE DEF G
<1>12. U \ G = P \cup ElemDVs(E1) /\ P \cap ElemDVs(E1) = {}
  BY <1>1, <1>8, <1>11
<1>13. \A b, e \in Nested : \A i \in 1 .. Len(E1[b]), j \in 1 .. Len(E1[e]) :
         E1[b][i] = E1[e][j] /\ E1[b][i] # STALE => b = e /\ i = j
  <2>1. ASSUME NEW b \in Nested, NEW e \in Nested, NEW i \in 1 .. Len(E1[b]), NEW j \in 1 .. Len(E1[e]),
               E1[b][i] = E1[e][j], E1[b][i] # STALE
        PROVE  b = e /\ i = j
    <3>1. /\ i \in 1 .. Len(El[b]) /\ j \in 1 .. Len(El[e])
          /\ El[b][i] = El[e][j] /\ El[b][i] # STALE
      BY <2>1, <1>10
    <3>2. QED
      BY <3>1 DEF Holds
  <2>2. QED
    BY <2>1
<1>14. Holds(U \ G, E1, P)
  BY <1>1, <1>5, <1>12, <1>13 DEF Holds
<1>15. QED
  BY <1>3, <1>4, <1>5, <1>8, <1>9, <1>14 DEF gone, k, kept, E1, G, Apart, Relength

\* El with the array d made longer by the DVs `fresh' and m elements that were
\* never written.
Longer(El, d, fresh, m) == [El EXCEPT ![d] = @ \o fresh \o [i \in 1 .. m |-> STALE]]

\* The members of a concatenation.
LEMMA ConcatSeq ==
  ASSUME NEW S, NEW a \in Seq(S), NEW b \in Seq(S)
  PROVE  /\ a \o b \in Seq(S) /\ Len(a \o b) = Len(a) + Len(b)
         /\ \A i \in 1 .. Len(a) : (a \o b)[i] = a[i]
         /\ \A i \in 1 .. Len(b) : (a \o b)[Len(a) + i] = b[i]
OBVIOUS

\* The elements of an array made longer.
LEMMA LongerFields ==
  ASSUME NEW El \in [Nested -> Seq(DVs \cup {STALE})], NEW d \in Nested,
         NEW fresh \in Seq(DVs), NEW m \in Nat
  PROVE  LET E1 == Longer(El, d, fresh, m)
             n == Len(El[d])
             k == Len(fresh)
         IN  /\ E1 \in [Nested -> Seq(DVs \cup {STALE})]
             /\ \A e \in Nested \ {d} : E1[e] = El[e]
             /\ n \in Nat /\ k \in Nat /\ Len(E1[d]) = (n + k) + m
             /\ \A i \in 1 .. n : E1[d][i] = El[d][i]
             /\ \A i \in 1 .. k : E1[d][n + i] = fresh[i]
             /\ \A i \in 1 .. m : E1[d][(n + k) + i] = STALE
<1> DEFINE n == Len(El[d])
           k == Len(fresh)
           S == DVs \cup {STALE}
           t == [i \in 1 .. m |-> STALE]
           a == El[d] \o fresh
           b == a \o t
           E1 == Longer(El, d, fresh, m)
<1>1. El[d] \in Seq(S) /\ fresh \in Seq(S) /\ n \in Nat /\ k \in Nat
  OBVIOUS
<1>2. t \in Seq(S) /\ Len(t) = m /\ \A i \in 1 .. m : t[i] = STALE
  OBVIOUS
<1>3. /\ a \in Seq(S) /\ Len(a) = n + k
      /\ \A i \in 1 .. n : a[i] = El[d][i]
      /\ \A i \in 1 .. k : a[n + i] = fresh[i]
  BY <1>1
<1> HIDE DEF S, t, a, n, k
<1>4. /\ b \in Seq(S) /\ Len(b) = (n + k) + m
      /\ \A i \in 1 .. n + k : b[i] = a[i]
      /\ \A i \in 1 .. m : b[(n + k) + i] = t[i]
  <2>1. a \in Seq(S) /\ t \in Seq(S)
    BY <1>2, <1>3
  <2>2. /\ b \in Seq(S) /\ Len(b) = Len(a) + Len(t)
        /\ \A i \in 1 .. Len(a) : b[i] = a[i]
        /\ \A i \in 1 .. Len(t) : b[Len(a) + i] = t[i]
    BY <2>1, ConcatSeq
  <2> HIDE DEF b
  <2>3. QED
    BY <2>2, <1>2, <1>3
<1>5. E1 = [El EXCEPT ![d] = b]
  BY DEF Longer, a, t
<1> HIDE DEF b, E1
<1>6. /\ E1 \in [Nested -> Seq(S)] /\ E1[d] = b
      /\ \A e \in Nested \ {d} : E1[e] = El[e]
  BY <1>4, <1>5 DEF S
<1>7. \A i \in 1 .. n : i \in 1 .. n + k
  BY <1>1
<1>8. \A i \in 1 .. k : n + i \in 1 .. n + k
  BY <1>1
<1>9. /\ \A i \in 1 .. n : E1[d][i] = El[d][i]
      /\ \A i \in 1 .. k : E1[d][n + i] = fresh[i]
      /\ \A i \in 1 .. m : E1[d][(n + k) + i] = STALE
  BY <1>2, <1>3, <1>4, <1>6, <1>7, <1>8
<1>10. QED
  BY <1>1, <1>4, <1>6, <1>9 DEF E1, n, k, S

\* With DVs for new elements, every DV still has one owner.
LEMMA HoldsLonger ==
  ASSUME NEW U, NEW El, NEW P, Holds(U, El, P), NEW d \in Nested,
         NEW fresh, Distinct(fresh), Apart(Range_(fresh), U), NEW m \in Nat
  PROVE  /\ Holds(U \cup Range_(fresh), Longer(El, d, fresh, m), P)
         /\ Relength(Longer(El, d, fresh, m), El, d, (Len(El[d]) + Len(fresh)) + m)
<1> DEFINE n == Len(El[d])
           k == Len(fresh)
           E1 == Longer(El, d, fresh, m)
           R == Range_(fresh)
<1>1. /\ El \in [Nested -> Seq(DVs \cup {STALE})] /\ P \subseteq DVs
      /\ U = P \cup ElemDVs(El) /\ P \cap ElemDVs(El) = {}
  BY DEF Holds
<1>2. /\ fresh \in Seq(DVs) /\ R \subseteq DVs
      /\ \A i \in 1 .. k : fresh[i] \in DVs /\ fresh[i] \in R
      /\ \A x \in R : \E i \in 1 .. k : fresh[i] = x
      /\ \A i, j \in 1 .. k : fresh[i] = fresh[j] => i = j
  BY Ranges DEF Distinct
<1>3. /\ E1 \in [Nested -> Seq(DVs \cup {STALE})]
      /\ \A e \in Nested \ {d} : E1[e] = El[e]
      /\ n \in Nat /\ k \in Nat /\ Len(E1[d]) = (n + k) + m
      /\ \A i \in 1 .. n : E1[d][i] = El[d][i]
      /\ \A i \in 1 .. k : E1[d][n + i] = fresh[i]
      /\ \A i \in 1 .. m : E1[d][(n + k) + i] = STALE
  <2>1. El \in [Nested -> Seq(DVs \cup {STALE})] /\ fresh \in Seq(DVs) /\ d \in Nested /\ m \in Nat
    BY <1>1, <1>2
  <2>2. QED
    BY ONLY <2>1, LongerFields, ZenonT(40)
<1> HIDE DEF E1, R, k, n
\* An element is an old one, a fresh one or was never written.
<1>4. ASSUME NEW e \in Nested, NEW i \in 1 .. Len(E1[e])
      PROVE  \/ i \in 1 .. Len(El[e]) /\ E1[e][i] = El[e][i]
             \/ e = d /\ i - n \in 1 .. k /\ E1[e][i] = fresh[i - n]
             \/ E1[e][i] = STALE
  <2>1. CASE e # d
    BY <2>1, <1>3
  <2>2. CASE e = d
    <3>1. i \in 1 .. (n + k) + m
      BY <2>2, <1>3
    <3>2. CASE i <= n
      BY <2>2, <3>1, <3>2, <1>3 DEF n
    <3>3. CASE n < i /\ i <= n + k
      <4>1. i - n \in 1 .. k /\ n + (i - n) = i
        BY <3>1, <3>3, <1>3
      <4>2. QED
        BY <4>1, <2>2, <1>3
    <3>4. CASE n + k < i
      <4>1. i - (n + k) \in 1 .. m /\ (n + k) + (i - (n + k)) = i
        BY <3>1, <3>4, <1>3
      <4>2. QED
        BY <4>1, <2>2, <1>3
    <3>5. QED
      BY <3>1, <3>2, <3>3, <3>4, <1>3
  <2>3. QED
    BY <2>1, <2>2
<1>5. ElemDVs(E1) = ElemDVs(El) \cup R
  <2>1. ASSUME NEW x \in ElemDVs(E1) PROVE x \in ElemDVs(El) \cup R
    <3>1. PICK e \in Nested : x \in DVs /\ \E i \in 1 .. Len(E1[e]) : E1[e][i] = x
      BY ElemOf
    <3>2. PICK i \in 1 .. Len(E1[e]) : E1[e][i] = x
      BY <3>1
    <3>3. x # STALE
      BY <3>1, NotADV
    <3>4. CASE i \in 1 .. Len(El[e]) /\ E1[e][i] = El[e][i]
      BY <3>1, <3>2, <3>4, ElemOf
    <3>5. CASE i - n \in 1 .. k /\ E1[e][i] = fresh[i - n]
      BY <3>2, <3>5, <1>2
    <3>6. QED
      BY <3>2, <3>3, <3>4, <3>5, <1>4
  <2>2. ASSUME NEW x \in ElemDVs(El) PROVE x \in ElemDVs(E1)
    <3>1. PICK e \in Nested : x \in DVs /\ \E i \in 1 .. Len(El[e]) : El[e][i] = x
      BY ElemOf
    <3>2. PICK i \in 1 .. Len(El[e]) : El[e][i] = x
      BY <3>1
    <3>3. i \in 1 .. Len(E1[e]) /\ E1[e][i] = x
      <4>1. CASE e # d
        BY <4>1, <3>2, <1>3
      <4>2. CASE e = d
        <5>1. i \in 1 .. n /\ i \in 1 .. (n + k) + m
          BY <4>2, <1>3 DEF n
        <5>2. QED
          BY <4>2, <5>1, <3>2, <1>3
      <4>3. QED
        BY <4>1, <4>2
    <3>4. QED
      BY <3>1, <3>3, ElemOf
  <2>3. ASSUME NEW x \in R PROVE x \in ElemDVs(E1)
    <3>1. PICK i \in 1 .. k : fresh[i] = x
      BY <1>2
    <3>2. n + i \in 1 .. Len(E1[d]) /\ E1[d][n + i] = x
      BY <3>1, <1>3
    <3>3. QED
      BY <3>2, <1>2, ElemOf
  <2>4. QED
    BY <2>1, <2>2, <2>3
<1>6. ASSUME NEW b \in Nested, NEW e \in Nested, NEW i \in 1 .. Len(E1[b]), NEW j \in 1 .. Len(E1[e]),
             E1[b][i] = E1[e][j], E1[b][i] # STALE
      PROVE  b = e /\ i = j
  <2>1. \A c \in Nested : \A l \in 1 .. Len(El[c]) : El[c][l] # STALE => El[c][l] \notin R
    <3>1. \A c \in Nested : \A l \in 1 .. Len(El[c]) : El[c][l] # STALE => El[c][l] \in ElemDVs(El)
      BY <1>1, ElemFacts
    <3>2. QED
      BY <3>1, <1>1 DEF R, Apart
  <2>2. CASE /\ i \in 1 .. Len(El[b]) /\ E1[b][i] = El[b][i]
             /\ j \in 1 .. Len(El[e]) /\ E1[e][j] = El[e][j]
    <3>1. El[b][i] = El[e][j] /\ El[b][i] # STALE
      BY <2>2, <1>6
    <3>2. QED
      BY <2>2, <3>1 DEF Holds
  <2>3. CASE /\ b = d /\ i - n \in 1 .. k /\ E1[b][i] = fresh[i - n]
             /\ e = d /\ j - n \in 1 .. k /\ E1[e][j] = fresh[j - n]
    <3>1. i - n = j - n
      BY <2>3, <1>2, <1>6
    <3>2. i \in Int /\ j \in Int
      OBVIOUS
    <3>3. QED
      BY <3>1, <3>2, <2>3, <1>3
  <2>4. CASE /\ i \in 1 .. Len(El[b]) /\ E1[b][i] = El[b][i]
             /\ j - n \in 1 .. k /\ E1[e][j] = fresh[j - n]
    BY <2>1, <2>4, <1>2, <1>6
  <2>5. CASE /\ j \in 1 .. Len(El[e]) /\ E1[e][j] = El[e][j]
             /\ i - n \in 1 .. k /\ E1[b][i] = fresh[i - n]
    BY <2>1, <2>5, <1>2, <1>6
  <2>6. QED
    <3>1. /\ \/ i \in 1 .. Len(El[b]) /\ E1[b][i] = El[b][i]
             \/ b = d /\ i - n \in 1 .. k /\ E1[b][i] = fresh[i - n]
          /\ \/ j \in 1 .. Len(El[e]) /\ E1[e][j] = El[e][j]
             \/ e = d /\ j - n \in 1 .. k /\ E1[e][j] = fresh[j - n]
      BY <1>4, <1>6
    <3>2. QED
      BY <3>1, <2>2, <2>3, <2>4, <2>5
<1>7. /\ U \cup R = P \cup ElemDVs(E1) /\ P \cap ElemDVs(E1) = {}
  <2>1. R \cap U = {}
    BY DEF R, Apart
  <2>2. QED
    BY <2>1, <1>1, <1>5
<1>8. Holds(U \cup R, E1, P)
  BY <1>1, <1>3, <1>6, <1>7 DEF Holds
<1>9. QED
  BY <1>3, <1>8 DEF E1, R, n, k, Relength

-----------------------------------------------------------------------------
(***************************************************************************)
(* Array instructions.                                                     *)
(***************************************************************************)

\* DSArrayAlloc of a memory and elements.
ArrayAlloc(M, El, d, n) == DSArrayAlloc([mem |-> M, elements |-> El], d, n)

\* The memory M is sound and its DVs are those of P and of El.
Kept(M, El, P, s) == \E U : Sound(M, U, s) /\ Holds(U, El, P) /\ Counted(M, El)

\* cCmdDSArrayAlloc.
LEMMA ArraySound ==
  ASSUME NEW M, NEW El, NEW P, NEW s \in BOOLEAN, Kept(M, El, P, s),
         0 \in P, Nested \subseteq P \ {0}, NEW d \in P \ {0}, NEW n \in 0 .. MaxCount,
         s => ~Overgrown(M, d, n)
  PROVE  LET R == ArrayAlloc(M, El, d, n)
         IN  /\ Kept(R.mem, R.elements, P, s)
             /\ R.status \in {"NO_ERR", "ERR_MEM"}
             /\ R.status = "ERR_MEM" => (s => Calm(R.mem, d)) \/ R.mem.Count[d] = n
<1> DEFINE A == DVArrayAlloc(M, d, n)
           old == M.Count[d]
           R == ArrayAlloc(M, El, d, n)
<1>1. PICK U : Sound(M, U, s) /\ Holds(U, El, P) /\ Counted(M, El)
  BY DEF Kept
<1>2. d \in U \ {0} /\ U \subseteq DVs /\ n \in Nat /\ MaxCount \in Nat
  <2>1. U \subseteq DVs
    BY <1>1, SoundFacts
  <2>2. P \subseteq U
    BY <1>1 DEF Holds
  <2>3. MaxCount \in Nat
    BY Constants
  <2>4. QED
    BY <2>1, <2>2, <2>3
<1>3. /\ A.status \in {"NO_ERR", "ERR_MEM"}
      /\ Sound(A.mem, U, s)
      /\ \A e \in DVs \ {d} : A.mem.Count[e] = M.Count[e]
      /\ A.status = "NO_ERR" => A.mem.Count[d] = n
      /\ A.status = "ERR_MEM" => A.mem.Count[d] = M.Count[d] /\ (s => Calm(A.mem, d))
  BY <1>1, <1>2, ResizeSound
<1>4. R = ResizeElements([mem |-> M, elements |-> El], d, old, n, A)
  BY DEF ArrayAlloc, DSArrayAlloc
<1>5. El \in [Nested -> Seq(DVs \cup {STALE})] /\ P \subseteq U /\ P \subseteq DVs
  BY <1>1 DEF Holds
<1>6. M \in Memories /\ A.mem \in Memories
  <2> DEFINE N == A.mem
  <2>1. Sound(N, U, s)
    BY <1>3
  <2> HIDE DEF N
  <2>2. N \in Memories
    BY <2>1, SoundFacts
  <2>3. QED
    BY <2>2, <1>1, SoundFacts DEF N
<1>7. old \in Nat
  BY <1>2, <1>6 DEF Memories
<1> HIDE DEF A
<1>8. CASE old = n \/ A.status = "ERR_MEM" \/ d \notin Nested
  <2>1. R = [mem |-> A.mem, status |-> A.status, elements |-> El]
    BY <1>4, <1>8 DEF ResizeElements
  <2> HIDE DEF R
  <2>2. R.mem = A.mem /\ R.status = A.status /\ R.elements = El
    BY <2>1
  <2>3. \A e \in Nested : A.mem.Count[e] = M.Count[e]
    <3>1. ASSUME NEW e \in Nested PROVE A.mem.Count[e] = M.Count[e]
      <4>1. CASE e # d
        BY <4>1, <1>3, <1>5
      <4>2. CASE e = d
        BY <4>2, <1>3, <1>8
      <4>3. QED
        BY <4>1, <4>2
    <3>2. QED
      BY <3>1
  <2>4. Counted(A.mem, El)
    BY <1>1, <2>3 DEF Counted
  <2>5. Kept(R.mem, R.elements, P, s)
    BY <1>1, <1>3, <2>2, <2>4 DEF Kept
  <2>6. QED
    BY <1>3, <2>2, <2>5 DEF R
<1>9. CASE n < old /\ A.status # "ERR_MEM" /\ d \in Nested
  <2> DEFINE gone == Gone(El, d, n)
             k == old - n
             G == Among(gone, k)
             E1 == Shorter(El, d, n)
             N == FreeSubArrays(A.mem, gone)
  <2>1. Len(El[d]) = old /\ n \in 0 .. Len(El[d])
    BY <1>1, <1>2, <1>7, <1>9 DEF Counted
  <2>2. R = [mem |-> N, status |-> "NO_ERR", elements |-> E1]
    BY <1>2, <1>4, <1>7, <1>9, <2>1 DEF ResizeElements, Gone, Shorter
  <2>3. /\ Len(gone) = k /\ k \in Nat /\ Apart(P, G) /\ Releasable(U, gone, k)
        /\ Holds(U \ G, E1, P) /\ Len(E1[d]) = n
        /\ \A e \in Nested \ {d} : E1[e] = El[e]
    <3>1. Holds(U, El, P) /\ 0 \in P /\ d \in Nested /\ n \in 0 .. Len(El[d])
      BY <1>1, <1>9, <2>1
    <3>2. /\ Len(Gone(El, d, n)) = Len(El[d]) - n /\ Len(El[d]) - n \in Nat
          /\ Apart(P, Among(Gone(El, d, n), Len(El[d]) - n))
          /\ Releasable(U, Gone(El, d, n), Len(El[d]) - n)
          /\ Holds(U \ Among(Gone(El, d, n), Len(El[d]) - n), Shorter(El, d, n), P)
          /\ Relength(Shorter(El, d, n), El, d, n)
      BY <3>1, HoldsShorter, ZenonT(40)
    <3> HIDE DEF old
    <3>3. QED
      BY <3>2, <2>1 DEF Relength
  <2> HIDE DEF gone, k, R, N, E1
  <2>4. Released(A.mem, U, s, gone, N, k)
    <3> DEFINE B == A.mem
    <3>1. Sound(B, U, s)
      BY <1>3
    <3> HIDE DEF B
    <3>2. Released(B, U, s, gone, FreeSubArrays(B, gone), k)
      BY <3>1, <2>3, FreeSubSound
    <3>3. QED
      BY <3>2 DEF N, B
  <2>5. Sound(N, U \ G, s) /\ \A e \in U \ G : N.Count[e] = A.mem.Count[e]
    BY <2>4 DEF Released, Among
  <2> HIDE DEF G
  <2>6. ASSUME NEW e \in Nested PROVE Len(E1[e]) = N.Count[e] /\ N.Count[e] <= MaxCount
    <3>1. e \in U \ G /\ e \in DVs
      BY <1>5, <2>3 DEF Apart
    <3>2. N.Count[e] = A.mem.Count[e]
      BY <3>1, <2>5
    <3>3. CASE e = d
      BY <3>2, <3>3, <1>3, <1>9, <2>3
    <3>4. CASE e # d
      <4>1. N.Count[e] = M.Count[e]
        BY <3>1, <3>2, <3>4, <1>3
      <4>2. E1[e] = El[e]
        BY <3>4, <2>3
      <4>3. QED
        BY <4>1, <4>2, <1>1 DEF Counted
    <3>5. QED
      BY <3>3, <3>4
  <2>7. R.mem = N /\ R.status = "NO_ERR" /\ R.elements = E1
    BY <2>2
  <2>8. Kept(N, E1, P, s)
    BY <2>3, <2>5, <2>6 DEF Kept, Counted
  <2>9. QED
    BY <2>7, <2>8 DEF R
<1>10. CASE old < n /\ A.status # "ERR_MEM" /\ d \in Nested
  <2> DEFINE k == n - old
             r == AllocSubArrays(A.mem, k)
             m == k - Len(r.dvs)
             E1 == Longer(El, d, r.dvs, m)
             V == U \cup Range_(r.dvs)
  <2>1. R = [mem |-> r.mem, status |-> r.status, elements |-> E1]
    BY <1>2, <1>4, <1>7, <1>10, SMTT(30) DEF ResizeElements, Lengthened, Longer
  <2>2. k \in Nat /\ Len(El[d]) = old
    BY <1>1, <1>2, <1>7, <1>10 DEF Counted
  <2> HIDE DEF R, k
  <2>3. Provided(A.mem, U, s, r, k)
    <3> DEFINE B == A.mem
    <3>1. Sound(B, U, s)
      BY <1>3
    <3> HIDE DEF B, r
    <3>2. Provided(B, U, s, AllocSubArrays(B, k), k)
      BY <3>1, <2>2, AllocSubSound
    <3>3. QED
      BY <3>2 DEF B, r
  <2> HIDE DEF r
  <2>4. /\ r.mem \in Memories /\ r.status \in {"NO_ERR", "ERR_MEM"}
        /\ Distinct(r.dvs) /\ Len(r.dvs) <= k /\ Range_(r.dvs) \cap U = {}
        /\ Sound(r.mem, V, s)
        /\ \A e \in U \ {0} : r.mem.Count[e] = A.mem.Count[e]
    BY <2>3 DEF Provided
  <2>5. Len(r.dvs) \in Nat
    BY <2>4 DEF Distinct
  <2>6. m \in Nat
    BY <2>2, <2>4, <2>5
  <2> HIDE DEF E1, V, m
  <2>7. /\ Holds(V, E1, P) /\ \A e \in Nested \ {d} : E1[e] = El[e]
        /\ Len(E1[d]) = (Len(El[d]) + Len(r.dvs)) + m
    <3> DEFINE fresh == r.dvs
    <3>1. /\ Holds(U, El, P) /\ d \in Nested /\ m \in Nat
          /\ Distinct(fresh) /\ Apart(Range_(fresh), U)
      BY <1>1, <1>10, <2>4, <2>6 DEF Apart
    <3> HIDE DEF fresh
    <3>2. /\ Holds(U \cup Range_(fresh), Longer(El, d, fresh, m), P)
          /\ Relength(Longer(El, d, fresh, m), El, d, (Len(El[d]) + Len(fresh)) + m)
      BY <3>1, HoldsLonger
    <3>3. QED
      BY <3>2 DEF fresh, E1, V, Relength
  <2>8. Len(E1[d]) = n
    BY <2>2, <2>4, <2>5, <2>7, <1>2, <1>7 DEF m, k
  <2>9. ASSUME NEW e \in Nested PROVE Len(E1[e]) = r.mem.Count[e] /\ r.mem.Count[e] <= MaxCount
    <3>1. e \in U \ {0} /\ e \in DVs
      BY <1>5
    <3>2. r.mem.Count[e] = A.mem.Count[e]
      BY <3>1, <2>4
    <3>3. CASE e = d
      BY <3>2, <3>3, <1>3, <1>10, <2>8
    <3>4. CASE e # d
      <4>1. r.mem.Count[e] = M.Count[e]
        BY <3>1, <3>2, <3>4, <1>3
      <4>2. E1[e] = El[e]
        BY <3>4, <2>7
      <4>3. QED
        BY <4>1, <4>2, <1>1 DEF Counted
    <3>5. QED
      BY <3>3, <3>4
  <2>10. R.mem = r.mem /\ R.status = r.status /\ R.elements = E1
    BY <2>1
  <2>11. Kept(r.mem, E1, P, s)
    BY <2>4, <2>7, <2>9 DEF Kept, Counted
  <2>12. r.mem.Count[d] = n
    BY <2>4, <1>2, <1>3, <1>10
  <2>13. QED
    BY <2>4, <2>10, <2>11, <2>12 DEF R
<1>11. QED
  BY <1>2, <1>3, <1>7, <1>8, <1>9, <1>10

\* Compaction keeps the DVs with their owners.
LEMMA KeptCompacted ==
  ASSUME NEW M, NEW El, NEW P, NEW s \in BOOLEAN, Kept(M, El, P, s)
  PROVE  Kept(DSCompact(M), El, P, s)
<1>1. PICK U : Sound(M, U, s) /\ Holds(U, El, P) /\ Counted(M, El)
  BY DEF Kept
<1>2. Sound(DSCompact(M), U, s) /\ DSCompact(M).Count = M.Count
  BY <1>1, CompactSound
<1>3. QED
  BY <1>1, <1>2 DEF Kept, Counted

\* What is kept with the arrays' sizes is kept without them.
LEMMA KeptWeaker ==
  ASSUME NEW M, NEW El, NEW P, NEW s \in BOOLEAN, Kept(M, El, P, s)
  PROVE  Kept(M, El, P, FALSE)
BY SoundFacts DEF Kept

\* DSArrayAlloc, tried once more after a compaction.
ArrayTwice(M, El, d, n) ==
  LET R == ArrayAlloc(M, El, d, n)
  IN  IF R.status = "ERR_MEM" THEN ArrayAlloc(DSCompact(R.mem), R.elements, d, n) ELSE R

\* Resizing an array, the second attempt included, leaves every DV with one owner.
LEMMA ArrayTwiceSound ==
  ASSUME NEW M, NEW El, NEW P, NEW s \in BOOLEAN, Kept(M, El, P, s),
         0 \in P, Nested \subseteq P \ {0}, NEW d \in P \ {0}, NEW n \in 0 .. MaxCount,
         s => ~Overgrown(M, d, n)
  PROVE  Kept(ArrayTwice(M, El, d, n).mem, ArrayTwice(M, El, d, n).elements, P, s)
<1> DEFINE R == ArrayAlloc(M, El, d, n)
           N == R.mem
           E1 == R.elements
           C == DSCompact(N)
           Q == ArrayAlloc(C, E1, d, n)
<1>1. /\ Kept(N, E1, P, s)
      /\ R.status = "ERR_MEM" => (s => Calm(N, d)) \/ N.Count[d] = n
  BY ArraySound
<1>2. ArrayTwice(M, El, d, n) = IF R.status = "ERR_MEM" THEN Q ELSE R
  BY DEF ArrayTwice
<1> HIDE DEF R, N, E1
<1>3. PICK U : Sound(N, U, s) /\ Holds(U, E1, P)
  BY <1>1 DEF Kept
<1>4. d \in DVs
  BY <1>3 DEF Holds
<1>5. /\ C.Count = N.Count
      /\ s => (Calm(N, d) => Calm(C, d))
  BY <1>3, <1>4, CompactSound
<1>6. Kept(C, E1, P, s)
  BY <1>1, KeptCompacted
<1> HIDE DEF C
<1>7. ASSUME R.status = "ERR_MEM", s PROVE ~Overgrown(C, d, n)
  <2>1. CASE Calm(N, d)
    BY <2>1, <1>5, <1>7, CalmNotOvergrown
  <2>2. CASE N.Count[d] = n
    <3>1. C.Count[d] = n /\ n \in Nat
      BY <2>2, <1>5, Constants
    <3>2. ~(n > C.Count[d])
      BY <3>1
    <3>3. QED
      BY <3>2 DEF Overgrown
  <2>3. QED
    BY <2>1, <2>2, <1>1, <1>7
<1>8. R.status = "ERR_MEM" => Kept(Q.mem, Q.elements, P, s)
  <2> SUFFICES ASSUME R.status = "ERR_MEM" PROVE Kept(Q.mem, Q.elements, P, s)
    OBVIOUS
  <2>1. s => ~Overgrown(C, d, n)
    BY <1>7
  <2>2. QED
    BY <1>6, <2>1, ArraySound
<1>9. QED
  BY <1>1, <1>2, <1>8 DEF N, E1

-----------------------------------------------------------------------------
(***************************************************************************)
(* The DVs in the queues' slots.                                           *)
(***************************************************************************)

\* The DVs in the slots of all queues.
SlotDVs(Ms) == {x \in DVs : \E q \in Queues : \E s \in Slots(q) : Ms[q][s] = x}

\* Every slot of the queues has a DV of its own, or none.
Slotted(Ms) ==
  /\ DOMAIN Ms = Queues /\ \A q \in Queues : Ms[q] \in [Slots(q) -> Ids]
  /\ \A q, p \in Queues : \A s \in Slots(q), t \in Slots(p) :
       Ms[q][s] = Ms[p][t] /\ Ms[q][s] # NOT_A_DS_ID => q = p /\ s = t

\* Membership in SlotDVs.
LEMMA SlotOf ==
  ASSUME NEW Ms, NEW x
  PROVE  x \in SlotDVs(Ms) <=>
           x \in DVs /\ \E q \in Queues : \E s \in Slots(q) : Ms[q][s] = x
BY DEF SlotDVs

\* One slot of a queue changes.
Refill(Ms, q, w, x) == [Ms EXCEPT ![q][w] = x]

\* The slots after one of them has changed.
LEMMA RefillFields ==
  ASSUME NEW Ms, Slotted(Ms), NEW q \in Queues, NEW w \in Slots(q), NEW x \in Ids
  PROVE  LET N == Refill(Ms, q, w, x)
         IN  /\ DOMAIN N = Queues /\ \A p \in Queues : N[p] \in [Slots(p) -> Ids]
             /\ N[q][w] = x
             /\ \A p \in Queues : \A t \in Slots(p) : ~(p = q /\ t = w) => N[p][t] = Ms[p][t]
<1> DEFINE N == Refill(Ms, q, w, x)
<1>1. DOMAIN Ms = Queues /\ \A p \in Queues : Ms[p] \in [Slots(p) -> Ids]
  BY DEF Slotted
<1>2. N = [Ms EXCEPT ![q] = [Ms[q] EXCEPT ![w] = x]]
  BY DEF Refill
<1> HIDE DEF N
<1>3. DOMAIN N = Queues /\ N[q] = [Ms[q] EXCEPT ![w] = x] /\ \A p \in Queues \ {q} : N[p] = Ms[p]
  BY <1>1, <1>2
<1>4. N[q] \in [Slots(q) -> Ids] /\ N[q][w] = x /\ \A t \in Slots(q) \ {w} : N[q][t] = Ms[q][t]
  BY <1>1, <1>3
<1>5. \A p \in Queues : N[p] \in [Slots(p) -> Ids]
  BY <1>1, <1>3, <1>4
<1>6. \A p \in Queues : \A t \in Slots(p) : ~(p = q /\ t = w) => N[p][t] = Ms[p][t]
  BY <1>3, <1>4
<1>7. QED
  BY <1>3, <1>4, <1>5, <1>6 DEF N

\* A slot may get a DV that no other has.
LEMMA RefillSlotted ==
  ASSUME NEW Ms, Slotted(Ms), NEW q \in Queues, NEW w \in Slots(q), NEW x \in Ids,
         x \notin SlotDVs(Ms) \/ x = Ms[q][w]
  PROVE  /\ Slotted(Refill(Ms, q, w, x))
         /\ SlotDVs(Refill(Ms, q, w, x)) = (SlotDVs(Ms) \ {Ms[q][w]}) \cup ({x} \ {NOT_A_DS_ID})
<1> DEFINE N == Refill(Ms, q, w, x)
<1>1. /\ DOMAIN N = Queues /\ \A p \in Queues : N[p] \in [Slots(p) -> Ids]
      /\ N[q][w] = x
      /\ \A p \in Queues : \A t \in Slots(p) : ~(p = q /\ t = w) => N[p][t] = Ms[p][t]
  BY RefillFields
<1>2. \A p \in Queues : \A t \in Slots(p) : Ms[p][t] \in Ids
  BY DEF Slotted
<1>3. \A p \in Queues : \A t \in Slots(p) : Ms[p][t] # NOT_A_DS_ID => Ms[p][t] \in SlotDVs(Ms)
  BY <1>2, SlotOf DEF Ids
<1> HIDE DEF N
\* No other slot has x.
<1>4. ASSUME NEW p \in Queues, NEW t \in Slots(p), ~(p = q /\ t = w), x # NOT_A_DS_ID
      PROVE  Ms[p][t] # x
  <2>1. CASE x \notin SlotDVs(Ms)
    BY <2>1, <1>3, <1>4
  <2>2. CASE x = Ms[q][w]
    BY <2>2, <1>4 DEF Slotted
  <2>3. QED
    BY <2>1, <2>2
<1>5. ASSUME NEW p \in Queues, NEW r \in Queues, NEW s \in Slots(p), NEW t \in Slots(r),
             N[p][s] = N[r][t], N[p][s] # NOT_A_DS_ID
      PROVE  p = r /\ s = t
  <2>1. CASE (p = q /\ s = w) /\ (r = q /\ t = w)
    BY <2>1
  <2>2. CASE (p = q /\ s = w) /\ ~(r = q /\ t = w)
    BY <2>2, <1>1, <1>4, <1>5
  <2>3. CASE ~(p = q /\ s = w) /\ (r = q /\ t = w)
    BY <2>3, <1>1, <1>4, <1>5
  <2>4. CASE ~(p = q /\ s = w) /\ ~(r = q /\ t = w)
    <3>1. Ms[p][s] = Ms[r][t] /\ Ms[p][s] # NOT_A_DS_ID
      BY <2>4, <1>1, <1>5
    <3>2. QED
      BY <3>1 DEF Slotted
  <2>5. QED
    BY <2>1, <2>2, <2>3, <2>4
<1>6. Slotted(N)
  BY <1>1, <1>5 DEF Slotted
<1>7. ASSUME NEW y
      PROVE  y \in SlotDVs(N) <=> y \in (SlotDVs(Ms) \ {Ms[q][w]}) \cup ({x} \ {NOT_A_DS_ID})
  <2>1. ASSUME y \in SlotDVs(N)
        PROVE  y \in (SlotDVs(Ms) \ {Ms[q][w]}) \cup ({x} \ {NOT_A_DS_ID})
    <3>1. PICK p \in Queues : y \in DVs /\ \E t \in Slots(p) : N[p][t] = y
      BY <2>1, SlotOf
    <3>2. PICK t \in Slots(p) : N[p][t] = y
      BY <3>1
    <3>3. y # NOT_A_DS_ID
      BY <3>1, NotADV
    <3>4. CASE p = q /\ t = w
      BY <3>2, <3>3, <3>4, <1>1
    <3>5. CASE ~(p = q /\ t = w)
      <4>1. Ms[p][t] = y
        BY <3>2, <3>5, <1>1
      <4>2. y \in SlotDVs(Ms)
        BY <4>1, <3>1, SlotOf
      <4>3. y # Ms[q][w]
        BY <4>1, <3>3, <3>5 DEF Slotted
      <4>4. QED
        BY <4>2, <4>3
    <3>6. QED
      BY <3>4, <3>5
  <2>2. ASSUME y \in SlotDVs(Ms), y # Ms[q][w] PROVE y \in SlotDVs(N)
    <3>1. PICK p \in Queues : y \in DVs /\ \E t \in Slots(p) : Ms[p][t] = y
      BY <2>2, SlotOf
    <3>2. PICK t \in Slots(p) : Ms[p][t] = y
      BY <3>1
    <3>3. N[p][t] = y
      BY <3>2, <2>2, <1>1
    <3>4. QED
      BY <3>1, <3>3, SlotOf
  <2>3. ASSUME x # NOT_A_DS_ID PROVE x \in SlotDVs(N)
    BY <2>3, <1>1, SlotOf DEF Ids
  <2>4. QED
    BY <2>1, <2>2, <2>3
<1>8. QED
  BY <1>6, <1>7 DEF N

-----------------------------------------------------------------------------
(***************************************************************************)
(* Writing to a slot.                                                      *)
(***************************************************************************)

\* The slot's DV was x and is y, U were the DVs in use, and no array but that
\* of the slot has another length.
Stored(M, U, s, x, N, y) ==
  /\ y \in Ids \ {0} /\ (y \notin U \/ y = x)
  /\ Sound(N, (U \ {x}) \cup ({y} \ {NOT_A_DS_ID}), s)
  /\ \A e \in U \ {0, x} : N.Count[e] = M.Count[e]

\* What may be in a slot when U are the DVs in use.
SlotValue(U, x) == x \in U \ {0} \/ x = NOT_A_DS_ID

\* IS_DV_INDEX_SANE tells apart slots with a DV and without.
LEMMA Sanity ==
  ASSUME NEW M, NEW U, NEW s \in BOOLEAN, Sound(M, U, s), NEW x, SlotValue(U, x)
  PROVE  IS_DV_INDEX_SANE(M, x) <=> x # NOT_A_DS_ID
<1>1. /\ U \subseteq DVs /\ M.Count[0] \in Nat /\ M.Count[0] <= MaxDV + 1
      /\ \A d \in U : d < M.Count[0]
  BY SoundFacts
<1>2. CASE x = NOT_A_DS_ID
  <2>1. MaxDV + 1 <= NOT_A_DS_ID /\ MaxDV \in Nat
    BY MemMgrConstants DEF NOT_A_DS_ID, STALE
  <2>2. ~(NOT_A_DS_ID < M.Count[0])
    BY <1>1, <2>1 DEF NOT_A_DS_ID
  <2>3. QED
    BY <1>2, <2>2 DEF IS_DV_INDEX_SANE
<1>3. CASE x \in U \ {0}
  <2>1. x > 0 /\ x < M.Count[0]
    <3>1. x \in Nat /\ x # 0
      BY <1>1, <1>3, NotADV DEF DVs
    <3>2. QED
      BY <3>1, <1>1, <1>3
  <2>2. x # NOT_A_DS_ID
    BY <1>1, <1>3, NotADV
  <2>3. QED
    BY <2>1, <2>2 DEF IS_DV_INDEX_SANE
<1>4. QED
  BY <1>2, <1>3 DEF SlotValue

\* The slot's DV d gets an array, or is freed.
LEMMA StoredInSound ==
  ASSUME NEW M, NEW U, NEW s \in BOOLEAN, Sound(M, U, s), NEW d \in U \ {0}, NEW size \in Nat,
         s => ~Overgrown(M, d, size), NEW alloc, alloc.mem = M, alloc.dv = d
  PROVE  LET R == StoredIn(alloc, DVArrayAlloc(M, d, size))
         IN  /\ R.status \in {"NO_ERR", "ERR_MEM"}
             /\ R.status = "ERR_MEM" => R.dv = NOT_A_DS_ID /\ Sound(R.mem, U \ {d}, s)
             /\ R.status = "NO_ERR" => R.dv = d /\ Sound(R.mem, U, s)
             /\ \A e \in U \ {0, d} : R.mem.Count[e] = M.Count[e]
<1> DEFINE A == DVArrayAlloc(M, d, size)
           N == A.mem
           R == StoredIn(alloc, A)
<1>1. /\ A.status \in {"NO_ERR", "ERR_MEM"} /\ Sound(N, U, s)
      /\ \A e \in DVs \ {d} : N.Count[e] = M.Count[e]
  BY ResizeSound
<1>2. U \subseteq DVs
  BY SoundFacts
<1> HIDE DEF A, N
<1>3. /\ Sound(FreeDopeVector(N, d), U \ {d}, s)
      /\ \A e \in U \ {d} : FreeDopeVector(N, d).Count[e] = N.Count[e]
  BY <1>1, FreeSound
<1>4. CASE A.status = "ERR_MEM"
  <2>1. R = [mem |-> FreeDopeVector(N, d), status |-> "ERR_MEM", dv |-> NOT_A_DS_ID]
    BY <1>4 DEF StoredIn, N
  <2> HIDE DEF R
  <2>2. R.mem = FreeDopeVector(N, d) /\ R.status = "ERR_MEM" /\ R.dv = NOT_A_DS_ID
    BY <2>1
  <2>3. \A e \in U \ {0, d} : R.mem.Count[e] = M.Count[e]
    BY <1>1, <1>2, <1>3, <2>2
  <2>4. QED
    BY <1>3, <2>2, <2>3 DEF R, A
<1>5. CASE A.status # "ERR_MEM"
  <2>1. R = [mem |-> N, status |-> "NO_ERR", dv |-> d]
    BY <1>5 DEF StoredIn, N
  <2> HIDE DEF R
  <2>2. R.mem = N /\ R.status = "NO_ERR" /\ R.dv = d
    BY <2>1
  <2>3. \A e \in U \ {0, d} : R.mem.Count[e] = M.Count[e]
    BY <1>1, <1>2, <2>2
  <2>4. QED
    BY <1>1, <2>2, <2>3 DEF R, A
<1>6. QED
  BY <1>4, <1>5

\* Store, in a slot that holds x.
StoreIn(M, x, size) == Store([mem |-> M, dv |-> x], size)

\* A slot gets a DV with an array or is empty, and the memory stays sound.
LEMMA StoreSound ==
  ASSUME NEW M, NEW U, NEW s \in BOOLEAN, Sound(M, U, s), NEW x, SlotValue(U, x),
         NEW size \in Nat, s /\ x # NOT_A_DS_ID => ~Overgrown(M, x, size)
  PROVE  LET R == StoreIn(M, x, size)
         IN  /\ Stored(M, U, s, x, R.mem, R.dv)
             /\ R.status \in {"NO_ERR", "ERR_MEM"}
             /\ R.status = "ERR_MEM" <=> R.dv = NOT_A_DS_ID
<1> DEFINE R == StoreIn(M, x, size)
<1>1. IS_DV_INDEX_SANE(M, x) <=> x # NOT_A_DS_ID
  BY Sanity
<1>2. U \subseteq DVs /\ 0 \in U
  BY SoundFacts
<1>3. CASE x # NOT_A_DS_ID
  <2> DEFINE alloc == [mem |-> M, status |-> "NO_ERR", dv |-> x]
  <2>1. R = StoredIn(alloc, DVArrayAlloc(M, x, size))
    BY <1>1, <1>3 DEF StoreIn, Store, StoredWith
  <2>2. x \in U \ {0} /\ (s => ~Overgrown(M, x, size))
    BY <1>3 DEF SlotValue
  <2>3. alloc.mem = M /\ alloc.dv = x
    OBVIOUS
  <2> HIDE DEF alloc, R
  <2>4. /\ R.status \in {"NO_ERR", "ERR_MEM"}
        /\ R.status = "ERR_MEM" => R.dv = NOT_A_DS_ID /\ Sound(R.mem, U \ {x}, s)
        /\ R.status = "NO_ERR" => R.dv = x /\ Sound(R.mem, U, s)
        /\ \A e \in U \ {0, x} : R.mem.Count[e] = M.Count[e]
    BY <2>1, <2>2, <2>3, StoredInSound
  <2>5. CASE R.status = "ERR_MEM"
    <3>1. (U \ {x}) \cup ({R.dv} \ {NOT_A_DS_ID}) = U \ {x} /\ R.dv \in Ids \ {0}
      BY <2>4, <2>5 DEF Ids, NOT_A_DS_ID
    <3>2. R.dv \notin U
      BY <2>4, <2>5, <1>2, NotADV
    <3>3. QED
      BY <2>4, <2>5, <3>1, <3>2 DEF Stored, R
  <2>6. CASE R.status = "NO_ERR"
    <3>1. (U \ {x}) \cup ({R.dv} \ {NOT_A_DS_ID}) = U /\ R.dv \in Ids \ {0}
      BY <2>2, <2>4, <2>6, <1>2, <1>3 DEF Ids
    <3>2. QED
      BY <2>4, <2>6, <3>1, <1>3 DEF Stored, R
  <2>7. QED
    BY <2>4, <2>5, <2>6
<1>4. CASE x = NOT_A_DS_ID
  <2> DEFINE alloc == AllocDopeVector(M, 1)
             d == alloc.dv
             K == alloc.mem
  <2>1. R = IF alloc.status = "ERR_MEM" THEN alloc ELSE StoredIn(alloc, DVArrayAlloc(K, d, size))
    BY <1>1, <1>4 DEF StoreIn, Store, StoredWith
  <2>2. 1 \in Nat
    OBVIOUS
  <2>3. /\ \/ /\ alloc.status = "ERR_MEM" /\ d = NOT_A_DS_ID
              /\ Sound(K, U, s)
           \/ /\ alloc.status = "NO_ERR" /\ d \in DVs \ {0} /\ d \notin U
              /\ Sound(K, U \cup {d}, s)
              /\ K.Offset[d] = NOT_AN_OFFSET /\ K.Count[d] = 0
        /\ \A e \in U \ {0} : K.Count[e] = M.Count[e]
    BY <2>2, AllocSound
  <2>4. x \notin U /\ U \ {x} = U
    BY <1>2, <1>4, NotADV
  <2> HIDE DEF alloc, d, K
  <2>5. CASE alloc.status = "ERR_MEM"
    <3>1. R = alloc
      BY <2>1, <2>5
    <3>2. R.status = "ERR_MEM" /\ R.dv = NOT_A_DS_ID /\ Sound(R.mem, U, s)
          /\ \A e \in U \ {0} : R.mem.Count[e] = M.Count[e]
      BY <3>1, <2>3, <2>5 DEF d, K
    <3> HIDE DEF R
    <3>3. (U \ {x}) \cup ({R.dv} \ {NOT_A_DS_ID}) = U /\ R.dv \in Ids \ {0}
      BY <2>4, <3>2 DEF Ids, NOT_A_DS_ID
    <3>4. R.dv \notin U
      BY <1>2, <3>2, NotADV
    <3>5. QED
      BY <3>2, <3>3, <3>4 DEF Stored, R
  <2>6. CASE alloc.status # "ERR_MEM"
    <3> DEFINE W == U \cup {d}
    <3>1. /\ d \in DVs \ {0} /\ d \notin U /\ Sound(K, W, s) /\ K.Offset[d] = NOT_AN_OFFSET
          /\ \A e \in U \ {0} : K.Count[e] = M.Count[e]
      BY <2>3, <2>6
    <3>2. ~Overgrown(K, d, size)
      BY <3>1 DEF Overgrown
    <3>3. d \in W \ {0} /\ W \ {d} = U
      BY <3>1
    <3>4. R = StoredIn(alloc, DVArrayAlloc(K, d, size)) /\ alloc.mem = K /\ alloc.dv = d
      BY <2>1, <2>6 DEF K, d
    <3> HIDE DEF R, W
    <3>5. /\ R.status \in {"NO_ERR", "ERR_MEM"}
          /\ R.status = "ERR_MEM" => R.dv = NOT_A_DS_ID /\ Sound(R.mem, W \ {d}, s)
          /\ R.status = "NO_ERR" => R.dv = d /\ Sound(R.mem, W, s)
          /\ \A e \in W \ {0, d} : R.mem.Count[e] = K.Count[e]
      BY <3>1, <3>2, <3>3, <3>4, StoredInSound
    <3>6. \A e \in U \ {0, x} : R.mem.Count[e] = M.Count[e]
      BY <3>1, <3>5 DEF W
    <3>7. CASE R.status = "ERR_MEM"
      <4>1. (U \ {x}) \cup ({R.dv} \ {NOT_A_DS_ID}) = U /\ R.dv \in Ids \ {0}
        BY <2>4, <3>5, <3>7 DEF Ids, NOT_A_DS_ID
      <4>2. R.dv \notin U
        BY <1>2, <3>5, <3>7, NotADV
      <4>3. QED
        BY <3>3, <3>5, <3>6, <3>7, <4>1, <4>2 DEF Stored, R
    <3>8. CASE R.status = "NO_ERR"
      <4>1. d # NOT_A_DS_ID
        BY <3>1, NotADV
      <4>2. (U \ {x}) \cup ({R.dv} \ {NOT_A_DS_ID}) = W /\ R.dv \in Ids \ {0} /\ R.dv \notin U
        BY <2>4, <3>1, <3>5, <3>8, <4>1 DEF Ids, W
      <4>3. QED
        BY <3>5, <3>6, <3>8, <4>1, <4>2 DEF Stored, R
    <3>9. QED
      BY <3>5, <3>7, <3>8
  <2>7. QED
    BY <2>5, <2>6
<1>5. QED
  BY <1>3, <1>4

\* Store, tried once more after a compaction.
StoreTwice(M, x, size) ==
  LET R == StoreIn(M, x, size)
  IN  IF R.status = "ERR_MEM" THEN StoreIn(DSCompact(R.mem), R.dv, size) ELSE R

\* A write that found no memory has emptied its slot: it begins anew.
LEMMA StoreTwiceSound ==
  ASSUME NEW M, NEW U, NEW s \in BOOLEAN, Sound(M, U, s), NEW x, SlotValue(U, x),
         NEW size \in Nat, s /\ x # NOT_A_DS_ID => ~Overgrown(M, x, size)
  PROVE  LET R == StoreTwice(M, x, size)
         IN  /\ Stored(M, U, s, x, R.mem, R.dv)
             /\ R.status \in {"NO_ERR", "ERR_MEM"}
             /\ R.status = "ERR_MEM" <=> R.dv = NOT_A_DS_ID
<1> DEFINE R == StoreIn(M, x, size)
           N == R.mem
           C == DSCompact(N)
           V == U \ {x}
           Q == StoreIn(C, NOT_A_DS_ID, size)
<1>1. /\ Stored(M, U, s, x, N, R.dv)
      /\ R.status \in {"NO_ERR", "ERR_MEM"}
      /\ R.status = "ERR_MEM" <=> R.dv = NOT_A_DS_ID
  BY StoreSound
<1>2. StoreTwice(M, x, size) = IF R.status = "ERR_MEM" THEN StoreIn(C, R.dv, size) ELSE R
  BY DEF StoreTwice
<1> HIDE DEF R
<1>3. CASE R.status # "ERR_MEM"
  BY <1>1, <1>2, <1>3
<1>4. CASE R.status = "ERR_MEM"
  <2>1. R.dv = NOT_A_DS_ID /\ StoreTwice(M, x, size) = Q
    BY <1>1, <1>2, <1>4
  <2>2. Sound(N, V, s) /\ \A e \in U \ {0, x} : N.Count[e] = M.Count[e]
    <3>1. (U \ {x}) \cup ({NOT_A_DS_ID} \ {NOT_A_DS_ID}) = V
      OBVIOUS
    <3>2. QED
      BY <1>1, <2>1, <3>1 DEF Stored
  <2> HIDE DEF N, V
  <2>3. Sound(C, V, s) /\ C.Count = N.Count
    BY <2>2, CompactSound
  <2>4. SlotValue(V, NOT_A_DS_ID) /\ (s /\ NOT_A_DS_ID # NOT_A_DS_ID => ~Overgrown(C, NOT_A_DS_ID, size))
    BY DEF SlotValue
  <2> HIDE DEF C, Q
  <2>5. /\ Stored(C, V, s, NOT_A_DS_ID, Q.mem, Q.dv)
        /\ Q.status \in {"NO_ERR", "ERR_MEM"}
        /\ Q.status = "ERR_MEM" <=> Q.dv = NOT_A_DS_ID
    BY <2>3, <2>4, StoreSound DEF Q
  <2>6. NOT_A_DS_ID \notin U /\ U \subseteq DVs
    BY SoundFacts, NotADV
  <2>7. Stored(M, U, s, x, Q.mem, Q.dv)
    <3>1. V \ {NOT_A_DS_ID} = U \ {x} /\ V = U \ {x}
      BY <2>6 DEF V
    <3>2. Q.dv \notin U \/ Q.dv = x
      BY <2>5, <2>6, <3>1 DEF Stored
    <3>3. \A e \in U \ {0, x} : e \in V \ {0, NOT_A_DS_ID}
      BY <2>6, <3>1
    <3>4. \A e \in U \ {0, x} : Q.mem.Count[e] = M.Count[e]
      BY <2>2, <2>3, <2>5, <3>3 DEF Stored
    <3>5. Sound(Q.mem, (U \ {x}) \cup ({Q.dv} \ {NOT_A_DS_ID}), s) /\ Q.dv \in Ids \ {0}
      BY <2>5, <3>1 DEF Stored
    <3>6. QED
      BY <3>2, <3>4, <3>5 DEF Stored
  <2>8. QED
    BY <2>1, <2>5, <2>7
<1>5. QED
  BY <1>3, <1>4

\* A slot's DV is freed.
LEMMA FreeStored ==
  ASSUME NEW M, NEW U, NEW s \in BOOLEAN, Sound(M, U, s), NEW x \in U \ {0}
  PROVE  Stored(M, U, s, x, FreeDopeVector(M, x), NOT_A_DS_ID)
<1>1. U \subseteq DVs
  BY SoundFacts
<1>2. /\ Sound(FreeDopeVector(M, x), U \ {x}, s)
      /\ \A e \in U \ {x} : FreeDopeVector(M, x).Count[e] = M.Count[e]
  BY FreeSound
<1>3. (U \ {x}) \cup ({NOT_A_DS_ID} \ {NOT_A_DS_ID}) = U \ {x}
  OBVIOUS
<1>4. NOT_A_DS_ID \in Ids \ {0} /\ NOT_A_DS_ID \notin U
  BY <1>1, NotADV DEF Ids, NOT_A_DS_ID
<1>5. QED
  BY <1>2, <1>3, <1>4 DEF Stored

-----------------------------------------------------------------------------
(***************************************************************************)
(* The memory of programs and queues.                                      *)
(***************************************************************************)

\* The DVs of the program file: that of the DVs themselves, and its arrays'.
Static == {0} \cup ProgramDVs

\* The memory is sound, and each DV in use belongs to the program file, an element or a slot.
MemInv(M, El, Ms, s) ==
  /\ Slotted(Ms) /\ Apart(Static, SlotDVs(Ms))
  /\ Kept(M, El, Static \cup SlotDVs(Ms), s)

\* The DVs of the program file exist.
LEMMA StaticFacts ==
  /\ Static \subseteq DVs /\ 0 \in Static /\ ProgramDVs \subseteq Static \ {0}
  /\ Nested \subseteq ProgramDVs /\ ProgramDVs = 1 .. Len(Default) /\ Len(Default) \in Nat
<1>1. ProgramDVs = 1 .. Len(Default) /\ Len(Default) \in Nat
  BY MemMgrConstants DEF ProgramDVs
<1>2. Len(Default) < MaxDV /\ MaxDV \in Nat /\ Nested \subseteq ProgramDVs
  BY MemMgrConstants
<1>3. QED
  BY <1>1, <1>2 DEF Static, DVs

\* What MemInv says of one slot.
LEMMA SlotFacts ==
  ASSUME NEW Ms, Slotted(Ms), Apart(Static, SlotDVs(Ms)), NEW U,
         SlotDVs(Ms) \subseteq U, NEW q \in Queues, NEW w \in Slots(q)
  PROVE  /\ SlotValue(U, Ms[q][w]) /\ Ms[q][w] \in Ids
         /\ Ms[q][w] # NOT_A_DS_ID => Ms[q][w] \in SlotDVs(Ms)
<1>1. Ms[q][w] \in Ids
  BY DEF Slotted
<1>2. Ms[q][w] # NOT_A_DS_ID => Ms[q][w] \in SlotDVs(Ms)
  BY <1>1, SlotOf DEF Ids
<1>3. 0 \notin SlotDVs(Ms)
  BY StaticFacts DEF Apart
<1>4. QED
  BY <1>1, <1>2, <1>3 DEF SlotValue

\* A slot is written or emptied.
LEMMA StoredInv ==
  ASSUME NEW M, NEW El, NEW Ms, NEW s \in BOOLEAN, Slotted(Ms), Apart(Static, SlotDVs(Ms)),
         NEW U, Holds(U, El, Static \cup SlotDVs(Ms)), Counted(M, El),
         NEW q \in Queues, NEW w \in Slots(q), NEW N, NEW y,
         Stored(M, U, s, Ms[q][w], N, y)
  PROVE  MemInv(N, El, Refill(Ms, q, w, y), s)
<1> DEFINE x == Ms[q][w]
           P == Static \cup SlotDVs(Ms)
           Ns == Refill(Ms, q, w, y)
           Q == Static \cup SlotDVs(Ns)
           V == (U \ {x}) \cup ({y} \ {NOT_A_DS_ID})
<1>1. /\ El \in [Nested -> Seq(DVs \cup {STALE})] /\ P \subseteq DVs
      /\ U = P \cup ElemDVs(El) /\ P \cap ElemDVs(El) = {}
      /\ \A d, e \in Nested : \A i \in 1 .. Len(El[d]), j \in 1 .. Len(El[e]) :
           El[d][i] = El[e][j] /\ El[d][i] # STALE => d = e /\ i = j
  BY DEF Holds
<1>2. /\ y \in Ids \ {0} /\ (y \notin U \/ y = x) /\ Sound(N, V, s)
      /\ \A e \in U \ {0, x} : N.Count[e] = M.Count[e]
  BY DEF Stored
<1>3. x # NOT_A_DS_ID => x \in SlotDVs(Ms)
  <2>1. SlotDVs(Ms) \subseteq U
    BY <1>1
  <2>2. QED
    BY <2>1, SlotFacts
<1>4. y \notin SlotDVs(Ms) \/ y = x
  BY <1>1, <1>2
<1>5. Slotted(Ns) /\ SlotDVs(Ns) = (SlotDVs(Ms) \ {x}) \cup ({y} \ {NOT_A_DS_ID})
  BY <1>2, <1>4, RefillSlotted
<1>6. Static \cap SlotDVs(Ms) = {}
  BY DEF Apart
<1>7. ElemDVs(El) \subseteq DVs
  BY DEF ElemDVs
<1> HIDE DEF x, Ns
<1>8. x \notin Static /\ x \notin ElemDVs(El)
  BY <1>1, <1>3, <1>6, <1>7, NotADV, StaticFacts
<1>9. y \notin Static /\ (y \notin ElemDVs(El))
  BY <1>1, <1>2, <1>8
<1>10. Static \cap SlotDVs(Ns) = {}
  BY <1>5, <1>6, <1>9
<1>11. V = Q \cup ElemDVs(El)
  BY <1>1, <1>5, <1>8
<1>12. Q \cap ElemDVs(El) = {} /\ Q \subseteq DVs
  BY <1>1, <1>2, <1>5, <1>9 DEF Ids
<1>13. Holds(V, El, Q)
  BY <1>1, <1>11, <1>12 DEF Holds
<1>14. Counted(N, El)
  <2>1. \A e \in Nested : e \in U \ {0, x}
    BY <1>1, <1>8, StaticFacts
  <2>2. QED
    BY <2>1, <1>2 DEF Counted
<1>15. QED
  BY <1>2, <1>5, <1>10, <1>13, <1>14 DEF MemInv, Kept, Apart, Ns, x

-----------------------------------------------------------------------------
(***************************************************************************)
(* Rings of slots.                                                         *)
(***************************************************************************)

\* The slot i places after the slot r, of N.
Place(r, i, N) == IF r + i < N THEN r + i ELSE r + i - N

\* The slots q holds something in are the n that follow r, and w is the next.
Ring(slot, r, w, N, n) ==
  /\ N \in Nat \ {0} /\ r \in 0 .. N - 1 /\ n \in 0 .. N
  /\ w = Place(r, n, N)
  /\ \A i \in 0 .. N - 1 : slot[Place(r, i, N)] # NOT_A_DS_ID <=> i < n

\* What the n slots after r hold.
Held(slot, r, N, n, c) == [i \in 1 .. n |-> c[slot[Place(r, i - 1, N)]]]

-----------------------------------------------------------------------------
(***************************************************************************)
(* The memory that a program file describes.                               *)
(***************************************************************************)

\* A sequence of sums only grows.
LEMMA Monotone ==
  ASSUME NEW n \in Nat, NEW end, end[0] \in Nat,
         \A i \in 1 .. n : end[i - 1] \in Nat => end[i] \in Nat /\ end[i - 1] <= end[i]
  PROVE  \A j \in 0 .. n : end[j] \in Nat /\ \A i \in 0 .. j : end[i] <= end[j]
<1> DEFINE T == [j \in 0 .. n |-> {x \in Nat : \A i \in 0 .. j : end[i] \in Nat /\ end[i] <= x}]
<1>1. end[0] \in T[0]
  OBVIOUS
<1>2. ASSUME NEW i \in 1 .. n, end[i - 1] \in T[i - 1] PROVE end[i] \in T[i]
  <2>1. i - 1 \in 0 .. n /\ i \in 0 .. n
    OBVIOUS
  <2>2. end[i - 1] \in Nat /\ \A j \in 0 .. i - 1 : end[j] \in Nat /\ end[j] <= end[i - 1]
    BY <1>2, <2>1
  <2>3. end[i] \in Nat /\ end[i - 1] <= end[i]
    BY <2>2
  <2>4. ASSUME NEW j \in 0 .. i PROVE end[j] \in Nat /\ end[j] <= end[i]
    <3>1. j \in 0 .. i - 1 \/ j = i
      OBVIOUS
    <3>2. QED
      BY <3>1, <2>2, <2>3
  <2>5. QED
    BY <2>1, <2>3, <2>4
<1> HIDE DEF T
<1>3. \A j \in 0 .. n : end[j] \in T[j]
  BY <1>1, <1>2, RecursionInv
<1>4. QED
  BY <1>3 DEF T

\* Where the arrays of the file end.
FileEnds(end) ==
  LET last == Len(Default)
  IN  /\ \A j \in 0 .. last : end[j] \in Nat /\ \A i \in 0 .. j : end[i] <= end[j]
      /\ end[0] = DSStaticSize + DVSize * (last + 1)
      /\ \A d \in 1 .. last :
           Default[d].Count > 0 =>
             end[d] = Align(end[d - 1]) + Default[d].ElemSize * Default[d].Count

\* FileMem, for the ends of its arrays.
FileRecord(end) ==
  LET last == Len(Default)
  IN  [Head |-> 0, Tail |-> last, FreeHead |-> NOT_A_DS_ID,
       Link |-> [d \in DVs |-> IF d < last THEN d + 1 ELSE NOT_A_DS_ID],
       BackLink |-> [d \in DVs |-> IF d \in 1 .. last THEN d - 1 ELSE NOT_A_DS_ID],
       Offset |-> [d \in DVs |->
                     IF d = 0 THEN DSStaticSize
                     ELSE IF d \in ProgramDVs /\ Default[d].Count > 0 THEN Align(end[d - 1])
                     ELSE NOT_AN_OFFSET],
       ElemSize |-> [d \in DVs |-> IF d = 0 THEN DVSize
                                   ELSE IF d \in ProgramDVs THEN Default[d].ElemSize ELSE 0],
       Count |-> [d \in DVs |-> IF d = 0 THEN last + 1
                                ELSE IF d \in ProgramDVs THEN Default[d].Count ELSE 0],
       DataspaceSize |-> end[last]]

\* The arrays of the program file have natural sizes.
LEMMA DefaultFacts ==
  ASSUME NEW d \in 1 .. Len(Default)
  PROVE  /\ Default[d].ElemSize \in Nat /\ Default[d].Count \in Nat
         /\ Default[d].ElemSize * Default[d].Count \in Nat
         /\ d \in DVs
<1> DEFINE S == [ElemSize : Nat \ {0}, Count : Nat]
<1>1. Default \in Seq(S)
  BY MemMgrConstants
<1> HIDE DEF S
<1>2. Default[d] \in S
  BY <1>1
<1>3. Default[d].ElemSize \in Nat /\ Default[d].Count \in Nat
  BY <1>2 DEF S
<1>4. QED
  BY <1>3, Product, StaticFacts

\* FileMem is such a record.
LEMMA FileMemEnds ==
  \E end : FileMem = FileRecord(end) /\ FileEnds(end)
<1> DEFINE last == Len(Default)
           b == DSStaticSize + DVSize * (last + 1)
           size(d) == Default[d].ElemSize * Default[d].Count
           end[d \in 0 .. last] ==
             IF d = 0 THEN DSStaticSize + DVSize * (last + 1)
             ELSE IF Default[d].Count = 0 THEN end[d - 1]
             ELSE Align(end[d - 1]) + Default[d].ElemSize * Default[d].Count
           T == [d \in 0 .. last |-> Nat]
           G == [d \in 1 .. last |->
                   [x \in Nat |-> IF Default[d].Count = 0 THEN x ELSE Align(x) + size(d)]]
<1>1. last \in Nat
  BY StaticFacts
<1>2. b \in Nat
  <2>1. DVSize \in Nat /\ DSStaticSize \in Nat /\ last + 1 \in Nat
    BY <1>1, Constants
  <2>2. DVSize * (last + 1) \in Nat
    BY <2>1, Product
  <2>3. QED
    BY <2>1, <2>2
<1>3. \A d \in 1 .. last : size(d) \in Nat /\ Default[d].Count \in Nat
  BY DefaultFacts
<1>4. FileMem = FileRecord(end)
  BY DEF FileMem, FileRecord
<1> HIDE DEF size, b
<1>5. ASSUME NEW d \in 1 .. last, NEW x \in Nat
      PROVE  G[d][x] = (IF Default[d].Count = 0 THEN x ELSE Align(x) + size(d)) /\ G[d][x] \in Nat
  <2>1. G[d][x] = IF Default[d].Count = 0 THEN x ELSE Align(x) + size(d)
    OBVIOUS
  <2>2. Align(x) \in Nat
    BY Aligning
  <2> HIDE DEF G
  <2>3. QED
    BY <2>1, <2>2, <1>3
<1>6. PICK f : Recursive(f, last, b, G) /\ Within(f, last, T)
  <2>1. \A i \in 0 .. last : T[i] = Nat
    OBVIOUS
  <2> HIDE DEF G, T
  <2>2. Steps(last, T, b, G)
    BY <1>1, <1>2, <1>5, <2>1, SMTT(30) DEF Steps
  <2>3. QED
    BY <2>2, Recursion
<1>7. f = [d \in 0 .. last |->
             IF d = 0 THEN DSStaticSize + DVSize * (last + 1)
             ELSE IF Default[d].Count = 0 THEN f[d - 1]
             ELSE Align(f[d - 1]) + Default[d].ElemSize * Default[d].Count]
  <2> DEFINE h == [d \in 0 .. last |->
             IF d = 0 THEN DSStaticSize + DVSize * (last + 1)
             ELSE IF Default[d].Count = 0 THEN f[d - 1]
             ELSE Align(f[d - 1]) + Default[d].ElemSize * Default[d].Count]
  <2>1. ASSUME NEW d \in 0 .. last PROVE f[d] = h[d]
    <3> HIDE DEF G
    <3>1. f[d] = IF d = 0 THEN b ELSE G[d][f[d - 1]]
      BY <1>6 DEF Recursive
    <3>2. d # 0 => d \in 1 .. last /\ d - 1 \in 0 .. last
      BY <1>1
    <3>3. d # 0 => f[d - 1] \in Nat
      BY <3>2, <1>6 DEF Within
    <3>4. QED
      BY <3>1, <3>2, <3>3, <1>5 DEF b, size
  <2>2. f = [d \in 0 .. last |-> f[d]]
    BY <1>6 DEF Recursive
  <2> HIDE DEF G
  <2>3. QED
    BY <2>1, <2>2
<1>8. end = [d \in 0 .. last |->
               IF d = 0 THEN DSStaticSize + DVSize * (last + 1)
               ELSE IF Default[d].Count = 0 THEN end[d - 1]
               ELSE Align(end[d - 1]) + Default[d].ElemSize * Default[d].Count]
  BY <1>7
<1> HIDE DEF end, G, T
<1>9. end[0] = b
  BY <1>1, <1>8 DEF b
<1>10. ASSUME NEW d \in 1 .. last
       PROVE  end[d] = IF Default[d].Count = 0 THEN end[d - 1] ELSE Align(end[d - 1]) + size(d)
  <2>1. d \in 0 .. last /\ d # 0
    BY <1>1
  <2>2. QED
    BY <2>1, <1>8 DEF size
<1>11. ASSUME NEW d \in 1 .. last, end[d - 1] \in Nat
       PROVE  end[d] \in Nat /\ end[d - 1] <= end[d]
  <2> DEFINE x == end[d - 1]
             a == Align(x)
  <2>1. a \in Nat /\ x <= a /\ x \in Nat
    BY <1>11, Aligning
  <2>2. end[d] = x \/ end[d] = a + size(d)
    BY <1>10
  <2>3. size(d) \in Nat
    BY <1>3
  <2> HIDE DEF x, a
  <2>4. end[d] \in Nat /\ x <= end[d]
    BY <2>1, <2>2, <2>3
  <2>5. QED
    BY <2>4 DEF x
<1>12. \A j \in 0 .. last : end[j] \in Nat /\ \A i \in 0 .. j : end[i] <= end[j]
  <2>1. end[0] \in Nat
    BY <1>2, <1>9
  <2> HIDE DEF last
  <2>2. QED
    BY <1>1, <1>11, <2>1, Monotone
<1>13. \A d \in 1 .. last : Default[d].Count > 0 => end[d] = Align(end[d - 1]) + size(d)
  BY <1>3, <1>10
<1>14. FileEnds(end)
  BY <1>9, <1>12, <1>13 DEF FileEnds, b, size
<1>15. QED
  BY <1>4, <1>14

\* It is good, with the DVs of the program in use and none free.
LEMMA FileGood ==
  /\ Good(FileMem, Consecutive(0, Len(Default) + 1), Consecutive(0, 0), TRUE)
  /\ Range_(Consecutive(0, Len(Default) + 1)) = Static
  /\ FileMem.FreeHead = NOT_A_DS_ID
  /\ \A d \in ProgramDVs : FileMem.Count[d] = Default[d].Count
<1> DEFINE last == Len(Default)
           u == Consecutive(0, last + 1)
           f == Consecutive(0, 0)
<1>1. /\ last \in Nat /\ last < MaxDV /\ MaxDV \in Nat /\ ProgramDVs = 1 .. last
      /\ Nested \subseteq ProgramDVs
  BY StaticFacts, MemMgrConstants
<1>2. /\ Distinct(u) /\ Len(u) = last + 1 /\ \A i \in 1 .. last + 1 : u[i] = i - 1
      /\ Range_(u) = 0 .. last
  <2>1. last + 1 \in Nat /\ 0 + (last + 1) <= MaxDV + 1 /\ 0 \in Nat
    BY <1>1
  <2> DEFINE k == last + 1
  <2>2. (0 + k) - 1 = last
    BY <1>1
  <2>3. \A i \in 1 .. k : 0 + i - 1 = i - 1
    BY <1>1
  <2> HIDE DEF k
  <2>4. /\ Distinct(Consecutive(0, k)) /\ Len(Consecutive(0, k)) = k
        /\ \A i \in 1 .. k : Consecutive(0, k)[i] = 0 + i - 1
        /\ Range_(Consecutive(0, k)) = 0 .. (0 + k) - 1
    BY <2>1, ConsecutiveSeq DEF k
  <2>5. QED
    BY <2>2, <2>3, <2>4 DEF k
<1>3. Distinct(f) /\ Len(f) = 0 /\ Range_(f) = {}
  <2>1. 0 \in Nat /\ 0 + 0 <= MaxDV + 1
    BY <1>1
  <2>2. Distinct(f) /\ Len(f) = 0 /\ Range_(f) = 0 .. (0 + 0) - 1
    BY <2>1, ConsecutiveSeq
  <2>3. QED
    BY <2>2
<1>4. PICK end : FileMem = FileRecord(end) /\ FileEnds(end)
  BY FileMemEnds
<1> DEFINE M == FileMem
           L == [d \in DVs |-> IF d < last THEN d + 1 ELSE NOT_A_DS_ID]
           B == [d \in DVs |-> IF d \in 1 .. last THEN d - 1 ELSE NOT_A_DS_ID]
           O == [d \in DVs |-> IF d = 0 THEN DSStaticSize
                               ELSE IF d \in ProgramDVs /\ Default[d].Count > 0 THEN Align(end[d - 1])
                               ELSE NOT_AN_OFFSET]
           E == [d \in DVs |-> IF d = 0 THEN DVSize
                               ELSE IF d \in ProgramDVs THEN Default[d].ElemSize ELSE 0]
           C == [d \in DVs |-> IF d = 0 THEN last + 1
                               ELSE IF d \in ProgramDVs THEN Default[d].Count ELSE 0]
<1>5. M = [Head |-> 0, Tail |-> last, FreeHead |-> NOT_A_DS_ID, Link |-> L, BackLink |-> B,
           Offset |-> O, ElemSize |-> E, Count |-> C, DataspaceSize |-> end[last]]
  BY <1>4 DEF FileRecord
<1> HIDE DEF M
<1>6. /\ M.Head = 0 /\ M.Tail = last /\ M.FreeHead = NOT_A_DS_ID /\ M.Link = L /\ M.BackLink = B
      /\ M.Offset = O /\ M.ElemSize = E /\ M.Count = C /\ M.DataspaceSize = end[last]
  BY <1>5
<1>7. /\ \A j \in 0 .. last : end[j] \in Nat /\ \A i \in 0 .. j : end[i] <= end[j]
      /\ end[0] = DSStaticSize + DVSize * (last + 1)
      /\ \A d \in 1 .. last :
           Default[d].Count > 0 =>
             end[d] = Align(end[d - 1]) + Default[d].ElemSize * Default[d].Count
  BY <1>4 DEF FileEnds
<1>8. 0 \in DVs /\ last \in DVs /\ \A d \in 1 .. last : d \in DVs
  BY <1>1 DEF DVs
<1>9. L \in [DVs -> Ids] /\ B \in [DVs -> Ids]
  <2>1. \A d \in DVs : d < last => d + 1 \in DVs
    BY <1>1 DEF DVs
  <2>2. \A d \in 1 .. last : d - 1 \in DVs
    BY <1>1 DEF DVs
  <2>3. QED
    BY <2>1, <2>2 DEF Ids
<1>10. O \in [DVs -> Nat] /\ E \in [DVs -> Nat] /\ C \in [DVs -> Nat]
  <2>1. \A d \in 1 .. last : Align(end[d - 1]) \in Nat
    <3>1. \A d \in 1 .. last : d - 1 \in 0 .. last
      BY <1>1
    <3>2. QED
      BY <3>1, <1>7, Aligning
  <2>2. \A d \in 1 .. last : Default[d].ElemSize \in Nat /\ Default[d].Count \in Nat
    BY DefaultFacts
  <2>3. DVSize \in Nat /\ DSStaticSize \in Nat /\ NOT_AN_OFFSET \in Nat /\ last + 1 \in Nat /\ 0 \in Nat
    BY <1>1, Constants
  <2>4. QED
    BY <2>1, <2>2, <2>3, <1>1
<1>11. end[last] \in Nat
  BY <1>1, <1>7
<1>12. M \in Memories
  <2>1. 0 \in Ids /\ last \in Ids /\ NOT_A_DS_ID \in Ids
    BY <1>8 DEF Ids
  <2> HIDE DEF L, B, O, E, C
  <2>2. QED
    BY <1>5, <1>9, <1>10, <1>11, <2>1 DEF Memories
<1>13. Chain(L, B, 0, u)
  <2>1. u[1] = 0 /\ Len(u) # 0
    BY <1>1, <1>2
  <2>2. ASSUME NEW i \in 1 .. last + 1
        PROVE  /\ L[u[i]] = IF i = last + 1 THEN NOT_A_DS_ID ELSE u[i + 1]
               /\ B[u[i]] = IF i = 1 THEN NOT_A_DS_ID ELSE u[i - 1]
    <3>1. i - 1 \in DVs /\ u[i] = i - 1 /\ (i # last + 1 => u[i + 1] = i) /\ (i # 1 => u[i - 1] = i - 2)
      BY <1>1, <1>2 DEF DVs
    <3> HIDE DEF u
    <3>2. L[i - 1] = IF i = last + 1 THEN NOT_A_DS_ID ELSE i
      BY <3>1, <1>1
    <3>3. B[i - 1] = IF i = 1 THEN NOT_A_DS_ID ELSE i - 2
      BY <3>1, <1>1
    <3>4. QED
      BY <3>1, <3>2, <3>3
  <2> HIDE DEF L, B, u
  <2>3. QED
    BY <2>1, <2>2, <1>2 DEF Chain
<1>14. Chain(L, B, NOT_A_DS_ID, f)
  BY <1>3 DEF Chain
<1>15. C[0] = last + 1 /\ E[0] = DVSize /\ O[0] = DSStaticSize
  BY <1>8
<1>16. Lists(M, u, f)
  <2>1. /\ Len(u) >= 1 /\ M.Tail = u[Len(u)]
        /\ Range_(u) \cap Range_(f) = {}
        /\ Range_(u) \cup Range_(f) = 0 .. M.Count[0] - 1
        /\ Len(u) + Len(f) = M.Count[0]
        /\ 0 \in Range_(u)
    <3>1. M.Count[0] = last + 1 /\ last + 1 - 1 = last /\ last + 1 \in 1 .. last + 1
      BY <1>1, <1>6, <1>15
    <3>2. u[last + 1] = last
      BY <1>1, <1>2
    <3> HIDE DEF u, f
    <3>3. QED
      BY <3>1, <3>2, <1>1, <1>2, <1>3, <1>6
  <2> HIDE DEF u, f, L, B, O, E, C
  <2>2. QED
    BY <2>1, <1>6, <1>12, <1>13, <1>14 DEF Lists
<1>17. Placed(O, Extents(M, TRUE), end[last], u)
  <2> DEFINE X == Extents(M, TRUE)
  <2>1. X \in [DVs -> Nat] /\ \A d \in DVs : X[d] = Size(M, d)
    BY <1>12, ExtentsNat
  <2>2. X[0] = DVSize * (last + 1)
    BY <2>1, <1>6, <1>8, <1>15 DEF Size
  <2>3. \A d \in 1 .. last : X[d] = Default[d].ElemSize * Default[d].Count
    <3>1. ASSUME NEW d \in 1 .. last
          PROVE  d \in DVs /\ E[d] = Default[d].ElemSize /\ C[d] = Default[d].Count
      BY <1>1, <1>8
    <3> HIDE DEF E, C, X
    <3>2. ASSUME NEW d \in 1 .. last PROVE X[d] = Default[d].ElemSize * Default[d].Count
      <4>1. X[d] = M.ElemSize[d] * M.Count[d]
        BY <2>1, <3>1 DEF Size
      <4>2. QED
        BY <4>1, <3>1, <1>6
    <3>3. QED
      BY <3>2
  <2>4. ASSUME NEW d \in 1 .. last, O[d] # NOT_AN_OFFSET
        PROVE  /\ O[d] = Align(end[d - 1]) /\ end[d - 1] \in Nat /\ end[d - 1] <= O[d]
               /\ O[d] + X[d] = end[d] /\ end[d] \in Nat /\ end[d] <= end[last] /\ end[0] <= end[d - 1]
    <3>1. d \in ProgramDVs /\ Default[d].Count > 0 /\ O[d] = Align(end[d - 1])
      BY <2>4, <1>1, <1>8
    <3>2. d - 1 \in 0 .. last /\ d \in 0 .. last /\ last \in 0 .. last /\ 0 \in 0 .. d - 1
      BY <1>1
    <3>3. end[d - 1] \in Nat /\ end[d] \in Nat /\ end[d] <= end[last] /\ end[0] <= end[d - 1]
      BY <3>2, <1>7
    <3>4. end[d - 1] <= Align(end[d - 1])
      BY <3>3, Aligning
    <3> HIDE DEF O, X
    <3>5. QED
      BY <3>1, <3>3, <3>4, <2>3, <1>7
  <2>5. O[0] + X[0] = end[0] /\ end[0] <= end[last] /\ end[0] \in Nat /\ end[last] \in Nat
    <3>1. O[0] + X[0] = end[0]
      BY <1>7, <1>15, <2>2
    <3>2. 0 \in 0 .. last /\ last \in 0 .. last
      BY <1>1
    <3> HIDE DEF O, X
    <3>3. QED
      BY <3>1, <3>2, <1>7
  <2>6. \A d \in DVs : O[d] # NOT_AN_OFFSET => d = 0 \/ d \in 1 .. last
    BY <1>1
  <2>7. DSStaticSize \in Nat /\ Align(DSStaticSize) = DSStaticSize /\ DSStaticSize <= end[0]
    <3>1. DVSize * (last + 1) \in Nat /\ DSStaticSize \in Nat
      BY <2>1, <2>2, <1>8, Constants
    <3> DEFINE z == DVSize * (last + 1)
    <3> HIDE DEF z
    <3>2. DSStaticSize <= DSStaticSize + z
      BY <3>1 DEF z
    <3>3. QED
      BY <3>1, <3>2, <1>7, Constants DEF z
  <2> HIDE DEF O, X
  <2>8. ASSUME NEW i \in 1 .. last + 1, NEW j \in 1 .. last + 1, i < j,
               O[u[i]] # NOT_AN_OFFSET, O[u[j]] # NOT_AN_OFFSET
        PROVE  O[u[i]] + X[u[i]] <= O[u[j]]
    <3>1. u[i] = i - 1 /\ u[j] = j - 1 /\ j - 1 \in 1 .. last
      BY <1>1, <1>2, <2>8
    <3> DEFINE a == i - 1
               b == j - 1
    <3>2. a \in 0 .. last /\ b \in 1 .. last /\ a < b /\ u[i] = a /\ u[j] = b
      BY <3>1, <1>1, <2>8
    <3> HIDE DEF a, b, u
    <3>3. O[b] \in Nat /\ end[b - 1] \in Nat /\ end[b - 1] <= O[b] /\ end[0] <= end[b - 1]
      BY <2>4, <2>8, <3>2, <1>8, <1>10
    <3>4. O[a] + X[a] = end[a] /\ end[a] \in Nat
      <4>1. CASE a = 0
        BY <4>1, <2>5
      <4>2. CASE a # 0
        <5>1. a \in 1 .. last
          BY <4>2, <3>2, <1>1
        <5>2. QED
          BY <5>1, <2>4, <2>8, <3>2
      <4>3. QED
        BY <4>1, <4>2
    <3>5. end[a] <= end[b - 1]
      <4>1. b - 1 \in 0 .. last /\ a \in 0 .. b - 1
        BY <3>2, <1>1
      <4>2. QED
        BY <4>1, <1>7
    <3>6. O[a] + X[a] <= O[b]
      BY <3>3, <3>4, <3>5
    <3>7. QED
      BY <3>2, <3>6
  <2>9. ASSUME NEW d \in DVs, O[d] # NOT_AN_OFFSET
        PROVE  /\ d \in Range_(u) /\ DSStaticSize <= O[d] /\ Align(O[d]) = O[d]
               /\ O[d] + X[d] <= end[last]
    <3>1. d = 0 \/ d \in 1 .. last
      BY <2>6, <2>9
    <3>2. CASE d = 0
      BY <3>2, <2>5, <2>7, <1>1, <1>2, <1>15
    <3>3. CASE d \in 1 .. last
      <4>1. /\ O[d] = Align(end[d - 1]) /\ end[d - 1] \in Nat /\ end[d - 1] <= O[d]
            /\ O[d] + X[d] = end[d] /\ end[d] \in Nat /\ end[d] <= end[last] /\ end[0] <= end[d - 1]
        BY <3>3, <2>4, <2>9
      <4>2. Align(O[d]) = O[d]
        BY <4>1, Aligning
      <4>3. DSStaticSize <= O[d]
        BY <4>1, <2>5, <2>7, <1>10
      <4>4. d \in Range_(u)
        BY <3>3, <1>2
      <4>5. QED
        BY <4>1, <4>2, <4>3, <4>4
    <3>4. QED
      BY <3>1, <3>2, <3>3
  <2>10. DSStaticSize <= end[last]
    BY <2>5, <2>7
  <2>11. Len(u) = last + 1
    BY <1>2
  <2> HIDE DEF u
  <2>12. Placed(O, X, end[last], u)
    BY <2>1, <2>5, <2>8, <2>9, <2>10, <2>11, <1>10 DEF Placed
  <2>13. QED
    BY <2>12 DEF X
<1>18. M.DataspaceSize <= POOL_MAX_SIZE
  BY ProgramFits DEF M
<1>19. Static = 0 .. last
  BY <1>1 DEF Static
<1>20. \A d \in ProgramDVs : C[d] = Default[d].Count
  BY <1>1, <1>8
<1> HIDE DEF u, f, L, B, O, E, C
<1>21. Good(M, u, f, TRUE)
  BY <1>6, <1>15, <1>16, <1>17, <1>18 DEF Good
<1>22. QED
  BY <1>2, <1>6, <1>19, <1>20, <1>21 DEF M, u, f

-----------------------------------------------------------------------------
\* Another program has been activated: nothing is in its arrays of arrays or
\* in the queues.
NoElements == [d \in Nested |-> <<>>]
\* Queues without messages.
EmptySlots == [q \in Queues |-> [s \in Slots(q) |-> NOT_A_DS_ID]]

\* The memory of an activated program is sound, and its arrays of arrays are empty.
LEMMA ActivatedSound ==
  /\ Sound(ActivatedMem, Static, TRUE)
  /\ \A d \in Nested : ActivatedMem.Count[d] = 0
<1> DEFINE k == numHandles
           u == Consecutive(0, Len(Default) + 1)
           f == Consecutive(0, 0)
           R == GrowDopeVectorArray(FileMem, k)
<1>1. /\ Good(FileMem, u, f, TRUE) /\ Range_(u) = Static
      /\ FileMem.FreeHead = NOT_A_DS_ID
      /\ \A d \in ProgramDVs : FileMem.Count[d] = Default[d].Count
  BY FileGood
<1>2. k \in Nat
  <2>1. Len(Default) \in Nat
    BY StaticFacts
  <2>2. (Len(Default) + 1) \div 2 \in Nat
    BY <2>1
  <2>3. QED
    BY <2>2 DEF numHandles
<1>3. R.status = "NO_ERR"
  BY ProgramFits
<1> HIDE DEF k, u, f, R
<1>4. /\ R.status = "NO_ERR" => \E v, g : Good(R.mem, v, g, TRUE) /\ Range_(v) = Range_(u) /\ Len(g) = k
      /\ \A d \in DVs \ {0} : R.mem.Count[d] = FileMem.Count[d]
  <2> DEFINE s == TRUE
             M == FileMem
  <2>1. Good(M, u, f, s) /\ s \in BOOLEAN /\ M.FreeHead = NOT_A_DS_ID
    BY <1>1
  <2> HIDE DEF s, M
  <2>2. LET Q == GrowDopeVectorArray(M, k)
        IN  /\ Q.status = "NO_ERR" =>
                 \E v, g : Good(Q.mem, v, g, s) /\ Range_(v) = Range_(u) /\ Len(g) = k
            /\ \A d \in DVs \ {0} : Q.mem.Count[d] = M.Count[d]
    BY <2>1, <1>2, GrowGood
  <2>3. QED
    BY <2>2 DEF R, s, M
<1>5. ActivatedMem = R.mem
  BY DEF ActivatedMem, R, k
<1>6. Sound(ActivatedMem, Static, TRUE)
  BY <1>1, <1>3, <1>4, <1>5 DEF Sound
<1>7. ASSUME NEW d \in Nested PROVE ActivatedMem.Count[d] = 0
  <2>1. d \in ProgramDVs /\ d \in DVs \ {0}
    BY StaticFacts
  <2>2. Default[d] = [ElemSize |-> IndexSize, Count |-> 0]
    BY MemMgrConstants
  <2>3. Default[d].Count = 0
    BY <2>2
  <2>4. QED
    BY <2>1, <2>3, <1>1, <1>4, <1>5
<1>8. QED
  BY <1>6, <1>7

\* An activated program starts in the invariant.
LEMMA ActivatedInv ==
  MemInv(ActivatedMem, NoElements, EmptySlots, TRUE)
<1>1. Sound(ActivatedMem, Static, TRUE) /\ \A d \in Nested : ActivatedMem.Count[d] = 0
  BY ActivatedSound
<1>2. /\ DOMAIN EmptySlots = Queues
      /\ \A q \in Queues : \A s \in Slots(q) : EmptySlots[q][s] = NOT_A_DS_ID
      /\ \A q \in Queues : EmptySlots[q] \in [Slots(q) -> Ids]
  BY DEF EmptySlots, Ids
<1>3. Slotted(EmptySlots)
  BY <1>2 DEF Slotted
<1>4. SlotDVs(EmptySlots) = {}
  BY <1>2, NotADV DEF SlotDVs
<1>5. NoElements \in [Nested -> Seq(DVs \cup {STALE})] /\ \A d \in Nested : Len(NoElements[d]) = 0
  BY DEF NoElements
<1>6. ElemDVs(NoElements) = {}
  BY <1>5 DEF ElemDVs
<1>7. Holds(Static, NoElements, Static)
  BY <1>5, <1>6, StaticFacts DEF Holds
<1>8. Counted(ActivatedMem, NoElements)
  BY <1>1, <1>5, Constants DEF Counted
<1>9. Apart(Static, SlotDVs(EmptySlots))
  BY <1>4 DEF Apart
<1>10. Static \cup SlotDVs(EmptySlots) = Static
  BY <1>4
<1>11. QED
  BY <1>1, <1>3, <1>7, <1>8, <1>9, <1>10 DEF MemInv, Kept

-----------------------------------------------------------------------------
(***************************************************************************)
(* Rings.                                                                  *)
(***************************************************************************)

\* Positions in a ring: each of the N that follow r once, and then r again.
LEMMA Places ==
  ASSUME NEW N \in Nat \ {0}, NEW r \in 0 .. N - 1
  PROVE  /\ \A i \in 0 .. N : Place(r, i, N) \in 0 .. N - 1 /\ (r + i) % N = Place(r, i, N)
         /\ \A i, j \in 0 .. N - 1 : Place(r, i, N) = Place(r, j, N) => i = j
         /\ Place(r, 0, N) = r /\ Place(r, N, N) = r
         /\ \A i \in 1 .. N : Place(Place(r, 1, N), i - 1, N) = Place(r, i, N)
         /\ \A i \in 0 .. N - 1 : Place(Place(r, i, N), 1, N) = Place(r, i + 1, N)
         /\ \A x \in 0 .. N - 1 : \E i \in 0 .. N - 1 : Place(r, i, N) = x
<1>1. ASSUME NEW i \in 0 .. N
      PROVE  Place(r, i, N) \in 0 .. N - 1 /\ (r + i) % N = Place(r, i, N)
  <2>1. r + i \in Nat /\ r + i < N + N
    OBVIOUS
  <2>2. CASE r + i < N
    BY <2>1, <2>2 DEF Place
  <2>3. CASE ~(r + i < N)
    BY <2>1, <2>3 DEF Place
  <2>4. QED
    BY <2>2, <2>3
<1>2. \A i, j \in 0 .. N - 1 : Place(r, i, N) = Place(r, j, N) => i = j
  BY DEF Place
<1>3. Place(r, 0, N) = r /\ Place(r, N, N) = r
  BY DEF Place
<1>4. \A i \in 1 .. N : Place(Place(r, 1, N), i - 1, N) = Place(r, i, N)
  BY DEF Place
<1>5. \A i \in 0 .. N - 1 : Place(Place(r, i, N), 1, N) = Place(r, i + 1, N)
  BY DEF Place
<1>6. ASSUME NEW x \in 0 .. N - 1 PROVE \E i \in 0 .. N - 1 : Place(r, i, N) = x
  <2>1. CASE x >= r
    <3>1. x - r \in 0 .. N - 1 /\ Place(r, x - r, N) = x
      BY <2>1 DEF Place
    <3>2. QED
      BY <3>1
  <2>2. CASE x < r
    <3>1. (x + N) - r \in 0 .. N - 1 /\ Place(r, (x + N) - r, N) = x
      BY <2>2 DEF Place
    <3>2. QED
      BY <3>1
  <2>3. QED
    BY <2>1, <2>2
<1>7. QED
  BY <1>1, <1>2, <1>3, <1>4, <1>5, <1>6

\* The first slot is emptied.
LEMMA RingDrop ==
  ASSUME NEW slot, NEW r, NEW w, NEW N, NEW n, Ring(slot, r, w, N, n), n > 0, NEW t,
         t[r] = NOT_A_DS_ID, \A x \in 0 .. N - 1 : x # r => t[x] = slot[x]
  PROVE  Ring(t, Place(r, 1, N), w, N, n - 1)
<1> DEFINE p == Place(r, 1, N)
<1>1. /\ N \in Nat \ {0} /\ r \in 0 .. N - 1 /\ n \in 0 .. N /\ w = Place(r, n, N)
      /\ \A i \in 0 .. N - 1 : slot[Place(r, i, N)] # NOT_A_DS_ID <=> i < n
  BY DEF Ring
<1>2. /\ \A i \in 0 .. N : Place(r, i, N) \in 0 .. N - 1
      /\ \A i, j \in 0 .. N - 1 : Place(r, i, N) = Place(r, j, N) => i = j
      /\ Place(r, 0, N) = r /\ Place(r, N, N) = r
      /\ \A i \in 1 .. N : Place(p, i - 1, N) = Place(r, i, N)
  BY <1>1, Places
<1>3. 1 \in 0 .. N /\ n \in 1 .. N /\ n - 1 \in 0 .. N
  BY <1>1
<1>4. p \in 0 .. N - 1 /\ w = Place(p, n - 1, N)
  BY <1>1, <1>2, <1>3
<1> HIDE DEF p
<1>5. ASSUME NEW i \in 0 .. N - 1
      PROVE  t[Place(p, i, N)] # NOT_A_DS_ID <=> i < n - 1
  <2>1. i + 1 \in 1 .. N /\ (i + 1) - 1 = i
    BY <1>1
  <2>2. Place(p, i, N) = Place(r, i + 1, N)
    BY <2>1, <1>2
  <2>3. CASE i + 1 = N
    <3>1. Place(p, i, N) = r
      BY <2>2, <2>3, <1>2
    <3>2. ~(i < n - 1)
      BY <2>3, <1>1
    <3>3. QED
      BY <3>1, <3>2
  <2>4. CASE i + 1 # N
    <3>1. i + 1 \in 0 .. N - 1 /\ i + 1 # 0 /\ 0 \in 0 .. N - 1
      BY <2>1, <2>4, <1>1
    <3>2. Place(r, i + 1, N) # r /\ Place(r, i + 1, N) \in 0 .. N - 1
      BY <3>1, <1>1, <1>2
    <3>3. t[Place(p, i, N)] = slot[Place(r, i + 1, N)]
      BY <2>2, <3>2
    <3>4. (i + 1 < n) <=> (i < n - 1)
      BY <1>1
    <3>5. QED
      BY <3>1, <3>3, <3>4, <1>1
  <2>5. QED
    BY <2>3, <2>4
<1>6. QED
  BY <1>1, <1>3, <1>4, <1>5 DEF Ring, p

\* The slot behind the last is filled.
LEMMA RingAdd ==
  ASSUME NEW slot, NEW r, NEW w, NEW N, NEW n, Ring(slot, r, w, N, n), n < N, NEW t,
         t[w] # NOT_A_DS_ID, \A x \in 0 .. N - 1 : x # w => t[x] = slot[x]
  PROVE  Ring(t, r, Place(w, 1, N), N, n + 1)
<1>1. /\ N \in Nat \ {0} /\ r \in 0 .. N - 1 /\ n \in 0 .. N /\ w = Place(r, n, N)
      /\ \A i \in 0 .. N - 1 : slot[Place(r, i, N)] # NOT_A_DS_ID <=> i < n
  BY DEF Ring
<1>2. n \in 0 .. N - 1 /\ n + 1 \in 0 .. N
  BY <1>1
<1>3. /\ \A i \in 0 .. N : Place(r, i, N) \in 0 .. N - 1
      /\ \A i, j \in 0 .. N - 1 : Place(r, i, N) = Place(r, j, N) => i = j
      /\ Place(w, 1, N) = Place(r, n + 1, N)
  <2>1. /\ \A i \in 0 .. N : Place(r, i, N) \in 0 .. N - 1
        /\ \A i, j \in 0 .. N - 1 : Place(r, i, N) = Place(r, j, N) => i = j
        /\ \A i \in 0 .. N - 1 : Place(Place(r, i, N), 1, N) = Place(r, i + 1, N)
    BY <1>1, Places
  <2>2. QED
    BY <2>1, <1>1, <1>2
<1>4. ASSUME NEW i \in 0 .. N - 1
      PROVE  t[Place(r, i, N)] # NOT_A_DS_ID <=> i < n + 1
  <2>1. CASE i = n
    BY <2>1, <1>1, <1>2
  <2>2. CASE i # n
    <3>1. Place(r, i, N) # w /\ Place(r, i, N) \in 0 .. N - 1
      BY <2>2, <1>1, <1>2, <1>3
    <3>2. t[Place(r, i, N)] = slot[Place(r, i, N)]
      BY <3>1
    <3>3. (i < n + 1) <=> (i < n)
      BY <2>2, <1>1
    <3>4. QED
      BY <3>2, <3>3, <1>1
  <2>3. QED
    BY <2>1, <2>2
<1>5. QED
  BY <1>1, <1>2, <1>3, <1>4 DEF Ring

\* The read and the write index meet if nothing or everything is in use.
LEMMA RingFacts ==
  ASSUME NEW slot, NEW r, NEW w, NEW N, NEW n, Ring(slot, r, w, N, n)
  PROVE  /\ N \in Nat \ {0} /\ n \in 0 .. N /\ r \in 0 .. N - 1 /\ w \in 0 .. N - 1
         /\ slot[r] # NOT_A_DS_ID <=> n > 0
         /\ slot[w] # NOT_A_DS_ID <=> n = N
         /\ n = N => w = r
         /\ (w + 1) % N = Place(w, 1, N) /\ (r + 1) % N = Place(r, 1, N)
         /\ \A x \in 0 .. N - 1 : \E i \in 0 .. N - 1 : Place(r, i, N) = x
<1>1. /\ N \in Nat \ {0} /\ r \in 0 .. N - 1 /\ n \in 0 .. N /\ w = Place(r, n, N)
      /\ \A i \in 0 .. N - 1 : slot[Place(r, i, N)] # NOT_A_DS_ID <=> i < n
  BY DEF Ring
<1>2. /\ \A i \in 0 .. N : Place(r, i, N) \in 0 .. N - 1 /\ (r + i) % N = Place(r, i, N)
      /\ Place(r, 0, N) = r /\ Place(r, N, N) = r
      /\ \A x \in 0 .. N - 1 : \E i \in 0 .. N - 1 : Place(r, i, N) = x
  BY <1>1, Places
<1>3. 0 \in 0 .. N - 1 /\ 1 \in 0 .. N /\ w \in 0 .. N - 1
  BY <1>1, <1>2
<1>4. slot[r] # NOT_A_DS_ID <=> n > 0
  <2>1. slot[Place(r, 0, N)] # NOT_A_DS_ID <=> 0 < n
    BY <1>1, <1>3
  <2>2. QED
    BY <2>1, <1>1, <1>2
<1>5. slot[w] # NOT_A_DS_ID <=> n = N
  <2>1. CASE n = N
    <3>1. w = r /\ n > 0
      BY <2>1, <1>1, <1>2
    <3>2. QED
      BY <3>1, <2>1, <1>4
  <2>2. CASE n # N
    <3>1. n \in 0 .. N - 1 /\ ~(n < n)
      BY <2>2, <1>1
    <3>2. QED
      BY <3>1, <2>2, <1>1
  <2>3. QED
    BY <2>1, <2>2
<1>6. \A i \in 0 .. N : (w + i) % N = Place(w, i, N)
  BY <1>1, <1>3, Places
<1>7. QED
  BY <1>1, <1>2, <1>3, <1>4, <1>5, <1>6

\* A ring holds as many messages as it has slots with a DV.
LEMMA RingCount ==
  ASSUME NEW slot, NEW r, NEW w, NEW N, NEW n, Ring(slot, r, w, N, n)
  PROVE  Cardinality({x \in 0 .. N - 1 : slot[x] # NOT_A_DS_ID}) = n
<1> DEFINE S == {x \in 0 .. N - 1 : slot[x] # NOT_A_DS_ID}
           g == [i \in 1 .. n |-> Place(r, i - 1, N)]
<1>1. /\ N \in Nat \ {0} /\ r \in 0 .. N - 1 /\ n \in 0 .. N
      /\ \A i \in 0 .. N - 1 : slot[Place(r, i, N)] # NOT_A_DS_ID <=> i < n
  BY DEF Ring
<1>2. /\ \A i \in 0 .. N : Place(r, i, N) \in 0 .. N - 1
      /\ \A i, j \in 0 .. N - 1 : Place(r, i, N) = Place(r, j, N) => i = j
      /\ \A x \in 0 .. N - 1 : \E i \in 0 .. N - 1 : Place(r, i, N) = x
  BY <1>1, Places
<1>3. \A i \in 1 .. n : i - 1 \in 0 .. N - 1 /\ i - 1 \in 0 .. N /\ i - 1 < n
  BY <1>1
<1>4. g \in [1 .. n -> S]
  BY <1>1, <1>2, <1>3
<1>5. \A i, j \in 1 .. n : g[i] = g[j] => i = j
  <2> SUFFICES ASSUME NEW i \in 1 .. n, NEW j \in 1 .. n, g[i] = g[j] PROVE i = j
    OBVIOUS
  <2>1. i - 1 = j - 1
    BY <1>2, <1>3
  <2>2. QED
    BY <2>1, <1>1
<1>6. \A x \in S : \E i \in 1 .. n : g[i] = x
  <2> SUFFICES ASSUME NEW x \in S PROVE \E i \in 1 .. n : g[i] = x
    OBVIOUS
  <2>1. PICK i \in 0 .. N - 1 : Place(r, i, N) = x
    BY <1>2
  <2>2. i + 1 \in 1 .. n /\ (i + 1) - 1 = i
    BY <2>1, <1>1
  <2>3. g[i + 1] = x
    BY <2>1, <2>2
  <2> HIDE DEF g
  <2>4. QED
    BY <2>2, <2>3
<1> HIDE DEF g, S
<1>7. g \in Bijection(1 .. n, S)
  BY <1>4, <1>5, <1>6 DEF Bijection, Injection, Surjection, IsInjective
<1>8. ExistsBijection(1 .. n, S)
  BY <1>7 DEF ExistsBijection
<1>9. Cardinality(S) = n
  BY <1>1, <1>8, FS_CountingElements
<1>10. QED
  BY <1>9 DEF S

\* What the ring holds.
LEMMA HeldFacts ==
  ASSUME NEW slot, NEW r, NEW N, NEW n \in Nat, NEW c
  PROVE  /\ Len(Held(slot, r, N, n, c)) = n /\ DOMAIN Held(slot, r, N, n, c) = 1 .. n
         /\ \A i \in 1 .. n : Held(slot, r, N, n, c)[i] = c[slot[Place(r, i - 1, N)]]
BY DEF Held

\* The values that the ring holds are the same, without the oldest.
SameButOldest(slot, t, r, N, n, c, d) ==
  \A i \in 1 .. n - 1 : d[t[Place(r, i, N)]] = c[slot[Place(r, i, N)]]

\* The first n messages are the same in both rings.
SameValues(slot, t, r, N, n, c, d) ==
  \A i \in 1 .. n : d[t[Place(r, i - 1, N)]] = c[slot[Place(r, i - 1, N)]]

\* A ring without its oldest message.
LEMMA HeldDrop ==
  ASSUME NEW slot, NEW r, NEW w, NEW N, NEW n, Ring(slot, r, w, N, n), n > 0, NEW c, NEW t, NEW d,
         SameButOldest(slot, t, r, N, n, c, d)
  PROVE  Held(t, Place(r, 1, N), N, n - 1, d) = Tail(Held(slot, r, N, n, c))
<1> DEFINE p == Place(r, 1, N)
           H == Held(slot, r, N, n, c)
           K == Held(t, p, N, n - 1, d)
<1>1. /\ N \in Nat \ {0} /\ r \in 0 .. N - 1 /\ n \in 0 .. N
  BY DEF Ring
<1>2. \A i \in 1 .. N : Place(p, i - 1, N) = Place(r, i, N)
  BY <1>1, Places
<1>3. n \in Nat /\ n - 1 \in Nat /\ n > 0
  BY <1>1
<1>4. H = [i \in 1 .. n |-> c[slot[Place(r, i - 1, N)]]]
  BY DEF Held
<1>5. K = [i \in 1 .. n - 1 |-> d[t[Place(p, i - 1, N)]]]
  BY DEF Held
<1> HIDE DEF H, K, p
<1> DEFINE S == {H[i] : i \in 1 .. n}
<1>6. Len(H) = n /\ H \in Seq(S)
  <2>1. \A i \in 1 .. n : H[i] \in S
    OBVIOUS
  <2> HIDE DEF S
  <2>2. DOMAIN H = 1 .. n /\ H = [i \in 1 .. n |-> H[i]]
    BY <1>4
  <2>3. H \in [1 .. n -> S]
    BY <2>1, <2>2
  <2>4. QED
    BY <2>3, <1>3
<1> HIDE DEF S
<1>7. Tail(H) = [i \in 1 .. n - 1 |-> H[i + 1]]
  <2> DEFINE T == Tail(H)
  <2>1. H # <<>>
    BY <1>3, <1>6
  <2>2. T \in Seq(S) /\ Len(T) = n - 1
    BY <2>1, <1>3, <1>6
  <2>3. \A i \in 1 .. n - 1 : T[i] = H[i + 1]
    BY <2>1, <1>3, <1>6
  <2> HIDE DEF T
  <2>4. T = [i \in 1 .. n - 1 |-> T[i]]
    BY <2>2, <1>3
  <2>5. QED
    BY <2>3, <2>4 DEF T
<1>8. ASSUME NEW i \in 1 .. n - 1 PROVE d[t[Place(p, i - 1, N)]] = H[i + 1]
  <2>1. i \in 1 .. N /\ i + 1 \in 1 .. n /\ (i + 1) - 1 = i
    BY <1>1, <1>3
  <2>2. H[i + 1] = c[slot[Place(r, i, N)]]
    BY <2>1, <1>4
  <2>3. d[t[Place(p, i - 1, N)]] = d[t[Place(r, i, N)]]
    BY <2>1, <1>2
  <2>4. QED
    BY <2>2, <2>3 DEF SameButOldest
<1>9. QED
  BY <1>5, <1>7, <1>8 DEF H, K, p

\* A ring with one more message.
LEMMA HeldAdd ==
  ASSUME NEW slot, NEW r, NEW w, NEW N, NEW n, Ring(slot, r, w, N, n), n < N, NEW c, NEW t, NEW d,
         SameValues(slot, t, r, N, n, c, d)
  PROVE  Held(t, r, N, n + 1, d) = Append(Held(slot, r, N, n, c), d[t[w]])
<1> DEFINE H == Held(slot, r, N, n, c)
           K == Held(t, r, N, n + 1, d)
<1>1. /\ N \in Nat \ {0} /\ r \in 0 .. N - 1 /\ n \in 0 .. N /\ w = Place(r, n, N)
  BY DEF Ring
<1>2. n \in Nat /\ n + 1 \in Nat /\ (n + 1) - 1 = n
  BY <1>1
<1>3. H = [i \in 1 .. n |-> c[slot[Place(r, i - 1, N)]]]
  BY DEF Held
<1>4. K = [i \in 1 .. n + 1 |-> d[t[Place(r, i - 1, N)]]]
  BY DEF Held
<1> DEFINE A == Append(H, d[t[w]])
<1> HIDE DEF H, K
<1> DEFINE S == {H[i] : i \in 1 .. n} \cup {d[t[w]]}
<1>5. Len(H) = n /\ H \in Seq(S) /\ d[t[w]] \in S
  <2>1. \A i \in 1 .. n : H[i] \in S
    OBVIOUS
  <2>2. d[t[w]] \in S
    OBVIOUS
  <2> HIDE DEF S
  <2>3. DOMAIN H = 1 .. n /\ H = [i \in 1 .. n |-> H[i]]
    BY <1>3
  <2>4. H \in [1 .. n -> S]
    BY <2>1, <2>3
  <2>5. QED
    BY <2>2, <2>4, <1>2
<1> HIDE DEF S
<1>6. A = [i \in 1 .. n + 1 |-> IF i = n + 1 THEN d[t[w]] ELSE H[i]]
  BY <1>2, <1>5
<1>7. ASSUME NEW i \in 1 .. n + 1
      PROVE  d[t[Place(r, i - 1, N)]] = IF i = n + 1 THEN d[t[w]] ELSE H[i]
  <2>1. CASE i = n + 1
    BY <2>1, <1>1, <1>2
  <2>2. CASE i # n + 1
    <3>1. i \in 1 .. n
      BY <2>2, <1>2
    <3>2. QED
      BY <3>1, <2>2, <1>3 DEF SameValues
  <2>3. QED
    BY <2>1, <2>2
<1>8. QED
  BY <1>4, <1>6, <1>7 DEF H, K

\* A ring whose slots and messages have not changed.
LEMMA HeldSame ==
  ASSUME NEW slot, NEW r, NEW N, NEW n, NEW c, NEW t, NEW d,
         SameValues(slot, t, r, N, n, c, d)
  PROVE  Held(t, r, N, n, d) = Held(slot, r, N, n, c)
BY DEF Held, SameValues

\* What ImplementsFifo takes for the messages in a queue.
QueuedIn(Ms, R, c, q) ==
  LET n == Cardinality({s \in Slots(q) : Ms[q][s] # NOT_A_DS_ID})
  IN  [i \in 1 .. n |-> c[Ms[q][(R[q] + i - 1) % MESSAGES_PER_QUEUE[q]]]]

\* The messages of a queue that is a ring.
LEMMA QueuedHeld ==
  ASSUME NEW q \in Queues, NEW Ms, NEW R, NEW W, NEW c, NEW n,
         Ring(Ms[q], R[q], W[q], MESSAGES_PER_QUEUE[q], n)
  PROVE  QueuedIn(Ms, R, c, q) = Held(Ms[q], R[q], MESSAGES_PER_QUEUE[q], n, c)
<1> DEFINE slot == Ms[q]
           r == R[q]
           w == W[q]
           N == MESSAGES_PER_QUEUE[q]
<1>1. /\ N \in Nat \ {0} /\ r \in 0 .. N - 1 /\ n \in 0 .. N
  BY DEF Ring
<1>2. Cardinality({x \in 0 .. N - 1 : slot[x] # NOT_A_DS_ID}) = n
  <2> HIDE DEF slot, r, w, N
  <2>1. Ring(slot, r, w, N, n)
    BY DEF slot, r, w, N
  <2>2. QED
    BY <2>1, RingCount
<1>3. QueuedIn(Ms, R, c, q) = [i \in 1 .. n |-> c[slot[(r + i - 1) % N]]]
  BY <1>2 DEF QueuedIn, Slots
<1> HIDE DEF slot, r, w, N
<1>4. \A i \in 1 .. n : (r + i - 1) % N = Place(r, i - 1, N)
  <2>1. \A i \in 0 .. N : (r + i) % N = Place(r, i, N)
    BY <1>1, Places
  <2>2. \A i \in 1 .. n : r + i - 1 = r + (i - 1) /\ i - 1 \in 0 .. N
    BY <1>1
  <2>3. QED
    BY <2>1, <2>2
<1>5. QED
  BY <1>3, <1>4 DEF Held, slot, r, N

\* t is slot with y in w.
Filled(slot, t, w, N, y) == t[w] = y /\ \A x \in 0 .. N - 1 : x # w => t[x] = slot[x]

\* d has what c has for every slot but w.
KeepsOthers(slot, w, N, c, d) ==
  \A x \in 0 .. N - 1 : x # w /\ slot[x] # NOT_A_DS_ID => d[slot[x]] = c[slot[x]]

\* The oldest message goes.
LEMMA TakeRing ==
  ASSUME NEW slot, NEW r, NEW w, NEW N, NEW n, Ring(slot, r, w, N, n), n > 0,
         NEW t, Filled(slot, t, r, N, NOT_A_DS_ID), NEW c, NEW d, KeepsOthers(slot, r, N, c, d)
  PROVE  /\ Ring(t, Place(r, 1, N), w, N, n - 1)
         /\ Held(t, Place(r, 1, N), N, n - 1, d) = Tail(Held(slot, r, N, n, c))
<1>1. /\ N \in Nat \ {0} /\ r \in 0 .. N - 1 /\ n \in 0 .. N
      /\ \A i \in 0 .. N - 1 : slot[Place(r, i, N)] # NOT_A_DS_ID <=> i < n
  BY DEF Ring
<1>2. Ring(t, Place(r, 1, N), w, N, n - 1)
  BY RingDrop DEF Filled
<1>3. ASSUME NEW i \in 1 .. n - 1 PROVE d[t[Place(r, i, N)]] = c[slot[Place(r, i, N)]]
  <2>1. i \in 0 .. N - 1 /\ i # 0 /\ 0 \in 0 .. N - 1 /\ i < n /\ i \in 0 .. N
    BY <1>1
  <2>2. /\ \A j \in 0 .. N : Place(r, j, N) \in 0 .. N - 1
        /\ \A j, k \in 0 .. N - 1 : Place(r, j, N) = Place(r, k, N) => j = k
        /\ Place(r, 0, N) = r
    BY <1>1, Places
  <2>3. Place(r, i, N) \in 0 .. N - 1 /\ Place(r, i, N) # r
    BY <2>1, <2>2
  <2>4. slot[Place(r, i, N)] # NOT_A_DS_ID
    BY <1>1, <2>1
  <2>5. QED
    BY <2>3, <2>4 DEF Filled, KeepsOthers
<1>4. Held(t, Place(r, 1, N), N, n - 1, d) = Tail(Held(slot, r, N, n, c))
  <2>1. SameButOldest(slot, t, r, N, n, c, d)
    BY <1>3 DEF SameButOldest
  <2>2. QED
    BY <2>1, HeldDrop
<1>5. QED
  BY <1>2, <1>4

\* What a write leaves of a ring of N slots, n of them in use: it makes room.
FirstLeft(r, n, N) == IF n = N THEN Place(r, 1, N) ELSE r
\* How many messages a write leaves of n, and which; and the one it adds.
NumberLeft(n, N) == IF n = N THEN n - 1 ELSE n
HeldLeft(H, n, N) == IF n = N THEN Tail(H) ELSE H
Followed(h, m) == Append(h, m)

\* A write that finds no memory has made room, if there was none.
LEMMA RoomRing ==
  ASSUME NEW slot, NEW r, NEW w, NEW N, NEW n, Ring(slot, r, w, N, n),
         NEW t, Filled(slot, t, w, N, NOT_A_DS_ID), NEW c, NEW d, KeepsOthers(slot, w, N, c, d)
  PROVE  /\ Ring(t, FirstLeft(r, n, N), w, N, NumberLeft(n, N))
         /\ Held(t, FirstLeft(r, n, N), N, NumberLeft(n, N), d)
              = HeldLeft(Held(slot, r, N, n, c), n, N)
<1>1. /\ N \in Nat \ {0} /\ n \in 0 .. N /\ r \in 0 .. N - 1
      /\ slot[w] # NOT_A_DS_ID <=> n = N
      /\ n = N => w = r
  BY RingFacts
<1>2. CASE n = N
  <2>1. w = r /\ n > 0
    BY <1>1, <1>2
  <2>2. /\ Ring(t, Place(r, 1, N), w, N, n - 1)
        /\ Held(t, Place(r, 1, N), N, n - 1, d) = Tail(Held(slot, r, N, n, c))
    BY <2>1, TakeRing
  <2>3. QED
    BY <2>2, <1>2 DEF FirstLeft, NumberLeft, HeldLeft
<1>3. CASE n # N
  <2>1. /\ w = Place(r, n, N)
        /\ \A i \in 0 .. N - 1 : slot[Place(r, i, N)] # NOT_A_DS_ID <=> i < n
    BY DEF Ring
  <2>2. /\ \A j \in 0 .. N : Place(r, j, N) \in 0 .. N - 1
        /\ \A j, k \in 0 .. N - 1 : Place(r, j, N) = Place(r, k, N) => j = k
    BY <1>1, Places
  <2>3. n \in 0 .. N - 1 /\ slot[w] = NOT_A_DS_ID
    BY <1>1, <1>3
  <2>4. \A x \in 0 .. N - 1 : t[x] = slot[x]
    BY <2>3 DEF Filled
  <2>5. Ring(t, r, w, N, n)
    BY <1>1, <2>1, <2>2, <2>4 DEF Ring
  <2>6. ASSUME NEW i \in 1 .. n
        PROVE  d[t[Place(r, i - 1, N)]] = c[slot[Place(r, i - 1, N)]]
    <3>1. i - 1 \in 0 .. N - 1 /\ i - 1 \in 0 .. N /\ i - 1 < n /\ i - 1 # n
      BY <1>1
    <3> DEFINE z == Place(r, i - 1, N)
    <3>2. z \in 0 .. N - 1 /\ z # w /\ slot[z] # NOT_A_DS_ID
      BY <3>1, <2>1, <2>2, <2>3
    <3> HIDE DEF z
    <3>3. d[t[z]] = c[slot[z]]
      BY <3>2, <2>4 DEF KeepsOthers
    <3>4. QED
      BY <3>3 DEF z
  <2>7. Held(t, r, N, n, d) = Held(slot, r, N, n, c)
    <3>1. SameValues(slot, t, r, N, n, c, d)
      BY <2>6 DEF SameValues
    <3>2. QED
      BY <3>1, HeldSame
  <2>8. QED
    BY <1>3, <2>5, <2>7 DEF FirstLeft, NumberLeft, HeldLeft
<1>4. QED
  BY <1>2, <1>3

\* A write makes room, if there is none, and adds its message.
LEMMA AddRing ==
  ASSUME NEW slot, NEW r, NEW w, NEW N, NEW n, Ring(slot, r, w, N, n),
         NEW y, y # NOT_A_DS_ID,
         NEW t, Filled(slot, t, w, N, y), NEW c, NEW d, KeepsOthers(slot, w, N, c, d)
  PROVE  /\ Ring(t, FirstLeft(r, n, N), Place(w, 1, N), N, NumberLeft(n, N) + 1)
         /\ Held(t, FirstLeft(r, n, N), N, NumberLeft(n, N) + 1, d)
              = Followed(HeldLeft(Held(slot, r, N, n, c), n, N), d[y])
<1> DEFINE first == FirstLeft(r, n, N)
           left == NumberLeft(n, N)
           K == HeldLeft(Held(slot, r, N, n, c), n, N)
<1> DEFINE e == [x \in 0 .. N - 1 |-> IF x = w THEN NOT_A_DS_ID ELSE slot[x]]
<1>1. /\ N \in Nat \ {0} /\ n \in 0 .. N /\ r \in 0 .. N - 1 /\ w \in 0 .. N - 1
  BY RingFacts
<1>2. Filled(slot, e, w, N, NOT_A_DS_ID)
  BY <1>1 DEF Filled
<1>3. left < N /\ left \in 0 .. N
  BY <1>1 DEF NumberLeft
<1>4. e[w] = NOT_A_DS_ID /\ \A x \in 0 .. N - 1 : x # w => e[x] = slot[x]
  BY <1>2 DEF Filled
<1>5. t[w] = y /\ \A x \in 0 .. N - 1 : x # w => t[x] = slot[x]
  BY DEF Filled
<1> HIDE DEF e
<1>6. Ring(e, first, w, N, left) /\ Held(e, first, N, left, d) = K
  BY <1>2, RoomRing
<1> HIDE DEF first, left, K
<1>7. Ring(t, first, Place(w, 1, N), N, left + 1)
  <2>1. t[w] # NOT_A_DS_ID /\ \A x \in 0 .. N - 1 : x # w => t[x] = e[x]
    BY <1>4, <1>5
  <2>2. QED
    BY <2>1, <1>3, <1>6, RingAdd
<1>8. ASSUME NEW i \in 1 .. left
      PROVE  d[t[Place(first, i - 1, N)]] = d[e[Place(first, i - 1, N)]]
  <2>1. first \in 0 .. N - 1 /\ w = Place(first, left, N)
    BY <1>6 DEF Ring
  <2>2. i - 1 \in 0 .. N - 1 /\ i - 1 \in 0 .. N /\ left \in 0 .. N - 1 /\ i - 1 # left
    BY <1>1, <1>3
  <2>3. /\ \A j \in 0 .. N : Place(first, j, N) \in 0 .. N - 1
        /\ \A j, k \in 0 .. N - 1 : Place(first, j, N) = Place(first, k, N) => j = k
    BY <1>1, <2>1, Places
  <2>4. Place(first, i - 1, N) # w /\ Place(first, i - 1, N) \in 0 .. N - 1
    BY <2>1, <2>2, <2>3
  <2>5. QED
    BY <2>4, <1>4, <1>5
<1>9. Held(t, first, N, left + 1, d) = Append(Held(e, first, N, left, d), d[t[w]])
  <2>1. SameValues(e, t, first, N, left, d, d)
    BY <1>8 DEF SameValues
  <2>2. QED
    BY <2>1, <1>3, <1>6, HeldAdd
<1>10. QED
  BY <1>5, <1>6, <1>7, <1>9 DEF first, left, K, Followed

\* msgs is what the queues hold.
HoldsIn(Ms, R, W, c, q, h) ==
  \E n \in 0 .. MESSAGES_PER_QUEUE[q] :
    /\ Ring(Ms[q], R[q], W[q], MESSAGES_PER_QUEUE[q], n)
    /\ h = Held(Ms[q], R[q], MESSAGES_PER_QUEUE[q], n, c)

\* The queues hold the messages msgs.
Holding(Ms, R, W, c, msgs) == \A q \in Queues : HoldsIn(Ms, R, W, c, q, msgs[q])

\* What it is not about is the same.
Unmoved(f, g, q) == \A p \in Queues : p # q => f[p] = g[p]

\* The values of the DVs that other queues than q hold are the same.
OthersKeep(Ms, c, d, q) ==
  \A p \in Queues : p # q =>
    \A s \in Slots(p) : Ms[p][s] # NOT_A_DS_ID => d[Ms[p][s]] = c[Ms[p][s]]

\* Only one queue changes.
LEMMA HoldingOne ==
  ASSUME NEW Ms, NEW R, NEW W, NEW c, NEW msgs, Holding(Ms, R, W, c, msgs), DOMAIN msgs = Queues,
         NEW q \in Queues, NEW Ns, NEW T, NEW X, NEW d,
         Unmoved(Ms, Ns, q), Unmoved(R, T, q), Unmoved(W, X, q), OthersKeep(Ms, c, d, q),
         NEW h, HoldsIn(Ns, T, X, d, q, h)
  PROVE  Holding(Ns, T, X, d, [msgs EXCEPT ![q] = h])
<1> DEFINE new == [msgs EXCEPT ![q] = h]
<1>1. new[q] = h /\ \A p \in Queues : p # q => new[p] = msgs[p]
  OBVIOUS
<1> HIDE DEF new
<1>2. ASSUME NEW p \in Queues, p # q PROVE HoldsIn(Ns, T, X, d, p, msgs[p])
  <2> DEFINE slot == Ms[p]
             r == R[p]
             w == W[p]
             N == MESSAGES_PER_QUEUE[p]
  <2>1. Ns[p] = slot /\ T[p] = r /\ X[p] = w
    BY <1>2 DEF Unmoved
  <2>2. PICK n \in 0 .. N : Ring(slot, r, w, N, n) /\ msgs[p] = Held(slot, r, N, n, c)
    BY DEF Holding, HoldsIn
  <2>3. \A s \in 0 .. N - 1 : slot[s] # NOT_A_DS_ID => d[slot[s]] = c[slot[s]]
    BY <1>2 DEF OthersKeep, Slots
  <2> HIDE DEF slot, r, w, N
  <2>4. ASSUME NEW i \in 1 .. n
        PROVE  d[slot[Place(r, i - 1, N)]] = c[slot[Place(r, i - 1, N)]]
    <3>1. /\ N \in Nat \ {0} /\ r \in 0 .. N - 1
          /\ \A j \in 0 .. N - 1 : slot[Place(r, j, N)] # NOT_A_DS_ID <=> j < n
      BY <2>2 DEF Ring
    <3>2. i - 1 \in 0 .. N - 1 /\ i - 1 \in 0 .. N /\ i - 1 < n
      BY <3>1, <2>2
    <3>3. Place(r, i - 1, N) \in 0 .. N - 1
      BY <3>1, <3>2, Places
    <3>4. QED
      BY <3>1, <3>2, <3>3, <2>3
  <2>5. Held(slot, r, N, n, d) = Held(slot, r, N, n, c)
    <3>1. SameValues(slot, slot, r, N, n, c, d)
      BY <2>4 DEF SameValues
    <3>2. QED
      BY <3>1, HeldSame
  <2>6. QED
    BY <2>1, <2>2, <2>5 DEF HoldsIn, slot, r, w, N
<1>3. QED
  BY <1>1, <1>2 DEF Holding, new

\* The slots of the queue that are in use are the ones behind its first.
Ringed(Ms, R, W, q) ==
  \E n \in 0 .. MESSAGES_PER_QUEUE[q] : Ring(Ms[q], R[q], W[q], MESSAGES_PER_QUEUE[q], n)

\* What queues hold is what Queued reads from them.
LEMMA HoldingQueued ==
  ASSUME NEW Ms, NEW R, NEW W, NEW c, NEW msgs, Holding(Ms, R, W, c, msgs)
  PROVE  \A q \in Queues : Ringed(Ms, R, W, q) /\ QueuedIn(Ms, R, c, q) = msgs[q]
<1> SUFFICES ASSUME NEW q \in Queues
             PROVE  Ringed(Ms, R, W, q) /\ QueuedIn(Ms, R, c, q) = msgs[q]
  OBVIOUS
<1>1. PICK n \in 0 .. MESSAGES_PER_QUEUE[q] :
        /\ Ring(Ms[q], R[q], W[q], MESSAGES_PER_QUEUE[q], n)
        /\ msgs[q] = Held(Ms[q], R[q], MESSAGES_PER_QUEUE[q], n, c)
  BY DEF Holding, HoldsIn
<1>2. QueuedIn(Ms, R, c, q) = Held(Ms[q], R[q], MESSAGES_PER_QUEUE[q], n, c)
  BY <1>1, QueuedHeld
<1>3. QED
  BY <1>1, <1>2 DEF Ringed

\* Rings hold what Queued reads from them.
LEMMA QueuedHolding ==
  ASSUME NEW Ms, NEW R, NEW W, NEW c, \A q \in Queues : Ringed(Ms, R, W, q)
  PROVE  Holding(Ms, R, W, c, [q \in Queues |-> QueuedIn(Ms, R, c, q)])
<1>1. ASSUME NEW q \in Queues PROVE HoldsIn(Ms, R, W, c, q, QueuedIn(Ms, R, c, q))
  <2>1. PICK n \in 0 .. MESSAGES_PER_QUEUE[q] :
          Ring(Ms[q], R[q], W[q], MESSAGES_PER_QUEUE[q], n)
    BY DEF Ringed
  <2>2. QED
    BY <2>1, QueuedHeld DEF HoldsIn
<1>2. QED
  BY <1>1 DEF Holding

-----------------------------------------------------------------------------
(***************************************************************************)
(* The inductive invariant.                                                *)
(***************************************************************************)

\* The inductive invariant.
IInv ==
  /\ running \in BOOLEAN /\ wild \in BOOLEAN
  /\ MemInv(mem, elements, Messages, ~wild)
  /\ DOMAIN ReadIndex = Queues /\ DOMAIN WriteIndex = Queues /\ DOMAIN content = DVs
  /\ \A q \in Queues : Ringed(Messages, ReadIndex, WriteIndex, q)

\* Once memory has been overgrown the invariant says less.
LEMMA MemInvWeaker ==
  ASSUME NEW M, NEW El, NEW Ms, NEW s \in BOOLEAN, MemInv(M, El, Ms, s),
         NEW t \in BOOLEAN, t => s
  PROVE  MemInv(M, El, Ms, t)
<1>1. CASE t = s
  BY <1>1
<1>2. CASE t # s
  <2>1. t = FALSE
    BY <1>2
  <2> DEFINE P == Static \cup SlotDVs(Ms)
  <2>2. Kept(M, El, P, FALSE)
    BY KeptWeaker DEF MemInv
  <2>3. MemInv(M, El, Ms, FALSE)
    BY <2>2 DEF MemInv
  <2>4. QED
    BY <2>1, <2>3
<1>3. QED
  BY <1>1, <1>2

\* Overgrows, of the current memory.
LEMMA OvergrowsIs ==
  ASSUME NEW d, NEW n
  PROVE  Overgrows(d, n) <=> Overgrown(mem, d, n)
BY DEF Overgrows, Overgrown

\* What the retried instructions compute.
LEMMA StoreShape ==
  ASSUME NEW M, NEW x, NEW size
  PROVE  LET R == StoreIn(M, x, size) IN R = [mem |-> R.mem, status |-> R.status, dv |-> R.dv]
<1> DEFINE R == StoreIn(M, x, size)
           alloc == IF IS_DV_INDEX_SANE(M, x) THEN [mem |-> M, status |-> "NO_ERR", dv |-> x]
                    ELSE AllocDopeVector(M, 1)
           array == DVArrayAlloc(alloc.mem, alloc.dv, size)
<1>1. alloc = [mem |-> alloc.mem, status |-> alloc.status, dv |-> alloc.dv]
  BY DEF AllocDopeVector, TakenFrom
<1>2. R = IF alloc.status = "ERR_MEM" THEN alloc ELSE StoredIn(alloc, array)
  BY DEF StoreIn, Store, StoredWith
<1> HIDE DEF alloc, array
<1>3. LET Q == StoredIn(alloc, array) IN Q = [mem |-> Q.mem, status |-> Q.status, dv |-> Q.dv]
  BY DEF StoredIn
<1>4. QED
  BY <1>1, <1>2, <1>3

\* The retry of a write.
LEMMA RetriedStore ==
  ASSUME NEW M, NEW x, NEW size
  PROVE  LET S == [mem |-> M, dv |-> x]
             Alloc(s) == Store([mem |-> s.mem, dv |-> s.dv], size)
         IN  Retried(Alloc, S) = StoreTwice(M, x, size)
<1> DEFINE R == StoreIn(M, x, size)
           Q == [R EXCEPT !.mem = DSCompact(@)]
<1>1. R = [mem |-> R.mem, status |-> R.status, dv |-> R.dv]
  BY StoreShape
<1> HIDE DEF R
<1>2. Q.mem = DSCompact(R.mem) /\ Q.dv = R.dv
  BY <1>1
<1> HIDE DEF Q
<1>3. StoreTwice(M, x, size) = IF R.status = "ERR_MEM" THEN StoreIn(Q.mem, Q.dv, size) ELSE R
  BY <1>2 DEF StoreTwice, R
<1>4. QED
  BY <1>3 DEF Retried, OrAfterCompaction, StoreIn, R, Q

\* DSArrayAlloc returns a memory, a status and elements.
LEMMA ArrayShape ==
  ASSUME NEW M, NEW El, NEW d, NEW n
  PROVE  LET R == ArrayAlloc(M, El, d, n)
         IN  R = [mem |-> R.mem, status |-> R.status, elements |-> R.elements]
BY DEF ArrayAlloc, DSArrayAlloc, ResizeElements, Lengthened

\* DSArrayAlloc depends on the memory and the elements only.
LEMMA ArrayFrame ==
  ASSUME NEW S, NEW d, NEW n
  PROVE  DSArrayAlloc(S, d, n) = ArrayAlloc(S.mem, S.elements, d, n)
<1> DEFINE S1 == [mem |-> S.mem, elements |-> S.elements]
<1>1. S1.mem = S.mem /\ S1.elements = S.elements
  OBVIOUS
<1> HIDE DEF S1
<1>2. \A old, array : ResizeElements(S1, d, old, n, array) = ResizeElements(S, d, old, n, array)
  BY <1>1 DEF ResizeElements, Lengthened
<1>3. ArrayAlloc(S.mem, S.elements, d, n) = DSArrayAlloc(S1, d, n)
  BY DEF ArrayAlloc, S1
<1>4. QED
  BY <1>1, <1>2, <1>3 DEF DSArrayAlloc

\* The retry of an array instruction.
LEMMA RetriedArray ==
  ASSUME NEW M, NEW El, NEW d, NEW n
  PROVE  LET S == [mem |-> M, elements |-> El]
             Alloc(s) == DSArrayAlloc(s, d, n)
         IN  Retried(Alloc, S) = ArrayTwice(M, El, d, n)
<1> DEFINE R == ArrayAlloc(M, El, d, n)
           Q == [R EXCEPT !.mem = DSCompact(@)]
<1>1. R = [mem |-> R.mem, status |-> R.status, elements |-> R.elements]
  BY ArrayShape
<1> HIDE DEF R
<1>2. Q.mem = DSCompact(R.mem) /\ Q.elements = R.elements
  BY <1>1
<1> HIDE DEF Q
<1>3. DSArrayAlloc(Q, d, n) = ArrayAlloc(DSCompact(R.mem), R.elements, d, n)
  BY <1>2, ArrayFrame
<1>4. ArrayTwice(M, El, d, n) = IF R.status = "ERR_MEM" THEN DSArrayAlloc(Q, d, n) ELSE R
  BY <1>3 DEF ArrayTwice, R
<1>5. QED
  BY <1>4 DEF Retried, OrAfterCompaction, ArrayAlloc, R, Q

\* The retry of a resizing.
LEMMA RetriedResize ==
  ASSUME NEW M, NEW d, NEW n
  PROVE  LET S == [mem |-> M]
             Alloc(s) == DVArrayAlloc(s.mem, d, n)
         IN  Retried(Alloc, S) = ResizedTwice(M, d, n)
<1> DEFINE R == DVArrayAlloc(M, d, n)
           Q == [R EXCEPT !.mem = DSCompact(@)]
<1>1. R = [mem |-> R.mem, status |-> R.status]
  BY DEF DVArrayAlloc
<1> HIDE DEF R
<1>2. Q.mem = DSCompact(R.mem)
  BY <1>1
<1> HIDE DEF Q
<1>3. ResizedTwice(M, d, n) = IF R.status = "ERR_MEM" THEN DVArrayAlloc(Q.mem, d, n) ELSE R
  BY <1>2 DEF ResizedTwice, R
<1>4. QED
  BY <1>3 DEF Retried, OrAfterCompaction, R, Q

-----------------------------------------------------------------------------
(***************************************************************************)
(* Array instructions.                                                     *)
(***************************************************************************)

\* ResizeArray keeps the invariant of the memory.
LEMMA ArrayStep ==
  ASSUME IInv, ~wild, NEW d \in ProgramDVs, NEW n \in 0 .. MaxCount, ResizeArray(d, n)
  PROVE  MemInv(mem', elements', Messages, ~wild') /\ running' \in BOOLEAN /\ wild' \in BOOLEAN
<1> DEFINE s == ~wild'
           P == Static \cup SlotDVs(Messages)
           R == ArrayTwice(mem, elements, d, n)
<1>1. mem' = R.mem /\ elements' = R.elements /\ running' \in BOOLEAN
  BY RetriedArray DEF ResizeArray
<1>2. s \in BOOLEAN /\ wild' \in BOOLEAN /\ (s => ~Overgrown(mem, d, n))
  BY OvergrowsIs DEF ResizeArray
<1>3. MemInv(mem, elements, Messages, s)
  <2>1. MemInv(mem, elements, Messages, ~wild) /\ (~wild) \in BOOLEAN /\ (s => ~wild)
    BY DEF IInv
  <2> HIDE DEF s
  <2>2. QED
    BY <2>1, <1>2, MemInvWeaker
<1> HIDE DEF s
<1>4. Kept(mem, elements, P, s)
  BY <1>3 DEF MemInv
<1>5. 0 \in P /\ Nested \subseteq P \ {0} /\ d \in P \ {0}
  BY StaticFacts
<1> HIDE DEF P
<1>6. Kept(R.mem, R.elements, P, s)
  BY <1>2, <1>4, <1>5, ArrayTwiceSound
<1>7. MemInv(R.mem, R.elements, Messages, s)
  BY <1>3, <1>6 DEF MemInv, P
<1>8. QED
  BY <1>1, <1>2, <1>7 DEF s

\* ResizeElement keeps the invariant of the memory.
LEMMA ElementStep ==
  ASSUME IInv, ~wild, NEW d \in Nested, NEW i \in DOMAIN elements[d], NEW n \in 0 .. MaxCount,
         ResizeElement(d, i, n)
  PROVE  MemInv(mem', elements', Messages, ~wild') /\ running' \in BOOLEAN /\ wild' \in BOOLEAN
<1> DEFINE s == ~wild'
           P == Static \cup SlotDVs(Messages)
           leaf == elements[d][i]
           R == ResizedTwice(mem, leaf, n)
<1>1. MemInv(mem, elements, Messages, ~wild) /\ (~wild) \in BOOLEAN /\ running \in BOOLEAN
  BY DEF IInv
<1>2. CASE leaf = STALE
  <2>1. wild' = TRUE /\ mem' = mem /\ elements' = elements /\ running' = running
    BY <1>2 DEF ResizeElement
  <2>2. s \in BOOLEAN /\ (s => ~wild)
    BY <2>1
  <2>3. MemInv(mem, elements, Messages, s)
    <3> HIDE DEF s
    <3>1. QED
      BY <1>1, <2>2, MemInvWeaker
  <2>4. QED
    BY <1>1, <2>1, <2>3
<1>3. CASE leaf # STALE
  <2>1. /\ mem' = R.mem /\ elements' = elements /\ running' \in BOOLEAN
        /\ wild' = Overgrows(leaf, n)
    BY <1>3, RetriedResize DEF ResizeElement
  <2>2. s \in BOOLEAN /\ wild' \in BOOLEAN /\ (s => ~wild) /\ (s => ~Overgrown(mem, leaf, n))
    BY <2>1, OvergrowsIs DEF Overgrown
  <2> HIDE DEF s
  <2>3. MemInv(mem, elements, Messages, s)
    BY <1>1, <2>2, MemInvWeaker
  <2>4. PICK U : Sound(mem, U, s) /\ Holds(U, elements, P) /\ Counted(mem, elements)
    BY <2>3 DEF MemInv, Kept
  <2>5. leaf \in U \ {0} /\ leaf \notin Nested /\ Nested \subseteq DVs
    <3>1. elements \in [Nested -> Seq(DVs \cup {STALE})]
      BY <2>4 DEF Holds
    <3>2. i \in 1 .. Len(elements[d])
      BY <3>1, ElemFacts
    <3>3. leaf \in ElemDVs(elements)
      BY <1>3, <3>1, <3>2, ElemFacts
    <3>4. U = P \cup ElemDVs(elements) /\ P \cap ElemDVs(elements) = {}
      BY <2>4 DEF Holds
    <3>5. QED
      BY <3>3, <3>4, StaticFacts
  <2> HIDE DEF leaf, P
  <2>6. n \in Nat
    BY Constants
  <2>7. Sound(R.mem, U, s) /\ \A e \in DVs \ {leaf} : R.mem.Count[e] = mem.Count[e]
    BY <2>2, <2>4, <2>5, <2>6, RetrySound
  <2> HIDE DEF R
  <2>8. Counted(R.mem, elements)
    BY <2>4, <2>5, <2>7 DEF Counted
  <2>9. Kept(R.mem, elements, P, s)
    BY <2>4, <2>7, <2>8 DEF Kept
  <2>10. MemInv(R.mem, elements, Messages, s)
    BY <2>3, <2>9 DEF MemInv, P
  <2>11. QED
    BY <2>1, <2>2, <2>10 DEF s
<1>4. QED
  BY <1>2, <1>3

\* MemoryManager keeps the invariant of the memory.
LEMMA CompactionStep ==
  ASSUME IInv, MemoryManager
  PROVE  MemInv(mem', elements', Messages, ~wild')
<1>1. /\ MemInv(mem, elements, Messages, ~wild)
      /\ mem' = DSCompact(mem) /\ elements' = elements /\ wild' = wild
  BY DEF IInv, MemoryManager
<1> DEFINE s == ~wild
<1>2. s \in BOOLEAN /\ MemInv(mem, elements, Messages, s)
  BY <1>1
<1> HIDE DEF s
<1>3. MemInv(DSCompact(mem), elements, Messages, s)
  BY <1>2, KeptCompacted DEF MemInv
<1>4. QED
  BY <1>1, <1>3 DEF s

-----------------------------------------------------------------------------
(***************************************************************************)
(* Operations on the queues.                                               *)
(***************************************************************************)

\* d differs from c in two DVs at most.
DiffersIn(c, d, x, y) == \A z \in DVs : z # x /\ z # y => d[z] = c[z]

\* A slot's DV x is replaced by y.
LEMMA Rewritten ==
  ASSUME NEW Ms, Slotted(Ms), NEW q \in Queues, NEW w \in Slots(q), NEW y \in Ids,
         y \notin SlotDVs(Ms) \/ y = Ms[q][w],
         NEW c, NEW d, DiffersIn(c, d, Ms[q][w], y)
  PROVE  /\ OthersKeep(Ms, c, d, q)
         /\ KeepsOthers(Ms[q], w, MESSAGES_PER_QUEUE[q], c, d)
         /\ Filled(Ms[q], Refill(Ms, q, w, y)[q], w, MESSAGES_PER_QUEUE[q], y)
         /\ Unmoved(Ms, Refill(Ms, q, w, y), q)
<1>1. /\ DOMAIN Ms = Queues /\ \A p \in Queues : Ms[p] \in [Slots(p) -> Ids]
      /\ \A p, o \in Queues : \A s \in Slots(p), t \in Slots(o) :
           Ms[p][s] = Ms[o][t] /\ Ms[p][s] # NOT_A_DS_ID => p = o /\ s = t
  BY DEF Slotted
<1>2. ASSUME NEW p \in Queues, NEW t \in Slots(p), p # q \/ t # w, Ms[p][t] # NOT_A_DS_ID
      PROVE  d[Ms[p][t]] = c[Ms[p][t]]
  <2>1. Ms[p][t] # Ms[q][w]
    BY <1>1, <1>2
  <2>2. Ms[p][t] \in DVs /\ Ms[p][t] \in SlotDVs(Ms)
    <3>1. Ms[p][t] \in DVs
      BY <1>1, <1>2 DEF Ids
    <3>2. QED
      BY <3>1, SlotOf
  <2>3. Ms[p][t] # y
    BY <2>1, <2>2
  <2>4. QED
    BY <2>1, <2>2, <2>3 DEF DiffersIn
<1>3. OthersKeep(Ms, c, d, q)
  BY <1>2 DEF OthersKeep
<1>4. KeepsOthers(Ms[q], w, MESSAGES_PER_QUEUE[q], c, d)
  BY <1>2 DEF KeepsOthers, Slots
<1>5. /\ Refill(Ms, q, w, y)[q][w] = y
      /\ \A t \in Slots(q) : t # w => Refill(Ms, q, w, y)[q][t] = Ms[q][t]
  BY RefillFields
<1>6. Filled(Ms[q], Refill(Ms, q, w, y)[q], w, MESSAGES_PER_QUEUE[q], y)
  BY <1>5 DEF Filled, Slots
<1>7. Unmoved(Ms, Refill(Ms, q, w, y), q)
  BY DEF Unmoved, Refill
<1>8. QED
  BY <1>3, <1>4, <1>6, <1>7

\* The history changes for the DVs that are named.
LEMMA ContentDiffers ==
  ASSUME NEW c, DOMAIN c = DVs, NEW x, NEW y, NEW a, NEW b
  PROVE  /\ DiffersIn(c, [c EXCEPT ![x] = a, ![y] = b], x, y)
         /\ DiffersIn(c, [c EXCEPT ![x] = a], x, y)
         /\ y \in DOMAIN c => [c EXCEPT ![x] = a, ![y] = b][y] = b
BY DEF DiffersIn

\* The indices of the queue's slots.
LEMMA IndexFacts ==
  ASSUME NEW Ms, NEW R, NEW W, NEW q \in Queues, Ringed(Ms, R, W, q)
  PROVE  /\ R[q] \in Slots(q) /\ W[q] \in Slots(q)
         /\ Following(q, R[q]) = Place(R[q], 1, MESSAGES_PER_QUEUE[q])
         /\ Following(q, W[q]) = Place(W[q], 1, MESSAGES_PER_QUEUE[q])
<1> DEFINE slot == Ms[q]
           r == R[q]
           w == W[q]
           N == MESSAGES_PER_QUEUE[q]
<1>1. PICK n : Ring(slot, r, w, N, n)
  BY DEF Ringed
<1> HIDE DEF slot, r, w, N
<1>2. /\ r \in 0 .. N - 1 /\ w \in 0 .. N - 1
      /\ (w + 1) % N = Place(w, 1, N) /\ (r + 1) % N = Place(r, 1, N)
  BY <1>1, RingFacts
<1>3. QED
  BY <1>2 DEF Slots, Following, r, w, N

\* What a write leaves of a full queue.
RoomIn(q, h) == IF Len(h) = MESSAGES_PER_QUEUE[q] THEN Tail(h) ELSE h

\* The queues' messages after a write of v to q that has filled the slot with
\* y, or left it empty.
Wrote(msgs, q, y, v) ==
  [msgs EXCEPT ![q] = IF y # NOT_A_DS_ID THEN Append(RoomIn(q, @), v) ELSE RoomIn(q, @)]

\* The index of q goes on if there is a DV.
Advanced(index, q, x) ==
  IF x # NOT_A_DS_ID THEN [index EXCEPT ![q] = Following(q, @)] ELSE index

\* A function of the queues.
OfQueues(f) == DOMAIN f = Queues

\* A write to the slot at WriteIndex is a write to the buffer.
LEMMA WrittenQueue ==
  ASSUME NEW Ms, NEW R, NEW W, NEW c, NEW msgs, Holding(Ms, R, W, c, msgs), OfQueues(msgs),
         OfQueues(R), OfQueues(W),
         Slotted(Ms), NEW q \in Queues, NEW y \in Ids,
         y \notin SlotDVs(Ms) \/ y = Ms[q][W[q]],
         NEW d, DiffersIn(c, d, Ms[q][W[q]], y)
  PROVE  Holding(Refill(Ms, q, W[q], y), Advanced(R, q, Ms[q][W[q]]), Advanced(W, q, y), d,
                 Wrote(msgs, q, y, d[y]))
<1> DEFINE slot == Ms[q]
           r == R[q]
           w == W[q]
           N == MESSAGES_PER_QUEUE[q]
           Ns == Refill(Ms, q, w, y)
           t == Ns[q]
           room == RoomIn(q, msgs[q])
           h == IF y # NOT_A_DS_ID THEN Append(room, d[y]) ELSE room
           T == Advanced(R, q, slot[w])
           X == Advanced(W, q, y)
<1>1. PICK n \in 0 .. N : Ring(slot, r, w, N, n) /\ msgs[q] = Held(slot, r, N, n, c)
  BY DEF Holding, HoldsIn
<1>2. Ringed(Ms, R, W, q)
  BY <1>1 DEF Ringed
<1>3. /\ w \in Slots(q)
      /\ Following(q, r) = Place(r, 1, N) /\ Following(q, w) = Place(w, 1, N)
  BY <1>2, IndexFacts
<1>4. /\ OthersKeep(Ms, c, d, q) /\ KeepsOthers(slot, w, N, c, d)
      /\ Filled(slot, t, w, N, y) /\ Unmoved(Ms, Ns, q)
  BY <1>3, Rewritten
<1> DEFINE first == FirstLeft(r, n, N)
           left == NumberLeft(n, N)
           H == Held(slot, r, N, n, c)
<1> HIDE DEF slot, r, w, N, Ns, t
<1>5. /\ N \in Nat \ {0} /\ n \in 0 .. N
      /\ slot[w] # NOT_A_DS_ID <=> n = N
  BY <1>1, RingFacts
<1>6. T[q] = first /\ Unmoved(R, T, q)
  BY <1>3, <1>5 DEF Unmoved, FirstLeft, Advanced, OfQueues, slot, r, w
<1>7. X[q] = (IF y # NOT_A_DS_ID THEN Place(w, 1, N) ELSE w) /\ Unmoved(W, X, q)
  BY <1>3 DEF Unmoved, Advanced, OfQueues, w
<1>8. Len(H) = n
  BY <1>5, HeldFacts
<1>9. room = HeldLeft(H, n, N)
  BY <1>1, <1>8 DEF RoomIn, HeldLeft, N
<1>10. HoldsIn(Ns, T, X, d, q, h)
  <2>1. CASE y = NOT_A_DS_ID
    <3>1. Ring(t, first, w, N, left) /\ Held(t, first, N, left, d) = room
      BY <1>1, <1>4, <1>9, <2>1, RoomRing
    <3>2. left \in 0 .. N
      BY <1>5 DEF NumberLeft
    <3> HIDE DEF first, left, room
    <3>3. Ring(Ns[q], T[q], X[q], N, left) /\ h = Held(Ns[q], T[q], N, left, d)
      BY <3>1, <1>6, <1>7, <2>1 DEF t
    <3>4. QED
      BY <3>2, <3>3 DEF HoldsIn, N
  <2>2. CASE y # NOT_A_DS_ID
    <3>1. Ring(t, first, Place(w, 1, N), N, left + 1) /\ Held(t, first, N, left + 1, d) = Append(room, d[y])
      <4>1. /\ Ring(slot, r, w, N, n) /\ y # NOT_A_DS_ID
            /\ Filled(slot, t, w, N, y) /\ KeepsOthers(slot, w, N, c, d)
        BY <1>1, <1>4, <2>2
      <4>2. /\ Ring(t, first, Place(w, 1, N), N, left + 1)
            /\ Held(t, first, N, left + 1, d) = Followed(HeldLeft(H, n, N), d[y])
        BY <4>1, AddRing
      <4>3. QED
        BY <4>2, <1>9 DEF Followed
    <3>2. left + 1 \in 0 .. N
      BY <1>5 DEF NumberLeft
    <3> HIDE DEF first, left, room
    <3>3. Ring(Ns[q], T[q], X[q], N, left + 1) /\ h = Held(Ns[q], T[q], N, left + 1, d)
      BY <3>1, <1>6, <1>7, <2>2 DEF t
    <3>4. QED
      BY <3>2, <3>3 DEF HoldsIn, N
  <2>3. QED
    BY <2>1, <2>2
<1> HIDE DEF h, T, X
<1>11. Holding(Ns, T, X, d, [msgs EXCEPT ![q] = h])
  BY <1>4, <1>6, <1>7, <1>10, HoldingOne DEF OfQueues
<1>12. [msgs EXCEPT ![q] = h] = Wrote(msgs, q, y, d[y])
  BY DEF Wrote, h
<1>13. QED
  BY <1>11, <1>12 DEF Ns, T, X, slot, w

\* Emptying the slot at ReadIndex takes the oldest message.
LEMMA TakenQueue ==
  ASSUME NEW Ms, NEW R, NEW W, NEW c, NEW msgs, Holding(Ms, R, W, c, msgs), OfQueues(msgs),
         OfQueues(R), Slotted(Ms), NEW q \in Queues, Ms[q][R[q]] # NOT_A_DS_ID,
         NEW d, DiffersIn(c, d, Ms[q][R[q]], NOT_A_DS_ID)
  PROVE  /\ Holding(Refill(Ms, q, R[q], NOT_A_DS_ID), Advanced(R, q, Ms[q][R[q]]), W, d,
                    [msgs EXCEPT ![q] = Tail(@)])
         /\ msgs[q] # <<>>
<1> DEFINE slot == Ms[q]
           r == R[q]
           w == W[q]
           N == MESSAGES_PER_QUEUE[q]
           y == NOT_A_DS_ID
           Ns == Refill(Ms, q, r, y)
           t == Ns[q]
           h == Tail(msgs[q])
           T == Advanced(R, q, slot[r])
<1>1. PICK n \in 0 .. N : Ring(slot, r, w, N, n) /\ msgs[q] = Held(slot, r, N, n, c)
  BY DEF Holding, HoldsIn
<1>2. Ringed(Ms, R, W, q)
  BY <1>1 DEF Ringed
<1>3. r \in Slots(q) /\ Following(q, r) = Place(r, 1, N)
  BY <1>2, IndexFacts
<1>4. y \in Ids /\ y \notin SlotDVs(Ms)
  BY NotADV DEF Ids, SlotDVs
<1> HIDE DEF y
<1>5. /\ OthersKeep(Ms, c, d, q) /\ KeepsOthers(slot, r, N, c, d)
      /\ Filled(slot, t, r, N, y) /\ Unmoved(Ms, Ns, q)
  BY <1>3, <1>4, Rewritten DEF y
<1> HIDE DEF slot, r, w, N, Ns, t
<1>6. /\ N \in Nat \ {0} /\ n \in 0 .. N /\ n > 0
  BY <1>1, RingFacts DEF slot, r
<1>7. T[q] = Place(r, 1, N) /\ Unmoved(R, T, q)
  BY <1>3 DEF Unmoved, Advanced, OfQueues, slot, r
<1>8. /\ Ring(t, Place(r, 1, N), w, N, n - 1)
      /\ Held(t, Place(r, 1, N), N, n - 1, d) = h
  BY <1>1, <1>5, <1>6, TakeRing DEF y
<1> HIDE DEF h, T
<1>9. HoldsIn(Ns, T, W, d, q, h)
  <2>1. n - 1 \in 0 .. N
    BY <1>6
  <2>2. Ring(Ns[q], T[q], W[q], N, n - 1) /\ h = Held(Ns[q], T[q], N, n - 1, d)
    BY <1>7, <1>8 DEF t, w
  <2>3. QED
    BY <2>1, <2>2 DEF HoldsIn, N
<1>10. Holding(Ns, T, W, d, [msgs EXCEPT ![q] = h])
  <2>1. Unmoved(W, W, q)
    BY DEF Unmoved
  <2>2. QED
    BY <2>1, <1>5, <1>7, <1>9, HoldingOne DEF OfQueues
<1>11. msgs[q] # <<>>
  <2>1. HoldsIn(Ms, R, W, c, q, msgs[q])
    BY <1>1 DEF HoldsIn, slot, r, w, N
  <2>2. DOMAIN msgs[q] = 1 .. n
    BY <1>1, <1>6, HeldFacts
  <2>3. QED
    BY <2>2, <1>6
<1>12. QED
  BY <1>10, <1>11 DEF Ns, T, h, slot, r, y

\* What the invariant says of one slot.
LEMMA SlotInv ==
  ASSUME NEW M, NEW El, NEW Ms, NEW s \in BOOLEAN, MemInv(M, El, Ms, s),
         NEW q \in Queues, NEW w \in Slots(q)
  PROVE  \E U : /\ Sound(M, U, s) /\ Holds(U, El, Static \cup SlotDVs(Ms)) /\ Counted(M, El)
                /\ SlotValue(U, Ms[q][w]) /\ Ms[q][w] \in Ids
                /\ Slotted(Ms) /\ Apart(Static, SlotDVs(Ms))
                /\ IS_DV_INDEX_SANE(M, Ms[q][w]) <=> Ms[q][w] # NOT_A_DS_ID
<1>1. PICK U : Sound(M, U, s) /\ Holds(U, El, Static \cup SlotDVs(Ms)) /\ Counted(M, El)
  BY DEF MemInv, Kept
<1>2. Slotted(Ms) /\ Apart(Static, SlotDVs(Ms))
  BY DEF MemInv
<1>3. SlotDVs(Ms) \subseteq U
  BY <1>1 DEF Holds
<1>4. SlotValue(U, Ms[q][w]) /\ Ms[q][w] \in Ids
  BY <1>2, <1>3, SlotFacts
<1>5. IS_DV_INDEX_SANE(M, Ms[q][w]) <=> Ms[q][w] # NOT_A_DS_ID
  BY <1>1, <1>4, Sanity
<1>6. QED
  BY <1>1, <1>2, <1>4, <1>5

\* The indices and the history have their domains.
Indexed(R, W, c) == OfQueues(R) /\ OfQueues(W) /\ DOMAIN c = DVs

\* Write keeps the invariant of the memory and is a write to the buffer.
LEMMA WriteStep ==
  ASSUME IInv, ~wild, NEW q \in Queues, NEW m \in Message, NEW ends \in BOOLEAN, Write(q, m, ends),
         NEW msgs, Holding(Messages, ReadIndex, WriteIndex, content, msgs), OfQueues(msgs)
  PROVE  /\ MemInv(mem', elements', Messages', ~wild') /\ running' \in BOOLEAN /\ wild' \in BOOLEAN
         /\ Indexed(ReadIndex', WriteIndex', content')
         /\ \E y \in Ids : Holding(Messages', ReadIndex', WriteIndex', content', Wrote(msgs, q, y, m))
<1> DEFINE s == ~wild'
           w == WriteIndex[q]
           x == Messages[q][w]
           size == Length[m]
           R == StoreTwice(mem, x, size)
           y == R.dv
<1>1. /\ MemInv(mem, elements, Messages, ~wild) /\ (~wild) \in BOOLEAN /\ running \in BOOLEAN
      /\ Indexed(ReadIndex, WriteIndex, content)
      /\ Ringed(Messages, ReadIndex, WriteIndex, q)
  BY DEF IInv, Indexed, OfQueues
<1>2. w \in Slots(q)
  BY <1>1, IndexFacts
<1>3. /\ mem' = R.mem /\ Messages' = Refill(Messages, q, w, y)
      /\ content' = [content EXCEPT ![x] = NoMessage, ![y] = m]
      /\ \/ /\ R.status = "NO_ERR"
            /\ WriteIndex' = [WriteIndex EXCEPT ![q] = Following(q, @)]
            /\ running' = running
         \/ /\ R.status = "ERR_MEM"
            /\ running' = ~ends
            /\ WriteIndex' = WriteIndex
      /\ ReadIndex' = IF IS_DV_INDEX_SANE(mem, x) THEN [ReadIndex EXCEPT ![q] = Following(q, @)]
                      ELSE ReadIndex
      /\ wild' = (x \in DVs /\ Overgrows(x, size))
      /\ elements' = elements
  <2> DEFINE S == [mem |-> mem, dv |-> x]
             Alloc(z) == Store([mem |-> z.mem, dv |-> z.dv], size)
  <2>1. Retried(Alloc, S) = R
    BY RetriedStore
  <2> HIDE DEF R
  <2>2. QED
    BY <2>1 DEF Write, Refill
<1>4. size \in Nat
  BY MessageConstants
<1>5. s \in BOOLEAN /\ wild' \in BOOLEAN /\ (s => ~wild)
  BY <1>3
<1>6. s /\ x \in DVs => ~Overgrown(mem, x, size)
  BY <1>3, OvergrowsIs
<1> HIDE DEF s, R, w
<1>7. MemInv(mem, elements, Messages, s)
  BY <1>1, <1>5, MemInvWeaker
<1>8. PICK U : /\ Sound(mem, U, s) /\ Holds(U, elements, Static \cup SlotDVs(Messages))
               /\ Counted(mem, elements)
               /\ SlotValue(U, x) /\ x \in Ids
               /\ Slotted(Messages) /\ Apart(Static, SlotDVs(Messages))
               /\ IS_DV_INDEX_SANE(mem, x) <=> x # NOT_A_DS_ID
  BY <1>2, <1>5, <1>7, SlotInv
<1> HIDE DEF size
<1>9. /\ Stored(mem, U, s, x, R.mem, y)
      /\ R.status \in {"NO_ERR", "ERR_MEM"}
      /\ R.status = "ERR_MEM" <=> y = NOT_A_DS_ID
  <2>1. s /\ x # NOT_A_DS_ID => ~Overgrown(mem, x, size)
    BY <1>6, <1>8 DEF Ids
  <2> HIDE DEF x
  <2>2. QED
    BY <2>1, <1>4, <1>5, <1>8, StoreTwiceSound DEF R
<1>10. MemInv(R.mem, elements, Refill(Messages, q, w, y), s)
  <2> HIDE DEF y
  <2>1. QED
    BY <1>2, <1>5, <1>8, <1>9, StoredInv
<1>11. y \in Ids /\ (y \notin SlotDVs(Messages) \/ y = x)
  BY <1>8, <1>9 DEF Stored, Holds
<1>12. DiffersIn(content, content', x, y) /\ (y # NOT_A_DS_ID => content'[y] = m) /\ DOMAIN content' = DVs
  <2>1. DOMAIN content = DVs
    BY <1>1 DEF Indexed
  <2> HIDE DEF x, y
  <2>2. QED
    BY <2>1, <1>3, <1>11, ContentDiffers DEF Ids
<1>13. ReadIndex' = Advanced(ReadIndex, q, x) /\ WriteIndex' = Advanced(WriteIndex, q, y)
  BY <1>3, <1>8, <1>9 DEF Advanced
<1>14. Holding(Messages', ReadIndex', WriteIndex', content', Wrote(msgs, q, y, content'[y]))
  <2>1. OfQueues(ReadIndex) /\ OfQueues(WriteIndex)
    BY <1>1 DEF Indexed
  <2> HIDE DEF y
  <2> DEFINE d == content'
  <2>2. DiffersIn(content, d, Messages[q][WriteIndex[q]], y)
    BY <1>12 DEF w
  <2>3. y \notin SlotDVs(Messages) \/ y = Messages[q][WriteIndex[q]]
    BY <1>11 DEF w
  <2> HIDE DEF x, d
  <2>4. Holding(Refill(Messages, q, WriteIndex[q], y), Advanced(ReadIndex, q, Messages[q][WriteIndex[q]]),
                Advanced(WriteIndex, q, y), d, Wrote(msgs, q, y, d[y]))
    BY <2>1, <2>2, <2>3, <1>8, <1>11, WrittenQueue
  <2>5. QED
    BY <2>4, <1>3, <1>13 DEF d, w, x
<1>15. Wrote(msgs, q, y, content'[y]) = Wrote(msgs, q, y, m)
  BY <1>12 DEF Wrote
<1>16. Indexed(ReadIndex', WriteIndex', content')
  BY <1>1, <1>12, <1>13 DEF Indexed, OfQueues, Advanced
<1>17. running' \in BOOLEAN
  BY <1>1, <1>3
<1> HIDE DEF x, y
<1>18. QED
  BY <1>3, <1>5, <1>10, <1>11, <1>14, <1>15, <1>16, <1>17 DEF s

\* The oldest message is removed.
LEMMA RemoveInv ==
  ASSUME NEW M, NEW El, NEW Ms, NEW s \in BOOLEAN, MemInv(M, El, Ms, s),
         NEW q \in Queues, NEW r \in Slots(q), Ms[q][r] # NOT_A_DS_ID
  PROVE  MemInv(FreeDopeVector(M, Ms[q][r]), El, Refill(Ms, q, r, NOT_A_DS_ID), s)
<1> DEFINE x == Ms[q][r]
           N == FreeDopeVector(M, x)
           y == NOT_A_DS_ID
<1>1. PICK U : /\ Sound(M, U, s) /\ Holds(U, El, Static \cup SlotDVs(Ms)) /\ Counted(M, El)
               /\ SlotValue(U, x)
               /\ Slotted(Ms) /\ Apart(Static, SlotDVs(Ms))
  BY SlotInv
<1>2. x \in U \ {0}
  BY <1>1 DEF SlotValue
<1>3. Stored(M, U, s, x, N, y)
  <2> HIDE DEF x, y
  <2>1. Stored(M, U, s, x, FreeDopeVector(M, x), NOT_A_DS_ID)
    BY <1>1, <1>2, FreeStored
  <2>2. QED
    BY <2>1 DEF y
<1> HIDE DEF N, y
<1>4. MemInv(N, El, Refill(Ms, q, r, y), s)
  BY <1>1, <1>3, StoredInv
<1>5. QED
  BY <1>4 DEF N, y

\* An array of the program that has no arrays for elements is resized.
LEMMA ProgramResized ==
  ASSUME NEW M, NEW El, NEW Ms, NEW s \in BOOLEAN, MemInv(M, El, Ms, s),
         NEW d \in ProgramDVs \ Nested, NEW n \in Nat, s => ~Overgrown(M, d, n)
  PROVE  MemInv(ResizedTwice(M, d, n).mem, El, Ms, s)
<1> DEFINE R == ResizedTwice(M, d, n)
           P == Static \cup SlotDVs(Ms)
<1>1. PICK U : Sound(M, U, s) /\ Holds(U, El, P) /\ Counted(M, El)
  BY DEF MemInv, Kept
<1>2. d \in U \ {0}
  BY <1>1, StaticFacts DEF Holds
<1>3. Sound(R.mem, U, s) /\ \A e \in DVs \ {d} : R.mem.Count[e] = M.Count[e]
  BY <1>1, <1>2, RetrySound
<1> HIDE DEF R, P
<1>4. Counted(R.mem, El)
  BY <1>1, <1>3, StaticFacts DEF Counted
<1>5. Kept(R.mem, El, P, s)
  BY <1>1, <1>3, <1>4 DEF Kept
<1>6. QED
  BY <1>5 DEF MemInv, P, R

\* What Remove does to the queues.
LEMMA RemoveStep ==
  ASSUME IInv, NEW q \in Queues, NEW M, Remove(q, M), Oldest(q) # NOT_A_DS_ID, WriteIndex' = WriteIndex,
         NEW msgs, Holding(Messages, ReadIndex, WriteIndex, content, msgs), OfQueues(msgs)
  PROVE  /\ Messages' = Refill(Messages, q, ReadIndex[q], NOT_A_DS_ID)
         /\ Indexed(ReadIndex', WriteIndex', content')
         /\ Holding(Messages', ReadIndex', WriteIndex', content', [msgs EXCEPT ![q] = Tail(@)])
         /\ msgs[q] # <<>>
<1> DEFINE x == Messages[q][ReadIndex[q]]
           d == content'
<1>1. /\ Indexed(ReadIndex, WriteIndex, content) /\ Slotted(Messages)
  BY DEF IInv, Indexed, OfQueues, MemInv
<1>2. /\ Messages' = Refill(Messages, q, ReadIndex[q], NOT_A_DS_ID)
      /\ ReadIndex' = Advanced(ReadIndex, q, x)
      /\ content' = [content EXCEPT ![x] = NoMessage]
      /\ x # NOT_A_DS_ID
  BY DEF Remove, Oldest, Advanced, Refill
<1>3. DiffersIn(content, d, x, NOT_A_DS_ID) /\ DOMAIN content' = DVs
  <2>1. DOMAIN content = DVs
    BY <1>1 DEF Indexed
  <2>2. DiffersIn(content, [content EXCEPT ![x] = NoMessage], x, NOT_A_DS_ID)
    BY <2>1, ContentDiffers
  <2>3. QED
    BY <2>1, <2>2, <1>2
<1>4. Indexed(ReadIndex', WriteIndex', content')
  BY <1>1, <1>2, <1>3 DEF Indexed, OfQueues, Advanced
<1>5. /\ Holding(Refill(Messages, q, ReadIndex[q], NOT_A_DS_ID),
                 Advanced(ReadIndex, q, Messages[q][ReadIndex[q]]), WriteIndex, d,
                 [msgs EXCEPT ![q] = Tail(@)])
      /\ msgs[q] # <<>>
  <2>1. OfQueues(ReadIndex)
    BY <1>1 DEF Indexed
  <2> HIDE DEF d
  <2>2. QED
    BY <2>1, <1>1, <1>2, <1>3, TakenQueue
<1>6. QED
  BY <1>2, <1>4, <1>5

\* RemoteRead keeps the invariant of the memory and takes the oldest message.
LEMMA RemoteReadStep ==
  ASSUME IInv, NEW q \in Queues, RemoteRead(q),
         NEW msgs, Holding(Messages, ReadIndex, WriteIndex, content, msgs), OfQueues(msgs)
  PROVE  /\ MemInv(mem', elements', Messages', ~wild') /\ running' = running /\ wild' = wild
         /\ Indexed(ReadIndex', WriteIndex', content')
         /\ Holding(Messages', ReadIndex', WriteIndex', content', [msgs EXCEPT ![q] = Tail(@)])
         /\ msgs[q] # <<>>
<1> DEFINE s == ~wild
           r == ReadIndex[q]
           x == Messages[q][r]
<1>1. /\ MemInv(mem, elements, Messages, s) /\ s \in BOOLEAN
      /\ Ringed(Messages, ReadIndex, WriteIndex, q)
  BY DEF IInv
<1>2. /\ IS_DV_INDEX_SANE(mem, x) /\ Remove(q, mem) /\ mem' = FreeDopeVector(mem, x)
      /\ elements' = elements /\ running' = running /\ wild' = wild /\ WriteIndex' = WriteIndex
  BY DEF RemoteRead, Remove, Oldest
<1>3. r \in Slots(q)
  BY <1>1, IndexFacts
<1> HIDE DEF s, r
<1>4. x # NOT_A_DS_ID
  BY <1>1, <1>2, <1>3, SlotInv
<1>5. MemInv(FreeDopeVector(mem, x), elements, Refill(Messages, q, r, NOT_A_DS_ID), s)
  BY <1>1, <1>3, <1>4, RemoveInv
<1>6. /\ Messages' = Refill(Messages, q, ReadIndex[q], NOT_A_DS_ID)
      /\ Indexed(ReadIndex', WriteIndex', content')
      /\ Holding(Messages', ReadIndex', WriteIndex', content', [msgs EXCEPT ![q] = Tail(@)])
      /\ msgs[q] # <<>>
  <2>1. Oldest(q) # NOT_A_DS_ID
    BY <1>4 DEF Oldest, r
  <2>2. QED
    BY <2>1, <1>2, RemoveStep
<1>7. MemInv(mem', elements', Messages', s)
  BY <1>2, <1>5, <1>6 DEF r
<1>8. QED
  BY <1>2, <1>6, <1>7 DEF s

\* ReadInto keeps the invariant of the memory and takes the oldest message, or none.
LEMMA ReadIntoStep ==
  ASSUME IInv, ~wild, NEW q \in Queues, NEW d \in ProgramDVs \ Nested, NEW removes \in BOOLEAN,
         ReadInto(q, d, removes),
         NEW msgs, Holding(Messages, ReadIndex, WriteIndex, content, msgs), OfQueues(msgs)
  PROVE  /\ MemInv(mem', elements', Messages', ~wild') /\ running' \in BOOLEAN /\ wild' \in BOOLEAN
         /\ Indexed(ReadIndex', WriteIndex', content')
         /\ \/ UNCHANGED <<Messages, ReadIndex, WriteIndex, content>>
            \/ /\ Holding(Messages', ReadIndex', WriteIndex', content', [msgs EXCEPT ![q] = Tail(@)])
               /\ msgs[q] # <<>>
<1> DEFINE s == ~wild'
           r == ReadIndex[q]
           x == Messages[q][r]
           found == IS_DV_INDEX_SANE(mem, x) /\ mem.Count[x] > 0
           size == IF found THEN mem.Count[x] ELSE 1
           R == ResizedTwice(mem, d, size)
           N == R.mem
<1>1. /\ MemInv(mem, elements, Messages, ~wild) /\ (~wild) \in BOOLEAN /\ running \in BOOLEAN
      /\ Indexed(ReadIndex, WriteIndex, content)
      /\ Ringed(Messages, ReadIndex, WriteIndex, q)
  BY DEF IInv, Indexed, OfQueues
<1>2. r \in Slots(q)
  BY <1>1, IndexFacts
<1>3. /\ \/ found /\ Remove(q, N) /\ running' = running
         \/ mem' = N /\ running' \in BOOLEAN /\ UNCHANGED <<Messages, ReadIndex, content>>
      /\ wild' = Overgrows(d, size)
      /\ elements' = elements /\ WriteIndex' = WriteIndex
  <2> DEFINE S == [mem |-> mem]
             Alloc(z) == DVArrayAlloc(z.mem, d, size)
  <2>1. Retried(Alloc, S) = R
    <3> HIDE DEF size
    <3>1. QED
      BY RetriedResize
  <2> HIDE DEF R
  <2>2. QED
    BY <2>1 DEF ReadInto, Oldest
<1>4. s \in BOOLEAN /\ wild' \in BOOLEAN /\ (s => ~wild) /\ (s => ~Overgrown(mem, d, size))
  BY <1>3, OvergrowsIs DEF Overgrown
<1> HIDE DEF s, r
<1>5. MemInv(mem, elements, Messages, s)
  BY <1>1, <1>4, MemInvWeaker
<1>6. PICK U : /\ Sound(mem, U, s)
               /\ SlotValue(U, x)
               /\ IS_DV_INDEX_SANE(mem, x) <=> x # NOT_A_DS_ID
  BY <1>2, <1>4, <1>5, SlotInv
<1>7. found => x # NOT_A_DS_ID
  BY <1>6
<1>8. size \in Nat
  <2>1. CASE found
    <3>1. mem \in Memories /\ U \subseteq DVs
      BY <1>4, <1>6, SoundFacts
    <3>2. mem.Count \in [DVs -> Nat]
      BY <3>1 DEF Memories
    <3>3. x \in DVs
      BY <3>1, <1>6, <1>7, <2>1 DEF SlotValue
    <3>4. QED
      BY <3>2, <3>3, <2>1
  <2>2. CASE ~found
    BY <2>2
  <2>3. QED
    BY <2>1, <2>2
<1> HIDE DEF size, found
<1>9. MemInv(N, elements, Messages, s)
  BY <1>4, <1>5, <1>8, ProgramResized
<1> HIDE DEF N
<1>10. CASE mem' = N /\ running' \in BOOLEAN /\ UNCHANGED <<Messages, ReadIndex, content>>
  <2>1. MemInv(mem', elements', Messages', s)
    BY <1>3, <1>9, <1>10
  <2>2. QED
    BY <2>1, <1>1, <1>3, <1>4, <1>10 DEF s, Indexed
<1>11. CASE found /\ Remove(q, N) /\ running' = running
  <2>1. x # NOT_A_DS_ID
    BY <1>7, <1>11
  <2>2. MemInv(FreeDopeVector(N, x), elements, Refill(Messages, q, r, NOT_A_DS_ID), s)
    BY <2>1, <1>2, <1>4, <1>9, RemoveInv
  <2>3. /\ Messages' = Refill(Messages, q, ReadIndex[q], NOT_A_DS_ID)
        /\ Indexed(ReadIndex', WriteIndex', content')
        /\ Holding(Messages', ReadIndex', WriteIndex', content', [msgs EXCEPT ![q] = Tail(@)])
        /\ msgs[q] # <<>>
    <3>1. Oldest(q) # NOT_A_DS_ID
      BY <2>1 DEF Oldest, r
    <3>2. QED
      BY <3>1, <1>3, <1>11, RemoveStep
  <2>4. mem' = FreeDopeVector(N, x)
    BY <1>11 DEF Remove, Oldest, r
  <2>5. MemInv(mem', elements', Messages', s)
    BY <2>2, <2>3, <2>4, <1>3 DEF r
  <2>6. QED
    BY <2>3, <2>5, <1>1, <1>4, <1>11 DEF s
<1>12. QED
  BY <1>3, <1>10, <1>11

-----------------------------------------------------------------------------
(***************************************************************************)
(* The invariant holds, and the queues are first-in first-out buffers.     *)
(***************************************************************************)

\* Empty buffers, and the indices of empty queues.
NoMessages == [q \in Queues |-> <<>>]
Zeros == [q \in Queues |-> 0]

\* Empty queues hold nothing.
LEMMA EmptyHolding ==
  ASSUME NEW c
  PROVE  Holding(EmptySlots, Zeros, Zeros, c, NoMessages)
<1> SUFFICES ASSUME NEW q \in Queues
             PROVE  HoldsIn(EmptySlots, Zeros, Zeros, c, q, <<>>)
  BY DEF Holding, NoMessages
<1> DEFINE slot == EmptySlots[q]
           N == MESSAGES_PER_QUEUE[q]
<1>1. N \in Nat \ {0}
  BY MessageConstants
<1>2. \A s \in 0 .. N - 1 : slot[s] = NOT_A_DS_ID
  BY DEF EmptySlots, Slots
<1>3. Zeros[q] = 0
  BY DEF Zeros
<1> HIDE DEF N, slot
<1>4. 0 \in 0 .. N - 1 /\ 0 \in 0 .. N
  BY <1>1
<1>5. /\ \A i \in 0 .. N : Place(0, i, N) \in 0 .. N - 1
      /\ Place(0, 0, N) = 0
  BY <1>1, <1>4, Places
<1>6. Ring(slot, 0, 0, N, 0)
  <2>1. \A i \in 0 .. N - 1 : slot[Place(0, i, N)] = NOT_A_DS_ID /\ ~(i < 0)
    BY <1>1, <1>2, <1>5
  <2>2. QED
    BY <2>1, <1>1, <1>4, <1>5 DEF Ring
<1>7. Held(slot, 0, N, 0, c) = <<>>
  BY DEF Held
<1>8. QED
  BY <1>3, <1>4, <1>6, <1>7 DEF HoldsIn, slot, N

\* What may become of the messages in the queues.
FifoStep(msgs, new) ==
  \/ new = msgs
  \/ new = NoMessages
  \/ \E q \in Queues :
       \/ new = [msgs EXCEPT ![q] = RoomIn(q, @)]
       \/ msgs[q] # <<>> /\ new = [msgs EXCEPT ![q] = Tail(@)]
       \/ \E m \in Message : new = [msgs EXCEPT ![q] = Append(RoomIn(q, @), m)]

\* All but the queues' messages of the invariant.
Typed(r, w, M, El, Ms, R, W, c) ==
  /\ r \in BOOLEAN /\ w \in BOOLEAN /\ MemInv(M, El, Ms, ~w) /\ Indexed(R, W, c)

\* The invariant, part by part.
LEMMA IInvTyped ==
  IInv <=> /\ Typed(running, wild, mem, elements, Messages, ReadIndex, WriteIndex, content)
           /\ \A q \in Queues : Ringed(Messages, ReadIndex, WriteIndex, q)
BY DEF IInv, Typed, Indexed, OfQueues

\* The initial states are in the invariant and hold no messages.
LEMMA InitStep ==
  ASSUME Init
  PROVE  /\ Typed(running, wild, mem, elements, Messages, ReadIndex, WriteIndex, content)
         /\ Holding(Messages, ReadIndex, WriteIndex, content, NoMessages)
<1>1. /\ mem = ActivatedMem /\ elements = NoElements /\ Messages = EmptySlots
      /\ ReadIndex = Zeros /\ WriteIndex = Zeros
      /\ running = TRUE /\ wild = FALSE /\ DOMAIN content = DVs
  BY DEF Init, MemInit, QueueInit, NoElements, EmptySlots, Zeros
<1>2. Indexed(ReadIndex, WriteIndex, content)
  BY <1>1 DEF Indexed, OfQueues, Zeros
<1> DEFINE s == ~wild
<1>3. s = TRUE
  BY <1>1
<1>4. MemInv(ActivatedMem, NoElements, EmptySlots, s)
  BY <1>3, ActivatedInv
<1>5. QED
  BY <1>1, <1>2, <1>4, EmptyHolding DEF Typed

\* A step of the code keeps the parts of the invariant and is a step of the buffers.
LEMMA NextStep ==
  ASSUME IInv, Next,
         NEW msgs, Holding(Messages, ReadIndex, WriteIndex, content, msgs), OfQueues(msgs)
  PROVE  /\ Typed(running', wild', mem', elements', Messages', ReadIndex', WriteIndex', content')
         /\ \E new : /\ FifoStep(msgs, new)
                     /\ Holding(Messages', ReadIndex', WriteIndex', content', new)
<1> DEFINE Goal ==
      /\ Typed(running', wild', mem', elements', Messages', ReadIndex', WriteIndex', content')
      /\ \E new : /\ FifoStep(msgs, new)
                  /\ Holding(Messages', ReadIndex', WriteIndex', content', new)
<1>1. /\ Typed(running, wild, mem, elements, Messages, ReadIndex, WriteIndex, content)
      /\ Indexed(ReadIndex, WriteIndex, content) /\ running \in BOOLEAN /\ wild \in BOOLEAN
  BY IInvTyped DEF Typed
<1>2. ASSUME ~wild, MemInv(mem', elements', Messages, ~wild'), running' \in BOOLEAN, wild' \in BOOLEAN,
             UNCHANGED queueVars
      PROVE  Goal
  <2>1. /\ Messages' = Messages /\ ReadIndex' = ReadIndex /\ WriteIndex' = WriteIndex
        /\ content' = content
    BY <1>2 DEF queueVars
  <2>2. Typed(running', wild', mem', elements', Messages', ReadIndex', WriteIndex', content')
    BY <2>1, <1>1, <1>2 DEF Typed
  <2>3. FifoStep(msgs, msgs)
    BY DEF FifoStep
  <2>4. QED
    BY <2>1, <2>2, <2>3
<1>3. ASSUME ~wild, NEW d \in ProgramDVs, NEW n \in 0 .. MaxCount, ResizeArray(d, n), UNCHANGED queueVars
      PROVE  Goal
  BY <1>2, <1>3, ArrayStep
<1>4. ASSUME ~wild, NEW d \in Nested, NEW n \in 0 .. MaxCount, NEW i \in DOMAIN elements[d],
             ResizeElement(d, i, n), UNCHANGED queueVars
      PROVE  Goal
  BY <1>2, <1>4, ElementStep
<1>5. ASSUME ~wild, MemoryManager, UNCHANGED queueVars
      PROVE  Goal
  <2>1. running' = running /\ wild' = wild
    BY <1>5 DEF MemoryManager
  <2>2. MemInv(mem', elements', Messages, ~wild')
    <3>1. Messages' = Messages
      BY <1>5 DEF queueVars
    <3>2. MemInv(mem', elements', Messages, ~wild')
      BY <1>5, CompactionStep
    <3>3. QED
      BY <3>2
  <2>3. QED
    BY <2>1, <2>2, <1>1, <1>2, <1>5
<1>6. ASSUME ~wild, NEW q \in Queues, NEW m \in Message, NEW ends \in BOOLEAN, Write(q, m, ends)
      PROVE  Goal
  <2>1. /\ MemInv(mem', elements', Messages', ~wild') /\ running' \in BOOLEAN /\ wild' \in BOOLEAN
        /\ Indexed(ReadIndex', WriteIndex', content')
        /\ \E y \in Ids : Holding(Messages', ReadIndex', WriteIndex', content', Wrote(msgs, q, y, m))
    BY <1>6, WriteStep
  <2>2. \A y : FifoStep(msgs, Wrote(msgs, q, y, m))
    BY DEF FifoStep, Wrote
  <2>3. QED
    BY <2>1, <2>2 DEF Typed
<1>7. ASSUME NEW q \in Queues, RemoteRead(q)
      PROVE  Goal
  <2>1. /\ MemInv(mem', elements', Messages', ~wild') /\ running' = running /\ wild' = wild
        /\ Indexed(ReadIndex', WriteIndex', content')
        /\ Holding(Messages', ReadIndex', WriteIndex', content', [msgs EXCEPT ![q] = Tail(@)])
        /\ msgs[q] # <<>>
    BY <1>7, RemoteReadStep
  <2>2. FifoStep(msgs, [msgs EXCEPT ![q] = Tail(@)])
    BY <2>1 DEF FifoStep
  <2>3. QED
    BY <2>1, <2>2, <1>1 DEF Typed
<1>8. ASSUME ~wild, NEW q \in Queues, NEW d \in ProgramDVs \ Nested, NEW removes \in BOOLEAN,
             ReadInto(q, d, removes)
      PROVE  Goal
  <2>1. /\ MemInv(mem', elements', Messages', ~wild') /\ running' \in BOOLEAN /\ wild' \in BOOLEAN
        /\ Indexed(ReadIndex', WriteIndex', content')
        /\ \/ UNCHANGED <<Messages, ReadIndex, WriteIndex, content>>
           \/ /\ Holding(Messages', ReadIndex', WriteIndex', content', [msgs EXCEPT ![q] = Tail(@)])
              /\ msgs[q] # <<>>
    BY <1>8, ReadIntoStep
  <2>2. FifoStep(msgs, msgs) /\ (msgs[q] # <<>> => FifoStep(msgs, [msgs EXCEPT ![q] = Tail(@)]))
    BY DEF FifoStep
  <2>3. QED
    BY <2>1, <2>2 DEF Typed
<1>9. ASSUME ~wild, Activate
      PROVE  Goal
  <2>1. /\ mem' = ActivatedMem /\ elements' = NoElements /\ Messages' = EmptySlots
        /\ ReadIndex' = Zeros /\ WriteIndex' = Zeros
        /\ running' = TRUE /\ wild' = wild /\ DOMAIN content' = DVs
    BY <1>9 DEF Activate, MemActivate, NoElements, EmptySlots, Zeros
  <2> DEFINE s == ~wild'
  <2>2. s = TRUE
    BY <2>1, <1>1, <1>9
  <2>3. MemInv(ActivatedMem, NoElements, EmptySlots, s)
    BY <2>2, ActivatedInv
  <2>4. Indexed(ReadIndex', WriteIndex', content')
    BY <2>1 DEF Indexed, OfQueues, Zeros
  <2>5. Typed(running', wild', mem', elements', Messages', ReadIndex', WriteIndex', content')
    BY <2>1, <2>3, <2>4, <1>1 DEF Typed
  <2>6. Holding(Messages', ReadIndex', WriteIndex', content', NoMessages) /\ FifoStep(msgs, NoMessages)
    BY <2>1, EmptyHolding DEF FifoStep
  <2>7. QED
    BY <2>5, <2>6
<1> HIDE DEF Goal
<1>10. ASSUME ~wild, ArrayInstruction PROVE Goal
  <2>1. UNCHANGED queueVars
    BY <1>10 DEF ArrayInstruction
  <2>2. \/ \E d \in ProgramDVs, n \in 0 .. MaxCount : ResizeArray(d, n)
        \/ \E d \in Nested, n \in 0 .. MaxCount : \E i \in DOMAIN elements[d] : ResizeElement(d, i, n)
        \/ MemoryManager
    BY <1>10 DEF ArrayInstruction
  <2>3. CASE \E d \in ProgramDVs, n \in 0 .. MaxCount : ResizeArray(d, n)
    BY <2>1, <2>3, <1>3, <1>10
  <2>4. CASE \E d \in Nested, n \in 0 .. MaxCount : \E i \in DOMAIN elements[d] : ResizeElement(d, i, n)
    BY <2>1, <2>4, <1>4, <1>10
  <2>5. CASE MemoryManager
    BY <2>1, <2>5, <1>5, <1>10
  <2>6. QED
    BY <2>2, <2>3, <2>4, <2>5
<1>11. ASSUME ~wild, QueueOperation PROVE Goal
  <2>1. PICK q \in Queues :
          \/ \E m \in Message : Write(q, m, TRUE)
          \/ \E m \in Message : Length[m] > 0 /\ Write(q, m, FALSE)
          \/ RemoteRead(q)
          \/ \E d \in ProgramDVs \ Nested, removes \in BOOLEAN : ReadInto(q, d, removes)
    BY <1>11 DEF QueueOperation
  <2>2. CASE \E m \in Message : Write(q, m, TRUE)
    <3>1. PICK m \in Message : Write(q, m, TRUE)
      BY <2>2
    <3> DEFINE ends == TRUE
    <3>2. ends \in BOOLEAN /\ Write(q, m, ends)
      BY <3>1
    <3> HIDE DEF ends
    <3>3. QED
      BY <3>2, <1>6, <1>11
  <2>3. CASE \E m \in Message : Length[m] > 0 /\ Write(q, m, FALSE)
    <3>1. PICK m \in Message : Write(q, m, FALSE)
      BY <2>3
    <3> DEFINE ends == FALSE
    <3>2. ends \in BOOLEAN /\ Write(q, m, ends)
      BY <3>1
    <3> HIDE DEF ends
    <3>3. QED
      BY <3>2, <1>6, <1>11
  <2>4. CASE RemoteRead(q)
    BY <2>4, <1>7
  <2>5. CASE \E d \in ProgramDVs \ Nested, removes \in BOOLEAN : ReadInto(q, d, removes)
    BY <2>5, <1>8, <1>11
  <2>6. QED
    BY <2>1, <2>2, <2>3, <2>4, <2>5
<1>12. Goal
  <2>1. (~wild /\ ArrayInstruction) \/ (~wild /\ QueueOperation) \/ (~wild /\ Activate)
    BY DEF Next
  <2>2. QED
    BY <2>1, <1>9, <1>10, <1>11
<1>13. QED
  BY <1>12 DEF Goal

\* In the invariant the queues hold what the refinement mapping says.
LEMMA HoldingBar ==
  ASSUME IInv
  PROVE  Holding(Messages, ReadIndex, WriteIndex, content, [q \in Queues |-> Queued(q)])
<1>1. [q \in Queues |-> Queued(q)] = [q \in Queues |-> QueuedIn(Messages, ReadIndex, content, q)]
  BY DEF Queued, QueuedIn
<1>2. \A q \in Queues : Ringed(Messages, ReadIndex, WriteIndex, q)
  BY DEF IInv
<1>3. Holding(Messages, ReadIndex, WriteIndex, content,
              [q \in Queues |-> QueuedIn(Messages, ReadIndex, content, q)])
  BY <1>2, QueuedHolding
<1>4. QED
  BY <1>1, <1>3

\* A step of the code is one of the buffers, and keeps the invariant.
LEMMA BothSteps ==
  ASSUME IInv, [Next]_vars
  PROVE  /\ IInv'
         /\ FifoStep([q \in Queues |-> Queued(q)], [q \in Queues |-> Queued(q)]')
<1> DEFINE msgs == [q \in Queues |-> Queued(q)]
<1>1. CASE Next
  <2>1. Holding(Messages, ReadIndex, WriteIndex, content, msgs) /\ OfQueues(msgs)
    BY HoldingBar DEF OfQueues
  <2>2. msgs' = [q \in Queues |-> QueuedIn(Messages', ReadIndex', content', q)]
    BY DEF Queued, QueuedIn
  <2>3. msgs = [q \in Queues |-> msgs[q]]
    OBVIOUS
  <2> DEFINE old == msgs
  <2>4. Holding(Messages, ReadIndex, WriteIndex, content, old) /\ OfQueues(old)
        /\ old = [q \in Queues |-> old[q]]
    BY <2>1, <2>3
  <2> HIDE DEF old
  <2>5. /\ Typed(running', wild', mem', elements', Messages', ReadIndex', WriteIndex', content')
        /\ \E new : /\ FifoStep(old, new)
                    /\ Holding(Messages', ReadIndex', WriteIndex', content', new)
    BY <2>4, <1>1, NextStep
  <2>6. PICK new : FifoStep(old, new) /\ Holding(Messages', ReadIndex', WriteIndex', content', new)
    BY <2>5
  <2>7. \A q \in Queues : /\ Ringed(Messages', ReadIndex', WriteIndex', q)
                          /\ QueuedIn(Messages', ReadIndex', content', q) = new[q]
    BY <2>6, HoldingQueued
  <2>8. new = [q \in Queues |-> new[q]]
    BY <2>4, <2>6 DEF FifoStep, NoMessages
  <2>9. IInv'
    BY <2>5, <2>7 DEF IInv, Typed, Indexed, OfQueues
  <2>10. new = msgs'
    <3> HIDE DEF msgs
    <3>1. QED
      BY <2>2, <2>7, <2>8
  <2>11. QED
    BY <2>6, <2>9, <2>10 DEF old
<1>2. CASE UNCHANGED vars
  <2>1. /\ UNCHANGED <<mem, elements, running, wild>>
        /\ UNCHANGED <<Messages, ReadIndex, WriteIndex, content>>
    BY <1>2 DEF vars, memVars, queueVars
  <2>2. IInv'
    BY <2>1 DEF IInv
  <2>3. msgs' = msgs
    BY <2>1 DEF Queued
  <2>4. QED
    BY <2>2, <2>3 DEF FifoStep
<1>3. QED
  BY <1>1, <1>2

\* The lists, the arrays, their owners and the queues keep the inductive invariant
\* through every instruction, system call, remote command and activation.
THEOREM Invariance == Spec => []IInv
<1>1. Init => IInv
  <2> SUFFICES ASSUME Init PROVE IInv
    OBVIOUS
  <2>1. /\ Typed(running, wild, mem, elements, Messages, ReadIndex, WriteIndex, content)
        /\ Holding(Messages, ReadIndex, WriteIndex, content, NoMessages)
    BY InitStep
  <2>2. \A q \in Queues : Ringed(Messages, ReadIndex, WriteIndex, q)
    BY <2>1, HoldingQueued
  <2>3. QED
    BY <2>1, <2>2, IInvTyped
<1>2. IInv /\ [Next]_vars => IInv'
  BY BothSteps
<1>3. QED
  BY <1>1, <1>2, PTL DEF Spec

\* Every queue is a first-in first-out buffer whatever happens to the memory: writes
\* that find none and are tried again (c_cmd.c:3419-3543) lose only the oldest message.
THEOREM Refinement == Spec => ImplementsFifo
<1> DEFINE msgs == [q \in Queues |-> Queued(q)]
<1>1. Init => Fifo!FifoInit
  <2> SUFFICES ASSUME Init PROVE msgs = NoMessages
    BY DEF Fifo!FifoInit, NoMessages
  <2>1. Holding(Messages, ReadIndex, WriteIndex, content, NoMessages)
    BY InitStep
  <2>2. \A q \in Queues : QueuedIn(Messages, ReadIndex, content, q) = NoMessages[q]
    BY <2>1, HoldingQueued
  <2>3. \A q \in Queues : Queued(q) = NoMessages[q]
    BY <2>2 DEF Queued, QueuedIn
  <2>4. QED
    BY <2>3 DEF NoMessages
<1>2. IInv /\ [Next]_vars => [Fifo!FifoNext]_msgs
  <2> SUFFICES ASSUME IInv, [Next]_vars PROVE Fifo!FifoNext \/ msgs' = msgs
    OBVIOUS
  <2>1. FifoStep(msgs, msgs')
    BY BothSteps
  <2>2. \A q \in Queues : RoomIn(q, msgs[q]) = Fifo!Remaining(q)
    BY DEF RoomIn, Fifo!Remaining
  <2>3. CASE msgs' = NoMessages
    BY <2>3 DEF Fifo!FifoNext, Fifo!Clear, NoMessages
  <2>4. CASE \E q \in Queues : msgs' = [msgs EXCEPT ![q] = RoomIn(q, @)]
    BY <2>2, <2>4 DEF Fifo!FifoNext, Fifo!WriteFails
  <2>5. CASE \E q \in Queues : msgs[q] # <<>> /\ msgs' = [msgs EXCEPT ![q] = Tail(@)]
    BY <2>5 DEF Fifo!FifoNext, Fifo!Take
  <2>6. CASE \E q \in Queues : \E m \in Message : msgs' = [msgs EXCEPT ![q] = Append(RoomIn(q, @), m)]
    BY <2>2, <2>6 DEF Fifo!FifoNext, Fifo!Write
  <2>7. QED
    BY <2>1, <2>3, <2>4, <2>5, <2>6 DEF FifoStep
<1>3. QED
  BY <1>1, <1>2, Invariance, PTL DEF Spec, ImplementsFifo, Fifo!FifoSpec

\* What the invariant says of the lists.
LEMMA InvLists ==
  ASSUME IInv
  PROVE  \E U, u, f : /\ Good(mem, u, f, ~wild) /\ Range_(u) = U /\ Used(mem) = u /\ Free(mem) = f
                      /\ Sound(mem, U, ~wild)
                      /\ Holds(U, elements, Static \cup SlotDVs(Messages)) /\ Counted(mem, elements)
<1> DEFINE s == ~wild
<1>1. MemInv(mem, elements, Messages, s) /\ s \in BOOLEAN
  BY DEF IInv
<1> HIDE DEF s
<1>2. PICK U : /\ Sound(mem, U, s)
               /\ Holds(U, elements, Static \cup SlotDVs(Messages)) /\ Counted(mem, elements)
  BY <1>1 DEF MemInv, Kept
<1>3. PICK u, f : Good(mem, u, f, s) /\ Range_(u) = U
  BY <1>2 DEF Sound
<1>4. Used(mem) = u /\ Free(mem) = f
  BY <1>3, ListsFacts DEF Good
<1>5. QED
  BY <1>2, <1>3, <1>4 DEF s

\* The invariant contains what cCmdVerifyMemMgr asserts.
LEMMA Verified ==
  ASSUME IInv
  PROVE  MemMgrVerified
<1>1. PICK u, f : Good(mem, u, f, ~wild) /\ Used(mem) = u /\ Free(mem) = f
  BY InvLists
<1> DEFINE s == ~wild
           c == mem.Count[0]
           w == u \o f
           X == Extents(mem, s)
           O == mem.Offset
<1>2. s \in BOOLEAN /\ Good(mem, u, f, s)
  BY <1>1 DEF IInv
<1> HIDE DEF s
<1>3. /\ Lists(mem, u, f) /\ Distinct(u) /\ Distinct(f) /\ c \in Nat /\ X \in [DVs -> Nat]
      /\ Len(u) \in Nat /\ Len(f) \in Nat
  BY <1>2, GoodFacts, ListsFacts
<1>4. u \in Seq(DVs) /\ f \in Seq(DVs) /\ DOMAIN u = 1 .. Len(u) /\ DOMAIN f = 1 .. Len(f)
  BY <1>3 DEF Distinct
<1>5. /\ Len(u) >= 1 /\ mem.Tail = u[Len(u)] /\ Len(u) + Len(f) = c
      /\ Range_(u) \cup Range_(f) = 0 .. c - 1
  BY <1>3 DEF Lists
<1>6. /\ w \in Seq(DVs) /\ Len(w) = c
      /\ \A i \in 1 .. Len(u) : w[i] = u[i]
      /\ \A i \in 1 .. Len(f) : w[Len(u) + i] = f[i]
  BY <1>4, <1>5, ConcatSeq
<1> HIDE DEF w, c, X
<1>7. DOMAIN w = 1 .. c
  BY <1>3, <1>6
<1>8. Range_(w) = Range_(u) \cup Range_(f)
  <2>1. ASSUME NEW i \in 1 .. c PROVE w[i] \in Range_(u) \cup Range_(f)
    <3>1. CASE i \in 1 .. Len(u)
      BY <3>1, <1>4, <1>6 DEF Range_
    <3>2. CASE i \notin 1 .. Len(u)
      <4>1. i - Len(u) \in 1 .. Len(f) /\ Len(u) + (i - Len(u)) = i
        BY <3>2, <1>3, <1>5
      <4>2. w[i] = f[i - Len(u)]
        BY <4>1, <1>6
      <4>3. QED
        BY <4>1, <4>2, <1>4 DEF Range_
    <3>3. QED
      BY <3>1, <3>2
  <2>2. ASSUME NEW i \in 1 .. Len(u) PROVE u[i] \in Range_(w)
    <3>1. i \in 1 .. c
      BY <1>3, <1>5
    <3>2. QED
      BY <3>1, <1>6, <1>7 DEF Range_
  <2>3. ASSUME NEW i \in 1 .. Len(f) PROVE f[i] \in Range_(w)
    <3>1. Len(u) + i \in 1 .. c
      BY <1>3, <1>5
    <3>2. QED
      BY <3>1, <1>6, <1>7 DEF Range_
  <2>4. Range_(w) \subseteq Range_(u) \cup Range_(f)
    BY <2>1, <1>7 DEF Range_
  <2>5. Range_(u) \cup Range_(f) \subseteq Range_(w)
    BY <2>2, <2>3, <1>4 DEF Range_
  <2>6. QED
    BY <2>4, <2>5
<1>9. w \in [1 .. c -> 0 .. c - 1] /\ Range_(w) = 0 .. c - 1
  <2>1. \A i \in 1 .. c : w[i] \in 0 .. c - 1
    BY <1>5, <1>7, <1>8 DEF Range_
  <2>2. w = [i \in 1 .. c |-> w[i]]
    BY <1>6, <1>7
  <2>3. w \in [1 .. c -> 0 .. c - 1]
    BY <2>1, <2>2
  <2>4. QED
    BY <2>3, <1>5, <1>8
<1>10. ASSUME NEW list \in {u, f}, NEW i \in DOMAIN list
       PROVE  mem.BackLink[list[i]] = IF i = 1 THEN NOT_A_DS_ID ELSE list[i - 1]
  BY <1>3, <1>4, <1>10 DEF Lists, Chain
<1>11. ASSUME NEW i \in DOMAIN u, NEW j \in DOMAIN u, i < j,
              O[u[i]] # NOT_AN_OFFSET, O[u[j]] # NOT_AN_OFFSET
       PROVE  O[u[i]] <= O[u[j]]
  <2>1. i \in 1 .. Len(u) /\ j \in 1 .. Len(u)
    BY <1>4
  <2>2. u[i] \in DVs /\ u[j] \in DVs
    BY <2>1, <1>4
  <2>3. O[u[i]] \in Nat /\ O[u[j]] \in Nat /\ X[u[i]] \in Nat
    BY <2>2, <1>2, <1>3, GoodFacts
  <2>4. O[u[i]] + X[u[i]] <= O[u[j]]
    BY <2>1, <1>2, <1>11 DEF Good, Placed, X
  <2> HIDE DEF O
  <2>5. QED
    BY <2>3, <2>4
<1>12. QED
  BY <1>1, <1>5, <1>9, <1>10, <1>11 DEF MemMgrVerified, w, c

\* The invariant keeps arrays apart.
LEMMA Disjoint ==
  ASSUME IInv
  PROVE  ArraysDisjoint
<1> SUFFICES ASSUME ~wild PROVE ArraysDisjoint
  BY DEF ArraysDisjoint
<1>1. PICK U, u, f : Good(mem, u, f, ~wild) /\ Sound(mem, U, ~wild)
  BY InvLists
<1> DEFINE s == ~wild
           X == Extents(mem, s)
           O == mem.Offset
           D == mem.DataspaceSize
<1>2. s = TRUE /\ s \in BOOLEAN /\ Good(mem, u, f, s) /\ Sound(mem, U, s)
  BY <1>1
<1> HIDE DEF s
<1>3. mem \in Memories /\ Distinct(u) /\ D \in Nat
  BY <1>2, GoodFacts
<1>4. X \in [DVs -> Nat] /\ \A d \in DVs : Size(mem, d) \in Nat /\ X[d] = Size(mem, d)
  BY <1>2, <1>3, ExtentsNat
<1>5. Placed(O, X, D, u) /\ D <= POOL_MAX_SIZE
  BY <1>2 DEF Good
<1>6. MovesDown(mem)
  BY <1>2, CompactSound
<1> HIDE DEF X
<1>7. ASSUME NEW d \in DVs, O[d] # NOT_AN_OFFSET
      PROVE  /\ O[d] \in Nat /\ DSStaticSize <= O[d] /\ O[d] + Size(mem, d) <= D
             /\ \E i \in 1 .. Len(u) : u[i] = d
  <2>1. d \in Range_(u) /\ DSStaticSize <= O[d] /\ O[d] + X[d] <= D /\ O[d] \in Nat
    BY <1>5, <1>7 DEF Placed
  <2>2. \E i \in 1 .. Len(u) : u[i] = d
    BY <2>1, <1>3, Ranges DEF Distinct
  <2>3. QED
    BY <2>1, <2>2, <1>4
<1>8. ASSUME NEW d \in DVs, NEW e \in DVs, O[d] # NOT_AN_OFFSET, O[e] # NOT_AN_OFFSET, d # e
      PROVE  O[d] + Size(mem, d) <= O[e] \/ O[e] + Size(mem, e) <= O[d]
  <2>1. PICK i \in 1 .. Len(u) : u[i] = d
    BY <1>7, <1>8
  <2>2. PICK j \in 1 .. Len(u) : u[j] = e
    BY <1>7, <1>8
  <2>3. i < j \/ j < i
    <3>1. i # j
      BY <2>1, <2>2, <1>8
    <3>2. i \in Int /\ j \in Int
      OBVIOUS
    <3>3. QED
      BY <3>1, <3>2
  <2>4. /\ i < j => O[d] + X[d] <= O[e]
        /\ j < i => O[e] + X[e] <= O[d]
    BY <2>1, <2>2, <1>5, <1>8 DEF Placed
  <2>5. QED
    BY <2>3, <2>4, <1>4
<1>9. DSStaticSize \in Nat
  BY Constants
<1>10. \A d \in DVs : O[d] # NOT_AN_OFFSET => O[d] >= DSStaticSize
  BY <1>7, <1>9
<1>11. QED
  BY <1>5, <1>6, <1>7, <1>8, <1>10 DEF ArraysDisjoint

\* The DVs that live in an array of the program, in an element and in a slot.
LEMMA AtProgram ==
  ASSUME NEW d
  PROVE  At(<<"program", d>>) = {d}
BY DEF At

\* The DV that lives in an element.
LEMMA AtElement ==
  ASSUME NEW d, NEW i
  PROVE  At(<<"element", d, i>>) = IF i \in DOMAIN elements[d] /\ elements[d][i] # STALE
                                   THEN {elements[d][i]} ELSE {}
BY DEF At

\* The DV that lives in a slot.
LEMMA AtSlot ==
  ASSUME NEW q, NEW t
  PROVE  At(<<"slot", q, t>>) = {Messages[q][t]} \ {NOT_A_DS_ID}
BY DEF At

\* The DV x lives in the place r: an array, an element or a slot.
InProgram(r, x) == x \in Static /\ r = <<"program", x>>
InElement(r, x) ==
  \E d \in Nested : \E i \in 1 .. Len(elements[d]) :
    r = <<"element", d, i>> /\ elements[d][i] = x /\ x # STALE
InSlot(r, x) ==
  \E q \in Queues : \E t \in Slots(q) :
    r = <<"slot", q, t>> /\ Messages[q][t] = x /\ x # NOT_A_DS_ID

\* What lives in a place is known to the program, an element or a slot.
LEMMA Homes ==
  ASSUME elements \in [Nested -> Seq(DVs \cup {STALE})], NEW r \in References, NEW x \in At(r)
  PROVE  InProgram(r, x) \/ InElement(r, x) \/ InSlot(r, x)
<1>1. CASE \E d \in Static : r = <<"program", d>>
  <2>1. PICK d \in Static : r = <<"program", d>>
    BY <1>1
  <2>2. x = d
    BY <2>1, AtProgram
  <2>3. QED
    BY <2>1, <2>2 DEF InProgram
<1>2. CASE \E d \in Nested : \E i \in 1 .. MaxCount : r = <<"element", d, i>>
  <2>1. PICK d \in Nested : \E i \in 1 .. MaxCount : r = <<"element", d, i>>
    BY <1>2
  <2>2. PICK i \in 1 .. MaxCount : r = <<"element", d, i>>
    BY <2>1
  <2>3. i \in DOMAIN elements[d] /\ elements[d][i] # STALE /\ x = elements[d][i]
    BY <2>2, AtElement
  <2>4. elements[d] \in Seq(DVs \cup {STALE})
    OBVIOUS
  <2>5. i \in 1 .. Len(elements[d])
    BY <2>3, <2>4
  <2>6. QED
    BY <2>2, <2>3, <2>5 DEF InElement
<1>3. CASE \E q \in Queues : \E t \in Slots(q) : r = <<"slot", q, t>>
  <2>1. PICK q \in Queues : \E t \in Slots(q) : r = <<"slot", q, t>>
    BY <1>3
  <2>2. PICK t \in Slots(q) : r = <<"slot", q, t>>
    BY <2>1
  <2>3. x \in {Messages[q][t]} \ {NOT_A_DS_ID}
    BY <2>2, AtSlot
  <2>4. QED
    BY <2>2, <2>3 DEF InSlot
<1>4. r \in {<<"program", d>> : d \in Static}
      \/ r \in {<<"element", d, i>> : d \in Nested, i \in 1 .. MaxCount}
      \/ r \in UNION {{<<"slot", q, s>> : s \in Slots(q)} : q \in Queues}
  BY DEF References, Static
<1>5. QED
  BY <1>1, <1>2, <1>3, <1>4

\* The converse: every DV with a home is at a place that refers to it.
LEMMA Located ==
  ASSUME NEW x
  PROVE  /\ x \in Static => x \in UNION {At(r) : r \in References}
         /\ \A d \in Nested : \A i \in 1 .. MaxCount :
              i \in DOMAIN elements[d] /\ elements[d][i] = x /\ x # STALE
              => x \in UNION {At(r) : r \in References}
         /\ \A q \in Queues : \A t \in Slots(q) :
              Messages[q][t] = x /\ x # NOT_A_DS_ID => x \in UNION {At(r) : r \in References}
<1> DEFINE All == UNION {At(r) : r \in References}
<1>1. ASSUME NEW r \in References, x \in At(r) PROVE x \in All
  BY <1>1
<1>2. ASSUME x \in Static PROVE x \in All
  <2>1. <<"program", x>> \in References
    BY <1>2 DEF References, Static
  <2>2. x \in At(<<"program", x>>)
    BY AtProgram
  <2>3. QED
    BY <1>1, <2>1, <2>2
<1>3. ASSUME NEW d \in Nested, NEW i \in 1 .. MaxCount, i \in DOMAIN elements[d],
             elements[d][i] = x, x # STALE
      PROVE  x \in All
  <2>1. <<"element", d, i>> \in References
    BY <1>3 DEF References
  <2>2. x \in At(<<"element", d, i>>)
    BY <1>3, AtElement
  <2>3. QED
    BY <1>1, <2>1, <2>2
<1>4. ASSUME NEW q \in Queues, NEW t \in Slots(q), Messages[q][t] = x, x # NOT_A_DS_ID PROVE x \in All
  <2>1. <<"slot", q, t>> \in References
    BY <1>4 DEF References
  <2>2. x \in At(<<"slot", q, t>>)
    BY <1>4, AtSlot
  <2>3. QED
    BY <1>1, <2>1, <2>2
<1>5. QED
  BY <1>2, <1>3, <1>4

\* The invariant gives every DV in use one owner.
LEMMA Owned ==
  ASSUME IInv
  PROVE  VectorsOwned
<1> SUFFICES ASSUME ~wild PROVE VectorsOwned
  BY DEF VectorsOwned
<1> DEFINE All == UNION {At(r) : r \in References}
           P == Static \cup SlotDVs(Messages)
           E == ElemDVs(elements)
<1>1. PICK U, u : /\ Range_(u) = U /\ Used(mem) = u
                  /\ Holds(U, elements, P) /\ Counted(mem, elements)
  BY InvLists
<1>2. Slotted(Messages) /\ Apart(Static, SlotDVs(Messages))
  BY DEF IInv, MemInv
<1>3. elements \in [Nested -> Seq(DVs \cup {STALE})] /\ U = P \cup E /\ P \cap E = {}
  BY <1>1 DEF Holds
<1> HIDE DEF E
<1>4. \A x : x \in E => x # STALE
  BY MemMgrConstants DEF E, ElemDVs, DVs
<1>5. \A x : x \in SlotDVs(Messages) => x # NOT_A_DS_ID
  BY NotADV DEF SlotDVs
<1>6. ASSUME NEW r \in References, NEW x \in At(r)
      PROVE  \/ InProgram(r, x) /\ x \in Static
             \/ InElement(r, x) /\ x \in E
             \/ InSlot(r, x) /\ x \in SlotDVs(Messages)
  <2>1. InProgram(r, x) => x \in Static
    BY DEF InProgram
  <2>2. InElement(r, x) => x \in E
    <3> SUFFICES ASSUME InElement(r, x) PROVE x \in E
      OBVIOUS
    <3>1. PICK d \in Nested : \E i \in 1 .. Len(elements[d]) : elements[d][i] = x /\ x # STALE
      BY DEF InElement
    <3>2. PICK i \in 1 .. Len(elements[d]) : elements[d][i] = x /\ x # STALE
      BY <3>1
    <3>3. QED
      BY <1>3, <3>2, ElemFacts DEF E
  <2>3. InSlot(r, x) => x \in SlotDVs(Messages)
    <3> SUFFICES ASSUME InSlot(r, x) PROVE x \in SlotDVs(Messages)
      OBVIOUS
    <3>1. PICK q \in Queues : \E t \in Slots(q) : Messages[q][t] = x /\ x # NOT_A_DS_ID
      BY DEF InSlot
    <3>2. PICK t \in Slots(q) : Messages[q][t] = x /\ x # NOT_A_DS_ID
      BY <3>1
    <3>3. Messages[q][t] \in Ids
      BY <1>2 DEF Slotted
    <3>4. x \in DVs
      BY <3>2, <3>3 DEF Ids
    <3>5. QED
      BY <3>2, <3>4, SlotOf
  <2>4. QED
    BY <1>3, <2>1, <2>2, <2>3, Homes
<1>7. ASSUME NEW x \in U PROVE x \in All
  <2>1. CASE x \in Static
    BY <2>1, Located
  <2>2. CASE x \in SlotDVs(Messages)
    <3>1. PICK q \in Queues : \E t \in Slots(q) : Messages[q][t] = x
      BY <2>2, SlotOf
    <3>2. QED
      BY <1>5, <2>2, <3>1, Located
  <2>3. CASE x \in E
    <3>1. PICK d \in Nested : \E i \in 1 .. Len(elements[d]) : elements[d][i] = x
      BY <2>3, ElemOf DEF E
    <3>2. PICK i \in 1 .. Len(elements[d]) : elements[d][i] = x
      BY <3>1
    <3>3. elements[d] \in Seq(DVs \cup {STALE}) /\ Len(elements[d]) \in Nat
      BY <1>3, ElemFacts
    <3>4. Len(elements[d]) <= MaxCount
      BY <1>1 DEF Counted
    <3>5. i \in 1 .. MaxCount /\ i \in DOMAIN elements[d]
      <4>1. MaxCount \in Nat
        BY MemMgrConstants
      <4>2. QED
        BY <3>3, <3>4, <4>1
    <3>6. QED
      BY <1>4, <2>3, <3>2, <3>5, Located
  <2>4. QED
    BY <1>3, <2>1, <2>2, <2>3
<1>8. All = U
  <2>1. \A r \in References : \A x \in At(r) : x \in U
    BY <1>3, <1>6
  <2>2. QED
    BY <1>7, <2>1
<1>9. ASSUME NEW r \in References, NEW t \in References, NEW x \in At(r), x \in At(t)
      PROVE  r = t
  <2>1. CASE x \in Static
    <3>1. InProgram(r, x) /\ InProgram(t, x)
      BY <1>2, <1>3, <1>6, <1>9, <2>1 DEF Apart
    <3>2. QED
      BY <3>1 DEF InProgram
  <2>2. CASE x \in E
    <3>1. InElement(r, x) /\ InElement(t, x)
      BY <1>2, <1>3, <1>6, <1>9, <2>2 DEF Apart
    <3>2. PICK d \in Nested : \E i \in 1 .. Len(elements[d]) :
                r = <<"element", d, i>> /\ elements[d][i] = x /\ x # STALE
      BY <3>1 DEF InElement
    <3>3. PICK i \in 1 .. Len(elements[d]) :
                r = <<"element", d, i>> /\ elements[d][i] = x /\ x # STALE
      BY <3>2
    <3>4. PICK e \in Nested : \E j \in 1 .. Len(elements[e]) :
                t = <<"element", e, j>> /\ elements[e][j] = x
      BY <3>1 DEF InElement
    <3>5. PICK j \in 1 .. Len(elements[e]) : t = <<"element", e, j>> /\ elements[e][j] = x
      BY <3>4
    <3>6. d = e /\ i = j
      BY <1>1, <3>3, <3>5 DEF Holds
    <3>7. QED
      BY <3>3, <3>5, <3>6
  <2>3. CASE x \in SlotDVs(Messages)
    <3>1. InSlot(r, x) /\ InSlot(t, x)
      BY <1>2, <1>3, <1>6, <1>9, <2>3 DEF Apart
    <3>2. PICK q \in Queues : \E i \in Slots(q) :
                r = <<"slot", q, i>> /\ Messages[q][i] = x /\ x # NOT_A_DS_ID
      BY <3>1 DEF InSlot
    <3>3. PICK i \in Slots(q) : r = <<"slot", q, i>> /\ Messages[q][i] = x /\ x # NOT_A_DS_ID
      BY <3>2
    <3>4. PICK p \in Queues : \E j \in Slots(p) : t = <<"slot", p, j>> /\ Messages[p][j] = x
      BY <3>1 DEF InSlot
    <3>5. PICK j \in Slots(p) : t = <<"slot", p, j>> /\ Messages[p][j] = x
      BY <3>4
    <3>6. q = p /\ i = j
      BY <1>2, <3>3, <3>5 DEF Slotted
    <3>7. QED
      BY <3>3, <3>5, <3>6
  <2>4. QED
    BY <1>6, <2>1, <2>2, <2>3
<1>10. \A r, t \in References : r # t => At(r) \cap At(t) = {}
  BY <1>9
<1>11. Range_(Used(mem)) = All
  BY <1>1, <1>8
<1>12. QED
  BY <1>10, <1>11 DEF VectorsOwned

-----------------------------------------------------------------------------
(***************************************************************************)
(* The types.                                                              *)
(***************************************************************************)

\* The history names messages only.
Contents == content \in [DVs -> Message \cup {NoMessage}]

\* No step puts anything but messages into the history.
LEMMA ContentsStep == Contents /\ [Next]_vars => Contents'
<1> SUFFICES ASSUME Contents, [Next]_vars PROVE Contents'
  OBVIOUS
<1>1. CASE UNCHANGED content
  BY <1>1 DEF Contents
<1>2. ASSUME NEW q \in Queues, NEW m \in Message, NEW ends \in BOOLEAN, Write(q, m, ends)
      PROVE  Contents'
  <2>1. \E d, e : content' = [content EXCEPT ![d] = NoMessage, ![e] = m]
    BY <1>2 DEF Write
  <2>2. QED
    BY <2>1 DEF Contents
<1>3. ASSUME NEW q \in Queues, NEW M, Remove(q, M) PROVE Contents'
  <2>1. \E d : content' = [content EXCEPT ![d] = NoMessage]
    BY <1>3 DEF Remove
  <2>2. QED
    BY <2>1 DEF Contents
<1>4. ASSUME NEW q \in Queues, RemoteRead(q) PROVE Contents'
  BY <1>3, <1>4 DEF RemoteRead
<1>5. ASSUME NEW q \in Queues, NEW d, NEW removes, ReadInto(q, d, removes) PROVE Contents'
  BY <1>1, <1>3, <1>5 DEF ReadInto
<1>6. CASE Activate
  BY <1>6 DEF Activate, Contents
<1>7. CASE ArrayInstruction
  BY <1>1, <1>7 DEF ArrayInstruction, queueVars
<1>8. CASE QueueOperation
  BY <1>2, <1>4, <1>5, <1>8 DEF QueueOperation
<1>9. QED
  BY <1>1, <1>6, <1>7, <1>8 DEF Next, vars, queueVars

\* The invariant contains the types.
LEMMA Types ==
  ASSUME IInv, Contents
  PROVE  TypeOK
<1>1. PICK u, f : /\ Good(mem, u, f, ~wild) /\ Holds(Range_(u), elements, Static \cup SlotDVs(Messages))
  BY InvLists
<1> DEFINE s == ~wild
<1>2. s \in BOOLEAN /\ Good(mem, u, f, s)
  BY <1>1 DEF IInv
<1> HIDE DEF s
<1>3. mem \in Memories /\ Lists(mem, u, f) /\ Distinct(u)
  BY <1>2, GoodFacts
<1>4. mem.Head \in DVs /\ mem.Tail \in DVs
  BY <1>3, ListsFacts DEF Lists, Chain, Distinct
<1>5. /\ mem.FreeHead \in DVs \cup {NOT_A_DS_ID}
      /\ mem.Link \in [DVs -> DVs \cup {NOT_A_DS_ID}]
      /\ mem.BackLink \in [DVs -> DVs \cup {NOT_A_DS_ID}]
      /\ mem.Offset \in [DVs -> Nat]
      /\ mem.ElemSize \in [DVs -> Nat] /\ mem.Count \in [DVs -> Nat]
      /\ mem.DataspaceSize \in Nat
  BY <1>3 DEF Memories, Ids
<1>6. elements \in [Nested -> Seq(DVs \cup {STALE})]
  BY <1>1 DEF Holds
<1>7. ASSUME NEW q \in Queues
      PROVE  /\ Messages[q] \in [Slots(q) -> DVs \cup {NOT_A_DS_ID}]
             /\ ReadIndex[q] \in Slots(q) /\ WriteIndex[q] \in Slots(q)
  <2>1. Messages[q] \in [Slots(q) -> DVs \cup {NOT_A_DS_ID}]
    BY DEF IInv, MemInv, Slotted, Ids
  <2>2. PICK n : Ring(Messages[q], ReadIndex[q], WriteIndex[q], MESSAGES_PER_QUEUE[q], n)
    BY DEF IInv, Ringed
  <2>3. ReadIndex[q] \in Slots(q) /\ WriteIndex[q] \in Slots(q)
    <3> DEFINE N == MESSAGES_PER_QUEUE[q]
               r == ReadIndex[q]
    <3>1. N \in Nat \ {0} /\ r \in 0 .. N - 1 /\ n \in 0 .. N /\ WriteIndex[q] = Place(r, n, N)
      BY <2>2 DEF Ring
    <3> HIDE DEF N, r
    <3>2. Place(r, n, N) \in 0 .. N - 1
      BY <3>1, Places
    <3>3. QED
      BY <3>1, <3>2 DEF Slots, N, r
  <2>4. QED
    BY <2>1, <2>3
<1>8. running \in BOOLEAN /\ wild \in BOOLEAN
  BY DEF IInv
<1>9. QED
  BY <1>4, <1>5, <1>6, <1>7, <1>8 DEF TypeOK, Contents

-----------------------------------------------------------------------------
(***************************************************************************)
(* The theorems.                                                           *)
(***************************************************************************)

\* The manager, the arrays of arrays, the queues and their indices keep their
\* types, for any program, pool and queues (c_cmd.h:238-265, 396-404).
THEOREM TypeCorrect == Spec => []TypeOK
<1>1. Init => Contents
  BY DEF Init, QueueInit, Contents
<1>2. IInv /\ Contents => TypeOK
  BY Types
<1>3. QED
  BY <1>1, <1>2, ContentsStep, Invariance, PTL DEF Spec

\* What cCmdVerifyMemMgr asserts (c_cmd.c:3282-3327) is true after every
\* operation, failed and repeated ones included: no DV is lost from the lists,
\* none is on them twice, and the list of the arrays is in the order of the pool.
THEOREM AlwaysVerified == Spec => []MemMgrVerified
<1>1. IInv => MemMgrVerified
  BY Verified
<1>2. QED
  BY <1>1, Invariance, PTL

\* cCmdDVArrayAlloc, cCmdGrowDopeVectorArray and cCmdDSCompact never put two
\* arrays into the same memory, and compaction only moves arrays down, until an
\* array grows over a neighbour that has no offset.
THEOREM AlwaysDisjoint == Spec => []ArraysDisjoint
<1>1. IInv => ArraysDisjoint
  BY Disjoint
<1>2. QED
  BY <1>1, Invariance, PTL

\* Whatever fails half way, every DV in use has one owner, and every array,
\* element and message slot the DV it names: none leaks, none dangles.
THEOREM AlwaysOwned == Spec => []VectorsOwned
<1>1. IInv => VectorsOwned
  BY Owned
<1>2. QED
  BY <1>1, Invariance, PTL
=============================================================================
