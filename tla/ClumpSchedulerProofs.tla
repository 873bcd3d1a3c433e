------------------------ MODULE ClumpSchedulerProofs ------------------------
(***************************************************************************)
(* What TLAPS proves about ClumpScheduler, for every program that keeps to *)
(* WellFormed: any number of clumps, mutexes, dependents and ticks; and,   *)
(* in the last part, that the lists of ClumpQueues are the queues the      *)
(* scheduler computes with.                                                *)
(***************************************************************************)
EXTENDS ClumpScheduler, ClumpLists, FiniteSetTheorems, WellFoundedInduction, TLAPS

-----------------------------------------------------------------------------
(***************************************************************************)
(* The queue operations of ClumpFifo: what each does to the type, the      *)
(* exclusiveness and the membership of the queues, for any clumps and      *)
(* mutexes.                                                                *)
(***************************************************************************)
QType == [Queues -> Seq(Clumps)]

\* Taking c out of a sequence without repetitions leaves the other members.
LEMMA WithoutProperties ==
  ASSUME NEW s \in Seq(Clumps), NEW c \in Clumps,
         \A i, j \in DOMAIN s : s[i] = s[j] => i = j
  PROVE  /\ Without(s, c) \in Seq(Clumps)
         /\ \A i, j \in DOMAIN Without(s, c) :
              Without(s, c)[i] = Without(s, c)[j] => i = j
         /\ \A d : (\E i \in DOMAIN Without(s, c) : Without(s, c)[i] = d)
                     <=> d # c /\ \E i \in DOMAIN s : s[i] = d
         /\ s # <<>> /\ Head(s) # c =>
              Without(s, c) # <<>> /\ Head(Without(s, c)) = Head(s)
         /\ s = <<>> => Without(s, c) = <<>>
<1>1. CASE ~\E i \in DOMAIN s : s[i] = c
  <2>1. Without(s, c) = s
    BY <1>1 DEF Without
  <2>2. QED
    BY <1>1, <2>1
<1>2. CASE \E i \in DOMAIN s : s[i] = c
  <2> DEFINE k == CHOOSE k \in DOMAIN s :
                    s[k] = c /\ \A i \in DOMAIN s : s[i] = c => k <= i
             w == [i \in 1 .. Len(s) - 1 |-> IF i < k THEN s[i] ELSE s[i + 1]]
  <2>1. PICK m \in DOMAIN s : s[m] = c
    BY <1>2
  <2>2. m \in 1 .. Len(s) /\ DOMAIN s = 1 .. Len(s) /\ Len(s) \in Nat
    OBVIOUS
  <2>3. \A i \in DOMAIN s : s[i] = c => m <= i
    BY <2>1, <2>2
  <2>4. k \in DOMAIN s /\ s[k] = c
    BY <2>1, <2>3
  <2>5. Without(s, c) = w
    BY <1>2 DEF Without
  <2> HIDE DEF k
  <2>6. k \in 1 .. Len(s) /\ s[k] = c
    BY <2>2, <2>4
  <2>7. Len(s) - 1 \in Nat /\ w \in Seq(Clumps) /\ Len(w) = Len(s) - 1
    BY <2>2, <2>6
  <2>8. DOMAIN w = 1 .. Len(s) - 1
    OBVIOUS
  <2>9. \A i, j \in DOMAIN w : w[i] = w[j] => i = j
    <3> SUFFICES ASSUME NEW i \in 1 .. Len(s) - 1, NEW j \in 1 .. Len(s) - 1, w[i] = w[j]
                 PROVE  i = j
      BY <2>8
    <3>1. i \in DOMAIN s /\ i + 1 \in DOMAIN s /\ j \in DOMAIN s /\ j + 1 \in DOMAIN s
      BY <2>2
    <3>2. w[i] = (IF i < k THEN s[i] ELSE s[i + 1]) /\ w[j] = (IF j < k THEN s[j] ELSE s[j + 1])
      OBVIOUS
    <3>3. (IF i < k THEN i ELSE i + 1) = (IF j < k THEN j ELSE j + 1)
      BY <3>1, <3>2
    <3>4. QED
      BY <3>3, <2>6, <2>2
  <2>10. ASSUME NEW d
         PROVE  (\E i \in DOMAIN w : w[i] = d) <=> d # c /\ \E i \in DOMAIN s : s[i] = d
    <3>1. ASSUME NEW i \in 1 .. Len(s) - 1, w[i] = d
          PROVE  d # c /\ \E j \in DOMAIN s : s[j] = d
      <4>1. i \in DOMAIN s /\ i + 1 \in DOMAIN s /\ k \in DOMAIN s
        BY <2>2, <2>6
      <4>2. CASE i < k
        BY <4>1, <4>2, <3>1, <2>6
      <4>3. CASE ~(i < k)
        <5>1. d = s[i + 1] /\ i + 1 # k
          BY <4>3, <3>1, <2>6, <2>2
        <5>2. QED
          BY <5>1, <4>1, <2>6
      <4>4. QED
        BY <4>2, <4>3
    <3>2. ASSUME d # c, NEW j \in DOMAIN s, s[j] = d
          PROVE  \E i \in 1 .. Len(s) - 1 : w[i] = d
      <4>1. j # k /\ j \in 1 .. Len(s)
        BY <3>2, <2>6, <2>2
      <4>2. CASE j < k
        <5>1. j \in 1 .. Len(s) - 1 /\ w[j] = s[j]
          BY <4>1, <4>2, <2>6, <2>2
        <5>2. QED
          BY <5>1, <3>2
      <4>3. CASE j > k
        <5>1. j - 1 \in 1 .. Len(s) - 1 /\ ~(j - 1 < k) /\ (j - 1) + 1 = j
          BY <4>1, <4>3, <2>6, <2>2
        <5>2. w[j - 1] = s[j]
          BY <5>1
        <5>3. QED
          BY <5>1, <5>2, <3>2
      <4>4. QED
        BY <4>1, <4>2, <4>3, <2>6, <2>2
    <3>3. QED
      BY <3>1, <3>2, <2>8
  <2>11. ASSUME s # <<>>, Head(s) # c
         PROVE  w # <<>> /\ Head(w) = Head(s)
    <3>1. Head(s) = s[1] /\ 1 \in DOMAIN s
      BY <2>11, <2>2, <2>6
    <3>2. k # 1 /\ k > 1 /\ Len(s) > 1
      BY <3>1, <2>11, <2>6, <2>2
    <3>3. 1 \in 1 .. Len(s) - 1 /\ w[1] = s[1]
      BY <3>2, <2>2, <2>6
    <3>4. Len(w) > 0 /\ w # <<>>
      BY <3>2, <2>7, <2>2
    <3>5. Head(w) = w[1]
      BY <3>4, <2>7
    <3>6. QED
      BY <3>1, <3>3, <3>4, <3>5
  <2>12. s # <<>>
    BY <2>2, <2>1
  <2> HIDE DEF w
  <2>13. QED
    BY <2>5, <2>7, <2>9, <2>10, <2>11, <2>12
<1>3. QED
  BY <1>1, <1>2

\* Appending a clump that is on no queue.
LEMMA EnQProperties ==
  ASSUME NEW Q \in QType, NEW q \in Queues, NEW c \in Clumps,
         Exclusive(Q), OffQueues(Q, c)
  PROVE  /\ EnQClump(Q, q, c) \in QType
         /\ Exclusive(EnQClump(Q, q, c))
         /\ \A p \in Queues, d \in Clumps :
              IsClumpOnQ(EnQClump(Q, q, c), p, d) <=>
                IsClumpOnQ(Q, p, d) \/ (p = q /\ d = c)
         /\ \A p \in Queues : p # q => EnQClump(Q, q, c)[p] = Q[p]
         /\ EnQClump(Q, q, c)[q] # <<>>
         /\ Q[q] # <<>> => Head(EnQClump(Q, q, c)[q]) = Head(Q[q])
<1> DEFINE R == EnQClump(Q, q, c)
<1>1. /\ R \in QType /\ R[q] = Append(Q[q], c)
      /\ \A p \in Queues : Q[p] \in Seq(Clumps) /\ (p # q => R[p] = Q[p])
  BY DEF QType, EnQClump
<1>2. /\ DOMAIN R[q] = 1 .. Len(Q[q]) + 1 /\ DOMAIN Q[q] = 1 .. Len(Q[q])
      /\ Len(Q[q]) \in Nat
      /\ R[q][Len(Q[q]) + 1] = c
      /\ \A i \in 1 .. Len(Q[q]) : R[q][i] = Q[q][i]
      /\ R[q] # <<>>
  BY <1>1
<1>3. \A p \in Queues : \A i \in DOMAIN Q[p] : Q[p][i] # c
  BY DEF OffQueues, IsClumpOnQ
<1>4. Exclusive(R)
  <2> SUFFICES ASSUME NEW a \in Queues, NEW b \in Queues,
                      NEW i \in DOMAIN R[a], NEW j \in DOMAIN R[b], R[a][i] = R[b][j]
               PROVE  a = b /\ i = j
    BY DEF Exclusive
  <2>1. CASE a # q /\ b # q
    BY <2>1, <1>1 DEF Exclusive
  <2>2. CASE a = q /\ b # q
    <3>1. R[b] = Q[b] /\ i \in 1 .. Len(Q[q]) + 1
      BY <2>2, <1>1, <1>2
    <3>2. CASE i = Len(Q[q]) + 1
      BY <3>1, <3>2, <1>2, <1>3, <2>2
    <3>3. CASE i # Len(Q[q]) + 1
      <4>1. i \in DOMAIN Q[q] /\ R[a][i] = Q[q][i]
        BY <3>3, <3>1, <1>2, <2>2
      <4>2. j \in DOMAIN Q[b] /\ Q[q][i] = Q[b][j]
        BY <4>1, <3>1
      <4>3. q = b
        BY <4>1, <4>2 DEF Exclusive
      <4>4. QED
        BY <4>3, <2>2
    <3>4. QED
      BY <3>2, <3>3
  <2>3. CASE a # q /\ b = q
    <3>1. R[a] = Q[a] /\ j \in 1 .. Len(Q[q]) + 1
      BY <2>3, <1>1, <1>2
    <3>2. CASE j = Len(Q[q]) + 1
      BY <3>1, <3>2, <1>2, <1>3, <2>3
    <3>3. CASE j # Len(Q[q]) + 1
      <4>1. j \in DOMAIN Q[q] /\ R[b][j] = Q[q][j]
        BY <3>3, <3>1, <1>2, <2>3
      <4>2. QED
        BY <4>1, <3>1, <2>3 DEF Exclusive
    <3>4. QED
      BY <3>2, <3>3
  <2>4. CASE a = q /\ b = q
    <3>1. i \in 1 .. Len(Q[q]) + 1 /\ j \in 1 .. Len(Q[q]) + 1
      BY <2>4, <1>2
    <3>2. CASE i = Len(Q[q]) + 1 \/ j = Len(Q[q]) + 1
      BY <3>1, <3>2, <1>2, <1>3, <2>4
    <3>3. CASE i # Len(Q[q]) + 1 /\ j # Len(Q[q]) + 1
      <4>1. i \in DOMAIN Q[q] /\ j \in DOMAIN Q[q] /\ Q[q][i] = Q[q][j]
        BY <3>3, <3>1, <1>2, <2>4
      <4>2. QED
        BY <4>1, <2>4 DEF Exclusive
    <3>4. QED
      BY <3>2, <3>3
  <2>5. QED
    BY <2>1, <2>2, <2>3, <2>4
<1>5. ASSUME NEW p \in Queues, NEW d \in Clumps
      PROVE  IsClumpOnQ(R, p, d) <=> IsClumpOnQ(Q, p, d) \/ (p = q /\ d = c)
  <2>1. CASE p # q
    BY <2>1, <1>1 DEF IsClumpOnQ
  <2>2. CASE p = q
    <3>1. ASSUME NEW i \in 1 .. Len(Q[q]) + 1, R[q][i] = d, d # c
          PROVE  \E k \in 1 .. Len(Q[q]) : Q[q][k] = d
      <4>1. i \in 1 .. Len(Q[q])
        BY <3>1, <1>2
      <4>2. QED
        BY <3>1, <4>1, <1>2
    <3>2. ASSUME NEW i \in 1 .. Len(Q[q]), Q[q][i] = d
          PROVE  \E k \in 1 .. Len(Q[q]) + 1 : R[q][k] = d
      <4>1. i \in 1 .. Len(Q[q]) + 1 /\ R[q][i] = d
        BY <3>2, <1>2
      <4>2. QED
        BY <4>1
    <3>3. ASSUME d = c PROVE \E k \in 1 .. Len(Q[q]) + 1 : R[q][k] = d
      <4>1. Len(Q[q]) + 1 \in 1 .. Len(Q[q]) + 1
        BY <1>2
      <4>2. QED
        BY <3>3, <4>1, <1>2
    <3>4. QED
      BY <3>1, <3>2, <3>3, <2>2, <1>2 DEF IsClumpOnQ
  <2>3. QED
    BY <2>1, <2>2
<1>6. Q[q] # <<>> => Head(R[q]) = Head(Q[q])
  BY <1>1
<1>7. QED
  BY <1>1, <1>2, <1>4, <1>5, <1>6

\* Taking a clump out of one queue.
LEMMA DeQProperties ==
  ASSUME NEW Q \in QType, NEW q \in Queues, NEW c \in Clumps, Exclusive(Q)
  PROVE  /\ DeQClump(Q, q, c) \in QType
         /\ Exclusive(DeQClump(Q, q, c))
         /\ \A p \in Queues, d \in Clumps :
              IsClumpOnQ(DeQClump(Q, q, c), p, d) <=>
                IsClumpOnQ(Q, p, d) /\ ~(p = q /\ d = c)
         /\ \A p \in Queues : p # q => DeQClump(Q, q, c)[p] = Q[p]
         /\ Q[q] = <<>> => DeQClump(Q, q, c)[q] = <<>>
         /\ IsClumpOnQ(Q, q, c) => OffQueues(DeQClump(Q, q, c), c)
<1> DEFINE R == DeQClump(Q, q, c)
<1>1. /\ Q[q] \in Seq(Clumps)
      /\ \A i, j \in DOMAIN Q[q] : Q[q][i] = Q[q][j] => i = j
  BY DEF QType, Exclusive
<1>2. /\ R[q] = Without(Q[q], c)
      /\ \A p \in Queues : p # q => R[p] = Q[p]
  BY DEF DeQClump, QType
<1>3. /\ R[q] \in Seq(Clumps)
      /\ \A i, j \in DOMAIN R[q] : R[q][i] = R[q][j] => i = j
      /\ \A d : (\E i \in DOMAIN R[q] : R[q][i] = d) <=> d # c /\ \E i \in DOMAIN Q[q] : Q[q][i] = d
      /\ Q[q] = <<>> => R[q] = <<>>
  <2> DEFINE s == Q[q]
  <2>1. s \in Seq(Clumps) /\ \A i, j \in DOMAIN s : s[i] = s[j] => i = j
    BY <1>1
  <2> HIDE DEF s
  <2>2. /\ Without(s, c) \in Seq(Clumps)
        /\ \A i, j \in DOMAIN Without(s, c) :
             Without(s, c)[i] = Without(s, c)[j] => i = j
        /\ \A d : (\E i \in DOMAIN Without(s, c) : Without(s, c)[i] = d)
                    <=> d # c /\ \E i \in DOMAIN s : s[i] = d
        /\ s = <<>> => Without(s, c) = <<>>
    BY <2>1, WithoutProperties
  <2>3. R[q] = Without(s, c) /\ Q[q] = s
    BY <1>2 DEF s
  <2> HIDE DEF R
  <2>4. QED
    BY <2>2, <2>3
<1>4. R \in QType
  BY <1>3, <1>2 DEF DeQClump, QType
<1>5. ASSUME NEW p \in Queues, NEW d \in Clumps
      PROVE  IsClumpOnQ(R, p, d) <=> IsClumpOnQ(Q, p, d) /\ ~(p = q /\ d = c)
  <2>1. CASE p # q
    BY <2>1, <1>2 DEF IsClumpOnQ
  <2>2. CASE p = q
    BY <2>2, <1>3 DEF IsClumpOnQ
  <2>3. QED
    BY <2>1, <2>2
<1>6. ASSUME IsClumpOnQ(Q, q, c), NEW p \in Queues
      PROVE  ~IsClumpOnQ(R, p, c)
  <2>1. IsClumpOnQ(Q, p, c) => p = q
    BY <1>6 DEF IsClumpOnQ, Exclusive
  <2>2. QED
    BY <2>1, <1>5
<1>7. Exclusive(R)
  <2> SUFFICES ASSUME NEW a \in Queues, NEW b \in Queues,
                      NEW i \in DOMAIN R[a], NEW j \in DOMAIN R[b], R[a][i] = R[b][j]
               PROVE  a = b /\ i = j
    BY DEF Exclusive
  <2>0. ASSUME NEW p \in Queues, NEW n \in DOMAIN R[p]
        PROVE  \E k \in DOMAIN Q[p] : Q[p][k] = R[p][n]
    <3>1. CASE p = q
      BY <3>1, <1>3
    <3>2. CASE p # q
      BY <3>2, <1>2
    <3>3. QED
      BY <3>1, <3>2
  <2>1. PICK k \in DOMAIN Q[a] : Q[a][k] = R[a][i]
    BY <2>0
  <2>2. PICK l \in DOMAIN Q[b] : Q[b][l] = R[b][j]
    BY <2>0
  <2>3. a = b
    BY <2>1, <2>2 DEF Exclusive
  <2>4. CASE a = q
    BY <2>3, <2>4, <1>3
  <2>5. CASE a # q
    BY <2>3, <2>5, <1>2 DEF Exclusive
  <2>6. QED
    BY <2>3, <2>4, <2>5
<1>8. QED
  BY <1>2, <1>3, <1>4, <1>5, <1>6, <1>7 DEF OffQueues

\* Rotating RunQ moves no clump to another queue.
LEMMA RotateProperties ==
  ASSUME NEW Q \in QType, Exclusive(Q)
  PROVE  /\ RotateQ(Q) \in QType
         /\ Exclusive(RotateQ(Q))
         /\ \A p \in Queues, d \in Clumps :
              IsClumpOnQ(RotateQ(Q), p, d) <=> IsClumpOnQ(Q, p, d)
         /\ \A p \in Queues : p # RunQ => RotateQ(Q)[p] = Q[p]
         /\ (RotateQ(Q)[RunQ] = <<>>) <=> (Q[RunQ] = <<>>)
<1>1. CASE Len(Q[RunQ]) < 2
  BY <1>1 DEF RotateQ
<1>2. CASE ~(Len(Q[RunQ]) < 2)
  <2> DEFINE R == RotateQ(Q)
             n == Len(Q[RunQ])
  <2>1. RunQ \in Queues /\ Q[RunQ] \in Seq(Clumps) /\ n \in Nat /\ n >= 2
    BY <1>2 DEF QType, Queues
  <2>2. /\ R[RunQ] = Append(Tail(Q[RunQ]), Head(Q[RunQ]))
        /\ \A p \in Queues : p # RunQ => R[p] = Q[p]
    BY <1>2, <2>1 DEF RotateQ, QType
  <2>3. /\ R[RunQ] \in Seq(Clumps) /\ Len(R[RunQ]) = n /\ R[RunQ] # <<>>
        /\ \A i \in 1 .. n : R[RunQ][i] = IF i = n THEN Q[RunQ][1] ELSE Q[RunQ][i + 1]
    BY <2>1, <2>2
  <2>4. R \in QType
    BY <2>2, <2>3, <1>2 DEF RotateQ, QType
  <2> DEFINE old(i) == IF i = n THEN 1 ELSE i + 1
  <2>5. \A i \in 1 .. n : old(i) \in 1 .. n /\ R[RunQ][i] = Q[RunQ][old(i)]
    BY <2>1, <2>3
  <2>6. \A i, j \in 1 .. n : old(i) = old(j) => i = j
    BY <2>1
  <2>7. \A k \in 1 .. n : \E i \in 1 .. n : old(i) = k
    <3> SUFFICES ASSUME NEW k \in 1 .. n PROVE \E i \in 1 .. n : old(i) = k
      OBVIOUS
    <3>1. CASE k = 1
      <4>1. n \in 1 .. n /\ old(n) = k
        BY <3>1, <2>1
      <4>2. QED
        BY <4>1
    <3>2. CASE k # 1
      <4>1. k - 1 \in 1 .. n /\ old(k - 1) = k
        BY <3>2, <2>1
      <4>2. QED
        BY <4>1
    <3>3. QED
      BY <3>1, <3>2
  <2> HIDE DEF old
  <2>8. DOMAIN R[RunQ] = 1 .. n /\ DOMAIN Q[RunQ] = 1 .. n
    BY <2>1, <2>3
  <2>9. ASSUME NEW p \in Queues, NEW d \in Clumps
        PROVE  IsClumpOnQ(R, p, d) <=> IsClumpOnQ(Q, p, d)
    <3>1. CASE p # RunQ
      BY <3>1, <2>2 DEF IsClumpOnQ
    <3>2. CASE p = RunQ
      <4>1. ASSUME NEW i \in 1 .. n, R[RunQ][i] = d
            PROVE  \E k \in 1 .. n : Q[RunQ][k] = d
        BY <4>1, <2>5
      <4>2. ASSUME NEW k \in 1 .. n, Q[RunQ][k] = d
            PROVE  \E i \in 1 .. n : R[RunQ][i] = d
        BY <4>2, <2>5, <2>7
      <4>3. QED
        BY <3>2, <4>1, <4>2, <2>8 DEF IsClumpOnQ
    <3>3. QED
      BY <3>1, <3>2
  <2>10. Exclusive(R)
    <3> SUFFICES ASSUME NEW a \in Queues, NEW b \in Queues,
                        NEW i \in DOMAIN R[a], NEW j \in DOMAIN R[b], R[a][i] = R[b][j]
                 PROVE  a = b /\ i = j
      BY DEF Exclusive
    <3>1. PICK k \in DOMAIN Q[a] : Q[a][k] = R[a][i] /\ (a # RunQ => k = i) /\ (a = RunQ => k = old(i))
      BY <2>2, <2>5, <2>8
    <3>2. PICK l \in DOMAIN Q[b] : Q[b][l] = R[b][j] /\ (b # RunQ => l = j) /\ (b = RunQ => l = old(j))
      BY <2>2, <2>5, <2>8
    <3>3. a = b /\ k = l
      BY <3>1, <3>2 DEF Exclusive
    <3>4. QED
      BY <3>1, <3>2, <3>3, <2>6, <2>8
  <2>11. QED
    BY <2>1, <2>2, <2>3, <2>4, <2>9, <2>10
<1>3. QED
  BY <1>1, <1>2

\* d is a member of the sequence s.
In(d, s) == \E i \in DOMAIN s : s[i] = d

\* No member of s is there twice.
OneToOne(s) == \A i, j \in DOMAIN s : s[i] = s[j] => i = j

\* Queues that hold no more than those of an exclusive Q, and nothing twice.
LEMMA ShrinkProperties ==
  ASSUME NEW Q \in QType, NEW R \in QType, Exclusive(Q),
         \A q \in Queues : OneToOne(R[q]) /\ \A d : In(d, R[q]) => In(d, Q[q])
  PROVE  Exclusive(R)
<1> SUFFICES ASSUME NEW a \in Queues, NEW b \in Queues,
                    NEW i \in DOMAIN R[a], NEW j \in DOMAIN R[b], R[a][i] = R[b][j]
             PROVE  a = b /\ i = j
  BY DEF Exclusive
<1>1. In(R[a][i], R[a]) /\ In(R[b][j], R[b])
  BY DEF In
<1>2. In(R[a][i], Q[a]) /\ In(R[a][i], Q[b])
  BY <1>1
<1>3. a = b
  BY <1>2 DEF In, Exclusive
<1>4. QED
  BY <1>3 DEF OneToOne

\* A queue gets new contents, whose members it had or no queue had.
LEMMA ReplaceProperties ==
  ASSUME NEW Q \in QType, NEW q \in Queues, NEW s \in Seq(Clumps), Exclusive(Q),
         OneToOne(s), \A d \in Clumps : In(d, s) => In(d, Q[q]) \/ OffQueues(Q, d),
         NEW R \in QType, R[q] = s, \A p \in Queues : p # q => R[p] = Q[p]
  PROVE  Exclusive(R)
<1>1. R \in QType /\ \A p \in Queues : R[p] = IF p = q THEN s ELSE Q[p]
  OBVIOUS
<1>2. \A d \in Clumps, p \in Queues : In(d, s) /\ In(d, Q[p]) => p = q
  <2> SUFFICES ASSUME NEW d \in Clumps, NEW p \in Queues, In(d, s), In(d, Q[p])
               PROVE  p = q
    OBVIOUS
  <2>1. ~OffQueues(Q, d)
    BY DEF OffQueues, IsClumpOnQ, In
  <2>2. In(d, Q[q])
    BY <2>1
  <2>3. QED
    BY <2>2 DEF In, Exclusive
<1>3. \A p \in Queues : \A i \in DOMAIN R[p] : R[p][i] \in Clumps
  BY <1>1 DEF QType
<1>4. Exclusive(R)
  <2> SUFFICES ASSUME NEW a \in Queues, NEW b \in Queues,
                      NEW i \in DOMAIN R[a], NEW j \in DOMAIN R[b], R[a][i] = R[b][j]
               PROVE  a = b /\ i = j
    BY DEF Exclusive
  <2>1. In(R[a][i], R[a]) /\ In(R[a][i], R[b]) /\ R[a][i] \in Clumps
    BY <1>3 DEF In
  <2>2. a = b
    <3>1. CASE a # q /\ b # q
      BY <3>1, <2>1, <1>1 DEF In, Exclusive
    <3>2. CASE a = q
      BY <3>2, <2>1, <1>1, <1>2
    <3>3. CASE b = q
      BY <3>3, <2>1, <1>1, <1>2
    <3>4. QED
      BY <3>1, <3>2, <3>3
  <2>3. i = j
    <3>1. CASE a = q
      BY <3>1, <2>2, <1>1 DEF OneToOne
    <3>2. CASE a # q
      BY <3>2, <2>2, <1>1 DEF Exclusive
    <3>3. QED
      BY <3>1, <3>2
  <2>4. QED
    BY <2>2, <2>3
<1>5. QED
  BY <1>4

\* Sequences one after the other.
LEMMA ConcatProperties ==
  ASSUME NEW s \in Seq(Clumps), NEW b \in Seq(Clumps), OneToOne(s), OneToOne(b),
         \A d \in Clumps : ~(In(d, s) /\ In(d, b))
  PROVE  /\ s \o b \in Seq(Clumps)
         /\ OneToOne(s \o b)
         /\ \A d : In(d, s \o b) <=> In(d, s) \/ In(d, b)
         /\ s # <<>> => s \o b # <<>> /\ Head(s \o b) = Head(s)
<1> DEFINE t == s \o b
           m == Len(s)
           n == Len(b)
<1>1. /\ m \in Nat /\ n \in Nat /\ DOMAIN s = 1 .. m /\ DOMAIN b = 1 .. n
      /\ t \in Seq(Clumps) /\ DOMAIN t = 1 .. m + n /\ Len(t) = m + n
      /\ \A i \in 1 .. m + n : t[i] = IF i <= m THEN s[i] ELSE b[i - m]
  OBVIOUS
<1>2. /\ \A i \in 1 .. m : s[i] \in Clumps
      /\ \A i \in 1 .. n : b[i] \in Clumps
  BY <1>1
<1>3. \A i \in 1 .. m, j \in 1 .. n : s[i] # b[j]
  BY <1>1, <1>2 DEF In
<1> HIDE DEF t, m, n
<1>4. OneToOne(t)
  <2> SUFFICES ASSUME NEW i \in 1 .. m + n, NEW j \in 1 .. m + n, t[i] = t[j]
               PROVE  i = j
    BY <1>1 DEF OneToOne
  <2>1. CASE i <= m /\ j <= m
    <3>1. i \in 1 .. m /\ j \in 1 .. m /\ s[i] = s[j]
      BY <2>1, <1>1
    <3>2. QED
      BY <3>1, <1>1 DEF OneToOne
  <2>2. CASE i > m /\ j > m
    <3>1. i - m \in 1 .. n /\ j - m \in 1 .. n /\ b[i - m] = b[j - m]
      BY <2>2, <1>1
    <3>2. i - m = j - m
      BY <3>1, <1>1 DEF OneToOne
    <3>3. QED
      BY <3>2, <1>1
  <2>3. CASE i <= m /\ j > m
    <3>1. i \in 1 .. m /\ j - m \in 1 .. n /\ s[i] = b[j - m]
      BY <2>3, <1>1
    <3>2. QED
      BY <3>1, <1>3
  <2>4. CASE i > m /\ j <= m
    <3>1. i - m \in 1 .. n /\ j \in 1 .. m /\ s[j] = b[i - m]
      BY <2>4, <1>1
    <3>2. QED
      BY <3>1, <1>3
  <2>5. QED
    BY <2>1, <2>2, <2>3, <2>4, <1>1
<1>5. ASSUME NEW d
      PROVE  In(d, t) <=> In(d, s) \/ In(d, b)
  <2>1. ASSUME NEW i \in 1 .. m + n, t[i] = d
        PROVE  In(d, s) \/ In(d, b)
    <3>1. CASE i <= m
      <4>1. i \in 1 .. m /\ s[i] = d
        BY <3>1, <2>1, <1>1
      <4>2. QED
        BY <4>1, <1>1 DEF In
    <3>2. CASE i > m
      <4>1. i - m \in 1 .. n /\ b[i - m] = d
        BY <3>2, <2>1, <1>1
      <4>2. QED
        BY <4>1, <1>1 DEF In
    <3>3. QED
      BY <3>1, <3>2, <1>1
  <2>2. ASSUME NEW i \in 1 .. m, s[i] = d
        PROVE  In(d, t)
    <3>1. i \in 1 .. m + n /\ t[i] = d
      BY <2>2, <1>1
    <3>2. QED
      BY <3>1, <1>1 DEF In
  <2>3. ASSUME NEW i \in 1 .. n, b[i] = d
        PROVE  In(d, t)
    <3>1. i + m \in 1 .. m + n /\ ~(i + m <= m) /\ (i + m) - m = i
      BY <1>1
    <3>2. t[i + m] = d
      BY <3>1, <2>3, <1>1
    <3>3. QED
      BY <3>1, <3>2, <1>1 DEF In
  <2>4. QED
    BY <2>1, <2>2, <2>3, <1>1 DEF In
<1>6. s # <<>> => t # <<>> /\ Head(t) = Head(s)
  <2> SUFFICES ASSUME s # <<>> PROVE t # <<>> /\ Head(t) = Head(s)
    OBVIOUS
  <2>1. m > 0
    BY DEF m
  <2>2. 1 \in 1 .. m + n /\ Len(t) > 0 /\ t[1] = s[1]
    BY <2>1, <1>1
  <2>3. t # <<>> /\ Head(t) = t[1] /\ Head(s) = s[1]
    BY <2>2, <1>1
  <2>4. QED
    BY <2>2, <2>3
<1>7. QED
  BY <1>1, <1>4, <1>5, <1>6 DEF t

AppendBatch(Q, q, b) == [Q EXCEPT ![q] = @ \o b]

\* Appending a batch of clumps that are on no queue.
LEMMA BatchProperties ==
  ASSUME NEW Q \in QType, NEW q \in Queues, NEW b \in Seq(Clumps), Exclusive(Q),
         OneToOne(b), \A d \in Clumps : In(d, b) => OffQueues(Q, d)
  PROVE  LET R == AppendBatch(Q, q, b)
         IN  /\ R \in QType
             /\ Exclusive(R)
             /\ \A p \in Queues, d \in Clumps :
                  IsClumpOnQ(R, p, d) <=> IsClumpOnQ(Q, p, d) \/ (p = q /\ In(d, b))
             /\ \A p \in Queues : p # q => R[p] = Q[p]
             /\ Q[q] # <<>> => R[q] # <<>> /\ Head(R[q]) = Head(Q[q])
<1> DEFINE R == AppendBatch(Q, q, b)
           s == Q[q]
<1>1. s \in Seq(Clumps) /\ OneToOne(s)
  BY DEF QType, Exclusive, OneToOne
<1>2. \A d \in Clumps : ~(In(d, s) /\ In(d, b))
  BY DEF OffQueues, IsClumpOnQ, In
<1>3. R = [Q EXCEPT ![q] = s \o b]
  BY DEF AppendBatch
<1>4. \A d : In(d, s) => In(d, Q[q])
  OBVIOUS
<1>5. Q[q] = s
  OBVIOUS
<1> HIDE DEF s
<1>6. /\ s \o b \in Seq(Clumps)
      /\ OneToOne(s \o b)
      /\ \A d : In(d, s \o b) <=> In(d, s) \/ In(d, b)
      /\ s # <<>> => s \o b # <<>> /\ Head(s \o b) = Head(s)
  BY <1>1, <1>2, ConcatProperties
<1> DEFINE t == s \o b
<1>7. /\ t \in Seq(Clumps) /\ OneToOne(t)
      /\ \A d \in Clumps : In(d, t) => In(d, Q[q]) \/ OffQueues(Q, d)
  BY <1>6, <1>4
<1>8. R \in QType /\ R[q] = t /\ \A p \in Queues : p # q => R[p] = Q[p]
  BY <1>3, <1>7 DEF QType
<1> HIDE DEF t, R
<1>9. R \in QType /\ Exclusive(R) /\ \A p \in Queues : R[p] = IF p = q THEN t ELSE Q[p]
  BY <1>7, <1>8, ReplaceProperties
<1>10. ASSUME NEW p \in Queues, NEW d \in Clumps
       PROVE  IsClumpOnQ(R, p, d) <=> IsClumpOnQ(Q, p, d) \/ (p = q /\ In(d, b))
  <2>1. CASE p = q
    <3>1. IsClumpOnQ(R, p, d) <=> In(d, t)
      BY <2>1, <1>9 DEF IsClumpOnQ, In
    <3>2. IsClumpOnQ(Q, p, d) <=> In(d, s)
      BY <2>1, <1>5 DEF IsClumpOnQ, In
    <3>3. QED
      BY <3>1, <3>2, <2>1, <1>6 DEF t
  <2>2. CASE p # q
    BY <2>2, <1>9 DEF IsClumpOnQ
  <2>3. QED
    BY <2>1, <2>2
<1>11. Q[q] # <<>> => R[q] # <<>> /\ Head(R[q]) = Head(Q[q])
  BY <1>9, <1>6, <1>5 DEF t
<1>12. QED
  BY <1>9, <1>10, <1>11 DEF R

\* Queues of which only one has clumps.
LEMMA OneQueueProperties ==
  ASSUME NEW Q \in QType, NEW q \in Queues, OneToOne(Q[q]),
         \A p \in Queues : p # q => Q[p] = <<>>
  PROVE  Exclusive(Q)
<1> SUFFICES ASSUME NEW a \in Queues, NEW b \in Queues,
                    NEW i \in DOMAIN Q[a], NEW j \in DOMAIN Q[b], Q[a][i] = Q[b][j]
             PROVE  a = b /\ i = j
  BY DEF Exclusive
<1>1. a = q /\ b = q
  OBVIOUS
<1>2. QED
  BY <1>1 DEF OneToOne

-----------------------------------------------------------------------------
(***************************************************************************)
(* The inductive invariant.                                                *)
(***************************************************************************)
ActiveIsHead == active # NOT_A_CLUMP => queue[RunQ] # <<>> /\ active = Running

\* c is scheduled, or waits in a call.
Live(c) == ~OffQueues(queue, c) \/ inCall[c] # NOT_A_CLUMP

CallsConsistent ==
  \A c \in Clumps :
    /\ inCall[c] # NOT_A_CLUMP =>
         /\ inCall[c] \in Callable
         /\ c \in LongCallers \cup ShortCallers
         /\ OffQueues(queue, c)
    /\ CalledClump[c] # NOT_A_CLUMP => CalledClump[c] = inCall[c]
    /\ inCall[c] # NOT_A_CLUMP /\ c \notin ShortCallers => CalledClump[c] # NOT_A_CLUMP

LiveSubroutines ==
  \A c \in Callable :
    Live(c) => returnTo[c] # NOT_A_CLUMP /\ inCall[returnTo[c]] = c

FiredCounted == \A d \in Fired : Live(d) => CurrFireCount[d] = 0

IInv ==
  /\ TypeOK
  /\ QueueExclusive
  /\ WaitersHaveOwner
  /\ ActiveIsHead
  /\ CallsConsistent
  /\ LiveSubroutines
  /\ FiredCounted

\* The invariant contains what is claimed of subroutines: a caller is off the
\* queues, and a running subroutine knows the caller it returns to.
LEMMA IInvImplies ==
  ASSUME IInv
  PROVE  CallersOffQueues /\ SubroutineReturnsToCaller
<1>1. CallersOffQueues
  BY DEF IInv, CallsConsistent, CallersOffQueues
<1>2. SubroutineReturnsToCaller
  <2> SUFFICES ASSUME NEW c \in Callable, ~OffQueues(queue, c)
               PROVE  /\ returnTo[c] # NOT_A_CLUMP
                      /\ inCall[returnTo[c]] = c
                      /\ OffQueues(queue, returnTo[c])
    BY DEF SubroutineReturnsToCaller
  <2>1. returnTo[c] # NOT_A_CLUMP /\ inCall[returnTo[c]] = c
    BY DEF IInv, LiveSubroutines, Live
  <2>2. c \in Clumps /\ returnTo[c] \in Clumps /\ c # NOT_A_CLUMP
    BY <2>1, ClumpIds, SchedulerConstants DEF IInv, TypeOK, Ids
  <2>3. QED
    BY <2>1, <2>2 DEF IInv, CallsConsistent
<1>3. QED
  BY <1>1, <1>2

\* The clump that executes: it heads RunQ and has called nobody.
LEMMA RunningProperties ==
  ASSUME IInv, Executing
  PROVE  /\ ProgStatus = "PROG_RUNNING" /\ inPass
         /\ active = Running /\ Running \in Clumps
         /\ IsClumpOnQ(queue, RunQ, Running)
         /\ inCall[Running] = NOT_A_CLUMP /\ CalledClump[Running] = NOT_A_CLUMP
<1>1. queue[RunQ] \in Seq(Clumps) /\ queue[RunQ] # <<>>
  BY DEF IInv, TypeOK, Executing, Queues
<1>2. Running \in Clumps /\ IsClumpOnQ(queue, RunQ, Running)
  <2>1. 1 \in DOMAIN queue[RunQ] /\ Head(queue[RunQ]) = queue[RunQ][1]
    BY <1>1
  <2>2. QED
    BY <2>1, <1>1 DEF Running, IsClumpOnQ
<1>3. active = Running /\ inPass /\ ProgStatus = "PROG_RUNNING"
  BY DEF IInv, TypeOK, ActiveIsHead, Executing
<1>4. ~OffQueues(queue, Running)
  BY <1>2 DEF OffQueues, Queues
<1>5. QED
  BY <1>2, <1>3, <1>4 DEF IInv, CallsConsistent

\* InOrder lists a finite set as a sequence without repetitions.
LEMMA InOrderProperties ==
  ASSUME NEW T, IsFiniteSet(T), NEW S \in SUBSET T, NEW s, NEW b \in InOrder(S, s)
  PROVE  b \in Seq(T) /\ OneToOne(b) /\ \A d : In(d, b) <=> d \in S
<1>1. IsFiniteSet(S)
  BY FS_Subset
<1>2. Cardinality(S) \in Nat
  BY <1>1, FS_CardinalityType
<1> DEFINE n == Cardinality(S)
<1>3. /\ b \in [1 .. n -> S] /\ S = Range_(b)
      /\ \A i, j \in DOMAIN b : i < j => b[i] # b[j]
  BY DEF InOrder
<1> HIDE DEF n
<1>4. n \in Nat
  BY <1>2 DEF n
<1>5. b \in Seq(T)
  <2>1. b \in [1 .. n -> T]
    BY <1>3
  <2>2. QED
    BY <2>1, <1>4
<1>6. OneToOne(b)
  BY <1>3, <1>4 DEF OneToOne
<1>7. QED
  BY <1>3, <1>5, <1>6 DEF In, Range_

\* A list of clumps in the order of their numbers names each of them once.
LEMMA ClumpsInOrder ==
  ASSUME NEW S \in SUBSET Clumps, NEW s, NEW b \in InOrder(S, s)
  PROVE  b \in Seq(Clumps) /\ OneToOne(b) /\ \A d : In(d, b) <=> d \in S
<1>1. IsFiniteSet(Clumps)
  BY ClumpIds
<1>2. QED
  BY <1>1, InOrderProperties

\* So does a list of mutexes.
LEMMA MutexesInOrder ==
  ASSUME NEW S \in SUBSET Mutexes, NEW s, NEW b \in InOrder(S, s)
  PROVE  b \in Seq(Mutexes) /\ OneToOne(b) /\ \A d : In(d, b) <=> d \in S
<1>1. IsFiniteSet(Mutexes)
  BY SchedulerConstants
<1>2. QED
  BY <1>1, InOrderProperties

-----------------------------------------------------------------------------
(***************************************************************************)
(* What the steps have in common.                                          *)
(***************************************************************************)
Statuses == {"CLUMP_SUSPEND", "CLUMP_DONE", "ROTATE_QUEUE", "TIMES_UP", "STOP_REQ", "ERROR"}

\* However the interpreter returns, its clump is no longer active, the clumps
\* stay on the queues they are on, and a pass goes on only in a running program.
LEMMA ReturnProperties ==
  ASSUME NEW Q \in QType, Exclusive(Q), NEW status \in Statuses,
         ProgStatus = "PROG_RUNNING", Return(Q, status)
  PROVE  /\ queue' \in QType /\ Exclusive(queue')
         /\ \A p \in Queues, d \in Clumps :
              IsClumpOnQ(queue', p, d) <=> IsClumpOnQ(Q, p, d)
         /\ \A d \in Clumps : OffQueues(queue', d) <=> OffQueues(Q, d)
         /\ \A m \in Mutexes : queue'[m] = Q[m]
         /\ active' = NOT_A_CLUMP /\ inPass' \in BOOLEAN
         /\ ProgStatus' \in {"PROG_RUNNING", "PROG_OK", "PROG_ERROR"}
         /\ inPass' => ProgStatus' = "PROG_RUNNING"
<1>1. queue' = RotateQ(Q) \/ queue' = Q
  BY DEF Return
<1>2. /\ queue' \in QType /\ Exclusive(queue')
      /\ \A p \in Queues, d \in Clumps :
           IsClumpOnQ(queue', p, d) <=> IsClumpOnQ(Q, p, d)
      /\ \A p \in Queues : p # RunQ => queue'[p] = Q[p]
  BY <1>1, RotateProperties
<1>3. \A d \in Clumps : OffQueues(queue', d) <=> OffQueues(Q, d)
  BY <1>2 DEF OffQueues
<1>4. \A m \in Mutexes : queue'[m] = Q[m]
  BY <1>2, QueueNames DEF Queues
<1>5. /\ active' = NOT_A_CLUMP /\ inPass' \in BOOLEAN
      /\ ProgStatus' \in {"PROG_RUNNING", "PROG_OK", "PROG_ERROR"}
      /\ inPass' => ProgStatus' = "PROG_RUNNING"
  BY DEF Return, Statuses
<1>6. QED
  BY <1>2, <1>3, <1>4, <1>5

\* A step that puts no clump on a queue that was on none keeps the facts about
\* calls and fire counts.
LEMMA CallsFrame ==
  ASSUME CallsConsistent, LiveSubroutines, UNCHANGED <<CalledClump, returnTo, inCall>>,
         \A d \in Clumps : OffQueues(queue, d) => OffQueues(queue', d)
  PROVE  CallsConsistent' /\ LiveSubroutines'
<1>1. CallsConsistent'
  BY DEF CallsConsistent
<1>2. LiveSubroutines'
  BY SchedulerConstants DEF LiveSubroutines, Live
<1>3. QED
  BY <1>1, <1>2

\* A step that fires nothing and starts no clump keeps the fire counts of the
\* clumps that wait to be fired.
LEMMA FiredFrame ==
  ASSUME FiredCounted, UNCHANGED <<CurrFireCount, inCall>>,
         \A d \in Clumps : OffQueues(queue, d) => OffQueues(queue', d)
  PROVE  FiredCounted'
<1>1. Fired \subseteq Clumps
  BY SchedulerConstants DEF Fired, Range_
<1>2. QED
  BY <1>1 DEF FiredCounted, Live

-----------------------------------------------------------------------------
(***************************************************************************)
(* The initial state, and the next program.                                *)
(***************************************************************************)
LEMMA InitiallyProperties ==
  ASSUME NEW Q, Initially(Q)
  PROVE  /\ Q \in QType /\ Exclusive(Q)
         /\ \A m \in Mutexes : Q[m] = <<>>
         /\ \A c \in Clumps : ~OffQueues(Q, c) => InitFireCount[c] = 0
<1> DEFINE S == {c \in Clumps : InitFireCount[c] = 0}
<1>1. PICK b \in InOrder(S, ClumpTable) : Q = [p \in Queues |-> IF p = RunQ THEN b ELSE <<>>]
  BY DEF Initially
<1>2. b \in Seq(Clumps) /\ OneToOne(b) /\ \A d : In(d, b) <=> d \in S
  BY ClumpsInOrder
<1> HIDE DEF S
<1>3. /\ Q \in QType
      /\ RunQ \in Queues /\ Q[RunQ] = b
      /\ \A p \in Queues : p # RunQ => Q[p] = <<>>
  BY <1>1, <1>2 DEF QType, Queues
<1>4. Exclusive(Q)
  BY <1>2, <1>3, OneQueueProperties
<1>5. \A m \in Mutexes : Q[m] = <<>>
  BY <1>3, QueueNames DEF Queues
<1>6. ASSUME NEW c \in Clumps, NEW p \in Queues, IsClumpOnQ(Q, p, c)
      PROVE  InitFireCount[c] = 0
  <2>1. p = RunQ
    BY <1>6, <1>3 DEF IsClumpOnQ
  <2>2. In(c, b)
    BY <1>6, <2>1, <1>3 DEF IsClumpOnQ, In
  <2>3. QED
    BY <2>2, <1>2 DEF S
<1>7. QED
  BY <1>3, <1>4, <1>5, <1>6 DEF OffQueues

\* The invariant holds when the program has been loaded.
LEMMA InitIInv ==
  ASSUME WellFormed, Init
  PROVE  IInv
<1>1. /\ queue \in QType /\ Exclusive(queue)
      /\ \A m \in Mutexes : queue[m] = <<>>
      /\ \A c \in Clumps : ~OffQueues(queue, c) => InitFireCount[c] = 0
  BY InitiallyProperties DEF Init
<1>2. TypeOK
  <2>1. Tick \in 0 .. MaxTick
    BY SchedulerConstants DEF Init
  <2>2. CurrFireCount \in [Clumps -> 0 .. 255]
    BY SchedulerConstants DEF Init
  <2>3. QED
    BY <1>1, <2>1, <2>2 DEF Init, TypeOK, QType, Ids
<1>3. QueueExclusive /\ WaitersHaveOwner /\ ActiveIsHead
  BY <1>1 DEF Init, QueueExclusive, WaitersHaveOwner, ActiveIsHead
<1>4. CallsConsistent
  BY DEF Init, CallsConsistent
<1>5. LiveSubroutines
  BY <1>1, SchedulerConstants DEF Init, LiveSubroutines, Live, WellFormed
<1>6. FiredCounted
  BY <1>1, SchedulerConstants DEF Init, FiredCounted, Live, Fired, Range_
<1>7. QED
  BY <1>2, <1>3, <1>4, <1>5, <1>6 DEF IInv

\* Starting the program again (cCmdActivateProgram) makes the invariant hold.
LEMMA ActivateStep ==
  ASSUME WellFormed, IInv, Activate
  PROVE  IInv'
<1>1. /\ queue' \in QType /\ Exclusive(queue')
      /\ \A m \in Mutexes : queue'[m] = <<>>
      /\ \A c \in Clumps : ~OffQueues(queue', c) => InitFireCount[c] = 0
  BY InitiallyProperties DEF Activate
<1>2. active' = NOT_A_CLUMP
  BY DEF Activate, IInv, TypeOK
<1>3. TypeOK'
  BY <1>1, <1>2, SchedulerConstants DEF Activate, TypeOK, QType, Ids, IInv
<1>4. QueueExclusive' /\ WaitersHaveOwner' /\ ActiveIsHead'
  BY <1>1, <1>2 DEF Activate, QueueExclusive, WaitersHaveOwner, ActiveIsHead
<1>5. CallsConsistent'
  BY DEF Activate, CallsConsistent
<1>6. LiveSubroutines'
  BY <1>1, SchedulerConstants DEF Activate, LiveSubroutines, Live, WellFormed
<1>7. FiredCounted'
  BY <1>1, SchedulerConstants DEF Activate, FiredCounted, Live, Fired, Range_
<1>8. QED
  BY <1>3, <1>4, <1>5, <1>6, <1>7 DEF IInv

-----------------------------------------------------------------------------
(***************************************************************************)
(* The steps of cCmdCtrl.                                                  *)
(***************************************************************************)
LEMMA EnterStep ==
  ASSUME IInv, Enter
  PROVE  IInv'
<1>1. TypeOK'
  BY SMTT(60) DEF IInv, TypeOK, Enter, clumpRecs, Queues, Ids
<1>2. QueueExclusive' /\ WaitersHaveOwner' /\ ActiveIsHead'
  BY DEF IInv, Enter, QueueExclusive, WaitersHaveOwner, ActiveIsHead, Running
<1>3. CallsConsistent' /\ LiveSubroutines'
  BY CallsFrame DEF IInv, Enter, clumpRecs
<1>4. FiredCounted'
  BY FiredFrame DEF IInv, Enter, clumpRecs
<1>5. QED
  BY <1>1, <1>2, <1>3, <1>4 DEF IInv

\* A return from the interpreter with queues that hold the same clumps as
\* before, where the records and the calls are as they were.
LEMMA ReturnStep ==
  ASSUME IInv, ProgStatus = "PROG_RUNNING", NEW status \in Statuses,
         NEW Q \in QType, Exclusive(Q), Return(Q, status),
         \A d \in Clumps : OffQueues(queue, d) => OffQueues(Q, d),
         \A m \in Mutexes : Q[m] # <<>> => owner[m] # NOT_A_CLUMP,
         UNCHANGED <<owner, returnTo, CalledClump, CurrFireCount, Tick, inCall>>,
         atStart' \in [Clumps -> BOOLEAN], awakenTime' \in [Clumps -> Nat]
  PROVE  IInv'
<1>1. /\ queue' \in QType /\ Exclusive(queue')
      /\ \A d \in Clumps : OffQueues(queue', d) <=> OffQueues(Q, d)
      /\ \A m \in Mutexes : queue'[m] = Q[m]
      /\ active' = NOT_A_CLUMP /\ inPass' \in BOOLEAN
      /\ ProgStatus' \in {"PROG_RUNNING", "PROG_OK", "PROG_ERROR"}
      /\ inPass' => ProgStatus' = "PROG_RUNNING"
  BY ReturnProperties
<1>2. \A d \in Clumps : OffQueues(queue, d) => OffQueues(queue', d)
  BY <1>1
<1>3. TypeOK'
  BY <1>1 DEF IInv, TypeOK, Ids, QType
<1>4. QueueExclusive' /\ WaitersHaveOwner' /\ ActiveIsHead'
  BY <1>1 DEF IInv, QueueExclusive, WaitersHaveOwner, ActiveIsHead
<1>5. CallsConsistent' /\ LiveSubroutines'
  BY <1>2, CallsFrame DEF IInv
<1>6. FiredCounted'
  BY <1>2, FiredFrame DEF IInv
<1>7. QED
  BY <1>3, <1>4, <1>5, <1>6 DEF IInv

\* A turn that finds the run queue empty ends the pass.
LEMMA EnterEmptyStep ==
  ASSUME IInv, EnterEmpty
  PROVE  IInv'
<1>1. ProgStatus = "PROG_RUNNING" /\ queue \in QType /\ Exclusive(queue)
  BY DEF IInv, TypeOK, EnterEmpty, QType, QueueExclusive
<1>2. /\ UNCHANGED <<owner, returnTo, CalledClump, CurrFireCount, Tick, inCall>>
      /\ atStart' \in [Clumps -> BOOLEAN] /\ awakenTime' \in [Clumps -> Nat]
      /\ Return(queue, "TIMES_UP") /\ "TIMES_UP" \in Statuses
  BY DEF EnterEmpty, clumpRecs, IInv, TypeOK, Statuses
<1>3. \A m \in Mutexes : queue[m] # <<>> => owner[m] # NOT_A_CLUMP
  BY DEF IInv, WaitersHaveOwner
<1>4. QED
  BY <1>1, <1>2, <1>3, ReturnStep

\* A clump that has used up its turn, or the time, goes to the end of the run
\* queue.
LEMMA PreemptStep ==
  ASSUME IInv, NEW status \in {"ROTATE_QUEUE", "TIMES_UP"}, Preempt(status)
  PROVE  IInv'
<1>1. ProgStatus = "PROG_RUNNING" /\ queue \in QType /\ Exclusive(queue)
  BY DEF IInv, TypeOK, Preempt, QType, QueueExclusive
<1>2. /\ UNCHANGED <<owner, returnTo, CalledClump, CurrFireCount, Tick, inCall>>
      /\ atStart' \in [Clumps -> BOOLEAN] /\ awakenTime' \in [Clumps -> Nat]
      /\ Return(queue, status) /\ status \in Statuses
  BY DEF Preempt, SavePC, IInv, TypeOK, Statuses
<1>3. \A m \in Mutexes : queue[m] # <<>> => owner[m] # NOT_A_CLUMP
  BY DEF IInv, WaitersHaveOwner
<1>4. QED
  BY <1>1, <1>2, <1>3, ReturnStep

\* A stop request or an error ends the program and leaves the queues as they are.
LEMMA EndProgramStep ==
  ASSUME IInv, NEW status \in {"STOP_REQ", "ERROR"}, EndProgram(status)
  PROVE  IInv'
<1>1. ProgStatus = "PROG_RUNNING" /\ queue \in QType /\ Exclusive(queue)
  BY RunningProperties DEF IInv, TypeOK, EndProgram, QType, QueueExclusive
<1>2. /\ UNCHANGED <<owner, returnTo, CalledClump, CurrFireCount, Tick, inCall>>
      /\ atStart' \in [Clumps -> BOOLEAN] /\ awakenTime' \in [Clumps -> Nat]
      /\ Return(queue, status) /\ status \in Statuses
  BY DEF EndProgram, clumpRecs, IInv, TypeOK, Statuses
<1>3. \A m \in Mutexes : queue[m] # <<>> => owner[m] # NOT_A_CLUMP
  BY DEF IInv, WaitersHaveOwner
<1>4. QED
  BY <1>1, <1>2, <1>3, ReturnStep

\* cCmdCheckRestQ moves the clumps whose time has come; none is lost.
LEMMA PassStep ==
  ASSUME IInv, NEW t \in Tick .. MaxTick, Pass(t)
  PROVE  /\ IInv'
         /\ \A d \in Clumps : OffQueues(queue', d) <=> OffQueues(queue, d)
         /\ \A m \in Mutexes : queue'[m] = queue[m]
         /\ \A d \in Clumps : IsClumpOnQ(queue, RestQ, d) /\ awakenTime'[d] # 0 =>
                                IsClumpOnQ(queue', RestQ, d)
         /\ \A d \in Clumps : awakenTime'[d] # 0 => awakenTime[d] # 0
<1> DEFINE resting == Range_(queue[RestQ])
           ready == {c \in resting : awakenTime[c] <= t}
<1>1. PICK awake \in InOrder(ready, queue[RestQ]), asleep \in InOrder(resting \ ready, queue[RestQ]) :
        /\ queue' = [queue EXCEPT ![RunQ] = @ \o awake, ![RestQ] = asleep]
        /\ awakenTime' = [c \in Clumps |-> IF c \in ready THEN 0 ELSE awakenTime[c]]
  BY DEF Pass, CheckRestQ
<1>2. /\ queue \in QType /\ Exclusive(queue) /\ RunQ \in Queues /\ RestQ \in Queues
      /\ RunQ # RestQ /\ active = NOT_A_CLUMP
  BY QueueNames DEF IInv, TypeOK, QueueExclusive, QType, Queues, Pass
<1>3. \A d : d \in resting <=> In(d, queue[RestQ])
  BY DEF Range_, In
<1>4. resting \subseteq Clumps
  BY <1>2 DEF Range_, QType
<1>5. ready \subseteq resting
  OBVIOUS
<1> HIDE DEF resting, ready
<1>6. /\ awake \in Seq(Clumps) /\ OneToOne(awake) /\ \A d : In(d, awake) <=> d \in ready
      /\ asleep \in Seq(Clumps) /\ OneToOne(asleep)
      /\ \A d : In(d, asleep) <=> d \in resting \ ready
  <2>1. ready \in SUBSET Clumps /\ resting \ ready \in SUBSET Clumps
    BY <1>4, <1>5
  <2>2. QED
    BY <2>1, ClumpsInOrder
<1> DEFINE Q == [queue EXCEPT ![RestQ] = asleep]
<1>7. Q \in QType /\ Q[RestQ] = asleep /\ \A p \in Queues : p # RestQ => Q[p] = queue[p]
  BY <1>2, <1>6 DEF QType
<1>8. queue' = [Q EXCEPT ![RunQ] = @ \o awake]
  BY <1>1, <1>2 DEF QType
<1> HIDE DEF Q
<1>9. Exclusive(Q)
  <2>1. \A d \in Clumps : In(d, asleep) => In(d, queue[RestQ]) \/ OffQueues(queue, d)
    BY <1>3, <1>6
  <2>2. QED
    BY <1>2, <1>6, <1>7, <2>1, ReplaceProperties
<1>10. ASSUME NEW d \in Clumps, In(d, awake)
       PROVE  OffQueues(Q, d)
  <2> SUFFICES ASSUME NEW p \in Queues, IsClumpOnQ(Q, p, d)
               PROVE  FALSE
    BY DEF OffQueues
  <2>1. In(d, queue[RestQ]) /\ ~In(d, asleep)
    BY <1>10, <1>3, <1>5, <1>6
  <2>2. p # RestQ
    BY <2>1, <1>7 DEF IsClumpOnQ, In
  <2>3. In(d, queue[p])
    BY <2>2, <1>7 DEF IsClumpOnQ, In
  <2>4. QED
    BY <2>1, <2>2, <2>3, <1>2 DEF In, Exclusive
<1>11. /\ queue' \in QType /\ Exclusive(queue')
       /\ \A p \in Queues, d \in Clumps :
            IsClumpOnQ(queue', p, d) <=> IsClumpOnQ(Q, p, d) \/ (p = RunQ /\ In(d, awake))
       /\ \A p \in Queues : p # RunQ => queue'[p] = Q[p]
  <2> DEFINE R == AppendBatch(Q, RunQ, awake)
  <2>1. \A d \in Clumps : In(d, awake) => OffQueues(Q, d)
    BY <1>10
  <2>2. /\ R \in QType /\ Exclusive(R)
        /\ \A p \in Queues, d \in Clumps :
             IsClumpOnQ(R, p, d) <=> IsClumpOnQ(Q, p, d) \/ (p = RunQ /\ In(d, awake))
        /\ \A p \in Queues : p # RunQ => R[p] = Q[p]
    BY <1>2, <1>6, <1>7, <1>9, <2>1, BatchProperties
  <2>3. queue' = R
    BY <1>8 DEF AppendBatch
  <2> HIDE DEF R
  <2>4. QED
    BY <2>2, <2>3
<1>12. ASSUME NEW d \in Clumps, NEW p \in Queues, IsClumpOnQ(queue', p, d)
       PROVE  \E r \in Queues : IsClumpOnQ(queue, r, d)
  <2>1. CASE In(d, awake)
    <3>1. IsClumpOnQ(queue, RestQ, d)
      BY <2>1, <1>3, <1>5, <1>6 DEF IsClumpOnQ, In
    <3>2. QED
      BY <3>1, <1>2
  <2>2. CASE IsClumpOnQ(Q, p, d)
    <3>1. CASE p = RestQ
      <4>1. IsClumpOnQ(queue, RestQ, d)
        BY <2>2, <3>1, <1>3, <1>6, <1>7 DEF IsClumpOnQ, In
      <4>2. QED
        BY <4>1, <1>2
    <3>2. CASE p # RestQ
      BY <2>2, <3>2, <1>7 DEF IsClumpOnQ
    <3>3. QED
      BY <3>1, <3>2
  <2>3. QED
    BY <2>1, <2>2, <1>12, <1>11
<1>13. \A d \in Clumps : OffQueues(queue, d) => OffQueues(queue', d)
  BY <1>12 DEF OffQueues
<1>14. \A m \in Mutexes : queue'[m] = queue[m]
  BY <1>7, <1>11, QueueNames DEF Queues
<1>15. awakenTime' \in [Clumps -> Nat]
  BY <1>1 DEF IInv, TypeOK
<1>16. TypeOK'
  BY <1>11, <1>15 DEF IInv, TypeOK, QType, Pass
<1>17. QueueExclusive' /\ WaitersHaveOwner' /\ ActiveIsHead'
  BY <1>2, <1>11, <1>14 DEF IInv, Pass, QueueExclusive, WaitersHaveOwner, ActiveIsHead
<1>18. CallsConsistent' /\ LiveSubroutines'
  BY <1>13, CallsFrame DEF IInv, Pass
<1>19. FiredCounted'
  BY <1>13, FiredFrame DEF IInv, Pass
<1>20. ASSUME NEW d \in Clumps, NEW p \in Queues, IsClumpOnQ(queue, p, d)
       PROVE  ~OffQueues(queue', d)
  <2>1. CASE p = RestQ /\ d \in ready
    <3>1. In(d, awake)
      BY <2>1, <1>6
    <3>2. QED
      BY <3>1, <1>2, <1>11 DEF OffQueues
  <2>2. CASE p = RestQ /\ d \notin ready
    <3>1. In(d, asleep)
      BY <2>2, <1>3, <1>6, <1>20 DEF IsClumpOnQ, In
    <3>2. IsClumpOnQ(Q, RestQ, d)
      BY <3>1, <1>7 DEF IsClumpOnQ, In
    <3>3. QED
      BY <3>2, <1>2, <1>11 DEF OffQueues
  <2>3. CASE p # RestQ
    <3>1. IsClumpOnQ(Q, p, d)
      BY <2>3, <1>7, <1>20 DEF IsClumpOnQ
    <3>2. QED
      BY <3>1, <1>11 DEF OffQueues
  <2>4. QED
    BY <2>1, <2>2, <2>3
<1>21. \A d \in Clumps : OffQueues(queue', d) <=> OffQueues(queue, d)
  BY <1>13, <1>20 DEF OffQueues
<1>22. ASSUME NEW d \in Clumps, awakenTime'[d] # 0
       PROVE  /\ awakenTime[d] # 0
              /\ IsClumpOnQ(queue, RestQ, d) => IsClumpOnQ(queue', RestQ, d)
  <2>1. d \notin ready /\ awakenTime[d] # 0
    BY <1>1, <1>22
  <2>2. ASSUME IsClumpOnQ(queue, RestQ, d)
        PROVE  IsClumpOnQ(queue', RestQ, d)
    <3>1. In(d, asleep)
      BY <2>1, <2>2, <1>3, <1>6 DEF IsClumpOnQ, In
    <3>2. IsClumpOnQ(Q, RestQ, d)
      BY <3>1, <1>7 DEF IsClumpOnQ, In
    <3>3. QED
      BY <3>2, <1>2, <1>11
  <2>3. QED
    BY <2>1, <2>2
<1>23. IInv'
  BY <1>16, <1>17, <1>18, <1>19 DEF IInv
<1>24. QED
  BY <1>14, <1>21, <1>22, <1>23

-----------------------------------------------------------------------------
(***************************************************************************)
(* The instructions.                                                       *)
(***************************************************************************)

\* The running clump leaves RunQ and c, itself or a clump on no queue, is
\* put on q.
LEMMA Handover ==
  ASSUME IInv, Executing, NEW q \in Queues, NEW c \in Clumps,
         c = Running \/ OffQueues(queue, c)
  PROVE  LET Q == EnQClump(DeQClump(queue, RunQ, Running), q, c)
         IN  /\ Q \in QType /\ Exclusive(Q)
             /\ \A d \in Clumps :
                  OffQueues(Q, d) <=> d # c /\ (OffQueues(queue, d) \/ d = Running)
             /\ \A p \in Queues : p # q /\ p # RunQ => Q[p] = queue[p]
             /\ \A p \in Queues, d \in Clumps : p # RunQ =>
                  (IsClumpOnQ(Q, p, d) <=> IsClumpOnQ(queue, p, d) \/ (p = q /\ d = c))
<1> DEFINE D == DeQClump(queue, RunQ, Running)
           Q == EnQClump(D, q, c)
<1>1. /\ queue \in QType /\ Exclusive(queue) /\ RunQ \in Queues
      /\ Running \in Clumps /\ IsClumpOnQ(queue, RunQ, Running)
  BY RunningProperties DEF IInv, TypeOK, QueueExclusive, QType, Queues
<1>2. /\ D \in QType /\ Exclusive(D)
      /\ \A p \in Queues, d \in Clumps :
           IsClumpOnQ(D, p, d) <=> IsClumpOnQ(queue, p, d) /\ ~(p = RunQ /\ d = Running)
      /\ \A p \in Queues : p # RunQ => D[p] = queue[p]
      /\ OffQueues(D, Running)
  BY <1>1, DeQProperties
<1> HIDE DEF D
<1>3. \A d \in Clumps : OffQueues(D, d) <=> OffQueues(queue, d) \/ d = Running
  BY <1>2 DEF OffQueues
<1>4. OffQueues(D, c)
  BY <1>3
<1>5. /\ Q \in QType /\ Exclusive(Q)
      /\ \A p \in Queues, d \in Clumps :
           IsClumpOnQ(Q, p, d) <=> IsClumpOnQ(D, p, d) \/ (p = q /\ d = c)
      /\ \A p \in Queues : p # q => Q[p] = D[p]
  BY <1>2, <1>4, EnQProperties
<1> HIDE DEF Q
<1>6. \A d \in Clumps : OffQueues(Q, d) <=> d # c /\ OffQueues(D, d)
  BY <1>5 DEF OffQueues
<1>7. QED
  BY <1>2, <1>3, <1>5, <1>6 DEF Q, D

\* OP_WAITI and OP_WAITV move the running clump to the rest queue, or to the
\* end of the run queue.
LEMMA WaitStep ==
  ASSUME IInv, NEW time \in Nat, Wait(time)
  PROVE  IInv'
<1>1. /\ ProgStatus = "PROG_RUNNING" /\ queue \in QType /\ Exclusive(queue)
      /\ Running \in Clumps /\ ~OffQueues(queue, Running) /\ RestQ \in Queues /\ Executing
  BY RunningProperties DEF IInv, TypeOK, Wait, QType, QueueExclusive, OffQueues, Queues
<1>2. \A m \in Mutexes : queue[m] # <<>> => owner[m] # NOT_A_CLUMP
  BY DEF IInv, WaitersHaveOwner
<1>3. /\ UNCHANGED <<owner, returnTo, CalledClump, CurrFireCount, Tick, inCall>>
      /\ atStart' \in [Clumps -> BOOLEAN]
  BY DEF Wait, SavePC, IInv, TypeOK
<1>4. CASE time = 0
  <2>1. Return(queue, "ROTATE_QUEUE") /\ awakenTime' = awakenTime
    BY <1>4 DEF Wait
  <2>2. awakenTime' \in [Clumps -> Nat] /\ "ROTATE_QUEUE" \in Statuses
    BY <2>1 DEF IInv, TypeOK, Statuses
  <2>3. QED
    BY <1>1, <1>2, <1>3, <2>1, <2>2, ReturnStep
<1>5. CASE time > 0
  <2> DEFINE Q == EnQClump(DeQClump(queue, RunQ, Running), RestQ, Running)
  <2>1. Return(Q, "CLUMP_SUSPEND") /\ awakenTime' = [awakenTime EXCEPT ![Running] = time + Tick]
    BY <1>5 DEF Wait
  <2>2. awakenTime' \in [Clumps -> Nat] /\ "CLUMP_SUSPEND" \in Statuses
    <3>1. time + Tick \in Nat
      BY SchedulerConstants DEF IInv, TypeOK
    <3>2. QED
      BY <2>1, <3>1 DEF IInv, TypeOK, Statuses
  <2>3. /\ Q \in QType /\ Exclusive(Q)
        /\ \A d \in Clumps : OffQueues(Q, d) <=> d # Running /\ (OffQueues(queue, d) \/ d = Running)
        /\ \A p \in Queues : p # RestQ /\ p # RunQ => Q[p] = queue[p]
    BY <1>1, Handover
  <2> HIDE DEF Q
  <2>4. \A m \in Mutexes : Q[m] # <<>> => owner[m] # NOT_A_CLUMP
    BY <1>2, <2>3, QueueNames DEF Queues
  <2>5. \A d \in Clumps : OffQueues(queue, d) => OffQueues(Q, d)
    BY <1>1, <2>3
  <2>6. QED
    BY <1>1, <1>3, <2>1, <2>2, <2>3, <2>4, <2>5, ReturnStep
<1>6. QED
  BY <1>4, <1>5 DEF Wait

\* OP_ACQUIRE makes the running clump the owner of the mutex or queues it there.
LEMMA AcquireStep ==
  ASSUME IInv, NEW m \in Mutexes, Acquire(m)
  PROVE  IInv'
<1>1. /\ ProgStatus = "PROG_RUNNING" /\ queue \in QType /\ Exclusive(queue)
      /\ Running \in Clumps /\ ~OffQueues(queue, Running) /\ m \in Queues /\ Executing
  BY RunningProperties DEF IInv, TypeOK, Acquire, QType, QueueExclusive, OffQueues, Queues
<1>2. CASE owner[m] = NOT_A_CLUMP /\ owner' = [owner EXCEPT ![m] = Running]
           /\ UNCHANGED <<queue, clumpRecs, active, inPass, ProgStatus>>
  <2>1. UNCHANGED <<queue, clumpRecs, active, inPass, ProgStatus, returnTo, Tick, inCall>>
    BY <1>2 DEF Acquire
  <2>2. TypeOK'
    BY <1>1, <1>2, <2>1 DEF IInv, TypeOK, clumpRecs, Ids
  <2>3. QueueExclusive' /\ ActiveIsHead'
    BY <2>1 DEF IInv, QueueExclusive, ActiveIsHead, Running
  <2>4. WaitersHaveOwner'
    BY <1>1, <1>2, SchedulerConstants DEF IInv, TypeOK, WaitersHaveOwner
  <2>5. CallsConsistent' /\ LiveSubroutines' /\ FiredCounted'
    BY <2>1, CallsFrame, FiredFrame DEF IInv, clumpRecs
  <2>6. QED
    BY <2>2, <2>3, <2>4, <2>5 DEF IInv
<1>3. CASE owner[m] # NOT_A_CLUMP
  <2> DEFINE Q == EnQClump(DeQClump(queue, RunQ, Running), m, Running)
  <2>1. /\ Return(Q, "CLUMP_SUSPEND") /\ "CLUMP_SUSPEND" \in Statuses
        /\ UNCHANGED <<owner, returnTo, CalledClump, CurrFireCount, Tick, inCall>>
        /\ atStart' \in [Clumps -> BOOLEAN] /\ awakenTime' \in [Clumps -> Nat]
    BY <1>3 DEF Acquire, SavePC, Statuses, IInv, TypeOK
  <2>2. /\ Q \in QType /\ Exclusive(Q)
        /\ \A d \in Clumps : OffQueues(Q, d) <=> d # Running /\ (OffQueues(queue, d) \/ d = Running)
        /\ \A p \in Queues : p # m /\ p # RunQ => Q[p] = queue[p]
    BY <1>1, Handover
  <2> HIDE DEF Q
  <2>3. \A l \in Mutexes : Q[l] # <<>> => owner[l] # NOT_A_CLUMP
    BY <1>3, <2>2, QueueNames DEF Queues, IInv, WaitersHaveOwner
  <2>4. \A d \in Clumps : OffQueues(queue, d) => OffQueues(Q, d)
    BY <1>1, <2>2
  <2>5. QED
    BY <1>1, <2>1, <2>2, <2>3, <2>4, ReturnStep
<1>4. QED
  BY <1>2, <1>3 DEF Acquire

\* The first waiter owns the mutex and is on RunQ; RunQ's head stays.
LEMMA ReleaseStep ==
  ASSUME IInv, NEW m \in Mutexes, Release(m)
  PROVE  IInv'
<1>1. /\ queue \in QType /\ Exclusive(queue) /\ m \in Queues /\ RunQ \in Queues
      /\ m # RunQ /\ queue[RunQ] # <<>>
      /\ UNCHANGED <<returnTo, clumpRecs, Tick, active, inPass, ProgStatus, inCall>>
      /\ owner' = [owner EXCEPT ![m] = NextOwner(m)]
  BY QueueNames
     DEF IInv, TypeOK, Release, ReleaseMutex, Executing, QType, QueueExclusive, Queues
<1>2. CASE queue[m] = <<>>
  <2>1. queue' = queue /\ owner' = [owner EXCEPT ![m] = NOT_A_CLUMP]
    BY <1>2 DEF Release, ReleaseMutex, NextOwner
  <2>2. TypeOK'
    BY <1>1, <2>1 DEF IInv, TypeOK, clumpRecs, Ids
  <2>3. QueueExclusive' /\ ActiveIsHead'
    BY <1>1, <2>1 DEF IInv, QueueExclusive, ActiveIsHead, Running
  <2>4. WaitersHaveOwner'
    BY <1>2, <2>1 DEF IInv, TypeOK, WaitersHaveOwner
  <2>5. CallsConsistent' /\ LiveSubroutines' /\ FiredCounted'
    BY <1>1, <2>1, CallsFrame, FiredFrame DEF IInv, clumpRecs
  <2>6. QED
    BY <2>2, <2>3, <2>4, <2>5 DEF IInv
<1>3. CASE queue[m] # <<>>
  <2> DEFINE h == Head(queue[m])
             D == DeQClump(queue, m, h)
  <2>1. queue' = EnQClump(D, RunQ, h) /\ owner' = [owner EXCEPT ![m] = h]
    BY <1>3 DEF Release, ReleaseMutex, NextOwner
  <2>2. h \in Clumps /\ IsClumpOnQ(queue, m, h)
    <3>1. queue[m] \in Seq(Clumps)
      BY <1>1 DEF QType
    <3>2. 1 \in DOMAIN queue[m] /\ h = queue[m][1] /\ h \in Clumps
      BY <3>1, <1>3
    <3>3. QED
      BY <3>2 DEF IsClumpOnQ
  <2> HIDE DEF h
  <2>3. /\ D \in QType /\ Exclusive(D) /\ OffQueues(D, h)
        /\ \A p \in Queues, d \in Clumps :
             IsClumpOnQ(D, p, d) <=> IsClumpOnQ(queue, p, d) /\ ~(p = m /\ d = h)
        /\ \A p \in Queues : p # m => D[p] = queue[p]
    BY <1>1, <2>2, DeQProperties
  <2> HIDE DEF D
  <2>4. /\ queue' \in QType /\ Exclusive(queue')
        /\ \A p \in Queues, d \in Clumps :
             IsClumpOnQ(queue', p, d) <=> IsClumpOnQ(D, p, d) \/ (p = RunQ /\ d = h)
        /\ \A p \in Queues : p # RunQ => queue'[p] = D[p]
        /\ queue'[RunQ] # <<>>
        /\ D[RunQ] # <<>> => Head(queue'[RunQ]) = Head(D[RunQ])
    BY <1>1, <2>1, <2>2, <2>3, EnQProperties
  <2>5. \A d \in Clumps : OffQueues(queue, d) => OffQueues(queue', d)
    BY <1>1, <2>2, <2>3, <2>4 DEF OffQueues
  <2>6. TypeOK'
    BY <1>1, <2>1, <2>2, <2>4, SMTT(60) DEF IInv, TypeOK, clumpRecs, Ids, QType
  <2>7. QueueExclusive' /\ ActiveIsHead'
    BY <1>1, <2>3, <2>4 DEF IInv, QueueExclusive, ActiveIsHead, Running
  <2>8. WaitersHaveOwner'
    <3> SUFFICES ASSUME NEW l \in Mutexes, queue'[l] # <<>>
                 PROVE  owner'[l] # NOT_A_CLUMP
      BY DEF WaitersHaveOwner
    <3>1. CASE l = m
      BY <3>1, <2>1, <2>2, ClumpIds DEF IInv, TypeOK
    <3>2. CASE l # m
      <4>1. queue'[l] = queue[l]
        BY <3>2, <2>3, <2>4, QueueNames DEF Queues
      <4>2. QED
        BY <3>2, <4>1, <2>1 DEF IInv, TypeOK, WaitersHaveOwner
    <3>3. QED
      BY <3>1, <3>2
  <2>9. CallsConsistent' /\ LiveSubroutines' /\ FiredCounted'
    BY <1>1, <2>5, CallsFrame, FiredFrame DEF IInv, clumpRecs
  <2>10. QED
    BY <2>6, <2>7, <2>8, <2>9 DEF IInv
<1>4. QED
  BY <1>2, <1>3

\* Saving a program counter keeps the flags flags.
LEMMA SavePCType ==
  ASSUME IInv, SavePC
  PROVE  atStart' \in [Clumps -> BOOLEAN]
<1>1. atStart \in [Clumps -> BOOLEAN]
  BY DEF IInv, TypeOK
<1>2. QED
  BY <1>1, Zenon DEF SavePC

\* What is left to show of a return that changes the calls or the records.
LEMMA ReturnSafe ==
  ASSUME IInv, ProgStatus = "PROG_RUNNING", NEW status \in Statuses,
         NEW Q \in QType, Exclusive(Q), Return(Q, status),
         \A m \in Mutexes : Q[m] = queue[m],
         UNCHANGED <<owner, Tick>>,
         CalledClump' \in [Clumps -> Ids], returnTo' \in [Clumps -> Ids],
         inCall' \in [Clumps -> Ids], CurrFireCount' \in [Clumps -> 0 .. 255],
         atStart' \in [Clumps -> BOOLEAN], awakenTime' \in [Clumps -> Nat]
  PROVE  /\ TypeOK' /\ QueueExclusive' /\ WaitersHaveOwner' /\ ActiveIsHead'
         /\ \A d \in Clumps : OffQueues(queue', d) <=> OffQueues(Q, d)
<1>1. /\ queue' \in QType /\ Exclusive(queue')
      /\ \A d \in Clumps : OffQueues(queue', d) <=> OffQueues(Q, d)
      /\ \A m \in Mutexes : queue'[m] = Q[m]
      /\ active' = NOT_A_CLUMP /\ inPass' \in BOOLEAN
      /\ ProgStatus' \in {"PROG_RUNNING", "PROG_OK", "PROG_ERROR"}
      /\ inPass' => ProgStatus' = "PROG_RUNNING"
  BY ReturnProperties
<1>2. TypeOK'
  BY <1>1 DEF IInv, TypeOK, Ids, QType
<1>3. QueueExclusive' /\ WaitersHaveOwner' /\ ActiveIsHead'
  BY <1>1 DEF IInv, QueueExclusive, WaitersHaveOwner, ActiveIsHead
<1>4. QED
  BY <1>1, <1>2, <1>3

\* STARTCLUMP schedules clumps that nobody calls or fires.
LEMMA StartClumpStep ==
  ASSUME WellFormed, IInv, NEW c \in Startable, StartClump(c)
  PROVE  IInv'
<1> DEFINE Q == EnQClump(queue, RunQ, c)
<1>1. /\ ProgStatus = "PROG_RUNNING" /\ queue \in QType /\ Exclusive(queue)
      /\ RunQ \in Queues /\ c \in Clumps /\ OffQueues(queue, c)
      /\ Return(Q, "CLUMP_SUSPEND") /\ "CLUMP_SUSPEND" \in Statuses
      /\ UNCHANGED <<owner, returnTo, CalledClump, CurrFireCount, awakenTime, Tick, inCall>>
  BY RunningProperties, SchedulerConstants
     DEF IInv, TypeOK, StartClump, QType, QueueExclusive, Queues, Statuses
<1>2. /\ Q \in QType /\ Exclusive(Q)
      /\ \A p \in Queues, d \in Clumps :
           IsClumpOnQ(Q, p, d) <=> IsClumpOnQ(queue, p, d) \/ (p = RunQ /\ d = c)
      /\ \A p \in Queues : p # RunQ => Q[p] = queue[p]
  BY <1>1, EnQProperties
<1> HIDE DEF Q
<1>3. /\ \A d \in Clumps : OffQueues(Q, d) <=> d # c /\ OffQueues(queue, d)
      /\ \A m \in Mutexes : Q[m] = queue[m]
  BY <1>1, <1>2, QueueNames DEF OffQueues, Queues
<1>4. c \notin LongCallers \cup ShortCallers \cup Callable \cup Fired
  BY DEF WellFormed
<1>5. inCall[c] = NOT_A_CLUMP
  BY <1>1, <1>4 DEF IInv, CallsConsistent
<1>6. /\ TypeOK' /\ QueueExclusive' /\ WaitersHaveOwner' /\ ActiveIsHead'
      /\ \A d \in Clumps : OffQueues(queue', d) <=> OffQueues(Q, d)
  <2>1. /\ CalledClump' \in [Clumps -> Ids] /\ returnTo' \in [Clumps -> Ids]
        /\ inCall' \in [Clumps -> Ids] /\ CurrFireCount' \in [Clumps -> 0 .. 255]
        /\ atStart' \in [Clumps -> BOOLEAN] /\ awakenTime' \in [Clumps -> Nat]
    <3>1. atStart' \in [Clumps -> BOOLEAN]
      BY SavePCType DEF StartClump
    <3>2. QED
      BY <1>1, <3>1 DEF IInv, TypeOK
  <2>2. QED
    BY <1>1, <1>2, <1>3, <2>1, ReturnSafe
<1>7. \A d \in Clumps : OffQueues(queue', d) <=> d # c /\ OffQueues(queue, d)
  BY <1>3, <1>6
<1>8. CallsConsistent'
  BY <1>1, <1>5, <1>7 DEF IInv, CallsConsistent
<1>9. LiveSubroutines'
  BY <1>1, <1>4, <1>7, SchedulerConstants DEF IInv, LiveSubroutines, Live
<1>10. FiredCounted'
  <2>1. Fired \subseteq Clumps
    BY SchedulerConstants DEF Fired, Range_
  <2>2. QED
    BY <1>1, <1>4, <1>7, <2>1 DEF IInv, FiredCounted, Live
<1>11. QED
  BY <1>6, <1>8, <1>9, <1>10 DEF IInv

\* OP_SUBCALL takes the caller off the run queue and puts the subroutine there.
LEMMA SubCallStep ==
  ASSUME WellFormed, IInv, NEW c \in Callable, SubCall(c)
  PROVE  IInv'
<1> DEFINE Q == EnQClump(DeQClump(queue, RunQ, Running), RunQ, c)
<1>1. /\ ProgStatus = "PROG_RUNNING" /\ queue \in QType /\ RunQ \in Queues
      /\ c \in Clumps /\ OffQueues(queue, c) /\ inCall[c] = NOT_A_CLUMP
      /\ Running \in Clumps /\ ~OffQueues(queue, Running) /\ Running # c
      /\ Running \in LongCallers \cup ShortCallers
      /\ inCall[Running] = NOT_A_CLUMP /\ CalledClump[Running] = NOT_A_CLUMP
      /\ Executing
  <2>1. /\ c \in Clumps /\ OffQueues(queue, c) /\ inCall[c] = NOT_A_CLUMP
        /\ Running \in LongCallers \cup ShortCallers /\ Executing
    BY SchedulerConstants DEF SubCall
  <2>2. /\ ProgStatus = "PROG_RUNNING" /\ Running \in Clumps
        /\ IsClumpOnQ(queue, RunQ, Running)
        /\ inCall[Running] = NOT_A_CLUMP /\ CalledClump[Running] = NOT_A_CLUMP
    BY <2>1, RunningProperties
  <2>3. RunQ \in Queues /\ queue \in QType
    BY DEF Queues, QType, IInv, TypeOK
  <2>4. ~OffQueues(queue, Running)
    BY <2>2, <2>3 DEF OffQueues
  <2>5. QED
    BY <2>1, <2>2, <2>3, <2>4
<1>2. /\ Return(Q, "CLUMP_SUSPEND") /\ "CLUMP_SUSPEND" \in Statuses
      /\ returnTo' = [returnTo EXCEPT ![c] = Running]
      /\ CalledClump' = IF Running \in LongCallers
                        THEN [CalledClump EXCEPT ![Running] = c] ELSE CalledClump
      /\ inCall' = [inCall EXCEPT ![Running] = c]
      /\ UNCHANGED <<owner, CurrFireCount, awakenTime, Tick>>
  BY DEF SubCall, Statuses
<1>3. /\ Q \in QType /\ Exclusive(Q)
      /\ \A d \in Clumps : OffQueues(Q, d) <=> d # c /\ (OffQueues(queue, d) \/ d = Running)
      /\ \A p \in Queues : p # RunQ => Q[p] = queue[p]
  BY <1>1, Handover
<1> HIDE DEF Q
<1>4. \A m \in Mutexes : Q[m] = queue[m]
  BY <1>3, QueueNames DEF Queues
<1>5. /\ CalledClump' \in [Clumps -> Ids] /\ returnTo' \in [Clumps -> Ids]
      /\ inCall' \in [Clumps -> Ids] /\ CurrFireCount' \in [Clumps -> 0 .. 255]
      /\ atStart' \in [Clumps -> BOOLEAN] /\ awakenTime' \in [Clumps -> Nat]
  <2>1. /\ CalledClump \in [Clumps -> Ids] /\ returnTo \in [Clumps -> Ids]
        /\ inCall \in [Clumps -> Ids] /\ CurrFireCount \in [Clumps -> 0 .. 255]
        /\ awakenTime \in [Clumps -> Nat]
        /\ c \in Ids /\ Running \in Ids
    BY <1>1 DEF IInv, TypeOK, Ids
  <2>2. CalledClump' \in [Clumps -> Ids]
    BY <1>1, <1>2, <2>1
  <2>3. returnTo' \in [Clumps -> Ids]
    BY <1>1, <1>2, <2>1
  <2>4. inCall' \in [Clumps -> Ids]
    BY <1>1, <1>2, <2>1
  <2>5. CurrFireCount' \in [Clumps -> 0 .. 255] /\ awakenTime' \in [Clumps -> Nat]
    BY <1>2, <2>1
  <2>6. atStart' \in [Clumps -> BOOLEAN]
    BY SavePCType DEF SubCall
  <2>7. QED
    BY <2>2, <2>3, <2>4, <2>5, <2>6
<1>6. /\ TypeOK' /\ QueueExclusive' /\ WaitersHaveOwner' /\ ActiveIsHead'
      /\ \A d \in Clumps : OffQueues(queue', d) <=> OffQueues(Q, d)
  <2>1. /\ Return(Q, "CLUMP_SUSPEND") /\ "CLUMP_SUSPEND" \in Statuses
        /\ UNCHANGED <<owner, Tick>>
    BY <1>2
  <2>2. Q \in QType /\ Exclusive(Q)
    BY <1>3
  <2>3. QED
    BY <1>1, <1>4, <1>5, <2>1, <2>2, ReturnSafe
<1>7. \A d \in Clumps : OffQueues(queue', d) <=> d # c /\ (OffQueues(queue, d) \/ d = Running)
  BY <1>3, <1>6
<1>8. c # NOT_A_CLUMP /\ Running # NOT_A_CLUMP
  BY <1>1, ClumpIds
<1>9. CallsConsistent'
  <2> SUFFICES ASSUME NEW d \in Clumps
               PROVE  /\ inCall'[d] # NOT_A_CLUMP =>
                           /\ inCall'[d] \in Callable
                           /\ d \in LongCallers \cup ShortCallers
                           /\ OffQueues(queue', d)
                      /\ CalledClump'[d] # NOT_A_CLUMP => CalledClump'[d] = inCall'[d]
                      /\ inCall'[d] # NOT_A_CLUMP /\ d \notin ShortCallers => CalledClump'[d] # NOT_A_CLUMP
    BY DEF CallsConsistent
  <2>1. CASE d = Running
    BY <2>1, <1>1, <1>2, <1>7, <1>8 DEF IInv, TypeOK
  <2>2. CASE d # Running
    <3>1. inCall'[d] = inCall[d] /\ CalledClump'[d] = CalledClump[d]
      BY <2>2, <1>1, <1>2 DEF IInv, TypeOK
    <3>2. OffQueues(queue, d) /\ d # c => OffQueues(queue', d)
      BY <1>7
    <3>3. QED
      BY <3>1, <3>2, <1>1 DEF IInv, CallsConsistent
  <2>3. QED
    BY <2>1, <2>2
<1>10. LiveSubroutines'
  <2> SUFFICES ASSUME NEW d \in Callable, Live(d)'
               PROVE  returnTo'[d] # NOT_A_CLUMP /\ inCall'[returnTo'[d]] = d
    BY DEF LiveSubroutines
  <2>0. d \in Clumps
    BY SchedulerConstants
  <2>1. CASE d = c
    BY <2>1, <1>1, <1>2, <1>8 DEF IInv, TypeOK
  <2>2. CASE d # c
    <3>1. Live(d)
      <4>1. CASE d = Running
        BY <4>1, <1>1 DEF Live
      <4>2. CASE d # Running
        BY <4>2, <2>0, <2>2, <1>1, <1>2, <1>7 DEF Live, IInv, TypeOK
      <4>3. QED
        BY <4>1, <4>2
    <3>2. returnTo[d] # NOT_A_CLUMP /\ inCall[returnTo[d]] = d /\ returnTo'[d] = returnTo[d]
      BY <3>1, <2>0, <2>2, <1>1, <1>2 DEF IInv, LiveSubroutines, TypeOK
    <3>3. returnTo[d] \in Clumps /\ d # NOT_A_CLUMP
      BY <3>2, <2>0, ClumpIds DEF IInv, TypeOK, Ids
    <3>4. returnTo[d] # Running
      BY <3>2, <3>3, <1>1
    <3>5. QED
      BY <3>2, <3>3, <3>4, <1>1, <1>2 DEF IInv, TypeOK
  <2>3. QED
    BY <2>1, <2>2
<1>11. FiredCounted'
  <2> SUFFICES ASSUME NEW d \in Fired, Live(d)'
               PROVE  CurrFireCount'[d] = 0
    BY DEF FiredCounted
  <2>1. d \in Clumps /\ d # c
    BY SchedulerConstants DEF Fired, Range_, WellFormed
  <2>2. Live(d)
    <3>1. CASE d = Running
      BY <3>1, <1>1 DEF Live
    <3>2. CASE d # Running
      BY <3>2, <2>1, <1>1, <1>2, <1>7 DEF Live, IInv, TypeOK
    <3>3. QED
      BY <3>1, <3>2
  <2>3. QED
    BY <2>2, <1>2 DEF IInv, FiredCounted
<1>12. QED
  BY <1>6, <1>9, <1>10, <1>11 DEF IInv

\* OP_SUBRET takes the subroutine off the run queue and puts its caller back.
LEMMA SubRetStep ==
  ASSUME WellFormed, IInv, SubRet
  PROVE  IInv'
<1> DEFINE caller == returnTo[Running]
           Q == EnQClump(DeQClump(queue, RunQ, Running), RunQ, caller)
<1>1. /\ ProgStatus = "PROG_RUNNING" /\ queue \in QType /\ RunQ \in Queues
      /\ Running \in Clumps /\ ~OffQueues(queue, Running) /\ Running \in Callable
      /\ active = Running
      /\ inCall[Running] = NOT_A_CLUMP /\ CalledClump[Running] = NOT_A_CLUMP
      /\ Executing
  BY RunningProperties
     DEF IInv, TypeOK, SubRet, QType, QueueExclusive, Queues, OffQueues
<1>2. /\ Return(Q, "CLUMP_DONE") /\ "CLUMP_DONE" \in Statuses
      /\ CalledClump' = [CalledClump EXCEPT ![caller] = NOT_A_CLUMP]
      /\ inCall' = [inCall EXCEPT ![caller] = NOT_A_CLUMP]
      /\ ClumpDone(CurrFireCount)
      /\ UNCHANGED <<owner, returnTo, awakenTime, Tick>>
  BY DEF SubRet, Statuses
<1>3. caller # NOT_A_CLUMP /\ inCall[caller] = Running /\ caller \in Clumps
  <2>1. caller # NOT_A_CLUMP /\ inCall[caller] = Running
    BY <1>1 DEF IInv, LiveSubroutines, Live
  <2>2. QED
    BY <2>1, <1>1 DEF IInv, TypeOK, Ids
<1>4. Running # NOT_A_CLUMP /\ OffQueues(queue, caller) /\ caller # Running
  BY <1>1, <1>3, ClumpIds DEF IInv, CallsConsistent
<1> HIDE DEF caller
<1>5. /\ Q \in QType /\ Exclusive(Q)
      /\ \A d \in Clumps : OffQueues(Q, d) <=> d # caller /\ (OffQueues(queue, d) \/ d = Running)
      /\ \A p \in Queues : p # RunQ => Q[p] = queue[p]
  BY <1>1, <1>3, <1>4, Handover
<1> HIDE DEF Q
<1>6. \A m \in Mutexes : Q[m] = queue[m]
  BY <1>5, QueueNames DEF Queues
<1>7. /\ CalledClump' \in [Clumps -> Ids] /\ returnTo' \in [Clumps -> Ids]
      /\ inCall' \in [Clumps -> Ids] /\ CurrFireCount' \in [Clumps -> 0 .. 255]
      /\ atStart' \in [Clumps -> BOOLEAN] /\ awakenTime' \in [Clumps -> Nat]
  <2>1. InitFireCount[active] \in 0 .. 255
    BY <1>1, SchedulerConstants
  <2>2. CurrFireCount' \in [Clumps -> 0 .. 255] /\ atStart' \in [Clumps -> BOOLEAN]
    BY <1>2, <2>1 DEF IInv, TypeOK, ClumpDone
  <2>3. QED
    BY <1>2, <2>2 DEF IInv, TypeOK, Ids
<1>8. /\ TypeOK' /\ QueueExclusive' /\ WaitersHaveOwner' /\ ActiveIsHead'
      /\ \A d \in Clumps : OffQueues(queue', d) <=> OffQueues(Q, d)
  BY <1>1, <1>2, <1>5, <1>6, <1>7, ReturnSafe
<1>9. \A d \in Clumps : OffQueues(queue', d) <=> d # caller /\ (OffQueues(queue, d) \/ d = Running)
  BY <1>5, <1>8
<1>10. /\ inCall'[caller] = NOT_A_CLUMP /\ CalledClump'[caller] = NOT_A_CLUMP
       /\ \A d \in Clumps : d # caller => inCall'[d] = inCall[d] /\ CalledClump'[d] = CalledClump[d]
  BY <1>2, <1>3 DEF IInv, TypeOK
<1>11. CallsConsistent'
  BY <1>9, <1>10 DEF IInv, CallsConsistent
<1>12. \A d \in Clumps : Live(d)' => Live(d) /\ d # Running
  <2> SUFFICES ASSUME NEW d \in Clumps, Live(d)'
               PROVE  Live(d) /\ d # Running
    OBVIOUS
  <2>1. CASE d = caller
    BY <2>1, <1>1, <1>3, <1>4 DEF Live
  <2>2. CASE d # caller
    BY <2>2, <1>1, <1>9, <1>10 DEF Live
  <2>3. QED
    BY <2>1, <2>2
<1>13. LiveSubroutines'
  <2> SUFFICES ASSUME NEW d \in Callable, Live(d)'
               PROVE  returnTo'[d] # NOT_A_CLUMP /\ inCall'[returnTo'[d]] = d
    BY DEF LiveSubroutines
  <2>1. d \in Clumps /\ Live(d) /\ d # Running
    BY <1>12, SchedulerConstants
  <2>2. returnTo[d] # NOT_A_CLUMP /\ inCall[returnTo[d]] = d /\ returnTo[d] \in Ids
    BY <2>1 DEF IInv, LiveSubroutines, TypeOK
  <2>3. returnTo[d] # caller /\ returnTo[d] \in Clumps
    BY <2>1, <2>2, <1>3 DEF Ids
  <2>4. QED
    BY <2>2, <2>3, <1>2, <1>10
<1>14. FiredCounted'
  <2> SUFFICES ASSUME NEW d \in Fired, Live(d)'
               PROVE  CurrFireCount'[d] = 0
    BY DEF FiredCounted
  <2>1. d \in Clumps /\ Live(d) /\ d # Running
    BY <1>12, SchedulerConstants DEF Fired, Range_
  <2>2. CurrFireCount'[d] = CurrFireCount[d]
    BY <2>1, <1>1, <1>2 DEF ClumpDone, IInv, TypeOK
  <2>3. QED
    BY <2>1, <2>2 DEF IInv, FiredCounted
<1>15. QED
  BY <1>8, <1>11, <1>13, <1>14 DEF IInv

\* FINCLUMP fires clumps that are neither scheduled nor in a call.
LEMMA FinClumpStep ==
  ASSUME WellFormed, IInv,
         NEW begin \in 1 .. Len(Dependents[Running]) + 1,
         NEW end \in begin - 1 .. Len(Dependents[Running]), FinClump(begin, end)
  PROVE  /\ IInv'
         /\ \A d \in Clumps : OffQueues(queue', d) => OffQueues(queue, d) \/ d = Running
         /\ \A p \in Queues, d \in Clumps : p # RunQ =>
              (IsClumpOnQ(queue', p, d) <=> IsClumpOnQ(queue, p, d))
<1> DEFINE list == SubSeq(Dependents[Running], begin, end)
           hit == Range_(list)
           fired == {d \in hit : CurrFireCount[d] = 1}
           D == DeQClump(queue, RunQ, Running)
<1>1. /\ ProgStatus = "PROG_RUNNING" /\ queue \in QType /\ RunQ \in Queues
      /\ Exclusive(queue) /\ IsClumpOnQ(queue, RunQ, Running)
      /\ Running \in Clumps /\ ~OffQueues(queue, Running)
      /\ active = Running /\ inCall[Running] = NOT_A_CLUMP
  BY RunningProperties
     DEF IInv, TypeOK, FinClump, QType, QueueExclusive, Queues, OffQueues
<1>2. PICK batch \in InOrder(fired, list) : Return([D EXCEPT ![RunQ] = @ \o batch], "CLUMP_DONE")
  BY DEF FinClump, SchedDependents
<1>3. /\ ClumpDone([d \in Clumps |-> IF d \in hit THEN (CurrFireCount[d] + 255) % 256
                                      ELSE CurrFireCount[d]])
      /\ MayFire(list) /\ "CLUMP_DONE" \in Statuses /\ Running \notin Callable
      /\ UNCHANGED <<owner, returnTo, CalledClump, awakenTime, Tick, inCall>>
  BY DEF FinClump, SchedDependents, Statuses
<1>4. hit \subseteq Fired
  <2> DEFINE deps == Dependents[Running]
  <2>1. deps \in Seq(Clumps)
    BY <1>1, SchedulerConstants
  <2>2. begin \in Nat \ {0} /\ end \in Int /\ end <= Len(deps) /\ end >= begin - 1
    BY <2>1
  <2>3. hit \subseteq Range_(deps)
    <3> SUFFICES ASSUME NEW d \in hit PROVE d \in Range_(deps)
      OBVIOUS
    <3> HIDE DEF deps
    <3>1. PICK i \in DOMAIN SubSeq(deps, begin, end) : SubSeq(deps, begin, end)[i] = d
      BY DEF Range_, deps
    <3>2. i \in 1 .. (end - begin + 1) /\ SubSeq(deps, begin, end)[i] = deps[begin + i - 1]
      BY <3>1, <2>1, <2>2
    <3>3. begin + i - 1 \in 1 .. Len(deps)
      BY <3>2, <2>2, <2>1
    <3>4. QED
      BY <3>1, <3>2, <3>3, <2>1 DEF Range_
  <2>4. QED
    BY <2>3, <1>1 DEF Fired
<1> HIDE DEF list, hit
<1>5. Fired \subseteq Clumps
  BY SchedulerConstants DEF Fired, Range_
<1>6. \A d \in fired : OffQueues(queue, d) /\ inCall[d] = NOT_A_CLUMP /\ d # Running
  BY <1>1, <1>4 DEF IInv, FiredCounted, Live
<1>7. fired \subseteq Clumps /\ fired \subseteq hit
  BY <1>4, <1>5
<1>8. batch \in Seq(Clumps) /\ OneToOne(batch) /\ \A d : In(d, batch) <=> d \in fired
  <2> HIDE DEF fired
  <2>1. QED
    BY <1>7, ClumpsInOrder
<1>9. /\ D \in QType /\ Exclusive(D)
      /\ \A p \in Queues, d \in Clumps :
           IsClumpOnQ(D, p, d) <=> IsClumpOnQ(queue, p, d) /\ ~(p = RunQ /\ d = Running)
      /\ \A p \in Queues : p # RunQ => D[p] = queue[p]
      /\ OffQueues(D, Running)
  BY <1>1, DeQProperties
<1> HIDE DEF D
<1>10. \A d \in Clumps : OffQueues(D, d) <=> OffQueues(queue, d) \/ d = Running
  BY <1>9 DEF OffQueues
<1> DEFINE Q == AppendBatch(D, RunQ, batch)
<1>11. /\ Q \in QType /\ Exclusive(Q)
       /\ \A p \in Queues, d \in Clumps :
            IsClumpOnQ(Q, p, d) <=> IsClumpOnQ(D, p, d) \/ (p = RunQ /\ In(d, batch))
       /\ \A p \in Queues : p # RunQ => Q[p] = D[p]
  <2>1. \A d \in Clumps : In(d, batch) => OffQueues(D, d)
    BY <1>6, <1>8, <1>10
  <2>2. QED
    BY <1>1, <1>8, <1>9, <2>1, BatchProperties
<1>12. Return(Q, "CLUMP_DONE")
  BY <1>2 DEF AppendBatch
<1> HIDE DEF Q, fired
<1>13. \A m \in Mutexes : Q[m] = queue[m]
  BY <1>9, <1>11, QueueNames DEF Queues
<1>14. \A d \in Clumps :
         OffQueues(Q, d) <=> d \notin fired /\ (OffQueues(queue, d) \/ d = Running)
  BY <1>1, <1>8, <1>10, <1>11 DEF OffQueues
<1>15. /\ CurrFireCount' \in [Clumps -> 0 .. 255] /\ atStart' \in [Clumps -> BOOLEAN]
       /\ \A d \in Clumps : d # Running =>
            CurrFireCount'[d] = IF d \in hit THEN (CurrFireCount[d] + 255) % 256
                                ELSE CurrFireCount[d]
  <2> DEFINE counts == [d \in Clumps |-> IF d \in hit THEN (CurrFireCount[d] + 255) % 256
                                         ELSE CurrFireCount[d]]
  <2>1. counts \in [Clumps -> 0 .. 255]
    <3>1. \A d \in Clumps : CurrFireCount[d] \in 0 .. 255
      BY DEF IInv, TypeOK
    <3>2. \A x \in 0 .. 255 : (x + 255) % 256 \in 0 .. 255
      OBVIOUS
    <3>3. \A d \in Clumps : (CurrFireCount[d] + 255) % 256 \in 0 .. 255
      BY <3>1, <3>2, Zenon
    <3>4. QED
      BY <3>1, <3>3
  <2>2. InitFireCount[Running] \in 0 .. 255
    BY <1>1, SchedulerConstants
  <2>3. CurrFireCount' = [counts EXCEPT ![Running] = InitFireCount[Running]]
    BY <1>1, <1>3 DEF ClumpDone
  <2>4. \A d \in Clumps : counts[d] = IF d \in hit THEN (CurrFireCount[d] + 255) % 256
                                       ELSE CurrFireCount[d]
    OBVIOUS
  <2> HIDE DEF counts
  <2>5. CurrFireCount' \in [Clumps -> 0 .. 255]
    BY <2>1, <2>2, <2>3
  <2>6. \A d \in Clumps : d # Running => CurrFireCount'[d] = counts[d]
    BY <2>1, <2>3
  <2>7. atStart' \in [Clumps -> BOOLEAN]
    BY <1>3 DEF ClumpDone, IInv, TypeOK
  <2>8. QED
    BY <2>4, <2>5, <2>6, <2>7
<1>16. /\ TypeOK' /\ QueueExclusive' /\ WaitersHaveOwner' /\ ActiveIsHead'
       /\ \A d \in Clumps : OffQueues(queue', d) <=> OffQueues(Q, d)
  <2>1. /\ CalledClump' \in [Clumps -> Ids] /\ returnTo' \in [Clumps -> Ids]
        /\ inCall' \in [Clumps -> Ids] /\ awakenTime' \in [Clumps -> Nat]
    BY <1>3 DEF IInv, TypeOK
  <2>2. QED
    BY <1>1, <1>3, <1>11, <1>12, <1>13, <1>15, <2>1, ReturnSafe
<1>17. \A d \in Clumps :
         OffQueues(queue', d) <=> d \notin fired /\ (OffQueues(queue, d) \/ d = Running)
  BY <1>14, <1>16
<1>18. CallsConsistent'
  <2>1. \A d \in Clumps : inCall[d] # NOT_A_CLUMP => d \notin fired
    BY <1>6
  <2>2. QED
    BY <2>1, <1>3, <1>17 DEF IInv, CallsConsistent
<1>19. \A d \in Clumps : Live(d)' => d \in fired \/ (Live(d) /\ d # Running)
  BY <1>1, <1>3, <1>17 DEF Live
<1>20. LiveSubroutines'
  <2>1. \A d \in Callable : d \in Clumps /\ d \notin fired
    BY <1>4, <1>7, SchedulerConstants DEF WellFormed
  <2>2. QED
    BY <2>1, <1>3, <1>19 DEF IInv, LiveSubroutines
<1>21. FiredCounted'
  <2> SUFFICES ASSUME NEW d \in Fired, Live(d)'
               PROVE  CurrFireCount'[d] = 0
    BY DEF FiredCounted
  <2>1. CASE d \in fired
    <3>1. d \in hit /\ CurrFireCount[d] = 1 /\ d # Running
      BY <2>1, <1>6 DEF fired
    <3>2. QED
      BY <3>1, <1>5, <1>15
  <2>2. CASE d \notin fired
    <3>1. Live(d) /\ d # Running
      BY <2>2, <1>5, <1>19
    <3>2. CurrFireCount[d] = 0
      BY <3>1 DEF IInv, FiredCounted
    <3>3. d \notin hit
      BY <3>2, <1>3 DEF hit, MayFire, WellFormed
    <3>4. QED
      BY <3>1, <3>2, <3>3, <1>5, <1>15
  <2>3. QED
    BY <2>1, <2>2
<1>22. \A p \in Queues, d \in Clumps : p # RunQ =>
         (IsClumpOnQ(queue', p, d) <=> IsClumpOnQ(queue, p, d))
  <2>1. \A p \in Queues, d \in Clumps : IsClumpOnQ(queue', p, d) <=> IsClumpOnQ(Q, p, d)
    BY <1>1, <1>3, <1>11, <1>12, ReturnProperties
  <2>2. QED
    BY <2>1, <1>9, <1>11
<1>23. IInv'
  BY <1>16, <1>18, <1>20, <1>21 DEF IInv
<1>24. QED
  BY <1>17, <1>22, <1>23

\* A chain of calls ends at its first clump or at a subroutine.
LEMMA CallChainEndProperties ==
  ASSUME IInv, NEW c \in Clumps, NEW t \in Clumps, CallChainEnd(CalledClump, c, t)
  PROVE  CalledClump[t] = NOT_A_CLUMP /\ (t = c \/ t \in Callable)
<1> DEFINE calls == Cardinality({d \in Clumps : CalledClump[d] # NOT_A_CLUMP})
<1>1. calls \in Nat
  <2>1. IsFiniteSet({d \in Clumps : CalledClump[d] # NOT_A_CLUMP})
    BY ClumpIds, FS_Subset
  <2>2. QED
    BY <2>1, FS_CardinalityType
<1>2. PICK n \in 0 .. calls : \E path \in [0 .. n -> Clumps] :
         /\ path[0] = c /\ path[n] = t
         /\ \A i \in 1 .. n : path[i] = CalledClump[path[i - 1]]
  BY DEF CallChainEnd
<1>3. PICK path \in [0 .. n -> Clumps] :
         /\ path[0] = c /\ path[n] = t
         /\ \A i \in 1 .. n : path[i] = CalledClump[path[i - 1]]
  BY <1>2
<1> HIDE DEF calls
<1>4. n \in Nat
  BY <1>1
<1>5. CASE n = 0
  BY <1>3, <1>5 DEF CallChainEnd
<1>6. CASE n > 0
  <2>1. n \in 1 .. n /\ n - 1 \in 0 .. n
    BY <1>4, <1>6
  <2>2. path[n - 1] \in Clumps /\ t = CalledClump[path[n - 1]]
    BY <2>1, <1>3
  <2>3. t # NOT_A_CLUMP
    BY ClumpIds
  <2>4. t = inCall[path[n - 1]] /\ t \in Callable
    BY <2>2, <2>3 DEF IInv, CallsConsistent
  <2>5. QED
    BY <2>4 DEF CallChainEnd
<1>7. QED
  BY <1>4, <1>5, <1>6

\* What STOPCLUMP does when clump is the one at the end of c's calls: it takes
\* only this clump off the queues, and hands its mutexes to their first waiters.
Stopped(c, clump) ==
  /\ clump # Running
  /\ clump = c \/ clump \in Callable
  /\ CalledClump[clump] = NOT_A_CLUMP
  /\ queue' \in QType /\ Exclusive(queue')
  /\ queue'[RunQ] # <<>> /\ Head(queue'[RunQ]) = Running
  /\ OffQueues(queue', clump)
  /\ \A d \in Clumps : d # clump =>
       /\ OffQueues(queue', d) <=> OffQueues(queue, d)
       /\ IsClumpOnQ(queue', RestQ, d) <=> IsClumpOnQ(queue, RestQ, d)
  /\ \A m \in Mutexes :
       /\ \A d \in Clumps : IsClumpOnQ(queue', m, d) => IsClumpOnQ(queue, m, d)
       /\ owner[m] # clump => owner'[m] = owner[m]
       /\ owner[m] = clump /\ queue[m] = <<>> => owner'[m] = NOT_A_CLUMP
       /\ owner[m] = clump /\ queue[m] # <<>> =>
            /\ owner'[m] \in Clumps
            /\ IsClumpOnQ(queue, m, owner'[m])
            /\ ~IsClumpOnQ(queue', m, owner'[m])
  /\ owner' \in [Mutexes -> Ids]
  /\ WaitersHaveOwner'
  /\ atStart' = [atStart EXCEPT ![clump] = TRUE]
  /\ CurrFireCount' = [CurrFireCount EXCEPT ![clump] = InitFireCount[clump]]
  /\ awakenTime' = [awakenTime EXCEPT ![clump] = 0]

LEMMA StopClumpEffect ==
  ASSUME WellFormed, IInv, NEW c \in Stoppable, StopClump(c)
  PROVE  \E clump \in Clumps : Stopped(c, clump)
<1>1. /\ queue \in QType /\ RunQ \in Queues /\ Exclusive(queue)
      /\ queue[RunQ] # <<>> /\ Running \in Clumps /\ active = Running
      /\ c \in Clumps
      /\ UNCHANGED <<returnTo, CalledClump, Tick, active, inPass, ProgStatus, inCall>>
  BY RunningProperties, SchedulerConstants
     DEF IInv, TypeOK, StopClump, QType, QueueExclusive, Queues, Executing
<1>2. PICK clump \in Clumps :
       LET owned == OwnedBy(clump)
           wanted == {m \in owned : queue[m] # <<>>}
       IN  /\ CallChainEnd(CalledClump, c, clump)
           /\ MayStop(clump)
           /\ owner' = [m \in Mutexes |-> IF m \in owned THEN NextOwner(m) ELSE owner[m]]
           /\ \E woken \in InOrder(wanted, MutexTOC) :
                LET heads == [i \in DOMAIN woken |-> Head(queue[woken[i]])]
                    left == [q \in Queues |-> IF q = RunQ THEN queue[q] \o heads
                                              ELSE IF q \in wanted THEN Tail(queue[q])
                                              ELSE queue[q]]
                IN  queue' = [q \in Queues |-> Without(left[q], clump)]
           /\ atStart' = [atStart EXCEPT ![clump] = TRUE]
           /\ CurrFireCount' = [CurrFireCount EXCEPT ![clump] = InitFireCount[clump]]
           /\ awakenTime' = [awakenTime EXCEPT ![clump] = 0]
  BY DEF StopClump
<1> DEFINE owned == OwnedBy(clump)
           wanted == {m \in owned : queue[m] # <<>>}
<1>3. PICK woken \in InOrder(wanted, MutexTOC) :
        LET heads == [i \in DOMAIN woken |-> Head(queue[woken[i]])]
            left == [q \in Queues |-> IF q = RunQ THEN queue[q] \o heads
                                      ELSE IF q \in wanted THEN Tail(queue[q])
                                      ELSE queue[q]]
        IN  queue' = [q \in Queues |-> Without(left[q], clump)]
  BY <1>2
<1> DEFINE heads == [i \in DOMAIN woken |-> Head(queue[woken[i]])]
           left == [q \in Queues |-> IF q = RunQ THEN queue[q] \o heads
                                     ELSE IF q \in wanted THEN Tail(queue[q])
                                     ELSE queue[q]]
           tails == [q \in Queues |-> IF q \in wanted THEN Tail(queue[q]) ELSE queue[q]]
<1>4. /\ clump # Running /\ CalledClump[clump] = NOT_A_CLUMP
      /\ clump = c \/ clump \in Callable
  BY <1>1, <1>2, CallChainEndProperties DEF MayStop, WellFormed
<1>5. queue' = [q \in Queues |-> Without(left[q], clump)]
  BY <1>3
<1>6. /\ owned \subseteq Mutexes /\ wanted \subseteq owned /\ wanted \subseteq Mutexes
      /\ \A m \in wanted : queue[m] # <<>> /\ m \in Queues /\ m # RunQ
      /\ \A m \in owned \ wanted : queue[m] = <<>>
  BY QueueNames DEF OwnedBy, Queues
<1> HIDE DEF wanted
<1>7. /\ DOMAIN woken = 1 .. Len(woken) /\ Len(woken) \in Nat /\ OneToOne(woken)
      /\ \A i \in DOMAIN woken : woken[i] \in wanted
      /\ \A m \in wanted : \E i \in DOMAIN woken : woken[i] = m
  <2>1. woken \in Seq(Mutexes) /\ OneToOne(woken) /\ \A d : In(d, woken) <=> d \in wanted
    BY <1>6, MutexesInOrder
  <2>2. QED
    BY <2>1 DEF In
<1>8. \A m \in wanted : /\ Head(queue[m]) \in Clumps /\ Head(queue[m]) = queue[m][1]
                         /\ 1 \in DOMAIN queue[m] /\ queue[m] \in Seq(Clumps)
  <2> SUFFICES ASSUME NEW m \in wanted
               PROVE  /\ Head(queue[m]) \in Clumps /\ Head(queue[m]) = queue[m][1]
                      /\ 1 \in DOMAIN queue[m] /\ queue[m] \in Seq(Clumps)
    OBVIOUS
  <2>1. queue[m] \in Seq(Clumps) /\ queue[m] # <<>>
    BY <1>1, <1>6 DEF QType
  <2>2. QED
    BY <2>1
<1>9. heads \in Seq(Clumps) /\ OneToOne(heads)
  <2>1. /\ DOMAIN heads = 1 .. Len(woken)
        /\ \A i \in 1 .. Len(woken) : heads[i] = queue[woken[i]][1] /\ heads[i] \in Clumps
    BY <1>7, <1>8
  <2>2. heads \in Seq(Clumps)
    <3>1. heads \in [1 .. Len(woken) -> Clumps]
      BY <2>1
    <3> HIDE DEF heads
    <3>2. QED
      BY <3>1, <1>7
  <2> HIDE DEF heads
  <2>3. ASSUME NEW i \in 1 .. Len(woken), NEW j \in 1 .. Len(woken), heads[i] = heads[j]
        PROVE  i = j
    <3>1. /\ woken[i] \in Queues /\ woken[j] \in Queues
          /\ 1 \in DOMAIN queue[woken[i]] /\ 1 \in DOMAIN queue[woken[j]]
          /\ queue[woken[i]][1] = queue[woken[j]][1]
      BY <2>1, <2>3, <1>6, <1>7, <1>8
    <3>2. woken[i] = woken[j]
      BY <3>1, <1>1 DEF Exclusive
    <3>3. QED
      BY <3>2, <1>7 DEF OneToOne
  <2>4. QED
    BY <2>1, <2>2, <2>3 DEF OneToOne
<1>10. \A d : In(d, heads) => \E m \in wanted : d = queue[m][1]
  BY <1>7, <1>8 DEF In
<1>27. ASSUME NEW m \in wanted
       PROVE  In(queue[m][1], heads)
  <2>1. PICK i \in DOMAIN woken : woken[i] = m
    BY <1>7
  <2>2. i \in DOMAIN heads /\ heads[i] = queue[m][1]
    BY <2>1, <1>8
  <2>3. QED
    BY <2>2 DEF In
<1> HIDE DEF heads
<1>11. ASSUME NEW q \in Queues
       PROVE  /\ tails[q] \in Seq(Clumps) /\ OneToOne(tails[q])
              /\ \A d : In(d, tails[q]) => In(d, queue[q])
              /\ q \in wanted => ~In(queue[q][1], tails[q])
  <2> DEFINE s == queue[q]
  <2>1. s \in Seq(Clumps) /\ OneToOne(s)
    BY <1>1 DEF QType, Exclusive, OneToOne
  <2>2. CASE q \notin wanted
    BY <2>1, <2>2
  <2>3. CASE q \in wanted
    <3>1. tails[q] = Tail(s) /\ s # <<>>
      BY <2>3, <1>6
    <3> HIDE DEF s
    <3>2. /\ Tail(s) \in Seq(Clumps) /\ DOMAIN Tail(s) = 1 .. Len(s) - 1
          /\ \A i \in 1 .. Len(s) - 1 : Tail(s)[i] = s[i + 1] /\ i + 1 \in DOMAIN s
          /\ 1 \in DOMAIN s /\ DOMAIN s \subseteq Nat
      BY <3>1, <2>1
    <3>3. OneToOne(Tail(s))
      <4> SUFFICES ASSUME NEW i \in 1 .. Len(s) - 1, NEW j \in 1 .. Len(s) - 1, Tail(s)[i] = Tail(s)[j]
                   PROVE  i = j
        BY <3>2 DEF OneToOne
      <4>1. i + 1 = j + 1
        BY <3>2, <2>1 DEF OneToOne
      <4>2. QED
        BY <4>1
    <3>4. \A d : In(d, Tail(s)) => In(d, s)
      BY <3>2 DEF In
    <3>5. ~In(s[1], Tail(s))
      <4> SUFFICES ASSUME NEW i \in 1 .. Len(s) - 1, Tail(s)[i] = s[1]
                   PROVE  FALSE
        BY <3>2 DEF In
      <4>1. i + 1 = 1
        BY <3>2, <2>1 DEF OneToOne
      <4>2. QED
        BY <4>1
    <3>6. QED
      BY <3>1, <3>2, <3>3, <3>4, <3>5 DEF s
  <2>4. QED
    BY <2>2, <2>3
<1>12. tails \in QType
  BY <1>11 DEF QType
<1>13. /\ tails[RunQ] = queue[RunQ]
       /\ \A m \in Mutexes : m \in wanted \/ tails[m] = queue[m]
  BY <1>1, <1>6 DEF Queues
<1>14. left = AppendBatch(tails, RunQ, heads)
  BY <1>1, <1>6 DEF AppendBatch
<1>15. \A q \in Queues : q # RunQ => left[q] = tails[q]
  OBVIOUS
<1> HIDE DEF tails, left
<1>16. Exclusive(tails)
  BY <1>1, <1>11, <1>12, ShrinkProperties
<1>17. ASSUME NEW d \in Clumps, In(d, heads)
       PROVE  OffQueues(tails, d)
  <2> SUFFICES ASSUME NEW p \in Queues, In(d, tails[p])
               PROVE  FALSE
    BY DEF OffQueues, IsClumpOnQ, In
  <2>1. PICK m \in wanted : d = queue[m][1]
    BY <1>10, <1>17
  <2>2. In(d, queue[m])
    BY <2>1, <1>8 DEF In
  <2>3. m \in Queues /\ In(d, queue[p])
    BY <1>6, <1>11
  <2>4. p = m
    BY <2>2, <2>3, <1>1 DEF In, Exclusive
  <2>5. QED
    BY <2>1, <2>4, <1>11
<1>18. /\ left \in QType /\ Exclusive(left)
       /\ \A p \in Queues, d \in Clumps :
            IsClumpOnQ(left, p, d) <=> IsClumpOnQ(tails, p, d) \/ (p = RunQ /\ In(d, heads))
       /\ left[RunQ] # <<>> /\ Head(left[RunQ]) = Running
  BY <1>1, <1>9, <1>12, <1>13, <1>14, <1>16, <1>17, BatchProperties DEF Running
<1>19. ASSUME NEW q \in Queues
       PROVE  /\ queue'[q] \in Seq(Clumps) /\ OneToOne(queue'[q])
              /\ \A d : In(d, queue'[q]) <=> d # clump /\ In(d, left[q])
              /\ left[q] # <<>> /\ Head(left[q]) # clump =>
                   queue'[q] # <<>> /\ Head(queue'[q]) = Head(left[q])
              /\ left[q] = <<>> => queue'[q] = <<>>
  <2> DEFINE s == left[q]
  <2>1. s \in Seq(Clumps) /\ \A i, j \in DOMAIN s : s[i] = s[j] => i = j
    BY <1>18 DEF QType, Exclusive
  <2>2. queue'[q] = Without(s, clump)
    BY <1>5
  <2> HIDE DEF s
  <2>3. /\ Without(s, clump) \in Seq(Clumps)
        /\ \A i, j \in DOMAIN Without(s, clump) :
             Without(s, clump)[i] = Without(s, clump)[j] => i = j
        /\ \A d : (\E i \in DOMAIN Without(s, clump) : Without(s, clump)[i] = d)
                    <=> d # clump /\ \E i \in DOMAIN s : s[i] = d
        /\ s # <<>> /\ Head(s) # clump =>
             Without(s, clump) # <<>> /\ Head(Without(s, clump)) = Head(s)
        /\ s = <<>> => Without(s, clump) = <<>>
    BY <2>1, WithoutProperties
  <2>4. QED
    BY <2>2, <2>3 DEF s, In, OneToOne
<1>20. queue' \in QType
  BY <1>5, <1>19 DEF QType
<1>21. Exclusive(queue')
  BY <1>18, <1>19, <1>20, ShrinkProperties
<1>22. queue'[RunQ] # <<>> /\ Head(queue'[RunQ]) = Running
  BY <1>1, <1>4, <1>18, <1>19
<1>23. OffQueues(queue', clump)
  BY <1>19 DEF OffQueues, IsClumpOnQ, In
<1>24. ASSUME NEW d \in Clumps, OffQueues(queue, d)
       PROVE  OffQueues(queue', d)
  <2> SUFFICES ASSUME NEW p \in Queues, IsClumpOnQ(queue', p, d)
               PROVE  FALSE
    BY DEF OffQueues
  <2>1. IsClumpOnQ(left, p, d)
    BY <1>19 DEF IsClumpOnQ, In
  <2>2. CASE IsClumpOnQ(tails, p, d)
    BY <2>2, <1>11, <1>24 DEF IsClumpOnQ, In, OffQueues
  <2>3. CASE In(d, heads)
    <3>1. PICK m \in wanted : d = queue[m][1]
      BY <2>3, <1>10
    <3>2. m \in Queues /\ IsClumpOnQ(queue, m, d)
      BY <3>1, <1>6, <1>8 DEF IsClumpOnQ
    <3>3. QED
      BY <3>2, <1>24 DEF OffQueues
  <2>4. QED
    BY <2>1, <2>2, <2>3, <1>18
<1>25. owner' = [m \in Mutexes |-> IF m \in owned THEN NextOwner(m) ELSE owner[m]]
  BY <1>2
<1>26. \A m \in owned : NextOwner(m) = IF m \in wanted THEN queue[m][1] ELSE NOT_A_CLUMP
  BY <1>6, <1>8 DEF NextOwner
<1> HIDE DEF owned
<1>28. owner' \in [Mutexes -> Ids]
  BY <1>8, <1>25, <1>26 DEF IInv, TypeOK, Ids
<1>29. ASSUME NEW d \in Clumps, d # clump
       PROVE  /\ OffQueues(queue', d) <=> OffQueues(queue, d)
              /\ IsClumpOnQ(queue', RestQ, d) <=> IsClumpOnQ(queue, RestQ, d)
  <2>1. RestQ \in Queues /\ RestQ \notin wanted /\ RestQ # RunQ
    BY <1>6, QueueNames DEF Queues
  <2>2. IsClumpOnQ(queue', RestQ, d) <=> IsClumpOnQ(queue, RestQ, d)
    <3>1. left[RestQ] = queue[RestQ]
      BY <2>1, <1>15 DEF tails
    <3>2. In(d, queue'[RestQ]) <=> In(d, queue[RestQ])
      BY <2>1, <3>1, <1>19, <1>29
    <3>3. QED
      BY <3>2 DEF IsClumpOnQ, In
  <2>3. ASSUME NEW p \in Queues, IsClumpOnQ(queue, p, d)
        PROVE  ~OffQueues(queue', d)
    <3>1. CASE p \in wanted /\ d = queue[p][1]
      <4>1. In(d, heads)
        BY <3>1, <1>27
      <4>2. IsClumpOnQ(left, RunQ, d)
        BY <4>1, <1>1, <1>18
      <4>3. IsClumpOnQ(queue', RunQ, d)
        BY <4>2, <1>1, <1>19, <1>29 DEF IsClumpOnQ, In
      <4>4. QED
        BY <4>3, <1>1 DEF OffQueues
    <3>2. CASE p \in wanted /\ d # queue[p][1]
      <4>1. tails[p] = Tail(queue[p]) /\ queue[p] \in Seq(Clumps) /\ queue[p] # <<>>
        BY <3>2, <1>6, <1>8 DEF tails
      <4>2. PICK i \in DOMAIN queue[p] : queue[p][i] = d
        BY <2>3 DEF IsClumpOnQ
      <4>3. i - 1 \in DOMAIN Tail(queue[p]) /\ Tail(queue[p])[i - 1] = d
        BY <3>2, <4>1, <4>2
      <4>4. IsClumpOnQ(left, p, d)
        BY <4>1, <4>3, <1>18 DEF IsClumpOnQ
      <4>5. IsClumpOnQ(queue', p, d)
        BY <4>4, <1>19, <1>29 DEF IsClumpOnQ, In
      <4>6. QED
        BY <4>5 DEF OffQueues
    <3>3. CASE p \notin wanted
      <4>1. tails[p] = queue[p]
        BY <3>3 DEF tails
      <4>2. IsClumpOnQ(left, p, d)
        BY <2>3, <4>1, <1>18 DEF IsClumpOnQ
      <4>3. IsClumpOnQ(queue', p, d)
        BY <4>2, <1>19, <1>29 DEF IsClumpOnQ, In
      <4>4. QED
        BY <4>3 DEF OffQueues
    <3>4. QED
      BY <3>1, <3>2, <3>3
  <2>4. QED
    BY <2>2, <2>3, <1>24 DEF OffQueues
<1>30. WaitersHaveOwner'
  <2> SUFFICES ASSUME NEW m \in Mutexes, queue'[m] # <<>>
               PROVE  owner'[m] # NOT_A_CLUMP
    BY DEF WaitersHaveOwner
  <2>1. m \in Queues /\ m # RunQ
    BY QueueNames DEF Queues
  <2>2. CASE m \in wanted
    <3>1. m \in owned /\ queue[m][1] \in Clumps
      BY <2>2, <1>6, <1>8
    <3>2. owner'[m] = queue[m][1]
      BY <3>1, <2>2, <1>25, <1>26
    <3>3. QED
      BY <3>1, <3>2, ClumpIds
  <2>3. CASE m \notin wanted
    <3>1. left[m] = queue[m] /\ queue[m] # <<>>
      BY <2>1, <2>3, <1>13, <1>15, <1>19
    <3>2. m \notin owned
      BY <3>1, <2>3, <1>6
    <3>3. QED
      BY <3>1, <3>2, <1>25 DEF IInv, WaitersHaveOwner
  <2>4. QED
    BY <2>2, <2>3
<1>31. ASSUME NEW m \in Mutexes
       PROVE  /\ \A d \in Clumps : IsClumpOnQ(queue', m, d) => IsClumpOnQ(queue, m, d)
              /\ owner[m] # clump => owner'[m] = owner[m]
              /\ owner[m] = clump /\ queue[m] = <<>> => owner'[m] = NOT_A_CLUMP
              /\ owner[m] = clump /\ queue[m] # <<>> =>
                   /\ owner'[m] \in Clumps
                   /\ IsClumpOnQ(queue, m, owner'[m])
                   /\ ~IsClumpOnQ(queue', m, owner'[m])
  <2>1. m \in Queues /\ m # RunQ
    BY QueueNames DEF Queues
  <2>2. m \in owned <=> owner[m] = clump
    BY DEF owned, OwnedBy
  <2>3. left[m] = tails[m]
    BY <2>1, <1>15
  <2>4. ASSUME NEW d \in Clumps, IsClumpOnQ(queue', m, d)
        PROVE  IsClumpOnQ(queue, m, d)
    <3>1. In(d, queue'[m])
      BY <2>4 DEF IsClumpOnQ, In
    <3>2. In(d, left[m])
      BY <3>1, <2>1, <1>19
    <3>3. In(d, queue[m])
      BY <3>2, <2>1, <2>3, <1>11
    <3>4. QED
      BY <3>3 DEF IsClumpOnQ, In
  <2>5. CASE m \in wanted
    <3>1. owner'[m] = queue[m][1] /\ owner[m] = clump /\ queue[m] # <<>>
      BY <2>2, <2>5, <1>6, <1>25, <1>26
    <3>2. IsClumpOnQ(queue, m, queue[m][1]) /\ queue[m][1] \in Clumps
      BY <2>5, <1>8 DEF IsClumpOnQ
    <3>3. ~IsClumpOnQ(queue', m, queue[m][1])
      <4>1. ~In(queue[m][1], tails[m])
        BY <2>1, <2>5, <1>11
      <4>2. ~In(queue[m][1], queue'[m])
        BY <4>1, <2>1, <2>3, <1>19
      <4>3. QED
        BY <4>2 DEF IsClumpOnQ, In
    <3>4. QED
      BY <2>4, <3>1, <3>2, <3>3
  <2>6. CASE m \notin wanted /\ m \in owned
    BY <2>2, <2>4, <2>6, <1>6, <1>25, <1>26
  <2>7. CASE m \notin owned
    BY <2>2, <2>4, <2>7, <1>25
  <2>8. QED
    BY <1>6, <2>5, <2>6, <2>7
<1>32. /\ atStart' = [atStart EXCEPT ![clump] = TRUE]
       /\ CurrFireCount' = [CurrFireCount EXCEPT ![clump] = InitFireCount[clump]]
       /\ awakenTime' = [awakenTime EXCEPT ![clump] = 0]
  BY <1>2
<1>33. Stopped(c, clump)
  BY <1>4, <1>20, <1>21, <1>22, <1>23, <1>28, <1>29, <1>30, <1>31, <1>32 DEF Stopped
<1>34. QED
  BY <1>33

\* STOPCLUMP hands the mutexes on, and takes only the stopped clump away.
LEMMA StopClumpStep ==
  ASSUME WellFormed, IInv, NEW c \in Stoppable, StopClump(c)
  PROVE  IInv'
<1>1. /\ Running \in Clumps /\ active = Running
      /\ UNCHANGED <<returnTo, CalledClump, Tick, active, inPass, ProgStatus, inCall>>
  BY RunningProperties DEF StopClump
<1>2. PICK clump \in Clumps : Stopped(c, clump)
  BY StopClumpEffect
<1>3. /\ atStart' \in [Clumps -> BOOLEAN] /\ CurrFireCount' \in [Clumps -> 0 .. 255]
      /\ awakenTime' \in [Clumps -> Nat] /\ owner' \in [Mutexes -> Ids]
      /\ \A d \in Clumps : d # clump => CurrFireCount'[d] = CurrFireCount[d]
  <2>1. InitFireCount[clump] \in 0 .. 255
    BY SchedulerConstants
  <2>2. QED
    BY <1>2, <2>1 DEF Stopped, IInv, TypeOK
<1>4. /\ \A d \in Clumps : OffQueues(queue, d) => OffQueues(queue', d)
      /\ OffQueues(queue', clump)
  BY <1>2 DEF Stopped
<1>5. TypeOK'
  BY <1>1, <1>2, <1>3 DEF Stopped, IInv, TypeOK, QType
<1>6. QueueExclusive' /\ ActiveIsHead' /\ WaitersHaveOwner'
  BY <1>1, <1>2 DEF Stopped, QueueExclusive, ActiveIsHead, Running
<1>7. CallsConsistent' /\ LiveSubroutines'
  BY <1>1, <1>4, CallsFrame DEF IInv
<1>8. FiredCounted'
  <2> SUFFICES ASSUME NEW d \in Fired, Live(d)'
               PROVE  CurrFireCount'[d] = 0
    BY DEF FiredCounted
  <2>1. d \in Clumps /\ d \notin Callable
    BY SchedulerConstants DEF Fired, Range_, WellFormed
  <2>2. Live(d)
    BY <2>1, <1>1, <1>4 DEF Live
  <2>3. d # clump
    <3> SUFFICES ASSUME d = clump PROVE FALSE
      OBVIOUS
    <3>1. inCall[clump] # NOT_A_CLUMP /\ clump = c
      BY <2>1, <1>1, <1>2, <1>4 DEF Live, Stopped
    <3>2. QED
      BY <3>1, <1>2 DEF Stopped, WellFormed, IInv, CallsConsistent
  <2>4. QED
    BY <2>1, <2>2, <2>3, <1>3 DEF IInv, FiredCounted
<1>9. QED
  BY <1>5, <1>6, <1>7, <1>8 DEF IInv

-----------------------------------------------------------------------------
(***************************************************************************)
(* The theorems.                                                           *)
(***************************************************************************)
LEMMA StutterStep ==
  ASSUME IInv, UNCHANGED vars
  PROVE  IInv'
<1>1. TypeOK' /\ QueueExclusive' /\ WaitersHaveOwner' /\ ActiveIsHead'
  BY DEF IInv, vars, clumpRecs, TypeOK, QueueExclusive, WaitersHaveOwner, ActiveIsHead, Running
<1>2. CallsConsistent' /\ LiveSubroutines' /\ FiredCounted'
  BY CallsFrame, FiredFrame DEF IInv, vars, clumpRecs
<1>3. QED
  BY <1>1, <1>2 DEF IInv

\* Every step of the scheduler keeps the invariant.
LEMMA NextStep ==
  ASSUME WellFormed, IInv, [Next]_vars
  PROVE  IInv'
<1>1. CASE \E t \in Tick .. MaxTick : Pass(t)
  BY <1>1, PassStep
<1>2. CASE Enter
  BY <1>2, EnterStep
<1>3. CASE EnterEmpty
  BY <1>3, EnterEmptyStep
<1>4. CASE \E status \in {"ROTATE_QUEUE", "TIMES_UP"} : Preempt(status)
  BY <1>4, PreemptStep
<1>5. CASE Executing /\ Instruction
  <2>1. CASE \E m \in Mutexes : Acquire(m) \/ Release(m)
    BY <2>1, AcquireStep, ReleaseStep
  <2>2. CASE \E c \in Callable : SubCall(c)
    BY <2>2, SubCallStep
  <2>3. CASE SubRet
    BY <2>3, SubRetStep
  <2>4. CASE \E begin \in 1 .. Len(Dependents[Running]) + 1 :
               \E end \in begin - 1 .. Len(Dependents[Running]) : FinClump(begin, end)
    BY <2>4, FinClumpStep
  <2>5. CASE \E time \in 0 .. MaxSleep : Wait(time)
    BY <2>5, WaitStep
  <2>6. CASE \E c \in Stoppable : StopClump(c)
    BY <2>6, StopClumpStep
  <2>7. CASE \E c \in Startable : StartClump(c)
    BY <2>7, StartClumpStep
  <2>8. CASE \E status \in {"STOP_REQ", "ERROR"} : EndProgram(status)
    BY <2>8, EndProgramStep
  <2>9. QED
    BY <1>5, <2>1, <2>2, <2>3, <2>4, <2>5, <2>6, <2>7, <2>8 DEF Instruction
<1>6. CASE Activate
  BY <1>6, ActivateStep
<1>7. CASE UNCHANGED vars
  BY <1>7, StutterStep
<1>8. QED
  BY <1>1, <1>2, <1>3, <1>4, <1>5, <1>6, <1>7 DEF Next

\* The invariant of the scheduler, in every well-formed program.
THEOREM Invariance == ASSUME WellFormed PROVE Spec => []IInv
<1>1. Init => IInv
  BY InitIInv
<1>2. IInv /\ [Next]_vars => IInv'
  BY NextStep
<1>3. QED
  BY <1>1, <1>2, PTL DEF Spec

\* Every variable keeps its type, and cCmdInterpFromClump runs only within a
\* pass of a running program.
THEOREM TypeCorrect == ASSUME WellFormed PROVE Spec => []TypeOK
<1>1. IInv => TypeOK
  BY DEF IInv
<1>2. QED
  BY <1>1, Invariance, PTL

\* The single Link field of CLUMP_REC is enough: no clump is ever wanted on
\* two queues, or twice on one.
THEOREM Exclusion == ASSUME WellFormed PROVE Spec => []QueueExclusive
<1>1. IInv => QueueExclusive
  BY DEF IInv
<1>2. QED
  BY <1>1, Invariance, PTL

\* The assertion of cCmdAcquireMutex holds: no clump waits for a free mutex.
THEOREM NoLostWaiter == ASSUME WellFormed PROVE Spec => []WaitersHaveOwner
<1>1. IInv => WaitersHaveOwner
  BY DEF IInv
<1>2. QED
  BY <1>1, Invariance, PTL

\* A clump that waits in a call is on no queue, as cCmdStopClump relies on.
THEOREM SuspendedCallers == ASSUME WellFormed PROVE Spec => []CallersOffQueues
<1>1. IInv => CallersOffQueues
  BY IInvImplies
<1>2. QED
  BY <1>1, Invariance, PTL

\* SUBRET finds the ID of the clump that made the call, which still waits for
\* this very return, however many clumps call the subroutine in turn.
THEOREM CallReturn == ASSUME WellFormed PROVE Spec => []SubroutineReturnsToCaller
<1>1. IInv => SubroutineReturnsToCaller
  BY IInvImplies
<1>2. QED
  BY <1>1, Invariance, PTL

-----------------------------------------------------------------------------
(***************************************************************************)
(* Programs that keep, besides WellFormed, the compilers' discipline with  *)
(* mutexes.  Disciplined: they acquire no mutex that they own and end no   *)
(* clump that owns one; then a clump that has come to its end, in          *)
(* whichever way, leaves nothing behind.  Ordered: they acquire mutexes in *)
(* their order; then nobody is left waiting for one when the program ends. *)
(***************************************************************************)

\* The program acquires no mutex that it owns, and ends no clump that owns one.
Disciplined == {"endHolding", "reacquire"} \cap Liberties = {}

-----------------------------------------------------------------------------
(***************************************************************************)
(* The inductive invariant, on top of IInv.                                *)
(***************************************************************************)

\* c begins at its first instruction and owns nothing.
Over(c) == atStart[c] /\ \A m \in Mutexes : owner[m] # c

DeadAreOver == \A c \in Clumps : ~Live(c) => Over(c)

SleepersRest == \A c \in Clumps : awakenTime[c] # 0 => IsClumpOnQ(queue, RestQ, c)

\* Nobody waits for the mutex he owns: else STOPCLUMP, which hands a mutex to
\* the first waiter, could hand it to the stopped clump.
OwnersDoNotWait == \A m \in Mutexes, c \in Clumps : owner[m] = c => ~IsClumpOnQ(queue, m, c)

RInv == DeadAreOver /\ SleepersRest /\ OwnersDoNotWait

\* The invariants contain what is claimed of idle clumps.
LEMMA RInvImplies ==
  ASSUME IInv, RInv
  PROVE  IdleIsOver
<1> SUFFICES ASSUME NEW c \in Clumps, Idle(c)
             PROVE  /\ atStart[c] /\ awakenTime[c] = 0
                    /\ \A m \in Mutexes : owner[m] # c
  BY DEF IdleIsOver
<1>1. ~Live(c)
  BY DEF Idle, Live
<1>2. ~IsClumpOnQ(queue, RestQ, c)
  BY DEF Idle, OffQueues, Queues
<1>3. QED
  BY <1>1, <1>2 DEF RInv, DeadAreOver, SleepersRest, Over

\* A step in which nobody comes to own a mutex, and a clump that ends is over.
LEMMA Frame ==
  ASSUME RInv,
         \A d \in Clumps : ~Live(d)' => \/ ~Live(d) /\ atStart'[d] = atStart[d]
                                        \/ Over(d)',
         UNCHANGED owner,
         \A m \in Mutexes, d \in Clumps :
           IsClumpOnQ(queue', m, d) => IsClumpOnQ(queue, m, d) \/ owner[m] # d,
         \A d \in Clumps : awakenTime'[d] # 0 => IsClumpOnQ(queue', RestQ, d)
  PROVE  RInv'
<1>1. DeadAreOver'
  BY DEF RInv, DeadAreOver, Over
<1>2. SleepersRest'
  BY DEF SleepersRest
<1>3. OwnersDoNotWait'
  BY DEF RInv, OwnersDoNotWait
<1>4. QED
  BY <1>1, <1>2, <1>3 DEF RInv

-----------------------------------------------------------------------------
(***************************************************************************)
(* The beginning of a program, and cCmdCtrl.                               *)
(***************************************************************************)

\* What holds of a program that has just been loaded.
LEMMA InitRInv ==
  ASSUME Init
  PROVE  RInv
<1>1. \A m \in Mutexes, c \in Clumps : owner[m] # c
  BY ClumpIds DEF Init
<1>2. DeadAreOver /\ OwnersDoNotWait
  BY <1>1 DEF Init, DeadAreOver, Over, OwnersDoNotWait
<1>3. SleepersRest
  BY DEF Init, SleepersRest
<1>4. QED
  BY <1>2, <1>3 DEF RInv

\* It holds of the next program as well.
LEMMA ActivateRestart ==
  ASSUME Activate
  PROVE  RInv'
<1>1. \A m \in Mutexes, c \in Clumps : owner'[m] # c
  BY ClumpIds DEF Activate
<1>2. \A c \in Clumps : atStart'[c] = TRUE /\ awakenTime'[c] = 0
  BY DEF Activate
<1>3. DeadAreOver' /\ OwnersDoNotWait' /\ SleepersRest'
  BY <1>1, <1>2 DEF DeadAreOver, Over, OwnersDoNotWait, SleepersRest
<1>4. QED
  BY <1>3 DEF RInv

\* Clumps that wake are still scheduled.
LEMMA PassRestart ==
  ASSUME IInv, RInv, NEW t \in Tick .. MaxTick, Pass(t)
  PROVE  RInv'
<1>1. /\ \A d \in Clumps : OffQueues(queue', d) <=> OffQueues(queue, d)
      /\ \A m \in Mutexes : queue'[m] = queue[m]
      /\ \A d \in Clumps : IsClumpOnQ(queue, RestQ, d) /\ awakenTime'[d] # 0 =>
                             IsClumpOnQ(queue', RestQ, d)
      /\ \A d \in Clumps : awakenTime'[d] # 0 => awakenTime[d] # 0
  BY PassStep
<1>2. UNCHANGED <<owner, atStart, inCall>>
  BY DEF Pass
<1>3. \A d \in Clumps : ~Live(d)' => ~Live(d) /\ atStart'[d] = atStart[d]
  BY <1>1, <1>2 DEF Live
<1>4. \A m \in Mutexes, d \in Clumps : IsClumpOnQ(queue', m, d) => IsClumpOnQ(queue, m, d)
  BY <1>1 DEF IsClumpOnQ
<1>5. \A d \in Clumps : awakenTime'[d] # 0 => IsClumpOnQ(queue', RestQ, d)
  BY <1>1 DEF RInv, SleepersRest
<1>6. QED
  BY <1>2, <1>3, <1>4, <1>5, Frame

\* A return from the interpreter that ends no clump: those that Q holds are
\* those that were scheduled, and the caller of SUBCALL.
LEMMA ReturnRestart ==
  ASSUME IInv, RInv, ProgStatus = "PROG_RUNNING", NEW status \in Statuses,
         NEW Q \in QType, Exclusive(Q), Return(Q, status), UNCHANGED owner,
         \A d \in Clumps : OffQueues(Q, d) /\ inCall'[d] = NOT_A_CLUMP =>
                             OffQueues(queue, d) /\ inCall[d] = NOT_A_CLUMP,
         (SavePC /\ active \in Clumps /\ ~OffQueues(queue, active)) \/ UNCHANGED atStart,
         \A m \in Mutexes, d \in Clumps :
           IsClumpOnQ(Q, m, d) => IsClumpOnQ(queue, m, d) \/ owner[m] # d,
         \A d \in Clumps : awakenTime'[d] # 0 => IsClumpOnQ(Q, RestQ, d)
  PROVE  RInv'
<1>1. /\ \A p \in Queues, d \in Clumps : IsClumpOnQ(queue', p, d) <=> IsClumpOnQ(Q, p, d)
      /\ \A d \in Clumps : OffQueues(queue', d) <=> OffQueues(Q, d)
  BY ReturnProperties
<1>2. ASSUME NEW d \in Clumps, ~Live(d)'
      PROVE  ~Live(d) /\ atStart'[d] = atStart[d]
  <2>1. OffQueues(queue, d) /\ inCall[d] = NOT_A_CLUMP
    BY <1>1, <1>2 DEF Live
  <2>2. (SavePC /\ active # d) \/ UNCHANGED atStart
    BY <2>1
  <2>3. atStart'[d] = atStart[d]
    BY <2>2 DEF SavePC, IInv, TypeOK
  <2>4. QED
    BY <2>1, <2>3 DEF Live
<1>3. RestQ \in Queues /\ Mutexes \subseteq Queues
  BY DEF Queues
<1>4. QED
  BY <1>1, <1>2, <1>3, Frame

\* The run queue is empty: the pass ends.
LEMMA EnterEmptyRestart ==
  ASSUME IInv, RInv, EnterEmpty
  PROVE  RInv'
<1>1. /\ ProgStatus = "PROG_RUNNING" /\ queue \in QType /\ Exclusive(queue)
      /\ Return(queue, "TIMES_UP") /\ "TIMES_UP" \in Statuses
      /\ UNCHANGED <<owner, atStart, awakenTime, inCall>>
  BY DEF IInv, TypeOK, EnterEmpty, QType, QueueExclusive, Statuses, clumpRecs
<1>2. \A d \in Clumps : awakenTime'[d] # 0 => IsClumpOnQ(queue, RestQ, d)
  BY <1>1 DEF RInv, SleepersRest
<1>3. QED
  BY <1>1, <1>2, ReturnRestart

\* A clump that has used up its turn stays on the run queue.
LEMMA PreemptRestart ==
  ASSUME IInv, RInv, NEW status \in {"ROTATE_QUEUE", "TIMES_UP"}, Preempt(status)
  PROVE  RInv'
<1>1. /\ ProgStatus = "PROG_RUNNING" /\ queue \in QType /\ Exclusive(queue)
      /\ Return(queue, status) /\ status \in Statuses
      /\ UNCHANGED <<owner, awakenTime, inCall>> /\ SavePC
  BY DEF IInv, TypeOK, Preempt, QType, QueueExclusive, Statuses
<1>2. active \in Clumps /\ ~OffQueues(queue, active)
  <2>1. Executing
    BY DEF Preempt, IInv, ActiveIsHead, Executing
  <2>2. QED
    BY <2>1, RunningProperties DEF OffQueues, Queues
<1>3. \A d \in Clumps : awakenTime'[d] # 0 => IsClumpOnQ(queue, RestQ, d)
  BY <1>1 DEF RInv, SleepersRest
<1>4. QED
  BY <1>1, <1>2, <1>3, ReturnRestart

\* The program ends as it is.
LEMMA EndProgramRestart ==
  ASSUME IInv, RInv, NEW status \in {"STOP_REQ", "ERROR"}, EndProgram(status)
  PROVE  RInv'
<1>1. /\ ProgStatus = "PROG_RUNNING" /\ queue \in QType /\ Exclusive(queue)
      /\ Return(queue, status) /\ status \in Statuses
      /\ UNCHANGED <<owner, atStart, awakenTime, inCall>>
  BY RunningProperties
     DEF IInv, TypeOK, EndProgram, QType, QueueExclusive, Statuses, clumpRecs
<1>2. \A d \in Clumps : awakenTime'[d] # 0 => IsClumpOnQ(queue, RestQ, d)
  BY <1>1 DEF RInv, SleepersRest
<1>3. QED
  BY <1>1, <1>2, ReturnRestart

-----------------------------------------------------------------------------
(***************************************************************************)
(* The instructions.                                                       *)
(***************************************************************************)

\* The clump that executes is awake, so that no wake-up time is left in it.
LEMMA RunningIsAwake ==
  ASSUME IInv, RInv, Executing
  PROVE  /\ active = Running /\ Running \in Clumps /\ ~OffQueues(queue, Running)
         /\ ProgStatus = "PROG_RUNNING" /\ queue \in QType /\ Exclusive(queue)
         /\ RunQ \in Queues /\ RestQ \in Queues /\ Mutexes \subseteq Queues
         /\ RestQ # RunQ /\ RunQ \notin Mutexes /\ RestQ \notin Mutexes
         /\ \A p \in Queues : p # RunQ => ~IsClumpOnQ(queue, p, Running)
         /\ awakenTime[Running] = 0
         /\ inCall[Running] = NOT_A_CLUMP
<1>1. /\ active = Running /\ Running \in Clumps /\ ProgStatus = "PROG_RUNNING"
      /\ inCall[Running] = NOT_A_CLUMP /\ IsClumpOnQ(queue, RunQ, Running)
  BY RunningProperties
<1>2. /\ RunQ \in Queues /\ RestQ \in Queues /\ Mutexes \subseteq Queues
      /\ RestQ # RunQ /\ RunQ \notin Mutexes /\ RestQ \notin Mutexes
      /\ queue \in QType /\ Exclusive(queue)
  BY QueueNames DEF Queues, IInv, TypeOK, QType, QueueExclusive
<1>3. \A p \in Queues : p # RunQ => ~IsClumpOnQ(queue, p, Running)
  BY <1>1, <1>2 DEF IsClumpOnQ, Exclusive
<1>4. ~OffQueues(queue, Running)
  BY <1>1, <1>2 DEF OffQueues
<1>5. awakenTime[Running] = 0
  BY <1>1, <1>2, <1>3 DEF RInv, SleepersRest
<1>6. QED
  BY <1>1, <1>2, <1>3, <1>4, <1>5

\* WAIT gives a wake-up time to the clump it puts on RestQ.
LEMMA WaitRestart ==
  ASSUME IInv, RInv, NEW time \in Nat, Wait(time)
  PROVE  RInv'
<1>1. /\ Executing /\ SavePC
      /\ UNCHANGED <<owner, inCall>>
  BY DEF Wait
<1>2. CASE time = 0
  <2>1. Return(queue, "ROTATE_QUEUE") /\ UNCHANGED awakenTime /\ "ROTATE_QUEUE" \in Statuses
    BY <1>2 DEF Wait, Statuses
  <2>2. \A d \in Clumps : awakenTime'[d] # 0 => IsClumpOnQ(queue, RestQ, d)
    BY <2>1 DEF RInv, SleepersRest
  <2>3. QED
    BY <1>1, <2>1, <2>2, RunningIsAwake, ReturnRestart
<1>3. CASE time > 0
  <2> DEFINE Q == EnQClump(DeQClump(queue, RunQ, Running), RestQ, Running)
  <2>1. /\ Return(Q, "CLUMP_SUSPEND") /\ "CLUMP_SUSPEND" \in Statuses
        /\ awakenTime' = [awakenTime EXCEPT ![Running] = time + Tick]
    BY <1>3 DEF Wait, Statuses
  <2>2. Running \in Clumps /\ RestQ \in Queues /\ RestQ # RunQ
    BY <1>1, RunningIsAwake
  <2>3. /\ Q \in QType /\ Exclusive(Q)
        /\ \A d \in Clumps : OffQueues(Q, d) => d # Running /\ (OffQueues(queue, d) \/ d = Running)
        /\ \A p \in Queues, d \in Clumps : p # RunQ =>
             (IsClumpOnQ(Q, p, d) <=> IsClumpOnQ(queue, p, d) \/ (p = RestQ /\ d = Running))
    BY <1>1, <2>2, Handover
  <2> HIDE DEF Q
  <2>4. \A m \in Mutexes, d \in Clumps : IsClumpOnQ(Q, m, d) => IsClumpOnQ(queue, m, d)
    BY <1>1, <2>3, RunningIsAwake
  <2>5. \A d \in Clumps : awakenTime'[d] # 0 => IsClumpOnQ(Q, RestQ, d)
    <3>1. \A d \in Clumps : d # Running => awakenTime'[d] = awakenTime[d]
      BY <2>1 DEF IInv, TypeOK
    <3>2. QED
      BY <3>1, <2>2, <2>3 DEF RInv, SleepersRest
  <2>6. \A d \in Clumps : OffQueues(Q, d) => OffQueues(queue, d)
    BY <2>3
  <2>7. QED
    BY <1>1, <2>1, <2>3, <2>4, <2>5, <2>6, RunningIsAwake, ReturnRestart
<1>4. QED
  BY <1>2, <1>3 DEF Wait

\* ACQUIRE: the new owner runs; one that queues is not the owner.
LEMMA AcquireRestart ==
  ASSUME Disciplined, IInv, RInv, NEW m \in Mutexes, Acquire(m)
  PROVE  RInv'
<1>1. /\ Executing /\ MayAcquire(m) /\ UNCHANGED inCall
  BY DEF Acquire
<1>2. CASE owner[m] = NOT_A_CLUMP /\ owner' = [owner EXCEPT ![m] = Running]
           /\ UNCHANGED <<queue, clumpRecs>>
  <2>1. \A l \in Mutexes : owner'[l] = owner[l] \/ (l = m /\ owner'[l] = Running)
    BY <1>2 DEF IInv, TypeOK
  <2>2. \A d \in Clumps : Live(d)' <=> Live(d)
    BY <1>1, <1>2 DEF Live
  <2>3. Live(Running)
    BY <1>1, RunningIsAwake DEF Live
  <2>4. DeadAreOver'
    BY <1>2, <2>1, <2>2, <2>3 DEF RInv, DeadAreOver, Over, clumpRecs
  <2>5. SleepersRest'
    BY <1>2 DEF RInv, SleepersRest, clumpRecs
  <2>6. OwnersDoNotWait'
    <3>1. ~IsClumpOnQ(queue, m, Running)
      BY <1>1, RunningIsAwake
    <3>2. QED
      BY <1>2, <2>1, <3>1 DEF RInv, OwnersDoNotWait
  <2>7. QED
    BY <2>4, <2>5, <2>6 DEF RInv
<1>3. CASE owner[m] # NOT_A_CLUMP
  <2> DEFINE Q == EnQClump(DeQClump(queue, RunQ, Running), m, Running)
  <2>1. /\ Return(Q, "CLUMP_SUSPEND") /\ "CLUMP_SUSPEND" \in Statuses
        /\ SavePC /\ UNCHANGED <<owner, awakenTime>>
    BY <1>3 DEF Acquire, Statuses
  <2>2. Running \in Clumps /\ m \in Queues /\ m # RunQ /\ m # RestQ
    BY <1>1, RunningIsAwake
  <2>3. /\ Q \in QType /\ Exclusive(Q)
        /\ \A d \in Clumps : OffQueues(Q, d) => d # Running /\ (OffQueues(queue, d) \/ d = Running)
        /\ \A p \in Queues, d \in Clumps : p # RunQ =>
             (IsClumpOnQ(Q, p, d) <=> IsClumpOnQ(queue, p, d) \/ (p = m /\ d = Running))
    BY <1>1, <2>2, Handover
  <2> HIDE DEF Q
  <2>4. owner[m] # Running
    BY <1>1 DEF MayAcquire, Disciplined
  <2>5. \A l \in Mutexes, d \in Clumps :
          IsClumpOnQ(Q, l, d) => IsClumpOnQ(queue, l, d) \/ owner[l] # d
    BY <1>1, <2>3, <2>4, RunningIsAwake
  <2>6. \A d \in Clumps : awakenTime'[d] # 0 => IsClumpOnQ(Q, RestQ, d)
    <3>1. RestQ \in Queues /\ RestQ # RunQ
      BY <1>1, RunningIsAwake
    <3>2. QED
      BY <2>1, <2>3, <3>1 DEF RInv, SleepersRest
  <2>7. \A d \in Clumps : OffQueues(Q, d) => OffQueues(queue, d)
    BY <2>3
  <2>8. QED
    BY <1>1, <2>1, <2>3, <2>5, <2>6, <2>7, RunningIsAwake, ReturnRestart
<1>4. QED
  BY <1>2, <1>3 DEF Acquire

\* RELEASE: the next owner has left the mutex's queue and can run.
LEMMA ReleaseRestart ==
  ASSUME IInv, RInv, NEW m \in Mutexes, Release(m)
  PROVE  RInv'
<1>1. /\ Executing /\ UNCHANGED <<clumpRecs, inCall>>
      /\ owner' = [owner EXCEPT ![m] = NextOwner(m)]
  BY DEF Release, ReleaseMutex
<1>2. \A l \in Mutexes : l # m => owner'[l] = owner[l]
  BY <1>1 DEF IInv, TypeOK
<1>3. owner'[m] = NextOwner(m)
  BY <1>1 DEF IInv, TypeOK
<1>4. CASE queue[m] = <<>>
  <2>1. queue' = queue /\ owner'[m] = NOT_A_CLUMP
    BY <1>3, <1>4 DEF Release, ReleaseMutex, NextOwner
  <2>2. \A l \in Mutexes, d \in Clumps : owner'[l] = d => owner[l] = d
    BY <1>2, <2>1, ClumpIds
  <2>3. DeadAreOver'
    BY <1>1, <2>1, <2>2 DEF RInv, DeadAreOver, Over, Live, clumpRecs
  <2>4. SleepersRest' /\ OwnersDoNotWait'
    BY <1>1, <2>1, <2>2 DEF RInv, SleepersRest, OwnersDoNotWait, clumpRecs
  <2>5. QED
    BY <2>3, <2>4 DEF RInv
<1>5. CASE queue[m] # <<>>
  <2> DEFINE h == Head(queue[m])
             D == DeQClump(queue, m, h)
  <2>1. queue' = EnQClump(D, RunQ, h) /\ owner'[m] = h
    BY <1>3, <1>5 DEF Release, ReleaseMutex, NextOwner
  <2>2. /\ queue \in QType /\ Exclusive(queue) /\ m \in Queues /\ m # RunQ /\ m # RestQ
        /\ RunQ \in Queues /\ RestQ \in Queues /\ RestQ # RunQ
        /\ Mutexes \subseteq Queues /\ RunQ \notin Mutexes
    BY <1>1, RunningIsAwake
  <2>3. h \in Clumps /\ IsClumpOnQ(queue, m, h)
    <3>1. queue[m] \in Seq(Clumps)
      BY <2>2 DEF QType
    <3>2. 1 \in DOMAIN queue[m] /\ h = queue[m][1] /\ h \in Clumps
      BY <3>1, <1>5
    <3>3. QED
      BY <3>2 DEF IsClumpOnQ
  <2> HIDE DEF h
  <2>4. /\ D \in QType /\ Exclusive(D) /\ OffQueues(D, h)
        /\ \A p \in Queues, d \in Clumps :
             IsClumpOnQ(D, p, d) <=> IsClumpOnQ(queue, p, d) /\ ~(p = m /\ d = h)
    BY <2>2, <2>3, DeQProperties
  <2> HIDE DEF D
  <2>5. \A p \in Queues, d \in Clumps :
          IsClumpOnQ(queue', p, d) <=> IsClumpOnQ(D, p, d) \/ (p = RunQ /\ d = h)
    BY <2>1, <2>2, <2>3, <2>4, EnQProperties
  <2>6. \A p \in Queues, d \in Clumps :
          IsClumpOnQ(queue', p, d) <=>
            (IsClumpOnQ(queue, p, d) /\ ~(p = m /\ d = h)) \/ (p = RunQ /\ d = h)
    BY <2>4, <2>5
  <2>7. \A d \in Clumps : OffQueues(queue', d) => OffQueues(queue, d) /\ d # h
    BY <2>2, <2>6 DEF OffQueues
  <2>8. DeadAreOver'
    <3> SUFFICES ASSUME NEW d \in Clumps, ~Live(d)' PROVE Over(d)'
      BY DEF DeadAreOver
    <3>1. ~Live(d) /\ d # h
      BY <1>1, <2>7 DEF Live
    <3>2. Over(d)
      BY <3>1 DEF RInv, DeadAreOver
    <3>3. QED
      BY <1>1, <1>2, <2>1, <3>1, <3>2 DEF Over, clumpRecs
  <2>9. SleepersRest'
    BY <1>1, <2>2, <2>6 DEF RInv, SleepersRest, clumpRecs
  <2>10. OwnersDoNotWait'
    <3> SUFFICES ASSUME NEW l \in Mutexes, NEW d \in Clumps, owner'[l] = d
                 PROVE  ~IsClumpOnQ(queue', l, d)
      BY DEF OwnersDoNotWait
    <3>1. l \in Queues /\ l # RunQ
      BY <2>2
    <3>2. CASE l = m
      BY <2>1, <2>6, <3>1, <3>2
    <3>3. CASE l # m
      BY <1>2, <2>6, <3>1, <3>3 DEF RInv, OwnersDoNotWait
    <3>4. QED
      BY <3>2, <3>3
  <2>11. QED
    BY <2>8, <2>9, <2>10 DEF RInv
<1>6. QED
  BY <1>4, <1>5

\* SUBCALL: the caller is in a call, the subroutine on the run queue.
LEMMA SubCallRestart ==
  ASSUME IInv, RInv, NEW c \in Callable, SubCall(c)
  PROVE  RInv'
<1> DEFINE Q == EnQClump(DeQClump(queue, RunQ, Running), RunQ, c)
<1>1. /\ Executing /\ SavePC /\ OffQueues(queue, c) /\ c \in Clumps
      /\ Return(Q, "CLUMP_SUSPEND") /\ "CLUMP_SUSPEND" \in Statuses
      /\ inCall' = [inCall EXCEPT ![Running] = c]
      /\ UNCHANGED <<owner, awakenTime>>
  BY SchedulerConstants DEF SubCall, Statuses
<1>2. /\ Running \in Clumps /\ RunQ \in Queues /\ RestQ \in Queues /\ RestQ # RunQ
      /\ Mutexes \subseteq Queues /\ RunQ \notin Mutexes
      /\ inCall[Running] = NOT_A_CLUMP /\ ProgStatus = "PROG_RUNNING"
      /\ active \in Clumps /\ ~OffQueues(queue, active)
  BY <1>1, RunningIsAwake
<1>3. /\ Q \in QType /\ Exclusive(Q)
      /\ \A d \in Clumps : OffQueues(Q, d) => OffQueues(queue, d) \/ d = Running
      /\ \A p \in Queues, d \in Clumps : p # RunQ =>
           (IsClumpOnQ(Q, p, d) <=> IsClumpOnQ(queue, p, d) \/ (p = RunQ /\ d = c))
  BY <1>1, <1>2, Handover
<1> HIDE DEF Q
<1>4. /\ inCall'[Running] # NOT_A_CLUMP
      /\ \A d \in Clumps : d # Running => inCall'[d] = inCall[d]
  BY <1>1, <1>2, ClumpIds DEF IInv, TypeOK
<1>5. \A d \in Clumps : OffQueues(Q, d) /\ inCall'[d] = NOT_A_CLUMP =>
                            OffQueues(queue, d) /\ inCall[d] = NOT_A_CLUMP
  BY <1>3, <1>4
<1>6. \A m \in Mutexes, d \in Clumps : IsClumpOnQ(Q, m, d) => IsClumpOnQ(queue, m, d)
  BY <1>2, <1>3
<1>7. \A d \in Clumps : awakenTime'[d] # 0 => IsClumpOnQ(Q, RestQ, d)
  BY <1>1, <1>2, <1>3 DEF RInv, SleepersRest
<1>8. /\ Q \in QType /\ Exclusive(Q) /\ ProgStatus = "PROG_RUNNING"
      /\ Return(Q, "CLUMP_SUSPEND") /\ "CLUMP_SUSPEND" \in Statuses /\ UNCHANGED owner
      /\ SavePC /\ active \in Clumps /\ ~OffQueues(queue, active)
  BY <1>1, <1>2, <1>3
<1>9. QED
  BY <1>5, <1>6, <1>7, <1>8, ReturnRestart

\* The clump that has ended owns nothing, as the compilers see to.
LEMMA DoneIsOver ==
  ASSUME Disciplined, IInv, RInv, Executing, MayEnd, NEW counts, ClumpDone(counts),
         UNCHANGED owner
  PROVE  \A d \in Clumps : IF d = Running THEN Over(d)' ELSE atStart'[d] = atStart[d]
<1>1. active = Running /\ Running \in Clumps
  BY RunningIsAwake
<1>2. \A m \in Mutexes : owner[m] # Running
  BY DEF MayEnd, Disciplined
<1>3. atStart' = [atStart EXCEPT ![active] = TRUE] /\ atStart \in [Clumps -> BOOLEAN]
  BY DEF ClumpDone, IInv, TypeOK
<1>4. atStart'[active] /\ \A d \in Clumps : d # active => atStart'[d] = atStart[d]
  BY <1>1, <1>3, Zenon
<1>5. \A m \in Mutexes : owner'[m] # active
  BY <1>1, <1>2
<1>6. ASSUME NEW d \in Clumps
      PROVE  IF d = Running THEN Over(d)' ELSE atStart'[d] = atStart[d]
  <2>1. CASE d = Running
    BY <2>1, <1>1, <1>4, <1>5, Zenon DEF Over
  <2>2. CASE d # Running
    BY <2>2, <1>1, <1>4
  <2>3. QED
    BY <2>1, <2>2
<1>7. QED
  BY <1>6

\* SUBRET ends the subroutine; its caller runs.
LEMMA SubRetRestart ==
  ASSUME Disciplined, IInv, RInv, SubRet
  PROVE  RInv'
<1> DEFINE caller == returnTo[Running]
           Q == EnQClump(DeQClump(queue, RunQ, Running), RunQ, caller)
<1>1. /\ Executing /\ MayEnd /\ Running \in Callable
      /\ inCall' = [inCall EXCEPT ![caller] = NOT_A_CLUMP]
      /\ ClumpDone(CurrFireCount)
      /\ Return(Q, "CLUMP_DONE") /\ "CLUMP_DONE" \in Statuses
      /\ UNCHANGED <<owner, awakenTime>>
  BY DEF SubRet, Statuses
<1>2. /\ Running \in Clumps /\ RunQ \in Queues /\ RestQ \in Queues /\ RestQ # RunQ
      /\ Mutexes \subseteq Queues /\ RunQ \notin Mutexes
      /\ ~OffQueues(queue, Running) /\ ProgStatus = "PROG_RUNNING"
  BY <1>1, RunningIsAwake
<1>3. caller \in Clumps /\ OffQueues(queue, caller)
  <2>1. caller # NOT_A_CLUMP /\ inCall[caller] = Running
    BY <1>1, <1>2 DEF IInv, LiveSubroutines, Live
  <2>2. caller \in Clumps /\ Running # NOT_A_CLUMP
    BY <1>2, <2>1, ClumpIds DEF IInv, TypeOK, Ids
  <2>3. QED
    BY <2>1, <2>2 DEF IInv, CallsConsistent
<1> HIDE DEF caller
<1>4. /\ Q \in QType /\ Exclusive(Q)
      /\ \A d \in Clumps : OffQueues(Q, d) => d # caller /\ (OffQueues(queue, d) \/ d = Running)
      /\ \A p \in Queues, d \in Clumps : p # RunQ =>
           (IsClumpOnQ(Q, p, d) <=> IsClumpOnQ(queue, p, d) \/ (p = RunQ /\ d = caller))
  BY <1>1, <1>2, <1>3, Handover
<1> HIDE DEF Q
<1>5. /\ \A p \in Queues, d \in Clumps : IsClumpOnQ(queue', p, d) <=> IsClumpOnQ(Q, p, d)
      /\ \A d \in Clumps : OffQueues(queue', d) <=> OffQueues(Q, d)
  BY <1>1, <1>2, <1>4, ReturnProperties
<1>6. \A d \in Clumps : IF d = Running THEN Over(d)' ELSE atStart'[d] = atStart[d]
  BY <1>1, DoneIsOver
<1>7. \A d \in Clumps : d # caller => inCall'[d] = inCall[d]
  BY <1>1 DEF IInv, TypeOK
<1>8. \A d \in Clumps : ~Live(d)' => \/ ~Live(d) /\ atStart'[d] = atStart[d]
                                     \/ Over(d)'
  <2> SUFFICES ASSUME NEW d \in Clumps, ~Live(d)', d # Running
               PROVE  ~Live(d) /\ atStart'[d] = atStart[d]
    BY <1>6
  <2>1. OffQueues(queue', d) /\ inCall'[d] = NOT_A_CLUMP
    BY DEF Live
  <2>2. d # caller /\ OffQueues(queue, d)
    BY <2>1, <1>4, <1>5
  <2>3. QED
    BY <2>1, <2>2, <1>6, <1>7 DEF Live
<1>9. \A m \in Mutexes, d \in Clumps : IsClumpOnQ(queue', m, d) => IsClumpOnQ(queue, m, d)
  BY <1>2, <1>4, <1>5
<1>10. \A d \in Clumps : awakenTime'[d] # 0 => IsClumpOnQ(queue', RestQ, d)
  BY <1>1, <1>2, <1>4, <1>5 DEF RInv, SleepersRest
<1>11. QED
  BY <1>1, <1>8, <1>9, <1>10, Frame

\* FINCLUMP ends the running clump; the ones it fires are on the run queue.
LEMMA FinClumpRestart ==
  ASSUME WellFormed, Disciplined, IInv, RInv,
         NEW begin \in 1 .. Len(Dependents[Running]) + 1,
         NEW end \in begin - 1 .. Len(Dependents[Running]), FinClump(begin, end)
  PROVE  RInv'
<1>1. /\ Executing /\ MayEnd
      /\ UNCHANGED <<owner, awakenTime, inCall>>
      /\ \E counts : ClumpDone(counts)
  BY DEF FinClump, SchedDependents
<1>2. /\ RestQ \in Queues /\ RestQ # RunQ /\ Mutexes \subseteq Queues /\ RunQ \notin Mutexes
  BY <1>1, RunningIsAwake
<1>3. /\ \A d \in Clumps : OffQueues(queue', d) => OffQueues(queue, d) \/ d = Running
      /\ \A p \in Queues, d \in Clumps : p # RunQ =>
           (IsClumpOnQ(queue', p, d) <=> IsClumpOnQ(queue, p, d))
  BY FinClumpStep
<1>4. \A d \in Clumps : IF d = Running THEN Over(d)' ELSE atStart'[d] = atStart[d]
  BY <1>1, DoneIsOver
<1>5. \A d \in Clumps : ~Live(d)' => \/ ~Live(d) /\ atStart'[d] = atStart[d]
                                     \/ Over(d)'
  <2> SUFFICES ASSUME NEW d \in Clumps, ~Live(d)', d # Running
               PROVE  ~Live(d) /\ atStart'[d] = atStart[d]
    BY <1>4
  <2>1. OffQueues(queue', d) /\ inCall'[d] = NOT_A_CLUMP
    BY DEF Live
  <2>2. QED
    BY <2>1, <1>1, <1>3, <1>4 DEF Live
<1>6. \A m \in Mutexes, d \in Clumps : IsClumpOnQ(queue', m, d) => IsClumpOnQ(queue, m, d)
  BY <1>2, <1>3
<1>7. \A d \in Clumps : awakenTime'[d] # 0 => IsClumpOnQ(queue', RestQ, d)
  BY <1>1, <1>2, <1>3 DEF RInv, SleepersRest
<1>8. QED
  BY <1>1, <1>5, <1>6, <1>7, Frame

\* STARTCLUMP puts a clump on the run queue.
LEMMA StartClumpRestart ==
  ASSUME IInv, RInv, NEW c \in Startable, StartClump(c)
  PROVE  RInv'
<1> DEFINE Q == EnQClump(queue, RunQ, c)
<1>1. /\ Executing /\ SavePC /\ c \in Clumps /\ OffQueues(queue, c)
      /\ Return(Q, "CLUMP_SUSPEND") /\ "CLUMP_SUSPEND" \in Statuses
      /\ UNCHANGED <<owner, awakenTime, inCall>>
  BY SchedulerConstants DEF StartClump, Statuses
<1>2. /\ queue \in QType /\ Exclusive(queue) /\ RunQ \in Queues /\ RestQ \in Queues
      /\ Mutexes \subseteq Queues /\ RunQ \notin Mutexes
  BY <1>1, RunningIsAwake
<1>3. /\ Q \in QType /\ Exclusive(Q)
      /\ \A p \in Queues, d \in Clumps :
           IsClumpOnQ(Q, p, d) <=> IsClumpOnQ(queue, p, d) \/ (p = RunQ /\ d = c)
  BY <1>1, <1>2, EnQProperties
<1> HIDE DEF Q
<1>4. \A d \in Clumps : OffQueues(Q, d) => OffQueues(queue, d)
  BY <1>3 DEF OffQueues
<1>5. \A m \in Mutexes, d \in Clumps : IsClumpOnQ(Q, m, d) => IsClumpOnQ(queue, m, d)
  BY <1>2, <1>3
<1>6. \A d \in Clumps : awakenTime'[d] # 0 => IsClumpOnQ(Q, RestQ, d)
  BY <1>1, <1>2, <1>3 DEF RInv, SleepersRest
<1>7. QED
  BY <1>1, <1>3, <1>4, <1>5, <1>6, RunningIsAwake, ReturnRestart

\* STOPCLUMP: the stopped clump is over, the next owners of its mutexes run.
LEMMA StopClumpRestart ==
  ASSUME WellFormed, IInv, RInv, NEW c \in Stoppable, StopClump(c)
  PROVE  RInv'
<1>1. PICK clump \in Clumps : Stopped(c, clump)
  BY StopClumpEffect
<1>2. UNCHANGED inCall
  BY DEF StopClump
<1>3. /\ \A d \in Clumps : d # clump =>
           /\ OffQueues(queue', d) <=> OffQueues(queue, d)
           /\ IsClumpOnQ(queue', RestQ, d) <=> IsClumpOnQ(queue, RestQ, d)
      /\ \A m \in Mutexes, d \in Clumps : IsClumpOnQ(queue', m, d) => IsClumpOnQ(queue, m, d)
  BY <1>1 DEF Stopped
<1>4. ASSUME NEW m \in Mutexes, NEW d \in Clumps, owner'[m] = d
      PROVE  \/ owner[m] = d /\ d # clump
             \/ /\ owner[m] = clump /\ d # clump /\ IsClumpOnQ(queue, m, d)
                /\ ~IsClumpOnQ(queue', m, d)
  <2>1. CASE owner[m] # clump
    BY <1>1, <1>4, <2>1 DEF Stopped
  <2>2. CASE owner[m] = clump
    <3>1. queue[m] # <<>>
      BY <1>1, <1>4, <2>2, ClumpIds DEF Stopped
    <3>2. IsClumpOnQ(queue, m, d) /\ ~IsClumpOnQ(queue', m, d)
      BY <1>1, <1>4, <2>2, <3>1 DEF Stopped
    <3>3. d # clump
      BY <2>2, <3>2 DEF RInv, OwnersDoNotWait
    <3>4. QED
      BY <2>2, <3>2, <3>3
  <2>3. QED
    BY <2>1, <2>2
<1>5. /\ atStart'[clump] /\ awakenTime'[clump] = 0
      /\ \A d \in Clumps : d # clump => atStart'[d] = atStart[d] /\ awakenTime'[d] = awakenTime[d]
  <2>1. /\ atStart \in [Clumps -> BOOLEAN] /\ awakenTime \in [Clumps -> Nat]
        /\ atStart' = [atStart EXCEPT ![clump] = TRUE]
        /\ awakenTime' = [awakenTime EXCEPT ![clump] = 0]
    BY <1>1 DEF Stopped, IInv, TypeOK
  <2>2. atStart'[clump] /\ \A d \in Clumps : d # clump => atStart'[d] = atStart[d]
    BY <2>1, Zenon
  <2>3. awakenTime'[clump] = 0 /\ \A d \in Clumps : d # clump => awakenTime'[d] = awakenTime[d]
    BY <2>1
  <2>4. QED
    BY <2>2, <2>3
<1>6. DeadAreOver'
  <2> SUFFICES ASSUME NEW d \in Clumps, ~Live(d)' PROVE Over(d)'
    BY DEF DeadAreOver
  <2>1. CASE d = clump
    BY <1>4, <1>5, <2>1 DEF Over
  <2>2. CASE d # clump
    <3>1. ~Live(d) /\ OffQueues(queue, d)
      BY <1>2, <1>3, <2>2 DEF Live
    <3>2. Over(d)
      BY <3>1 DEF RInv, DeadAreOver
    <3>3. \A m \in Mutexes : ~IsClumpOnQ(queue, m, d)
      BY <3>1 DEF OffQueues, Queues
    <3>4. \A m \in Mutexes : owner'[m] # d
      BY <1>4, <3>2, <3>3 DEF Over
    <3>5. QED
      BY <1>5, <2>2, <3>2, <3>4 DEF Over
  <2>3. QED
    BY <2>1, <2>2
<1>7. SleepersRest'
  BY <1>3, <1>5 DEF RInv, SleepersRest
<1>8. OwnersDoNotWait'
  BY <1>3, <1>4 DEF RInv, OwnersDoNotWait
<1>9. QED
  BY <1>6, <1>7, <1>8 DEF RInv

-----------------------------------------------------------------------------
(***************************************************************************)
(* Every step.                                                             *)
(***************************************************************************)
LEMMA StutterRestart ==
  ASSUME IInv, RInv, UNCHANGED <<queue, owner, clumpRecs, inCall>>
  PROVE  RInv'
<1>1. \A d \in Clumps : Live(d)' <=> Live(d)
  BY DEF Live
<1>2. QED
  BY <1>1 DEF RInv, DeadAreOver, Over, SleepersRest, OwnersDoNotWait, clumpRecs

\* Every step keeps the second invariant, where the first one holds.
LEMMA NextRestart ==
  ASSUME WellFormed, Disciplined, IInv, RInv, [Next]_vars
  PROVE  RInv'
<1>1. CASE \E t \in Tick .. MaxTick : Pass(t)
  BY <1>1, PassRestart
<1>2. CASE Enter
  BY <1>2, StutterRestart DEF Enter
<1>3. CASE EnterEmpty
  BY <1>3, EnterEmptyRestart
<1>4. CASE \E status \in {"ROTATE_QUEUE", "TIMES_UP"} : Preempt(status)
  BY <1>4, PreemptRestart
<1>5. CASE Executing /\ Instruction
  <2>1. CASE \E m \in Mutexes : Acquire(m) \/ Release(m)
    BY <2>1, AcquireRestart, ReleaseRestart
  <2>2. CASE \E c \in Callable : SubCall(c)
    BY <2>2, SubCallRestart
  <2>3. CASE SubRet
    BY <2>3, SubRetRestart
  <2>4. CASE \E begin \in 1 .. Len(Dependents[Running]) + 1 :
               \E end \in begin - 1 .. Len(Dependents[Running]) : FinClump(begin, end)
    BY <2>4, FinClumpRestart
  <2>5. CASE \E time \in 0 .. MaxSleep : Wait(time)
    BY <2>5, WaitRestart
  <2>6. CASE \E c \in Stoppable : StopClump(c)
    BY <2>6, StopClumpRestart
  <2>7. CASE \E c \in Startable : StartClump(c)
    BY <2>7, StartClumpRestart
  <2>8. CASE \E status \in {"STOP_REQ", "ERROR"} : EndProgram(status)
    BY <2>8, EndProgramRestart
  <2>9. QED
    BY <1>5, <2>1, <2>2, <2>3, <2>4, <2>5, <2>6, <2>7, <2>8 DEF Instruction
<1>6. CASE Activate
  BY <1>6, ActivateRestart
<1>7. CASE UNCHANGED vars
  BY <1>7, StutterRestart DEF vars
<1>8. QED
  BY <1>1, <1>2, <1>3, <1>4, <1>5, <1>6, <1>7 DEF Next

\* However a clump comes to its end, by FINCLUMP, by SUBRET or stopped while
\* it sleeps or waits: it starts at its first instruction the next time, with
\* no wake-up time left over, and no mutex stays locked by it.
THEOREM Restarts == ASSUME WellFormed, Disciplined PROVE Spec => []IdleIsOver
<1>1. Init => RInv
  BY InitRInv
<1>2. IInv /\ RInv /\ [Next]_vars => RInv'
  BY NextRestart
<1>3. IInv /\ RInv => IdleIsOver
  BY RInvImplies
<1>4. QED
  BY <1>1, <1>2, <1>3, Invariance, PTL DEF Spec


-----------------------------------------------------------------------------
(***************************************************************************)
(* Chains of calls are short: they meet no clump twice.                    *)
(***************************************************************************)

\* A set of natural numbers has a least element.
LEMMA LeastNat ==
  ASSUME NEW T, T \in SUBSET Nat, T # {}
  PROVE  \E n \in T : \A k \in T : n <= k
<1>1. PICK b \in T : TRUE
  OBVIOUS
<1>2. IsFiniteSet(0 .. b)
  BY <1>1, FS_Interval
<1>3. IsWellFoundedOn(StrictSubsetOrdering(0 .. b), FiniteSubsetsOf(0 .. b))
  BY <1>2, FS_StrictSubsetOrderingWellFounded
<1> DEFINE D == {A \in SUBSET (0 .. b) : \E n \in T : n <= b /\ A = 0 .. n}
<1>4. D \subseteq FiniteSubsetsOf(0 .. b)
  BY <1>2, FS_Subset DEF FiniteSubsetsOf
<1>5. 0 .. b \in D
  BY <1>1
<1> HIDE DEF D
<1>6. PICK A \in D : \A B \in D : <<B, A>> \notin StrictSubsetOrdering(0 .. b)
  BY <1>3, <1>4, <1>5, WFMin
<1>7. PICK n \in T : n <= b /\ A = 0 .. n
  BY <1>6 DEF D
<1>8. \A k \in T : n <= k
  <2> SUFFICES ASSUME NEW k \in T, k < n PROVE FALSE
    BY <1>7
  <2>1. 0 .. k \in D
    BY <1>7 DEF D
  <2>2. 0 .. k \subseteq A /\ 0 .. k # A
    <3>1. n \notin 0 .. k /\ n \in A
      BY <1>7
    <3> QED BY <1>7, <3>1
  <2>3. QED
    BY <1>6, <2>1, <2>2, <1>4, <1>2 DEF StrictSubsetOrdering, D
<1>9. QED
  BY <1>8

\* A chain that ends is no longer than there are clumps in a call.
LEMMA ChainIsShort ==
  ASSUME NEW f \in [Clumps -> Ids], NEW n \in Nat, NEW path \in [0 .. n -> Clumps],
         \A i \in 1 .. n : path[i] = f[path[i - 1]],
         f[path[n]] = NOT_A_CLUMP
  PROVE  n <= Cardinality({d \in Clumps : f[d] # NOT_A_CLUMP})
<1> DEFINE D == {d \in Clumps : f[d] # NOT_A_CLUMP}
           g == [i \in 1 .. n |-> path[i - 1]]
<1>1. IsFiniteSet(D) /\ Cardinality(D) \in Nat
  BY FS_Subset, FS_CardinalityType, ClumpIds
<1>2. IsFiniteSet(1 .. n) /\ Cardinality(1 .. n) = n
  BY FS_Interval
<1>3. g \in [1 .. n -> D]
  <2> SUFFICES ASSUME NEW i \in 1 .. n PROVE path[i - 1] \in D
    OBVIOUS
  <2>1. i - 1 \in 0 .. n /\ i \in 0 .. n
    OBVIOUS
  <2>2. path[i] \in Clumps /\ path[i] = f[path[i - 1]] /\ path[i - 1] \in Clumps
    BY <2>1
  <2> QED
    BY <2>2, ClumpIds
<1>4. ASSUME NEW i \in 1 .. n, NEW j \in 1 .. n, i < j, path[i - 1] = path[j - 1]
      PROVE  FALSE
  <2> DEFINE Bad == {k \in Nat : k <= n - j + 1 /\ path[i - 1 + k] # path[j - 1 + k]}
  <2>1. Bad = {}
    <3> SUFFICES ASSUME Bad # {} PROVE FALSE
      OBVIOUS
    <3>1. PICK k \in Bad : \A l \in Bad : k <= l
      <4>1. Bad \in SUBSET Nat
        OBVIOUS
      <4> HIDE DEF Bad
      <4> QED
        BY <4>1, LeastNat
    <3>2. k \in Nat /\ k <= n - j + 1 /\ path[i - 1 + k] # path[j - 1 + k]
      OBVIOUS
    <3>3. k # 0
      BY <1>4, <3>2
    <3>4. k - 1 \in Nat /\ k - 1 \notin Bad /\ k - 1 <= n - j + 1
      <4>1. k - 1 \in Nat /\ ~(k <= k - 1) /\ k - 1 <= n - j + 1
        BY <3>2, <3>3
      <4> QED
        BY <3>1, <4>1
    <3>5. path[i - 1 + (k - 1)] = path[j - 1 + (k - 1)]
      BY <3>4
    <3>6. i - 1 + k \in 1 .. n /\ j - 1 + k \in 1 .. n
      BY <1>4, <3>2, <3>3
    <3>7. path[i - 1 + k] = f[path[i - 1 + k - 1]] /\ path[j - 1 + k] = f[path[j - 1 + k - 1]]
      BY <3>6
    <3>8. i - 1 + k - 1 = i - 1 + (k - 1) /\ j - 1 + k - 1 = j - 1 + (k - 1)
      BY <3>2
    <3> HIDE DEF Bad
    <3> QED
      BY <3>2, <3>5, <3>7, <3>8
  <2>2. n - j + 1 \in Nat /\ n - j + 1 <= n - j + 1
    OBVIOUS
  <2>3. path[i - 1 + (n - j + 1)] = path[j - 1 + (n - j + 1)]
    <3>1. n - j + 1 \notin Bad
      BY <2>1
    <3> QED
      BY <2>2, <3>1
  <2>4. j - 1 + (n - j + 1) = n
    OBVIOUS
  <2> DEFINE k == i + (n - j + 1)
  <2>5. k \in 1 .. n /\ i - 1 + (n - j + 1) = k - 1
    BY <1>4
  <2>6. path[k] = f[path[k - 1]] /\ path[k] \in Clumps
    BY <2>5
  <2>7. path[k - 1] = path[n]
    BY <2>3, <2>4, <2>5
  <2> QED
    BY <2>6, <2>7, ClumpIds
<1>5. ~(Cardinality(D) < n)
  <2> SUFFICES ASSUME Cardinality(D) < n PROVE FALSE
    OBVIOUS
  <2> HIDE DEF D, g
  <2>1. PICK i \in 1 .. n, j \in 1 .. n : i # j /\ g[i] = g[j]
    BY <1>1, <1>2, <1>3, FS_PigeonHole
  <2>2. path[i - 1] = path[j - 1]
    BY <2>1 DEF g
  <2>3. CASE i < j
    BY <1>4, <2>2, <2>3
  <2>4. CASE j < i
    BY <1>4, <2>2, <2>4
  <2> QED
    BY <2>1, <2>3, <2>4
<1> QED
  BY <1>1, <1>5

\* A chain that ends elsewhere does not notice what x calls, as long as x calls
\* nobody, or somebody who calls nobody.
LEMMA Rerouted ==
  ASSUME NEW f \in [Clumps -> Ids], NEW g \in [Clumps -> Ids], NEW x \in Clumps,
         \A d \in Clumps : d # x => g[d] = f[d],
         NEW a, NEW w \in Clumps, w # x,
         g[x] = NOT_A_CLUMP \/ (g[x] # w /\ g[g[x]] = NOT_A_CLUMP),
         CallChainEnd(g, a, w)
  PROVE  CallChainEnd(f, a, w)
<1>1. PICK n \in 0 .. Cardinality({d \in Clumps : g[d] # NOT_A_CLUMP}) :
        \E path \in [0 .. n -> Clumps] :
          /\ path[0] = a /\ path[n] = w
          /\ \A i \in 1 .. n : path[i] = g[path[i - 1]]
  BY DEF CallChainEnd
<1>2. PICK path \in [0 .. n -> Clumps] :
          /\ path[0] = a /\ path[n] = w
          /\ \A i \in 1 .. n : path[i] = g[path[i - 1]]
  BY <1>1
<1>3. n \in Nat
  OBVIOUS
<1>4. f[w] = NOT_A_CLUMP
  BY DEF CallChainEnd
<1>5. \A i \in 1 .. n : path[i] = f[path[i - 1]]
  <2> SUFFICES ASSUME NEW i \in 1 .. n PROVE path[i] = f[path[i - 1]]
    OBVIOUS
  <2>1. i - 1 \in 0 .. n /\ i \in 0 .. n /\ path[i] \in Clumps /\ path[i - 1] \in Clumps
    BY <1>3
  <2>2. path[i] = g[path[i - 1]]
    BY <1>2
  <2>3. path[i - 1] # x
    <3> SUFFICES ASSUME path[i - 1] = x PROVE FALSE
      OBVIOUS
    <3>1. path[i] = g[x] /\ g[x] # w /\ g[g[x]] = NOT_A_CLUMP
      BY <2>1, <2>2, ClumpIds
    <3>2. i # n
      BY <1>2, <3>1
    <3>3. i + 1 \in 1 .. n /\ i + 1 \in 0 .. n /\ i + 1 - 1 = i
      BY <1>3, <3>2
    <3>4. path[i + 1] = g[path[i]] /\ path[i + 1] \in Clumps
      BY <1>2, <3>3
    <3> QED
      BY <3>1, <3>4, ClumpIds
  <2> QED
    BY <2>1, <2>2, <2>3
<1>6. n <= Cardinality({d \in Clumps : f[d] # NOT_A_CLUMP})
  BY <1>2, <1>3, <1>4, <1>5, ChainIsShort
<1>7. n \in 0 .. Cardinality({d \in Clumps : f[d] # NOT_A_CLUMP})
  <2>1. Cardinality({d \in Clumps : f[d] # NOT_A_CLUMP}) \in Nat
    BY FS_Subset, FS_CardinalityType, ClumpIds
  <2> QED
    BY <1>3, <1>6, <2>1
<1> QED
  BY <1>2, <1>4, <1>5, <1>7 DEF CallChainEnd

\* A clump that calls nobody is the end of its own chain, and of no other.
LEMMA ChainOfOne ==
  ASSUME NEW f \in [Clumps -> Ids], NEW a \in Clumps, f[a] = NOT_A_CLUMP
  PROVE  /\ CallChainEnd(f, a, a)
         /\ \A w \in Clumps : CallChainEnd(f, a, w) => w = a
<1>1. CallChainEnd(f, a, a)
  <2> DEFINE p == [i \in 0 .. 0 |-> a]
  <2>1. 0 \in 0 .. Cardinality({d \in Clumps : f[d] # NOT_A_CLUMP})
    <3>1. Cardinality({d \in Clumps : f[d] # NOT_A_CLUMP}) \in Nat
      BY FS_Subset, FS_CardinalityType, ClumpIds
    <3> QED
      BY <3>1
  <2>2. p \in [0 .. 0 -> Clumps] /\ p[0] = a /\ \A i \in 1 .. 0 : p[i] = f[p[i - 1]]
    OBVIOUS
  <2> HIDE DEF p
  <2> QED
    BY <2>1, <2>2 DEF CallChainEnd
<1>2. ASSUME NEW w \in Clumps, CallChainEnd(f, a, w) PROVE w = a
  <2>1. PICK n \in 0 .. Cardinality({d \in Clumps : f[d] # NOT_A_CLUMP}) :
          \E path \in [0 .. n -> Clumps] :
            /\ path[0] = a /\ path[n] = w
            /\ \A i \in 1 .. n : path[i] = f[path[i - 1]]
    BY <1>2 DEF CallChainEnd
  <2>2. PICK path \in [0 .. n -> Clumps] :
            /\ path[0] = a /\ path[n] = w
            /\ \A i \in 1 .. n : path[i] = f[path[i - 1]]
    BY <2>1
  <2>3. n = 0
    <3> SUFFICES ASSUME n # 0 PROVE FALSE
      OBVIOUS
    <3>1. 1 \in 1 .. n /\ 1 \in 0 .. n
      OBVIOUS
    <3>2. path[1] = f[path[1 - 1]] /\ path[1] \in Clumps
      BY <2>2, <3>1
    <3> QED
      BY <2>2, <3>2, ClumpIds
  <2> QED
    BY <2>2, <2>3
<1> QED
  BY <1>1, <1>2

-----------------------------------------------------------------------------
(***************************************************************************)
(* Mutexes are acquired in their order, so that nobody waits in a circle.  *)
(***************************************************************************)

\* The program acquires a mutex only after those that it holds.
Ordered == "unordered" \notin Liberties

\* A clump that waits for n, itself or in the calls of a caller, owns only
\* mutexes that come before n.
WInv ==
  \A m, n \in Mutexes, w \in Clumps :
    /\ owner[m] \in Clumps
    /\ IsClumpOnQ(queue, n, w)
    /\ CallChainEnd(inCall, owner[m], w)
    => Before(m, n)

\* A step in which nobody begins to wait, and no owner comes to wait in one
\* more call.
LEMMA NobodyWaits ==
  ASSUME WInv,
         \A m \in Mutexes, d \in Clumps : IsClumpOnQ(queue', m, d) => IsClumpOnQ(queue, m, d),
         \A m \in Mutexes :
           \/ owner'[m] = owner[m]
           \/ owner'[m] \notin Clumps
           \/ \A n \in Mutexes, w \in Clumps :
                ~(IsClumpOnQ(queue', n, w) /\ CallChainEnd(inCall', owner'[m], w)),
         \A a \in Clumps, n \in Mutexes, w \in Clumps :
           IsClumpOnQ(queue', n, w) /\ CallChainEnd(inCall', a, w)
             => CallChainEnd(inCall, a, w)
  PROVE  WInv'
<1> SUFFICES ASSUME NEW m \in Mutexes, NEW n \in Mutexes, NEW w \in Clumps,
                    owner'[m] \in Clumps, IsClumpOnQ(queue', n, w),
                    CallChainEnd(inCall', owner'[m], w)
             PROVE  Before(m, n)
  BY DEF WInv, Before
<1>1. owner'[m] = owner[m]
  OBVIOUS
<1>2. IsClumpOnQ(queue, n, w) /\ CallChainEnd(inCall, owner[m], w)
  BY <1>1
<1>3. QED
  BY <1>1, <1>2 DEF WInv

\* In particular, a step without acquiring, releasing, calling and returning.
LEMMA NothingHappens ==
  ASSUME WInv, UNCHANGED <<owner, inCall>>,
         \A m \in Mutexes, d \in Clumps : IsClumpOnQ(queue', m, d) => IsClumpOnQ(queue, m, d)
  PROVE  WInv'
<1>1. \A m \in Mutexes : owner'[m] = owner[m]
  OBVIOUS
<1>2. \A a, w \in Clumps : CallChainEnd(inCall', a, w) => CallChainEnd(inCall, a, w)
  OBVIOUS
<1>3. QED
  BY <1>1, <1>2, NobodyWaits

\* A program begins with nobody waiting.
LEMMA InitiallyNobody ==
  ASSUME NEW q, Initially(q)
  PROVE  \A m \in Mutexes, d \in Clumps : ~IsClumpOnQ(q, m, d)
<1>1. \A m \in Mutexes : m \in Queues /\ m # RunQ
  BY QueueNames DEF Queues
<1>2. \A m \in Mutexes : q[m] = <<>>
  BY <1>1 DEF Initially
<1>3. QED
  BY <1>2 DEF IsClumpOnQ

LEMMA InitOrder ==
  ASSUME Init
  PROVE  WInv
<1>1. \A m \in Mutexes, d \in Clumps : ~IsClumpOnQ(queue, m, d)
  BY InitiallyNobody DEF Init
<1>2. QED
  BY <1>1 DEF WInv

LEMMA ActivateOrder ==
  ASSUME Activate
  PROVE  WInv'
<1>1. \A m \in Mutexes, d \in Clumps : ~IsClumpOnQ(queue', m, d)
  BY InitiallyNobody DEF Activate
<1>2. QED
  BY <1>1 DEF WInv

\* cCmdCtrl makes nobody wait.
LEMMA ReturnOrder ==
  ASSUME IInv, WInv, ProgStatus = "PROG_RUNNING", NEW status \in Statuses,
         NEW Q \in QType, Exclusive(Q), Return(Q, status), UNCHANGED <<owner, inCall>>,
         \A m \in Mutexes, d \in Clumps : IsClumpOnQ(Q, m, d) => IsClumpOnQ(queue, m, d)
  PROVE  WInv'
<1>1. /\ \A p \in Queues, d \in Clumps : IsClumpOnQ(queue', p, d) <=> IsClumpOnQ(Q, p, d)
  BY ReturnProperties
<1>2. \A m \in Mutexes, d \in Clumps : IsClumpOnQ(queue', m, d) => IsClumpOnQ(queue, m, d)
  BY <1>1 DEF Queues
<1>3. QED
  BY <1>2, NothingHappens

LEMMA ControlOrder ==
  ASSUME IInv, WInv,
         \/ \E t \in Tick .. MaxTick : Pass(t)
         \/ Enter
         \/ EnterEmpty
         \/ \E status \in {"ROTATE_QUEUE", "TIMES_UP"} : Preempt(status)
         \/ \E status \in {"STOP_REQ", "ERROR"} : EndProgram(status)
  PROVE  WInv'
<1>1. ASSUME NEW t \in Tick .. MaxTick, Pass(t)
      PROVE  WInv'
  <2>1. \A m \in Mutexes : queue'[m] = queue[m]
    BY <1>1, PassStep
  <2>2. \A m \in Mutexes, d \in Clumps : IsClumpOnQ(queue', m, d) => IsClumpOnQ(queue, m, d)
    BY <2>1 DEF IsClumpOnQ
  <2>3. QED
    BY <1>1, <2>2, NothingHappens DEF Pass
<1>2. CASE Enter
  <2>1. UNCHANGED <<queue, owner, inCall>>
    BY <1>2 DEF Enter
  <2>2. QED
    BY <2>1, NothingHappens
<1>3. queue \in QType /\ Exclusive(queue)
  BY DEF IInv, TypeOK, QType, QueueExclusive
<1>4. CASE EnterEmpty
  <2>1. /\ Return(queue, "TIMES_UP") /\ "TIMES_UP" \in Statuses
        /\ ProgStatus = "PROG_RUNNING" /\ UNCHANGED <<owner, inCall>>
    BY <1>4 DEF EnterEmpty, IInv, TypeOK, Statuses
  <2>2. QED
    BY <1>3, <2>1, ReturnOrder
<1>5. ASSUME NEW status \in {"ROTATE_QUEUE", "TIMES_UP"}, Preempt(status)
      PROVE  WInv'
  <2>1. /\ Return(queue, status) /\ status \in Statuses
        /\ ProgStatus = "PROG_RUNNING" /\ UNCHANGED <<owner, inCall>>
    BY <1>5 DEF Preempt, IInv, TypeOK, Statuses
  <2>2. QED
    BY <1>3, <2>1, ReturnOrder
<1>6. ASSUME NEW status \in {"STOP_REQ", "ERROR"}, EndProgram(status)
      PROVE  WInv'
  <2>1. /\ Return(queue, status) /\ status \in Statuses
        /\ ProgStatus = "PROG_RUNNING" /\ UNCHANGED <<owner, inCall>>
    BY <1>6, RunningProperties DEF EndProgram, Statuses
  <2>2. QED
    BY <1>3, <2>1, ReturnOrder
<1>7. QED
  BY <1>1, <1>2, <1>4, <1>5, <1>6

\* A clump that does not wait, and calls nobody, waits in no call either.
LEMMA NotWaiting ==
  ASSUME NEW f \in [Clumps -> Ids], NEW Q, NEW a \in Clumps, f[a] = NOT_A_CLUMP,
         \A n \in Mutexes : ~IsClumpOnQ(Q, n, a)
  PROVE  \A n \in Mutexes, w \in Clumps : ~(IsClumpOnQ(Q, n, w) /\ CallChainEnd(f, a, w))
<1>1. \A w \in Clumps : CallChainEnd(f, a, w) => w = a
  BY ChainOfOne
<1>2. QED
  BY <1>1

\* ACQUIRE: the guard looks at what the clump and its callers own.
LEMMA AcquireOrder ==
  ASSUME Ordered, IInv, RInv, WInv, NEW m \in Mutexes, Acquire(m)
  PROVE  WInv'
<1>1. /\ Executing /\ MayAcquire(m) /\ UNCHANGED inCall
  BY DEF Acquire
<1>2. /\ Running \in Clumps /\ inCall[Running] = NOT_A_CLUMP
      /\ \A n \in Mutexes : ~IsClumpOnQ(queue, n, Running)
      /\ inCall \in [Clumps -> Ids] /\ owner \in [Mutexes -> Ids]
  BY <1>1, RunningIsAwake DEF IInv, TypeOK
<1>3. CASE owner' = [owner EXCEPT ![m] = Running] /\ UNCHANGED queue
  <2>1. \A l \in Mutexes : owner'[l] = owner[l] \/ owner'[l] = Running
    BY <1>2, <1>3
  <2>2. \A n \in Mutexes, w \in Clumps :
          ~(IsClumpOnQ(queue', n, w) /\ CallChainEnd(inCall', Running, w))
    BY <1>1, <1>2, <1>3, NotWaiting
  <2>3. QED
    BY <1>1, <1>3, <2>1, <2>2, NobodyWaits
<1>4. CASE owner[m] # NOT_A_CLUMP
  <2> DEFINE Q == EnQClump(DeQClump(queue, RunQ, Running), m, Running)
  <2>1. /\ Return(Q, "CLUMP_SUSPEND") /\ "CLUMP_SUSPEND" \in Statuses /\ UNCHANGED owner
    BY <1>4 DEF Acquire, Statuses
  <2>2. m \in Queues /\ ProgStatus = "PROG_RUNNING" /\ RunQ \notin Mutexes
    BY <1>1, RunningIsAwake
  <2>3. /\ Q \in QType /\ Exclusive(Q)
        /\ \A p \in Queues, d \in Clumps : p # RunQ =>
             (IsClumpOnQ(Q, p, d) <=> IsClumpOnQ(queue, p, d) \/ (p = m /\ d = Running))
    BY <1>1, <1>2, <2>2, Handover
  <2> HIDE DEF Q
  <2>4. \A p \in Queues, d \in Clumps : IsClumpOnQ(queue', p, d) <=> IsClumpOnQ(Q, p, d)
    BY <2>1, <2>2, <2>3, ReturnProperties
  <2>5. \A n \in Mutexes, d \in Clumps :
          IsClumpOnQ(queue', n, d) => IsClumpOnQ(queue, n, d) \/ (n = m /\ d = Running)
    BY <2>2, <2>3, <2>4 DEF Queues
  <2>6. \A n \in Mutexes : Holds(n) => Before(n, m)
    BY <1>1 DEF MayAcquire, Ordered
  <2> SUFFICES ASSUME NEW l \in Mutexes, NEW n \in Mutexes, NEW w \in Clumps,
                      owner'[l] \in Clumps, IsClumpOnQ(queue', n, w),
                      CallChainEnd(inCall', owner'[l], w)
               PROVE  Before(l, n)
    BY DEF WInv, Before
  <2>7. owner[l] \in Clumps /\ CallChainEnd(inCall, owner[l], w)
    BY <1>1, <2>1
  <2>8. CASE IsClumpOnQ(queue, n, w)
    BY <2>7, <2>8 DEF WInv
  <2>9. CASE n = m /\ w = Running
    <3>1. Holds(l)
      BY <2>7, <2>9, ClumpIds DEF Holds
    <3>2. QED
      BY <2>6, <2>9, <3>1
  <2>10. QED
    BY <2>5, <2>8, <2>9
<1>5. QED
  BY <1>3, <1>4 DEF Acquire

\* RELEASE: the next owner runs.
LEMMA ReleaseOrder ==
  ASSUME IInv, RInv, WInv, NEW m \in Mutexes, Release(m)
  PROVE  WInv'
<1>1. /\ Executing /\ UNCHANGED inCall /\ owner' = [owner EXCEPT ![m] = NextOwner(m)]
  BY DEF Release, ReleaseMutex
<1>2. \A l \in Mutexes : l # m => owner'[l] = owner[l]
  BY <1>1 DEF IInv, TypeOK
<1>3. owner'[m] = NextOwner(m)
  BY <1>1 DEF IInv, TypeOK
<1>4. CASE queue[m] = <<>>
  <2>1. queue' = queue /\ owner'[m] \notin Clumps
    BY <1>3, <1>4, ClumpIds DEF Release, ReleaseMutex, NextOwner
  <2>2. QED
    BY <1>1, <1>2, <2>1, NobodyWaits
<1>5. CASE queue[m] # <<>>
  <2> DEFINE h == Head(queue[m])
             D == DeQClump(queue, m, h)
  <2>1. queue' = EnQClump(D, RunQ, h) /\ owner'[m] = h
    BY <1>3, <1>5 DEF Release, ReleaseMutex, NextOwner
  <2>2. /\ queue \in QType /\ Exclusive(queue) /\ m \in Queues /\ m # RunQ
        /\ RunQ \in Queues /\ Mutexes \subseteq Queues /\ RunQ \notin Mutexes
    BY <1>1, RunningIsAwake
  <2>3. h \in Clumps /\ IsClumpOnQ(queue, m, h)
    <3>1. queue[m] \in Seq(Clumps)
      BY <2>2 DEF QType
    <3>2. 1 \in DOMAIN queue[m] /\ h = queue[m][1] /\ h \in Clumps
      BY <1>5, <3>1
    <3>3. QED
      BY <3>2 DEF IsClumpOnQ
  <2> HIDE DEF h
  <2>4. /\ D \in QType /\ Exclusive(D) /\ OffQueues(D, h)
        /\ \A p \in Queues, d \in Clumps :
             IsClumpOnQ(D, p, d) <=> IsClumpOnQ(queue, p, d) /\ ~(p = m /\ d = h)
    BY <2>2, <2>3, DeQProperties
  <2> HIDE DEF D
  <2>5. \A p \in Queues, d \in Clumps :
          IsClumpOnQ(queue', p, d) <=> IsClumpOnQ(D, p, d) \/ (p = RunQ /\ d = h)
    BY <2>1, <2>2, <2>3, <2>4, EnQProperties
  <2>6. \A n \in Mutexes, d \in Clumps : IsClumpOnQ(queue', n, d) => IsClumpOnQ(queue, n, d)
    BY <2>2, <2>4, <2>5
  <2>7. \A n \in Mutexes : ~IsClumpOnQ(queue', n, h)
    BY <2>2, <2>3, <2>4, <2>5 DEF OffQueues
  <2>8. inCall[h] = NOT_A_CLUMP /\ inCall \in [Clumps -> Ids]
    BY <2>2, <2>3 DEF IInv, TypeOK, CallsConsistent, OffQueues
  <2>9. \A n \in Mutexes, w \in Clumps :
          ~(IsClumpOnQ(queue', n, w) /\ CallChainEnd(inCall', h, w))
    BY <1>1, <2>3, <2>7, <2>8, NotWaiting
  <2>10. \A l \in Mutexes :
           \/ owner'[l] = owner[l]
           \/ \A n \in Mutexes, w \in Clumps :
                ~(IsClumpOnQ(queue', n, w) /\ CallChainEnd(inCall', owner'[l], w))
    BY <1>2, <2>1, <2>9
  <2>11. QED
    BY <1>1, <2>6, <2>10, NobodyWaits
<1>6. QED
  BY <1>4, <1>5

\* WAIT: RestQ is not a mutex.
LEMMA WaitOrder ==
  ASSUME IInv, RInv, WInv, NEW time \in Nat, Wait(time)
  PROVE  WInv'
<1>1. Executing /\ UNCHANGED <<owner, inCall>>
  BY DEF Wait
<1>2. /\ ProgStatus = "PROG_RUNNING" /\ queue \in QType /\ Exclusive(queue)
      /\ Running \in Clumps /\ RestQ \in Queues /\ Mutexes \subseteq Queues
      /\ RestQ \notin Mutexes /\ RunQ \notin Mutexes
  BY <1>1, RunningIsAwake
<1>3. CASE time = 0
  <2>1. Return(queue, "ROTATE_QUEUE") /\ "ROTATE_QUEUE" \in Statuses
    BY <1>3 DEF Wait, Statuses
  <2>2. QED
    BY <1>1, <1>2, <2>1, ReturnOrder
<1>4. CASE time > 0
  <2> DEFINE Q == EnQClump(DeQClump(queue, RunQ, Running), RestQ, Running)
  <2>1. Return(Q, "CLUMP_SUSPEND") /\ "CLUMP_SUSPEND" \in Statuses
    BY <1>4 DEF Wait, Statuses
  <2>2. /\ Q \in QType /\ Exclusive(Q)
        /\ \A p \in Queues, d \in Clumps : p # RunQ =>
             (IsClumpOnQ(Q, p, d) <=> IsClumpOnQ(queue, p, d) \/ (p = RestQ /\ d = Running))
    BY <1>1, <1>2, Handover
  <2> HIDE DEF Q
  <2>3. \A m \in Mutexes, d \in Clumps : IsClumpOnQ(Q, m, d) => IsClumpOnQ(queue, m, d)
    BY <1>2, <2>2
  <2>4. QED
    BY <1>1, <1>2, <2>1, <2>2, <2>3, ReturnOrder
<1>5. QED
  BY <1>3, <1>4 DEF Wait

\* STARTCLUMP: RunQ is not a mutex.
LEMMA StartClumpOrder ==
  ASSUME IInv, RInv, WInv, NEW c \in Startable, StartClump(c)
  PROVE  WInv'
<1> DEFINE Q == EnQClump(queue, RunQ, c)
<1>1. /\ Executing /\ c \in Clumps /\ OffQueues(queue, c)
      /\ Return(Q, "CLUMP_SUSPEND") /\ "CLUMP_SUSPEND" \in Statuses
      /\ UNCHANGED <<owner, inCall>>
  BY SchedulerConstants DEF StartClump, Statuses
<1>2. /\ queue \in QType /\ Exclusive(queue) /\ RunQ \in Queues /\ ProgStatus = "PROG_RUNNING"
      /\ Mutexes \subseteq Queues /\ RunQ \notin Mutexes
  BY <1>1, RunningIsAwake
<1>3. /\ Q \in QType /\ Exclusive(Q)
      /\ \A p \in Queues, d \in Clumps :
           IsClumpOnQ(Q, p, d) <=> IsClumpOnQ(queue, p, d) \/ (p = RunQ /\ d = c)
  BY <1>1, <1>2, EnQProperties
<1> HIDE DEF Q
<1>4. \A m \in Mutexes, d \in Clumps : IsClumpOnQ(Q, m, d) => IsClumpOnQ(queue, m, d)
  BY <1>2, <1>3
<1>5. QED
  BY <1>1, <1>2, <1>3, <1>4, ReturnOrder

\* FINCLUMP: so are the clumps it fires on RunQ.
LEMMA FinClumpOrder ==
  ASSUME WellFormed, IInv, RInv, WInv,
         NEW begin \in 1 .. Len(Dependents[Running]) + 1,
         NEW end \in begin - 1 .. Len(Dependents[Running]), FinClump(begin, end)
  PROVE  WInv'
<1>1. Executing /\ UNCHANGED <<owner, inCall>>
  BY DEF FinClump
<1>2. \A p \in Queues, d \in Clumps : p # RunQ =>
        (IsClumpOnQ(queue', p, d) <=> IsClumpOnQ(queue, p, d))
  BY FinClumpStep
<1>3. \A m \in Mutexes, d \in Clumps : IsClumpOnQ(queue', m, d) => IsClumpOnQ(queue, m, d)
  BY <1>1, <1>2, RunningIsAwake
<1>4. QED
  BY <1>1, <1>3, NothingHappens

\* SUBCALL: the clump that waits in the new call is not yet waiting for a mutex.
LEMMA SubCallOrder ==
  ASSUME IInv, RInv, WInv, NEW c \in Callable, SubCall(c)
  PROVE  WInv'
<1> DEFINE Q == EnQClump(DeQClump(queue, RunQ, Running), RunQ, c)
<1>1. /\ Executing /\ OffQueues(queue, c) /\ c \in Clumps /\ inCall[c] = NOT_A_CLUMP
      /\ Return(Q, "CLUMP_SUSPEND") /\ "CLUMP_SUSPEND" \in Statuses
      /\ inCall' = [inCall EXCEPT ![Running] = c]
      /\ UNCHANGED owner
  BY SchedulerConstants DEF SubCall, Statuses
<1>2. /\ Running \in Clumps /\ RunQ \in Queues /\ ProgStatus = "PROG_RUNNING"
      /\ Mutexes \subseteq Queues /\ RunQ \notin Mutexes
      /\ ~OffQueues(queue, Running)
      /\ \A n \in Mutexes : ~IsClumpOnQ(queue, n, Running)
  BY <1>1, RunningIsAwake
<1>3. /\ Q \in QType /\ Exclusive(Q)
      /\ \A p \in Queues, d \in Clumps : p # RunQ =>
           (IsClumpOnQ(Q, p, d) <=> IsClumpOnQ(queue, p, d) \/ (p = RunQ /\ d = c))
  BY <1>1, <1>2, Handover
<1> HIDE DEF Q
<1>4. \A p \in Queues, d \in Clumps : IsClumpOnQ(queue', p, d) <=> IsClumpOnQ(Q, p, d)
  BY <1>1, <1>2, <1>3, ReturnProperties
<1>5. \A m \in Mutexes, d \in Clumps : IsClumpOnQ(queue', m, d) => IsClumpOnQ(queue, m, d)
  BY <1>2, <1>3, <1>4
<1>6. c # Running /\ c # NOT_A_CLUMP
  BY <1>1, <1>2, ClumpIds
<1>7. inCall \in [Clumps -> Ids] /\ inCall' \in [Clumps -> Ids]
  BY <1>1, <1>2 DEF IInv, TypeOK, Ids
<1>8. /\ inCall'[Running] = c /\ inCall'[c] = NOT_A_CLUMP
      /\ \A d \in Clumps : d # Running => inCall'[d] = inCall[d]
  BY <1>1, <1>2, <1>6, <1>7
<1>9. ASSUME NEW a \in Clumps, NEW n \in Mutexes, NEW w \in Clumps,
             IsClumpOnQ(queue', n, w), CallChainEnd(inCall', a, w)
      PROVE  CallChainEnd(inCall, a, w)
  <2>1. w # Running /\ w # c
    BY <1>1, <1>2, <1>5, <1>9 DEF OffQueues
  <2> DEFINE g == inCall'
  <2>2. /\ g \in [Clumps -> Ids] /\ \A d \in Clumps : d # Running => g[d] = inCall[d]
        /\ g[Running] # w /\ g[g[Running]] = NOT_A_CLUMP
        /\ CallChainEnd(g, a, w)
    BY <1>7, <1>8, <1>9, <2>1
  <2> HIDE DEF g
  <2>3. QED
    BY <1>2, <1>7, <2>1, <2>2, Rerouted
<1>10. \A m \in Mutexes : owner'[m] = owner[m]
  BY <1>1
<1>11. QED
  BY <1>5, <1>9, <1>10, NobodyWaits

\* SUBRET: the caller runs.
LEMMA SubRetOrder ==
  ASSUME IInv, RInv, WInv, SubRet
  PROVE  WInv'
<1> DEFINE caller == returnTo[Running]
           Q == EnQClump(DeQClump(queue, RunQ, Running), RunQ, caller)
<1>1. /\ Executing /\ Running \in Callable
      /\ inCall' = [inCall EXCEPT ![caller] = NOT_A_CLUMP]
      /\ Return(Q, "CLUMP_DONE") /\ "CLUMP_DONE" \in Statuses
      /\ UNCHANGED owner
  BY DEF SubRet, Statuses
<1>2. /\ Running \in Clumps /\ RunQ \in Queues /\ ProgStatus = "PROG_RUNNING"
      /\ Mutexes \subseteq Queues /\ RunQ \notin Mutexes
      /\ ~OffQueues(queue, Running)
  BY <1>1, RunningIsAwake
<1>3. caller \in Clumps /\ OffQueues(queue, caller)
  <2>1. caller # NOT_A_CLUMP /\ inCall[caller] = Running
    BY <1>1, <1>2 DEF IInv, LiveSubroutines, Live
  <2>2. caller \in Clumps /\ Running # NOT_A_CLUMP
    BY <1>2, <2>1, ClumpIds DEF IInv, TypeOK, Ids
  <2>3. QED
    BY <2>1, <2>2 DEF IInv, CallsConsistent
<1> HIDE DEF caller
<1>4. /\ Q \in QType /\ Exclusive(Q)
      /\ \A p \in Queues, d \in Clumps : p # RunQ =>
           (IsClumpOnQ(Q, p, d) <=> IsClumpOnQ(queue, p, d) \/ (p = RunQ /\ d = caller))
  BY <1>1, <1>2, <1>3, Handover
<1> HIDE DEF Q
<1>5. \A p \in Queues, d \in Clumps : IsClumpOnQ(queue', p, d) <=> IsClumpOnQ(Q, p, d)
  BY <1>1, <1>2, <1>4, ReturnProperties
<1>6. \A m \in Mutexes, d \in Clumps : IsClumpOnQ(queue', m, d) => IsClumpOnQ(queue, m, d)
  BY <1>2, <1>4, <1>5
<1>7. /\ inCall \in [Clumps -> Ids] /\ inCall' \in [Clumps -> Ids]
      /\ inCall'[caller] = NOT_A_CLUMP
      /\ \A d \in Clumps : d # caller => inCall'[d] = inCall[d]
  BY <1>1, <1>3 DEF IInv, TypeOK, Ids
<1>8. ASSUME NEW a \in Clumps, NEW n \in Mutexes, NEW w \in Clumps,
             IsClumpOnQ(queue', n, w), CallChainEnd(inCall', a, w)
      PROVE  CallChainEnd(inCall, a, w)
  <2>1. w # caller
    BY <1>2, <1>3, <1>6, <1>8 DEF OffQueues
  <2> DEFINE g == inCall'
  <2>2. /\ g \in [Clumps -> Ids] /\ \A d \in Clumps : d # caller => g[d] = inCall[d]
        /\ g[caller] = NOT_A_CLUMP /\ CallChainEnd(g, a, w)
    BY <1>7, <1>8
  <2> HIDE DEF g
  <2>3. QED
    BY <1>3, <1>7, <2>1, <2>2, Rerouted
<1>9. \A m \in Mutexes : owner'[m] = owner[m]
  BY <1>1
<1>10. QED
  BY <1>6, <1>8, <1>9, NobodyWaits

\* STOPCLUMP: the next owners of the stopped clump's mutexes run.
LEMMA StopClumpOrder ==
  ASSUME WellFormed, IInv, RInv, WInv, NEW c \in Stoppable, StopClump(c)
  PROVE  WInv'
<1>1. PICK clump \in Clumps : Stopped(c, clump)
  BY StopClumpEffect
<1>2. Executing /\ UNCHANGED inCall
  BY DEF StopClump
<1>3. /\ Mutexes \subseteq Queues /\ Exclusive(queue) /\ inCall \in [Clumps -> Ids]
  BY <1>2, RunningIsAwake DEF IInv, TypeOK
<1>4. \A m \in Mutexes, d \in Clumps : IsClumpOnQ(queue', m, d) => IsClumpOnQ(queue, m, d)
  BY <1>1 DEF Stopped
<1>5. ASSUME NEW m \in Mutexes, owner'[m] # owner[m], owner'[m] \in Clumps
      PROVE  \A n \in Mutexes, w \in Clumps :
               ~(IsClumpOnQ(queue', n, w) /\ CallChainEnd(inCall', owner'[m], w))
  <2> DEFINE h == owner'[m]
  <2>1. IsClumpOnQ(queue, m, h) /\ ~IsClumpOnQ(queue', m, h)
    BY <1>1, <1>5, ClumpIds DEF Stopped
  <2>2. h \in Clumps
    BY <1>5
  <2> HIDE DEF h
  <2>3. inCall[h] = NOT_A_CLUMP
    BY <1>3, <2>1, <2>2 DEF IInv, CallsConsistent, OffQueues
  <2>4. \A n \in Mutexes : ~IsClumpOnQ(queue', n, h)
    <3> SUFFICES ASSUME NEW n \in Mutexes, IsClumpOnQ(queue', n, h) PROVE FALSE
      OBVIOUS
    <3>1. IsClumpOnQ(queue, n, h)
      BY <1>4, <2>2
    <3>2. n = m
      BY <1>3, <2>1, <3>1 DEF IsClumpOnQ, Exclusive
    <3>3. QED
      BY <2>1, <3>2
  <2>5. QED
    BY <1>2, <1>3, <2>2, <2>3, <2>4, NotWaiting DEF h
<1>6. QED
  BY <1>2, <1>4, <1>5, NobodyWaits

-----------------------------------------------------------------------------
(***************************************************************************)
(* Nobody is left waiting.                                                 *)
(***************************************************************************)
LEMMA NextOrder ==
  ASSUME WellFormed, Ordered, IInv, RInv, WInv, [Next]_vars
  PROVE  WInv'
<1>1. CASE \/ \E t \in Tick .. MaxTick : Pass(t)
           \/ Enter
           \/ EnterEmpty
           \/ \E status \in {"ROTATE_QUEUE", "TIMES_UP"} : Preempt(status)
  BY <1>1, ControlOrder
<1>2. CASE Executing /\ Instruction
  <2>1. CASE \E m \in Mutexes : Acquire(m) \/ Release(m)
    BY <2>1, AcquireOrder, ReleaseOrder
  <2>2. CASE \E c \in Callable : SubCall(c)
    BY <2>2, SubCallOrder
  <2>3. CASE SubRet
    BY <2>3, SubRetOrder
  <2>4. CASE \E begin \in 1 .. Len(Dependents[Running]) + 1 :
               \E end \in begin - 1 .. Len(Dependents[Running]) : FinClump(begin, end)
    BY <2>4, FinClumpOrder
  <2>5. CASE \E time \in 0 .. MaxSleep : Wait(time)
    BY <2>5, WaitOrder
  <2>6. CASE \E c \in Stoppable : StopClump(c)
    BY <2>6, StopClumpOrder
  <2>7. CASE \E c \in Startable : StartClump(c)
    BY <2>7, StartClumpOrder
  <2>8. CASE \E status \in {"STOP_REQ", "ERROR"} : EndProgram(status)
    BY <2>8, ControlOrder
  <2>9. QED
    BY <1>2, <2>1, <2>2, <2>3, <2>4, <2>5, <2>6, <2>7, <2>8 DEF Instruction
<1>3. CASE Activate
  BY <1>3, ActivateOrder
<1>4. CASE UNCHANGED vars
  <2>1. UNCHANGED <<queue, owner, inCall>>
    BY <1>4 DEF vars
  <2>2. QED
    BY <2>1, NothingHappens
<1>5. QED
  BY <1>1, <1>2, <1>3, <1>4 DEF Next

\* Where nothing runs or sleeps, every owner waits for a later mutex.
LEMMA OwnersWaitForLater ==
  ASSUME IInv, RInv, WInv, ProgStatus = "PROG_OK",
         queue[RunQ] = <<>>, queue[RestQ] = <<>>,
         \A c \in Clumps : inCall[c] = NOT_A_CLUMP,
         NEW m \in Mutexes, queue[m] # <<>>
  PROVE  \E n \in Mutexes : queue[n] # <<>> /\ Before(m, n)
<1> DEFINE o == owner[m]
<1>1. o \in Clumps
  BY DEF IInv, WaitersHaveOwner, TypeOK, Ids
<1>2. active # o
  BY <1>1, ClumpIds DEF IInv, TypeOK
<1>3. ~OffQueues(queue, o)
  <2>1. ~Idle(o)
    BY <1>1, RInvImplies DEF IdleIsOver
  <2>2. QED
    BY <1>1, <1>2, <2>1 DEF Idle
<1>4. PICK n \in Queues : IsClumpOnQ(queue, n, o)
  BY <1>3 DEF OffQueues
<1>5. queue[n] # <<>>
  BY <1>4 DEF IsClumpOnQ
<1>6. n \in Mutexes
  BY <1>5 DEF Queues
<1>7. CallChainEnd(inCall, o, o)
  <2>1. inCall \in [Clumps -> Ids] /\ inCall[o] = NOT_A_CLUMP
    BY <1>1 DEF IInv, TypeOK
  <2> HIDE DEF o
  <2>2. QED
    BY <1>1, <2>1, ChainOfOne
<1>8. QED
  BY <1>1, <1>4, <1>5, <1>6, <1>7 DEF WInv

LEMMA NobodyLeft ==
  ASSUME IInv, RInv, WInv
  PROVE  NoStrandedWaiter
<1> SUFFICES ASSUME ProgStatus = "PROG_OK", queue[RunQ] = <<>>, queue[RestQ] = <<>>,
                    \A c \in Clumps : inCall[c] = NOT_A_CLUMP,
                    NEW m0 \in Mutexes, queue[m0] # <<>>
             PROVE  FALSE
  BY DEF NoStrandedWaiter
<1> DEFINE waited == {i \in DOMAIN MutexTOC : MutexTOC[i] \in Mutexes /\ queue[MutexTOC[i]] # <<>>}
           T == {Len(MutexTOC) - i : i \in waited}
<1>1. Len(MutexTOC) \in Nat /\ DOMAIN MutexTOC = 1 .. Len(MutexTOC)
  BY SchedulerConstants
<1>2. \A m \in Mutexes : queue[m] # <<>> =>
        \E n \in Mutexes : queue[n] # <<>> /\ Before(m, n)
  BY OwnersWaitForLater
<1>3. T \in SUBSET Nat
  BY <1>1
<1>4. T # {}
  <2>1. PICK n \in Mutexes : queue[n] # <<>> /\ Before(m0, n)
    BY <1>2
  <2>2. PICK j \in DOMAIN MutexTOC : MutexTOC[j] = n
    BY <2>1 DEF Before
  <2>3. QED
    BY <2>1, <2>2
<1>5. PICK t \in T : \A k \in T : t <= k
  <2> HIDE DEF T
  <2>1. QED
    BY <1>3, <1>4, LeastNat
<1>6. PICK i \in waited : t = Len(MutexTOC) - i
  OBVIOUS
<1>7. PICK n \in Mutexes : queue[n] # <<>> /\ Before(MutexTOC[i], n)
  BY <1>2
<1>8. PICK k \in DOMAIN MutexTOC, j \in DOMAIN MutexTOC :
        k < j /\ MutexTOC[k] = MutexTOC[i] /\ MutexTOC[j] = n
  BY <1>7 DEF Before
<1>9. k = i
  BY <1>8, MutexesListedOnce
<1>10. j \in waited
  BY <1>7, <1>8
<1>11. t <= Len(MutexTOC) - j
  BY <1>5, <1>10
<1>12. QED
  BY <1>1, <1>6, <1>8, <1>9, <1>11

\* No deadlock of mutexes: where the program acquires them in their order, it
\* ends with nobody left in a WaitQ.
THEOREM NobodyStranded ==
  ASSUME WellFormed, Disciplined, Ordered PROVE Spec => []NoStrandedWaiter
<1>1. Init => RInv /\ WInv
  BY InitRInv, InitOrder
<1>2. IInv /\ RInv /\ WInv /\ [Next]_vars => RInv' /\ WInv'
  BY NextRestart, NextOrder
<1>3. IInv /\ RInv /\ WInv => NoStrandedWaiter
  BY NobodyLeft
<1>4. QED
  BY <1>1, <1>2, <1>3, Invariance, PTL DEF Spec

-----------------------------------------------------------------------------
(***************************************************************************)
(* The queues as the code keeps them (ClumpLists): heads, tails and one    *)
(* Link for each clump implement the queues of ClumpFifo, which the        *)
(* scheduler computes with.                                                *)
(***************************************************************************)
\* A head h, a tail t and links L that make up the queue s.
List(h, t, L, s) ==
  /\ s = <<>> => h = NOT_A_CLUMP /\ t = NOT_A_CLUMP
  /\ s # <<>> => h = s[1] /\ t = s[Len(s)] /\ L[t] = NOT_A_CLUMP
  /\ \A i \in 1 .. Len(s) - 1 : L[s[i]] = s[i + 1]

\* No clump is twice on the queues.
Once(qs) ==
  \A p, q \in Linked!Queues :
    \A i \in DOMAIN qs[p], j \in DOMAIN qs[q] : qs[p][i] = qs[q][j] => p = q /\ i = j

\* Heads, tails and links that make up the queues qs.
Lists(H, T, L, qs) ==
  /\ H \in [Linked!Queues -> Ids] /\ T \in [Linked!Queues -> Ids] /\ L \in [Clumps -> Ids]
  /\ qs \in [Linked!Queues -> Seq(Clumps)]
  /\ Once(qs)
  /\ \A q \in Linked!Queues : List(H[q], T[q], L, qs[q])

\* The invariant: the queues are lists.
LinkedInv == \E qs : Lists(QHead, QTail, Link, qs)

-----------------------------------------------------------------------------
(***************************************************************************)
(* Walking along a list.                                                   *)
(***************************************************************************)

\* Walk, of any heads and links.
WalkIn(H, L, q) ==
  LET steps == 1 .. Cardinality(Clumps) + 1
      met[n \in steps] ==
        IF n = 1 THEN H[q]
        ELSE LET last == met[n - 1]
             IN  IF last = NOT_A_CLUMP THEN NOT_A_CLUMP ELSE L[last]
  IN  [n \in {i \in steps : met[i] # NOT_A_CLUMP} |-> met[n]]

LEMMA WalkIsWalk ==
  ASSUME NEW q
  PROVE  Linked!Walk(q) = WalkIn(QHead, Link, q) /\ Linked!Walk(q)' = WalkIn(QHead', Link', q)
BY DEF Linked!Walk, WalkIn, Linked!Cardinality, Cardinality

\* A list has no more members than there are clumps.
LEMMA ListIsShort ==
  ASSUME NEW s \in Seq(Clumps), \A i, j \in DOMAIN s : s[i] = s[j] => i = j
  PROVE  Len(s) \in Nat /\ Cardinality(Clumps) \in Nat /\ Len(s) <= Cardinality(Clumps)
<1>1. s \in [1 .. Len(s) -> Clumps] /\ Len(s) \in Nat
  OBVIOUS
<1>2. s \in Injection(1 .. Len(s), Clumps)
  BY <1>1 DEF Injection, IsInjective
<1>3. Cardinality(1 .. Len(s)) <= Cardinality(Clumps)
  BY <1>2, FS_Injection, ClumpIds
<1>4. Cardinality(1 .. Len(s)) = Len(s)
  <2> DEFINE n == Len(s)
  <2>1. n \in Nat
    OBVIOUS
  <2> HIDE DEF n
  <2>2. Cardinality(1 .. n) = IF 1 > n THEN 0 ELSE n - 1 + 1
    BY <2>1, FS_Interval
  <2>3. Cardinality(1 .. n) = n
    BY <2>1, <2>2
  <2>4. QED
    BY <2>3 DEF n
<1>5. Cardinality(Clumps) \in Nat
  BY FS_CardinalityType, ClumpIds
<1>6. QED
  BY <1>1, <1>3, <1>4, <1>5

\* A walk along a list meets its members.
LEMMA WalkOfList ==
  ASSUME NEW H, NEW T, NEW L, NEW qs, Lists(H, T, L, qs), NEW q \in Linked!Queues
  PROVE  WalkIn(H, L, q) = qs[q]
<1> DEFINE s == qs[q]
           limit == Cardinality(Clumps) + 1
           steps == 1 .. limit
           After(x) == IF x = NOT_A_CLUMP THEN NOT_A_CLUMP ELSE L[x]
           g == [n \in steps |-> IF n <= Len(s) THEN s[n] ELSE NOT_A_CLUMP]
           met[n \in steps] ==
             IF n = 1 THEN H[q]
             ELSE LET last == met[n - 1]
                  IN  IF last = NOT_A_CLUMP THEN NOT_A_CLUMP ELSE L[last]
<1>0. WalkIn(H, L, q) = [n \in {i \in steps : met[i] # NOT_A_CLUMP} |-> met[n]]
  BY DEF WalkIn
<1>1. s \in Seq(Clumps) /\ \A i, j \in DOMAIN s : s[i] = s[j] => i = j
  BY DEF Lists, Once
<1>2. List(H[q], T[q], L, s)
  BY DEF Lists
<1>3. Len(s) \in Nat /\ limit \in Nat /\ Len(s) < limit
  BY <1>1, ListIsShort
<1> HIDE DEF s, limit
<1>4. \A i \in 1 .. Len(s) : s[i] \in Clumps /\ s[i] # NOT_A_CLUMP
  BY <1>1, ClumpIds
<1>5. ASSUME NEW n \in steps
      PROVE  g[n] = IF n = 1 THEN H[q] ELSE After(g[n - 1])
  <2>1. CASE n = 1
    BY <2>1, <1>2, <1>3 DEF List
  <2>2. CASE n # 1 /\ n <= Len(s)
    BY <2>2, <1>2, <1>3, <1>4 DEF List
  <2>3. CASE n # 1 /\ n = Len(s) + 1
    BY <2>3, <1>2, <1>3, <1>4 DEF List
  <2>4. CASE n # 1 /\ n > Len(s) + 1
    BY <2>4, <1>3
  <2>5. QED
    BY <1>3, <2>1, <2>2, <2>3, <2>4
<1>6. g = [n \in steps |-> IF n = 1 THEN H[q] ELSE After(g[n - 1])]
  <2> HIDE DEF After
  <2> DEFINE f == [n \in steps |-> IF n = 1 THEN H[q] ELSE After(g[n - 1])]
  <2>1. \A n \in steps : g[n] = f[n]
    BY <1>5
  <2>2. QED
    BY <2>1
<1>7. \E f : f = [n \in steps |-> IF n = 1 THEN H[q] ELSE After(f[n - 1])]
  <2> HIDE DEF g, After
  <2>1. QED
    BY <1>6
<1>8. met = [n \in steps |-> IF n = 1 THEN H[q] ELSE After(met[n - 1])]
  BY <1>7
<1> HIDE DEF met, After
<1>9. \A n \in steps : met[n] = IF n = 1 THEN H[q] ELSE After(met[n - 1])
  BY <1>8
<1> HIDE DEF g
<1>10. \A n \in steps : met[n] = g[n]
  <2> DEFINE wrong == {n \in steps : met[n] # g[n]}
  <2> SUFFICES ASSUME wrong # {} PROVE FALSE
    OBVIOUS
  <2>1. wrong \in SUBSET Nat
    BY <1>3
  <2>2. PICK n \in wrong : \A k \in wrong : n <= k
    BY <2>1, LeastNat
  <2>3. n \in steps /\ n \in Nat /\ n >= 1 /\ met[n] # g[n]
    BY <1>3
  <2>4. CASE n = 1
    BY <2>3, <2>4, <1>5, <1>9
  <2>5. CASE n # 1
    <3>1. n - 1 \in steps /\ n - 1 \notin wrong
      BY <2>2, <2>3, <2>5, <1>3
    <3>2. met[n - 1] = g[n - 1]
      BY <3>1
    <3>3. QED
      BY <3>2, <2>3, <2>5, <1>5, <1>9
  <2>6. QED
    BY <2>4, <2>5
<1>11. {i \in steps : met[i] # NOT_A_CLUMP} = 1 .. Len(s)
  BY <1>3, <1>4, <1>10 DEF g
<1>12. \A n \in 1 .. Len(s) : met[n] = s[n]
  BY <1>3, <1>10 DEF g
<1>13. [n \in {i \in steps : met[i] # NOT_A_CLUMP} |-> met[n]] = s
  <2> DEFINE D == {i \in steps : met[i] # NOT_A_CLUMP}
             w == [n \in D |-> met[n]]
  <2>1. D = 1 .. Len(s)
    BY <1>11
  <2> HIDE DEF D
  <2>2. w = [n \in 1 .. Len(s) |-> s[n]]
    BY <2>1, <1>12
  <2>3. s = [n \in 1 .. Len(s) |-> s[n]]
    BY <1>1
  <2>4. w = s
    BY <2>2, <2>3
  <2>5. QED
    BY <2>4 DEF D
<1>14. QED
  BY <1>0, <1>13 DEF s

-----------------------------------------------------------------------------
(***************************************************************************)
(* The operations on lists.                                                *)
(***************************************************************************)

\* Who is on a queue.
LEMMA OnQ ==
  ASSUME NEW qs, Lists(QHead, QTail, Link, qs), NEW q \in Linked!Queues, NEW c
  PROVE  Linked!IsClumpOnQ(q, c) <=> \E i \in DOMAIN qs[q] : qs[q][i] = c
BY WalkIsWalk, WalkOfList DEF Linked!IsClumpOnQ

\* A list whose links stay.
LEMMA Unmoved ==
  ASSUME NEW h, NEW t, NEW L, NEW K, NEW s \in Seq(Clumps), List(h, t, L, s),
         \A i \in DOMAIN s : K[s[i]] = L[s[i]]
  PROVE  List(h, t, K, s)
<1>1. Len(s) \in Nat /\ DOMAIN s = 1 .. Len(s)
  OBVIOUS
<1>2. s # <<>> => Len(s) \in DOMAIN s
  BY <1>1
<1>3. s # <<>> => K[t] = NOT_A_CLUMP
  BY <1>2 DEF List
<1>4. ASSUME NEW i \in 1 .. Len(s) - 1 PROVE K[s[i]] = s[i + 1]
  BY <1>1 DEF List
<1>5. QED
  BY <1>3, <1>4 DEF List

\* Ends of a queue.
LEMMA Ends ==
  ASSUME NEW qs, Lists(QHead, QTail, Link, qs), NEW q \in Linked!Queues
  PROVE  /\ qs[q] \in Seq(Clumps) /\ Len(qs[q]) \in Nat
         /\ qs[q] = <<>> <=> Len(qs[q]) = 0
         /\ qs[q] = <<>> <=> QHead[q] = NOT_A_CLUMP
         /\ qs[q] = <<>> <=> QTail[q] = NOT_A_CLUMP
         /\ qs[q] # <<>> => /\ QHead[q] = qs[q][1] /\ QTail[q] = qs[q][Len(qs[q])]
                            /\ QHead[q] \in Clumps /\ QTail[q] \in Clumps
                            /\ Link[QTail[q]] = NOT_A_CLUMP
         /\ \A i \in 1 .. Len(qs[q]) : qs[q][i] \in Clumps
         /\ \A i \in 1 .. Len(qs[q]) - 1 : Link[qs[q][i]] = qs[q][i + 1]
         /\ \A i, j \in 1 .. Len(qs[q]) : qs[q][i] = qs[q][j] => i = j
<1> DEFINE s == qs[q]
<1>1. s \in Seq(Clumps) /\ List(QHead[q], QTail[q], Link, s)
  BY DEF Lists
<1>2. \A i, j \in DOMAIN s : s[i] = s[j] => i = j
  BY DEF Lists, Once
<1> HIDE DEF s
<1>3. Len(s) \in Nat /\ DOMAIN s = 1 .. Len(s) /\ \A i \in 1 .. Len(s) : s[i] \in Clumps
  BY <1>1
<1>4. s = <<>> <=> Len(s) = 0
  BY <1>1
<1>5. CASE s = <<>>
  <2>1. QHead[q] = NOT_A_CLUMP /\ QTail[q] = NOT_A_CLUMP /\ Len(s) = 0
    BY <1>1, <1>4, <1>5 DEF List
  <2>2. QED
    BY <1>1, <1>3, <1>5, <2>1 DEF s
<1>6. CASE s # <<>>
  <2>1. Len(s) # 0 /\ Len(s) \in 1 .. Len(s) /\ 1 \in 1 .. Len(s)
    BY <1>3, <1>4, <1>6
  <2>2. /\ QHead[q] = s[1] /\ QTail[q] = s[Len(s)] /\ Link[QTail[q]] = NOT_A_CLUMP
        /\ \A i \in 1 .. Len(s) - 1 : Link[s[i]] = s[i + 1]
    BY <1>1, <1>6 DEF List
  <2>3. QHead[q] \in Clumps /\ QTail[q] \in Clumps
    BY <1>3, <2>1, <2>2
  <2>4. QED
    BY <1>1, <1>2, <1>3, <1>6, <2>1, <2>2, <2>3, ClumpIds DEF s
<1>7. QED
  BY <1>5, <1>6

\* What changes on one queue and is elsewhere as before is a change of the lists.
LEMMA OneChanges ==
  ASSUME NEW qs, NEW q \in Linked!Queues, NEW w \in Seq(Clumps),
         NEW H, NEW T, NEW K \in [Clumps -> Ids],
         Lists(QHead, QTail, Link, qs),
         H \in [Linked!Queues -> Ids], T \in [Linked!Queues -> Ids],
         \A p \in Linked!Queues : p # q => H[p] = QHead[p] /\ T[p] = QTail[p],
         List(H[q], T[q], K, w),
         \A i, j \in DOMAIN w : w[i] = w[j] => i = j,
         \A p \in Linked!Queues : p # q => \A i \in DOMAIN qs[p] :
            K[qs[p][i]] = Link[qs[p][i]] /\ \A j \in DOMAIN w : w[j] # qs[p][i]
  PROVE  Lists(H, T, K, [qs EXCEPT ![q] = w])
<1> DEFINE r == [qs EXCEPT ![q] = w]
<1>1. qs \in [Linked!Queues -> Seq(Clumps)] /\ Once(qs)
  BY DEF Lists
<1>2. r \in [Linked!Queues -> Seq(Clumps)] /\ r[q] = w /\ \A p \in Linked!Queues : p # q => r[p] = qs[p]
  BY <1>1
<1> HIDE DEF r
<1>3. Once(r)
  <2> SUFFICES ASSUME NEW a \in Linked!Queues, NEW b \in Linked!Queues,
                      NEW i \in DOMAIN r[a], NEW j \in DOMAIN r[b], r[a][i] = r[b][j]
               PROVE  a = b /\ i = j
    BY DEF Once
  <2>1. CASE a = q /\ b = q
    BY <1>2, <2>1
  <2>2. CASE a = q /\ b # q
    <3>1. r[a] = w /\ r[b] = qs[b] /\ i \in DOMAIN w /\ j \in DOMAIN qs[b]
      BY <1>2, <2>2
    <3>2. w[i] # qs[b][j]
      BY <2>2, <3>1
    <3>3. QED
      BY <3>1, <3>2
  <2>3. CASE a # q /\ b = q
    <3>1. r[b] = w /\ r[a] = qs[a] /\ j \in DOMAIN w /\ i \in DOMAIN qs[a]
      BY <1>2, <2>3
    <3>2. w[j] # qs[a][i]
      BY <2>3, <3>1
    <3>3. QED
      BY <3>1, <3>2
  <2>4. CASE a # q /\ b # q
    BY <1>1, <1>2, <2>4 DEF Once
  <2>5. QED
    BY <2>1, <2>2, <2>3, <2>4
<1>4. ASSUME NEW p \in Linked!Queues PROVE List(H[p], T[p], K, r[p])
  <2>1. CASE p = q
    BY <1>2, <2>1
  <2>2. CASE p # q
    <3>1. List(QHead[p], QTail[p], Link, qs[p]) /\ qs[p] \in Seq(Clumps)
      BY <1>1 DEF Lists
    <3>2. List(QHead[p], QTail[p], K, qs[p])
      BY <2>2, <3>1, Unmoved
    <3>3. QED
      BY <1>2, <2>2, <3>2
  <2>3. QED
    BY <2>1, <2>2
<1>5. QED
  BY <1>2, <1>3, <1>4 DEF Lists, r

\* A clump joins at the end.
LEMMA EnQLists ==
  ASSUME NEW qs, Lists(QHead, QTail, Link, qs), NEW q \in Linked!Queues, NEW c \in Clumps,
         Linked!EnQClump(q, c)
  PROVE  /\ \A p \in Linked!Queues : \A i \in DOMAIN qs[p] : qs[p][i] # c
         /\ Lists(QHead', QTail', Link', [qs EXCEPT ![q] = Append(@, c)])
<1> DEFINE s == qs[q]
           w == Append(s, c)
<1>1. /\ QHead \in [Linked!Queues -> Ids] /\ QTail \in [Linked!Queues -> Ids] /\ Link \in [Clumps -> Ids]
      /\ qs \in [Linked!Queues -> Seq(Clumps)] /\ Once(qs)
  BY DEF Lists
<1>2. \A p \in Linked!Queues : \A i \in DOMAIN qs[p] : qs[p][i] # c
  BY OnQ DEF Linked!EnQClump
<1>3. /\ s \in Seq(Clumps) /\ Len(s) \in Nat /\ DOMAIN s = 1 .. Len(s)
      /\ s = <<>> <=> Len(s) = 0
      /\ s = <<>> <=> QHead[q] = NOT_A_CLUMP
      /\ s # <<>> => /\ QHead[q] = s[1] /\ QTail[q] = s[Len(s)] /\ QTail[q] \in Clumps
                     /\ Link[QTail[q]] = NOT_A_CLUMP
      /\ \A i \in 1 .. Len(s) : s[i] \in Clumps
      /\ \A i \in 1 .. Len(s) - 1 : Link[s[i]] = s[i + 1]
      /\ \A i, j \in 1 .. Len(s) : s[i] = s[j] => i = j
  BY Ends
<1>4. \A i \in 1 .. Len(s) : s[i] # c
  BY <1>2, <1>3
<1>5. \A p \in Linked!Queues : p # q => \A i \in DOMAIN qs[p], j \in 1 .. Len(s) : qs[p][i] # s[j]
  BY <1>1, <1>3 DEF Once
<1> HIDE DEF s
<1>6. /\ w \in Seq(Clumps) /\ Len(w) = Len(s) + 1 /\ DOMAIN w = 1 .. Len(s) + 1
      /\ w[Len(s) + 1] = c /\ \A i \in 1 .. Len(s) : w[i] = s[i]
  BY <1>3
<1> HIDE DEF w
<1>7. \A i, j \in DOMAIN w : w[i] = w[j] => i = j
  BY <1>3, <1>4, <1>6
<1>8. \A p \in Linked!Queues : p # q => \A i \in DOMAIN qs[p], j \in DOMAIN w : w[j] # qs[p][i]
  BY <1>2, <1>3, <1>5, <1>6
<1>9. QTail' = [QTail EXCEPT ![q] = c] /\ c \in Ids
  BY DEF Linked!EnQClump, Ids
<1>10. CASE QHead[q] = NOT_A_CLUMP
  <2>1. QHead' = [QHead EXCEPT ![q] = c] /\ Link' = [Link EXCEPT ![c] = NOT_A_CLUMP]
    BY <1>10 DEF Linked!EnQClump
  <2>2. Len(w) = 1 /\ w[1] = c /\ w # <<>>
    BY <1>3, <1>6, <1>10
  <2>3. List(QHead'[q], QTail'[q], Link', w)
    BY <1>1, <1>9, <2>1, <2>2 DEF List
  <2>4. \A p \in Linked!Queues : p # q => \A i \in DOMAIN qs[p] : Link'[qs[p][i]] = Link[qs[p][i]]
    BY <1>1, <1>2, <2>1
  <2>5. QHead' \in [Linked!Queues -> Ids] /\ QTail' \in [Linked!Queues -> Ids] /\ Link' \in [Clumps -> Ids]
    BY <1>1, <1>9, <2>1 DEF Ids
  <2>6. \A p \in Linked!Queues : p # q => QHead'[p] = QHead[p] /\ QTail'[p] = QTail[p]
    BY <1>1, <1>9, <2>1
  <2>7. \A p \in Linked!Queues : p # q => \A i \in DOMAIN qs[p] :
          Link'[qs[p][i]] = Link[qs[p][i]] /\ \A j \in DOMAIN w : w[j] # qs[p][i]
    BY <1>8, <2>4
  <2>8. Lists(QHead', QTail', Link', [qs EXCEPT ![q] = w])
    BY <1>6, <1>7, <2>3, <2>5, <2>6, <2>7, OneChanges
  <2>9. QED
    BY <1>2, <2>8 DEF w, s
<1>11. CASE QHead[q] # NOT_A_CLUMP
  <2>1. QHead' = QHead /\ Link' = [Link EXCEPT ![c] = NOT_A_CLUMP, ![QTail[q]] = c]
    BY <1>11 DEF Linked!EnQClump
  <2>2. s # <<>> /\ Len(s) >= 1 /\ QTail[q] = s[Len(s)] /\ QTail[q] # c
    BY <1>3, <1>4, <1>11
  <2>3. /\ Link' \in [Clumps -> Ids] /\ Link'[c] = NOT_A_CLUMP /\ Link'[QTail[q]] = c
        /\ \A d \in Clumps : d # c /\ d # QTail[q] => Link'[d] = Link[d]
    BY <1>1, <1>3, <2>1, <2>2 DEF Ids
  <2>4. ASSUME NEW i \in 1 .. Len(w) - 1 PROVE Link'[w[i]] = w[i + 1]
    <3>1. i \in Int /\ 1 <= i /\ i <= Len(s) /\ i \in 1 .. Len(s) /\ w[i] = s[i]
      BY <1>3, <1>6
    <3>2. CASE i = Len(s)
      <4>1. w[i] = QTail[q] /\ w[i + 1] = c
        BY <1>6, <2>2, <3>1, <3>2
      <4>2. QED
        BY <2>3, <4>1
    <3>3. CASE i # Len(s)
      <4>0. Len(s) \in Int
        BY <1>3
      <4>1. i \in 1 .. Len(s) - 1 /\ i + 1 \in 1 .. Len(s) /\ Len(s) \in 1 .. Len(s)
        BY <3>1, <3>3, <4>0
      <4>2. s[i] # c /\ s[i] # QTail[q] /\ s[i] \in Clumps
        <5>1. s[i] # s[Len(s)] /\ s[i] \in Clumps
          BY <1>3, <3>1, <3>3, <4>1
        <5>2. QED
          BY <1>4, <2>2, <3>1, <5>1
      <4>3. w[i + 1] = s[i + 1] /\ Link[s[i]] = s[i + 1]
        BY <1>3, <1>6, <4>1
      <4>4. Link'[s[i]] = Link[s[i]]
        BY <2>3, <4>2
      <4>5. QED
        BY <3>1, <4>3, <4>4
    <3>4. QED
      BY <3>2, <3>3
  <2>5. List(QHead'[q], QTail'[q], Link', w)
    <3>1. QHead'[q] = w[1] /\ QTail'[q] = w[Len(w)]
      BY <1>1, <1>3, <1>6, <1>9, <2>1, <2>2
    <3>2. w # <<>>
      BY <1>3, <1>6
    <3>3. QTail'[q] = c
      BY <1>1, <1>9
    <3>4. QED
      BY <2>3, <2>4, <3>1, <3>2, <3>3 DEF List
  <2>6. \A p \in Linked!Queues : p # q => \A i \in DOMAIN qs[p] : Link'[qs[p][i]] = Link[qs[p][i]]
    <3>1. \A p \in Linked!Queues : \A i \in DOMAIN qs[p] : qs[p][i] \in Clumps
      BY <1>1
    <3>2. Len(s) \in 1 .. Len(s)
      BY <1>3, <2>2
    <3>3. QED
      BY <1>2, <1>5, <2>2, <2>3, <3>1, <3>2
  <2>7. QHead' \in [Linked!Queues -> Ids] /\ QTail' \in [Linked!Queues -> Ids]
    BY <1>1, <1>9, <2>1
  <2>8. \A p \in Linked!Queues : p # q => QHead'[p] = QHead[p] /\ QTail'[p] = QTail[p]
    BY <1>1, <1>9, <2>1
  <2>9. \A p \in Linked!Queues : p # q => \A i \in DOMAIN qs[p] :
          Link'[qs[p][i]] = Link[qs[p][i]] /\ \A j \in DOMAIN w : w[j] # qs[p][i]
    BY <1>8, <2>6
  <2>10. Lists(QHead', QTail', Link', [qs EXCEPT ![q] = w])
    BY <1>6, <1>7, <2>3, <2>5, <2>7, <2>8, <2>9, OneChanges
  <2>11. QED
    BY <1>2, <2>10 DEF w, s
<1>12. QED
  BY <1>10, <1>11

\* Taking out the member at k.
LEMMA TakenOut ==
  ASSUME NEW s \in Seq(Clumps), NEW k \in 1 .. Len(s),
         \A i, j \in 1 .. Len(s) : s[i] = s[j] => i = j
  PROVE  Linked!Fifo!Without(s, s[k]) = [i \in 1 .. Len(s) - 1 |-> IF i < k THEN s[i] ELSE s[i + 1]]
<1> DEFINE P(j) == s[j] = s[k] /\ \A i \in DOMAIN s : s[i] = s[k] => j <= i
           c == CHOOSE j \in DOMAIN s : P(j)
<1>1. DOMAIN s = 1 .. Len(s) /\ Len(s) \in Nat
  OBVIOUS
<1>2. P(k)
  BY <1>1
<1>3. \A j \in DOMAIN s : P(j) => j = k
  BY <1>1
<1>4. c = k
  <2> HIDE DEF P
  <2>1. QED
    BY <1>1, <1>2, <1>3
<1>5. \E i \in DOMAIN s : s[i] = s[k]
  BY <1>1
<1>6. Linked!Fifo!Without(s, s[k]) = [i \in 1 .. Len(s) - 1 |-> IF i < c THEN s[i] ELSE s[i + 1]]
  BY <1>5 DEF Linked!Fifo!Without
<1> HIDE DEF c
<1>7. QED
  BY <1>4, <1>6

\* A clump leaves from wherever it stands.
LEMMA DeQLists ==
  ASSUME NEW qs, Lists(QHead, QTail, Link, qs), NEW q \in Linked!Queues, NEW c \in Clumps,
         Linked!DeQClump(q, c)
  PROVE  /\ \E i \in DOMAIN qs[q] : qs[q][i] = c
         /\ Lists(QHead', QTail', Link', [qs EXCEPT ![q] = Linked!Fifo!Without(@, c)])
<1> DEFINE s == qs[q]
           n == Len(s)
<1>1. /\ QHead \in [Linked!Queues -> Ids] /\ QTail \in [Linked!Queues -> Ids] /\ Link \in [Clumps -> Ids]
      /\ qs \in [Linked!Queues -> Seq(Clumps)] /\ Once(qs)
  BY DEF Lists
<1>2. PICK k \in DOMAIN s : s[k] = c
  BY OnQ DEF Linked!DeQClump
<1>3. /\ s \in Seq(Clumps) /\ Len(s) \in Nat /\ DOMAIN s = 1 .. Len(s)
      /\ s = <<>> <=> Len(s) = 0
      /\ s # <<>> => /\ QHead[q] = s[1] /\ QTail[q] = s[Len(s)] /\ QTail[q] \in Clumps
                     /\ Link[QTail[q]] = NOT_A_CLUMP
      /\ \A i \in 1 .. Len(s) : s[i] \in Clumps
      /\ \A i \in 1 .. Len(s) - 1 : Link[s[i]] = s[i + 1]
      /\ \A i, j \in 1 .. Len(s) : s[i] = s[j] => i = j
  BY Ends
<1>4. \A p \in Linked!Queues : p # q => \A i \in DOMAIN qs[p], j \in 1 .. Len(s) : qs[p][i] # s[j]
  BY <1>1, <1>3 DEF Once
<1>5. n \in Nat /\ k \in Int /\ 1 <= k /\ k <= n /\ s # <<>>
  BY <1>2, <1>3
<1> DEFINE w == [i \in 1 .. n - 1 |-> IF i < k THEN s[i] ELSE s[i + 1]]
<1>6. Linked!Fifo!Without(s, c) = w
  <2>1. k \in 1 .. Len(s) /\ s \in Seq(Clumps) /\ \A i, j \in 1 .. Len(s) : s[i] = s[j] => i = j
    BY <1>2, <1>3
  <2> HIDE DEF s
  <2>2. Linked!Fifo!Without(s, s[k]) = w
    BY <2>1, TakenOut
  <2>3. QED
    BY <1>2, <2>2
<1>7. \E i \in DOMAIN qs[q] : qs[q][i] = c
  BY <1>2
<1> HIDE DEF s
<1>8. n - 1 \in Nat /\ \A i \in 1 .. n - 1 : i \in 1 .. n /\ i + 1 \in 1 .. n
  BY <1>5
<1>9. /\ w \in Seq(Clumps) /\ Len(w) = n - 1 /\ DOMAIN w = 1 .. n - 1
      /\ \A i \in 1 .. n - 1 : w[i] = IF i < k THEN s[i] ELSE s[i + 1]
  <2>1. w \in [1 .. n - 1 -> Clumps]
    BY <1>3, <1>8
  <2>2. QED
    BY <1>8, <2>1
<1> HIDE DEF w
<1>9a. w = <<>> <=> n = 1
  <2>1. w = <<>> <=> Len(w) = 0
    BY <1>9
  <2>2. QED
    BY <1>5, <1>9, <2>1
<1>10. \A i, j \in 1 .. n : s[i] = s[j] => i = j
  BY <1>3
<1>11. \A i \in 1 .. n : s[i] \in Clumps
  BY <1>3
<1>12. \A i \in 1 .. n - 1 : Link[s[i]] = s[i + 1]
  BY <1>3
<1>13. QHead[q] = s[1] /\ QTail[q] = s[n] /\ Link[s[n]] = NOT_A_CLUMP
  BY <1>3, <1>5
<1> HIDE DEF n
<1>14. \A i, j \in DOMAIN w : w[i] = w[j] => i = j
  <2> SUFFICES ASSUME NEW i \in 1 .. n - 1, NEW j \in 1 .. n - 1, w[i] = w[j] PROVE i = j
    BY <1>9
  <2>1. (IF i < k THEN i ELSE i + 1) = (IF j < k THEN j ELSE j + 1)
    BY <1>8, <1>9, <1>10
  <2>2. QED
    BY <1>5, <2>1
<1>15. \A p \in Linked!Queues : p # q => \A i \in DOMAIN qs[p], j \in DOMAIN w : w[j] # qs[p][i]
  <2>1. \A p \in Linked!Queues : p # q => \A i \in DOMAIN qs[p], j \in 1 .. n : qs[p][i] # s[j]
    BY <1>4 DEF n
  <2>2. \A j \in DOMAIN w : \E l \in 1 .. n : w[j] = s[l]
    BY <1>8, <1>9
  <2>3. QED
    BY <2>1, <2>2
<1>16. \A p \in Linked!Queues : p # q => \A i \in DOMAIN qs[p] :
         qs[p][i] \in Clumps /\ \A j \in 1 .. n : qs[p][i] # s[j]
  BY <1>1, <1>4 DEF n
<1>17. 1 \in 1 .. n /\ n \in 1 .. n /\ k \in 1 .. n /\ s[k] = c
  BY <1>2, <1>5
<1>18. Link[c] = IF k = n THEN NOT_A_CLUMP ELSE s[k + 1]
  BY <1>5, <1>12, <1>13, <1>17
<1>19. k # n => k + 1 \in 1 .. n /\ s[k + 1] \in Clumps /\ s[k + 1] # NOT_A_CLUMP
  BY <1>5, <1>11, ClumpIds
<1>20. CASE QHead[q] = c
  <2>1. k = 1
    BY <1>10, <1>13, <1>17, <1>20
  <2>2. /\ QHead' = [QHead EXCEPT ![q] = Link[c]]
        /\ QTail' = IF Link[c] = NOT_A_CLUMP THEN [QTail EXCEPT ![q] = NOT_A_CLUMP] ELSE QTail
        /\ Link' = [Link EXCEPT ![c] = NOT_A_CLUMP]
    BY <1>20 DEF Linked!DeQClump, Linked!DeQHead, Linked!DeQInner
  <2>3. /\ Link' \in [Clumps -> Ids] /\ \A d \in Clumps : d # c => Link'[d] = Link[d]
    BY <1>1, <2>2 DEF Ids
  <2>4. QHead' \in [Linked!Queues -> Ids] /\ QTail' \in [Linked!Queues -> Ids]
    BY <1>1, <2>2 DEF Ids
  <2>5. \A p \in Linked!Queues : p # q => QHead'[p] = QHead[p] /\ QTail'[p] = QTail[p]
    BY <1>1, <2>2
  <2>6. \A i \in 1 .. n - 1 : w[i] = s[i + 1] /\ s[i + 1] # c
    BY <1>8, <1>9, <1>10, <1>17, <2>1
  <2>7. ASSUME NEW i \in 1 .. n - 1 - 1 PROVE Link'[w[i]] = w[i + 1]
    <3>1. i \in 1 .. n - 1 /\ i + 1 \in 1 .. n - 1 /\ i + 1 \in 1 .. n
      BY <1>5
    <3>2. w[i] = s[i + 1] /\ w[i + 1] = s[i + 1 + 1] /\ s[i + 1] # c /\ s[i + 1] \in Clumps
      BY <1>11, <2>6, <3>1
    <3>3. Link[s[i + 1]] = s[i + 1 + 1]
      BY <1>12, <3>1
    <3>4. QED
      BY <2>3, <3>2, <3>3
  <2>8. ASSUME n = 1 PROVE List(QHead'[q], QTail'[q], Link', w)
    <3>1. QHead'[q] = NOT_A_CLUMP /\ QTail'[q] = NOT_A_CLUMP
      BY <1>1, <1>18, <2>1, <2>2, <2>8
    <3>2. w = <<>> /\ Len(w) = 0
      BY <1>9, <1>9a, <2>8
    <3>3. QED
      BY <3>1, <3>2 DEF List
  <2>9. ASSUME n # 1 PROVE List(QHead'[q], QTail'[q], Link', w)
    <3>1. QHead'[q] = s[2] /\ QTail'[q] = s[n]
      BY <1>1, <1>13, <1>18, <1>19, <2>1, <2>2, <2>9
    <3>2. 1 \in 1 .. n - 1 /\ n - 1 \in 1 .. n - 1 /\ n - 1 + 1 = n
      BY <1>5, <2>9
    <3>3. w[1] = s[2] /\ w[n - 1] = s[n] /\ s[n] # c
      BY <2>6, <3>2
    <3>4. Link'[s[n]] = NOT_A_CLUMP
      BY <1>11, <1>13, <1>17, <2>3, <3>3
    <3>5. w # <<>> /\ Len(w) = n - 1
      BY <1>9, <1>9a, <2>9
    <3>6. QED
      BY <2>7, <3>1, <3>3, <3>4, <3>5 DEF List
  <2>10. List(QHead'[q], QTail'[q], Link', w)
    BY <2>8, <2>9
  <2>11. \A p \in Linked!Queues : p # q => \A i \in DOMAIN qs[p] :
          Link'[qs[p][i]] = Link[qs[p][i]] /\ \A j \in DOMAIN w : w[j] # qs[p][i]
    BY <1>15, <1>16, <1>17, <2>3
  <2>12. Lists(QHead', QTail', Link', [qs EXCEPT ![q] = w])
    BY <1>9, <1>14, <2>3, <2>4, <2>5, <2>10, <2>11, OneChanges
  <2>13. QED
    BY <1>6, <1>7, <2>12 DEF s
<1>21. CASE QHead[q] # c
  <2>1. k # 1 /\ k - 1 \in 1 .. n /\ k - 1 \in 1 .. n - 1 /\ k - 1 + 1 = k
    BY <1>5, <1>13, <1>17, <1>21
  <2> DEFINE P(p) == Linked!IsClumpOnQ(q, p) /\ Link[p] = c
             pred == CHOOSE p \in Clumps : P(p)
  <2>2. \A p : Linked!IsClumpOnQ(q, p) <=> \E i \in 1 .. n : s[i] = p
    BY <1>3, OnQ DEF s, n
  <2>3. P(s[k - 1]) /\ s[k - 1] \in Clumps
    <3>1. Link[s[k - 1]] = s[k - 1 + 1]
      BY <1>12, <2>1
    <3>2. QED
      BY <1>11, <1>17, <2>1, <2>2, <3>1
  <2>4. ASSUME NEW p \in Clumps, P(p) PROVE p = s[k - 1]
    <3>1. PICK i \in 1 .. n : s[i] = p
      BY <2>2, <2>4
    <3>2. i # n
      BY <1>13, <2>4, <3>1, ClumpIds
    <3>3. i \in 1 .. n - 1 /\ i + 1 \in 1 .. n
      BY <1>5, <3>2
    <3>4. s[i + 1] = s[k]
      BY <1>12, <1>17, <2>4, <3>1, <3>3
    <3>5. i + 1 = k
      BY <1>10, <1>17, <3>3, <3>4
    <3>6. i = k - 1
      BY <1>5, <3>3, <3>5
    <3>7. QED
      BY <3>1, <3>6
  <2>5. pred = s[k - 1]
    <3> HIDE DEF P
    <3>1. QED
      BY <2>3, <2>4
  <2>6. /\ Link' = [Link EXCEPT ![pred] = Link[c], ![c] = NOT_A_CLUMP]
        /\ QTail' = IF QTail[q] = c THEN [QTail EXCEPT ![q] = pred] ELSE QTail
        /\ QHead' = QHead
    BY <1>21 DEF Linked!DeQClump, Linked!DeQHead, Linked!DeQInner
  <2> HIDE DEF pred
  <2>7. s[k - 1] # c
    BY <1>5, <1>10, <1>17, <2>1
  <2>8. /\ Link' \in [Clumps -> Ids] /\ Link'[s[k - 1]] = Link[c]
        /\ \A d \in Clumps : d # c /\ d # s[k - 1] => Link'[d] = Link[d]
    <3>1. Link[c] \in Ids /\ NOT_A_CLUMP \in Ids
      BY <1>1 DEF Ids
    <3>2. QED
      BY <1>1, <2>3, <2>5, <2>6, <2>7, <3>1
  <2>9. QHead' \in [Linked!Queues -> Ids] /\ QTail' \in [Linked!Queues -> Ids]
    BY <1>1, <2>3, <2>5, <2>6 DEF Ids
  <2>10. \A p \in Linked!Queues : p # q => QHead'[p] = QHead[p] /\ QTail'[p] = QTail[p]
    BY <1>1, <2>6
  <2>11. ASSUME NEW i \in 1 .. n - 1 - 1 PROVE Link'[w[i]] = w[i + 1]
    <3>1. i \in 1 .. n - 1 /\ i + 1 \in 1 .. n - 1 /\ i \in 1 .. n /\ i + 1 \in 1 .. n /\ i + 1 + 1 \in 1 .. n
      BY <1>5
    <3>2. CASE i + 1 < k
      <4>1. w[i] = s[i] /\ w[i + 1] = s[i + 1]
        BY <1>5, <1>9, <3>1, <3>2
      <4>2. s[i] # c /\ s[i] # s[k - 1] /\ s[i] \in Clumps
        BY <1>5, <1>10, <1>11, <1>17, <2>1, <3>1, <3>2
      <4>3. QED
        BY <1>12, <2>8, <3>1, <4>1, <4>2
    <3>3. CASE i + 1 = k
      <4>1. w[i] = s[k - 1] /\ w[i + 1] = s[k + 1]
        BY <1>5, <1>9, <3>1, <3>3
      <4>2. k # n
        BY <1>5, <3>1, <3>3
      <4>3. QED
        BY <1>18, <2>8, <4>1, <4>2
    <3>4. CASE i + 1 > k
      <4>1. w[i] = s[i + 1] /\ w[i + 1] = s[i + 1 + 1]
        BY <1>5, <1>9, <3>1, <3>4
      <4>2. s[i + 1] # c /\ s[i + 1] # s[k - 1] /\ s[i + 1] \in Clumps
        BY <1>5, <1>10, <1>11, <1>17, <2>1, <3>1, <3>4
      <4>3. Link[s[i + 1]] = s[i + 1 + 1]
        BY <1>12, <3>1
      <4>4. QED
        BY <2>8, <4>1, <4>2, <4>3
    <3>5. QED
      BY <1>5, <3>1, <3>2, <3>3, <3>4
  <2>12. n > 1 /\ 1 \in 1 .. n - 1 /\ n - 1 \in 1 .. n - 1 /\ n - 1 + 1 = n
    BY <1>5, <2>1
  <2>13. QHead'[q] = w[1]
    <3>1. w[1] = s[1]
      BY <1>5, <1>9, <2>1, <2>12
    <3>2. QED
      BY <1>13, <2>6, <3>1
  <2>14. QTail'[q] = w[n - 1] /\ Link'[w[n - 1]] = NOT_A_CLUMP
    <3>1. CASE k = n
      <4>1. QTail'[q] = s[k - 1]
        BY <1>1, <1>13, <1>17, <2>5, <2>6, <3>1
      <4>2. w[n - 1] = s[k - 1]
        BY <1>5, <1>9, <2>12, <3>1
      <4>3. QED
        BY <1>18, <2>8, <3>1, <4>1, <4>2
    <3>2. CASE k # n
      <4>1. w[n - 1] = s[n]
        BY <1>5, <1>9, <2>12, <3>2
      <4>2. s[n] # c /\ s[n] # s[k - 1] /\ s[n] \in Clumps
        BY <1>5, <1>10, <1>11, <1>17, <2>1, <3>2
      <4>3. QTail'[q] = s[n]
        BY <1>13, <2>6, <4>2
      <4>4. QED
        BY <1>13, <2>8, <4>1, <4>2, <4>3
    <3>3. QED
      BY <3>1, <3>2
  <2>15. List(QHead'[q], QTail'[q], Link', w)
    BY <1>9, <1>9a, <2>11, <2>12, <2>13, <2>14 DEF List
  <2>16. \A p \in Linked!Queues : p # q => \A i \in DOMAIN qs[p] :
          Link'[qs[p][i]] = Link[qs[p][i]] /\ \A j \in DOMAIN w : w[j] # qs[p][i]
    BY <1>15, <1>16, <1>17, <2>1, <2>8
  <2>17. Lists(QHead', QTail', Link', [qs EXCEPT ![q] = w])
    BY <1>9, <1>14, <2>8, <2>9, <2>10, <2>15, <2>16, OneChanges
  <2>18. QED
    BY <1>6, <1>7, <2>17 DEF s
<1>22. QED
  BY <1>20, <1>21

\* The head of the run queue becomes its tail.
LEMMA RotateLists ==
  ASSUME NEW qs, Lists(QHead, QTail, Link, qs), Linked!RotateQ, RunQ \in Linked!Queues
  PROVE  /\ Len(qs[RunQ]) \in Nat /\ Len(qs[RunQ]) >= 2
         /\ Lists(QHead', QTail', Link', [qs EXCEPT ![RunQ] = Append(Tail(@), Head(@))])
<1> DEFINE q == RunQ
           s == qs[q]
           n == Len(s)
           w == Append(Tail(s), Head(s))
<1>1. /\ QHead \in [Linked!Queues -> Ids] /\ QTail \in [Linked!Queues -> Ids] /\ Link \in [Clumps -> Ids]
      /\ qs \in [Linked!Queues -> Seq(Clumps)] /\ Once(qs)
  BY DEF Lists
<1>2. /\ s \in Seq(Clumps) /\ Len(s) \in Nat /\ DOMAIN s = 1 .. Len(s)
      /\ s = <<>> <=> Len(s) = 0
      /\ s = <<>> <=> QHead[q] = NOT_A_CLUMP
      /\ s = <<>> <=> QTail[q] = NOT_A_CLUMP
      /\ s # <<>> => /\ QHead[q] = s[1] /\ QTail[q] = s[Len(s)] /\ QTail[q] \in Clumps
                     /\ Link[QTail[q]] = NOT_A_CLUMP
      /\ \A i \in 1 .. Len(s) : s[i] \in Clumps
      /\ \A i \in 1 .. Len(s) - 1 : Link[s[i]] = s[i + 1]
      /\ \A i, j \in 1 .. Len(s) : s[i] = s[j] => i = j
  BY Ends
<1>3. \A p \in Linked!Queues : p # q => \A i \in DOMAIN qs[p], j \in 1 .. Len(s) : qs[p][i] # s[j]
  BY <1>1, <1>2 DEF Once
<1>4. \A p \in Linked!Queues : p # q => \A i \in DOMAIN qs[p] : qs[p][i] \in Clumps
  BY <1>1
<1>5. /\ QHead[q] # QTail[q]
      /\ QHead' = [QHead EXCEPT ![q] = Link[QHead[q]]]
      /\ QTail' = [QTail EXCEPT ![q] = QHead[q]]
      /\ Link' = [Link EXCEPT ![QHead[q]] = NOT_A_CLUMP, ![QTail[q]] = QHead[q]]
  BY DEF Linked!RotateQ
<1> HIDE DEF q, s
<1>6. q \in Linked!Queues
  BY DEF q
<1>7. n \in Nat /\ s # <<>> /\ n # 0 /\ QHead[q] = s[1] /\ QTail[q] = s[n] /\ s[1] # s[n]
  BY <1>2, <1>5
<1>8. n >= 2
  <2>1. n # 1
    BY <1>7
  <2> HIDE DEF n
  <2>2. QED
    BY <1>7, <2>1
<1>9. /\ w \in Seq(Clumps) /\ Len(w) = n /\ DOMAIN w = 1 .. n
      /\ w[n] = s[1] /\ \A i \in 1 .. n - 1 : w[i] = s[i + 1]
  <2>1. s \in Seq(Clumps) /\ s # <<>> /\ Len(s) \in Nat /\ Len(s) >= 2
    BY <1>2, <1>7, <1>8
  <2>2. Tail(s) \in Seq(Clumps) /\ Len(Tail(s)) = Len(s) - 1 /\ Head(s) = s[1] /\ s[1] \in Clumps
    BY <2>1
  <2>3. \A i \in 1 .. Len(s) - 1 : Tail(s)[i] = s[i + 1]
    BY <2>1
  <2> DEFINE t == Tail(s)
  <2>4. t \in Seq(Clumps) /\ Len(t) = n - 1 /\ w = Append(t, s[1]) /\ s[1] \in Clumps
    BY <2>2
  <2> HIDE DEF t, w
  <2>5. /\ w \in Seq(Clumps) /\ Len(w) = Len(t) + 1 /\ w[Len(t) + 1] = s[1]
        /\ \A i \in 1 .. Len(t) : w[i] = t[i]
    BY <2>4
  <2>6. Len(w) = n /\ w[n] = s[1] /\ \A i \in 1 .. n - 1 : w[i] = t[i]
    BY <1>7, <2>4, <2>5
  <2>7. QED
    BY <2>3, <2>5, <2>6 DEF t
<1>10. \A i, j \in 1 .. n : s[i] = s[j] => i = j
  BY <1>2
<1>11. \A i \in 1 .. n : s[i] \in Clumps
  BY <1>2
<1>12. \A i \in 1 .. n - 1 : Link[s[i]] = s[i + 1]
  BY <1>2
<1>13. \A p \in Linked!Queues : p # q => \A i \in DOMAIN qs[p], j \in 1 .. n : qs[p][i] # s[j]
  BY <1>3
<1> HIDE DEF w, n
<1>14. 1 \in 1 .. n /\ n \in 1 .. n /\ 1 \in 1 .. n - 1 /\ n - 1 \in 1 .. n - 1 /\ n - 1 + 1 = n
  BY <1>7, <1>8
<1>15. \A i \in 1 .. n - 1 : i \in 1 .. n /\ i + 1 \in 1 .. n /\ i + 1 # 1
  BY <1>7
<1>16. \A i, j \in DOMAIN w : w[i] = w[j] => i = j
  <2> SUFFICES ASSUME NEW i \in 1 .. n, NEW j \in 1 .. n, w[i] = w[j] PROVE i = j
    BY <1>9
  <2>1. \A m \in 1 .. n : w[m] = s[IF m = n THEN 1 ELSE m + 1] /\ (IF m = n THEN 1 ELSE m + 1) \in 1 .. n
    BY <1>7, <1>9, <1>14
  <2>2. (IF i = n THEN 1 ELSE i + 1) = (IF j = n THEN 1 ELSE j + 1)
    BY <1>10, <2>1
  <2>3. QED
    BY <1>7, <2>2
<1>17. \A p \in Linked!Queues : p # q => \A i \in DOMAIN qs[p], j \in DOMAIN w : w[j] # qs[p][i]
  <2>1. \A j \in DOMAIN w : \E l \in 1 .. n : w[j] = s[l]
    BY <1>7, <1>9, <1>14, <1>15
  <2>2. QED
    BY <1>13, <2>1
<1>18. Link[s[1]] = s[2] /\ w[1] = s[2] /\ s[2] \in Clumps
  BY <1>9, <1>11, <1>12, <1>14, <1>15
<1>19. QHead' \in [Linked!Queues -> Ids] /\ QTail' \in [Linked!Queues -> Ids]
  BY <1>1, <1>5, <1>7, <1>11, <1>14, <1>18 DEF Ids
<1>20. QHead'[q] = w[1] /\ QTail'[q] = w[n]
  BY <1>1, <1>5, <1>6, <1>7, <1>9, <1>18
<1>21. \A p \in Linked!Queues : p # q => QHead'[p] = QHead[p] /\ QTail'[p] = QTail[p]
  BY <1>1, <1>5
<1>22. /\ Link' \in [Clumps -> Ids] /\ Link'[s[1]] = NOT_A_CLUMP /\ Link'[s[n]] = s[1]
       /\ \A d \in Clumps : d # s[1] /\ d # s[n] => Link'[d] = Link[d]
  <2>1. Link' = [Link EXCEPT ![s[1]] = NOT_A_CLUMP, ![s[n]] = s[1]]
    BY <1>5, <1>7
  <2>2. s[1] \in Clumps /\ s[n] \in Clumps /\ s[1] \in Ids /\ NOT_A_CLUMP \in Ids /\ s[1] # s[n]
    BY <1>7, <1>11, <1>14 DEF Ids
  <2>3. QED
    BY <1>1, <2>1, <2>2
<1>23. ASSUME NEW i \in 1 .. n - 1 PROVE Link'[w[i]] = w[i + 1]
  <2>1. i \in Int /\ w[i] = s[i + 1] /\ i + 1 \in 1 .. n /\ s[i + 1] # s[1] /\ s[i + 1] \in Clumps
    BY <1>9, <1>10, <1>11, <1>14, <1>15
  <2>2. CASE i + 1 = n
    BY <1>9, <1>22, <2>1, <2>2
  <2>3. CASE i + 1 # n
    <3>1. i + 1 \in 1 .. n - 1
      BY <1>7, <2>1, <2>3
    <3>2. s[i + 1] # s[n] /\ w[i + 1] = s[i + 1 + 1] /\ Link[s[i + 1]] = s[i + 1 + 1]
      BY <1>9, <1>10, <1>12, <1>14, <2>1, <2>3, <3>1
    <3>3. QED
      BY <1>22, <2>1, <3>2
  <2>4. QED
    BY <2>2, <2>3
<1>24. w # <<>>
  BY <1>7, <1>9
<1>25. List(QHead'[q], QTail'[q], Link', w)
  BY <1>9, <1>20, <1>22, <1>23, <1>24 DEF List
<1>26. \A p \in Linked!Queues : p # q => \A i \in DOMAIN qs[p] :
          Link'[qs[p][i]] = Link[qs[p][i]] /\ \A j \in DOMAIN w : w[j] # qs[p][i]
  BY <1>4, <1>13, <1>14, <1>17, <1>22
<1>27. Lists(QHead', QTail', Link', [qs EXCEPT ![q] = w])
  BY <1>6, <1>9, <1>16, <1>19, <1>21, <1>22, <1>25, <1>26, OneChanges
<1>28. QED
  BY <1>7, <1>8, <1>27 DEF q, s, n, w

-----------------------------------------------------------------------------
(***************************************************************************)
(* The refinement.                                                         *)
(***************************************************************************)

\* No queue has clumps at the start.
LEMMA InitLists == Linked!Init => Lists(QHead, QTail, Link, [q \in Linked!Queues |-> <<>>])
<1> SUFFICES ASSUME Linked!Init PROVE Lists(QHead, QTail, Link, [q \in Linked!Queues |-> <<>>])
  OBVIOUS
<1> DEFINE qs == [q \in Linked!Queues |-> <<>>]
<1>1. qs \in [Linked!Queues -> Seq(Clumps)] /\ Once(qs)
  BY DEF Once
<1>2. QHead \in [Linked!Queues -> Ids] /\ QTail \in [Linked!Queues -> Ids] /\ Link \in [Clumps -> Ids]
  BY DEF Linked!Init, Ids
<1>3. ASSUME NEW q \in Linked!Queues PROVE List(QHead[q], QTail[q], Link, qs[q])
  BY DEF Linked!Init, List
<1>4. QED
  BY <1>1, <1>2, <1>3 DEF Lists

\* The lists mean their queues, before and after a step.
LEMMA Meant ==
  ASSUME NEW qs
  PROVE  /\ Lists(QHead, QTail, Link, qs) => [q \in Linked!Queues |-> Linked!Walk(q)] = qs
         /\ Lists(QHead', QTail', Link', qs) => [q \in Linked!Queues |-> Linked!Walk(q)]' = qs
<1>1. ASSUME Lists(QHead, QTail, Link, qs) PROVE [q \in Linked!Queues |-> Linked!Walk(q)] = qs
  <2>1. \A q \in Linked!Queues : Linked!Walk(q) = qs[q]
    BY <1>1, WalkIsWalk, WalkOfList
  <2>2. qs = [q \in Linked!Queues |-> qs[q]]
    BY <1>1 DEF Lists
  <2>3. QED
    BY <2>1, <2>2
<1>2. ASSUME Lists(QHead', QTail', Link', qs) PROVE [q \in Linked!Queues |-> Linked!Walk(q)]' = qs
  <2>1. \A q \in Linked!Queues : Linked!Walk(q)' = qs[q]
    BY <1>2, WalkIsWalk, WalkOfList
  <2>2. qs = [q \in Linked!Queues |-> qs[q]]
    BY <1>2 DEF Lists
  <2>3. QED
    BY <2>1, <2>2
<1>3. QED
  BY <1>1, <1>2

\* Every operation on the lists keeps them lists and is that operation of ClumpFifo.
LEMMA StepFifo ==
  LinkedInv /\ [Linked!Next]_(Linked!vars)
    => LinkedInv' /\ [Linked!Fifo!FifoNext]_([q \in Linked!Queues |-> Linked!Walk(q)])
<1> SUFFICES ASSUME LinkedInv, [Linked!Next]_(Linked!vars)
             PROVE  LinkedInv' /\ [Linked!Fifo!FifoNext]_([q \in Linked!Queues |-> Linked!Walk(q)])
  OBVIOUS
<1> DEFINE queues == [q \in Linked!Queues |-> Linked!Walk(q)]
<1>1. PICK qs : Lists(QHead, QTail, Link, qs)
  BY DEF LinkedInv
<1>2. queues = qs
  BY <1>1, Meant
<1>3. ASSUME NEW rs, Lists(QHead', QTail', Link', rs) PROVE LinkedInv' /\ queues' = rs
  BY <1>3, Meant DEF LinkedInv
<1>4. Linked!Fifo!Queues = Linked!Queues
  BY DEF Linked!Fifo!Queues, Linked!Queues
<1> HIDE DEF queues
<1>5. ASSUME NEW q \in Linked!Queues, NEW c \in Clumps, Linked!EnQClump(q, c)
      PROVE  LinkedInv' /\ Linked!Fifo!FifoNext
  <2>1. /\ \A p \in Linked!Queues : \A i \in DOMAIN qs[p] : qs[p][i] # c
        /\ Lists(QHead', QTail', Link', [qs EXCEPT ![q] = Append(@, c)])
    BY <1>1, <1>5, EnQLists
  <2>2. LinkedInv' /\ queues' = Linked!Fifo!EnQClump(queues, q, c)
    BY <1>2, <1>3, <2>1 DEF Linked!Fifo!EnQClump
  <2>3. Linked!Fifo!OffQueues(queues, c)
    BY <1>2, <1>4, <2>1 DEF Linked!Fifo!OffQueues, Linked!Fifo!IsClumpOnQ
  <2>4. Linked!Fifo!EnQ(q, c)
    BY <2>2, <2>3 DEF Linked!Fifo!EnQ, queues
  <2>5. QED
    BY <1>4, <2>2, <2>4 DEF Linked!Fifo!FifoNext
<1>6. ASSUME NEW q \in Linked!Queues, NEW c \in Clumps, Linked!DeQClump(q, c)
      PROVE  LinkedInv' /\ Linked!Fifo!FifoNext
  <2>1. /\ \E i \in DOMAIN qs[q] : qs[q][i] = c
        /\ Lists(QHead', QTail', Link', [qs EXCEPT ![q] = Linked!Fifo!Without(@, c)])
    BY <1>1, <1>6, DeQLists
  <2>2. LinkedInv' /\ queues' = Linked!Fifo!DeQClump(queues, q, c)
    BY <1>2, <1>3, <2>1 DEF Linked!Fifo!DeQClump
  <2>3. Linked!Fifo!IsClumpOnQ(queues, q, c)
    BY <1>2, <2>1 DEF Linked!Fifo!IsClumpOnQ
  <2>4. Linked!Fifo!DeQ(q, c)
    BY <2>2, <2>3 DEF Linked!Fifo!DeQ, queues
  <2>5. QED
    BY <1>4, <2>2, <2>4 DEF Linked!Fifo!FifoNext
<1>7. ASSUME Linked!RotateQ
      PROVE  LinkedInv' /\ Linked!Fifo!FifoNext
  <2>1. RunQ \in Linked!Queues
    BY DEF Linked!Queues
  <2>2. /\ Len(qs[RunQ]) \in Nat /\ Len(qs[RunQ]) >= 2
        /\ Lists(QHead', QTail', Link', [qs EXCEPT ![RunQ] = Append(Tail(@), Head(@))])
    BY <1>1, <1>7, <2>1, RotateLists
  <2>3. LinkedInv' /\ queues' = [qs EXCEPT ![RunQ] = Append(Tail(@), Head(@))]
    BY <1>3, <2>2
  <2>4. ~(Len(queues[RunQ]) < 2)
    BY <1>2, <2>2
  <2>5. queues' = Linked!Fifo!RotateQ(queues)
    BY <1>2, <2>3, <2>4 DEF Linked!Fifo!RotateQ
  <2>6. Linked!Fifo!Rotate
    BY <2>5 DEF Linked!Fifo!Rotate, queues
  <2>7. QED
    BY <2>3, <2>6 DEF Linked!Fifo!FifoNext
<1>8. ASSUME UNCHANGED Linked!vars
      PROVE  LinkedInv' /\ queues' = queues
  <2>1. Lists(QHead', QTail', Link', qs)
    BY <1>1, <1>8 DEF Linked!vars
  <2>2. QED
    BY <1>2, <1>3, <2>1
<1>9. QED
  BY <1>5, <1>6, <1>7, <1>8 DEF Linked!Next, queues

\* Heads, tails and links are always the lists of queues on which no clump is twice: no link
\* leads into another queue or back (c_cmd.c:2377-2492).
THEOREM AlwaysLists == LinkedSpec => []LinkedInv
<1>1. Linked!Init => LinkedInv
  BY InitLists DEF LinkedInv
<1>2. LinkedInv /\ [Linked!Next]_(Linked!vars) => LinkedInv'
  BY StepFifo
<1>3. QED
  BY <1>1, <1>2, PTL DEF LinkedSpec, Linked!Spec

\* The heads, the tails and the one Link of c_cmd.c (2377-2492) implement first-in
\* first-out queues: EnQ, DeQ from any place and Rotate move nothing else on any queue.
THEOREM ImplementsQueues == LinkedSpec => ListsImplementFifo
<1>1. Linked!Init => Linked!Fifo!FifoInit
  <2>1. Linked!Init => [q \in Linked!Queues |-> Linked!Walk(q)] = [q \in Linked!Queues |-> <<>>]
    BY InitLists, Meant
  <2>2. Linked!Fifo!Queues = Linked!Queues
    BY DEF Linked!Fifo!Queues, Linked!Queues
  <2>3. QED
    BY <2>1, <2>2 DEF Linked!Fifo!FifoInit
<1>2. LinkedInv /\ [Linked!Next]_(Linked!vars)
        => [Linked!Fifo!FifoNext]_([q \in Linked!Queues |-> Linked!Walk(q)])
  BY StepFifo
<1>3. QED
  BY <1>1, <1>2, AlwaysLists, PTL
     DEF LinkedSpec, Linked!Spec, ListsImplementFifo, Linked!ImplementsFifo, Linked!Fifo!FifoSpec

\* cCmdIsQSane is true of every queue wherever it is asserted (c_cmd.c:2517-2545).
THEOREM AlwaysSane == LinkedSpec => []Linked!QueuesSane
<1>1. LinkedInv => Linked!QueuesSane
  <2> SUFFICES ASSUME NEW qs, Lists(QHead, QTail, Link, qs), NEW q \in Linked!Queues PROVE Linked!IsQSane(q)
    BY DEF LinkedInv, Linked!QueuesSane
  <2> DEFINE s == qs[q]
             n == Len(s)
  <2>1. CASE s = <<>>
    BY <2>1, Ends, ClumpIds DEF Linked!IsQSane
  <2>2. CASE s # <<>>
    <3>1. /\ n \in Nat /\ n # 0 /\ QHead[q] = s[1] /\ QTail[q] = s[n]
          /\ QHead[q] \in Clumps /\ QTail[q] \in Clumps
          /\ \A i \in 1 .. n : s[i] \in Clumps
          /\ \A i \in 1 .. n - 1 : Link[s[i]] = s[i + 1]
      BY <2>2, Ends
    <3> HIDE DEF s, n
    <3>2. ASSUME QHead[q] # QTail[q] PROVE Link[QHead[q]] \in Clumps
      <4>1. n # 1
        BY <3>1, <3>2
      <4>2. 1 \in 1 .. n - 1 /\ 1 + 1 \in 1 .. n
        BY <3>1, <4>1
      <4>3. QED
        BY <3>1, <4>2
    <3>3. QED
      BY <3>1, <3>2, ClumpIds DEF Linked!IsQSane
  <2>3. QED
    BY <2>1, <2>2
<1>2. QED
  BY AlwaysLists, <1>1, PTL
=============================================================================
