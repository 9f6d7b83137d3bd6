--------------------------- MODULE RecursionProofs --------------------------
(***************************************************************************)
(* What the proofs of this project need of numbers, recursive functions    *)
(* and sequences.  The induction theorems of the library are about a       *)
(* predicate; Induction is about a set, and Recursion about a function     *)
(* that is determined by its value at a parent of smaller rank.            *)
(***************************************************************************)
EXTENDS Naturals, Integers, Sequences, SequencesExt, FiniteSetsExt,
        SequenceTheorems, WellFoundedInduction, TLAPS

(* A set of numbers that is not empty has a least element: Min returns it. *)
LEMMA MinIsLeast ==
  ASSUME NEW S \in SUBSET Nat, S # {}
  PROVE  Min(S) \in S /\ \A y \in S : Min(S) <= y
<1>1. PICK x \in S : \A y \in S : ~(<<y, x>> \in OpToRel(<, Nat))
  BY NatLessThanWellFounded, WFMin, Zenon
<1>2. \A y \in S : ~(y < x)
  BY <1>1 DEF OpToRel
<1>3. \A y \in S : x <= y
  BY <1>2
<1>4. QED
  BY <1>3 DEF Min

(* Induction over the numbers, for a set instead of a predicate.           *)
LEMMA Induction ==
  ASSUME NEW S \in SUBSET Nat,
         \A n \in Nat : (\A m \in Nat : m < n => m \in S) => n \in S
  PROVE  S = Nat
<1> SUFFICES ASSUME Nat \ S # {} PROVE FALSE
  OBVIOUS
<1> DEFINE x == Min(Nat \ S)
<1>1. x \in Nat \ S /\ \A y \in Nat \ S : x <= y
  BY MinIsLeast
<1> HIDE DEF x
<1>2. \A m \in Nat : m < x => m \in S
  BY <1>1
<1>3. QED
  BY <1>1, <1>2

(* A function may be defined from its value at the parent of an argument,  *)
(* when the rank of the parent is smaller.                                 *)
IsRecursion(f, base, step, rank, parent, X) ==
  \A x \in X : f[x] = IF rank[x] = 0 THEN base ELSE step[<<x, f[parent[x]]>>]

UpTo(D, rank, n) == {x \in D : rank[x] <= n}

(* Two functions that obey the same recursion agree where both are         *)
(* defined.                                                                *)
LEMMA RecursionUnique ==
  ASSUME NEW D, NEW base, NEW step, NEW rank \in [D -> Nat], NEW parent \in [D -> D],
         \A x \in D : rank[x] # 0 => rank[parent[x]] < rank[x],
         NEW n \in Nat, NEW m \in Nat, n <= m, NEW f, NEW g,
         IsRecursion(f, base, step, rank, parent, UpTo(D, rank, n)),
         IsRecursion(g, base, step, rank, parent, UpTo(D, rank, m))
  PROVE  \A x \in UpTo(D, rank, n) : f[x] = g[x]
<1> DEFINE S == {k \in Nat : \A x \in UpTo(D, rank, n) : rank[x] = k => f[x] = g[x]}
<1>1. ASSUME NEW k \in Nat, \A j \in Nat : j < k => j \in S PROVE k \in S
  <2> SUFFICES ASSUME NEW x \in UpTo(D, rank, n), rank[x] = k PROVE f[x] = g[x]
    OBVIOUS
  <2>0. x \in D /\ rank[x] \in Nat /\ x \in UpTo(D, rank, m)
    BY DEF UpTo
  <2>1. CASE rank[x] = 0
    BY <2>0, <2>1 DEF IsRecursion
  <2>2. CASE rank[x] # 0
    <3>1. /\ parent[x] \in UpTo(D, rank, n)
          /\ rank[parent[x]] \in Nat /\ rank[parent[x]] < k
      BY <2>0, <2>2 DEF UpTo
    <3>2. rank[parent[x]] \in S
      BY <1>1, <3>1
    <3>3. f[parent[x]] = g[parent[x]]
      BY <3>1, <3>2
    <3>4. QED
      BY <2>0, <2>2, <3>3 DEF IsRecursion
  <2>3. QED
    BY <2>1, <2>2
<1>2. S = Nat
  <2> S \in SUBSET Nat
    OBVIOUS
  <2> HIDE DEF S
  <2> QED
    BY <1>1, Induction
<1>3. QED
  BY <1>2 DEF UpTo

(* The recursion has a solution up to every rank.                          *)
LEMMA RecursionUpTo ==
  ASSUME NEW D, NEW V, NEW base \in V, NEW step \in [D \X V -> V],
         NEW rank \in [D -> Nat], NEW parent \in [D -> D],
         \A x \in D : rank[x] # 0 => rank[parent[x]] < rank[x]
  PROVE  \A n \in Nat : \E f \in [UpTo(D, rank, n) -> V] :
           IsRecursion(f, base, step, rank, parent, UpTo(D, rank, n))
<1> DEFINE S == {n \in Nat : \E f \in [UpTo(D, rank, n) -> V] :
                   IsRecursion(f, base, step, rank, parent, UpTo(D, rank, n))}
<1>1. ASSUME NEW n \in Nat, \A m \in Nat : m < n => m \in S PROVE n \in S
  <2>1. CASE n = 0
    <3> DEFINE f == [x \in UpTo(D, rank, n) |-> base]
    <3>1. \A x \in UpTo(D, rank, n) : rank[x] = 0
      BY <2>1 DEF UpTo
    <3>2. f \in [UpTo(D, rank, n) -> V]
      OBVIOUS
    <3>3. IsRecursion(f, base, step, rank, parent, UpTo(D, rank, n))
      BY <3>1 DEF IsRecursion
    <3>4. QED
      BY <3>2, <3>3
  <2>2. CASE n # 0
    <3>1. n - 1 \in S
      BY <1>1, <2>2
    <3>2. PICK g \in [UpTo(D, rank, n - 1) -> V] :
            IsRecursion(g, base, step, rank, parent, UpTo(D, rank, n - 1))
      BY <3>1
    <3> DEFINE f == [x \in UpTo(D, rank, n) |->
                       IF rank[x] = 0 THEN base ELSE step[<<x, g[parent[x]]>>]]
    <3>3. ASSUME NEW x \in UpTo(D, rank, n), rank[x] # 0
          PROVE  /\ x \in D /\ parent[x] \in UpTo(D, rank, n - 1)
                 /\ parent[x] \in UpTo(D, rank, n)
                 /\ g[parent[x]] \in V
      <4>1. x \in D /\ parent[x] \in D /\ rank[x] \in Nat /\ rank[parent[x]] \in Nat
            /\ rank[x] <= n /\ rank[parent[x]] < rank[x]
        BY <3>3 DEF UpTo
      <4>2. parent[x] \in UpTo(D, rank, n - 1) /\ parent[x] \in UpTo(D, rank, n)
        BY <4>1 DEF UpTo
      <4>3. QED
        BY <4>1, <4>2
    <3>4. f \in [UpTo(D, rank, n) -> V]
      BY <3>3
    <3>5. \A x \in UpTo(D, rank, n - 1) : x \in UpTo(D, rank, n) /\ f[x] = g[x]
      <4> SUFFICES ASSUME NEW x \in UpTo(D, rank, n - 1)
                   PROVE  x \in UpTo(D, rank, n) /\ f[x] = g[x]
        OBVIOUS
      <4>1. x \in UpTo(D, rank, n)
        BY DEF UpTo
      <4>2. QED
        BY <3>2, <4>1 DEF IsRecursion
    <3>6. IsRecursion(f, base, step, rank, parent, UpTo(D, rank, n))
      <4> SUFFICES ASSUME NEW x \in UpTo(D, rank, n)
                   PROVE  f[x] = IF rank[x] = 0 THEN base ELSE step[<<x, f[parent[x]]>>]
        BY DEF IsRecursion
      <4>1. CASE rank[x] = 0
        BY <4>1
      <4>2. CASE rank[x] # 0
        <5>1. f[parent[x]] = g[parent[x]]
          BY <3>3, <3>5, <4>2
        <5>2. f[x] = step[<<x, g[parent[x]]>>]
          BY <4>2
        <5> HIDE DEF f
        <5>3. QED
          BY <4>2, <5>1, <5>2
      <4>3. QED
        BY <4>1, <4>2
    <3>7. QED
      BY <3>4, <3>6
  <2>3. QED
    BY <2>1, <2>2
<1>2. S = Nat
  <2> S \in SUBSET Nat
    OBVIOUS
  <2> HIDE DEF S
  <2> QED
    BY <1>1, Induction
<1>3. QED
  BY <1>2

(* A recursion along a rank that decreases has a solution: what a          *)
(* recursive function of the model is.                                     *)
LEMMA Recursion ==
  ASSUME NEW D, NEW V, NEW base \in V, NEW step \in [D \X V -> V],
         NEW rank \in [D -> Nat], NEW parent \in [D -> D],
         \A x \in D : rank[x] # 0 => rank[parent[x]] < rank[x]
  PROVE  \E f \in [D -> V] : IsRecursion(f, base, step, rank, parent, D)
<1> DEFINE Part(n) == CHOOSE f \in [UpTo(D, rank, n) -> V] :
                        IsRecursion(f, base, step, rank, parent, UpTo(D, rank, n))
           F == [x \in D |-> Part(rank[x])[x]]
<1>1. \A n \in Nat : /\ Part(n) \in [UpTo(D, rank, n) -> V]
                     /\ IsRecursion(Part(n), base, step, rank, parent, UpTo(D, rank, n))
  <2>1. \A n \in Nat : \E f \in [UpTo(D, rank, n) -> V] :
          IsRecursion(f, base, step, rank, parent, UpTo(D, rank, n))
    BY RecursionUpTo
  <2>2. QED
    BY <2>1
<1> HIDE DEF Part
<1>2. \A n, m \in Nat : n <= m => \A x \in UpTo(D, rank, n) : Part(n)[x] = Part(m)[x]
  <2> SUFFICES ASSUME NEW n \in Nat, NEW m \in Nat, n <= m
               PROVE  \A x \in UpTo(D, rank, n) : Part(n)[x] = Part(m)[x]
    OBVIOUS
  <2> DEFINE f == Part(n)
             g == Part(m)
  <2>1. /\ IsRecursion(f, base, step, rank, parent, UpTo(D, rank, n))
        /\ IsRecursion(g, base, step, rank, parent, UpTo(D, rank, m))
    BY <1>1
  <2> HIDE DEF f, g
  <2>2. \A x \in UpTo(D, rank, n) : f[x] = g[x]
    BY <2>1, RecursionUnique
  <2>3. QED
    BY <2>2 DEF f, g
<1>3. \A x \in D : rank[x] \in Nat /\ x \in UpTo(D, rank, rank[x])
  BY DEF UpTo
<1>4. F \in [D -> V]
  BY <1>1, <1>3
<1>5. ASSUME NEW x \in D
      PROVE  F[x] = IF rank[x] = 0 THEN base ELSE step[<<x, F[parent[x]]>>]
  <2>1. CASE rank[x] = 0
    BY <1>1, <1>3, <2>1 DEF IsRecursion
  <2>2. CASE rank[x] # 0
    <3>1. parent[x] \in D /\ rank[parent[x]] \in Nat /\ rank[parent[x]] <= rank[x]
      BY <1>3, <2>2
    <3>2. Part(rank[x])[parent[x]] = Part(rank[parent[x]])[parent[x]]
      BY <1>2, <1>3, <3>1
    <3>3. F[x] = step[<<x, Part(rank[x])[parent[x]]>>]
      BY <1>1, <1>3, <2>2 DEF IsRecursion
    <3>4. F[parent[x]] = Part(rank[parent[x]])[parent[x]]
      BY <3>1
    <3> HIDE DEF F
    <3>5. QED
      BY <2>2, <3>2, <3>3, <3>4
  <2>3. QED
    BY <2>1, <2>2
<1>6. QED
  BY <1>4, <1>5 DEF IsRecursion

-----------------------------------------------------------------------------
(* Sequences.                                                             *)

(* A part of a sequence.                                                   *)
LEMMA PartOf ==
  ASSUME NEW S, NEW s \in Seq(S), NEW m \in Nat \ {0}, NEW n \in Nat,
         m <= n + 1, n <= Len(s)
  PROVE  /\ SubSeq(s, m, n) \in Seq(S) /\ Len(SubSeq(s, m, n)) = n - m + 1
         /\ \A i \in 1 .. n - m + 1 : SubSeq(s, m, n)[i] = s[m + i - 1]
<1>1. Len(s) \in Nat /\ m \in Int /\ n \in Int
  BY LenProperties
<1>2. \A i \in m .. n : s[i] \in S
  BY <1>1, ElementOfSeq
<1>3. /\ SubSeq(s, m, n) \in Seq(S)
      /\ Len(SubSeq(s, m, n)) = IF m <= n THEN n - m + 1 ELSE 0
      /\ \A i \in 1 .. n - m + 1 : SubSeq(s, m, n)[i] = s[m + i - 1]
  BY <1>1, <1>2, SubSeqProperties
<1>4. QED
  BY <1>3

(* A sequence that is not empty is its front and its last element.         *)
LEMMA FrontLast ==
  ASSUME NEW S, NEW s \in Seq(S)
  PROVE  /\ s # <<>> => /\ Front(s) \in Seq(S) /\ Last(s) \in S
                        /\ Len(Front(s)) = Len(s) - 1 /\ Len(s) > 0
                        /\ s = Append(Front(s), Last(s))
         /\ \A c \in S : Front(Append(s, c)) = s /\ Last(Append(s, c)) = c
<1>1. ASSUME s # <<>>
      PROVE  /\ Front(s) \in Seq(S) /\ Last(s) \in S
             /\ Len(Front(s)) = Len(s) - 1 /\ Len(s) > 0
             /\ s = Append(Front(s), Last(s))
  <2>1. Len(s) \in Nat \ {0} /\ \A i \in 1 .. Len(s) : s[i] \in S
    BY <1>1, EmptySeq, ElementOfSeq
  <2>2. /\ Front(s) \in Seq(S) /\ Len(Front(s)) = Len(s) - 1
        /\ \A i \in 1 .. Len(s) - 1 : Front(s)[i] = s[i]
    <3> DEFINE m == 1
               n == Len(s) - 1
    <3>1. /\ m \in Nat \ {0} /\ n \in Nat /\ m <= n + 1 /\ n <= Len(s)
          /\ m = 1 /\ n = Len(s) - 1
      BY <2>1
    <3> HIDE DEF m, n
    <3>2. /\ SubSeq(s, m, n) \in Seq(S) /\ Len(SubSeq(s, m, n)) = n - m + 1
          /\ \A i \in 1 .. n - m + 1 : SubSeq(s, m, n)[i] = s[m + i - 1]
      BY <2>1, <3>1, PartOf
    <3>3. QED
      BY <2>1, <3>1, <3>2 DEF Front
  <2>3. Last(s) \in S
    BY <2>1 DEF Last
  <2>4. s = Append(Front(s), Last(s))
    <3> DEFINE t == Append(Front(s), Last(s))
    <3>1. /\ t \in Seq(S) /\ Len(t) = Len(s)
          /\ \A i \in 1 .. Len(s) - 1 : t[i] = s[i]
          /\ t[Len(s)] = s[Len(s)]
      BY <2>1, <2>2, <2>3, AppendProperties DEF Last
    <3>2. \A i \in 1 .. Len(s) : s[i] = t[i]
      BY <2>1, <3>1
    <3> HIDE DEF t
    <3>3. s = t
      BY <3>1, <3>2, SeqEqual
    <3>4. QED
      BY <3>3 DEF t
  <2>5. QED
    BY <2>1, <2>2, <2>3, <2>4
<1>2. ASSUME NEW c \in S PROVE Front(Append(s, c)) = s /\ Last(Append(s, c)) = c
  <2> DEFINE t == Append(s, c)
  <2>1. /\ t \in Seq(S) /\ Len(t) = Len(s) + 1 /\ Len(s) \in Nat
        /\ \A i \in 1 .. Len(s) : t[i] = s[i] /\ t[i] \in S
        /\ t[Len(s) + 1] = c
    BY AppendProperties, LenProperties, ElementOfSeq
  <2> HIDE DEF t
  <2>2. /\ Front(t) \in Seq(S) /\ Len(Front(t)) = Len(s)
        /\ \A i \in 1 .. Len(s) : Front(t)[i] = s[i]
    BY <2>1, SubSeqProperties DEF Front
  <2>3. Front(t) = s
    BY <2>2, SeqEqual
  <2>4. Last(t) = c
    BY <2>1 DEF Last
  <2>5. QED
    BY <2>3, <2>4 DEF t
<1>3. QED
  BY <1>1, <1>2

(* Two sequences, one after the other.                                     *)
LEMMA Concat ==
  ASSUME NEW S, NEW a \in Seq(S), NEW b \in Seq(S)
  PROVE  /\ a \o b \in Seq(S) /\ Len(a \o b) = Len(a) + Len(b)
         /\ Len(a) \in Nat /\ Len(b) \in Nat
         /\ \A i \in 1 .. Len(a) : (a \o b)[i] = a[i]
         /\ \A i \in 1 .. Len(b) : (a \o b)[Len(a) + i] = b[i]
<1>1. Len(a) \in Nat /\ Len(b) \in Nat
  BY LenProperties
<1>2. /\ a \o b \in Seq(S) /\ Len(a \o b) = Len(a) + Len(b)
      /\ \A i \in 1 .. Len(a) + Len(b) :
           (a \o b)[i] = IF i <= Len(a) THEN a[i] ELSE b[i - Len(a)]
  BY ConcatProperties
<1>3. ASSUME NEW i \in 1 .. Len(b) PROVE (a \o b)[Len(a) + i] = b[i]
  <2> DEFINE k == Len(a) + i
  <2>1. k \in 1 .. Len(a) + Len(b) /\ ~(k <= Len(a)) /\ k - Len(a) = i
    BY <1>1, <1>3
  <2> HIDE DEF k
  <2>2. (a \o b)[k] = b[i]
    BY <1>2, <2>1
  <2>3. QED
    BY <2>2 DEF k
<1>4. QED
  BY <1>1, <1>2, <1>3
=============================================================================
