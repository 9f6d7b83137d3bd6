--------------------------- MODULE SockMapProofs ----------------------------
(***************************************************************************)
(* Proofs about the socket map exchange: the queries and the replies come  *)
(* through whole and in order and the two ends stay in step, for every set *)
(* of bytes, all queries, replies and malformed messages, all buffer sizes *)
(* and every way in which the connection cuts the bytes into pieces.  A    *)
(* write that fails may leave the exchange Broken: what came through so    *)
(* far stays as it is, and neither end takes another line.                 *)
(***************************************************************************)
EXTENDS SockMap, RecursionProofs

-----------------------------------------------------------------------------
(* Lengths in decimal digits.                                              *)

D10 == Range(Digits)

(* The digit characters and their values.                                  *)
LEMMA DigitsAre ==
  /\ D10 = {"0", "1", "2", "3", "4", "5", "6", "7", "8", "9"}
  /\ Len(Digits) = 10
  /\ \A d \in 0 .. 9 : Digits[d + 1] \in D10 /\ DigitValue(Digits[d + 1]) = d
  /\ \A c \in D10 : DigitValue(c) \in 0 .. 9
<1>1. Digits = <<"0", "1", "2", "3", "4", "5", "6", "7", "8", "9">>
  BY DEF Digits
<1>2. D10 = {Digits[i] : i \in 1 .. 10} /\ Len(Digits) = 10
  BY <1>1 DEF D10, Range
<1>3. D10 = {"0", "1", "2", "3", "4", "5", "6", "7", "8", "9"}
  BY <1>1, <1>2
<1>4. \A d, k \in 0 .. 9 : Digits[d + 1] = Digits[k + 1] => d = k
  BY <1>1
<1>5. \A d \in 0 .. 9 : Digits[d + 1] \in D10
  BY <1>2
<1>6. \A d \in 0 .. 9 : DigitValue(Digits[d + 1]) = d
  BY <1>4 DEF DigitValue
<1>7. \A c \in D10 : \E d \in 0 .. 9 : c = Digits[d + 1]
  BY <1>2
<1>8. QED
  BY <1>2, <1>3, <1>5, <1>6, <1>7

(* format_len divides by ten until nothing is left.                        *)
LEMMA FormatLen ==
  /\ format_len \in [Nat -> Seq(D10)]
  /\ format_len[0] = <<>>
  /\ \A n \in Nat \ {0} :
       format_len[n] = Append(format_len[n \div 10], Digits[(n % 10) + 1])
<1> DEFINE step   == [p \in Nat \X Seq(D10) |-> Append(p[2], Digits[(p[1] % 10) + 1])]
           rank   == [n \in Nat |-> n]
           parent == [n \in Nat |-> n \div 10]
           Body(f) == [n \in Nat |-> IF n = 0 THEN <<>>
                                     ELSE Append(f[n \div 10], Digits[(n % 10) + 1])]
<1>1. \A n \in Nat : /\ n \div 10 \in Nat /\ n % 10 \in 0 .. 9
                     /\ n # 0 => n \div 10 < n
  OBVIOUS
<1>2. step \in [Nat \X Seq(D10) -> Seq(D10)]
  BY <1>1, DigitsAre, SMTT(30)
<1>3. <<>> \in Seq(D10) /\ rank \in [Nat -> Nat] /\ parent \in [Nat -> Nat]
  BY <1>1
<1>4. \A x \in Nat : rank[x] # 0 => rank[parent[x]] < rank[x]
  BY <1>1
<1>5. \E f \in [Nat -> Seq(D10)] : IsRecursion(f, <<>>, step, rank, parent, Nat)
  <2> HIDE DEF step, rank, parent
  <2> QED
    BY <1>2, <1>3, <1>4, Recursion
<1>6. PICK f \in [Nat -> Seq(D10)] : IsRecursion(f, <<>>, step, rank, parent, Nat)
  BY <1>5
<1>7. f = Body(f)
  <2>1. \A n \in Nat : f[n] = IF n = 0 THEN <<>>
                              ELSE Append(f[n \div 10], Digits[(n % 10) + 1])
    BY <1>1, <1>6 DEF IsRecursion
  <2>2. QED
    BY <2>1
<1>8. format_len = Body(format_len)
  <2>1. format_len = CHOOSE g : g = Body(g)
    BY DEF format_len
  <2> HIDE DEF Body
  <2>2. QED
    BY <1>7, <2>1
<1>9. \A n \in Nat : format_len[n] = IF n = 0 THEN <<>>
        ELSE Append(format_len[n \div 10], Digits[(n % 10) + 1])
  BY <1>8
<1> DEFINE S == {n \in Nat : format_len[n] \in Seq(D10)}
<1>10. ASSUME NEW n \in Nat, \A m \in Nat : m < n => m \in S PROVE n \in S
  <2>1. CASE n = 0
    <3>1. format_len[n] = <<>>
      BY <1>9, <2>1
    <3>2. QED
      BY <3>1, EmptySeq
  <2>2. CASE n # 0
    <3>1. format_len[n \div 10] \in Seq(D10) /\ Digits[(n % 10) + 1] \in D10
      BY <1>1, <1>10, <2>2, DigitsAre
    <3>2. format_len[n] = Append(format_len[n \div 10], Digits[(n % 10) + 1])
      BY <1>9, <2>2
    <3>3. format_len[n] \in Seq(D10)
      BY <3>1, <3>2, AppendProperties
    <3>4. QED
      BY <3>3
  <2>3. QED
    BY <2>1, <2>2
<1>11. S = Nat
  <2> S \in SUBSET Nat
    OBVIOUS
  <2> HIDE DEF S
  <2> QED
    BY <1>10, Induction
<1>12. format_len \in [Nat -> Seq(D10)]
  <2>1. format_len = [n \in Nat |-> format_len[n]]
    BY <1>8
  <2>2. \A n \in Nat : format_len[n] \in Seq(D10)
    BY <1>11
  <2>3. QED
    BY <2>1, <2>2
<1>13. QED
  BY <1>9, <1>12

(* The loop over the digits of a prefix, from the left to the right.       *)
LEMMA ValueOf ==
  /\ Value \in [Seq(D10) -> Nat]
  /\ Value[<<>>] = 0
  /\ \A s \in Seq(D10), c \in D10 : Value[Append(s, c)] = 10 * Value[s] + DigitValue(c)
<1> DEFINE D      == Seq(D10)
           step   == [p \in D \X Nat |-> 10 * p[2] + DigitValue(Last(p[1]))]
           rank   == [s \in D |-> Len(s)]
           parent == [s \in D |-> IF s = <<>> THEN s ELSE Front(s)]
           Body(f) == [s \in D |-> IF s = <<>> THEN 0
                                   ELSE 10 * f[Front(s)] + DigitValue(Last(s))]
           term   == [p \in D \X Nat |-> IF p[1] = <<>> THEN 0 ELSE step[p]]
<1>1. \A s \in D : /\ Len(s) \in Nat /\ (Len(s) = 0 <=> s = <<>>)
                   /\ s # <<>> => Front(s) \in D /\ Len(Front(s)) < Len(s) /\ Last(s) \in D10
  <2> SUFFICES ASSUME NEW s \in D
               PROVE  /\ Len(s) \in Nat /\ (Len(s) = 0 <=> s = <<>>)
                      /\ s # <<>> => Front(s) \in D /\ Len(Front(s)) < Len(s) /\ Last(s) \in D10
    OBVIOUS
  <2>1. Len(s) \in Nat /\ (Len(s) = 0 <=> s = <<>>)
    BY EmptySeq, LenProperties
  <2>2. QED
    BY <2>1, FrontLast
<1>2. term \in [D \X Nat -> Nat]
  <2> SUFFICES ASSUME NEW s \in D, NEW n \in Nat, s # <<>>
               PROVE  10 * n + DigitValue(Last(s)) \in Nat
    OBVIOUS
  <2>1. DigitValue(Last(s)) \in 0 .. 9
    BY <1>1, DigitsAre
  <2>2. QED
    BY <2>1
<1>3. 0 \in Nat /\ rank \in [D -> Nat] /\ parent \in [D -> D]
  BY <1>1
<1>4. \A s \in D : rank[s] # 0 => rank[parent[s]] < rank[s]
  BY <1>1
<1>5. \E f \in [D -> Nat] : IsRecursion(f, 0, term, rank, parent, D)
  <2> HIDE DEF term, rank, parent, D
  <2> QED
    BY <1>2, <1>3, <1>4, Recursion
<1>6. PICK f \in [D -> Nat] : IsRecursion(f, 0, term, rank, parent, D)
  BY <1>5
<1>7. f = Body(f)
  <2>1. ASSUME NEW s \in D
        PROVE  f[s] = IF s = <<>> THEN 0 ELSE 10 * f[Front(s)] + DigitValue(Last(s))
    <3>1. f[s] = IF rank[s] = 0 THEN 0 ELSE term[<<s, f[parent[s]]>>]
      BY <1>6 DEF IsRecursion
    <3>2. CASE s = <<>>
      BY <1>1, <3>1, <3>2
    <3>3. CASE s # <<>>
      <4>1. rank[s] # 0 /\ parent[s] = Front(s) /\ parent[s] \in D /\ f[parent[s]] \in Nat
        BY <1>1, <3>3
      <4>2. term[<<s, f[parent[s]]>>] = 10 * f[parent[s]] + DigitValue(Last(s))
        BY <3>3, <4>1
      <4> HIDE DEF term, rank, parent
      <4>3. QED
        BY <3>1, <3>3, <4>1, <4>2
    <3>4. QED
      BY <3>2, <3>3
  <2>2. QED
    BY <2>1
<1>8. Value = Body(Value)
  <2>1. Value = CHOOSE g : g = Body(g)
    BY DEF Value, D10
  <2> HIDE DEF Body
  <2>2. QED
    BY <1>7, <2>1
<1>9. \A s \in D : Value[s] = IF s = <<>> THEN 0
                              ELSE 10 * Value[Front(s)] + DigitValue(Last(s))
  BY <1>8
<1> DEFINE S == {n \in Nat : \A s \in D : Len(s) = n => Value[s] \in Nat}
<1>10. ASSUME NEW n \in Nat, \A m \in Nat : m < n => m \in S PROVE n \in S
  <2> SUFFICES ASSUME NEW s \in D, Len(s) = n PROVE Value[s] \in Nat
    OBVIOUS
  <2>1. CASE s = <<>>
    BY <1>9, <2>1
  <2>2. CASE s # <<>>
    <3>1. Value[Front(s)] \in Nat
      BY <1>1, <1>10, <2>2
    <3>2. DigitValue(Last(s)) \in 0 .. 9
      BY <1>1, <2>2, DigitsAre
    <3>3. Value[s] = 10 * Value[Front(s)] + DigitValue(Last(s))
      BY <1>9, <2>2
    <3>4. QED
      BY <3>1, <3>2, <3>3
  <2>3. QED
    BY <2>1, <2>2
<1>11. S = Nat
  <2> S \in SUBSET Nat
    OBVIOUS
  <2> HIDE DEF S
  <2> QED
    BY <1>10, Induction
<1>12. Value \in [D -> Nat]
  <2>1. Value = [s \in D |-> Value[s]]
    BY <1>8
  <2>2. \A s \in D : Value[s] \in Nat
    BY <1>1, <1>11
  <2> HIDE DEF D
  <2>3. QED
    BY <2>1, <2>2
<1>13. Value[<<>>] = 0
  <2>1. <<>> \in D
    BY EmptySeq
  <2>2. QED
    BY <1>9, <2>1
<1>14. ASSUME NEW s \in D, NEW c \in D10
       PROVE  Value[Append(s, c)] = 10 * Value[s] + DigitValue(c)
  <2>1. Append(s, c) \in D /\ Append(s, c) # <<>>
    BY AppendProperties
  <2>2. Front(Append(s, c)) = s /\ Last(Append(s, c)) = c
    BY FrontLast
  <2>3. QED
    BY <1>9, <2>1, <2>2
<1>15. QED
  BY <1>12, <1>13, <1>14

(* A length is read as it was written.                                     *)
LEMMA LengthRead ==
  ASSUME NEW n \in Nat
  PROVE  format_len[n] \in Seq(D10) /\ Length(format_len[n]) = n
<1> DEFINE S == {k \in Nat : Value[format_len[k]] = k}
<1>1. ASSUME NEW k \in Nat, \A m \in Nat : m < k => m \in S PROVE k \in S
  <2>1. CASE k = 0
    BY <2>1, FormatLen, ValueOf
  <2>2. CASE k # 0
    <3>1. k \div 10 \in Nat /\ k \div 10 < k /\ k % 10 \in 0 .. 9
          /\ k = 10 * (k \div 10) + (k % 10)
      BY <2>2
    <3>2. Value[format_len[k \div 10]] = k \div 10
      BY <1>1, <3>1
    <3>3. /\ format_len[k \div 10] \in Seq(D10)
          /\ format_len[k] = Append(format_len[k \div 10], Digits[(k % 10) + 1])
      BY <2>2, <3>1, FormatLen
    <3>4. Digits[(k % 10) + 1] \in D10 /\ DigitValue(Digits[(k % 10) + 1]) = k % 10
      BY <3>1, DigitsAre
    <3>5. Value[format_len[k]] = 10 * (k \div 10) + (k % 10)
      BY <3>2, <3>3, <3>4, ValueOf
    <3>6. QED
      BY <3>1, <3>5
  <2>3. QED
    BY <2>1, <2>2
<1>2. S = Nat
  <2> S \in SUBSET Nat
    OBVIOUS
  <2> HIDE DEF S
  <2> QED
    BY <1>1, Induction
<1>3. format_len[n] \in Seq(D10)
  BY FormatLen
<1>4. QED
  BY <1>2, <1>3 DEF Length, D10

-----------------------------------------------------------------------------
(* Texts, packets, and how a packet is read.                               *)

Text == Seq(Byte)
Packet(t) == Encode(Append(t, NL))

(* The bytes the protocol gives a meaning to are different bytes.          *)
LEMMA BytesAre ==
  /\ D10 \subseteq Byte
  /\ {NL, ":", ",", " "} \subseteq Byte
  /\ NL # ":" /\ NL # "," /\ NL # " " /\ ":" # "," /\ " " # ","
  /\ ":" \notin D10
BY DigitsAre, BytesAssumption DEF NL, D10

(* A sequence cut in two.                                                  *)
LEMMA Cut ==
  ASSUME NEW S, NEW b \in Seq(S), NEW n \in Nat, n <= Len(b)
  PROVE  /\ SubSeq(b, 1, n) \in Seq(S) /\ Len(SubSeq(b, 1, n)) = n
         /\ SubSeq(b, n + 1, Len(b)) \in Seq(S)
         /\ Len(SubSeq(b, n + 1, Len(b))) = Len(b) - n
         /\ SubSeq(b, 1, n) \o SubSeq(b, n + 1, Len(b)) = b
<1> DEFINE x == SubSeq(b, 1, n)
           y == SubSeq(b, n + 1, Len(b))
<1>0. Len(b) \in Nat
  BY LenProperties
<1>1. /\ x \in Seq(S) /\ Len(x) = n
      /\ \A i \in 1 .. n : x[i] = b[i]
  <2> DEFINE m == 1
  <2>1. m \in Nat \ {0} /\ m <= n + 1 /\ m = 1
    OBVIOUS
  <2> HIDE DEF m
  <2>2. /\ SubSeq(b, m, n) \in Seq(S) /\ Len(SubSeq(b, m, n)) = n - m + 1
        /\ \A i \in 1 .. n - m + 1 : SubSeq(b, m, n)[i] = b[m + i - 1]
    BY <2>1, PartOf
  <2>3. QED
    BY <2>1, <2>2
<1>2. /\ y \in Seq(S) /\ Len(y) = Len(b) - n
      /\ \A i \in 1 .. Len(b) - n : y[i] = b[n + i]
  <2> DEFINE m == n + 1
             k == Len(b)
  <2>1. m \in Nat \ {0} /\ k \in Nat /\ m <= k + 1 /\ k <= Len(b) /\ m = n + 1 /\ k = Len(b)
    BY <1>0
  <2> HIDE DEF m, k
  <2>2. /\ SubSeq(b, m, k) \in Seq(S) /\ Len(SubSeq(b, m, k)) = k - m + 1
        /\ \A i \in 1 .. k - m + 1 : SubSeq(b, m, k)[i] = b[m + i - 1]
    BY <2>1, PartOf
  <2>3. QED
    BY <1>0, <2>1, <2>2
<1> HIDE DEF x, y
<1>4. x \o y = b
  <2> DEFINE m == 1
             l == Len(b)
  <2>1. /\ m \in 1 .. Len(b) + 1 /\ n \in m - 1 .. Len(b) /\ l \in n .. Len(b)
        /\ m = 1 /\ l = Len(b)
    BY <1>0
  <2> HIDE DEF m, l
  <2>2. SubSeq(b, m, n) \o SubSeq(b, n + 1, l) = SubSeq(b, m, l)
    BY <2>1, ConcatAdjacentSubSeq
  <2>3. SubSeq(b, 1, Len(b)) = b
    BY SubSeqFull
  <2>4. QED
    BY <2>1, <2>2, <2>3 DEF x, y
<1>5. QED
  BY <1>1, <1>2, <1>4 DEF x, y

(* memchr: the first place of a byte.                                      *)
LEMMA FirstIs ==
  ASSUME NEW S, NEW s \in Seq(S), NEW c, Has(s, c)
  PROVE  /\ First(s, c) \in 1 .. Len(s) /\ s[First(s, c)] = c
         /\ \A i \in 1 .. First(s, c) - 1 : s[i] # c
<1> DEFINE I == {i \in DOMAIN s : s[i] = c}
<1>1. Len(s) \in Nat /\ DOMAIN s = 1 .. Len(s)
  BY LenProperties
<1>2. I \in SUBSET Nat /\ I # {}
  BY <1>1 DEF Has, Contains
<1>3. Min(I) \in I /\ \A y \in I : Min(I) <= y
  <2> HIDE DEF I
  <2> QED
    BY <1>2, MinIsLeast
<1>4. First(s, c) = Min(I)
  BY DEF First
<1> DEFINE m == Min(I)
<1>5. m \in 1 .. Len(s) /\ s[m] = c /\ \A y \in 1 .. Len(s) : s[y] = c => m <= y
  BY <1>1, <1>3
<1> HIDE DEF m, I
<1>6. \A i \in 1 .. m - 1 : s[i] # c
  <2> SUFFICES ASSUME NEW i \in 1 .. m - 1 PROVE s[i] # c
    OBVIOUS
  <2>1. i \in 1 .. Len(s) /\ ~(m <= i)
    BY <1>1, <1>5
  <2>2. QED
    BY <1>5, <2>1
<1>7. QED
  BY <1>4, <1>5, <1>6 DEF m

(* A place of a byte before which it does not occur is the first.          *)
LEMMA FirstUnique ==
  ASSUME NEW S, NEW s \in Seq(S), NEW c, NEW k \in 1 .. Len(s), s[k] = c,
         \A i \in 1 .. k - 1 : s[i] # c
  PROVE  Has(s, c) /\ First(s, c) = k
<1>1. Has(s, c)
  BY DEF Has, Contains
<1>2. /\ First(s, c) \in 1 .. Len(s) /\ s[First(s, c)] = c
      /\ \A i \in 1 .. First(s, c) - 1 : s[i] # c
  BY <1>1, FirstIs
<1>3. QED
  BY <1>1, <1>2, LenProperties

(* What follows the colon.                                                 *)
LEMMA DataIs ==
  ASSUME NEW s \in Text, Has(s, ":")
  PROVE  /\ Data(s) \in Text /\ Len(Data(s)) = Len(s) - First(s, ":")
         /\ \A i \in 1 .. Len(s) - First(s, ":") : Data(s)[i] = s[First(s, ":") + i]
         /\ Size(s) \in Nat \cup {-1}
<1> DEFINE m == First(s, ":") + 1
           k == Len(s)
<1>1. First(s, ":") \in 1 .. Len(s) /\ Len(s) \in Nat
  BY FirstIs, LenProperties DEF Text
<1>2. m \in Nat \ {0} /\ k \in Nat /\ m <= k + 1 /\ k <= Len(s)
      /\ m = First(s, ":") + 1 /\ k = Len(s)
  BY <1>1
<1> HIDE DEF m, k
<1>3. /\ SubSeq(s, m, k) \in Text /\ Len(SubSeq(s, m, k)) = k - m + 1
      /\ \A i \in 1 .. k - m + 1 : SubSeq(s, m, k)[i] = s[m + i - 1]
  BY <1>2, PartOf DEF Text
<1>4. Size(s) \in Nat \cup {-1}
  BY ValueOf DEF Size, Length, D10
<1>5. QED
  BY <1>1, <1>2, <1>3, <1>4 DEF Data

(* The first bytes of a message tell its size as soon as they hold the     *)
(* colon, and the data after it go on where they end.                      *)
LEMMA Parse ==
  ASSUME NEW seg \in Text, NEW rest \in Text, Has(seg, ":")
  PROVE  /\ Has(seg \o rest, ":")
         /\ First(seg \o rest, ":") = First(seg, ":")
         /\ Size(seg \o rest) = Size(seg)
         /\ Data(seg \o rest) = Data(seg) \o rest
<1> DEFINE P == seg \o rest
           c == First(seg, ":")
<1>1. /\ P \in Text /\ Len(P) = Len(seg) + Len(rest)
      /\ Len(seg) \in Nat /\ Len(rest) \in Nat
      /\ \A i \in 1 .. Len(seg) : P[i] = seg[i]
      /\ \A i \in 1 .. Len(rest) : P[Len(seg) + i] = rest[i]
  BY Concat DEF Text
<1>2. /\ c \in 1 .. Len(seg) /\ seg[c] = ":"
      /\ \A i \in 1 .. c - 1 : seg[i] # ":"
  BY FirstIs DEF Text
<1> HIDE DEF P, c
<1>3. Has(P, ":") /\ First(P, ":") = c
  <2>1. c \in 1 .. Len(P) /\ P[c] = ":" /\ \A i \in 1 .. c - 1 : P[i] # ":"
    <3>1. c \in 1 .. Len(P) /\ \A i \in 1 .. c - 1 : i \in 1 .. Len(seg)
      BY <1>1, <1>2
    <3>2. P[c] = ":"
      BY <1>1, <1>2
    <3>3. \A i \in 1 .. c - 1 : P[i] # ":"
      BY <1>1, <1>2, <3>1
    <3>4. QED
      BY <3>1, <3>2, <3>3
  <2>2. QED
    BY <1>1, <2>1, FirstUnique DEF Text
<1>4. SubSeq(P, 1, c - 1) = SubSeq(seg, 1, c - 1)
  <2> DEFINE m == 1
             k == c - 1
  <2>1. m \in Nat \ {0} /\ k \in Nat /\ m <= k + 1 /\ k <= Len(seg) /\ k <= Len(P)
        /\ m = 1 /\ k = c - 1
    BY <1>1, <1>2
  <2> HIDE DEF m, k
  <2>2. /\ SubSeq(P, m, k) \in Seq(Byte) /\ Len(SubSeq(P, m, k)) = k - m + 1
        /\ \A i \in 1 .. k - m + 1 : SubSeq(P, m, k)[i] = P[m + i - 1]
    BY <1>1, <2>1, PartOf DEF Text
  <2>3. /\ SubSeq(seg, m, k) \in Seq(Byte) /\ Len(SubSeq(seg, m, k)) = k - m + 1
        /\ \A i \in 1 .. k - m + 1 : SubSeq(seg, m, k)[i] = seg[m + i - 1]
    BY <2>1, PartOf DEF Text
  <2>4. \A i \in 1 .. k - m + 1 : SubSeq(P, m, k)[i] = SubSeq(seg, m, k)[i]
    BY <1>1, <1>2, <2>1, <2>2, <2>3
  <2>5. SubSeq(P, m, k) = SubSeq(seg, m, k)
    BY <2>2, <2>3, <2>4, SeqEqual
  <2>6. QED
    BY <2>1, <2>5
<1>5. Size(P) = Size(seg)
  BY <1>3, <1>4 DEF Size, c
<1>6. Data(P) = Data(seg) \o rest
  <2>1. /\ Data(P) \in Text /\ Len(Data(P)) = Len(P) - c
        /\ \A i \in 1 .. Len(P) - c : Data(P)[i] = P[c + i]
    BY <1>1, <1>3, DataIs
  <2>2. /\ Data(seg) \in Text /\ Len(Data(seg)) = Len(seg) - c
        /\ \A i \in 1 .. Len(seg) - c : Data(seg)[i] = seg[c + i]
    BY DataIs DEF c
  <2> DEFINE d == Data(seg) \o rest
  <2>3. /\ d \in Text /\ Len(d) = Len(Data(seg)) + Len(rest)
        /\ \A i \in 1 .. Len(Data(seg)) + Len(rest) :
             d[i] = IF i <= Len(Data(seg)) THEN Data(seg)[i] ELSE rest[i - Len(Data(seg))]
    BY <2>2, ConcatProperties DEF Text
  <2> HIDE DEF d
  <2>4. Len(d) = Len(Data(P))
    BY <1>1, <1>2, <2>1, <2>2, <2>3
  <2>5. ASSUME NEW i \in 1 .. Len(d) PROVE d[i] = Data(P)[i]
    <3>1. Data(P)[i] = P[c + i]
      BY <2>1, <2>4, <2>5
    <3>2. CASE i <= Len(Data(seg))
      BY <1>1, <1>2, <2>2, <2>3, <2>5, <3>1, <3>2
    <3>3. CASE i > Len(Data(seg))
      <4> DEFINE j == i - Len(Data(seg))
      <4>1. j \in 1 .. Len(rest) /\ c + i = Len(seg) + j
        BY <1>1, <1>2, <2>2, <2>3, <2>5, <3>3
      <4>2. d[i] = rest[j]
        BY <1>1, <1>2, <2>2, <2>3, <2>5, <3>3
      <4> HIDE DEF j
      <4>3. QED
        BY <1>1, <3>1, <4>1, <4>2
    <3>4. QED
      BY <1>1, <1>2, <2>2, <2>5, <3>2, <3>3
  <2>6. d = Data(P)
    BY <2>1, <2>3, <2>4, <2>5, SeqEqual DEF Text
  <2>7. QED
    BY <2>6 DEF d
<1>7. QED
  BY <1>3, <1>5, <1>6 DEF P, c

(* Before the colon has come, it is still on its way.                      *)
LEMMA ParseNotYet ==
  ASSUME NEW seg \in Text, NEW rest \in Text, ~Has(seg, ":"),
         Has(seg \o rest, ":")
  PROVE  Len(seg) < First(seg \o rest, ":") /\ rest # <<>>
<1> DEFINE P == seg \o rest
<1>1. /\ P \in Text /\ Len(P) = Len(seg) + Len(rest)
      /\ Len(seg) \in Nat /\ Len(rest) \in Nat
      /\ \A i \in 1 .. Len(seg) : P[i] = seg[i]
  BY Concat DEF Text
<1>2. First(P, ":") \in 1 .. Len(P) /\ P[First(P, ":")] = ":"
  BY <1>1, FirstIs DEF Text
<1> HIDE DEF P
<1>3. Len(seg) < First(P, ":")
  BY <1>1, <1>2 DEF Has, Contains
<1>4. Len(rest) # 0
  BY <1>1, <1>2, <1>3
<1>5. QED
  BY <1>3, <1>4 DEF P
Complete(P) == /\ Has(P, ":") /\ Size(P) # -1
               /\ Len(Data(P)) = Size(P) + 1 /\ Last(Data(P)) = ","

(* A packet is read as the text it was made of.                            *)
LEMMA PacketRead ==
  ASSUME NEW t \in Text, IsText(t)
  PROVE  /\ Packet(t) \in Text /\ Packet(t) # <<>>
         /\ Complete(Packet(t)) /\ First(Packet(t), ":") <= Bound
         /\ Size(Packet(t)) = Len(t)
         /\ Data(Packet(t)) = Append(t, ",") /\ Front(Data(Packet(t))) = t
<1> DEFINE F == format_len[Len(t)]
           colon == <<":">>
           comma == <<",">>
           seg == F \o colon
           rest == t \o comma
<1>0. Len(t) \in Nat /\ F \in Seq(D10) /\ Length(F) = Len(t)
  BY LenProperties, LengthRead DEF Text
<1>1. F \in Text /\ Len(F) \in Nat /\ \A i \in 1 .. Len(F) : F[i] # ":"
  <2>1. F \in Text
    BY <1>0, BytesAre, SeqMonotonic DEF Text
  <2>2. \A i \in 1 .. Len(F) : F[i] # ":"
    BY <1>0, BytesAre, ElementOfSeq
  <2>3. Len(F) \in Nat
    BY <1>0, LenProperties
  <2>4. QED
    BY <2>1, <2>2, <2>3
<1>a. colon \in Text /\ Len(colon) = 1 /\ colon[1] = ":" /\ comma \in Text
  <2>1. ":" \in Byte /\ "," \in Byte
    BY BytesAre
  <2>2. ASSUME NEW c \in Byte
        PROVE  <<c>> \in Text /\ Len(<<c>>) = 1 /\ <<c>>[1] = c
    BY DEF Text
  <2>3. QED
    BY <2>1, <2>2
<1>13. Len(F) < Bound /\ Bound \in Nat
  BY SizesAssumption DEF IsText
<1>2. Len(Append(t, NL)) - 1 = Len(t) /\ Front(Append(t, NL)) = t
  <2>1. NL \in Byte
    BY BytesAre
  <2>2. Len(Append(t, NL)) = Len(t) + 1
    BY <2>1, AppendProperties DEF Text
  <2>3. Front(Append(t, NL)) = t
    BY <2>1, FrontLast DEF Text
  <2>4. QED
    BY <1>0, <2>2, <2>3
<1>4. rest = Append(t, ",")
  BY BytesAre, AppendIsConcat DEF Text
<1>b. Packet(t) = ((F \o colon) \o t) \o comma
  BY <1>2 DEF Packet, Encode
<1> HIDE DEF F, colon, comma
<1>3. /\ seg \in Text /\ rest \in Text /\ Len(seg) = Len(F) + 1
      /\ seg[Len(F) + 1] = ":" /\ \A i \in 1 .. Len(F) : seg[i] # ":"
  <2>1. /\ seg \in Text /\ Len(seg) = Len(F) + Len(colon)
        /\ \A i \in 1 .. Len(F) : seg[i] = F[i]
        /\ \A i \in 1 .. Len(colon) : seg[Len(F) + i] = colon[i]
    <3>1. F \in Seq(Byte) /\ colon \in Seq(Byte)
      BY <1>1, <1>a DEF Text
    <3>2. QED
      BY <3>1, Concat DEF Text
  <2>2. rest \in Text
    BY <1>a, ConcatProperties DEF Text
  <2> HIDE DEF seg, rest
  <2>3. QED
    BY <1>1, <1>a, <2>1, <2>2
<1>5. Packet(t) = seg \o rest
  <2>1. (seg \o t) \o comma = seg \o (t \o comma)
    BY <1>a, <1>3, ConcatAssociative, SMTT(30) DEF Text
  <2>2. QED
    BY <1>b, <2>1
<1>c. SubSeq(seg, 1, Len(F)) = F
  BY <1>1, <1>a, SubSeqOfConcat1 DEF Text
<1> HIDE DEF seg, rest
<1>6. Has(seg, ":") /\ First(seg, ":") = Len(F) + 1
  <2> DEFINE k == Len(F) + 1
  <2>1. k \in 1 .. Len(seg) /\ seg[k] = ":" /\ k - 1 = Len(F)
    BY <1>1, <1>3
  <2>2. \A i \in 1 .. k - 1 : seg[i] # ":"
    BY <1>3, <2>1
  <2> HIDE DEF k
  <2>3. Has(seg, ":") /\ First(seg, ":") = k
    BY <1>3, <2>1, <2>2, FirstUnique DEF Text
  <2>4. QED
    BY <2>3 DEF k
<1>7. /\ Has(seg \o rest, ":") /\ First(seg \o rest, ":") = Len(F) + 1
      /\ Size(seg \o rest) = Size(seg) /\ Data(seg \o rest) = Data(seg) \o rest
  BY <1>3, <1>6, Parse
<1>8. Size(seg) = Len(t)
  <2>1. First(seg, ":") - 1 = Len(F)
    BY <1>1, <1>6
  <2>2. QED
    BY <1>0, <1>c, <2>1 DEF Size
<1>9. Data(seg) = <<>>
  <2>1. Data(seg) \in Text /\ Len(Data(seg)) = Len(seg) - First(seg, ":")
    BY <1>3, <1>6, DataIs
  <2>2. Len(Data(seg)) = 0
    BY <1>1, <1>3, <1>6, <2>1
  <2>3. QED
    BY <2>1, <2>2, EmptySeq DEF Text
<1>10. Data(seg) \o rest = rest
  BY <1>3, <1>9, ConcatEmptySeq DEF Text
<1>11. /\ Len(rest) = Len(t) + 1 /\ Last(rest) = "," /\ Front(rest) = t
  <2>1. "," \in Byte
    BY BytesAre
  <2>2. Len(Append(t, ",")) = Len(t) + 1
    BY <2>1, AppendProperties DEF Text
  <2>3. Last(Append(t, ",")) = "," /\ Front(Append(t, ",")) = t
    BY <2>1, FrontLast DEF Text
  <2>4. QED
    BY <1>4, <2>2, <2>3
<1>12. seg \o rest \in Text /\ seg \o rest # <<>>
  <2>1. seg \o rest \in Text /\ Len(seg \o rest) = Len(seg) + Len(rest)
    BY <1>3, ConcatProperties DEF Text
  <2>2. Len(seg \o rest) # 0
    <3>1. Len(seg) \in Nat /\ Len(rest) \in Nat /\ Len(seg) > 0
      <4>1. Len(rest) = Len(t) + 1
        BY <1>11
      <4>2. Len(seg) = Len(F) + 1
        BY <1>3
      <4>3. QED
        BY <1>0, <1>1, <4>1, <4>2
    <3>2. QED
      BY <2>1, <3>1
  <2>3. QED
    BY <2>1, <2>2, EmptySeq
<1>14. Size(seg \o rest) # -1
  BY <1>0, <1>7, <1>8
<1>15. QED
  <2>1. Len(F) + 1 <= Bound
    BY <1>1, <1>13
  <2>2. QED
    BY <1>4, <1>5, <1>7, <1>8, <1>10, <1>11, <1>12, <1>14, <2>1 DEF Complete

-----------------------------------------------------------------------------
(* The inductive invariant: where the bytes of an exchange may be.         *)

(* An end has bytes of its last text to write.                             *)
Unsent(e) == pc[e] = "write" /\ (obuf[e] # <<>> \/ todo[e] # <<>>)

(* Nothing is on its way to an end, and the end is not reading a packet.   *)
Empty(e) == wire[e] = <<>> /\ nbuf[e] = <<>> /\ ibuf[e] = <<>>
Quiet(e) == pc[e] \in {"idle", "write", "getline", "prefix"} /\ Empty(e)

(* The places where the bytes of a message may be on their way to an end.  *)
OnWire(e, P) ==
  /\ pc[e] \in {"write", "getline"} /\ nbuf[e] = <<>> /\ ibuf[e] = <<>>
  /\ wire[e] = P
InPrefix(e, P) ==
  /\ pc[e] = "prefix" /\ ibuf[e] = <<>>
  /\ nbuf[e] \o wire[e] = P /\ ~Has(nbuf[e], ":")
InPayload(e, P) ==
  /\ pc[e] = "payload" /\ nbuf[e] = <<>>
  /\ Has(P, ":") /\ Size(P) # -1
  /\ ibuf[e] \o wire[e] = Data(P)
  /\ need[e] > 0 /\ need[e] + Len(ibuf[e]) = Size(P) + 1
InBuffer(e, P) ==
  /\ pc[e] = "getline" /\ nbuf[e] = <<>> /\ wire[e] = <<>>
  /\ Complete(P) /\ ibuf[e] = Append(Front(Data(P)), NL)
Arriving(e, P) == OnWire(e, P) \/ InPrefix(e, P) \/ InPayload(e, P) \/ InBuffer(e, P)

(* A text has been read, or will be.                                       *)
Delivered(e, t) == pc[e] = "line" /\ line[e] = Append(t, NL) /\ Empty(e)
Coming(e, t) == Arriving(e, Packet(t)) \/ Delivered(e, t)

(* The read of a line has failed.                                          *)
Failed(e) == pc[e] = "line" /\ line[e] = <<>> /\ e \in err \cup eof

(* The client waits for a reply, and none is on its way.                   *)
Waiting ==
  \/ pc["client"] = "gone"
  \/ Quiet("client") /\ pc["client"] # "idle" /\ ~Unsent("client")

(* The session is over, or will not serve another query: it reads what no  *)
(* query is made of, or waits for more bytes than there are.               *)
Lost == pc["server"] = "gone" \/ Failed("server")
Deaf ==
  /\ Waiting /\ ~Unsent("server")
  /\ \/ pc["server"] = "line" /\ ~Has(line["server"], " ")
     \/ pc["server"] = "payload" /\ need["server"] > Len(wire["server"])
     \/ \E b \in Malformed : Arriving("server", b)

ServerSide ==
  \/ Lost
  \/ Deaf
  \/ /\ Quiet("server") /\ (~Unsent("server") \/ Waiting)
     /\ Len(asked) = Len(heard) + (IF Unsent("client") THEN 1 ELSE 0)
  \/ /\ Coming("server", Last(asked)) /\ ~Unsent("server") /\ Waiting
     /\ Len(asked) = Len(heard) + 1

ClientSide ==
  \/ pc["client"] = "gone"
  \/ /\ "client" \in eof /\ "server" \notin open
     /\ pc["client"] \in {"idle", "write", "getline", "line"} /\ Empty("client")
     /\ pc["client"] = "line" => line["client"] = <<>>
     /\ Len(answers) = Len(got)
  \/ /\ "client" \notin eof /\ Quiet("client")
     /\ Len(answers) = Len(got) + (IF Unsent("server") THEN 1 ELSE 0)
  \/ /\ "client" \notin eof /\ Coming("client", Last(answers))
     /\ ~Unsent("server") /\ ~Unsent("client")
     /\ Len(answers) = Len(got) + 1

(* What an end has still to send is the rest of its last text.             *)
Hist(e) == IF e = "client" THEN asked ELSE answers
Output(e) ==
  /\ Unsent(e) => Hist(e) # <<>> /\ obuf[e] \o todo[e] = Append(Last(Hist(e)), NL)
  /\ pc[e] \notin {"write", "gone"} => obuf[e] = <<>> /\ todo[e] = <<>>
  /\ ooff[e] = 0 /\ Len(obuf[e]) <= ocap[e]

Initial(s, t) == Len(s) <= Len(t) /\ \A i \in 1 .. Len(s) : s[i] = t[i]

PCs == {"idle", "write", "getline", "prefix", "payload", "line", "gone"}

TypeOK ==
  /\ pc \in [Ends -> PCs] /\ open \in SUBSET Ends
  /\ wire \in [Ends -> Text] /\ nbuf \in [Ends -> Text] /\ ibuf \in [Ends -> Text]
  /\ line \in [Ends -> Text] /\ todo \in [Ends -> Text] /\ obuf \in [Ends -> Text]
  /\ icap \in [Ends -> Nat] /\ need \in [Ends -> Nat]
  /\ ooff \in [Ends -> Nat] /\ ocap \in [Ends -> Nat \ {0}]
  /\ err \in SUBSET Ends /\ eof \in SUBSET Ends /\ failures \in Nat
  /\ asked \in Seq(Queries) /\ answers \in Seq(Replies)
  /\ heard \in Seq(Text) /\ got \in Seq(Text)

Gone == \A e \in Ends : pc[e] = "gone" <=> e \notin open

History == /\ Initial(heard, asked) /\ Initial(got, answers)
           /\ Len(heard) = Len(answers)

IInv ==
  /\ TypeOK
  /\ Gone
  /\ "client" \notin err /\ pc["server"] # "idle"
  /\ History
  /\ \A e \in Ends : Output(e)
  /\ ServerSide /\ ClientSide

(* An exchange in which a write has failed.  What an end then reads is a   *)
(* part of a packet, or it waits for more bytes than there are.            *)
Partial(P) ==
  P \in Text /\ (Has(P, ":") /\ Size(P) # -1 => Len(Data(P)) <= Size(P))
Starved(e) == pc[e] = "payload" /\ need[e] > Len(wire[e])
Torn(e) == Starved(e) \/ \E P : Partial(P) /\ Arriving(e, P)

(* The client will not write; the client has met the end of its input.     *)
Stopped ==
  \/ pc["client"] = "gone"
  \/ /\ "client" \in err /\ pc["client"] \in {"idle", "line"}
     /\ pc["client"] = "line" => line["client"] = <<>>
Unanswered ==
  /\ "client" \in eof /\ "server" \notin open /\ ibuf["client"] = <<>>
  /\ pc["client"] \in {"idle", "write", "getline", "line"}
  /\ pc["client"] = "line" => line["client"] = <<>>

(* A write that failed leaves its line in the buffer.                      *)
Kept(e) == e \in err /\ pc[e] \in {"idle", "line", "gone"}

(* Neither end will take another line.                                     *)
Over ==
  \/ /\ Lost
     /\ \/ Stopped \/ Unanswered
        \/ Torn("client") /\ ~Unsent("client") /\ "client" \notin err \cup eof
  \/ Stopped /\ Torn("server") /\ ~Unsent("server")

Broken ==
  /\ TypeOK /\ Gone /\ pc["server"] # "idle" /\ History
  /\ Over
  /\ \A e \in Ends : Kept(e) \/ Output(e)

-----------------------------------------------------------------------------
(* The steps of the reading half on a message.                             *)

(* Min and Max of two numbers.                                             *)
LEMMA TwoNumbers ==
  ASSUME NEW a \in Int, NEW b \in Int
  PROVE  /\ Min({a, b}) = IF a <= b THEN a ELSE b
         /\ Max({a, b}) = IF a <= b THEN b ELSE a
BY DEF Min, Max

(* Texts are made of texts.                                                *)
LEMMA TextOps ==
  /\ <<>> \in Text
  /\ \A a \in Text : Len(a) \in Nat /\ (Len(a) = 0 <=> a = <<>>)
  /\ \A a, b \in Text : a \o b \in Text /\ Len(a \o b) = Len(a) + Len(b)
  /\ \A a \in Text : a \o <<>> = a /\ <<>> \o a = a
  /\ \A a \in Text, c \in Byte : /\ Append(a, c) \in Text /\ Append(a, c) # <<>>
                                 /\ Len(Append(a, c)) = Len(a) + 1
  /\ \A a \in Text : a # <<>> => Front(a) \in Text /\ Len(Front(a)) = Len(a) - 1
  /\ \A c : ~Has(<<>>, c)
<1>1. <<>> \in Text
  BY EmptySeq DEF Text
<1>2. \A a \in Text : Len(a) \in Nat /\ (Len(a) = 0 <=> a = <<>>)
  BY EmptySeq, LenProperties DEF Text
<1>3. \A a, b \in Text : a \o b \in Text /\ Len(a \o b) = Len(a) + Len(b)
  BY ConcatProperties DEF Text
<1>4. \A a \in Text : a \o <<>> = a /\ <<>> \o a = a
  BY ConcatEmptySeq DEF Text
<1>5. \A a \in Text, c \in Byte : /\ Append(a, c) \in Text /\ Append(a, c) # <<>>
                                  /\ Len(Append(a, c)) = Len(a) + 1
  BY AppendProperties DEF Text
<1>6. \A a \in Text : a # <<>> => Front(a) \in Text /\ Len(Front(a)) = Len(a) - 1
  BY FrontLast DEF Text
<1>7. \A c : ~Has(<<>>, c)
  BY DEF Has, Contains
<1>8. QED
  BY <1>1, <1>2, <1>3, <1>4, <1>5, <1>6, <1>7

(* What is appended to a text from the front of another is taken from that *)
(* one.                                                                    *)
LEMMA CutText ==
  ASSUME NEW a \in Text, NEW b \in Text, NEW n \in Nat, n <= Len(b)
  PROVE  /\ a \o SubSeq(b, 1, n) \in Text
         /\ Len(a \o SubSeq(b, 1, n)) = Len(a) + n
         /\ (a \o SubSeq(b, 1, n)) \o SubSeq(b, n + 1, Len(b)) = a \o b
<1> DEFINE S == Byte
           x == SubSeq(b, 1, n)
           y == SubSeq(b, n + 1, Len(b))
<1>1. a \in Seq(S) /\ b \in Seq(S)
  BY DEF Text
<1> HIDE DEF S
<1>2. x \in Seq(S) /\ y \in Seq(S) /\ Len(x) = n /\ x \o y = b
  BY <1>1, Cut
<1> HIDE DEF x, y
<1>3. a \o x \in Seq(S) /\ Len(a \o x) = Len(a) + Len(x)
  BY <1>1, <1>2, ConcatProperties
<1>4. (a \o x) \o y = a \o (x \o y)
  <2>1. x \in Seq(S) /\ y \in Seq(S)
    BY <1>2
  <2>2. \A s, t, u \in Seq(S) : (s \o t) \o u = s \o (t \o u)
    BY ConcatAssociative, SMTT(30)
  <2>3. QED
    BY <1>1, <2>1, <2>2
<1>5. QED
  BY <1>2, <1>3, <1>4 DEF Text, S, x, y

(* What a recv takes from the wire.                                        *)
LEMMA Piece ==
  ASSUME TypeOK, NEW e \in Ends, NEW most \in Int, NEW n \in Nat, Received(e, most, n)
  PROVE  /\ n \in 1 .. Len(wire[e]) /\ n <= most
         /\ SubSeq(wire[e], 1, n) \in Text /\ Len(SubSeq(wire[e], 1, n)) = n
         /\ SubSeq(wire[e], n + 1, Len(wire[e])) \in Text
         /\ Len(SubSeq(wire[e], n + 1, Len(wire[e]))) = Len(wire[e]) - n
         /\ \A a \in Text :
              /\ a \o SubSeq(wire[e], 1, n) \in Text
              /\ Len(a \o SubSeq(wire[e], 1, n)) = Len(a) + n
              /\ (a \o SubSeq(wire[e], 1, n)) \o SubSeq(wire[e], n + 1, Len(wire[e]))
                   = a \o wire[e]
<1>1. wire[e] \in Text /\ Len(wire[e]) \in Nat
  BY TextOps DEF TypeOK
<1>2. n \in 1 .. Len(wire[e]) /\ n <= most
  BY <1>1, TwoNumbers DEF Received
<1> DEFINE w == wire[e]
<1>3. w \in Seq(Byte) /\ n \in Nat /\ n <= Len(w) /\ <<>> \in Seq(Byte)
  BY <1>1, <1>2, TextOps DEF Text
<1> HIDE DEF w
<1>4. /\ SubSeq(w, 1, n) \in Text /\ Len(SubSeq(w, 1, n)) = n
      /\ SubSeq(w, n + 1, Len(w)) \in Text
      /\ Len(SubSeq(w, n + 1, Len(w))) = Len(w) - n
  BY <1>3, Cut DEF Text
<1>5. ASSUME NEW a \in Text
      PROVE  /\ a \o SubSeq(w, 1, n) \in Text
             /\ Len(a \o SubSeq(w, 1, n)) = Len(a) + n
             /\ (a \o SubSeq(w, 1, n)) \o SubSeq(w, n + 1, Len(w)) = a \o w
  <2>1. a \in Seq(Byte)
    BY DEF Text
  <2>2. w \in Text
    BY <1>3 DEF Text
  <2>3. QED
    BY <1>3, <2>2, CutText
<1>6. QED
  BY <1>2, <1>4, <1>5 DEF w

(* No more follows a message than the rest of its payload and the comma.   *)
Message(P) ==
  /\ P \in Text
  /\ Has(P, ":") /\ Size(P) # -1 => Len(Data(P)) <= Size(P) + 1

(* Queries and replies are texts; what breaks the protocol is a message    *)
(* that, when it is a packet, names no map.                                *)
LEMMA Texts ==
  /\ \A q \in Queries : q \in Text /\ IsText(q) /\ Has(q, " ")
  /\ \A r \in Replies : r \in Text /\ IsText(r)
  /\ \A b \in Malformed : Message(b) /\ (Complete(b) => ~Has(Data(b), " "))
<1>1. \A q \in Queries : q \in Text /\ IsText(q) /\ Has(q, " ")
  BY TextsAssumption DEF IsText, Text
<1>2. \A r \in Replies : r \in Text /\ IsText(r)
  BY TextsAssumption DEF IsText, Text
<1>3. ASSUME NEW b \in Malformed PROVE Message(b) /\ (Complete(b) => ~Has(Data(b), " "))
  <2>1. b \in Text /\ (Has(b, ":") => Len(Data(b)) \in Nat /\ Size(b) \in Nat \cup {-1})
    BY TextsAssumption, DataIs, TextOps DEF Text
  <2>2. Has(b, ":") /\ Size(b) # -1 =>
          \/ Len(Data(b)) <= Size(b)
          \/ /\ Len(Data(b)) = Size(b) + 1
             /\ Has(Data(b), " ") => Last(Data(b)) # ","
    BY TextsAssumption
  <2>a. ASSUME Has(b, ":"), Size(b) # -1
        PROVE  /\ Len(Data(b)) <= Size(b) + 1
               /\ Len(Data(b)) = Size(b) + 1 /\ Last(Data(b)) = "," => ~Has(Data(b), " ")
    <3>1. Size(b) \in Nat /\ Len(Data(b)) \in Nat
      BY <2>1, <2>a
    <3> DEFINE l == Len(Data(b))
               z == Size(b)
               good == Has(Data(b), " ") => Last(Data(b)) # ","
    <3>2. l \in Nat /\ z \in Nat
      BY <3>1
    <3>3. l <= z \/ (l = z + 1 /\ good)
      BY <2>2, <2>a
    <3> HIDE DEF l, z, good
    <3>4. l <= z + 1 /\ (l = z + 1 => good)
      BY <3>2, <3>3
    <3>5. QED
      BY <3>4 DEF l, z, good
  <2>3. Message(b)
    BY <2>1, <2>a DEF Message
  <2>4. Complete(b) => ~Has(Data(b), " ")
    BY <2>a DEF Complete
  <2>5. QED
    BY <2>3, <2>4
<1>4. QED
  BY <1>1, <1>2, <1>3

(* The packet of a text is a complete message that carries the text, with  *)
(* a colon within the bound of the prefix.                                 *)
LEMMA PacketIs ==
  ASSUME NEW t \in Text, IsText(t)
  PROVE  /\ Message(Packet(t)) /\ Complete(Packet(t)) /\ Packet(t) # <<>>
         /\ First(Packet(t), ":") <= Bound /\ Front(Data(Packet(t))) = t
<1>1. Len(t) \in Nat
  BY TextOps
<1> DEFINE P == Packet(t)
<1>2. /\ P \in Text /\ P # <<>> /\ Complete(P) /\ First(P, ":") <= Bound
      /\ Size(P) = Len(t) /\ Front(Data(P)) = t
  BY PacketRead
<1> HIDE DEF P
<1>a. Len(Data(P)) = Len(t) + 1
  BY <1>2 DEF Complete
<1>b. Len(Data(P)) <= Size(P) + 1
  BY <1>1, <1>2, <1>a
<1>3. Message(P)
  BY <1>2, <1>b DEF Message
<1>4. QED
  BY <1>2, <1>3 DEF P
-----------------------------------------------------------------------------
(* Reading.                                                                *)

(* The packet is complete.                                                 *)
LEMMA CompletedStep ==
  ASSUME TypeOK, NEW e \in Ends, NEW P, Message(P), Has(P, ":"), Size(P) # -1,
         Len(Data(P)) = Size(P) + 1, Completed(e, Data(P)),
         nbuf'[e] = <<>>, wire'[e] = <<>>, need'[e] = 0
  PROVE  /\ InBuffer(e, P)' \/ Failed(e)'
         /\ Complete(P) => InBuffer(e, P)'
         /\ Len(ibuf'[e]) <= Size(P) + 1
<1>1. /\ Data(P) \in Text /\ Size(P) \in Nat /\ Len(Data(P)) \in Nat
  BY DataIs, TextOps DEF Message
<1>2. Data(P) # <<>>
  BY <1>1, TextOps
<1>3. /\ Front(Data(P)) \in Text /\ NL \in Byte
      /\ Len(Append(Front(Data(P)), NL)) = Len(Data(P)) /\ Len(<<>>) = 0
  <2>1. /\ Front(Data(P)) \in Text /\ NL \in Byte /\ <<>> \in Text
        /\ Len(Front(Data(P))) = Len(Data(P)) - 1
    BY <1>1, <1>2, TextOps, BytesAre
  <2>2. Len(Append(Front(Data(P)), NL)) = Len(Front(Data(P))) + 1 /\ Len(<<>>) = 0
    BY <2>1, TextOps
  <2>3. QED
    BY <1>1, <2>1, <2>2
<1>4. pc \in [Ends -> PCs] /\ ibuf \in [Ends -> Text] /\ line \in [Ends -> Text]
  BY DEF TypeOK
<1>5. CASE Last(Data(P)) = ","
  <2>1. Complete(P)
    BY <1>5 DEF Complete
  <2>2. ibuf'[e] = Append(Front(Data(P)), NL) /\ pc'[e] = "getline"
    BY <1>4, <1>5 DEF Completed
  <2>3. InBuffer(e, P)'
    BY <2>1, <2>2 DEF InBuffer
  <2>4. QED
    BY <1>1, <1>3, <2>2, <2>3
<1>6. CASE Last(Data(P)) # ","
  <2>1. ibuf'[e] = <<>> /\ pc'[e] = "line" /\ line'[e] = <<>> /\ e \in err'
    BY <1>4, <1>6 DEF Completed, Fail, Return
  <2>2. Failed(e)' /\ ~Complete(P)
    BY <1>6, <2>1 DEF Failed, Complete
  <2>3. QED
    BY <1>1, <1>3, <2>1, <2>2
<1>7. QED
  BY <1>5, <1>6

(* One recv of a prefix: the message stays where it was, goes on to the    *)
(* buffer, or the stream fails; it does not fail on a packet.              *)
LEMMA PrefixStep ==
  ASSUME TypeOK, NEW e \in Ends, NEW P, Message(P), InPrefix(e, P), RecvPrefix(e)
  PROVE  /\ InPrefix(e, P)' \/ InPayload(e, P)' \/ InBuffer(e, P)' \/ Failed(e)'
         /\ Complete(P) /\ First(P, ":") <= Bound =>
              InPrefix(e, P)' \/ InPayload(e, P)' \/ InBuffer(e, P)'
<1>0. /\ pc \in [Ends -> PCs] /\ ibuf \in [Ends -> Text] /\ line \in [Ends -> Text]
      /\ nbuf \in [Ends -> Text] /\ wire \in [Ends -> Text] /\ need \in [Ends -> Nat]
      /\ icap \in [Ends -> Nat]
      /\ nbuf[e] \in Text /\ Len(nbuf[e]) \in Nat /\ Bound \in Nat /\ icap[e] \in Nat
      /\ wire[e] \in Text
  BY SizesAssumption, TextOps DEF TypeOK
<1> DEFINE seg(n) == nbuf[e] \o SubSeq(wire[e], 1, n)
           size(n) == Size(seg(n))
           data(n) == Data(seg(n))
           left(n) == Remaining(size(n), Len(data(n)))
<1>1. PICK n \in 1 .. Bound :
       /\ Received(e, Bound - Len(nbuf[e]), n)
       /\ wire' = [wire EXCEPT ![e] = SubSeq(@, n + 1, Len(@))]
       /\ \/ /\ ~Has(seg(n), ":") /\ Len(seg(n)) < Bound
             /\ nbuf' = [nbuf EXCEPT ![e] = seg(n)]
             /\ UNCHANGED <<pc, ibuf, icap, need, line, err>>
          \/ /\ ~Has(seg(n), ":") /\ Len(seg(n)) = Bound
             /\ Fail(e)
             /\ UNCHANGED <<nbuf, ibuf, icap, need>>
          \/ /\ Has(seg(n), ":") /\ size(n) = -1
             /\ Fail(e)
             /\ nbuf' = [nbuf EXCEPT ![e] = <<>>]
             /\ UNCHANGED <<ibuf, icap, need>>
          \/ /\ Has(seg(n), ":") /\ size(n) # -1
             /\ nbuf' = [nbuf EXCEPT ![e] = <<>>]
             /\ icap' = [icap EXCEPT ![e] = Enlarged(@, size(n))]
             /\ need' = [need EXCEPT ![e] = left(n)]
             /\ IF left(n) = 0
                THEN Completed(e, data(n))
                ELSE /\ ibuf' = [ibuf EXCEPT ![e] = data(n)]
                     /\ pc' = [pc EXCEPT ![e] = "payload"]
                     /\ UNCHANGED <<line, err>>
  BY DEF RecvPrefix
<1> DEFINE s == seg(n)
           r == SubSeq(wire[e], n + 1, Len(wire[e]))
<1>2. /\ s \in Text /\ r \in Text /\ s \o r = P /\ Len(s) \in Nat /\ Len(s) <= Bound
  <2>1. n \in Nat /\ Bound - Len(nbuf[e]) \in Int
    BY <1>0
  <2>2. nbuf[e] \o wire[e] = P
    BY DEF InPrefix
  <2>3. /\ n <= Bound - Len(nbuf[e]) /\ r \in Text
        /\ s \in Text /\ Len(s) = Len(nbuf[e]) + n /\ s \o r = nbuf[e] \o wire[e]
    <3> DEFINE most == Bound - Len(nbuf[e])
               k == n
    <3>1. most \in Int /\ Received(e, most, n)
      BY <1>1, <2>1
    <3> HIDE DEF most
    <3>2. /\ n <= most /\ r \in Text
          /\ \A a \in Text :
               /\ a \o SubSeq(wire[e], 1, n) \in Text
               /\ Len(a \o SubSeq(wire[e], 1, n)) = Len(a) + n
               /\ (a \o SubSeq(wire[e], 1, n)) \o SubSeq(wire[e], n + 1, Len(wire[e]))
                    = a \o wire[e]
      BY <2>1, <3>1, Piece
    <3>3. QED
      BY <1>0, <3>2 DEF most
  <2> HIDE DEF s, r
  <2>4. QED
    BY <1>0, <2>1, <2>2, <2>3
<1>3. wire'[e] = r /\ pc[e] = "prefix" /\ ibuf[e] = <<>>
  BY <1>0, <1>1 DEF InPrefix
<1> HIDE DEF s, r
<1>4. CASE ~Has(s, ":") /\ Len(s) < Bound
           /\ nbuf' = [nbuf EXCEPT ![e] = s]
           /\ UNCHANGED <<pc, ibuf, icap, need, line, err>>
  BY <1>0, <1>2, <1>3, <1>4 DEF InPrefix
<1>5. CASE ~Has(s, ":") /\ Len(s) = Bound /\ Fail(e)
           /\ UNCHANGED <<nbuf, ibuf, icap, need>>
  <2>1. Failed(e)'
    BY <1>0, <1>5 DEF Fail, Return, Failed
  <2>2. ASSUME Complete(P), First(P, ":") <= Bound PROVE FALSE
    <3>1. Has(s \o r, ":") /\ P \in Text
      BY <1>2, <2>2 DEF Complete, Message
    <3>2. Bound < First(P, ":")
      BY <1>2, <1>5, <3>1, ParseNotYet
    <3>3. First(P, ":") \in Nat
      BY <1>2, <3>1, FirstIs DEF Text
    <3>4. QED
      BY <1>0, <2>2, <3>2, <3>3
  <2>3. QED
    BY <2>1, <2>2
<1>6. ASSUME Has(s, ":")
      PROVE  /\ Has(P, ":") /\ Size(s) = Size(P) /\ Data(s) \o r = Data(P)
             /\ Data(s) \in Text /\ Len(Data(s)) \in Nat /\ Size(s) \in Nat \cup {-1}
             /\ Len(Data(P)) = Len(Data(s)) + Len(r) /\ Len(r) \in Nat
             /\ Size(P) # -1 => Len(Data(P)) <= Size(P) + 1
  <2>1. Has(P, ":") /\ Size(P) = Size(s) /\ Data(P) = Data(s) \o r
    BY <1>2, <1>6, Parse
  <2>2. Data(s) \in Text /\ Size(s) \in Nat \cup {-1}
    BY <1>2, <1>6, DataIs
  <2>3. QED
    BY <1>2, <2>1, <2>2, TextOps DEF Message
<1>7. CASE Has(s, ":") /\ Size(s) = -1 /\ Fail(e)
           /\ nbuf' = [nbuf EXCEPT ![e] = <<>>] /\ UNCHANGED <<ibuf, icap, need>>
  <2>1. Failed(e)'
    BY <1>0, <1>7 DEF Fail, Return, Failed
  <2>2. ~Complete(P)
    BY <1>6, <1>7 DEF Complete
  <2>3. QED
    BY <2>1, <2>2
<1>8. CASE /\ Has(s, ":") /\ Size(s) # -1
           /\ nbuf' = [nbuf EXCEPT ![e] = <<>>]
           /\ icap' = [icap EXCEPT ![e] = Enlarged(@, Size(s))]
           /\ need' = [need EXCEPT ![e] = Remaining(Size(s), Len(Data(s)))]
           /\ IF Remaining(Size(s), Len(Data(s))) = 0
              THEN Completed(e, Data(s))
              ELSE /\ ibuf' = [ibuf EXCEPT ![e] = Data(s)]
                   /\ pc' = [pc EXCEPT ![e] = "payload"]
                   /\ UNCHANGED <<line, err>>
  <2>1. Size(s) \in Nat /\ Len(Data(s)) <= Size(s) + 1
    BY <1>6, <1>8
  <2>2. Remaining(Size(s), Len(Data(s))) = Size(s) + 1 - Len(Data(s))
    BY <2>1 DEF Remaining
  <2>3. icap'[e] \in Nat /\ Size(s) + 1 <= icap'[e]
    <3>1. icap'[e] = Max({icap[e], Size(s) + 1})
      BY <1>0, <1>8 DEF Enlarged
    <3> DEFINE k == Size(s) + 1
    <3>2. k \in Int /\ icap[e] \in Int /\ k \in Nat
      BY <1>0, <2>1
    <3> HIDE DEF k
    <3>3. Max({icap[e], k}) = IF icap[e] <= k THEN k ELSE icap[e]
      BY <3>2, TwoNumbers
    <3>4. icap'[e] \in Nat /\ k <= icap'[e]
      BY <1>0, <3>1, <3>2, <3>3 DEF k
    <3>5. QED
      BY <3>4 DEF k
  <2>4. nbuf'[e] = <<>> /\ need'[e] = Size(s) + 1 - Len(Data(s))
    BY <1>0, <1>8, <2>2
  <2>5. CASE Len(Data(s)) = Size(s) + 1
    <3>1. r = <<>>
      <4>1. Len(r) = 0
        BY <1>6, <1>8, <2>1, <2>5
      <4>2. QED
        BY <1>2, <4>1, TextOps
    <3>2. Data(s) = Data(P) /\ Has(P, ":") /\ Size(P) # -1 /\ Size(P) = Size(s)
      BY <1>6, <1>8, <3>1, TextOps
    <3>3. Completed(e, Data(P)) /\ need'[e] = 0 /\ wire'[e] = <<>>
      BY <1>3, <1>8, <2>1, <2>2, <2>4, <2>5, <3>1, <3>2
    <3>4. /\ InBuffer(e, P)' \/ Failed(e)'
          /\ Complete(P) => InBuffer(e, P)'
          /\ Len(ibuf'[e]) <= Size(P) + 1
      BY <2>4, <2>5, <3>2, <3>3, CompletedStep
    <3>5. QED
      BY <3>4
  <2>6. CASE Len(Data(s)) # Size(s) + 1
    <3>1. Size(s) + 1 - Len(Data(s)) > 0
      BY <1>6, <1>8, <2>1, <2>6
    <3>2. ibuf'[e] = Data(s) /\ pc'[e] = "payload"
      BY <1>0, <1>8, <2>2, <3>1
    <3>3. InPayload(e, P)'
      <4>1. need'[e] > 0 /\ need'[e] + Len(ibuf'[e]) = Size(P) + 1
        BY <1>6, <1>8, <2>1, <2>4, <3>1, <3>2
      <4>2. ibuf'[e] \o wire'[e] = Data(P) /\ Has(P, ":") /\ Size(P) # -1
        BY <1>3, <1>6, <1>8, <3>2
      <4>3. QED
        BY <2>4, <3>2, <4>1, <4>2 DEF InPayload
    <3>4. QED
      BY <3>3
  <2>7. QED
    BY <2>5, <2>6
<1>9. QED
  BY <1>1, <1>4, <1>5, <1>7, <1>8 DEF s

(* One recv of a payload.                                                  *)
LEMMA PayloadPiece ==
  ASSUME TypeOK, NEW e \in Ends, RecvPayload(e)
  PROVE  \E n \in Nat, data \in Text, r \in Text :
           /\ n \in 1 .. need[e] /\ n <= Len(wire[e])
           /\ data \o r = ibuf[e] \o wire[e] /\ data # <<>>
           /\ Len(data) = Len(ibuf[e]) + n /\ Len(r) = Len(wire[e]) - n
           /\ wire' = [wire EXCEPT ![e] = r] /\ need' = [need EXCEPT ![e] = @ - n]
           /\ IF n = need[e] THEN Completed(e, data)
              ELSE ibuf' = [ibuf EXCEPT ![e] = data] /\ UNCHANGED <<pc, line, err>>
<1>0. need[e] \in Nat /\ ibuf[e] \in Text /\ wire[e] \in Text /\ Len(ibuf[e]) \in Nat
  BY TextOps DEF TypeOK
<1>1. PICK n \in 1 .. need[e] :
       /\ Received(e, need[e], n)
       /\ wire' = [wire EXCEPT ![e] = SubSeq(@, n + 1, Len(@))]
       /\ need' = [need EXCEPT ![e] = @ - n]
       /\ IF n = need[e] THEN Completed(e, ibuf[e] \o SubSeq(wire[e], 1, n))
          ELSE /\ ibuf' = [ibuf EXCEPT ![e] = ibuf[e] \o SubSeq(wire[e], 1, n)]
               /\ UNCHANGED <<pc, line, err>>
  BY DEF RecvPayload, Joined
<1> DEFINE data == ibuf[e] \o SubSeq(wire[e], 1, n)
           r == SubSeq(wire[e], n + 1, Len(wire[e]))
<1>2. n \in Nat /\ need[e] \in Int
  BY <1>0
<1>3. /\ n \in 1 .. Len(wire[e]) /\ r \in Text /\ Len(r) = Len(wire[e]) - n
      /\ data \in Text /\ Len(data) = Len(ibuf[e]) + n
      /\ data \o r = ibuf[e] \o wire[e]
  BY <1>0, <1>1, <1>2, Piece, ZenonT(30)
<1>4. /\ wire' = [wire EXCEPT ![e] = r]
      /\ IF n = need[e] THEN Completed(e, data)
         ELSE ibuf' = [ibuf EXCEPT ![e] = data] /\ UNCHANGED <<pc, line, err>>
  BY <1>1
<1> HIDE DEF data, r
<1>5. data # <<>>
  <2>1. Len(data) # 0
    BY <1>0, <1>2, <1>3
  <2>2. QED
    BY <1>3, <2>1, TextOps
<1>6. n <= Len(wire[e])
  BY <1>3
<1>7. QED
  BY <1>1, <1>2, <1>3, <1>4, <1>5, <1>6

(* One recv of a payload keeps the message together; on a packet it does   *)
(* not fail.                                                               *)
LEMMA PayloadStep ==
  ASSUME TypeOK, NEW e \in Ends, NEW P, Message(P), InPayload(e, P), RecvPayload(e)
  PROVE  /\ InPayload(e, P)' \/ InBuffer(e, P)' \/ Failed(e)'
         /\ Complete(P) => InPayload(e, P)' \/ InBuffer(e, P)'
<1>0. /\ pc \in [Ends -> PCs] /\ ibuf \in [Ends -> Text] /\ need \in [Ends -> Nat]
      /\ wire \in [Ends -> Text] /\ need[e] \in Nat /\ Len(ibuf[e]) \in Nat
      /\ Len(wire[e]) \in Nat
  BY TextOps DEF TypeOK
<1>1. PICK n \in Nat, data \in Text, r \in Text :
           /\ n \in 1 .. need[e] /\ n <= Len(wire[e])
           /\ data \o r = ibuf[e] \o wire[e] /\ data # <<>>
           /\ Len(data) = Len(ibuf[e]) + n /\ Len(r) = Len(wire[e]) - n
           /\ wire' = [wire EXCEPT ![e] = r] /\ need' = [need EXCEPT ![e] = @ - n]
           /\ IF n = need[e] THEN Completed(e, data)
              ELSE ibuf' = [ibuf EXCEPT ![e] = data] /\ UNCHANGED <<pc, line, err>>
  BY PayloadPiece
<1>2. /\ pc[e] = "payload" /\ nbuf[e] = <<>> /\ Has(P, ":") /\ Size(P) # -1
      /\ ibuf[e] \o wire[e] = Data(P) /\ need[e] > 0
      /\ need[e] + Len(ibuf[e]) = Size(P) + 1
  BY DEF InPayload
<1>3. nbuf' = nbuf
  BY DEF RecvPayload
<1>4. /\ Size(P) \in Nat /\ Len(Data(P)) \in Nat /\ Len(Data(P)) <= Size(P) + 1
      /\ Len(r) \in Nat /\ Len(data) \in Nat /\ Len(Data(P)) = Len(data) + Len(r)
      /\ data \o r = Data(P)
  <2>1. Data(P) \in Text /\ Size(P) \in Nat \cup {-1}
    BY <1>2, DataIs DEF Message
  <2>2. Len(Data(P)) <= Size(P) + 1
    BY <1>2 DEF Message
  <2>3. data \o r = Data(P)
    BY <1>1, <1>2
  <2>4. Len(data \o r) = Len(data) + Len(r) /\ Len(r) \in Nat /\ Len(data) \in Nat
    BY TextOps
  <2>5. Size(P) \in Nat
    BY <1>2, <2>1
  <2>6. Len(Data(P)) \in Nat
    BY <2>1, TextOps
  <2>7. QED
    BY <2>2, <2>3, <2>4, <2>5, <2>6
<1>5. wire'[e] = r /\ need'[e] = need[e] - n
  BY <1>0, <1>1
<1>6. CASE n = need[e]
  <2>1. Len(data) = Size(P) + 1
    BY <1>0, <1>1, <1>2, <1>6
  <2>2. Len(r) = 0
    BY <1>4, <2>1
  <2>3. r = <<>>
    BY <2>2, TextOps
  <2>4. data = Data(P)
    BY <1>4, <2>3, TextOps
  <2>5. Completed(e, Data(P)) /\ Len(Data(P)) = Size(P) + 1
    BY <1>1, <1>6, <2>1, <2>4
  <2>6. nbuf'[e] = <<>> /\ wire'[e] = <<>> /\ need'[e] = 0
    BY <1>0, <1>2, <1>3, <1>5, <1>6, <2>3
  <2>7. QED
    BY <1>2, <2>5, <2>6, CompletedStep
<1>7. CASE n # need[e]
  <2>1. ibuf'[e] = data /\ pc' = pc
    BY <1>0, <1>1, <1>7
  <2>2. need'[e] > 0 /\ need'[e] + Len(data) = Size(P) + 1
    BY <1>0, <1>1, <1>2, <1>4, <1>5, <1>7
  <2>3. InPayload(e, P)'
    BY <1>2, <1>3, <1>4, <1>5, <2>1, <2>2 DEF InPayload
  <2>4. QED
    BY <2>3
<1>8. QED
  BY <1>6, <1>7

(* A payload of which not all bytes will come is never complete.           *)
LEMMA StarvedStep ==
  ASSUME TypeOK, NEW e \in Ends, pc[e] = "payload", need[e] > Len(wire[e]),
         RecvPayload(e)
  PROVE  pc'[e] = "payload" /\ need'[e] > Len(wire'[e])
<1>0. /\ need \in [Ends -> Nat] /\ wire \in [Ends -> Text] /\ need[e] \in Nat
      /\ Len(wire[e]) \in Nat
  BY TextOps DEF TypeOK
<1>1. PICK n \in Nat, data \in Text, r \in Text :
           /\ n \in 1 .. need[e] /\ n <= Len(wire[e])
           /\ data \o r = ibuf[e] \o wire[e] /\ data # <<>>
           /\ Len(data) = Len(ibuf[e]) + n /\ Len(r) = Len(wire[e]) - n
           /\ wire' = [wire EXCEPT ![e] = r] /\ need' = [need EXCEPT ![e] = @ - n]
           /\ IF n = need[e] THEN Completed(e, data)
              ELSE ibuf' = [ibuf EXCEPT ![e] = data] /\ UNCHANGED <<pc, line, err>>
  BY PayloadPiece
<1>2. n # need[e]
  BY <1>0, <1>1
<1>3. pc' = pc /\ wire'[e] = r /\ need'[e] = need[e] - n
  BY <1>0, <1>1, <1>2
<1>4. QED
  BY <1>0, <1>1, <1>3

(* A message in the input buffer becomes a line.                           *)
LEMMA AppendIs ==
  ASSUME NEW a \in Text, NEW c \in Byte
  PROVE  /\ Append(a, c) \in Text /\ Len(Append(a, c)) = Len(a) + 1
         /\ Len(a) \in Nat /\ Append(a, c)[Len(a) + 1] = c
         /\ \A i \in 1 .. Len(a) : Append(a, c)[i] = a[i]
<1>1. a \in Seq(Byte)
  BY DEF Text
<1>2. QED
  BY <1>1, AppendProperties, LenProperties DEF Text

(* getline takes the text of a packet from the buffer, as it was sent.     *)
LEMMA LineStep ==
  ASSUME TypeOK, NEW e \in Ends, NEW P, Message(P), InBuffer(e, P), TakeLine(e)
  PROVE  /\ \A t \in Text : IsText(t) /\ P = Packet(t) => Delivered(e, t)'
         /\ ~Has(Data(P), " ") => pc'[e] = "line" /\ ~Has(line'[e], " ")
<1> DEFINE d == Data(P)
           f == Front(d)
           b == Append(f, NL)
           k == First(b, NL)
<1>0. /\ pc \in [Ends -> PCs] /\ ibuf \in [Ends -> Text] /\ line \in [Ends -> Text]
  BY DEF TypeOK
<1>1. /\ ibuf[e] = b /\ nbuf[e] = <<>> /\ wire[e] = <<>>
      /\ d \in Text /\ Len(d) = Size(P) + 1 /\ Size(P) \in Nat
  BY DataIs DEF InBuffer, Complete, Message
<1> HIDE DEF d
<1>n. NL \in Byte /\ NL # " "
  BY BytesAre
<1>2. d # <<>> /\ f \in Text /\ Len(f) = Len(d) - 1 /\ Len(f) \in Nat
  <2>1. Len(d) # 0
    BY <1>1
  <2>2. d # <<>> /\ f \in Text /\ Len(f) = Len(d) - 1
    BY <1>1, <2>1, TextOps
  <2>3. QED
    BY <2>2, TextOps
<1>f. \A i \in 1 .. Len(f) : f[i] = d[i]
  <2>1. d = Append(f, Last(d)) /\ Last(d) \in Byte
    BY <1>1, <1>2, FrontLast DEF Text
  <2> DEFINE z == Last(d)
  <2> HIDE DEF z, f
  <2>2. \A i \in 1 .. Len(f) : Append(f, z)[i] = f[i]
    <3>1. f \in Text /\ z \in Byte
      BY <1>2, <2>1 DEF z
    <3>2. QED
      BY <3>1, AppendIs
  <2>3. QED
    BY <2>1, <2>2 DEF z
<1> HIDE DEF f
<1>3. /\ b \in Text /\ Len(b) = Len(f) + 1 /\ b[Len(f) + 1] = NL
      /\ \A i \in 1 .. Len(f) : b[i] = f[i]
  BY <1>n, <1>2, AppendIs
<1> HIDE DEF b
<1>l. Len(b) = Len(f) + 1 /\ Len(f) \in Nat /\ Len(d) = Len(f) + 1
  BY <1>1, <1>2, <1>3
<1>4. Has(b, NL)
  <2>1. Len(f) + 1 \in 1 .. Len(b)
    BY <1>l
  <2>2. DOMAIN b = 1 .. Len(b)
    BY <1>3, LenProperties DEF Text
  <2>3. QED
    BY <1>3, <2>1, <2>2 DEF Has, Contains
<1>5. k \in 1 .. Len(b) /\ b[k] = NL /\ \A i \in 1 .. k - 1 : b[i] # NL
  BY <1>3, <1>4, FirstIs DEF Text
<1>6. /\ line'[e] = SubSeq(b, 1, k) /\ pc'[e] = "line"
      /\ ibuf'[e] = SubSeq(b, k + 1, Len(b)) /\ nbuf' = nbuf /\ wire' = wire
  BY <1>0, <1>1 DEF TakeLine, Return
<1> HIDE DEF k
<1>7. ASSUME NEW t \in Text, IsText(t), P = Packet(t) PROVE Delivered(e, t)'
  <2>1. f = t
    BY <1>7, PacketIs DEF f, d
  <2>2. \A i \in 1 .. Len(f) : f[i] # NL
    <3>1. ~Has(t, NL) /\ DOMAIN t = 1 .. Len(t)
      BY <1>7, LenProperties DEF IsText, Text
    <3>2. QED
      BY <2>1, <3>1 DEF Has, Contains
  <2>3. k = Len(f) + 1
    <3>1. k \in 1 .. Len(f) + 1
      BY <1>5, <1>l
    <3>2. ASSUME k \in 1 .. Len(f) PROVE FALSE
      BY <1>3, <1>5, <2>2, <3>2
    <3>3. QED
      BY <1>l, <3>1, <3>2
  <2>4. SubSeq(b, 1, k) = b /\ SubSeq(b, k + 1, Len(b)) = <<>>
    <3>1. SubSeq(b, 1, Len(b)) = b
      BY <1>3, SubSeqFull DEF Text
    <3>2. k = Len(b) /\ k \in Nat /\ k <= Len(b)
      BY <1>l, <2>3
    <3>3. /\ SubSeq(b, k + 1, Len(b)) \in Text
          /\ Len(SubSeq(b, k + 1, Len(b))) = Len(b) - k
      BY <1>3, <3>2, Cut DEF Text
    <3>4. Len(SubSeq(b, k + 1, Len(b))) = 0
      BY <3>2, <3>3
    <3>5. QED
      BY <3>1, <3>2, <3>3, <3>4, TextOps
  <2>5. QED
    BY <1>1, <1>6, <2>1, <2>4 DEF Delivered, Empty, b
<1>8. ASSUME ~Has(d, " ") PROVE ~Has(line'[e], " ")
  <2> DEFINE x == SubSeq(b, 1, k)
  <2>1. k \in Nat /\ k <= Len(b)
    BY <1>5, <1>l
  <2>2. x \in Text /\ Len(x) = k /\ \A i \in 1 .. k : x[i] = b[i]
    <3> DEFINE m == 1
    <3>1. m \in Nat \ {0} /\ m <= k + 1 /\ m = 1
      BY <2>1
    <3> HIDE DEF m
    <3>2. /\ SubSeq(b, m, k) \in Text /\ Len(SubSeq(b, m, k)) = k - m + 1
          /\ \A i \in 1 .. k - m + 1 : SubSeq(b, m, k)[i] = b[m + i - 1]
      BY <1>3, <2>1, <3>1, PartOf DEF Text
    <3>3. QED
      BY <2>1, <3>1, <3>2
  <2> HIDE DEF x
  <2>3. ASSUME NEW i \in 1 .. k PROVE x[i] # " "
    <3>1. CASE i <= Len(f)
      <4>1. \A j \in 1 .. Len(d) : d[j] # " "
        BY <1>8 DEF Has, Contains
      <4>2. i \in 1 .. Len(f) /\ i \in 1 .. Len(d)
        BY <1>l, <2>3, <3>1
      <4>3. x[i] = d[i]
        BY <1>f, <1>3, <2>2, <2>3, <4>2
      <4>4. QED
        BY <4>1, <4>2, <4>3
    <3>2. CASE i = Len(f) + 1
      BY <1>n, <1>3, <2>2, <2>3, <3>2
    <3>3. i <= Len(f) \/ i = Len(f) + 1
      BY <1>l, <2>1, <2>3
    <3>4. QED
      BY <3>1, <3>2, <3>3
  <2>4. ~Has(x, " ")
    BY <2>2, <2>3 DEF Has, Contains
  <2>5. QED
    BY <1>6, <2>4 DEF x
<1>9. QED
  BY <1>6, <1>7, <1>8 DEF d

-----------------------------------------------------------------------------
(* The types of what the reading half changes, and what it leaves alone.   *)

Reader(e) ==
  \/ TakeLine(e) \/ TakeNothing(e) \/ FillBuffer(e)
  \/ RecvPrefix(e) \/ RecvPayload(e) \/ RecvEof(e)

(* A step leaves an end alone.                                             *)
Same(f) ==
  /\ pc'[f] = pc[f] /\ wire'[f] = wire[f] /\ nbuf'[f] = nbuf[f]
  /\ ibuf'[f] = ibuf[f] /\ icap'[f] = icap[f] /\ need'[f] = need[f]
  /\ line'[f] = line[f] /\ todo'[f] = todo[f] /\ obuf'[f] = obuf[f]
  /\ ooff'[f] = ooff[f] /\ ocap'[f] = ocap[f]
  /\ (f \in err' <=> f \in err) /\ (f \in eof' <=> f \in eof)

(* An end that a step leaves alone is in the same situation after it.      *)
LEMMA Framed ==
  ASSUME NEW f, Same(f)
  PROVE  /\ Quiet(f)' <=> Quiet(f)
         /\ Empty(f)' <=> Empty(f)
         /\ Unsent(f)' <=> Unsent(f)
         /\ Failed(f)' <=> Failed(f)
         /\ \A P : Arriving(f, P)' <=> Arriving(f, P)
         /\ \A t : Coming(f, t)' <=> Coming(f, t)
<1>1. /\ Quiet(f)' <=> Quiet(f)
      /\ Empty(f)' <=> Empty(f)
      /\ Unsent(f)' <=> Unsent(f)
      /\ Failed(f)' <=> Failed(f)
  BY DEF Same, Quiet, Empty, Unsent, Failed
<1>2. \A P : Arriving(f, P)' <=> Arriving(f, P)
  BY DEF Same, Arriving, OnWire, InPrefix, InPayload, InBuffer
<1>3. \A t : Delivered(f, t)' <=> Delivered(f, t)
  BY DEF Same, Delivered, Empty
<1>4. \A t : Coming(f, t)' <=> Coming(f, t)
  BY <1>2, <1>3 DEF Coming
<1>5. QED
  BY <1>1, <1>2, <1>4

InTypes ==
  /\ pc \in [Ends -> PCs]
  /\ wire \in [Ends -> Text] /\ nbuf \in [Ends -> Text] /\ ibuf \in [Ends -> Text]
  /\ line \in [Ends -> Text] /\ icap \in [Ends -> Nat] /\ need \in [Ends -> Nat]
  /\ err \in SUBSET Ends /\ eof \in SUBSET Ends

(* The end of a packet and the types of what it changes.                   *)
LEMMA CompletedTypes ==
  ASSUME InTypes, NEW e \in Ends, NEW data \in Text, data # <<>>, Completed(e, data)
  PROVE  /\ pc' \in [Ends -> PCs] /\ ibuf' \in [Ends -> Text]
         /\ line' \in [Ends -> Text] /\ err' \in SUBSET Ends
         /\ pc'[e] \in {"getline", "line"} /\ (pc'[e] # "line" => err' = err)
         /\ \A f \in Ends : f # e => /\ pc'[f] = pc[f] /\ ibuf'[f] = ibuf[f]
                                     /\ line'[f] = line[f] /\ (f \in err' <=> f \in err)
<1>1. Append(Front(data), NL) \in Text /\ <<>> \in Text
  BY TextOps, BytesAre
<1>2. CASE Last(data) = ","
  BY <1>1, <1>2 DEF Completed, InTypes, PCs
<1>3. CASE Last(data) # ","
  BY <1>1, <1>3, ZenonT(30) DEF Completed, Fail, Return, InTypes, PCs
<1>4. QED
  BY <1>2, <1>3

(* A recv of a prefix and the types of what it changes.                    *)
LEMMA PrefixTypes ==
  ASSUME InTypes, TypeOK, NEW e \in Ends, RecvPrefix(e)
  PROVE  /\ InTypes' /\ pc'[e] \in Reading \cup {"line"}
         /\ (pc'[e] # "line" => err' = err)
         /\ \A f \in Ends : f # e => Same(f)
<1>0. /\ nbuf[e] \in Text /\ Len(nbuf[e]) \in Nat /\ Bound \in Nat /\ icap[e] \in Nat
      /\ wire[e] \in Text /\ <<>> \in Text
  BY SizesAssumption, TextOps DEF TypeOK
<1> DEFINE seg(n) == nbuf[e] \o SubSeq(wire[e], 1, n)
           size(n) == Size(seg(n))
           data(n) == Data(seg(n))
           left(n) == Remaining(size(n), Len(data(n)))
<1>1. PICK n \in 1 .. Bound :
       /\ Received(e, Bound - Len(nbuf[e]), n)
       /\ wire' = [wire EXCEPT ![e] = SubSeq(@, n + 1, Len(@))]
       /\ \/ /\ nbuf' = [nbuf EXCEPT ![e] = seg(n)]
             /\ UNCHANGED <<pc, ibuf, icap, need, line, err>>
          \/ /\ Fail(e)
             /\ nbuf' \in {nbuf, [nbuf EXCEPT ![e] = <<>>]}
             /\ UNCHANGED <<ibuf, icap, need>>
          \/ /\ Has(seg(n), ":") /\ size(n) # -1
             /\ nbuf' = [nbuf EXCEPT ![e] = <<>>]
             /\ icap' = [icap EXCEPT ![e] = Enlarged(@, size(n))]
             /\ need' = [need EXCEPT ![e] = left(n)]
             /\ IF left(n) = 0
                THEN Completed(e, data(n))
                ELSE /\ ibuf' = [ibuf EXCEPT ![e] = data(n)]
                     /\ pc' = [pc EXCEPT ![e] = "payload"]
                     /\ UNCHANGED <<line, err>>
  BY DEF RecvPrefix
<1> DEFINE s == seg(n)
           r == SubSeq(wire[e], n + 1, Len(wire[e]))
<1>2. s \in Text /\ r \in Text
  <2> DEFINE most == Bound - Len(nbuf[e])
  <2>1. n \in Nat /\ most \in Int /\ Received(e, most, n)
    BY <1>0, <1>1
  <2> HIDE DEF most
  <2>2. r \in Text /\ \A a \in Text : a \o SubSeq(wire[e], 1, n) \in Text
    BY <2>1, Piece
  <2>3. QED
    BY <1>0, <2>2
<1>3. wire' = [wire EXCEPT ![e] = r]
  BY <1>1
<1> HIDE DEF s, r
<1>u. /\ eof' = eof /\ UNCHANGED <<todo, obuf, ooff, ocap>>
      /\ pc[e] = "prefix"
  BY DEF RecvPrefix, outVars
<1>w. wire' \in [Ends -> Text] /\ eof' \in SUBSET Ends
      /\ \A f \in Ends : f # e => wire'[f] = wire[f]
  BY <1>2, <1>3, <1>u DEF InTypes
<1>4. CASE nbuf' = [nbuf EXCEPT ![e] = s] /\ UNCHANGED <<pc, ibuf, icap, need, line, err>>
  <2>1. InTypes'
    BY <1>2, <1>4, <1>w DEF InTypes
  <2>2. \A f \in Ends : f # e => Same(f)
    BY <1>4, <1>u, <1>w DEF Same, InTypes
  <2>3. QED
    BY <1>4, <1>u, <2>1, <2>2 DEF Reading
<1>5. CASE /\ Fail(e)
           /\ nbuf' \in {nbuf, [nbuf EXCEPT ![e] = <<>>]}
           /\ UNCHANGED <<ibuf, icap, need>>
  <2>1. InTypes' /\ pc'[e] = "line"
    BY <1>0, <1>5, <1>w DEF InTypes, Fail, Return, PCs
  <2>2. \A f \in Ends : f # e => Same(f)
    BY <1>5, <1>u, <1>w DEF Same, InTypes, Fail, Return
  <2>3. QED
    BY <2>1, <2>2
<1>6. CASE /\ Has(s, ":") /\ Size(s) # -1
           /\ nbuf' = [nbuf EXCEPT ![e] = <<>>]
           /\ icap' = [icap EXCEPT ![e] = Enlarged(@, Size(s))]
           /\ need' = [need EXCEPT ![e] = Remaining(Size(s), Len(Data(s)))]
           /\ IF Remaining(Size(s), Len(Data(s))) = 0
              THEN Completed(e, Data(s))
              ELSE /\ ibuf' = [ibuf EXCEPT ![e] = Data(s)]
                   /\ pc' = [pc EXCEPT ![e] = "payload"]
                   /\ UNCHANGED <<line, err>>
  <2>1. Size(s) \in Nat /\ Data(s) \in Text /\ Len(Data(s)) \in Nat
    <3>1. Data(s) \in Text /\ Size(s) \in Nat \cup {-1}
      BY <1>2, <1>6, DataIs
    <3>2. QED
      BY <1>6, <3>1, TextOps
  <2> DEFINE left0 == Remaining(Size(s), Len(Data(s)))
             big == Enlarged(icap[e], Size(s))
  <2>2. left0 \in Nat /\ (left0 = 0 => Data(s) # <<>>)
    <3>1. left0 \in Nat /\ (left0 = 0 => Len(Data(s)) # 0)
      BY <2>1 DEF Remaining, Huge
    <3>2. QED
      BY <2>1, <3>1, TextOps
  <2>3. big \in Nat
    <3> DEFINE k == Size(s) + 1
    <3>1. k \in Int /\ icap[e] \in Int /\ k \in Nat
      BY <1>0, <2>1
    <3>2. big = Max({icap[e], k})
      BY DEF Enlarged
    <3> HIDE DEF k, big
    <3>3. QED
      BY <1>0, <3>1, <3>2, TwoNumbers
  <2>4. icap' = [icap EXCEPT ![e] = big] /\ need' = [need EXCEPT ![e] = left0]
    BY <1>6
  <2>5. IF left0 = 0 THEN Completed(e, Data(s))
        ELSE /\ ibuf' = [ibuf EXCEPT ![e] = Data(s)]
             /\ pc' = [pc EXCEPT ![e] = "payload"]
             /\ UNCHANGED <<line, err>>
    BY <1>6
  <2> HIDE DEF left0, big
  <2>6. /\ icap' \in [Ends -> Nat] /\ need' \in [Ends -> Nat] /\ nbuf' \in [Ends -> Text]
        /\ \A f \in Ends : f # e => /\ icap'[f] = icap[f] /\ need'[f] = need[f]
                                    /\ nbuf'[f] = nbuf[f]
    BY <1>0, <1>6, <2>2, <2>3, <2>4 DEF InTypes
  <2>7. CASE left0 = 0
    <3>1. /\ pc' \in [Ends -> PCs] /\ ibuf' \in [Ends -> Text]
          /\ line' \in [Ends -> Text] /\ err' \in SUBSET Ends
          /\ pc'[e] \in {"getline", "line"} /\ (pc'[e] # "line" => err' = err)
          /\ \A f \in Ends : f # e => /\ pc'[f] = pc[f] /\ ibuf'[f] = ibuf[f]
                                      /\ line'[f] = line[f] /\ (f \in err' <=> f \in err)
      BY <2>1, <2>2, <2>5, <2>7, CompletedTypes
    <3>2. InTypes'
      BY <1>w, <2>6, <3>1 DEF InTypes
    <3>3. \A f \in Ends : f # e => Same(f)
      BY <1>u, <1>w, <2>6, <3>1 DEF Same
    <3>4. QED
      BY <3>1, <3>2, <3>3 DEF Reading
  <2>8. CASE left0 # 0
    <3>1. /\ pc' \in [Ends -> PCs] /\ ibuf' \in [Ends -> Text]
          /\ line' = line /\ err' = err /\ pc'[e] = "payload"
          /\ \A f \in Ends : f # e => pc'[f] = pc[f] /\ ibuf'[f] = ibuf[f]
      BY <2>1, <2>5, <2>8 DEF InTypes, PCs
    <3>2. InTypes'
      BY <1>w, <2>6, <3>1 DEF InTypes
    <3>3. \A f \in Ends : f # e => Same(f)
      BY <1>u, <1>w, <2>6, <3>1 DEF Same
    <3>4. QED
      BY <3>1, <3>2, <3>3 DEF Reading
  <2>9. QED
    BY <2>7, <2>8
<1>7. QED
  BY <1>1, <1>4, <1>5, <1>6 DEF s

(* A recv of a payload and the types of what it changes; it stays within   *)
(* the buffer.                                                             *)
LEMMA PayloadTypes ==
  ASSUME InTypes, TypeOK, NEW e \in Ends, RecvPayload(e)
  PROVE  /\ InTypes' /\ pc'[e] \in Reading \cup {"line"}
         /\ (pc'[e] # "line" => err' = err)
         /\ \A f \in Ends : f # e => Same(f)
<1>0. need[e] \in Nat /\ Len(ibuf[e]) \in Nat /\ Len(wire[e]) \in Nat /\ icap[e] \in Nat
  BY TextOps DEF TypeOK
<1>1. PICK n \in Nat, data \in Text, r \in Text :
           /\ n \in 1 .. need[e] /\ n <= Len(wire[e])
           /\ data \o r = ibuf[e] \o wire[e] /\ data # <<>>
           /\ Len(data) = Len(ibuf[e]) + n /\ Len(r) = Len(wire[e]) - n
           /\ wire' = [wire EXCEPT ![e] = r] /\ need' = [need EXCEPT ![e] = @ - n]
           /\ IF n = need[e] THEN Completed(e, data)
              ELSE ibuf' = [ibuf EXCEPT ![e] = data] /\ UNCHANGED <<pc, line, err>>
  BY PayloadPiece
<1>2. /\ pc[e] = "payload" /\ nbuf' = nbuf /\ icap' = icap /\ eof' = eof
      /\ UNCHANGED <<todo, obuf, ooff, ocap>>
  BY DEF RecvPayload, outVars
<1>3. /\ wire' \in [Ends -> Text] /\ need' \in [Ends -> Nat] /\ need'[e] = need[e] - n
      /\ \A f \in Ends : f # e => wire'[f] = wire[f] /\ need'[f] = need[f]
  <2>1. need[e] - n \in Nat
    BY <1>0, <1>1
  <2>2. QED
    BY <1>1, <2>1 DEF InTypes
<1>4. CASE n = need[e]
  <2>1. Completed(e, data)
    BY <1>1, <1>4
  <2>2. /\ pc' \in [Ends -> PCs] /\ ibuf' \in [Ends -> Text]
        /\ line' \in [Ends -> Text] /\ err' \in SUBSET Ends
        /\ pc'[e] \in {"getline", "line"} /\ (pc'[e] # "line" => err' = err)
        /\ \A f \in Ends : f # e => /\ pc'[f] = pc[f] /\ ibuf'[f] = ibuf[f]
                                    /\ line'[f] = line[f] /\ (f \in err' <=> f \in err)
    BY <1>1, <2>1, CompletedTypes
  <2>3. InTypes'
    BY <1>2, <1>3, <2>2 DEF InTypes
  <2>4. \A f \in Ends : f # e => Same(f)
    BY <1>2, <1>3, <2>2 DEF Same
  <2>5. QED
    BY <2>2, <2>3, <2>4 DEF Reading
<1>5. CASE n # need[e]
  <2>1. ibuf' = [ibuf EXCEPT ![e] = data] /\ UNCHANGED <<pc, line, err>>
    BY <1>1, <1>5
  <2>2. /\ ibuf' \in [Ends -> Text] /\ ibuf'[e] = data
        /\ \A f \in Ends : f # e => ibuf'[f] = ibuf[f]
    BY <2>1 DEF InTypes
  <2>3. InTypes'
    BY <1>2, <1>3, <2>1, <2>2 DEF InTypes
  <2>4. \A f \in Ends : f # e => Same(f)
    BY <1>2, <1>3, <2>1, <2>2 DEF Same
  <2>5. QED
    BY <1>2, <2>1, <2>3, <2>4 DEF Reading
<1>6. QED
  BY <1>4, <1>5

(* Every fill that succeeds ends in a newline.                             *)
Lined(e) == pc[e] = "getline" /\ ibuf[e] # <<>> => Has(ibuf[e], NL)

(* A step of the reading half and the types of what it changes; the rest   *)
(* is left alone.                                                          *)
LEMMA ReaderTypes ==
  ASSUME TypeOK, NEW e \in Ends, Lined(e), Reader(e)
  PROVE  /\ TypeOK' /\ pc[e] \in Reading /\ pc'[e] \in Reading \cup {"line"}
         /\ (pc'[e] # "line" \/ TakeLine(e) => UNCHANGED <<err, eof>>)
         /\ \A f \in Ends : f # e => Same(f)
         /\ UNCHANGED <<open, outVars, ghostVars>>
<1>0. InTypes /\ <<>> \in Text
  BY TextOps DEF TypeOK, InTypes
<1>1. pc[e] \in Reading /\ UNCHANGED <<open, outVars, ghostVars>>
  BY DEF Reader, TakeLine, TakeNothing, FillBuffer, RecvPrefix, RecvPayload, RecvEof, Reading
<1>2. ASSUME TakeLine(e)
      PROVE  /\ InTypes' /\ pc'[e] = "line" /\ UNCHANGED <<err, eof>>
             /\ \A f \in Ends : f # e => Same(f)
  <2> DEFINE b == ibuf[e]
             k == First(b, NL)
  <2>1. SubSeq(b, 1, k) \in Text /\ SubSeq(b, k + 1, Len(b)) \in Text
    <3>1. b \in Text /\ Has(b, NL)
      BY <1>2 DEF TakeLine, Lined, TypeOK
    <3> HIDE DEF b
    <3>2. k \in 1 .. Len(b)
      BY <3>1, FirstIs DEF Text
    <3> HIDE DEF k
    <3>3. k \in Nat /\ k <= Len(b)
      <4>1. Len(b) \in Nat
        BY <3>1, TextOps
      <4>2. QED
        BY <3>2, <4>1
    <3>4. QED
      BY <3>1, <3>3, Cut DEF Text
  <2>2. /\ Return(e, SubSeq(b, 1, k))
        /\ ibuf' = [ibuf EXCEPT ![e] = SubSeq(b, k + 1, Len(b))]
        /\ UNCHANGED <<open, wire, nbuf, icap, need, err, eof, outVars, ghostVars>>
    BY <1>2 DEF TakeLine
  <2> HIDE DEF k, b
  <2>3. InTypes' /\ pc'[e] = "line"
    BY <1>0, <2>1, <2>2 DEF InTypes, Return, PCs
  <2>4. \A f \in Ends : f # e => Same(f)
    BY <1>0, <2>2 DEF InTypes, Return, Same, outVars
  <2>5. QED
    BY <2>2, <2>3, <2>4
<1>3. ASSUME TakeNothing(e)
      PROVE  /\ InTypes' /\ pc'[e] = "line" /\ \A f \in Ends : f # e => Same(f)
  BY <1>0, <1>3 DEF TakeNothing, InTypes, Return, Same, outVars, PCs
<1>4. ASSUME FillBuffer(e)
      PROVE  /\ InTypes' /\ pc'[e] = "prefix" /\ UNCHANGED <<err, eof>>
             /\ \A f \in Ends : f # e => Same(f)
  BY <1>0, <1>4 DEF FillBuffer, InTypes, Same, inVars, outVars, PCs
<1>5. ASSUME RecvEof(e)
      PROVE  /\ InTypes' /\ pc'[e] = "line" /\ \A f \in Ends : f # e => Same(f)
  <2>1. InTypes' /\ pc'[e] = "line"
    <3>1. /\ pc' = [pc EXCEPT ![e] = "line"] /\ line' = [line EXCEPT ![e] = <<>>]
          /\ UNCHANGED <<wire, nbuf, icap, need>>
          /\ err' \in {err, err \cup {e}} /\ eof' \in {eof, eof \cup {e}}
          /\ ibuf' \in {ibuf, [ibuf EXCEPT ![e] = <<>>]}
      BY <1>5 DEF RecvEof, Fail, Return
    <3>2. QED
      BY <1>0, <3>1 DEF InTypes, PCs
  <2>2. \A f \in Ends : f # e => Same(f)
    BY <1>0, <1>5 DEF RecvEof, Fail, Return, InTypes, Same, outVars
  <2>3. QED
    BY <2>1, <2>2
<1>6. ASSUME RecvPrefix(e)
      PROVE  /\ InTypes' /\ pc'[e] \in Reading \cup {"line"} /\ eof' = eof
             /\ (pc'[e] # "line" => err' = err)
             /\ \A f \in Ends : f # e => Same(f)
  <2>1. eof' = eof
    BY <1>6 DEF RecvPrefix
  <2>2. QED
    BY <1>0, <1>6, <2>1, PrefixTypes
<1>7. ASSUME RecvPayload(e)
      PROVE  /\ InTypes' /\ pc'[e] \in Reading \cup {"line"} /\ eof' = eof
             /\ (pc'[e] # "line" => err' = err)
             /\ \A f \in Ends : f # e => Same(f)
  <2>1. eof' = eof
    BY <1>7 DEF RecvPayload
  <2>2. QED
    BY <1>0, <1>7, <2>1, PayloadTypes
<1>8. /\ InTypes' /\ pc'[e] \in Reading \cup {"line"}
      /\ (pc'[e] # "line" \/ TakeLine(e) => UNCHANGED <<err, eof>>)
      /\ \A f \in Ends : f # e => Same(f)
  <2>1. "prefix" \in Reading /\ (RecvPrefix(e) \/ RecvPayload(e) => ~TakeLine(e))
    BY DEF Reading, RecvPrefix, RecvPayload, TakeLine
  <2>2. TakeNothing(e) \/ RecvEof(e) => ~TakeLine(e)
    BY DEF TakeNothing, RecvEof, TakeLine
  <2>3. QED
    BY <1>2, <1>3, <1>4, <1>5, <1>6, <1>7, <2>1, <2>2 DEF Reader
<1>9. TypeOK'
  BY <1>1, <1>8 DEF TypeOK, InTypes, outVars, ghostVars
<1>10. QED
  BY <1>1, <1>8, <1>9

-----------------------------------------------------------------------------
(* The steps of the reading half, by what is on its way.                   *)

(* The steps of a reader by where the message is.                          *)
LEMMA ReaderAt ==
  ASSUME TypeOK, NEW e \in Ends, Reader(e)
  PROVE  /\ pc[e] = "prefix" => RecvPrefix(e) \/ RecvEof(e)
         /\ pc[e] = "payload" => RecvPayload(e) \/ RecvEof(e)
         /\ pc[e] = "getline" /\ ibuf[e] # <<>> => TakeLine(e)
         /\ pc[e] = "getline" /\ ibuf[e] = <<>> =>
              IF e \in eof \cup err THEN TakeNothing(e) ELSE FillBuffer(e)
         /\ TakeNothing(e) \/ RecvEof(e) => Failed(e)'
<1>1. /\ pc[e] = "prefix" => RecvPrefix(e) \/ RecvEof(e)
      /\ pc[e] = "payload" => RecvPayload(e) \/ RecvEof(e)
      /\ pc[e] = "getline" /\ ibuf[e] # <<>> => TakeLine(e)
      /\ pc[e] = "getline" /\ ibuf[e] = <<>> =>
           IF e \in eof \cup err THEN TakeNothing(e) ELSE FillBuffer(e)
  BY DEF Reader, TakeLine, TakeNothing, FillBuffer, RecvPrefix, RecvPayload, RecvEof
<1>2. pc \in [Ends -> PCs] /\ line \in [Ends -> Text]
  BY DEF TypeOK
<1>3. TakeNothing(e) => Failed(e)'
  BY <1>2 DEF TakeNothing, Return, Failed
<1>4. RecvEof(e) => Failed(e)'
  BY <1>2 DEF RecvEof, Fail, Return, Failed
<1>5. QED
  BY <1>1, <1>3, <1>4

(* The buffer is filled: what was on the wire is now read as a prefix.     *)
LEMMA FillStep ==
  ASSUME TypeOK, NEW e \in Ends, FillBuffer(e), NEW P, OnWire(e, P)
  PROVE  InPrefix(e, P)'
<1>1. pc \in [Ends -> PCs] /\ wire[e] \in Text
  BY DEF TypeOK
<1>2. /\ pc'[e] = "prefix" /\ ibuf'[e] = <<>> /\ nbuf'[e] = <<>> /\ wire'[e] = P
  BY <1>1 DEF FillBuffer, inVars, OnWire
<1>3. <<>> \o P = P
  BY <1>1, TextOps DEF OnWire
<1>4. ~Has(<<>>, ":")
  BY TextOps
<1>5. QED
  BY <1>2, <1>3, <1>4 DEF InPrefix

(* A message is kept together until its line is taken or the stream fails. *)
LEMMA ReadMessage ==
  ASSUME TypeOK, NEW e \in Ends, NEW P, Message(P), Arriving(e, P), Reader(e)
  PROVE  Arriving(e, P)' \/ Failed(e)' \/ (InBuffer(e, P) /\ TakeLine(e))
<1>1. CASE OnWire(e, P)
  <2>1. pc[e] = "getline" /\ ibuf[e] = <<>>
    BY <1>1 DEF OnWire, Reader, TakeLine, TakeNothing, FillBuffer, RecvPrefix,
                RecvPayload, RecvEof
  <2>2. TakeNothing(e) \/ FillBuffer(e)
    BY <2>1, ReaderAt
  <2>3. QED
    BY <1>1, <2>2, FillStep, ReaderAt DEF Arriving
<1>2. CASE InPrefix(e, P)
  <2>1. RecvPrefix(e) \/ RecvEof(e)
    BY <1>2, ReaderAt DEF InPrefix
  <2>2. QED
    BY <1>2, <2>1, PrefixStep, ReaderAt DEF Arriving
<1>3. CASE InPayload(e, P)
  <2>1. RecvPayload(e) \/ RecvEof(e)
    BY <1>3, ReaderAt DEF InPayload
  <2>2. QED
    BY <1>3, <2>1, PayloadStep, ReaderAt DEF Arriving
<1>4. CASE InBuffer(e, P)
  <2>1. Data(P) \in Text /\ Len(Data(P)) = Size(P) + 1 /\ Size(P) \in Nat
    BY <1>4, DataIs DEF InBuffer, Complete, Message
  <2>2. Data(P) # <<>>
    <3>1. Len(Data(P)) # 0
      BY <2>1
    <3>2. QED
      BY <2>1, <3>1, TextOps
  <2>3. ibuf[e] # <<>> /\ pc[e] = "getline"
    BY <1>4, <2>1, <2>2, TextOps, BytesAre DEF InBuffer
  <2>4. QED
    BY <1>4, <2>3, ReaderAt
<1>5. QED
  BY <1>1, <1>2, <1>3, <1>4 DEF Arriving

(* A packet is read as a whole, unless the end fails.                      *)
LEMMA ReadPacket ==
  ASSUME TypeOK, NEW e \in Ends, NEW t \in Text, IsText(t), Coming(e, t), Reader(e)
  PROVE  /\ Coming(e, t)' \/ Failed(e)'
         /\ e \notin err \cup eof => Coming(e, t)'
<1> DEFINE P == Packet(t)
<1>1. /\ Message(P) /\ Complete(P) /\ P # <<>> /\ First(P, ":") <= Bound
      /\ P = Packet(t)
  BY PacketIs
<1>2. Arriving(e, P)
  <2>1. ~Delivered(e, t)
    BY DEF Delivered, Reader, TakeLine, TakeNothing, FillBuffer, RecvPrefix,
           RecvPayload, RecvEof
  <2>2. QED
    BY <2>1 DEF Coming
<1> HIDE DEF P
<1>3. InBuffer(e, P) /\ TakeLine(e) => Delivered(e, t)'
  BY <1>1, LineStep
<1>4. Coming(e, t)' \/ Failed(e)'
  <2>1. Arriving(e, P)' \/ Failed(e)' \/ (InBuffer(e, P) /\ TakeLine(e))
    BY <1>1, <1>2, ReadMessage
  <2>2. QED
    BY <1>1, <1>3, <2>1 DEF Coming
<1>5. ASSUME e \notin err \cup eof PROVE Coming(e, t)'
  <2>0. wire[e] \in Text /\ nbuf[e] \in Text /\ ibuf[e] \in Text /\ need[e] \in Nat
    BY DEF TypeOK
  <2>1. CASE OnWire(e, P)
    <3>1. pc[e] = "getline" /\ ibuf[e] = <<>>
      BY <2>1 DEF OnWire, Reader, TakeLine, TakeNothing, FillBuffer, RecvPrefix,
                  RecvPayload, RecvEof
    <3>2. FillBuffer(e)
      BY <1>5, <3>1, ReaderAt
    <3>3. QED
      BY <1>1, <2>1, <3>2, FillStep DEF Coming, Arriving
  <2>2. CASE InPrefix(e, P)
    <3>1. RecvPrefix(e) \/ RecvEof(e)
      BY <2>2, ReaderAt DEF InPrefix
    <3>2. ~RecvEof(e)
      <4>1. SUFFICES ASSUME wire[e] = <<>> PROVE FALSE
        BY DEF RecvEof
      <4>2. nbuf[e] = P
        BY <2>0, <2>2, <4>1, TextOps DEF InPrefix
      <4>3. QED
        BY <1>1, <2>2, <4>2 DEF InPrefix, Complete
    <3>3. QED
      BY <1>1, <2>2, <3>1, <3>2, PrefixStep DEF Coming, Arriving
  <2>3. CASE InPayload(e, P)
    <3>1. RecvPayload(e) \/ RecvEof(e)
      BY <2>3, ReaderAt DEF InPayload
    <3>2. ~RecvEof(e)
      <4>1. SUFFICES ASSUME wire[e] = <<>> PROVE FALSE
        BY DEF RecvEof
      <4>2. ibuf[e] = Data(P)
        BY <2>0, <2>3, <4>1, TextOps DEF InPayload
      <4>3. Len(ibuf[e]) = Size(P) + 1 /\ Len(ibuf[e]) \in Nat
        BY <1>1, <2>0, <4>2, TextOps DEF Complete
      <4>4. need[e] > 0 /\ need[e] + Len(ibuf[e]) = Size(P) + 1
        BY <2>3 DEF InPayload
      <4>5. QED
        BY <2>0, <4>3, <4>4
    <3>3. QED
      BY <1>1, <2>3, <3>1, <3>2, PayloadStep DEF Coming, Arriving
  <2>4. CASE InBuffer(e, P)
    <3>1. ibuf[e] # <<>> /\ pc[e] = "getline"
      <4>1. Front(Data(P)) = t
        BY <1>1, PacketIs
      <4>2. QED
        BY <2>4, <4>1, TextOps, BytesAre DEF InBuffer
    <3>2. QED
      BY <1>3, <2>4, <3>1, ReaderAt DEF Coming
  <2>5. QED
    BY <1>2, <2>1, <2>2, <2>3, <2>4 DEF Arriving
<1>6. QED
  BY <1>4, <1>5

(* A reader that nothing is on its way to.                                 *)
LEMMA ReadNothing ==
  ASSUME TypeOK, NEW e \in Ends, Quiet(e), Reader(e)
  PROVE  /\ Empty(e)' /\ err' = err
         /\ \/ Quiet(e)' /\ pc'[e] = "prefix" /\ eof' = eof
            \/ Failed(e)' /\ e \in eof \cup err /\ eof' = eof
            \/ Failed(e)' /\ Peer(e) \notin open
<1>0. pc \in [Ends -> PCs]
  BY DEF TypeOK
<1>1. /\ pc[e] \in {"idle", "write", "getline", "prefix"}
      /\ wire[e] = <<>> /\ nbuf[e] = <<>> /\ ibuf[e] = <<>>
  BY DEF Quiet, Empty
<1>2. TakeNothing(e) \/ FillBuffer(e) \/ (RecvEof(e) /\ pc[e] = "prefix")
  BY <1>1 DEF Reader, TakeLine, RecvPrefix, RecvPayload, RecvEof, Received
<1>3. CASE TakeNothing(e)
  <2>1. Empty(e)' /\ err' = err /\ eof' = eof /\ e \in eof \cup err
    BY <1>1, <1>3 DEF TakeNothing, Empty
  <2>2. QED
    BY <1>3, <2>1, ReaderAt
<1>4. CASE FillBuffer(e)
  BY <1>0, <1>1, <1>4 DEF FillBuffer, inVars, Empty, Quiet
<1>5. CASE RecvEof(e) /\ pc[e] = "prefix"
  <2>1. Empty(e)' /\ err' = err /\ Peer(e) \notin open
    BY <1>1, <1>5 DEF RecvEof, Empty
  <2>2. QED
    BY <1>5, <2>1, ReaderAt
<1>6. QED
  BY <1>2, <1>3, <1>4, <1>5

-----------------------------------------------------------------------------
(* The steps of the writing half.                                          *)

(* What has been written up to a newline is the whole text.                *)
LEMMA OneLine ==
  ASSUME NEW a \in Text, NEW b \in Text, NEW t \in Text, IsText(t),
         a \o b = Append(t, NL), Has(a, NL)
  PROVE  a = Append(t, NL) /\ b = <<>> /\ First(a, NL) = Len(a)
<1> DEFINE k == First(a, NL)
           c == a \o b
<1>1. k \in 1 .. Len(a) /\ a[k] = NL
  BY FirstIs DEF Text
<1> HIDE DEF k
<1>2. /\ Len(c) = Len(a) + Len(b) /\ Len(a) \in Nat /\ Len(b) \in Nat
      /\ \A i \in 1 .. Len(a) : c[i] = a[i]
  BY Concat DEF Text
<1>3. NL \in Byte
  BY BytesAre
<1>4. /\ Len(c) = Len(t) + 1 /\ Len(t) \in Nat
      /\ \A i \in 1 .. Len(t) : c[i] = t[i]
  BY <1>3, AppendIs
<1>5. \A i \in 1 .. Len(t) : t[i] # NL
  BY DEF IsText, Has, Contains
<1> HIDE DEF c
<1>6. c[k] = NL
  BY <1>1, <1>2
<1>7. ~(k \in 1 .. Len(t))
  BY <1>4, <1>5, <1>6
<1>8. Len(b) = 0 /\ k = Len(a)
  BY <1>1, <1>2, <1>4, <1>7
<1>9. b = <<>>
  BY <1>8, TextOps
<1>10. a \o b = a
  BY <1>9, TextOps
<1>11. QED
  BY <1>8, <1>9, <1>10 DEF k

(* The last text of an end is a text.                                      *)
LEMMA HistText ==
  ASSUME TypeOK, NEW e \in Ends, Hist(e) # <<>>
  PROVE  Last(Hist(e)) \in Text /\ IsText(Last(Hist(e)))
<1>1. asked # <<>> => Last(asked) \in Queries
  BY FrontLast DEF TypeOK
<1>2. answers # <<>> => Last(answers) \in Replies
  BY FrontLast DEF TypeOK
<1>3. QED
  BY <1>1, <1>2, Texts DEF Hist

(* The output half of an end is left alone.                                *)
OutSame(f) ==
  /\ pc'[f] = pc[f] /\ todo'[f] = todo[f] /\ obuf'[f] = obuf[f]
  /\ ooff'[f] = ooff[f] /\ ocap'[f] = ocap[f] /\ Hist(f)' = Hist(f)

(* The output half of an end that a step leaves alone.                     *)
LEMMA OutFramed ==
  ASSUME NEW f, OutSame(f), Output(f)
  PROVE  Output(f)'
BY DEF OutSame, Output, Unsent

(* A flush sends the packet of the last text, all of it and once, or makes *)
(* room.                                                                   *)
LEMMA FlushStep ==
  ASSUME TypeOK, NEW e \in Ends, Output(e), FlushLine(e)
  PROVE  /\ TypeOK' /\ Output(e)'
         /\ UNCHANGED <<pc, open, inVars, todo, ghostVars>>
         /\ \A f \in Ends : f # e => OutSame(f)
         /\ \/ wire' = wire /\ (Unsent(e)' <=> Unsent(e))
            \/ /\ Hist(e) # <<>> /\ Unsent(e) /\ ~Unsent(e)'
               /\ wire' = [wire EXCEPT ![Peer(e)] =
                     IF Peer(e) \in open THEN @ \o Packet(Last(Hist(e))) ELSE @]
<1> DEFINE b == obuf[e]
           n == IF Has(b, NL) THEN First(b, NL) ELSE 0
           packet == IF n = 0 THEN <<>> ELSE Encode(SubSeq(b, 1, n))
           rest == SubSeq(b, n + 1, Len(b))
           full == ~Has(rest, NL) /\ rest # <<>> /\ ooff[e] + Len(b) = ocap[e]
<1>0. /\ b \in Text /\ todo[e] \in Text /\ Len(b) \in Nat /\ ocap[e] \in Nat \ {0}
      /\ obuf \in [Ends -> Text] /\ ooff \in [Ends -> Nat] /\ wire \in [Ends -> Text]
      /\ ocap \in [Ends -> Nat \ {0}] /\ Peer(e) \in Ends /\ <<>> \in Text
  BY TextOps DEF TypeOK, Peer, Ends
<1>1. /\ pc[e] = "write"
      /\ UNCHANGED <<pc, open, inVars, todo, ghostVars>>
      /\ obuf' = [obuf EXCEPT ![e] = rest]
      /\ ocap' = [ocap EXCEPT ![e] = IF full THEN 2 * ocap[e] ELSE @]
      /\ ooff' = [ooff EXCEPT ![e] = IF full \/ Has(rest, NL) THEN @ + n ELSE 0]
      /\ wire' = [wire EXCEPT ![Peer(e)] =
                    IF Peer(e) \in open THEN @ \o packet ELSE @]
  BY DEF FlushLine, Grown
<1>2. /\ Unsent(e) => Hist(e) # <<>> /\ b \o todo[e] = Append(Last(Hist(e)), NL)
      /\ ooff[e] = 0 /\ Len(b) <= ocap[e]
  BY DEF Output
<1>3. Hist(e)' = Hist(e) /\ \A f \in Ends : f # e => OutSame(f)
  <2>1. \A f : Hist(f)' = Hist(f)
    BY <1>1 DEF Hist, ghostVars
  <2>2. ASSUME NEW f \in Ends, f # e
        PROVE pc'[f] = pc[f] /\ todo'[f] = todo[f] /\ obuf'[f] = obuf[f]
              /\ ooff'[f] = ooff[f] /\ ocap'[f] = ocap[f]
    BY <1>0, <1>1, <2>2
  <2>3. QED
    BY <2>1, <2>2 DEF OutSame
<1>4. CASE Has(b, NL)
  <2> DEFINE t == Last(Hist(e))
  <2>1. Unsent(e)
    <3>1. b # <<>>
      BY <1>4, TextOps
    <3>2. QED
      BY <1>1, <3>1 DEF Unsent
  <2>2. Hist(e) # <<>> /\ b \o todo[e] = Append(t, NL) /\ t \in Text /\ IsText(t)
    BY <1>2, <2>1, HistText
  <2> HIDE DEF t
  <2>3. b = Append(t, NL) /\ todo[e] = <<>> /\ First(b, NL) = Len(b)
    BY <1>0, <1>4, <2>2, OneLine
  <2>4. n = Len(b) /\ Len(b) # 0
    <3>1. Append(t, NL) # <<>>
      BY <2>2, TextOps, BytesAre
    <3>2. QED
      BY <1>0, <1>4, <2>3, <3>1, TextOps
  <2>5. SubSeq(b, 1, Len(b)) = b
    BY <1>0, SubSeqFull DEF Text
  <2>6. rest = <<>>
    <3>1. Len(b) <= Len(b)
      BY <1>0
    <3>2. rest \in Text /\ Len(rest) = Len(b) - Len(b)
      BY <1>0, <2>4, <3>1, Cut DEF Text
    <3>a. \A l \in Nat : l - l = 0
      OBVIOUS
    <3>b. Len(b) - Len(b) = 0
      BY <1>0, <3>a
    <3>3. Len(rest) = 0
      BY <3>2, <3>b
    <3>4. QED
      BY <3>2, <3>3, TextOps
  <2>7. packet = Packet(t)
    BY <2>3, <2>4, <2>5 DEF Packet
  <2>8. ~full /\ ~Has(rest, NL)
    BY <2>6, TextOps
  <2> HIDE DEF b, n, packet, rest, full
  <2>9. /\ obuf' = [obuf EXCEPT ![e] = <<>>] /\ ocap' = [ocap EXCEPT ![e] = @]
        /\ ooff' = [ooff EXCEPT ![e] = 0]
        /\ wire' = [wire EXCEPT ![Peer(e)] = IF Peer(e) \in open THEN @ \o Packet(t) ELSE @]
    BY <1>1, <2>6, <2>7, <2>8
  <2>10. obuf'[e] = <<>> /\ todo'[e] = <<>> /\ ooff'[e] = 0 /\ ocap'[e] = ocap[e]
    BY <1>0, <1>1, <2>3, <2>9
  <2>11. ~Unsent(e)'
    BY <2>10 DEF Unsent
  <2>12. Output(e)'
    <3>1. Len(<<>>) = 0 /\ 0 <= ocap[e]
      BY <1>0, TextOps
    <3>2. QED
      BY <2>10, <2>11, <3>1 DEF Output
  <2>13. TypeOK'
    <3>1. Packet(t) \in Text
      BY <2>2, PacketIs DEF Message
    <3>2. wire[Peer(e)] \o Packet(t) \in Text
      BY <1>0, <3>1, TextOps
    <3>3. wire' \in [Ends -> Text]
      BY <1>0, <2>9, <3>2
    <3>4. obuf' \in [Ends -> Text] /\ ooff' \in [Ends -> Nat] /\ ocap' \in [Ends -> Nat \ {0}]
      BY <1>0, <2>9
    <3>5. QED
      BY <1>1, <3>3, <3>4 DEF TypeOK, inVars, ghostVars
  <2>14. QED
    BY <1>1, <1>3, <2>1, <2>2, <2>9, <2>11, <2>12, <2>13 DEF t
<1>5. CASE ~Has(b, NL)
  <2>1. n = 0 /\ packet = <<>>
    BY <1>5
  <2>2. rest = b
    <3>1. n + 1 = 1
      BY <2>1
    <3>2. QED
      BY <1>0, <3>1, SubSeqFull DEF Text
  <2> HIDE DEF n, packet, rest
  <2>3. wire' = wire
    <3>1. wire[Peer(e)] \o <<>> = wire[Peer(e)]
      BY <1>0, TextOps
    <3>2. QED
      BY <1>0, <1>1, <2>1, <3>1
  <2>4. obuf' = obuf /\ ooff'[e] = 0 /\ ooff' \in [Ends -> Nat]
    <3>1. obuf' = obuf
      BY <1>0, <1>1, <2>2
    <3>2. ooff[e] + n = 0
      BY <1>2, <2>1
    <3> HIDE DEF full
    <3>3. QED
      BY <1>0, <1>1, <3>1, <3>2
  <2>5. ocap' \in [Ends -> Nat \ {0}] /\ Len(b) <= ocap'[e]
    <3>1. 2 * ocap[e] \in Nat \ {0} /\ ocap[e] <= 2 * ocap[e]
      BY <1>0
    <3> HIDE DEF full
    <3>2. ocap'[e] \in {ocap[e], 2 * ocap[e]} /\ ocap' \in [Ends -> Nat \ {0}]
      BY <1>0, <1>1, <3>1
    <3> HIDE DEF b
    <3>3. QED
      BY <1>0, <1>2, <3>1, <3>2
  <2>6. Unsent(e)' <=> Unsent(e)
    BY <1>1, <2>4 DEF Unsent
  <2>7. Output(e)'
    <3>1. obuf'[e] \o todo'[e] = b \o todo[e] /\ obuf'[e] = b
      BY <1>1, <2>4
    <3> HIDE DEF b
    <3>2. QED
      BY <1>1, <1>2, <1>3, <2>4, <2>5, <2>6, <3>1 DEF Output
  <2>8. TypeOK'
    BY <1>1, <2>3, <2>4, <2>5 DEF TypeOK, inVars, ghostVars
  <2>9. QED
    BY <1>1, <1>3, <2>3, <2>6, <2>7, <2>8
<1>6. QED
  BY <1>4, <1>5

(* A copy into the output buffer, which has room for it.                   *)
LEMMA CopyStep ==
  ASSUME TypeOK, NEW e \in Ends, Output(e), CopyPiece(e)
  PROVE  /\ TypeOK' /\ Output(e)' /\ Unsent(e) /\ Unsent(e)'
         /\ UNCHANGED <<pc, open, wire, inVars, ghostVars>>
         /\ \A f \in Ends : f # e => OutSame(f)
<1>0. /\ obuf[e] \in Text /\ todo[e] \in Text /\ ocap[e] \in Nat \ {0}
      /\ Len(obuf[e]) \in Nat /\ Len(todo[e]) \in Nat
      /\ obuf \in [Ends -> Text] /\ todo \in [Ends -> Text]
  BY TextOps DEF TypeOK
<1> DEFINE a == ocap[e] - Len(obuf[e])
           b == Len(todo[e])
<1>1. /\ pc[e] = "write" /\ ~BufferFull(e)
      /\ UNCHANGED <<pc, open, wire, inVars, ooff, ocap, ghostVars>>
  BY DEF CopyPiece
<1>2. PICK n \in 1 .. Min({a, b}) :
       /\ obuf' = [obuf EXCEPT ![e] = @ \o SubSeq(todo[e], 1, n)]
       /\ todo' = [todo EXCEPT ![e] = SubSeq(@, n + 1, Len(@))]
  BY DEF CopyPiece
<1>3. a \in Int /\ b \in Int
  BY <1>0
<1>4. n \in 1 .. b /\ n <= a
  <2> HIDE DEF a, b
  <2>1. Min({a, b}) = IF a <= b THEN a ELSE b
    BY <1>3, TwoNumbers
  <2>2. QED
    BY <1>3, <2>1
<1>5. n \in Nat /\ n <= Len(todo[e]) /\ Len(obuf[e]) + n <= ocap[e] /\ n > 0
  BY <1>0, <1>4
<1> DEFINE x == obuf[e] \o SubSeq(todo[e], 1, n)
           y == SubSeq(todo[e], n + 1, Len(todo[e]))
<1>6. x \in Text /\ Len(x) = Len(obuf[e]) + n /\ x \o y = obuf[e] \o todo[e]
  BY <1>0, <1>5, CutText
<1>7. y \in Text
  BY <1>0, <1>5, Cut DEF Text
<1>8. obuf' = [obuf EXCEPT ![e] = x] /\ todo' = [todo EXCEPT ![e] = y]
  BY <1>2
<1> HIDE DEF x, y
<1>9. /\ obuf' \in [Ends -> Text] /\ todo' \in [Ends -> Text]
      /\ obuf'[e] = x /\ todo'[e] = y
      /\ \A f \in Ends : f # e => obuf'[f] = obuf[f] /\ todo'[f] = todo[f]
  BY <1>0, <1>6, <1>7, <1>8
<1>10. TypeOK'
  BY <1>1, <1>9 DEF TypeOK, inVars, ghostVars
<1>11. todo[e] # <<>> /\ x # <<>>
  <2>1. Len(todo[e]) # 0 /\ Len(x) # 0
    BY <1>0, <1>5, <1>6
  <2>2. QED
    BY <1>0, <1>6, <2>1, TextOps
<1>12. Unsent(e) /\ Unsent(e)'
  BY <1>1, <1>9, <1>11 DEF Unsent
<1>13. \A f : Hist(f)' = Hist(f)
  BY <1>1 DEF Hist, ghostVars
<1>14. \A f \in Ends : f # e => OutSame(f)
  BY <1>1, <1>9, <1>13 DEF OutSame
<1>15. Output(e)'
  <2>1. Hist(e) # <<>> /\ x \o y = Append(Last(Hist(e)), NL) /\ ooff[e] = 0
    BY <1>6, <1>12 DEF Output
  <2>2. Len(x) <= ocap[e]
    BY <1>5, <1>6
  <2>3. QED
    BY <1>1, <1>9, <1>13, <2>1, <2>2 DEF Output
<1>16. QED
  BY <1>1, <1>10, <1>12, <1>14, <1>15

(* All is written: the end goes on to read.                                *)
LEMMA DoneStep ==
  ASSUME TypeOK, NEW e \in Ends, Output(e), WriteDone(e)
  PROVE  /\ TypeOK' /\ Output(e)' /\ ~Unsent(e) /\ ~Unsent(e)'
         /\ pc[e] = "write" /\ pc'[e] = "getline"
         /\ \A f \in Ends : f # e => pc'[f] = pc[f]
         /\ UNCHANGED <<open, wire, inVars, outVars, ghostVars>>
<1>0. /\ obuf[e] \in Text /\ pc \in [Ends -> PCs]
  BY DEF TypeOK
<1>1. /\ pc[e] = "write" /\ ~Has(obuf[e], NL) /\ todo[e] = <<>>
      /\ pc' = [pc EXCEPT ![e] = "getline"]
      /\ UNCHANGED <<open, wire, inVars, outVars, ghostVars>>
  BY DEF WriteDone, BufferFull
<1>2. obuf[e] = <<>>
  <2>1. SUFFICES ASSUME obuf[e] # <<>> PROVE FALSE
    OBVIOUS
  <2> DEFINE t == Last(Hist(e))
  <2>2. Hist(e) # <<>> /\ obuf[e] \o todo[e] = Append(t, NL)
    BY <1>1, <2>1 DEF Output, Unsent
  <2>3. t \in Text /\ NL \in Byte
    BY <2>2, HistText, BytesAre
  <2>4. obuf[e] = Append(t, NL)
    BY <1>0, <1>1, <2>2, TextOps
  <2> HIDE DEF t
  <2>5. Has(Append(t, NL), NL)
    <3>1. /\ Len(Append(t, NL)) = Len(t) + 1 /\ Len(t) \in Nat
          /\ Append(t, NL)[Len(t) + 1] = NL
      BY <2>3, AppendIs
    <3>2. Len(t) + 1 \in 1 .. Len(Append(t, NL))
      BY <3>1
    <3>3. QED
      BY <3>1, <3>2 DEF Has, Contains
  <2>6. QED
    BY <1>1, <2>4, <2>5
<1>3. pc'[e] = "getline" /\ \A f \in Ends : f # e => pc'[f] = pc[f]
  BY <1>0, <1>1
<1>4. TypeOK'
  <2>1. pc' \in [Ends -> PCs]
    BY <1>0, <1>1 DEF PCs
  <2>2. QED
    BY <1>1, <2>1 DEF TypeOK, inVars, outVars, ghostVars
<1>5. ~Unsent(e) /\ ~Unsent(e)'
  BY <1>1, <1>2, <1>3 DEF Unsent
<1>6. Output(e)'
  BY <1>1, <1>2, <1>3, <1>5 DEF Output, outVars
<1>7. QED
  BY <1>1, <1>3, <1>4, <1>5, <1>6

-----------------------------------------------------------------------------
(* Reading keeps the invariant.                                            *)

(* The two ends, each the peer of the other.                               *)
LEMMA EndsAre ==
  /\ "client" \in Ends /\ "server" \in Ends /\ \A e \in Ends : e = "client" \/ e = "server"
  /\ Peer("client") = "server" /\ Peer("server") = "client"
BY DEF Ends, Peer

(* No bytes are a message too.                                             *)
LEMMA Nothing == Message(<<>>)
BY TextOps DEF Message

(* A message that has not been read.                                       *)
LEMMA ArrivingAt ==
  ASSUME NEW e, NEW P, Message(P), Arriving(e, P)
  PROVE  /\ Lined(e) /\ (pc[e] = "prefix" => InPrefix(e, P))
         /\ (pc[e] = "payload" => InPayload(e, P))
         /\ pc[e] \in {"write", "getline", "prefix", "payload"}
<1>1. InBuffer(e, P) => Has(ibuf[e], NL)
  <2> SUFFICES ASSUME InBuffer(e, P) PROVE Has(ibuf[e], NL)
    OBVIOUS
  <2> DEFINE f == Front(Data(P))
  <2>1. Data(P) \in Text /\ Len(Data(P)) = Size(P) + 1 /\ Size(P) \in Nat
    BY DataIs DEF InBuffer, Complete, Message
  <2>2. Len(Data(P)) # 0
    BY <2>1
  <2>3. f \in Text /\ NL \in Byte
    BY <2>1, <2>2, TextOps, BytesAre
  <2>4. ibuf[e] = Append(f, NL)
    BY DEF InBuffer
  <2> HIDE DEF f
  <2>5. /\ Len(Append(f, NL)) = Len(f) + 1 /\ Len(f) \in Nat
        /\ Append(f, NL)[Len(f) + 1] = NL
    BY <2>3, AppendIs
  <2>6. Len(f) + 1 \in 1 .. Len(Append(f, NL))
    BY <2>5
  <2>7. QED
    BY <2>4, <2>5, <2>6 DEF Has, Contains
<1>2. Lined(e)
  BY <1>1 DEF Lined, Arriving, OnWire, InPrefix, InPayload
<1>3. QED
  BY <1>2 DEF Arriving, OnWire, InPrefix, InPayload, InBuffer

(* An end that nothing is on its way to.                                   *)
LEMMA QuietAt ==
  ASSUME NEW e, Quiet(e)
  PROVE  Lined(e) /\ (pc[e] = "prefix" => InPrefix(e, <<>>))
<1>1. <<>> \o <<>> = <<>> /\ ~Has(<<>>, ":")
  BY TextOps
<1>2. QED
  BY <1>1 DEF Quiet, Empty, Lined, InPrefix

(* An end that a text is on its way to.                                    *)
LEMMA ComingAt ==
  ASSUME NEW e, NEW t \in Text, IsText(t), Coming(e, t)
  PROVE  /\ Lined(e) /\ (pc[e] = "prefix" => InPrefix(e, Packet(t)))
         /\ (pc[e] = "payload" => InPayload(e, Packet(t)))
         /\ pc[e] \in {"write", "getline", "prefix", "payload", "line"}
         /\ ~Quiet(e) /\ (pc[e] = "line" => line[e] = Append(t, NL) /\ Empty(e))
<1> DEFINE P == Packet(t)
<1>1. Message(P) /\ P # <<>> /\ Front(Data(P)) = t
  BY PacketIs
<1>2. CASE Delivered(e, t)
  BY <1>2 DEF Delivered, Lined, Quiet
<1>3. CASE Arriving(e, P)
  <2>1. /\ Lined(e) /\ (pc[e] = "prefix" => InPrefix(e, P))
        /\ (pc[e] = "payload" => InPayload(e, P))
        /\ pc[e] \in {"write", "getline", "prefix", "payload"}
    BY <1>1, <1>3, ArrivingAt
  <2>2. ~Quiet(e)
    <3>1. OnWire(e, P) => ~Quiet(e)
      BY <1>1 DEF OnWire, Quiet, Empty
    <3>2. InPrefix(e, P) => ~Quiet(e)
      <4>1. <<>> \o <<>> = <<>>
        BY TextOps
      <4>2. QED
        BY <1>1, <4>1 DEF InPrefix, Quiet, Empty
    <3>3. InPayload(e, P) => ~Quiet(e)
      BY DEF InPayload, Quiet
    <3>4. InBuffer(e, P) => ~Quiet(e)
      <4>1. Append(t, NL) # <<>>
        BY TextOps, BytesAre
      <4>2. QED
        BY <1>1, <4>1 DEF InBuffer, Quiet, Empty
    <3>5. QED
      BY <1>3, <3>1, <3>2, <3>3, <3>4 DEF Arriving
  <2>3. QED
    BY <2>1, <2>2
<1>4. QED
  BY <1>2, <1>3 DEF Coming

(* The last query and the last reply are texts.                            *)
LEMMA LastTexts ==
  ASSUME TypeOK
  PROVE  /\ Len(asked) = Len(heard) + 1 => /\ asked # <<>> /\ Last(asked) \in Text
                                           /\ IsText(Last(asked))
         /\ Len(answers) = Len(got) + 1 => /\ answers # <<>> /\ Last(answers) \in Text
                                           /\ IsText(Last(answers))
<1>1. Len(heard) \in Nat /\ Len(got) \in Nat
  BY LenProperties DEF TypeOK
<1>2. asked = <<>> => Len(asked) = 0
  BY EmptySeq
<1>3. answers = <<>> => Len(answers) = 0
  BY EmptySeq
<1>4. /\ Len(asked) = Len(heard) + 1 => asked # <<>>
      /\ Len(answers) = Len(got) + 1 => answers # <<>>
  BY <1>1, <1>2, <1>3
<1>5. QED
  BY <1>4, HistText, EndsAre DEF Hist

(* What either end is reading is a message.                                *)
LEMMA LinedEnds ==
  ASSUME IInv, NEW e \in Ends
  PROVE  Lined(e) /\ (pc[e] = "prefix" => \E P : Message(P) /\ InPrefix(e, P))
<1>0. TypeOK /\ ServerSide /\ ClientSide
  BY DEF IInv
<1>1. CASE e = "server"
  <2>1. CASE Lost
    BY <1>1, <2>1 DEF Lost, Failed, Lined
  <2>2. CASE Deaf
    <3>1. CASE pc["server"] \in {"line", "payload"}
      BY <1>1, <3>1 DEF Lined
    <3>2. CASE \E b \in Malformed : Arriving("server", b)
      BY <1>1, <3>2, ArrivingAt, Texts
    <3>3. QED
      BY <2>2, <3>1, <3>2 DEF Deaf
  <2>3. CASE Quiet("server")
    BY <1>1, <2>3, QuietAt, Nothing
  <2>4. CASE Coming("server", Last(asked)) /\ Len(asked) = Len(heard) + 1
    <3>1. Last(asked) \in Text /\ IsText(Last(asked))
      BY <1>0, <2>4, LastTexts
    <3>2. QED
      BY <1>1, <2>4, <3>1, ComingAt, PacketIs
  <2>5. QED
    BY <1>0, <2>1, <2>2, <2>3, <2>4 DEF ServerSide
<1>2. CASE e = "client"
  <2>1. CASE pc["client"] = "gone"
    BY <1>2, <2>1 DEF Lined
  <2>2. CASE pc["client"] # "prefix" /\ Empty("client")
    BY <1>2, <2>2 DEF Lined, Empty
  <2>3. CASE Quiet("client")
    BY <1>2, <2>3, QuietAt, Nothing
  <2>4. CASE Coming("client", Last(answers)) /\ Len(answers) = Len(got) + 1
    <3>1. Last(answers) \in Text /\ IsText(Last(answers))
      BY <1>0, <2>4, LastTexts
    <3>2. QED
      BY <1>2, <2>4, <3>1, ComingAt, PacketIs
  <2>5. QED
    BY <1>0, <2>1, <2>2, <2>3, <2>4 DEF ClientSide
<1>3. QED
  BY <1>1, <1>2, EndsAre

(* What the steps of one end leave of the invariant.                       *)
LEMMA ReaderRest ==
  ASSUME IInv, NEW e \in Ends, Reader(e)
  PROVE  /\ TypeOK' /\ Gone' /\ pc["server"]' # "idle" /\ History'
         /\ \A f \in Ends : Output(f)'
         /\ ~Unsent(e) /\ ~Unsent(e)'
<1>0. /\ TypeOK /\ Gone /\ pc["server"] # "idle" /\ History
      /\ \A f \in Ends : Output(f)
  BY DEF IInv
<1>1. Lined(e) /\ (pc[e] = "prefix" => \E P : Message(P) /\ InPrefix(e, P))
  BY LinedEnds
<1>2. /\ TypeOK' /\ pc[e] \in Reading /\ pc'[e] \in Reading \cup {"line"}
      /\ \A f \in Ends : f # e => Same(f)
      /\ UNCHANGED <<open, outVars, ghostVars>>
  BY <1>0, <1>1, ReaderTypes
<1>3. Gone'
  BY <1>0, <1>2 DEF Gone, Reading, Same
<1>4. pc["server"]' # "idle"
  <2>1. CASE e = "server"
    BY <1>2, <2>1 DEF Reading
  <2>2. CASE e # "server"
    BY <1>0, <1>2, <2>2, EndsAre DEF Same
  <2>3. QED
    BY <2>1, <2>2
<1>5. History'
  BY <1>0, <1>2 DEF History, Initial, ghostVars
<1>6. ~Unsent(e) /\ ~Unsent(e)'
  BY <1>2 DEF Unsent, Reading
<1>7. \A f \in Ends : Output(f)'
  <2>1. Output(e)'
    BY <1>0, <1>2, <1>6 DEF Output, outVars, Reading
  <2>2. ASSUME NEW f \in Ends, f # e PROVE Output(f)'
    <3>1. OutSame(f)
      BY <1>2, <2>2 DEF OutSame, Same, Hist, ghostVars
    <3>2. QED
      BY <1>0, <3>1, OutFramed
  <2>3. QED
    BY <2>1, <2>2
<1>8. QED
  BY <1>2, <1>3, <1>4, <1>5, <1>6, <1>7

(* The session reads.                                                      *)
LEMMA ServerReads ==
  ASSUME IInv, Reader("server")
  PROVE  IInv'
<1>0. /\ TypeOK /\ Gone /\ "client" \notin err /\ pc["server"] # "idle"
      /\ ServerSide /\ ClientSide /\ "server" \in Ends /\ "client" \in Ends
      /\ Lined("server")
  BY EndsAre, LinedEnds DEF IInv
<1>1. /\ TypeOK' /\ Gone' /\ pc["server"]' # "idle" /\ History'
      /\ \A f \in Ends : Output(f)'
      /\ ~Unsent("server") /\ ~Unsent("server")'
  BY <1>0, ReaderRest
<1>2. /\ pc["server"] \in Reading /\ pc'["server"] \in Reading \cup {"line"}
      /\ Same("client") /\ UNCHANGED <<open, outVars, ghostVars>>
  BY <1>0, ReaderTypes
<1>3. /\ Quiet("client")' <=> Quiet("client")
      /\ Empty("client")' <=> Empty("client")
      /\ Unsent("client")' <=> Unsent("client")
      /\ \A t : Coming("client", t)' <=> Coming("client", t)
      /\ pc'["client"] = pc["client"] /\ line'["client"] = line["client"]
      /\ ("client" \in eof' <=> "client" \in eof) /\ "client" \notin err'
  BY <1>0, <1>2, Framed DEF Same
<1>4. Waiting' <=> Waiting
  BY <1>3 DEF Waiting
<1>5. UNCHANGED <<asked, heard, answers, got>>
  BY <1>2 DEF ghostVars
<1>6. ClientSide'
  BY <1>0, <1>1, <1>2, <1>3, <1>5 DEF ClientSide
<1>7. ServerSide'
  <2>1. CASE Failed("server")'
    BY <2>1 DEF ServerSide, Lost
  <2>2. CASE Lost
    BY <1>2, <2>2 DEF Lost, Failed, Reading
  <2>3. CASE Deaf
    <3>1. pc["server"] # "line" /\ Waiting /\ Waiting'
      BY <1>2, <1>4, <2>3 DEF Reading, Deaf
    <3>2. CASE pc["server"] = "payload" /\ need["server"] > Len(wire["server"])
      <4>1. RecvPayload("server") \/ RecvEof("server")
        BY <1>0, <3>2, ReaderAt
      <4>2. CASE RecvPayload("server")
        <5>1. pc'["server"] = "payload" /\ need'["server"] > Len(wire'["server"])
          BY <1>0, <3>2, <4>2, StarvedStep
        <5>2. QED
          BY <1>1, <3>1, <5>1 DEF ServerSide, Deaf
      <4>3. CASE RecvEof("server")
        BY <1>0, <2>1, <4>3, ReaderAt
      <4>4. QED
        BY <4>1, <4>2, <4>3
    <3>3. ASSUME NEW b \in Malformed, Arriving("server", b) PROVE ServerSide'
      <4>1. Message(b) /\ (Complete(b) => ~Has(Data(b), " "))
        BY Texts
      <4>2. \/ Arriving("server", b)' \/ Failed("server")'
            \/ (InBuffer("server", b) /\ TakeLine("server"))
        BY <1>0, <3>3, <4>1, ReadMessage
      <4>3. CASE Arriving("server", b)'
        BY <1>1, <3>1, <4>3 DEF ServerSide, Deaf
      <4>4. CASE InBuffer("server", b) /\ TakeLine("server")
        <5>1. ~Has(Data(b), " ")
          BY <4>1, <4>4 DEF InBuffer
        <5>2. pc'["server"] = "line" /\ ~Has(line'["server"], " ")
          BY <1>0, <4>1, <4>4, <5>1, LineStep
        <5>3. QED
          BY <1>1, <3>1, <5>2 DEF ServerSide, Deaf
      <4>5. QED
        BY <2>1, <4>2, <4>3, <4>4
    <3>4. QED
      BY <2>3, <3>1, <3>2, <3>3 DEF Deaf
  <2>4. CASE /\ Quiet("server") /\ (~Unsent("server") \/ Waiting)
             /\ Len(asked) = Len(heard) + (IF Unsent("client") THEN 1 ELSE 0)
    <3>1. Quiet("server")' \/ Failed("server")'
      BY <1>0, <2>4, ReadNothing
    <3>2. QED
      BY <1>1, <1>3, <1>5, <2>1, <2>4, <3>1 DEF ServerSide
  <2>5. CASE /\ Coming("server", Last(asked)) /\ ~Unsent("server") /\ Waiting
             /\ Len(asked) = Len(heard) + 1
    <3> DEFINE t == Last(asked)
    <3>1. t \in Text /\ IsText(t)
      BY <1>0, <2>5, LastTexts
    <3>2. PICK q : q = Last(asked)
      OBVIOUS
    <3>3. Coming("server", q)' \/ Failed("server")'
      BY <1>0, <2>5, <3>1, <3>2, ReadPacket
    <3>4. Last(asked)' = q
      BY <1>5, <3>2
    <3>5. CASE Coming("server", q)'
      BY <1>1, <1>4, <1>5, <2>5, <3>4, <3>5 DEF ServerSide
    <3>6. QED
      BY <2>1, <3>3, <3>5
  <2>6. QED
    BY <1>0, <2>2, <2>3, <2>4, <2>5 DEF ServerSide
<1>8. QED
  BY <1>1, <1>3, <1>6, <1>7 DEF IInv

(* The client reads.                                                       *)
LEMMA ClientReads ==
  ASSUME IInv, Reader("client")
  PROVE  IInv'
<1>0. /\ TypeOK /\ Gone /\ "client" \notin err /\ pc["server"] # "idle"
      /\ ServerSide /\ ClientSide /\ "server" \in Ends /\ "client" \in Ends
      /\ Lined("client")
  BY EndsAre, LinedEnds DEF IInv
<1>1. /\ TypeOK' /\ Gone' /\ pc["server"]' # "idle" /\ History'
      /\ \A f \in Ends : Output(f)'
      /\ ~Unsent("client") /\ ~Unsent("client")'
  BY <1>0, ReaderRest
<1>2. /\ pc["client"] \in Reading /\ pc'["client"] \in Reading \cup {"line"}
      /\ Same("server") /\ UNCHANGED <<open, outVars, ghostVars>>
      /\ (pc'["client"] # "line" \/ TakeLine("client") => UNCHANGED <<err, eof>>)
  BY <1>0, ReaderTypes
<1>3. /\ Quiet("server")' <=> Quiet("server")
      /\ Unsent("server")' <=> Unsent("server")
      /\ Failed("server")' <=> Failed("server")
      /\ \A t : Coming("server", t)' <=> Coming("server", t)
      /\ \A P : Arriving("server", P)' <=> Arriving("server", P)
      /\ pc'["server"] = pc["server"] /\ line'["server"] = line["server"]
      /\ need'["server"] = need["server"] /\ wire'["server"] = wire["server"]
  BY <1>2, Framed DEF Same
<1>4. UNCHANGED <<asked, heard, answers, got>> /\ open' = open
  BY <1>2 DEF ghostVars
<1>5. Lost' <=> Lost
  BY <1>3 DEF Lost
<1>6. ASSUME Waiting => Waiting' \/ Lost PROVE ServerSide'
  <2>1. CASE Lost
    BY <1>5, <2>1 DEF ServerSide
  <2>2. CASE Deaf /\ ~Lost
    <3>1. Deaf'
      BY <1>3, <1>6, <2>2 DEF Deaf
    <3>2. QED
      BY <3>1 DEF ServerSide
  <2>3. CASE ~Lost /\ ~Deaf
    BY <1>0, <1>1, <1>3, <1>4, <1>6, <2>3 DEF ServerSide
  <2>4. QED
    BY <2>1, <2>2, <2>3
<1>7. CASE /\ "client" \in eof /\ "server" \notin open
           /\ pc["client"] \in {"idle", "write", "getline", "line"} /\ Empty("client")
           /\ pc["client"] = "line" => line["client"] = <<>>
           /\ Len(answers) = Len(got)
  <2>1. pc["client"] = "getline" /\ ibuf["client"] = <<>>
    BY <1>2, <1>7 DEF Reading, Empty
  <2>2. TakeNothing("client")
    BY <1>0, <1>7, <2>1, ReaderAt
  <2>3. Failed("client")' /\ Empty("client")' /\ UNCHANGED <<err, eof>>
    <3>1. Failed("client")'
      BY <1>0, <2>2, ReaderAt
    <3>2. Empty("client")' /\ UNCHANGED <<err, eof>>
      BY <1>7, <2>2 DEF TakeNothing, Empty
    <3>3. QED
      BY <3>1, <3>2
  <2>4. Lost
    BY <1>0, <1>7 DEF Lost, Gone
  <2>5. ClientSide'
    BY <1>4, <1>7, <2>3 DEF ClientSide, Failed
  <2>6. ServerSide'
    BY <1>6, <2>4
  <2>7. QED
    BY <1>0, <1>1, <2>3, <2>5, <2>6 DEF IInv
<1>8. CASE /\ "client" \notin eof /\ Quiet("client")
           /\ Len(answers) = Len(got) + (IF Unsent("server") THEN 1 ELSE 0)
  <2>1. /\ Empty("client")' /\ err' = err
        /\ \/ Quiet("client")' /\ pc'["client"] = "prefix" /\ eof' = eof
           \/ Failed("client")' /\ "client" \in eof \cup err /\ eof' = eof
           \/ Failed("client")' /\ "server" \notin open
    BY <1>0, <1>8, ReadNothing, EndsAre
  <2>2. CASE Quiet("client")' /\ pc'["client"] = "prefix" /\ eof' = eof
    <3>1. Waiting'
      BY <1>1, <2>2 DEF Waiting
    <3>2. ClientSide'
      BY <1>3, <1>4, <1>8, <2>2 DEF ClientSide
    <3>3. ServerSide'
      BY <1>6, <3>1
    <3>4. QED
      BY <1>0, <1>1, <2>1, <3>2, <3>3 DEF IInv
  <2>3. CASE Failed("client")' /\ "server" \notin open
    <3>1. pc["server"] = "gone" /\ Lost
      BY <1>0, <2>3 DEF Gone, Lost
    <3>2. ~Unsent("server") /\ Len(got) \in Nat
      BY <1>0, <3>1, LenProperties DEF Unsent, TypeOK
    <3>3. "client" \in eof' /\ Len(answers) = Len(got)
      BY <1>0, <1>8, <2>1, <2>3, <3>2 DEF Failed
    <3>4. ClientSide'
      BY <1>4, <2>1, <2>3, <3>3 DEF ClientSide, Failed
    <3>5. ServerSide'
      BY <1>6, <3>1
    <3>6. QED
      BY <1>0, <1>1, <2>1, <3>4, <3>5 DEF IInv
  <2>4. QED
    BY <1>0, <1>8, <2>1, <2>2, <2>3
<1>9. CASE /\ "client" \notin eof /\ Coming("client", Last(answers))
           /\ ~Unsent("server") /\ ~Unsent("client")
           /\ Len(answers) = Len(got) + 1
  <2>1. Last(answers) \in Text /\ IsText(Last(answers))
    BY <1>0, <1>9, LastTexts
  <2>2. PICK r : r = Last(answers)
    OBVIOUS
  <2>3. Coming("client", r)'
    BY <1>0, <1>9, <2>1, <2>2, ReadPacket
  <2>4. Last(answers)' = r
    BY <1>4, <2>2
  <2>5. UNCHANGED <<err, eof>>
    <3>1. CASE pc'["client"] # "line"
      BY <1>2, <3>1
    <3>2. CASE pc'["client"] = "line"
      <4>1. line'["client"] = Append(r, NL)
        BY <2>1, <2>2, <2>3, <3>2 DEF Coming, Delivered, Arriving, OnWire, InPrefix,
                                      InPayload, InBuffer
      <4>2. Append(r, NL) # <<>>
        BY <2>1, <2>2, TextOps, BytesAre
      <4>3. TakeLine("client")
        <5>1. ~Failed("client")'
          BY <4>1, <4>2 DEF Failed
        <5>2. ~TakeNothing("client") /\ ~RecvEof("client")
          BY <1>0, <5>1, ReaderAt
        <5>3. ~FillBuffer("client")
          BY <1>0, <3>2 DEF FillBuffer, TypeOK
        <5>4. ~RecvPrefix("client") /\ ~RecvPayload("client")
          <6> DEFINE P == Packet(Last(answers))
          <6>1. /\ Message(P) /\ Complete(P) /\ First(P, ":") <= Bound
                /\ (pc["client"] = "prefix" => InPrefix("client", P))
                /\ (pc["client"] = "payload" => InPayload("client", P))
            BY <1>9, <2>1, PacketIs, ComingAt
          <6> HIDE DEF P
          <6>2. PICK p : p = P
            OBVIOUS
          <6>3. ASSUME RecvPrefix("client") PROVE FALSE
            <7>1. InPrefix("client", p)
              BY <6>1, <6>2, <6>3 DEF RecvPrefix
            <7>2. InPrefix("client", p)' \/ InPayload("client", p)' \/ InBuffer("client", p)'
              BY <1>0, <6>1, <6>2, <6>3, <7>1, PrefixStep
            <7>3. QED
              BY <3>2, <7>2 DEF InPrefix, InPayload, InBuffer
          <6>4. ASSUME RecvPayload("client") PROVE FALSE
            <7>1. InPayload("client", p)
              BY <6>1, <6>2, <6>4 DEF RecvPayload
            <7>2. InPayload("client", p)' \/ InBuffer("client", p)'
              BY <1>0, <6>1, <6>2, <6>4, <7>1, PayloadStep
            <7>3. QED
              BY <3>2, <7>2 DEF InPayload, InBuffer
          <6>5. QED
            BY <6>3, <6>4
        <5>5. QED
          BY <5>2, <5>3, <5>4 DEF Reader
      <4>4. QED
        BY <1>2, <4>3
    <3>3. QED
      BY <3>1, <3>2
  <2>6. ClientSide'
    BY <1>1, <1>3, <1>4, <1>9, <2>3, <2>4, <2>5 DEF ClientSide
  <2>7. ~Waiting
    <3>1. ~Quiet("client") /\ pc["client"] # "gone"
      BY <1>9, <2>1, ComingAt
    <3>2. QED
      BY <3>1 DEF Waiting
  <2>8. ServerSide'
    BY <1>6, <2>7
  <2>9. QED
    BY <1>0, <1>1, <2>5, <2>6, <2>8 DEF IInv
<1>10. QED
  BY <1>0, <1>2, <1>7, <1>8, <1>9 DEF ClientSide, Reading

-----------------------------------------------------------------------------
(* Writing keeps the invariant.                                            *)

(* The parts of the invariant that only depend on what the steps of one    *)
(* end leave alone.                                                        *)
LEMMA InFramed ==
  ASSUME NEW f, pc'[f] = pc[f], wire'[f] = wire[f], UNCHANGED inVars
  PROVE  /\ Quiet(f)' <=> Quiet(f)
         /\ Empty(f)' <=> Empty(f)
         /\ Failed(f)' <=> Failed(f)
         /\ \A P : Arriving(f, P)' <=> Arriving(f, P)
         /\ \A t : Coming(f, t)' <=> Coming(f, t)
<1>1. /\ nbuf'[f] = nbuf[f] /\ ibuf'[f] = ibuf[f] /\ need'[f] = need[f]
      /\ line'[f] = line[f] /\ (f \in err' <=> f \in err) /\ (f \in eof' <=> f \in eof)
  BY DEF inVars
<1>2. /\ Quiet(f)' <=> Quiet(f)
      /\ Empty(f)' <=> Empty(f)
      /\ Failed(f)' <=> Failed(f)
  BY <1>1 DEF Quiet, Empty, Failed
<1>3. \A P : Arriving(f, P)' <=> Arriving(f, P)
  BY <1>1 DEF Arriving, OnWire, InPrefix, InPayload, InBuffer
<1>4. \A t : Delivered(f, t)' <=> Delivered(f, t)
  BY <1>1, <1>2 DEF Delivered
<1>5. QED
  BY <1>2, <1>3, <1>4 DEF Coming

(* A packet that is put on an empty wire arrives.                          *)
LEMMA Sent ==
  ASSUME NEW f, NEW P \in Text, Quiet(f), pc[f] # "idle", pc'[f] = pc[f],
         wire'[f] = P, UNCHANGED inVars
  PROVE  Arriving(f, P)'
<1>1. /\ pc'[f] \in {"write", "getline", "prefix"}
      /\ nbuf'[f] = <<>> /\ ibuf'[f] = <<>>
  BY DEF Quiet, Empty, inVars
<1>2. <<>> \o P = P /\ ~Has(<<>>, ":")
  BY TextOps
<1>3. QED
  BY <1>1, <1>2 DEF Arriving, OnWire, InPrefix

(* The histories are left alone.                                           *)
LEMMA HistoryFramed ==
  ASSUME History, UNCHANGED <<asked, heard, answers, got>>
  PROVE  History'
BY DEF History, Initial

(* Nothing that the two sides are made of changes.                         *)
LEMMA SidesFramed ==
  ASSUME IInv, UNCHANGED <<pc, open, wire, inVars, ghostVars>>,
         \A f \in Ends : Unsent(f)' <=> Unsent(f)
  PROVE  ServerSide' /\ ClientSide'
<1>0. ServerSide /\ ClientSide
  BY DEF IInv
<1>1. \A f \in Ends : /\ Quiet(f)' <=> Quiet(f)
                      /\ Empty(f)' <=> Empty(f)
                      /\ Failed(f)' <=> Failed(f)
                      /\ \A P : Arriving(f, P)' <=> Arriving(f, P)
                      /\ \A t : Coming(f, t)' <=> Coming(f, t)
  BY InFramed
<1>2. "client" \in Ends /\ "server" \in Ends
  BY EndsAre
<1>3. UNCHANGED <<asked, heard, answers, got, line, need, err, eof>>
  BY DEF inVars, ghostVars
<1>4. /\ Waiting' <=> Waiting
      /\ Lost' <=> Lost
  BY <1>1, <1>2 DEF Waiting, Lost
<1>5. Deaf' <=> Deaf
  BY <1>1, <1>2, <1>3, <1>4 DEF Deaf
<1>6. ServerSide'
  BY <1>0, <1>1, <1>2, <1>3, <1>4, <1>5 DEF ServerSide
<1>7. ClientSide'
  BY <1>0, <1>1, <1>2, <1>3 DEF ClientSide
<1>8. QED
  BY <1>6, <1>7

(* No end goes away.                                                       *)
LEMMA GoneFramed ==
  ASSUME Gone, UNCHANGED <<pc, open>>
  PROVE  Gone'
BY DEF Gone

(* smap_stream_write copies a piece.                                       *)
LEMMA Copies ==
  ASSUME IInv, NEW e \in Ends, CopyPiece(e)
  PROVE  IInv'
<1>0. /\ TypeOK /\ Gone /\ "client" \notin err /\ pc["server"] # "idle" /\ History
      /\ \A f \in Ends : Output(f)
  BY DEF IInv
<1>1. /\ TypeOK' /\ Output(e)' /\ Unsent(e) /\ Unsent(e)'
      /\ UNCHANGED <<pc, open, wire, inVars, ghostVars>>
      /\ \A f \in Ends : f # e => OutSame(f)
  BY <1>0, CopyStep
<1>2. \A f \in Ends : Output(f)'
  BY <1>0, <1>1, OutFramed
<1>3. \A f \in Ends : Unsent(f)' <=> Unsent(f)
  BY <1>1 DEF OutSame, Unsent
<1>4. ServerSide' /\ ClientSide'
  BY <1>1, <1>3, SidesFramed
<1>5. UNCHANGED <<asked, heard, answers, got, failures, err>>
  BY <1>1 DEF ghostVars, inVars
<1>6. History' /\ Gone'
  BY <1>0, <1>1, <1>5, HistoryFramed, GoneFramed
<1>7. QED
  BY <1>0, <1>1, <1>2, <1>4, <1>5, <1>6 DEF IInv

(* _stream_flush_buffer sends a line or makes room.                        *)
LEMMA Flushes ==
  ASSUME IInv, NEW e \in Ends, FlushLine(e)
  PROVE  IInv'
<1>0. /\ TypeOK /\ Gone /\ "client" \notin err /\ pc["server"] # "idle" /\ History
      /\ ServerSide /\ ClientSide /\ \A f \in Ends : Output(f)
  BY DEF IInv
<1>1. /\ TypeOK' /\ Output(e)'
      /\ UNCHANGED <<pc, open, inVars, todo, ghostVars>>
      /\ \A f \in Ends : f # e => OutSame(f)
      /\ \/ wire' = wire /\ (Unsent(e)' <=> Unsent(e))
         \/ /\ Hist(e) # <<>> /\ Unsent(e) /\ ~Unsent(e)'
            /\ wire' = [wire EXCEPT ![Peer(e)] =
                  IF Peer(e) \in open THEN @ \o Packet(Last(Hist(e))) ELSE @]
  BY <1>0, FlushStep
<1>2. \A f \in Ends : Output(f)'
  BY <1>0, <1>1, OutFramed
<1>3. \A f \in Ends : f # e => (Unsent(f)' <=> Unsent(f))
  BY <1>1 DEF OutSame, Unsent
<1>5. UNCHANGED <<asked, heard, answers, got, failures, err, eof, line, need>>
  BY <1>1 DEF ghostVars, inVars
<1>6. History' /\ Gone'
  BY <1>0, <1>1, <1>5, HistoryFramed, GoneFramed
<1>7. ASSUME ServerSide', ClientSide' PROVE IInv'
  BY <1>0, <1>1, <1>2, <1>5, <1>6, <1>7 DEF IInv
<1>8. CASE wire' = wire /\ (Unsent(e)' <=> Unsent(e))
  <2>1. \A f \in Ends : Unsent(f)' <=> Unsent(f)
    BY <1>3, <1>8
  <2>2. UNCHANGED <<pc, open, wire, inVars, ghostVars>>
    BY <1>1, <1>8
  <2>3. QED
    BY <1>7, <2>1, <2>2, SidesFramed
<1>9. CASE /\ Hist(e) # <<>> /\ Unsent(e) /\ ~Unsent(e)'
           /\ wire' = [wire EXCEPT ![Peer(e)] =
                 IF Peer(e) \in open THEN @ \o Packet(Last(Hist(e))) ELSE @]
  <2> DEFINE t == Last(Hist(e))
  <2>1. t \in Text /\ IsText(t) /\ Packet(t) \in Text
    BY <1>0, <1>9, HistText, PacketIs DEF Message
  <2>2. pc[e] = "write" /\ wire \in [Ends -> Text]
    BY <1>0, <1>9 DEF Unsent, TypeOK
  <2>3. CASE e = "client"
    <3>1. /\ wire'["client"] = wire["client"] /\ t = Last(asked)
          /\ wire'["server"] = IF "server" \in open THEN wire["server"] \o Packet(t)
                               ELSE wire["server"]
      BY <1>9, <2>2, <2>3, EndsAre DEF Hist
    <3>2. /\ Quiet("client")' <=> Quiet("client")
          /\ Empty("client")' <=> Empty("client")
          /\ \A s : Coming("client", s)' <=> Coming("client", s)
      BY <1>1, <3>1, InFramed
    <3>3. Unsent("server")' <=> Unsent("server")
      BY <1>3, <2>3, EndsAre
    <3>4. ClientSide'
      BY <1>0, <1>1, <1>5, <1>9, <2>3, <3>2, <3>3 DEF ClientSide
    <3>5. ~Waiting
      BY <1>9, <2>2, <2>3 DEF Waiting
    <3>6. ASSUME Lost PROVE ServerSide'
      BY <1>1, <1>5, <3>6 DEF Lost, Failed, ServerSide
    <3>7. ASSUME Quiet("server"), ~Unsent("server"), Len(asked) = Len(heard) + 1
          PROVE  ServerSide'
      <4>1. "server" \in open /\ "server" \in Ends
        BY <1>0, <3>7, EndsAre DEF Gone, Quiet
      <4>2. PICK q : q = t
        OBVIOUS
      <4>3. wire'["server"] = Packet(q)
        BY <2>1, <3>1, <3>7, <4>1, <4>2, TextOps DEF Quiet, Empty
      <4>4. Arriving("server", Packet(q))'
        <5> DEFINE P == Packet(q)
        <5>1. P \in Text /\ wire'["server"] = P
          BY <2>1, <4>2, <4>3
        <5> HIDE DEF P
        <5>2. PICK p : p = P
          OBVIOUS
        <5>3. Arriving("server", p)'
          BY <1>0, <1>1, <3>7, <5>1, <5>2, Sent
        <5>4. QED
          BY <5>2, <5>3 DEF P
      <4>5. Quiet("client")'
        <5>1. ~Coming("client", Last(answers)) \/ Unsent("client")
          BY <1>9, <2>3
        <5>2. "server" \in open /\ pc["client"] # "gone" /\ Unsent("client")
          BY <1>9, <2>2, <2>3, <4>1
        <5>3. QED
          BY <1>0, <3>2, <5>2 DEF ClientSide
      <4>6. Waiting'
        BY <1>1, <1>9, <2>2, <2>3, <4>5 DEF Waiting
      <4>7. Last(asked)' = q
        BY <1>5, <3>1, <4>2
      <4>8. Coming("server", Last(asked))'
        BY <4>4, <4>7 DEF Coming
      <4>9. QED
        BY <1>5, <3>3, <3>7, <4>6, <4>8 DEF ServerSide
    <3>8. ServerSide'
      BY <1>0, <1>9, <2>3, <3>5, <3>6, <3>7 DEF ServerSide, Deaf
    <3>9. QED
      BY <1>7, <3>4, <3>8
  <2>4. CASE e = "server"
    <3>1. /\ wire'["server"] = wire["server"] /\ t = Last(answers)
          /\ wire'["client"] = IF "client" \in open THEN wire["client"] \o Packet(t)
                               ELSE wire["client"]
      BY <1>9, <2>2, <2>4, EndsAre DEF Hist
    <3>2. Quiet("server")' <=> Quiet("server")
      BY <1>1, <3>1, InFramed
    <3>3. Unsent("client")' <=> Unsent("client")
      BY <1>3, <2>4, EndsAre
    <3>4. /\ Quiet("server") /\ Waiting
          /\ Len(asked) = Len(heard) + (IF Unsent("client") THEN 1 ELSE 0)
      BY <1>0, <1>9, <2>2, <2>4 DEF ServerSide, Lost, Failed, Deaf
    <3>5. ServerSide'
      BY <1>5, <1>9, <2>4, <3>2, <3>3, <3>4 DEF ServerSide
    <3>6. CASE pc["client"] = "gone"
      <4>1. ClientSide'
        BY <1>1, <3>6 DEF ClientSide
      <4>2. QED
        BY <1>7, <3>5, <4>1
    <3>7. CASE pc["client"] # "gone"
      <4>1. "client" \in open /\ "server" \in open
        BY <1>0, <2>2, <2>4, <3>7, EndsAre DEF Gone
      <4>2. Quiet("client") /\ pc["client"] # "idle" /\ ~Unsent("client")
        BY <3>4, <3>7 DEF Waiting
      <4>3. "client" \notin eof /\ Len(answers) = Len(got) + 1
        <5>1. CASE Coming("client", Last(answers)) /\ Len(answers) = Len(got) + 1
          BY <2>1, <3>1, <4>2, <5>1, ComingAt
        <5>2. QED
          BY <1>0, <1>9, <2>4, <3>7, <4>1, <5>1 DEF ClientSide
      <4>4. PICK r : r = t
        OBVIOUS
      <4>5. wire'["client"] = Packet(r)
        BY <2>1, <3>1, <4>1, <4>2, <4>4, TextOps DEF Quiet, Empty
      <4>6. Arriving("client", Packet(r))'
        <5> DEFINE P == Packet(r)
        <5>1. P \in Text /\ wire'["client"] = P
          BY <2>1, <4>4, <4>5
        <5> HIDE DEF P
        <5>2. PICK p : p = P
          OBVIOUS
        <5>3. Arriving("client", p)'
          BY <1>1, <4>2, <5>1, <5>2, Sent
        <5>4. QED
          BY <5>2, <5>3 DEF P
      <4>7. Last(answers)' = r
        BY <1>5, <3>1, <4>4
      <4>8. Coming("client", Last(answers))'
        BY <4>6, <4>7 DEF Coming
      <4>9. ClientSide'
        BY <1>5, <1>9, <2>4, <3>3, <4>2, <4>3, <4>8 DEF ClientSide
      <4>10. QED
        BY <1>7, <3>5, <4>9
    <3>8. QED
      BY <3>6, <3>7
  <2>5. QED
    BY <2>3, <2>4, EndsAre
<1>10. QED
  BY <1>1, <1>8, <1>9

(* The end that has written all goes on to read.                           *)
LEMMA Dones ==
  ASSUME IInv, NEW e \in Ends, WriteDone(e)
  PROVE  IInv'
<1>0. /\ TypeOK /\ Gone /\ "client" \notin err /\ pc["server"] # "idle" /\ History
      /\ ServerSide /\ ClientSide /\ \A f \in Ends : Output(f)
  BY DEF IInv
<1>1. /\ TypeOK' /\ Output(e)' /\ ~Unsent(e) /\ ~Unsent(e)'
      /\ pc[e] = "write" /\ pc'[e] = "getline"
      /\ \A f \in Ends : f # e => pc'[f] = pc[f]
      /\ UNCHANGED <<open, wire, inVars, outVars, ghostVars>>
  BY <1>0, DoneStep
<1>2. UNCHANGED <<asked, heard, answers, got, failures, err, eof, line, need, todo, obuf,
                  ooff, ocap, nbuf, ibuf, icap>>
  BY <1>1 DEF ghostVars, inVars, outVars
<1>3. \A f \in Ends : Output(f)'
  <2>1. ASSUME NEW f \in Ends, f # e PROVE OutSame(f)
    BY <1>1, <1>2, <2>1 DEF OutSame, Hist
  <2>2. QED
    BY <1>0, <1>1, <2>1, OutFramed
<1>4. \A f \in Ends : Unsent(f)' <=> Unsent(f)
  BY <1>1, <1>2 DEF Unsent
<1>5. History'
  BY <1>0, <1>1, <1>2, HistoryFramed
<1>6. Gone'
  BY <1>0, <1>1 DEF Gone
<1>7. /\ Quiet(e)' <=> Quiet(e)
      /\ Empty(e)' <=> Empty(e)
      /\ ~Failed(e) /\ ~Failed(e)'
      /\ \A P : Arriving(e, P) => Arriving(e, P)'
      /\ \A t : Coming(e, t) => Coming(e, t)'
  <2>1. /\ Quiet(e)' <=> Quiet(e)
        /\ Empty(e)' <=> Empty(e)
        /\ ~Failed(e) /\ ~Failed(e)'
    BY <1>1, <1>2 DEF Quiet, Empty, Failed
  <2>2. \A P : Arriving(e, P) => Arriving(e, P)'
    BY <1>1, <1>2 DEF Arriving, OnWire, InPrefix, InPayload, InBuffer
  <2>3. \A t : ~Delivered(e, t)
    BY <1>1 DEF Delivered
  <2>4. QED
    BY <2>1, <2>2, <2>3 DEF Coming
<1>8. \A f \in Ends : f # e =>
        /\ Quiet(f)' <=> Quiet(f)
        /\ Empty(f)' <=> Empty(f)
        /\ Failed(f)' <=> Failed(f)
        /\ \A P : Arriving(f, P)' <=> Arriving(f, P)
        /\ \A t : Coming(f, t)' <=> Coming(f, t)
  BY <1>1, InFramed
<1>9. "client" \in Ends /\ "server" \in Ends /\ (e = "client" \/ e = "server")
  BY EndsAre
<1>10. Waiting => Waiting'
  BY <1>1, <1>4, <1>7, <1>8, <1>9 DEF Waiting
<1>11. Lost' <=> Lost
  BY <1>1, <1>7, <1>8, <1>9 DEF Lost
<1>12. Deaf => Deaf'
  BY <1>1, <1>2, <1>4, <1>7, <1>8, <1>9, <1>10 DEF Deaf
<1>13. ServerSide'
  BY <1>0, <1>2, <1>4, <1>7, <1>8, <1>9, <1>10, <1>11, <1>12 DEF ServerSide
<1>14. ClientSide'
  BY <1>0, <1>1, <1>2, <1>4, <1>7, <1>8, <1>9 DEF ClientSide
<1>15. pc["server"]' # "idle"
  BY <1>0, <1>1, <1>9
<1>16. QED
  BY <1>0, <1>1, <1>2, <1>3, <1>5, <1>6, <1>13, <1>14, <1>15 DEF IInv

-----------------------------------------------------------------------------
(* An end that goes away, a recv that fails.                               *)

(* An end goes away.                                                       *)
LEMMA ClosesRest ==
  ASSUME IInv, NEW e \in Ends, Close(e), UNCHANGED <<wire, inVars, outVars, ghostVars>>
  PROVE  /\ TypeOK' /\ Gone' /\ pc["server"]' # "idle" /\ History'
         /\ "client" \notin err'
         /\ \A f \in Ends : Output(f)'
         /\ ~Unsent(e)' /\ pc'[e] = "gone" /\ open' \subseteq open
         /\ UNCHANGED <<asked, heard, answers, got>>
         /\ \A f \in Ends : f # e => Same(f)
<1>0. /\ TypeOK /\ Gone /\ "client" \notin err /\ pc["server"] # "idle" /\ History
      /\ \A f \in Ends : Output(f)
  BY DEF IInv
<1>1. UNCHANGED <<asked, heard, answers, got, failures, err, eof, line, need, todo, obuf,
                  ooff, ocap, nbuf, ibuf, icap>>
  BY DEF ghostVars, inVars, outVars
<1>2. pc' = [pc EXCEPT ![e] = "gone"] /\ open' = open \ {e} /\ pc \in [Ends -> PCs]
  BY <1>0 DEF Close, TypeOK
<1>3. /\ pc' \in [Ends -> PCs] /\ pc'[e] = "gone"
      /\ \A f \in Ends : f # e => pc'[f] = pc[f]
  BY <1>2 DEF PCs
<1>4. TypeOK'
  BY <1>0, <1>1, <1>2, <1>3 DEF TypeOK
<1>5. Gone'
  BY <1>0, <1>2, <1>3 DEF Gone
<1>6. \A f \in Ends : f # e => Same(f)
  BY <1>1, <1>3 DEF Same
<1>7. ~Unsent(e)'
  BY <1>3 DEF Unsent
<1>8. \A f \in Ends : Output(f)'
  <2>1. ASSUME NEW f \in Ends, f # e PROVE OutSame(f)
    BY <1>1, <1>3, <2>1 DEF OutSame, Hist
  <2>2. Output(e)'
    BY <1>0, <1>1, <1>3, <1>7 DEF Output
  <2>3. QED
    BY <1>0, <2>1, <2>2, OutFramed
<1>9. History'
  BY <1>0, <1>1, HistoryFramed
<1>10. pc["server"]' # "idle"
  BY <1>0, <1>3, EndsAre
<1>11. QED
  BY <1>0, <1>1, <1>2, <1>3, <1>4, <1>5, <1>6, <1>7, <1>8, <1>9, <1>10

(* The session goes away: no reply is under way then.                      *)
LEMMA ServerCloses ==
  ASSUME IInv, Close("server"), UNCHANGED <<wire, inVars, outVars, ghostVars>>,
         Unsent("server") => "client" \notin open
  PROVE  IInv'
<1>0. Gone /\ ClientSide /\ "server" \in Ends /\ "client" \in Ends
  BY EndsAre DEF IInv
<1>1. /\ TypeOK' /\ Gone' /\ pc["server"]' # "idle" /\ History'
      /\ "client" \notin err'
      /\ \A f \in Ends : Output(f)'
      /\ ~Unsent("server")' /\ pc'["server"] = "gone" /\ open' \subseteq open
      /\ UNCHANGED <<asked, heard, answers, got>>
      /\ Same("client")
  BY <1>0, ClosesRest
<1>2. /\ Quiet("client")' <=> Quiet("client")
      /\ Empty("client")' <=> Empty("client")
      /\ Unsent("client")' <=> Unsent("client")
      /\ \A t : Coming("client", t)' <=> Coming("client", t)
      /\ pc'["client"] = pc["client"] /\ line'["client"] = line["client"]
      /\ ("client" \in eof' <=> "client" \in eof)
  BY <1>1, Framed DEF Same
<1>3. ServerSide'
  BY <1>1 DEF ServerSide, Lost
<1>4. ClientSide'
  <2>1. CASE pc["client"] = "gone"
    BY <1>2, <2>1 DEF ClientSide
  <2>2. CASE pc["client"] # "gone"
    <3>1. ~Unsent("server")
      BY <1>0, <2>2 DEF Gone
    <3>2. QED
      BY <1>0, <1>1, <1>2, <2>2, <3>1 DEF ClientSide
  <2>3. QED
    BY <2>1, <2>2
<1>5. QED
  BY <1>1, <1>3, <1>4 DEF IInv

(* The client goes away.                                                   *)
LEMMA ClientCloses ==
  ASSUME IInv, Close("client"), UNCHANGED <<wire, inVars, outVars, ghostVars>>,
         Unsent("client") => "server" \notin open
  PROVE  IInv'
<1>0. Gone /\ ServerSide /\ "server" \in Ends /\ "client" \in Ends
  BY EndsAre DEF IInv
<1>1. /\ TypeOK' /\ Gone' /\ pc["server"]' # "idle" /\ History'
      /\ "client" \notin err'
      /\ \A f \in Ends : Output(f)'
      /\ ~Unsent("client")' /\ pc'["client"] = "gone" /\ open' \subseteq open
      /\ UNCHANGED <<asked, heard, answers, got>>
      /\ Same("server")
  BY <1>0, ClosesRest
<1>2. /\ Quiet("server")' <=> Quiet("server")
      /\ Unsent("server")' <=> Unsent("server")
      /\ Failed("server")' <=> Failed("server")
      /\ \A t : Coming("server", t)' <=> Coming("server", t)
      /\ \A P : Arriving("server", P)' <=> Arriving("server", P)
      /\ pc'["server"] = pc["server"] /\ line'["server"] = line["server"]
      /\ need'["server"] = need["server"] /\ wire'["server"] = wire["server"]
  BY <1>1, Framed DEF Same
<1>3. ClientSide' /\ Waiting'
  BY <1>1 DEF ClientSide, Waiting
<1>4. ServerSide'
  <2>1. Lost => Lost'
    BY <1>2 DEF Lost
  <2>2. Deaf => Deaf'
    BY <1>2, <1>3 DEF Deaf
  <2>3. CASE Lost \/ Deaf
    BY <2>1, <2>2, <2>3 DEF ServerSide
  <2>4. CASE ~Lost
    <3>1. ~Unsent("client")
      BY <1>0, <2>4 DEF Gone, Lost
    <3>2. QED
      BY <1>0, <1>1, <1>2, <1>3, <2>3, <3>1 DEF ServerSide
  <2>5. QED
    BY <2>3, <2>4
<1>5. QED
  BY <1>1, <1>3, <1>4 DEF IInv

(* All the ways in which an end goes away.                                 *)
LEMMA Leaves ==
  ASSUME IInv,
         \/ \E e \in Ends : WriteKilled(e)
         \/ ClientLeaves \/ ServerLeaves \/ Alarm
  PROVE  IInv'
<1>1. ASSUME NEW e \in Ends, WriteKilled(e) PROVE IInv'
  <2>1. /\ Close(e) /\ UNCHANGED <<wire, inVars, outVars, ghostVars>>
        /\ Peer(e) \notin open
    BY <1>1 DEF WriteKilled, Close
  <2>2. QED
    BY <2>1, EndsAre, ServerCloses, ClientCloses
<1>2. CASE ClientLeaves
  <2>1. /\ Close("client") /\ UNCHANGED <<wire, inVars, outVars, ghostVars>>
        /\ ~Unsent("client")
    BY <1>2 DEF ClientLeaves, Unsent, Reading
  <2>2. QED
    BY <2>1, ClientCloses
<1>3. CASE ServerLeaves \/ Alarm
  <2>1. /\ Close("server") /\ UNCHANGED <<wire, inVars, outVars, ghostVars>>
        /\ ~Unsent("server")
    BY <1>3 DEF ServerLeaves, Alarm, Unsent
  <2>2. QED
    BY <2>1, ServerCloses
<1>4. QED
  BY <1>1, <1>2, <1>3

(* An interrupted recv.                                                    *)
LEMMA Fails ==
  ASSUME IInv, RecvFails
  PROVE  IInv'
<1>0. /\ TypeOK /\ Gone /\ "client" \notin err /\ pc["server"] # "idle" /\ History
      /\ ServerSide /\ ClientSide /\ \A f \in Ends : Output(f)
      /\ "server" \in Ends /\ "client" \in Ends /\ "client" # "server"
  BY EndsAre DEF IInv
<1>1. /\ failures' = failures + 1
      /\ UNCHANGED <<open, wire, nbuf, icap, eof, todo, obuf, ooff, ocap, asked, heard,
                     answers, got>>
      /\ pc["server"] \in {"prefix", "payload"}
  BY DEF RecvFails, outVars
<1>2. failures \in Nat /\ failures' \in Nat /\ failures' # 0
  BY <1>0, <1>1 DEF TypeOK
<1>t. /\ pc \in [Ends -> PCs] /\ line \in [Ends -> Text] /\ ibuf \in [Ends -> Text]
      /\ need \in [Ends -> Nat] /\ err \in SUBSET Ends /\ <<>> \in Text
      /\ need["server"] \in Nat /\ ibuf["server"] \in Text
  BY <1>0, TextOps DEF TypeOK
<1>3. CASE /\ pc["server"] = "prefix" /\ Fail("server") /\ UNCHANGED <<ibuf, need>>
  <2>1. /\ pc' \in [Ends -> PCs] /\ line' \in [Ends -> Text] /\ err' \in SUBSET Ends
        /\ pc'["server"] = "line" /\ Failed("server")'
        /\ pc'["client"] = pc["client"] /\ line'["client"] = line["client"]
        /\ ("client" \in err' <=> "client" \in err)
    BY <1>0, <1>3, <1>t DEF Fail, Return, Failed, PCs
  <2>2. TypeOK'
    BY <1>0, <1>1, <1>2, <1>3, <2>1 DEF TypeOK
  <2>3. Same("client") /\ OutSame("client")
    BY <1>1, <1>3, <2>1 DEF Same, OutSame, Hist
  <2>4. ServerSide'
    BY <2>1 DEF ServerSide, Lost
  <2>5. ~Unsent("server") /\ ~Unsent("server")'
    BY <1>3, <2>1 DEF Unsent
  <2>6. ClientSide'
    BY <1>0, <1>1, <2>1, <2>3, <2>5, Framed DEF ClientSide
  <2>7. Gone' /\ History'
    BY <1>0, <1>1, <1>3, <2>1, EndsAre, HistoryFramed DEF Gone
  <2>8. \A f \in Ends : Output(f)'
    <3>1. Output("server")'
      BY <1>0, <1>1, <1>3, <2>1, <2>5 DEF Output
    <3>2. QED
      BY <1>0, <2>3, <3>1, OutFramed, EndsAre
  <2>9. QED
    BY <1>0, <1>2, <2>1, <2>2, <2>4, <2>6, <2>7, <2>8 DEF IInv
<1>4. CASE /\ pc["server"] = "payload"
           /\ ibuf' = [ibuf EXCEPT !["server"] = IF @ = <<>> THEN @ ELSE Front(@)]
           /\ need' = [need EXCEPT !["server"] = @ + 1]
           /\ UNCHANGED <<pc, line, err>>
  <2>1. /\ ibuf' \in [Ends -> Text] /\ need' \in [Ends -> Nat]
        /\ need'["server"] = need["server"] + 1
        /\ ibuf'["client"] = ibuf["client"] /\ need'["client"] = need["client"]
    <3>1. (IF ibuf["server"] = <<>> THEN ibuf["server"] ELSE Front(ibuf["server"])) \in Text
      BY <1>t, TextOps
    <3>2. need["server"] + 1 \in Nat
      BY <1>t
    <3>3. QED
      BY <1>0, <1>4, <1>t, <3>1, <3>2
  <2>2. TypeOK'
    BY <1>0, <1>1, <1>2, <1>4, <2>1 DEF TypeOK
  <2>3. Same("client") /\ OutSame("client") /\ OutSame("server")
    BY <1>1, <1>4, <2>1 DEF Same, OutSame, Hist
  <2>4. ~Unsent("server") /\ ~Unsent("server")'
    BY <1>4 DEF Unsent
  <2>5. Waiting /\ need["server"] >= Len(wire["server"])
    <3>0. Len(wire["server"]) \in Nat /\ Len(ibuf["server"]) \in Nat /\ wire["server"] \in Text
      BY <1>0, TextOps DEF TypeOK
    <3>1. ASSUME NEW P, Message(P), InPayload("server", P)
          PROVE  need["server"] >= Len(wire["server"])
      <4>1. /\ Has(P, ":") /\ Size(P) # -1 /\ ibuf["server"] \o wire["server"] = Data(P)
            /\ need["server"] + Len(ibuf["server"]) = Size(P) + 1
        BY <3>1 DEF InPayload
      <4>2. Len(Data(P)) <= Size(P) + 1
        BY <3>1, <4>1 DEF Message
      <4>3. Len(Data(P)) = Len(ibuf["server"]) + Len(wire["server"])
        <5>1. Len(ibuf["server"] \o wire["server"]) = Len(ibuf["server"]) + Len(wire["server"])
          BY <1>t, <3>0, TextOps
        <5>2. QED
          BY <4>1, <5>1
      <4> DEFINE n == need["server"]
                 i == Len(ibuf["server"])
                 w == Len(wire["server"])
                 z == Size(P)
      <4>4. n \in Nat /\ i \in Nat /\ w \in Nat /\ n + i = z + 1 /\ i + w <= z + 1
        BY <1>t, <3>0, <4>1, <4>2, <4>3
      <4>5. z \in Nat \cup {-1}
        BY <3>1, <4>1, DataIs DEF Message
      <4> HIDE DEF n, i, w, z
      <4>6. n >= w
        BY <4>4, <4>5
      <4>7. QED
        BY <4>6 DEF n, w
    <3>2. CASE Deaf
      <4>1. CASE need["server"] > Len(wire["server"])
        <5> DEFINE n == need["server"]
                   w == Len(wire["server"])
        <5>1. n \in Nat /\ w \in Nat /\ n > w
          BY <1>t, <3>0, <4>1
        <5> HIDE DEF n, w
        <5>2. n >= w
          BY <5>1
        <5>3. QED
          BY <3>2, <5>2 DEF Deaf, n, w
      <4>2. CASE \E b \in Malformed : Arriving("server", b)
        BY <1>4, <3>1, <3>2, <4>2, Texts, ArrivingAt DEF Deaf
      <4>3. QED
        BY <1>4, <3>2, <4>1, <4>2 DEF Deaf
    <3>3. CASE Coming("server", Last(asked)) /\ Waiting /\ Len(asked) = Len(heard) + 1
      <4>1. Last(asked) \in Text /\ IsText(Last(asked))
        BY <1>0, <3>3, LastTexts
      <4>2. InPayload("server", Packet(Last(asked))) /\ Message(Packet(Last(asked)))
        BY <1>4, <3>3, <4>1, ComingAt, PacketIs
      <4>3. QED
        BY <3>1, <3>3, <4>2
    <3>4. QED
      BY <1>0, <1>4, <3>2, <3>3 DEF ServerSide, Lost, Failed, Quiet
  <2>6. Waiting'
    BY <1>4, <2>3, <2>5, Framed DEF Waiting
  <2>7. need'["server"] > Len(wire'["server"])
    <3>1. Len(wire["server"]) \in Nat
      BY <1>0, TextOps DEF TypeOK
    <3>2. QED
      BY <1>1, <1>t, <2>1, <2>5, <3>1
  <2>8. ServerSide'
    BY <1>4, <2>4, <2>6, <2>7 DEF ServerSide, Deaf
  <2>9. ClientSide'
    BY <1>0, <1>1, <1>4, <2>3, <2>4, Framed DEF ClientSide
  <2>10. Gone' /\ History'
    BY <1>0, <1>1, <1>4, GoneFramed, HistoryFramed
  <2>11. \A f \in Ends : Output(f)'
    BY <1>0, <2>3, OutFramed, EndsAre
  <2>12. QED
    BY <1>0, <1>2, <1>4, <2>2, <2>8, <2>9, <2>10, <2>11 DEF IInv
<1>5. QED
  BY <1>3, <1>4 DEF RecvFails

-----------------------------------------------------------------------------
(* The two programs.                                                       *)

(* Initial segments of a history.                                          *)
LEMMA InitialGrows ==
  ASSUME NEW A, NEW s \in Seq(A), NEW B, NEW t \in Seq(B), NEW c \in B, Initial(s, t)
  PROVE  Initial(s, Append(t, c)) /\ Len(Append(t, c)) = Len(t) + 1
<1>1. /\ Len(s) \in Nat /\ Len(t) \in Nat /\ Len(s) <= Len(t)
      /\ \A i \in 1 .. Len(s) : s[i] = t[i]
  BY LenProperties DEF Initial
<1> DEFINE u == Append(t, c)
<1>2. Len(u) = Len(t) + 1 /\ \A i \in 1 .. Len(t) : u[i] = t[i]
  BY <1>1, AppendProperties
<1> HIDE DEF u
<1>3. Len(s) <= Len(u) /\ \A i \in 1 .. Len(s) : i \in 1 .. Len(t)
  BY <1>1, <1>2
<1>4. \A i \in 1 .. Len(s) : s[i] = u[i]
  BY <1>1, <1>2, <1>3
<1>5. QED
  BY <1>2, <1>3, <1>4 DEF Initial, u

(* The next element of the longer history makes the shorter one longer.    *)
LEMMA InitialNext ==
  ASSUME NEW A, NEW s \in Seq(A), NEW B, NEW t \in Seq(B), Last(t) \in A,
         Initial(s, t), Len(t) = Len(s) + 1
  PROVE  Initial(Append(s, Last(t)), t) /\ Len(Append(s, Last(t))) = Len(s) + 1
<1> DEFINE c == Last(t)
           u == Append(s, c)
<1>1. /\ Len(s) \in Nat /\ \A i \in 1 .. Len(s) : s[i] = t[i]
  BY LenProperties DEF Initial
<1>c. c \in A /\ c = t[Len(t)]
  BY DEF Last
<1> HIDE DEF c
<1>2. Len(u) = Len(s) + 1 /\ u[Len(s) + 1] = c /\ \A i \in 1 .. Len(s) : u[i] = s[i]
  BY <1>1, <1>c, AppendProperties
<1> HIDE DEF u
<1>3. ASSUME NEW i \in 1 .. Len(u) PROVE u[i] = t[i]
  <2>1. i \in 1 .. Len(s) \/ i = Len(s) + 1
    BY <1>1, <1>2, <1>3
  <2>2. CASE i \in 1 .. Len(s)
    BY <1>1, <1>2, <2>2
  <2>3. CASE i = Len(s) + 1
    BY <1>c, <1>2, <2>3
  <2>4. QED
    BY <2>1, <2>2, <2>3
<1>4. Len(u) <= Len(t)
  BY <1>1, <1>2
<1>5. QED
  BY <1>2, <1>3, <1>4 DEF Initial, u, c

(* The same with the library's IsPrefix.                                   *)
LEMMA InitialIsPrefix ==
  ASSUME NEW A, NEW s \in Seq(A), NEW B, NEW t \in Seq(B), Initial(s, t)
  PROVE  IsPrefix(s, t)
<1>1. /\ Len(s) \in Nat /\ Len(t) \in Nat /\ Len(s) <= Len(t)
      /\ \A i \in 1 .. Len(s) : s[i] = t[i]
  BY LenProperties DEF Initial
<1> DEFINE m == 1
           n == Len(s)
           C == A \cup B
<1>2. /\ m \in Nat \ {0} /\ n \in Nat /\ m <= n + 1 /\ n <= Len(s) /\ n <= Len(t) /\ m = 1
  BY <1>1
<1>3. s \in Seq(C) /\ t \in Seq(C)
  BY SeqMonotonic
<1> HIDE DEF m, n, C
<1>4. /\ SubSeq(s, m, n) \in Seq(C) /\ Len(SubSeq(s, m, n)) = n - m + 1
      /\ \A i \in 1 .. n - m + 1 : SubSeq(s, m, n)[i] = s[m + i - 1]
  BY <1>2, <1>3, PartOf
<1>5. /\ SubSeq(t, m, n) \in Seq(C) /\ Len(SubSeq(t, m, n)) = n - m + 1
      /\ \A i \in 1 .. n - m + 1 : SubSeq(t, m, n)[i] = t[m + i - 1]
  BY <1>2, <1>3, PartOf
<1>6. \A i \in 1 .. n - m + 1 : SubSeq(s, m, n)[i] = SubSeq(t, m, n)[i]
  BY <1>1, <1>2, <1>4, <1>5 DEF n
<1>7. SubSeq(s, m, n) = SubSeq(t, m, n)
  BY <1>4, <1>5, <1>6, SeqEqual
<1>8. QED
  BY <1>1, <1>7 DEF IsPrefix, m, n

(* The last element after an Append.                                       *)
LEMMA AppendLast ==
  ASSUME NEW A, NEW s \in Seq(A), NEW c \in A
  PROVE  Append(s, c) \in Seq(A) /\ Append(s, c) # <<>> /\ Last(Append(s, c)) = c
<1>1. Append(s, c) \in Seq(A) /\ Append(s, c) # <<>>
  BY AppendProperties
<1>2. Last(Append(s, c)) = c
  BY FrontLast
<1>3. QED
  BY <1>1, <1>2

(* smapc_query: the client asks when nothing of the last exchange is left. *)
LEMMA Asks ==
  ASSUME IInv, smapc_query
  PROVE  IInv'
<1>0. /\ TypeOK /\ Gone /\ "client" \notin err /\ pc["server"] # "idle" /\ History
      /\ ServerSide /\ ClientSide /\ \A f \in Ends : Output(f)
      /\ "server" \in Ends /\ "client" \in Ends /\ "client" # "server"
  BY EndsAre DEF IInv
<1>1. PICK q \in Queries : /\ asked' = Append(asked, q)
                           /\ todo' = [todo EXCEPT !["client"] = Append(q, NL)]
  BY DEF smapc_query
<1>2. /\ pc["client"] = "idle" /\ pc' = [pc EXCEPT !["client"] = "write"]
      /\ UNCHANGED <<open, wire, inVars, obuf, ooff, ocap, failures, heard, answers, got>>
  BY DEF smapc_query
<1>3. UNCHANGED <<nbuf, ibuf, icap, need, line, err, eof>>
  BY <1>2 DEF inVars
<1>4. /\ q \in Text /\ Append(q, NL) \in Text /\ Append(q, NL) # <<>>
      /\ <<>> \o Append(q, NL) = Append(q, NL)
  BY Texts, TextOps, BytesAre
<1>5. asked \in Seq(Queries) /\ heard \in Seq(Text) /\ pc \in [Ends -> PCs]
      /\ todo \in [Ends -> Text]
  BY <1>0 DEF TypeOK
<1>6. asked' \in Seq(Queries) /\ asked' # <<>> /\ Last(asked') = q
  BY <1>1, <1>5, AppendLast
<1>7. /\ pc' \in [Ends -> PCs] /\ todo' \in [Ends -> Text]
      /\ pc'["client"] = "write" /\ pc'["server"] = pc["server"]
      /\ todo'["client"] = Append(q, NL) /\ todo'["server"] = todo["server"]
  BY <1>0, <1>1, <1>2, <1>4, <1>5 DEF PCs
<1>8. TypeOK'
  BY <1>0, <1>2, <1>3, <1>6, <1>7 DEF TypeOK
<1>9. Gone'
  BY <1>0, <1>2, <1>7, EndsAre DEF Gone
<1>10. Initial(heard, asked') /\ Len(asked') = Len(asked) + 1
  BY <1>0, <1>1, <1>5, InitialGrows DEF History
<1>11. History'
  BY <1>0, <1>2, <1>10 DEF History, Initial
<1>12. Same("server") /\ OutSame("server")
  BY <1>0, <1>2, <1>3, <1>7 DEF Same, OutSame, Hist
<1>13. Unsent("client")' /\ ~Unsent("client")
  BY <1>2, <1>4, <1>7 DEF Unsent
<1>14. Output("client")'
  <2>1. obuf["client"] = <<>> /\ ooff["client"] = 0 /\ Len(obuf["client"]) <= ocap["client"]
    BY <1>0, <1>2 DEF Output
  <2>2. Hist("client")' = asked'
    BY DEF Hist
  <2>3. QED
    BY <1>2, <1>4, <1>6, <1>7, <2>1, <2>2 DEF Output
<1>15. \A f \in Ends : Output(f)'
  BY <1>0, <1>12, <1>14, OutFramed, EndsAre
<1>17. /\ Quiet("server")' <=> Quiet("server")
       /\ Unsent("server")' <=> Unsent("server")
       /\ Failed("server")' <=> Failed("server")
  BY <1>12, Framed
<1>18. ServerSide'
  <2>1. ~Waiting
    BY <1>2 DEF Waiting
  <2>2. CASE Lost
    BY <1>7, <1>17, <2>2 DEF ServerSide, Lost
  <2>3. CASE Quiet("server") /\ ~Unsent("server") /\ Len(asked) = Len(heard) + 0
    <3>1. Len(heard) \in Nat
      BY <1>5, LenProperties
    <3>2. Len(asked') = Len(heard) + 1 /\ heard' = heard
      BY <1>2, <1>10, <2>3, <3>1
    <3>3. QED
      BY <1>13, <1>17, <2>3, <3>2 DEF ServerSide
  <2>4. QED
    BY <1>0, <1>13, <2>1, <2>2, <2>3 DEF ServerSide, Deaf
<1>19. ClientSide'
  <2>1. Empty("client")' <=> Empty("client")
    BY <1>2, <1>3 DEF Empty
  <2>2. CASE /\ "client" \in eof /\ "server" \notin open
             /\ Empty("client") /\ Len(answers) = Len(got)
    BY <1>2, <1>3, <1>7, <2>1, <2>2 DEF ClientSide
  <2>3. CASE /\ "client" \notin eof /\ Quiet("client")
             /\ Len(answers) = Len(got) + (IF Unsent("server") THEN 1 ELSE 0)
    <3>1. Quiet("client")'
      BY <1>7, <2>1, <2>3 DEF Quiet
    <3>2. QED
      BY <1>2, <1>3, <1>17, <2>3, <3>1 DEF ClientSide
  <2>4. CASE Coming("client", Last(answers)) /\ Len(answers) = Len(got) + 1
    <3>1. Last(answers) \in Text /\ IsText(Last(answers))
      BY <1>0, <2>4, LastTexts
    <3>2. QED
      BY <1>2, <2>4, <3>1, ComingAt
  <2>5. QED
    BY <1>0, <1>2, <2>2, <2>3, <2>4 DEF ClientSide
<1>20. QED
  BY <1>0, <1>3, <1>7, <1>8, <1>9, <1>11, <1>15, <1>18, <1>19 DEF IInv

(* The client sends what is no query.                                      *)
LEMMA BreaksProtocol ==
  ASSUME IInv, Garbage
  PROVE  IInv'
<1>0. /\ TypeOK /\ Gone /\ "client" \notin err /\ pc["server"] # "idle" /\ History
      /\ ServerSide /\ ClientSide /\ \A f \in Ends : Output(f)
      /\ "server" \in Ends /\ "client" \in Ends /\ "client" # "server"
  BY EndsAre DEF IInv
<1>1. PICK b \in Malformed : wire' = [wire EXCEPT !["server"] = @ \o b]
  BY DEF Garbage
<1>2. /\ pc["client"] = "idle" /\ pc' = [pc EXCEPT !["client"] = "getline"]
      /\ "server" \in open /\ UNCHANGED <<open, inVars, outVars, ghostVars>>
  BY DEF Garbage
<1>3. UNCHANGED <<nbuf, ibuf, icap, need, line, err, eof, todo, obuf, ooff, ocap, failures,
                  asked, heard, answers, got>>
  BY <1>2 DEF inVars, outVars, ghostVars
<1>4. b \in Text /\ wire["server"] \o b \in Text /\ pc \in [Ends -> PCs]
      /\ wire \in [Ends -> Text]
  BY <1>0, Texts, TextOps DEF Message, TypeOK
<1>5. /\ pc' \in [Ends -> PCs] /\ wire' \in [Ends -> Text]
      /\ pc'["client"] = "getline" /\ pc'["server"] = pc["server"]
      /\ wire'["client"] = wire["client"] /\ wire'["server"] = wire["server"] \o b
  BY <1>0, <1>1, <1>2, <1>4 DEF PCs
<1>6. TypeOK'
  BY <1>0, <1>2, <1>3, <1>5 DEF TypeOK
<1>7. Gone' /\ History'
  BY <1>0, <1>2, <1>3, <1>5, EndsAre, HistoryFramed DEF Gone
<1>8. ~Unsent("client") /\ ~Unsent("client")' /\ (Unsent("server")' <=> Unsent("server"))
  BY <1>2, <1>3, <1>5 DEF Unsent
<1>9. \A f \in Ends : Output(f)'
  <2>1. OutSame("server")
    BY <1>3, <1>5 DEF OutSame, Hist
  <2>2. Output("client")'
    BY <1>0, <1>2, <1>3, <1>5, <1>8 DEF Output
  <2>3. QED
    BY <1>0, <2>1, <2>2, OutFramed, EndsAre
<1>10. "client" \notin eof /\ Quiet("client")
       /\ Len(answers) = Len(got) + (IF Unsent("server") THEN 1 ELSE 0)
  <2>1. CASE Coming("client", Last(answers)) /\ Len(answers) = Len(got) + 1
    <3>1. Last(answers) \in Text /\ IsText(Last(answers))
      BY <1>0, <2>1, LastTexts
    <3>2. QED
      BY <1>2, <2>1, <3>1, ComingAt
  <2>2. QED
    BY <1>0, <1>2, <2>1 DEF ClientSide
<1>11. Quiet("client")'
  BY <1>3, <1>5, <1>10 DEF Quiet, Empty
<1>12. ClientSide'
  BY <1>3, <1>8, <1>10, <1>11 DEF ClientSide
<1>13. Waiting' /\ ~Waiting
  BY <1>2, <1>5, <1>8, <1>11 DEF Waiting
<1>14. ServerSide'
  <2>1. CASE Lost
    BY <1>3, <1>5, <2>1 DEF ServerSide, Lost, Failed
  <2>2. CASE Quiet("server") /\ ~Unsent("server")
    <3>1. wire'["server"] = b
      BY <1>4, <1>5, <2>2, TextOps DEF Quiet, Empty
    <3>2. Arriving("server", b)'
      BY <1>0, <1>2, <1>4, <1>5, <2>2, <3>1, Sent
    <3>3. QED
      BY <1>8, <1>13, <2>2, <3>2 DEF ServerSide, Deaf
  <2>3. QED
    BY <1>0, <1>13, <2>1, <2>2 DEF ServerSide, Deaf
<1>15. QED
  BY <1>0, <1>3, <1>5, <1>6, <1>7, <1>9, <1>12, <1>14 DEF IInv

(* The client prints what it has read: the next reply.                     *)
LEMMA Prints ==
  ASSUME IInv, PrintReply
  PROVE  IInv'
<1>0. /\ TypeOK /\ Gone /\ "client" \notin err /\ pc["server"] # "idle" /\ History
      /\ ServerSide /\ ClientSide /\ \A f \in Ends : Output(f)
      /\ "server" \in Ends /\ "client" \in Ends /\ "client" # "server"
  BY EndsAre DEF IInv
<1>1. /\ pc["client"] = "line" /\ pc' = [pc EXCEPT !["client"] = "idle"]
      /\ got' = IF line["client"] = <<>> THEN got
                ELSE Append(got, Front(line["client"]))
      /\ UNCHANGED <<open, wire, inVars, outVars, failures, asked, heard, answers>>
  BY DEF PrintReply
<1>2. UNCHANGED <<nbuf, ibuf, icap, need, line, err, eof, todo, obuf, ooff, ocap>>
  BY <1>1 DEF inVars, outVars
<1>3. /\ pc' \in [Ends -> PCs] /\ pc'["client"] = "idle" /\ pc'["server"] = pc["server"]
  BY <1>0, <1>1 DEF PCs, TypeOK
<1>4. Same("server") /\ OutSame("server")
  BY <1>1, <1>2, <1>3 DEF Same, OutSame, Hist
<1>5. ~Unsent("client") /\ ~Unsent("client")' /\ (Unsent("server")' <=> Unsent("server"))
  BY <1>1, <1>2, <1>3 DEF Unsent
<1>6. \A f \in Ends : Output(f)'
  <2>1. Output("client")'
    BY <1>0, <1>1, <1>2, <1>3, <1>5 DEF Output
  <2>2. QED
    BY <1>0, <1>4, <2>1, OutFramed, EndsAre
<1>7. Gone'
  BY <1>0, <1>1, <1>3, EndsAre DEF Gone
<1>8. ServerSide'
  <2>1. ~Waiting
    BY <1>1 DEF Waiting, Quiet
  <2>2. /\ Quiet("server")' <=> Quiet("server")
        /\ Failed("server")' <=> Failed("server")
    BY <1>4, Framed
  <2>3. QED
    BY <1>0, <1>1, <1>3, <1>5, <2>1, <2>2 DEF ServerSide, Lost, Deaf
<1>9. CASE /\ "client" \in eof /\ "server" \notin open /\ Empty("client")
           /\ line["client"] = <<>> /\ Len(answers) = Len(got)
  <2>1. got' = got
    BY <1>1, <1>9
  <2>2. TypeOK'
    BY <1>0, <1>1, <1>2, <1>3, <2>1 DEF TypeOK
  <2>3. Empty("client")'
    BY <1>1, <1>2, <1>9 DEF Empty
  <2>4. ClientSide'
    BY <1>1, <1>2, <1>3, <1>9, <2>1, <2>3 DEF ClientSide
  <2>5. History'
    BY <1>0, <1>1, <2>1, HistoryFramed
  <2>6. QED
    BY <1>0, <1>2, <1>3, <1>6, <1>7, <1>8, <2>2, <2>4, <2>5 DEF IInv
<1>10. CASE /\ "client" \notin eof /\ Coming("client", Last(answers))
            /\ ~Unsent("server") /\ ~Unsent("client")
            /\ Len(answers) = Len(got) + 1
  <2> DEFINE r == Last(answers)
  <2>1. r \in Text /\ IsText(r)
    BY <1>0, <1>10, LastTexts
  <2>2. line["client"] = Append(r, NL) /\ Empty("client")
    BY <1>1, <1>10, <2>1, ComingAt
  <2>3. Append(r, NL) # <<>> /\ Front(Append(r, NL)) = r
    <3>1. NL \in Byte
      BY BytesAre
    <3>2. QED
      BY <2>1, <3>1, TextOps, FrontLast DEF Text
  <2>4. got' = Append(got, r)
    BY <1>1, <2>2, <2>3
  <2>5. got \in Seq(Text) /\ answers \in Seq(Replies) /\ Initial(got, answers)
    BY <1>0 DEF TypeOK, History
  <2>6. Initial(got', answers) /\ Len(got') = Len(got) + 1
    BY <1>10, <2>1, <2>4, <2>5, InitialNext
  <2>7. History'
    BY <1>0, <1>1, <2>6 DEF History, Initial
  <2>8. got' \in Seq(Text)
    BY <2>1, <2>4, <2>5, AppendLast
  <2>9. TypeOK'
    BY <1>0, <1>1, <1>2, <1>3, <2>8 DEF TypeOK
  <2>10. Quiet("client")'
    BY <1>1, <1>2, <1>3, <2>2 DEF Quiet, Empty
  <2>11. Len(answers) = Len(got') + 0
    <3>1. Len(got) \in Nat
      BY <2>5, LenProperties
    <3>2. QED
      BY <1>10, <2>6, <3>1
  <2>12. ClientSide'
    BY <1>1, <1>2, <1>5, <1>10, <2>10, <2>11 DEF ClientSide
  <2>13. QED
    BY <1>0, <1>2, <1>3, <1>6, <1>7, <1>8, <2>7, <2>9, <2>12 DEF IInv
<1>11. QED
  BY <1>0, <1>1, <1>9, <1>10 DEF ClientSide, Quiet

(* The session hears the next query and answers it.                        *)
LEMMA Serves ==
  ASSUME IInv, Serve
  PROVE  IInv'
<1>0. /\ TypeOK /\ Gone /\ "client" \notin err /\ pc["server"] # "idle" /\ History
      /\ ServerSide /\ ClientSide /\ \A f \in Ends : Output(f)
      /\ "server" \in Ends /\ "client" \in Ends /\ "client" # "server"
  BY EndsAre DEF IInv
<1>1. PICK r \in Replies : /\ todo' = [todo EXCEPT !["server"] = Append(r, NL)]
                           /\ answers' = Append(answers, r)
  BY DEF Serve
<1>2. /\ pc["server"] = "line" /\ Has(line["server"], " ")
      /\ heard' = Append(heard, Front(line["server"]))
      /\ pc' = [pc EXCEPT !["server"] = "write"]
      /\ UNCHANGED <<open, wire, inVars, obuf, ooff, ocap, failures, asked, got>>
  BY DEF Serve
<1>3. UNCHANGED <<nbuf, ibuf, icap, need, line, err, eof>>
  BY <1>2 DEF inVars
<1>4. /\ Coming("server", Last(asked)) /\ Waiting /\ Len(asked) = Len(heard) + 1
  <2>1. ~Lost
    BY <1>2, TextOps DEF Lost, Failed
  <2>2. ~Deaf
    <3>1. ASSUME NEW b \in Malformed, Arriving("server", b) PROVE FALSE
      BY <1>2, <3>1, ArrivingAt, Texts
    <3>2. QED
      BY <1>2, <3>1 DEF Deaf
  <2>3. QED
    BY <1>0, <1>2, <2>1, <2>2 DEF ServerSide, Quiet
<1> DEFINE q == Last(asked)
<1>5. q \in Text /\ IsText(q)
  BY <1>0, <1>4, LastTexts
<1>6. line["server"] = Append(q, NL) /\ Empty("server")
  BY <1>2, <1>4, <1>5, ComingAt
<1>7. Front(Append(q, NL)) = q /\ NL \in Byte
  <2>1. NL \in Byte
    BY BytesAre
  <2>2. QED
    BY <1>5, <2>1, FrontLast DEF Text
<1>8. heard' = Append(heard, q)
  BY <1>2, <1>6, <1>7
<1>9. /\ heard \in Seq(Text) /\ asked \in Seq(Queries) /\ answers \in Seq(Replies)
      /\ got \in Seq(Text) /\ Initial(heard, asked) /\ Initial(got, answers)
      /\ Len(heard) = Len(answers) /\ pc \in [Ends -> PCs] /\ todo \in [Ends -> Text]
  BY <1>0 DEF TypeOK, History
<1>10. Initial(heard', asked) /\ Len(heard') = Len(heard) + 1 /\ heard' \in Seq(Text)
  BY <1>4, <1>5, <1>8, <1>9, InitialNext, AppendLast
<1>11. /\ Initial(got, answers') /\ Len(answers') = Len(answers) + 1
       /\ answers' \in Seq(Replies) /\ answers' # <<>> /\ Last(answers') = r
  BY <1>1, <1>9, InitialGrows, AppendLast
<1>12. History'
  BY <1>2, <1>9, <1>10, <1>11 DEF History, Initial
<1>13. /\ r \in Text /\ Append(r, NL) \in Text /\ Append(r, NL) # <<>>
       /\ <<>> \o Append(r, NL) = Append(r, NL)
  BY <1>7, Texts, TextOps
<1>14. /\ pc' \in [Ends -> PCs] /\ todo' \in [Ends -> Text]
       /\ pc'["server"] = "write" /\ pc'["client"] = pc["client"]
       /\ todo'["server"] = Append(r, NL) /\ todo'["client"] = todo["client"]
  BY <1>0, <1>1, <1>2, <1>9, <1>13 DEF PCs
<1>15. TypeOK'
  BY <1>0, <1>2, <1>3, <1>10, <1>11, <1>14 DEF TypeOK
<1>16. Gone'
  BY <1>0, <1>2, <1>14, EndsAre DEF Gone
<1>17. Same("client") /\ OutSame("client")
  BY <1>0, <1>2, <1>3, <1>14 DEF Same, OutSame, Hist
<1>18. Unsent("server")' /\ ~Unsent("server")
  BY <1>2, <1>13, <1>14 DEF Unsent
<1>19. Output("server")'
  <2>1. obuf["server"] = <<>> /\ ooff["server"] = 0 /\ Len(obuf["server"]) <= ocap["server"]
    BY <1>0, <1>2 DEF Output
  <2>2. Hist("server")' = answers'
    BY DEF Hist
  <2>3. QED
    BY <1>2, <1>11, <1>13, <1>14, <2>1, <2>2 DEF Output
<1>20. \A f \in Ends : Output(f)'
  BY <1>0, <1>17, <1>19, OutFramed, EndsAre
<1>21. /\ Quiet("client")' <=> Quiet("client")
       /\ Unsent("client")' <=> Unsent("client")
  BY <1>17, Framed
<1>22. Waiting'
  BY <1>4, <1>14, <1>21 DEF Waiting
<1>23. Quiet("server")'
  BY <1>2, <1>3, <1>6, <1>14 DEF Quiet, Empty
<1>24. ~Unsent("client")
  BY <1>4 DEF Waiting, Unsent
<1>25. Len(asked) = Len(heard') + 0
  <2>1. Len(heard) \in Nat
    BY <1>9, LenProperties
  <2>2. QED
    BY <1>4, <1>10, <2>1
<1>26. ServerSide'
  BY <1>2, <1>21, <1>22, <1>23, <1>24, <1>25 DEF ServerSide
<1>27. ClientSide'
  <2>1. CASE pc["client"] = "gone"
    BY <1>14, <2>1 DEF ClientSide
  <2>2. CASE "server" \notin open
    BY <1>0, <1>2, <2>2 DEF Gone
  <2>3. CASE /\ "client" \notin eof /\ Quiet("client") /\ Len(answers) = Len(got) + 0
    <3>1. Len(got) \in Nat
      BY <1>9, LenProperties
    <3>2. Len(answers') = Len(got) + 1
      BY <1>11, <2>3, <3>1
    <3>3. QED
      BY <1>2, <1>3, <1>18, <1>21, <2>3, <3>2 DEF ClientSide
  <2>4. CASE pc["client"] # "gone" /\ Coming("client", Last(answers)) /\ Len(answers) = Len(got) + 1
    <3>1. Last(answers) \in Text /\ IsText(Last(answers))
      BY <1>0, <2>4, LastTexts
    <3>2. QED
      BY <1>4, <2>4, <3>1, ComingAt DEF Waiting
  <2>5. QED
    BY <1>0, <1>18, <2>1, <2>2, <2>3, <2>4 DEF ClientSide
<1>28. QED
  BY <1>0, <1>3, <1>12, <1>14, <1>15, <1>16, <1>20, <1>26, <1>27 DEF IInv

-----------------------------------------------------------------------------
(* An exchange in which a write has failed.                                *)

(* An incomplete packet is a message, and no reader takes it for a packet. *)
LEMMA PartialIs ==
  ASSUME NEW P, Partial(P)
  PROVE  Message(P) /\ ~Complete(P)
<1>1. P \in Text
  BY DEF Partial
<1>2. CASE Has(P, ":") /\ Size(P) # -1
  <2>1. Len(Data(P)) <= Size(P)
    BY <1>2 DEF Partial
  <2>2. Data(P) \in Text /\ Size(P) \in Nat
    BY <1>1, <1>2, DataIs
  <2>3. Len(Data(P)) \in Nat
    BY <2>2, TextOps
  <2>4. Len(Data(P)) <= Size(P) + 1 /\ Len(Data(P)) # Size(P) + 1
    BY <2>1, <2>2, <2>3
  <2>5. QED
    BY <1>1, <2>4, Zenon DEF Message, Complete
<1>3. CASE ~(Has(P, ":") /\ Size(P) # -1)
  BY <1>1, <1>3, Zenon DEF Message, Complete
<1>4. QED
  BY <1>2, <1>3

(* What a short write sends of a packet is incomplete.                     *)
LEMMA PartialPiece ==
  ASSUME NEW t \in Text, IsText(t), NEW n \in 0 .. Len(Packet(t)) - 1
  PROVE  Partial(SubSeq(Packet(t), 1, n)) /\ SubSeq(Packet(t), 1, n) \in Text
<1> DEFINE P == Packet(t)
           seg == SubSeq(P, 1, n)
           rest == SubSeq(P, n + 1, Len(P))
<1>1. P \in Text /\ Complete(P) /\ Len(P) \in Nat /\ n \in Nat /\ n <= Len(P) /\ n < Len(P)
  <2>1. P \in Text /\ Complete(P)
    BY PacketIs DEF Message
  <2>2. Len(P) \in Nat
    BY <2>1, TextOps
  <2>3. QED
    BY <2>1, <2>2
<1> HIDE DEF P
<1>2. /\ seg \in Text /\ rest \in Text /\ Len(rest) = Len(P) - n
      /\ seg \o rest = P
  BY <1>1, Cut DEF Text
<1> HIDE DEF seg, rest
<1>3. ASSUME Has(seg, ":"), Size(seg) # -1 PROVE Len(Data(seg)) <= Size(seg)
  <2>1. Size(P) = Size(seg) /\ Data(P) = Data(seg) \o rest
    BY <1>2, <1>3, Parse
  <2>2. Data(seg) \in Text /\ Size(seg) \in Nat
    BY <1>2, <1>3, DataIs
  <2> DEFINE d == Data(seg)
             a == Len(d)
             b == Len(Data(P))
             r == Len(rest)
             p == Len(P)
             z == Size(seg)
  <2>3. Len(d \o rest) = a + r /\ a \in Nat
    <3> HIDE DEF d
    <3> QED
      BY <1>2, <2>2, TextOps DEF d
  <2>4. b = Size(P) + 1
    BY <1>1, Zenon DEF Complete
  <2>5. a \in Nat /\ b = a + r /\ b = z + 1 /\ r = p - n /\ n < p /\ p \in Nat /\ z \in Nat
    BY <1>1, <1>2, <2>1, <2>2, <2>3, <2>4
  <2> HIDE DEF a, b, r, p, z
  <2>6. a <= z
    BY <2>5
  <2>7. QED
    BY <2>6 DEF a, z
<1>4. Partial(seg)
  BY <1>2, <1>3 DEF Partial
<1>5. QED
  BY <1>2, <1>4 DEF seg, P

(* An end that reads an incomplete packet.                                 *)
LEMMA TornAt ==
  ASSUME NEW e, Torn(e)
  PROVE  /\ Lined(e) /\ pc[e] \in {"write", "getline", "prefix", "payload"}
         /\ pc[e] \in {"getline", "prefix"} => ibuf[e] = <<>>
<1>1. CASE Starved(e)
  BY <1>1 DEF Starved, Lined
<1>2. ASSUME NEW P, Partial(P), Arriving(e, P)
      PROVE  /\ Lined(e) /\ pc[e] \in {"write", "getline", "prefix", "payload"}
             /\ pc[e] \in {"getline", "prefix"} => ibuf[e] = <<>>
  <2>1. Message(P) /\ ~Complete(P)
    BY <1>2, PartialIs
  <2>2. Lined(e) /\ pc[e] \in {"write", "getline", "prefix", "payload"}
    BY <1>2, <2>1, ArrivingAt
  <2>3. OnWire(e, P) \/ InPrefix(e, P) \/ InPayload(e, P)
    BY <1>2, <2>1 DEF Arriving, InBuffer
  <2>4. QED
    BY <2>2, <2>3 DEF OnWire, InPrefix, InPayload
<1>3. QED
  BY <1>1, <1>2 DEF Torn

(* It goes on with the packet or fails, and takes no line.                 *)
LEMMA TornReads ==
  ASSUME TypeOK, NEW e \in Ends, Torn(e), Reader(e)
  PROVE  \/ Torn(e)'
         \/ /\ Failed(e)'
            /\ e \in err' \/ e \in eof \/ (Peer(e) \notin open /\ ibuf'[e] = <<>>)
<1>1. /\ Lined(e) /\ pc[e] \in {"write", "getline", "prefix", "payload"}
      /\ pc[e] \in {"getline", "prefix"} => ibuf[e] = <<>>
  BY TornAt
<1>2. Torn(e)' \/ Failed(e)'
  <2>1. CASE Starved(e)
    <3>1. RecvPayload(e) \/ RecvEof(e)
      BY <2>1, ReaderAt DEF Starved
    <3>2. CASE RecvPayload(e)
      BY <2>1, <3>2, StarvedStep DEF Starved, Torn
    <3>3. CASE RecvEof(e)
      BY <3>3, ReaderAt
    <3>4. QED
      BY <3>1, <3>2, <3>3
  <2>2. ASSUME NEW P, Partial(P), Arriving(e, P) PROVE Torn(e)' \/ Failed(e)'
    <3>1. Message(P) /\ ~Complete(P)
      BY <2>2, PartialIs
    <3>2. Arriving(e, P)' \/ Failed(e)'
      BY <2>2, <3>1, ReadMessage DEF InBuffer
    <3>3. QED
      BY <2>2, <3>2 DEF Torn
  <2>3. QED
    BY <2>1, <2>2 DEF Torn
<1>3. ASSUME Failed(e)', e \notin err', e \notin eof
      PROVE  Peer(e) \notin open /\ ibuf'[e] = <<>>
  <2>1. e \in eof'
    BY <1>3 DEF Failed
  <2>2. RecvEof(e)
    BY <1>3, <2>1 DEF Reader, TakeLine, TakeNothing, FillBuffer, RecvPrefix, RecvPayload,
                      inVars
  <2>3. pc[e] = "prefix" /\ ibuf' = ibuf /\ Peer(e) \notin open
    BY <1>3, <2>1, <2>2 DEF RecvEof
  <2>4. QED
    BY <1>1, <2>3
<1>4. QED
  BY <1>2, <1>3

(* The parts of the invariant of a broken exchange that the steps of one   *)
(* end leave alone.                                                        *)
LEMMA TornFramed ==
  ASSUME NEW f, Same(f)
  PROVE  /\ Torn(f)' <=> Torn(f)
         /\ Unsent(f)' <=> Unsent(f)
         /\ Failed(f)' <=> Failed(f)
<1>1. /\ Unsent(f)' <=> Unsent(f)
      /\ Failed(f)' <=> Failed(f)
      /\ \A P : Arriving(f, P)' <=> Arriving(f, P)
  BY Framed
<1>2. Starved(f)' <=> Starved(f)
  BY DEF Same, Starved
<1>3. \A P : Partial(P)' <=> Partial(P)
  BY DEF Partial
<1>4. QED
  BY <1>1, <1>2, <1>3 DEF Torn

(* The session is left alone.                                              *)
LEMMA LostFramed ==
  ASSUME Same("server")
  PROVE  Lost' <=> Lost
BY Framed DEF Same, Lost

(* The client is left alone.                                               *)
LEMMA StoppedFramed ==
  ASSUME Same("client")
  PROVE  /\ Stopped' <=> Stopped
         /\ open' \subseteq open /\ Unanswered => Unanswered'
BY DEF Same, Stopped, Unanswered

(* A reader of a broken exchange.                                          *)
LEMMA BrokenReads ==
  ASSUME Broken, NEW e \in Ends, Reader(e)
  PROVE  Broken'
<1>0. /\ TypeOK /\ Gone /\ pc["server"] # "idle" /\ History /\ Over
      /\ \A f \in Ends : Kept(f) \/ Output(f)
      /\ "server" \in Ends /\ "client" \in Ends /\ "client" # "server"
      /\ Peer("client") = "server"
  BY EndsAre DEF Broken
<1>1. pc[e] \in Reading
  BY DEF Reader, TakeLine, TakeNothing, FillBuffer, RecvPrefix, RecvPayload, RecvEof, Reading
<1>2. CASE Lost /\ e = "client" /\ Unanswered
  <2>1. pc["client"] = "getline" /\ ibuf["client"] = <<>> /\ "client" \in eof
    BY <1>1, <1>2 DEF Unanswered, Reading
  <2>2. TakeNothing("client")
    BY <1>0, <1>2, <2>1, ReaderAt
  <2>3. /\ TypeOK' /\ pc'[e] \in Reading \cup {"line"} /\ Same("server")
        /\ UNCHANGED <<open, outVars, ghostVars>>
    BY <1>0, <1>2, <2>1, ReaderTypes DEF Lined
  <2>4. Failed("client")' /\ UNCHANGED <<err, eof, ibuf>>
    BY <1>0, <1>2, <2>2, ReaderAt DEF TakeNothing
  <2>5. Unanswered'
    BY <1>2, <2>1, <2>3, <2>4 DEF Unanswered, Failed
  <2>6. Lost'
    BY <1>2, <2>3, LostFramed
  <2>7. Gone' /\ pc["server"]' # "idle"
    BY <1>0, <1>2, <2>1, <2>3, <2>4, EndsAre DEF Gone, Same, Failed
  <2>8. History'
    BY <1>0, <2>3, HistoryFramed DEF ghostVars
  <2>9. \A f \in Ends : Kept(f)' \/ Output(f)'
    <3>1. OutSame("server")
      BY <1>0, <2>3 DEF OutSame, Same, Hist, ghostVars
    <3>2. Output("client")'
      BY <1>0, <2>1, <2>3, <2>4 DEF Kept, Output, Unsent, Hist, outVars, ghostVars, Failed
    <3>3. Kept("server") => Kept("server")'
      BY <2>3, <2>4 DEF Kept, Same
    <3>4. QED
      BY <1>0, <3>1, <3>2, <3>3, OutFramed, EndsAre
  <2>10. QED
    BY <2>3, <2>5, <2>6, <2>7, <2>8, <2>9 DEF Broken, Over
<1>3. CASE Torn(e)
  <2>1. Lined(e)
    BY <1>3, TornAt
  <2>2. /\ TypeOK' /\ pc'[e] \in Reading \cup {"line"}
        /\ \A f \in Ends : f # e => Same(f)
        /\ UNCHANGED <<open, outVars, ghostVars>>
    BY <1>0, <2>1, ReaderTypes
  <2>3. \/ Torn(e)'
        \/ /\ Failed(e)'
           /\ e \in err' \/ e \in eof \/ (Peer(e) \notin open /\ ibuf'[e] = <<>>)
    BY <1>0, <1>3, TornReads
  <2>4. UNCHANGED <<open, todo, obuf, ooff, ocap, failures, asked, heard, answers, got>>
    BY <2>2 DEF outVars, ghostVars
  <2>5. err \subseteq err' /\ (pc'[e] # "line" => err' = err /\ eof' = eof)
    <3>1. err \subseteq err'
      <4>1. CASE TakeLine(e) \/ TakeNothing(e) \/ FillBuffer(e)
        BY <4>1 DEF TakeLine, TakeNothing, FillBuffer, inVars
      <4>2. ASSUME NEW data, Completed(e, data) PROVE err \subseteq err'
        BY <4>2, Zenon DEF Completed, Fail
      <4>3. CASE RecvPayload(e)
        BY <4>2, <4>3 DEF RecvPayload
      <4>4. CASE RecvPrefix(e)
        BY <4>2, <4>4 DEF RecvPrefix, Fail
      <4>5. CASE RecvEof(e)
        BY <4>5 DEF RecvEof, Fail
      <4>6. QED
        BY <4>1, <4>3, <4>4, <4>5 DEF Reader
    <3>2. QED
      BY <1>0, <2>1, <3>1, ReaderTypes
  <2>6. Gone'
    BY <1>0, <1>1, <2>2 DEF Gone, Reading, Same
  <2>7. pc["server"]' # "idle"
    <3>1. CASE e = "server"
      BY <2>2, <3>1 DEF Reading
    <3>2. CASE e # "server"
      BY <1>0, <2>2, <3>2 DEF Same
    <3>3. QED
      BY <3>1, <3>2
  <2>8. History'
    BY <1>0, <2>4, HistoryFramed
  <2>9. \A f \in Ends : Kept(f)' \/ Output(f)'
    <3>1. ASSUME NEW f \in Ends, f # e PROVE Kept(f)' \/ Output(f)'
      <4>1. OutSame(f)
        BY <2>2, <2>4, <3>1 DEF OutSame, Same, Hist
      <4>2. Kept(f) => Kept(f)'
        BY <2>2, <3>1 DEF Kept, Same
      <4>3. QED
        BY <1>0, <4>1, <4>2, OutFramed
    <3>2. Output(e)'
      BY <1>0, <1>1, <2>2, <2>4 DEF Kept, Output, Unsent, Hist, Reading
    <3>3. QED
      BY <3>1, <3>2
  <2>10. ~Unsent(e)'
    BY <2>2 DEF Unsent, Reading
  <2>11. Over'
    <3>1. CASE e = "client"
      <4>1. Same("server") /\ (Lost' <=> Lost)
        BY <1>0, <2>2, <3>1, LostFramed
      <4>3. ~Stopped
        BY <1>1, <3>1 DEF Stopped, Reading
      <4>4. CASE Torn("client") /\ ~Unsent("client") /\ "client" \notin err \cup eof /\ Lost
        <5>1. CASE Torn("client")'
          <6>1. pc'["client"] # "line"
            <7>1. \A P : ~(pc'["client"] = "line" /\ Arriving("client", P)')
              BY DEF Arriving, OnWire, InPrefix, InPayload, InBuffer
            <7>2. QED
              BY <5>1, <7>1 DEF Torn, Starved
          <6>2. "client" \notin err' \cup eof'
            BY <2>5, <3>1, <4>4, <6>1
          <6>3. QED
            BY <2>10, <3>1, <4>1, <4>4, <5>1, <6>2 DEF Over
        <5>2. CASE /\ Failed("client")'
                   /\ \/ "client" \in err' \/ "client" \in eof
                      \/ ("server" \notin open /\ ibuf'["client"] = <<>>)
          <6>1. Stopped' \/ Unanswered'
            BY <2>4, <4>4, <5>2 DEF Failed, Stopped, Unanswered
          <6>2. QED
            BY <4>1, <4>4, <6>1 DEF Over
        <5>3. QED
          BY <1>0, <2>3, <3>1, <5>1, <5>2
      <4>5. QED
        BY <1>0, <1>2, <3>1, <4>3, <4>4 DEF Over, Broken
    <3>2. CASE e = "server"
      <4>1. Same("client") /\ (Stopped' <=> Stopped)
        BY <1>0, <2>2, <3>2, StoppedFramed
      <4>2. ~Lost
        BY <1>1, <3>2 DEF Lost, Failed, Reading
      <4>3. Stopped
        BY <1>0, <4>2 DEF Over
      <4>4. CASE Torn("server")'
        BY <2>10, <3>2, <4>1, <4>3, <4>4 DEF Over
      <4>5. CASE Failed("server")'
        BY <4>1, <4>3, <4>5 DEF Over, Lost
      <4>6. QED
        BY <2>3, <3>2, <4>4, <4>5
    <3>3. QED
      BY <3>1, <3>2, EndsAre
  <2>12. QED
    BY <2>2, <2>6, <2>7, <2>8, <2>9, <2>11 DEF Broken
<1>4. QED
  <2>1. CASE e = "client"
    BY <1>0, <1>1, <1>2, <1>3, <2>1 DEF Over, Stopped, Reading
  <2>2. CASE e = "server"
    BY <1>0, <1>1, <1>3, <2>2 DEF Over, Lost, Failed, Reading
  <2>3. QED
    BY <2>1, <2>2, EndsAre

(* The writing half of an end in a broken exchange.                        *)
LEMMA BrokenWrites ==
  ASSUME Broken, NEW e \in Ends, FlushLine(e) \/ CopyPiece(e) \/ WriteDone(e)
  PROVE  Broken'
<1>0. /\ TypeOK /\ Gone /\ pc["server"] # "idle" /\ History /\ Over
      /\ \A f \in Ends : Kept(f) \/ Output(f)
      /\ "server" \in Ends /\ "client" \in Ends /\ "client" # "server"
      /\ Peer("client") = "server"
  BY EndsAre DEF Broken
<1>1. pc[e] = "write"
  BY DEF FlushLine, CopyPiece, WriteDone
<1>2. Output(e)
  BY <1>0, <1>1 DEF Kept
<1>3. \/ e = "client" /\ Lost /\ Unanswered
      \/ Torn(e) /\ ~Unsent(e)
  <2>1. ~Stopped \/ e # "client"
    BY <1>1 DEF Stopped
  <2>2. ~Lost \/ e # "server"
    BY <1>1 DEF Lost, Failed
  <2>3. QED
    BY <1>0, <2>1, <2>2, EndsAre DEF Over
<1>4. /\ TypeOK' /\ Output(e)' /\ UNCHANGED <<open, inVars, ghostVars>>
      /\ pc'[e] \in {"write", "getline"}
      /\ \A f \in Ends : f # e => OutSame(f)
  <2>1. CASE FlushLine(e)
    BY <1>0, <1>1, <1>2, <2>1, FlushStep
  <2>2. CASE CopyPiece(e)
    BY <1>0, <1>1, <1>2, <2>2, CopyStep
  <2>3. CASE WriteDone(e)
    <3>1. /\ TypeOK' /\ Output(e)' /\ pc'[e] = "getline"
          /\ \A f \in Ends : f # e => pc'[f] = pc[f]
          /\ UNCHANGED <<open, wire, inVars, outVars, ghostVars>>
      BY <1>0, <1>2, <2>3, DoneStep
    <3>2. \A f \in Ends : f # e => OutSame(f)
      BY <3>1 DEF OutSame, outVars, ghostVars, Hist
    <3>3. QED
      BY <3>1, <3>2
  <2>4. QED
    BY <2>1, <2>2, <2>3
<1>5. UNCHANGED <<open, nbuf, ibuf, icap, need, line, err, eof, asked, heard, answers, got>>
  BY <1>4 DEF inVars, ghostVars
<1>6. Gone' /\ pc["server"]' # "idle" /\ History'
  <2>1. Gone'
    BY <1>0, <1>1, <1>4 DEF Gone, OutSame
  <2>2. pc["server"]' # "idle"
    BY <1>0, <1>4 DEF OutSame
  <2>3. QED
    BY <1>0, <1>5, <2>1, <2>2, HistoryFramed
<1>7. \A f \in Ends : Kept(f)' \/ Output(f)'
  <2>1. ASSUME NEW f \in Ends, f # e PROVE Kept(f)' \/ Output(f)'
    <3>1. OutSame(f) /\ (Kept(f) => Kept(f)')
      BY <1>4, <1>5, <2>1 DEF Kept, OutSame
    <3>2. QED
      BY <1>0, <2>1, <3>1, OutFramed
  <2>2. QED
    BY <1>4, <2>1
<1>8. Over'
  <2>1. CASE e = "client" /\ Lost /\ Unanswered
    <3>1. Unanswered'
      BY <1>4, <1>5, <2>1 DEF Unanswered
    <3>2. pc'["server"] = pc["server"]
      BY <1>0, <1>4, <2>1 DEF OutSame
    <3>3. Lost'
      BY <1>5, <2>1, <3>2 DEF Lost, Failed
    <3>4. QED
      BY <3>1, <3>3 DEF Over
  <2>2. CASE Torn(e) /\ ~Unsent(e)
    <3>1. obuf[e] = <<>> /\ todo[e] = <<>> /\ ooff[e] = 0 /\ ocap[e] \in Nat \ {0}
      BY <1>0, <1>1, <1>2, <2>2 DEF Unsent, Output, TypeOK
    <3>2. ~BufferFull(e)
      <4>1. Len(<<>>) = 0 /\ ~Has(<<>>, NL)
        BY TextOps
      <4>2. QED
        BY <3>1, <4>1 DEF BufferFull
    <3>3. ~CopyPiece(e)
      <4>1. ~Unsent(e)
        BY <2>2
      <4>2. QED
        BY <1>0, <1>2, <4>1, CopyStep
    <3>4. WriteDone(e)
      BY <3>2, <3>3 DEF FlushLine
    <3>5. /\ ~Unsent(e)' /\ pc'[e] = "getline"
          /\ \A f \in Ends : f # e => pc'[f] = pc[f]
          /\ UNCHANGED <<open, wire, inVars, outVars, ghostVars>>
      BY <1>0, <1>2, <3>4, DoneStep
    <3>6. wire' = wire /\ UNCHANGED <<todo, obuf, ooff, ocap>>
      BY <3>5 DEF outVars
    <3>7. Torn(e)'
      <4>1. ~Starved(e)
        BY <1>1 DEF Starved
      <4>2. PICK P : Partial(P) /\ Arriving(e, P)
        BY <2>2, <4>1 DEF Torn
      <4>3. Arriving(e, P)'
        BY <1>1, <1>5, <3>5, <3>6, <4>2
           DEF Arriving, OnWire, InPrefix, InPayload, InBuffer
      <4>4. QED
        BY <4>2, <4>3 DEF Torn
    <3>8. ASSUME NEW f \in Ends, f # e PROVE Same(f)
      BY <1>5, <3>5, <3>6, <3>8 DEF Same
    <3>9. CASE e = "client"
      <4>1. Lost' <=> Lost
        BY <1>0, <3>8, <3>9, LostFramed
      <4>2. Lost /\ (Unanswered \/ "client" \notin err \cup eof)
        BY <1>0, <1>1, <3>9 DEF Over, Stopped
      <4>3. Unanswered => Unanswered'
        BY <1>5, <3>5, <3>9 DEF Unanswered
      <4>4. QED
        BY <1>5, <3>5, <3>7, <3>9, <4>1, <4>2, <4>3 DEF Over
    <3>10. CASE e = "server"
      <4>1. Stopped' <=> Stopped
        BY <1>0, <3>8, <3>10, StoppedFramed
      <4>2. Stopped
        BY <1>0, <1>1, <3>10 DEF Over, Lost, Failed
      <4>3. QED
        BY <3>5, <3>7, <3>10, <4>1, <4>2 DEF Over
    <3>11. QED
      BY <3>9, <3>10, EndsAre
  <2>3. QED
    BY <1>3, <2>1, <2>2
<1>9. QED
  BY <1>4, <1>6, <1>7, <1>8 DEF Broken

(* An end of a broken exchange goes away.                                  *)
LEMMA BrokenCloses ==
  ASSUME Broken, NEW e \in Ends, Close(e), UNCHANGED <<wire, inVars, outVars, ghostVars>>
  PROVE  Broken'
<1>0. /\ TypeOK /\ Gone /\ pc["server"] # "idle" /\ History /\ Over
      /\ \A f \in Ends : Kept(f) \/ Output(f)
      /\ "server" \in Ends /\ "client" \in Ends /\ "client" # "server"
  BY EndsAre DEF Broken
<1>1. UNCHANGED <<wire, asked, heard, answers, got, failures, err, eof, line, need, todo,
                  obuf, ooff, ocap, nbuf, ibuf, icap>>
  BY DEF ghostVars, inVars, outVars
<1>2. pc' = [pc EXCEPT ![e] = "gone"] /\ open' = open \ {e} /\ pc \in [Ends -> PCs]
  BY <1>0 DEF Close, TypeOK
<1>3. /\ pc' \in [Ends -> PCs] /\ pc'[e] = "gone"
      /\ \A f \in Ends : f # e => pc'[f] = pc[f]
  BY <1>2 DEF PCs
<1>4. TypeOK'
  BY <1>0, <1>1, <1>2, <1>3 DEF TypeOK
<1>5. Gone' /\ pc["server"]' # "idle" /\ History'
  <2>1. Gone'
    BY <1>0, <1>2, <1>3 DEF Gone
  <2>2. pc["server"]' # "idle"
    BY <1>0, <1>3
  <2>3. QED
    BY <1>0, <1>1, <2>1, <2>2, HistoryFramed
<1>6. \A f \in Ends : f # e => Same(f)
  BY <1>1, <1>3 DEF Same
<1>7. \A f \in Ends : Kept(f)' \/ Output(f)'
  <2>1. ASSUME NEW f \in Ends, f # e PROVE Kept(f)' \/ Output(f)'
    <3>1. OutSame(f) /\ (Kept(f) => Kept(f)')
      BY <1>1, <1>3, <2>1 DEF Kept, OutSame, Hist
    <3>2. QED
      BY <1>0, <2>1, <3>1, OutFramed
  <2>2. Kept(e)' \/ Output(e)'
    BY <1>0, <1>1, <1>3 DEF Kept, Output, Unsent
  <2>3. QED
    BY <2>1, <2>2
<1>8. Over'
  <2>1. CASE e = "server"
    <3>1. Same("client") /\ open' \subseteq open /\ Lost'
      BY <1>0, <1>2, <1>3, <1>6, <2>1 DEF Lost
    <3>2. /\ Stopped => Stopped'
          /\ Unanswered => Unanswered'
          /\ (Torn("client")' <=> Torn("client")) /\ (Unsent("client")' <=> Unsent("client"))
      BY <3>1, StoppedFramed, TornFramed
    <3>3. QED
      BY <1>0, <1>1, <3>1, <3>2 DEF Over
  <2>2. CASE e = "client"
    <3>1. Same("server") /\ Stopped'
      BY <1>0, <1>3, <1>6, <2>2 DEF Stopped
    <3>2. /\ Lost' <=> Lost
          /\ (Torn("server")' <=> Torn("server")) /\ (Unsent("server")' <=> Unsent("server"))
      BY <3>1, LostFramed, TornFramed
    <3>3. QED
      BY <1>0, <3>1, <3>2 DEF Over
  <2>3. QED
    BY <2>1, <2>2, EndsAre
<1>9. QED
  BY <1>4, <1>5, <1>7, <1>8 DEF Broken

(* A failing recv in a broken exchange: the session was reading a part of  *)
(* a packet.                                                               *)
LEMMA BrokenFails ==
  ASSUME Broken, RecvFails
  PROVE  Broken'
<1>0. /\ TypeOK /\ Gone /\ pc["server"] # "idle" /\ History /\ Over
      /\ \A f \in Ends : Kept(f) \/ Output(f)
      /\ "server" \in Ends /\ "client" \in Ends /\ "client" # "server"
  BY EndsAre DEF Broken
<1>1. /\ failures' = failures + 1
      /\ UNCHANGED <<open, wire, nbuf, icap, eof, todo, obuf, ooff, ocap, asked, heard,
                     answers, got>>
      /\ pc["server"] \in {"prefix", "payload"}
  BY DEF RecvFails, outVars
<1>2. failures' \in Nat
  BY <1>0, <1>1 DEF TypeOK
<1>3. /\ pc \in [Ends -> PCs] /\ line \in [Ends -> Text] /\ ibuf \in [Ends -> Text]
      /\ need \in [Ends -> Nat] /\ err \in SUBSET Ends /\ <<>> \in Text
      /\ need["server"] \in Nat /\ ibuf["server"] \in Text
  BY <1>0, TextOps DEF TypeOK
<1>4. Stopped /\ Torn("server") /\ ~Unsent("server")
  BY <1>0, <1>1 DEF Over, Lost, Failed
<1>5. Output("server")
  BY <1>0, <1>1 DEF Kept
<1>6. CASE /\ pc["server"] = "prefix" /\ Fail("server") /\ UNCHANGED <<ibuf, need>>
  <2>1. /\ pc' \in [Ends -> PCs] /\ line' \in [Ends -> Text] /\ err' \in SUBSET Ends
        /\ pc'["server"] = "line" /\ Failed("server")'
        /\ pc'["client"] = pc["client"] /\ line'["client"] = line["client"]
        /\ ("client" \in err' <=> "client" \in err)
    BY <1>0, <1>3, <1>6 DEF Fail, Return, Failed, PCs
  <2>2. TypeOK'
    BY <1>0, <1>1, <1>2, <1>6, <2>1 DEF TypeOK
  <2>3. Same("client") /\ OutSame("client")
    BY <1>1, <1>6, <2>1 DEF Same, OutSame, Hist
  <2>4. Over'
    BY <1>4, <2>1, <2>3, StoppedFramed DEF Over, Lost
  <2>5. Gone' /\ History'
    BY <1>0, <1>1, <1>6, <2>1, EndsAre, HistoryFramed DEF Gone
  <2>6. \A f \in Ends : Kept(f)' \/ Output(f)'
    <3>1. Output("server")'
      BY <1>1, <1>5, <1>6, <2>1 DEF Output, Unsent
    <3>2. Kept("client") => Kept("client")'
      BY <2>3 DEF Kept, Same
    <3>3. QED
      BY <1>0, <2>3, <3>1, <3>2, OutFramed, EndsAre
  <2>7. QED
    BY <2>1, <2>2, <2>4, <2>5, <2>6 DEF Broken
<1>7. CASE /\ pc["server"] = "payload"
           /\ ibuf' = [ibuf EXCEPT !["server"] = IF @ = <<>> THEN @ ELSE Front(@)]
           /\ need' = [need EXCEPT !["server"] = @ + 1]
           /\ UNCHANGED <<pc, line, err>>
  <2>1. /\ ibuf' \in [Ends -> Text] /\ need' \in [Ends -> Nat]
        /\ need'["server"] = need["server"] + 1
        /\ ibuf'["client"] = ibuf["client"] /\ need'["client"] = need["client"]
    <3>1. (IF ibuf["server"] = <<>> THEN ibuf["server"] ELSE Front(ibuf["server"])) \in Text
      BY <1>3, TextOps
    <3>2. need["server"] + 1 \in Nat
      BY <1>3
    <3>3. QED
      BY <1>0, <1>3, <1>7, <3>1, <3>2
  <2>2. TypeOK'
    BY <1>0, <1>1, <1>2, <1>7, <2>1 DEF TypeOK
  <2>3. Same("client") /\ OutSame("client") /\ OutSame("server")
    BY <1>1, <1>7, <2>1 DEF Same, OutSame, Hist
  <2>4. Starved("server")'
    <3> DEFINE n == need["server"]
               w == Len(wire["server"])
               i == Len(ibuf["server"])
    <3>1. n \in Nat /\ w \in Nat /\ i \in Nat /\ wire["server"] \in Text
      BY <1>0, <1>3, TextOps DEF TypeOK
    <3>2. n >= w
      <4>1. CASE Starved("server")
        <5>1. n > w
          BY <4>1 DEF Starved
        <5> HIDE DEF n, w
        <5>2. QED
          BY <3>1, <5>1
      <4>2. ASSUME NEW P, Partial(P), Arriving("server", P) PROVE n >= w
        <5>1. Message(P) /\ P \in Text
          BY <4>2, PartialIs DEF Partial
        <5>2. InPayload("server", P)
          BY <1>7, <4>2, <5>1, ArrivingAt
        <5>3. /\ Has(P, ":") /\ Size(P) # -1 /\ n + i = Size(P) + 1
              /\ ibuf["server"] \o wire["server"] = Data(P)
          BY <5>2 DEF InPayload
        <5>4. Len(ibuf["server"] \o wire["server"]) = i + w
          BY <1>3, <3>1, TextOps
        <5>5. Len(Data(P)) <= Size(P) + 1 /\ Size(P) \in Nat
          BY <5>1, <5>3, DataIs DEF Message
        <5> DEFINE z == Size(P)
        <5>6. i + w <= z + 1 /\ n + i = z + 1 /\ z \in Nat
          BY <5>3, <5>4, <5>5
        <5> HIDE DEF n, w, i, z
        <5>7. QED
          BY <3>1, <5>6
      <4>3. QED
        BY <1>4, <4>1, <4>2 DEF Torn
    <3>3. need'["server"] = n + 1 /\ Len(wire'["server"]) = w
      BY <1>1, <2>1
    <3> HIDE DEF n, w, i
    <3>4. need'["server"] > Len(wire'["server"])
      BY <3>1, <3>2, <3>3
    <3>5. QED
      BY <1>7, <3>4 DEF Starved
  <2>5. ~Unsent("server")' /\ Stopped'
    BY <1>4, <1>7, <2>3, StoppedFramed DEF Unsent
  <2>6. Over'
    BY <2>4, <2>5 DEF Over, Torn
  <2>7. Gone' /\ History'
    BY <1>0, <1>1, <1>7, GoneFramed, HistoryFramed
  <2>8. \A f \in Ends : Kept(f)' \/ Output(f)'
    <3>1. Kept("client") => Kept("client")'
      BY <2>3 DEF Kept, Same
    <3>2. QED
      BY <1>0, <1>5, <2>3, <3>1, OutFramed, EndsAre
  <2>9. QED
    BY <1>0, <1>7, <2>2, <2>6, <2>7, <2>8 DEF Broken
<1>8. QED
  BY <1>6, <1>7 DEF RecvFails

(* The two programs in a broken exchange: a query goes to a session that   *)
(* has gone, and no line is there to be printed or served.                 *)
LEMMA BrokenPrograms ==
  ASSUME Broken, smapc_query \/ Garbage \/ PrintReply \/ Serve
  PROVE  Broken'
<1>0. /\ TypeOK /\ Gone /\ pc["server"] # "idle" /\ History /\ Over
      /\ \A f \in Ends : Kept(f) \/ Output(f)
      /\ "server" \in Ends /\ "client" \in Ends /\ "client" # "server"
  BY EndsAre DEF Broken
<1>1. pc["client"] = "idle" => ~Torn("client")
  BY TornAt, Zenon
<1>2. pc["client"] = "line" => ~Torn("client") /\ line["client"] = <<>>
  <2>1. pc["client"] = "line" => ~Torn("client")
    BY TornAt, Zenon
  <2>2. QED
    BY <1>0, <2>1 DEF Over, Stopped, Unanswered
<1>3. ~Serve
  <2> SUFFICES ASSUME Serve PROVE FALSE
    OBVIOUS
  <2>1. pc["server"] = "line" /\ Has(line["server"], " ")
    BY Zenon DEF Serve
  <2>2. ~Torn("server")
    BY <2>1, TornAt, Zenon
  <2>3. line["server"] = <<>>
    BY <1>0, <2>1, <2>2, Zenon DEF Over, Lost, Failed
  <2>4. QED
    BY <2>1, <2>3, TextOps, Zenon
<1>4. ~Garbage
  <2> SUFFICES ASSUME Garbage PROVE FALSE
    OBVIOUS
  <2>1. pc["client"] = "idle" /\ "client" \notin err /\ "server" \in open
    BY DEF Garbage
  <2>2. QED
    BY <1>0, <1>1, <2>1 DEF Over, Stopped, Unanswered
<1>5. CASE PrintReply
  <2>1. /\ pc["client"] = "line" /\ pc' = [pc EXCEPT !["client"] = "idle"]
        /\ UNCHANGED <<open, wire, inVars, outVars, failures, asked, heard, answers>>
    BY <1>5 DEF PrintReply
  <2>2. got' = got
    BY <1>2, <1>5 DEF PrintReply
  <2>3. UNCHANGED <<nbuf, ibuf, icap, need, line, err, eof, todo, obuf, ooff, ocap>>
    BY <2>1 DEF inVars, outVars
  <2>4. /\ pc' \in [Ends -> PCs] /\ pc'["client"] = "idle" /\ pc'["server"] = pc["server"]
    BY <1>0, <2>1 DEF TypeOK, PCs
  <2>5. TypeOK'
    BY <1>0, <2>1, <2>2, <2>3, <2>4 DEF TypeOK
  <2>6. Same("server") /\ OutSame("server")
    BY <2>1, <2>2, <2>3, <2>4 DEF Same, OutSame, Hist
  <2>7. Stopped => Stopped'
    BY <2>1, <2>3, <2>4 DEF Stopped
  <2>8. Unanswered => Unanswered'
    BY <2>1, <2>3, <2>4 DEF Unanswered
  <2>9. /\ Lost' <=> Lost
        /\ Torn("server")' <=> Torn("server")
        /\ Unsent("server")' <=> Unsent("server")
    BY <2>6, LostFramed, TornFramed
  <2>10. Over'
    BY <1>0, <1>2, <2>1, <2>7, <2>8, <2>9 DEF Over
  <2>11. Gone' /\ pc["server"]' # "idle"
    BY <1>0, <2>1, <2>4, EndsAre DEF Gone
  <2>12. History'
    BY <1>0, <2>1, <2>2, HistoryFramed
  <2>13. \A f \in Ends : Kept(f)' \/ Output(f)'
    <3>1. Kept("client")' \/ Output("client")'
      BY <1>0, <2>1, <2>2, <2>3, <2>4 DEF Kept, Output, Unsent, Hist
    <3>2. Kept("server") => Kept("server")'
      BY <2>6 DEF Kept, Same
    <3>3. QED
      BY <1>0, <2>6, <3>1, <3>2, OutFramed, EndsAre
  <2>14. QED
    BY <2>5, <2>10, <2>11, <2>12, <2>13 DEF Broken
<1>6. CASE smapc_query
  <2>1. PICK q \in Queries : /\ asked' = Append(asked, q)
                             /\ todo' = [todo EXCEPT !["client"] = Append(q, NL)]
    BY <1>6 DEF smapc_query
  <2>2. /\ pc["client"] = "idle" /\ "client" \notin err
        /\ pc' = [pc EXCEPT !["client"] = "write"]
        /\ UNCHANGED <<open, wire, inVars, obuf, ooff, ocap, failures, heard, answers, got>>
    BY <1>6 DEF smapc_query
  <2>3. UNCHANGED <<nbuf, ibuf, icap, need, line, err, eof>>
    BY <2>2 DEF inVars
  <2>4. /\ q \in Text /\ Append(q, NL) \in Text /\ Append(q, NL) # <<>>
        /\ <<>> \o Append(q, NL) = Append(q, NL)
    <3>1. q \in Text /\ NL \in Byte
      BY Texts, BytesAre, Zenon
    <3>2. Append(q, NL) \in Text /\ Append(q, NL) # <<>>
      BY <3>1, TextOps
    <3>3. QED
      BY <3>1, <3>2, TextOps
  <2>5. asked \in Seq(Queries) /\ heard \in Seq(Text) /\ pc \in [Ends -> PCs]
        /\ todo \in [Ends -> Text]
    BY <1>0 DEF TypeOK
  <2>6. asked' \in Seq(Queries) /\ asked' # <<>> /\ Last(asked') = q
    BY <2>1, <2>5, AppendLast
  <2>7. /\ pc' \in [Ends -> PCs] /\ todo' \in [Ends -> Text]
        /\ pc'["client"] = "write" /\ pc'["server"] = pc["server"]
        /\ todo'["client"] = Append(q, NL) /\ todo'["server"] = todo["server"]
    BY <1>0, <2>1, <2>2, <2>4, <2>5 DEF PCs
  <2>8. TypeOK'
    BY <1>0, <2>2, <2>3, <2>6, <2>7 DEF TypeOK
  <2>9. Gone' /\ pc["server"]' # "idle"
    BY <1>0, <2>2, <2>7, EndsAre DEF Gone
  <2>10. Initial(heard, asked')
    BY <1>0, <2>1, <2>5, InitialGrows DEF History
  <2>11. History'
    BY <1>0, <2>2, <2>10 DEF History, Initial
  <2>12. Same("server") /\ OutSame("server")
    BY <1>0, <2>2, <2>3, <2>7 DEF Same, OutSame, Hist
  <2>13. Lost /\ Unanswered
    BY <1>0, <1>1, <2>2 DEF Over, Stopped
  <2>14. Lost' /\ Unanswered'
    <3>1. Lost'
      BY <2>12, <2>13, LostFramed
    <3>2. QED
      BY <2>2, <2>3, <2>7, <2>13, <3>1 DEF Unanswered
  <2>15. Output("client")'
    <3>1. obuf["client"] = <<>> /\ ooff["client"] = 0 /\ Len(obuf["client"]) <= ocap["client"]
      BY <1>0, <2>2 DEF Kept, Output
    <3>2. Hist("client")' = asked'
      BY DEF Hist
    <3>3. QED
      BY <2>2, <2>4, <2>6, <2>7, <3>1, <3>2 DEF Output
  <2>16. Kept("server") => Kept("server")'
    BY <2>12 DEF Kept, Same
  <2>17. \A f \in Ends : Kept(f)' \/ Output(f)'
    BY <1>0, <2>12, <2>15, <2>16, OutFramed, EndsAre
  <2>18. QED
    BY <2>8, <2>9, <2>11, <2>14, <2>17 DEF Broken, Over
<1>7. QED
  BY <1>3, <1>4, <1>5, <1>6

(* A write that fails, or sends a part of its packet, breaks the exchange. *)
LEMMA Breaks ==
  ASSUME IInv \/ Broken, NEW e \in Ends, WriteFails(e)
  PROVE  Broken'
<1>0. /\ TypeOK /\ Gone /\ pc["server"] # "idle" /\ History
      /\ \A f \in Ends : Kept(f) \/ Output(f)
      /\ "server" \in Ends /\ "client" \in Ends /\ "client" # "server"
      /\ Peer("client") = "server" /\ Peer("server") = "client"
  BY EndsAre DEF Broken, IInv
<1>1. /\ pc[e] = "write" /\ Has(obuf[e], NL) /\ failures' = failures + 1
      /\ UNCHANGED <<open, nbuf, ibuf, icap, need, eof, obuf, ooff, ocap, asked, heard,
                     answers, got>>
      /\ todo' = [todo EXCEPT ![e] = <<>>]
      /\ pc' = [pc EXCEPT ![e] = "line"] /\ line' = [line EXCEPT ![e] = <<>>]
      /\ err' = err \cup {e}
  BY DEF WriteFails, Fail, Return
<1>2. Output(e) /\ Unsent(e)
  <2>1. obuf[e] # <<>>
    BY <1>1, TextOps
  <2>2. QED
    BY <1>0, <1>1, <2>1 DEF Kept, Unsent
<1> DEFINE t == Last(Hist(e))
<1>3. t \in Text /\ IsText(t) /\ Hist(e) # <<>>
  BY <1>0, <1>2, HistText DEF Output
<1>4. PICK n \in 0 .. Len(Packet(t)) - 1 :
        wire' = [wire EXCEPT ![Peer(e)] =
                   IF Peer(e) \in open THEN @ \o SubSeq(Packet(t), 1, n) ELSE @]
  <2>1. obuf[e] = Append(t, NL) /\ First(obuf[e], NL) = Len(obuf[e]) /\ obuf[e] \in Text
    <3>1. obuf[e] \in Text /\ todo[e] \in Text /\ obuf[e] \o todo[e] = Append(t, NL)
      BY <1>0, <1>2 DEF Output, TypeOK
    <3> HIDE DEF t
    <3>2. QED
      BY <1>1, <1>3, <3>1, OneLine
  <2>2. SubSeq(obuf[e], 1, First(obuf[e], NL)) = Append(t, NL)
    <3>1. SubSeq(obuf[e], 1, Len(obuf[e])) = obuf[e]
      BY <2>1, SubSeqFull DEF Text
    <3>2. QED
      BY <2>1, <3>1
  <2>3. Encode(SubSeq(obuf[e], 1, First(obuf[e], NL))) = Packet(t)
    BY <2>2 DEF Packet
  <2> HIDE DEF t
  <2>4. QED
    BY <2>3 DEF WriteFails
<1> DEFINE P == SubSeq(Packet(t), 1, n)
<1>5. Partial(P) /\ P \in Text
  <2> HIDE DEF t
  <2> QED
    BY <1>3, PartialPiece
<1> HIDE DEF P, t
<1>6. wire' = [wire EXCEPT ![Peer(e)] = IF Peer(e) \in open THEN @ \o P ELSE @]
  BY <1>4 DEF P
<1>7. /\ pc \in [Ends -> PCs] /\ line \in [Ends -> Text] /\ todo \in [Ends -> Text]
      /\ wire \in [Ends -> Text] /\ err \in SUBSET Ends /\ failures \in Nat
      /\ Peer(e) \in Ends /\ <<>> \in Text /\ Peer(e) # e
  BY <1>0, TextOps, EndsAre DEF TypeOK
<1>8. wire' \in [Ends -> Text] /\ wire'[e] = wire[e]
  <2>1. wire[Peer(e)] \o P \in Text
    BY <1>5, <1>7, TextOps
  <2>2. QED
    BY <1>6, <1>7, <2>1
<1>9. /\ pc' \in [Ends -> PCs] /\ line' \in [Ends -> Text] /\ todo' \in [Ends -> Text]
      /\ pc'[e] = "line" /\ line'[e] = <<>>
      /\ \A f \in Ends : f # e => /\ pc'[f] = pc[f] /\ line'[f] = line[f]
                                  /\ todo'[f] = todo[f]
      /\ err' \in SUBSET Ends /\ e \in err' /\ failures' \in Nat
      /\ \A f \in Ends : f # e => (f \in err' <=> f \in err)
  BY <1>1, <1>7 DEF PCs
<1>10. TypeOK'
  BY <1>0, <1>1, <1>8, <1>9 DEF TypeOK
<1>11. Gone'
  BY <1>0, <1>1, <1>9 DEF Gone
<1>12. pc["server"]' # "idle" /\ History'
  BY <1>0, <1>1, <1>9, HistoryFramed
<1>13. \A f \in Ends : Kept(f)' \/ Output(f)'
  <2>1. ASSUME NEW f \in Ends, f # e PROVE Kept(f)' \/ Output(f)'
    <3>1. OutSame(f) /\ (Kept(f) => Kept(f)')
      BY <1>1, <1>9, <2>1 DEF Kept, OutSame, Hist
    <3>2. QED
      BY <1>0, <2>1, <3>1, OutFramed
  <2>2. Kept(e)'
    BY <1>9 DEF Kept
  <2>3. QED
    BY <2>1, <2>2
<1>p. PICK p : p = P
  OBVIOUS
<1>14. ASSUME NEW f \in Ends, f = Peer(e), f \in open, Quiet(f), pc[f] # "idle"
       PROVE  Torn(f)'
  <2>1. wire'[f] = p /\ p \in Text /\ Partial(p)
    <3>1. wire'[f] = wire[f] \o P /\ wire[f] = <<>>
      BY <1>6, <1>7, <1>14 DEF Quiet, Empty
    <3>2. QED
      BY <1>5, <1>p, <3>1, TextOps
  <2>2. /\ pc'[f] \in {"write", "getline", "prefix"}
        /\ nbuf'[f] = <<>> /\ ibuf'[f] = <<>>
    BY <1>1, <1>7, <1>9, <1>14 DEF Quiet, Empty
  <2>3. <<>> \o p = p /\ ~Has(<<>>, ":")
    BY <2>1, TextOps
  <2>4. Arriving(f, p)'
    BY <2>1, <2>2, <2>3 DEF Arriving, OnWire, InPrefix
  <2>5. QED
    BY <2>1, <2>4 DEF Torn
<1>15. Over'
  <2>1. CASE e = "server"
    <3>1. Lost'
      BY <1>9, <2>1 DEF Lost, Failed
    <3>2. ~Lost
      BY <1>1, <2>1 DEF Lost, Failed
    <3>3. IInv
      <4>1. Broken => ~Unsent("server")
        BY <3>2 DEF Broken, Over
      <4>2. QED
        BY <1>2, <2>1, <4>1
    <3>4. Waiting /\ "client" \notin err
      <4>1. ~Deaf /\ Unsent("server")
        BY <1>2, <2>1, Zenon DEF Deaf
      <4>2. ServerSide /\ "client" \notin err
        BY <3>3 DEF IInv
      <4>3. QED
        BY <3>2, <4>1, <4>2, Zenon DEF ServerSide
    <3>5. CASE pc["client"] = "gone"
      <4>1. Stopped'
        BY <1>0, <1>9, <2>1, <3>5 DEF Stopped
      <4>2. QED
        BY <3>1, <4>1 DEF Over
    <3>6. CASE pc["client"] # "gone"
      <4>1. Quiet("client") /\ pc["client"] # "idle" /\ ~Unsent("client")
            /\ "client" \in open
        BY <1>0, <3>4, <3>6 DEF Waiting, Gone
      <4>2. Torn("client")'
        BY <1>0, <1>14, <2>1, <4>1
      <4>3. ~Unsent("client")'
        BY <1>0, <1>1, <1>9, <2>1, <4>1 DEF Unsent
      <4>4. "client" \notin err'
        BY <1>0, <1>9, <2>1, <3>4
      <4>5. CASE "client" \notin eof
        BY <1>1, <3>1, <4>2, <4>3, <4>4, <4>5 DEF Over
      <4>6. CASE "client" \in eof
        <5>1. "server" \notin open
          BY <3>3, <3>6, <4>1, <4>6, ComingAt, LastTexts DEF IInv, ClientSide
        <5>2. QED
          BY <1>0, <1>1, <2>1, <5>1 DEF Gone
      <4>7. QED
        BY <4>5, <4>6
    <3>7. QED
      BY <3>5, <3>6
  <2>2. CASE e = "client"
    <3>1. Stopped'
      BY <1>9, <2>2 DEF Stopped
    <3>2. CASE Lost
      <4>1. Same("server") \/ "server" \in open
        BY <1>0, <1>1, <1>6, <1>7, <1>9, <2>2 DEF Same
      <4>2. Lost'
        BY <1>0, <1>1, <1>9, <2>2, <3>2 DEF Lost, Failed
      <4>3. QED
        BY <3>1, <4>2 DEF Over
    <3>3. CASE ~Lost
      <4>1. IInv
        <5>1. ~Stopped
          BY <1>1, <2>2 DEF Stopped
        <5>2. QED
          BY <3>3, <5>1 DEF Broken, Over
      <4>2. ~Waiting
        BY <1>1, <1>2, <2>2 DEF Waiting
      <4>3. Quiet("server") /\ ~Unsent("server")
        <5>1. ServerSide /\ ~Deaf
          BY <4>1, <4>2, Zenon DEF IInv, Deaf
        <5>2. QED
          BY <3>3, <4>2, <5>1, Zenon DEF ServerSide
      <4>4. "server" \in open
        BY <1>0, <3>3 DEF Gone, Lost
      <4>5. Torn("server")'
        BY <1>0, <1>14, <2>2, <4>3, <4>4
      <4>6. ~Unsent("server")'
        BY <1>0, <1>1, <1>9, <2>2, <4>3 DEF Unsent
      <4>7. QED
        BY <3>1, <4>5, <4>6 DEF Over
    <3>4. QED
      BY <3>2, <3>3
  <2>3. QED
    BY <2>1, <2>2, EndsAre
<1>16. QED
  BY <1>10, <1>11, <1>12, <1>13, <1>15 DEF Broken

-----------------------------------------------------------------------------
(* The theorems.                                                           *)

(* The first state: nothing is on its way, the session waits for a query.  *)
LEMMA Starts ==
  ASSUME Init
  PROVE  IInv
<1>1. TypeOK
  <2>1. <<>> \in Text /\ <<>> \in Seq(Queries) /\ <<>> \in Seq(Replies) /\ <<>> \in Seq(Text)
    BY DEF Text
  <2>2. BufSize \in Nat \ {0} /\ BufSize \in Nat
    BY SizesAssumption
  <2>3. pc \in [Ends -> PCs]
    BY DEF Init, Ends, PCs
  <2>4. QED
    BY <2>1, <2>2, <2>3 DEF Init, TypeOK, Ends
<1>2. pc["client"] = "idle" /\ pc["server"] = "getline"
  BY DEF Init, Ends
<1>3. \A e \in Ends : /\ Empty(e) /\ obuf[e] = <<>> /\ todo[e] = <<>> /\ ooff[e] = 0
                      /\ ocap[e] = BufSize /\ icap[e] = BufSize /\ need[e] = 0
                      /\ ibuf[e] = <<>>
  BY DEF Init, Empty
<1>4. Gone
  BY <1>2 DEF Init, Gone, Ends
<1>5. \A e \in Ends : ~Unsent(e) /\ Quiet(e)
  BY <1>2, <1>3, EndsAre DEF Unsent, Quiet
<1>6. Len(<<>>) = 0 /\ BufSize \in Nat
  BY SizesAssumption
<1>7. \A e \in Ends : Output(e)
  <2> SUFFICES ASSUME NEW e \in Ends PROVE Output(e)
    OBVIOUS
  <2>1. ~Unsent(e) /\ obuf[e] = <<>> /\ todo[e] = <<>> /\ ooff[e] = 0
    BY <1>3, <1>5
  <2>2. Len(obuf[e]) <= ocap[e]
    BY <1>3, <1>6
  <2>3. QED
    BY <2>1, <2>2 DEF Output
<1>9. History
  BY <1>6 DEF Init, History, Initial
<1>10. ServerSide
  BY <1>5, <1>6, EndsAre DEF ServerSide, Init
<1>11. ClientSide
  BY <1>5, <1>6, EndsAre DEF ClientSide, Init
<1>12. QED
  BY <1>1, <1>2, <1>4, <1>7, <1>9, <1>10, <1>11 DEF IInv, Init

(* Every step of the two ends and of the connection keeps the invariant.   *)
LEMMA Steps ==
  ASSUME IInv, [Next]_vars
  PROVE  IInv' \/ Broken'
<1>0. CASE \E e \in Ends : WriteFails(e)
  BY <1>0, Breaks
<1>1. CASE UNCHANGED vars
  <2>1. UNCHANGED <<pc, open, wire, inVars, outVars, ghostVars>>
    BY <1>1 DEF vars
  <2>2. \A f \in Ends : Unsent(f)' <=> Unsent(f)
    BY <2>1 DEF Unsent, outVars
  <2>3. ServerSide' /\ ClientSide'
    BY <2>1, <2>2, SidesFramed
  <2>4. TypeOK' /\ "client" \notin err' /\ pc["server"]' # "idle"
    BY <2>1 DEF TypeOK, IInv, inVars, outVars, ghostVars
  <2>5. Gone' /\ History'
    BY <2>1, GoneFramed, HistoryFramed DEF IInv, ghostVars
  <2>6. \A e \in Ends : Output(e)'
    BY <2>1 DEF IInv, Output, Unsent, Hist, outVars, ghostVars
  <2>7. QED
    BY <2>3, <2>4, <2>5, <2>6 DEF IInv
<1>2. ASSUME NEW e \in Ends, StreamStep(e)
      PROVE  IInv'
  <2>1. CASE Reader(e)
    <3>1. CASE e = "client"
      BY <2>1, <3>1, ClientReads
    <3>2. CASE e = "server"
      BY <2>1, <3>2, ServerReads
    <3>3. QED
      BY <1>2, <3>1, <3>2, EndsAre
  <2>2. CASE FlushLine(e)
    BY <1>2, <2>2, Flushes
  <2>3. CASE CopyPiece(e)
    BY <1>2, <2>3, Copies
  <2>4. CASE WriteDone(e)
    BY <1>2, <2>4, Dones
  <2>5. CASE WriteKilled(e)
    BY <1>2, <2>5, Leaves
  <2>6. QED
    BY <1>2, <2>1, <2>2, <2>3, <2>4, <2>5 DEF StreamStep, Reader
<1>3. CASE PrintReply
  BY <1>3, Prints
<1>4. CASE Serve
  BY <1>4, Serves
<1>5. CASE ServerLeaves \/ ClientLeaves \/ Alarm
  BY <1>5, Leaves
<1>6. CASE smapc_query
  BY <1>6, Asks
<1>7. CASE Garbage
  BY <1>7, BreaksProtocol
<1>8. CASE RecvFails
  BY <1>8, Fails
<1>9. QED
  BY <1>0, <1>1, <1>2, <1>3, <1>4, <1>5, <1>6, <1>7, <1>8, EndsAre
     DEF Next, ClientStep, ServerStep

(* So does every step after a write that failed.                           *)
LEMMA BrokenSteps ==
  ASSUME Broken, [Next]_vars
  PROVE  Broken'
<1>1. CASE UNCHANGED vars
  <2>1. /\ UNCHANGED <<pc, open, wire, nbuf, ibuf, icap, need, line, err, eof>>
        /\ UNCHANGED <<todo, obuf, ooff, ocap, failures, asked, heard, answers, got>>
    BY <1>1 DEF vars, inVars, outVars, ghostVars
  <2>2. \A f \in Ends : Same(f) /\ OutSame(f)
    BY <2>1 DEF Same, OutSame, Hist
  <2>3. /\ Lost' <=> Lost
        /\ Stopped' <=> Stopped
        /\ Unanswered => Unanswered'
        /\ \A f \in Ends : (Torn(f)' <=> Torn(f)) /\ (Unsent(f)' <=> Unsent(f))
    BY <2>1, <2>2, LostFramed, StoppedFramed, TornFramed, EndsAre
  <2>4. Over'
    BY <2>1, <2>3, EndsAre DEF Broken, Over
  <2>5. TypeOK' /\ pc["server"]' # "idle"
    BY <2>1 DEF Broken, TypeOK
  <2>6. Gone' /\ History'
    BY <2>1, GoneFramed, HistoryFramed DEF Broken
  <2>7. \A f \in Ends : Kept(f)' \/ Output(f)'
    BY <2>1, <2>2, OutFramed DEF Broken, Kept
  <2>8. QED
    BY <2>4, <2>5, <2>6, <2>7 DEF Broken
<1>2. ASSUME NEW e \in Ends, StreamStep(e) PROVE Broken'
  <2>1. CASE WriteKilled(e)
    <3>1. Close(e) /\ UNCHANGED <<wire, inVars, outVars, ghostVars>>
      BY <2>1 DEF WriteKilled, Close
    <3>2. QED
      BY <1>2, <3>1, BrokenCloses
  <2>2. QED
    BY <1>2, <2>1, BrokenReads, BrokenWrites DEF StreamStep, Reader
<1>3. CASE ClientLeaves \/ ServerLeaves \/ Alarm
  <2>1. \E e \in Ends : Close(e) /\ UNCHANGED <<wire, inVars, outVars, ghostVars>>
    <3>1. CASE ClientLeaves
      BY <3>1, EndsAre, Zenon DEF ClientLeaves
    <3>2. CASE ServerLeaves
      BY <3>2, EndsAre, Zenon DEF ServerLeaves
    <3>3. CASE Alarm
      BY <3>3, EndsAre, Zenon DEF Alarm
    <3>4. QED
      BY <1>3, <3>1, <3>2, <3>3
  <2>2. QED
    BY <2>1, BrokenCloses
<1>4. CASE smapc_query \/ Garbage \/ PrintReply \/ Serve
  BY <1>4, BrokenPrograms
<1>5. CASE RecvFails
  BY <1>5, BrokenFails
<1>6. CASE \E e \in Ends : WriteFails(e)
  BY <1>6, Breaks
<1>7. QED
  BY <1>1, <1>2, <1>3, <1>4, <1>5, <1>6, EndsAre DEF Next, ClientStep, ServerStep

(* The invariant holds of every exchange between smapc and smap_loop: what *)
(* is on its way, and where it is, until a write fails; and that neither   *)
(* end takes another line after that.                                      *)
THEOREM ExchangeInvariant == Spec => [](IInv \/ Broken)
<1> DEFINE I == IInv \/ Broken
<1>1. Init => I
  BY Starts
<1>2. I /\ [Next]_vars => I'
  BY Steps, BrokenSteps
<1> HIDE DEF I
<1>3. Spec => []I
  BY <1>1, <1>2, PTL DEF Spec
<1>4. QED
  BY <1>3 DEF I

(* For every set of bytes, texts and malformed messages and all sizes of   *)
(* the buffers: smap_loop hears the queries of smapc, whole, in order and  *)
(* none twice (read_payload_length, _sockmap_input_stream_read and         *)
(* smap_stream_getline after _sockmap_output_stream_write).                *)
THEOREM QueriesAreIntact == Spec => []QueriesIntact
<1>1. ASSUME IInv \/ Broken PROVE QueriesIntact
  <2>1. heard \in Seq(Text) /\ asked \in Seq(Queries) /\ Initial(heard, asked)
    BY <1>1 DEF IInv, Broken, TypeOK, History
  <2>2. QED
    BY <2>1, InitialIsPrefix DEF QueriesIntact
<1>2. QED
  BY <1>1, ExchangeInvariant, PTL

(* The same of the replies that smapc prints.                              *)
THEOREM RepliesAreIntact == Spec => []RepliesIntact
<1>1. ASSUME IInv \/ Broken PROVE RepliesIntact
  <2>1. got \in Seq(Text) /\ answers \in Seq(Replies) /\ Initial(got, answers)
    BY <1>1 DEF IInv, Broken, TypeOK, History
  <2>2. QED
    BY <2>1, InitialIsPrefix DEF RepliesIntact
<1>2. QED
  BY <1>1, ExchangeInvariant, PTL

(* When smapc may ask again and the connection is up, every query has had  *)
(* its reply and no byte is left in a buffer of src/lib/stream.c or on the *)
(* wire.                                                                   *)
THEOREM EndsStayInStep == Spec => []InStep
<1>1. ASSUME IInv PROVE InStep
  <2> SUFFICES ASSUME pc["client"] = "idle", err \cup eof = {}, open = Ends
               PROVE  /\ Len(asked) = Len(got) /\ Len(heard) = Len(answers)
                      /\ \A e \in Ends : wire[e] = <<>> /\ ibuf[e] = <<>> /\ obuf[e] = <<>>
    BY DEF InStep
  <2>1. TypeOK /\ Gone /\ History /\ ServerSide /\ ClientSide /\ \A e \in Ends : Output(e)
    BY <1>1 DEF IInv
  <2>2. ~Waiting /\ ~Unsent("client")
    BY DEF Waiting, Unsent
  <2>3. ~Lost
    BY <2>1, EndsAre DEF Lost, Failed, Gone
  <2>4. ~Deaf
    BY <2>2, Zenon DEF Deaf
  <2>5. /\ Quiet("server") /\ ~Unsent("server")
        /\ Len(asked) = Len(heard) + (IF Unsent("client") THEN 1 ELSE 0)
    BY <2>1, <2>2, <2>3, <2>4 DEF ServerSide
  <2>6. ~(Coming("client", Last(answers)) /\ Len(answers) = Len(got) + 1)
    BY <2>1, LastTexts, ComingAt
  <2>7. /\ Quiet("client")
        /\ Len(answers) = Len(got) + (IF Unsent("server") THEN 1 ELSE 0)
    BY <2>1, <2>6 DEF ClientSide
  <2>8. Len(asked) \in Nat /\ Len(heard) \in Nat /\ Len(answers) \in Nat /\ Len(got) \in Nat
    BY <2>1, LenProperties DEF TypeOK
  <2>9. Len(asked) = Len(heard) /\ Len(answers) = Len(got)
    BY <2>2, <2>5, <2>7, <2>8
  <2>10. Len(heard) = Len(answers)
    BY <2>1 DEF History
  <2>11. \A e \in Ends : ~Unsent(e) /\ Quiet(e) /\ pc[e] # "gone"
    BY <2>1, <2>2, <2>5, <2>7, EndsAre DEF Gone
  <2>12. \A e \in Ends : obuf[e] = <<>>
    BY <2>1, <2>11 DEF Output, Unsent
  <2>13. \A e \in Ends : wire[e] = <<>> /\ ibuf[e] = <<>>
    BY <2>11 DEF Quiet, Empty
  <2>14. QED
    BY <2>9, <2>10, <2>12, <2>13
<1>2. ASSUME Broken PROVE InStep
  <2>1. pc["client"] = "idle" => ~Torn("client")
    BY TornAt, Zenon
  <2>2. pc["client"] = "idle" => "client" \in err \cup eof
    BY <1>2, <2>1 DEF Broken, Over, Stopped, Unanswered
  <2>3. QED
    BY <2>2 DEF InStep
<1>3. IInv \/ Broken => InStep
  BY <1>1, <1>2
<1>4. QED
  BY <1>3, ExchangeInvariant, PTL
=============================================================================
