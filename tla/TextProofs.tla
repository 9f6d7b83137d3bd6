----------------------------- MODULE TextProofs -----------------------------
(***************************************************************************)
(* Proofs about two readers of text.  The options of a module or database  *)
(* statement take effect (src/lib/parseopt.c), for every table and every   *)
(* list of arguments that the assumptions of Options admit: facts about    *)
(* texts and prefixes, then that find_opt and smap_parseline read an       *)
(* argument as it is written (Read), then that every step of smap_parseopt *)
(* keeps the invariant OptInv, which gives OptionsTakeEffect when the      *)
(* parser stops.  And smapc is connected to the server it names, for every *)
(* set of servers, every initialization file, command line and input, of   *)
(* any length.                                                             *)
(***************************************************************************)
EXTENDS Options, Smapc, RecursionProofs, FiniteSetTheorems

-----------------------------------------------------------------------------
(* The options of a statement.                                             *)

(* IsPrefix, place by place.                                               *)
LEMMA PrefixIs ==
  ASSUME NEW A, NEW s \in Seq(A), NEW B, NEW u \in Seq(B)
  PROVE  IsPrefix(s, u) <=> Len(s) <= Len(u) /\ \A k \in 1 .. Len(s) : s[k] = u[k]
<1>1. Len(s) \in Nat /\ Len(u) \in Nat
  BY LenProperties
<1>2. SubSeq(s, 1, Len(s)) = [k \in 1 .. Len(s) |-> s[k]]
  BY <1>1
<1>3. Len(s) <= Len(u) => SubSeq(u, 1, Len(s)) = [k \in 1 .. Len(s) |-> u[k]]
  BY <1>1
<1>4. CASE Len(s) <= Len(u)
  <2>1. [k \in 1 .. Len(s) |-> s[k]] = [k \in 1 .. Len(s) |-> u[k]]
          <=> \A k \in 1 .. Len(s) : s[k] = u[k]
    <3>1. ASSUME [k \in 1 .. Len(s) |-> s[k]] = [k \in 1 .. Len(s) |-> u[k]],
                 NEW k \in 1 .. Len(s)
          PROVE  s[k] = u[k]
      <4>1. [j \in 1 .. Len(s) |-> s[j]][k] = [j \in 1 .. Len(s) |-> u[j]][k]
        BY <3>1
      <4>2. QED
        BY <4>1
    <3>2. QED
      BY <3>1
  <2>2. QED
    BY <1>2, <1>3, <1>4, <2>1 DEF IsPrefix
<1>5. QED
  BY <1>4 DEF IsPrefix

(* The argument is name=value.                                             *)
LEMMA WithValue ==
  ASSUME NEW A, NEW s \in Seq(A), NEW B, NEW u \in Seq(B)
  PROVE  IsPrefix(s \o <<"=">>, u) <=> IsPrefix(s, u) /\ Len(u) > Len(s) /\ u[Len(s) + 1] = "="
<1>1. Len(s) \in Nat /\ Len(u) \in Nat
  BY LenProperties
<1> DEFINE C == A \cup {"="}
           v == s \o <<"=">>
<1>2. s \in Seq(C) /\ <<"=">> \in Seq(C)
  OBVIOUS
<1>3. /\ v \in Seq(C) /\ Len(v) = Len(s) + 1 /\ v[Len(s) + 1] = "="
      /\ \A k \in 1 .. Len(s) : v[k] = s[k]
  BY <1>2
<1> HIDE DEF v
<1>4. IsPrefix(v, u) <=> Len(v) <= Len(u) /\ \A k \in 1 .. Len(v) : v[k] = u[k]
  BY <1>3, PrefixIs
<1>5. IsPrefix(s, u) <=> Len(s) <= Len(u) /\ \A k \in 1 .. Len(s) : s[k] = u[k]
  BY PrefixIs
<1>6. 1 .. Len(v) = 1 .. Len(s) \cup {Len(s) + 1}
  BY <1>1, <1>3
<1>7. (\A k \in 1 .. Len(v) : v[k] = u[k])
        <=> u[Len(s) + 1] = "=" /\ \A k \in 1 .. Len(s) : s[k] = u[k]
  BY <1>3, <1>6
<1>8. IsPrefix(v, u) <=> IsPrefix(s, u) /\ Len(u) > Len(s) /\ u[Len(s) + 1] = "="
  BY <1>1, <1>3, <1>4, <1>5, <1>7
<1>9. QED
  BY <1>8 DEF v

(* Two bytes before a text, and the text after them.                       *)
LEMMA TwoBefore ==
  ASSUME NEW C, NEW b \in Seq(C), Len(b) = 2, NEW s \in Seq(C)
  PROVE  /\ b \o s \in Seq(C) /\ Len(b \o s) = Len(s) + 2 /\ IsPrefix(b, b \o s)
         /\ From(b \o s, 3) = s
         /\ IsPrefix(b, s) => s = b \o From(s, 3)
<1>1. Len(s) \in Nat
  BY LenProperties
<1>2. PICK v : v = b \o s
  OBVIOUS
<1>4. /\ v \in Seq(C) /\ Len(v) = Len(s) + 2
      /\ \A k \in 1 .. 2 : v[k] = b[k]
      /\ \A k \in 1 .. Len(s) : v[2 + k] = s[k]
  <2>1. /\ v \in Seq(C) /\ Len(v) = Len(b) + Len(s)
        /\ \A k \in 1 .. Len(b) : v[k] = b[k]
        /\ \A k \in 1 .. Len(s) : v[Len(b) + k] = s[k]
    <3>1. /\ b \o s \in Seq(C) /\ Len(b \o s) = Len(b) + Len(s)
          /\ Len(b) \in Nat /\ Len(s) \in Nat
          /\ \A k \in 1 .. Len(b) : (b \o s)[k] = b[k]
          /\ \A k \in 1 .. Len(s) : (b \o s)[Len(b) + k] = s[k]
      BY Concat
    <3>2. QED
      BY <1>2, <3>1
  <2>2. QED
    BY <1>1, <2>1
<1>5. IsPrefix(b, v)
  <2>1. Len(b) <= Len(v) /\ \A k \in 1 .. Len(b) : b[k] = v[k]
    BY <1>1, <1>4
  <2>2. QED
    BY <1>4, <2>1, PrefixIs
<1>6. From(v, 3) = s
  <2>1. From(v, 3) \in Seq(C) /\ Len(From(v, 3)) = Len(s)
        /\ \A k \in 1 .. Len(s) : From(v, 3)[k] = v[2 + k]
    <3>1. /\ SubSeq(v, 3, Len(v)) \in Seq(C) /\ Len(SubSeq(v, 3, Len(v))) = Len(v) - 3 + 1
          /\ \A k \in 1 .. Len(v) - 3 + 1 : SubSeq(v, 3, Len(v))[k] = v[3 + k - 1]
      BY <1>1, <1>4, PartOf
    <3>2. Len(v) - 3 + 1 = Len(s) /\ \A k \in 1 .. Len(s) : 3 + k - 1 = 2 + k
      BY <1>1, <1>4
    <3>3. QED
      BY <3>1, <3>2 DEF From
  <2>2. QED
    BY <1>1, <1>4, <2>1, SeqEqual
<1>7. ASSUME IsPrefix(b, s) PROVE s = b \o From(s, 3)
  <2>1. Len(s) >= 2 /\ \A k \in 1 .. 2 : b[k] = s[k]
    <3>1. Len(b) <= Len(s) /\ \A k \in 1 .. Len(b) : b[k] = s[k]
      BY <1>7, PrefixIs, SMTT(30)
    <3>2. QED
      BY <1>1, <3>1
  <2>2. PICK w : w = From(s, 3)
    OBVIOUS
  <2>3. w \in Seq(C) /\ Len(w) = Len(s) - 2 /\ \A k \in 1 .. Len(s) - 2 : w[k] = s[2 + k]
    <3>1. /\ SubSeq(s, 3, Len(s)) \in Seq(C) /\ Len(SubSeq(s, 3, Len(s))) = Len(s) - 3 + 1
          /\ \A k \in 1 .. Len(s) - 3 + 1 : SubSeq(s, 3, Len(s))[k] = s[3 + k - 1]
      BY <1>1, <2>1, PartOf
    <3>2. Len(s) - 3 + 1 = Len(s) - 2 /\ \A k \in 1 .. Len(s) - 2 : 3 + k - 1 = 2 + k
      BY <1>1
    <3>3. QED
      BY <2>2, <3>1, <3>2 DEF From
  <2>4. PICK u : u = b \o w
    OBVIOUS
  <2>5. /\ u \in Seq(C) /\ Len(u) = Len(s)
        /\ \A k \in 1 .. 2 : u[k] = b[k]
        /\ \A k \in 1 .. Len(s) - 2 : u[2 + k] = w[k]
    <3>1. /\ u \in Seq(C) /\ Len(u) = Len(b) + Len(w)
          /\ \A k \in 1 .. Len(b) : u[k] = b[k]
          /\ \A k \in 1 .. Len(w) : u[Len(b) + k] = w[k]
      <4>1. /\ b \o w \in Seq(C) /\ Len(b \o w) = Len(b) + Len(w)
            /\ Len(b) \in Nat /\ Len(w) \in Nat
            /\ \A k \in 1 .. Len(b) : (b \o w)[k] = b[k]
            /\ \A k \in 1 .. Len(w) : (b \o w)[Len(b) + k] = w[k]
        <5>1. w \in Seq(C)
          BY <2>3
        <5>2. QED
          BY ONLY <5>1, b \in Seq(C), Concat
      <4>2. QED
        BY <2>4, <4>1
    <3>2. QED
      BY <1>1, <2>3, <3>1
  <2>6. ASSUME NEW k \in 1 .. Len(s) PROVE u[k] = s[k]
    <3>1. CASE k \in 1 .. 2
      BY <2>1, <2>5, <3>1
    <3>2. CASE k > 2
      <4>1. k - 2 \in 1 .. Len(s) - 2 /\ 2 + (k - 2) = k
        BY <1>1, <3>2
      <4>2. u[2 + (k - 2)] = w[k - 2] /\ w[k - 2] = s[2 + (k - 2)]
        BY <2>3, <2>5, <4>1
      <4>3. QED
        BY <4>1, <4>2
    <3>3. QED
      BY <1>1, <3>1, <3>2
  <2>7. u = s
    BY <2>5, <2>6, SeqEqual
  <2>8. QED
    BY <2>2, <2>4, <2>7
<1>8. QED
  BY <1>2, <1>4, <1>5, <1>6, <1>7

(* The letters before the name of a flag that is turned off.               *)
No == <<"n", "o">>

(* no before a name, and the name after it.                                *)
LEMMA WithNo ==
  ASSUME NEW A, NEW s \in Seq(A)
  PROVE  /\ Len(No \o s) = Len(s) + 2 /\ IsPrefix(No, No \o s) /\ From(No \o s, 3) = s
         /\ IsPrefix(No, s) => s = No \o From(s, 3)
<1>1. PICK C : C = A \cup {"n", "o"}
  OBVIOUS
<1>2. No \in Seq(C) /\ Len(No) = 2
  BY <1>1 DEF No
<1>3. s \in Seq(C)
  BY <1>1
<1>4. QED
  BY <1>2, <1>3, TwoBefore

-----------------------------------------------------------------------------
(* The words of the argument lists.                                        *)
IsArg(t, a) == a \in Seq(Range(a)) /\ \A n \in DOMAIN t : ~Overlong(t[n], a)

(* What the assumptions say of an entry of an option table.                *)
LEMMA NameIs ==
  ASSUME NEW t \in Tables, NEW n \in DOMAIN t
  PROVE  /\ t[n].name \in Seq(Range(t[n].name)) /\ Len(t[n].name) \in Nat /\ Len(t[n].name) > 0
         /\ t[n].type \in Valued \cup FlagTypes \cup {"null"}
         /\ \A k \in 1 .. Len(t[n].name) : t[n].name[k] # "="
         /\ ~IsPrefix(No, t[n].name)
<1>1. /\ t[n].name \in Seq(Range(t[n].name)) /\ t[n].name # <<>>
      /\ t[n].type \in Valued \cup FlagTypes \cup {"null"}
      /\ ~Contains(t[n].name, "=") /\ ~IsPrefix(No, t[n].name)
  BY TablesAssumption, Zenon DEF No
<1>2. PICK s : s = t[n].name
  OBVIOUS
<1>3. Len(s) \in Nat /\ Len(s) > 0
  <2>1. s \in Seq(Range(s)) /\ s # <<>>
    BY <1>1, <1>2
  <2>2. QED
    BY ONLY <2>1, EmptySeq, LenProperties
<1>4. QED
  BY <1>1, <1>2, <1>3 DEF Contains

(* What is said of an argument: it is a text, and if find_opt takes it for *)
(* a flag it is the name of the flag.                                      *)
LEMMA ArgIs ==
  ASSUME NEW t, NEW a, IsArg(t, a)
  PROVE  /\ a \in Seq(Range(a)) /\ Len(a) \in Nat
         /\ \A n \in DOMAIN t :
              t[n].type \notin Valued /\ Fits(t[n], Word(a), Negated(a)) =>
                Word(a) = t[n].name \/ HasValue(t[n], Word(a))
<1>1. a \in Seq(Range(a)) /\ \A n \in DOMAIN t : ~Overlong(t[n], a)
  BY DEF IsArg
<1>2. QED
  BY <1>1, LenProperties DEF Overlong

(* An option with a value does not begin with no.                          *)
LEMMA NotBoth ==
  ASSUME NEW t \in Tables, NEW n \in DOMAIN t, NEW a, IsArg(t, a),
         IsPrefix(No, a), IsPrefix(t[n].name \o <<"=">>, a)
  PROVE  FALSE
<1>1. PICK s : s = t[n].name
  OBVIOUS
<1>2. s \in Seq(Range(s)) /\ Len(s) \in Nat /\ Len(s) > 0 /\ ~IsPrefix(No, s)
  BY <1>1, NameIs
<1>3. a \in Seq(Range(a)) /\ Len(a) \in Nat
  BY ArgIs
<1>4. Len(No) = 2 /\ No \in Seq({"n", "o"}) /\ No[2] # "="
  BY DEF No
<1>5. Len(No) <= Len(a) /\ \A k \in 1 .. Len(No) : No[k] = a[k]
  BY <1>3, <1>4, PrefixIs, ZenonT(30)
<1>6. IsPrefix(s, a) /\ Len(a) > Len(s) /\ a[Len(s) + 1] = "="
  BY <1>1, <1>2, <1>3, WithValue
<1>7. \A k \in 1 .. Len(s) : s[k] = a[k]
  BY <1>2, <1>3, <1>6, PrefixIs
<1>8. a[2] # "="
  <2>1. 2 \in 1 .. Len(No)
    BY <1>4
  <2>2. QED
    BY <1>4, <1>5, <2>1
<1>9. Len(s) # 1
  <2>1. Len(s) = 1 => Len(s) + 1 = 2
    BY <1>2
  <2>2. QED
    BY <1>6, <1>8, <2>1, Zenon
<1>10. Len(No) <= Len(s) /\ \A k \in 1 .. Len(No) : k \in 1 .. Len(s)
  <2>1. Len(No) = 2
    BY <1>4
  <2>2. QED
    BY <1>2, <1>9, <2>1
<1>11. \A k \in 1 .. Len(No) : No[k] = s[k]
  BY <1>5, <1>7, <1>10
<1>12. IsPrefix(No, s)
  BY <1>2, <1>4, <1>10, <1>11, PrefixIs
<1>13. QED
  BY <1>2, <1>12

(* find_opt takes an argument for the option it gives.                     *)
LEMMA FitsIs ==
  ASSUME NEW t \in Tables, NEW n \in DOMAIN t, NEW a, IsArg(t, a)
  PROVE  Fits(t[n], Word(a), Negated(a)) <=> Gives(t[n], a)
<1>1. PICK s : s = t[n].name
  OBVIOUS
<1>2. s \in Seq(Range(s)) /\ Len(s) \in Nat /\ Len(s) > 0 /\ ~IsPrefix(No, s)
  BY <1>1, NameIs
<1>3. a \in Seq(Range(a)) /\ Len(a) \in Nat
  BY ArgIs
<1>4. t[n].type \notin Valued /\ Fits(t[n], Word(a), Negated(a)) =>
        Word(a) = s \/ HasValue(t[n], Word(a))
  BY <1>1, ArgIs
<1>5. t[n].type \in Valued \/ t[n].type \in FlagTypes \/ t[n].type = "null"
  BY NameIs
<1>6. /\ ~(t[n].type \in Valued /\ t[n].type \in FlagTypes)
      /\ t[n].type = "null" => t[n].type \notin Valued \cup FlagTypes
      /\ t[n].type = "bool" => t[n].type \in FlagTypes
  BY DEF Valued, FlagTypes
<1>7. IsPrefix(s, s) /\ ~(Len(s) > Len(s))
  BY <1>2, PrefixIs
<1>8. /\ Len(No \o s) = Len(s) + 2 /\ IsPrefix(No, No \o s) /\ From(No \o s, 3) = s
  BY <1>2, WithNo
<1>9. IsPrefix(No, a) => a = No \o From(a, 3)
  BY <1>3, WithNo
<1>10. IsPrefix(s \o <<"=">>, a) <=> IsPrefix(s, a) /\ HasValue(t[n], a)
  <2>1. IsPrefix(s \o <<"=">>, a) <=> IsPrefix(s, a) /\ Len(a) > Len(s) /\ a[Len(s) + 1] = "="
    BY <1>2, <1>3, WithValue
  <2>2. QED
    BY <1>1, <2>1 DEF HasValue
<1>11. /\ t[n].type \in Valued => (Gives(t[n], a) <=> IsPrefix(s \o <<"=">>, a))
       /\ t[n].type = "null" => (Gives(t[n], a) <=> a = s \/ IsPrefix(s \o <<"=">>, a))
       /\ t[n].type \in FlagTypes =>
            (Gives(t[n], a) <=> a = s \/ (t[n].type = "bool" /\ a = No \o s))
  BY <1>1, <1>6 DEF Gives, No
<1>12. CASE Negated(a)
  <2>1. IsPrefix(No, a) /\ Word(a) = From(a, 3)
    BY <1>12 DEF Negated, Word, No
  <2>2. ASSUME Fits(t[n], Word(a), Negated(a)) PROVE Gives(t[n], a)
    <3>1. t[n].type = "bool" /\ ~HasValue(t[n], Word(a))
      BY <1>6, <1>12, <2>2 DEF Fits
    <3>2. From(a, 3) = s
      BY <1>4, <1>6, <2>1, <2>2, <3>1
    <3>3. a = No \o s
      BY <1>9, <2>1, <3>2
    <3>4. QED
      BY <1>6, <1>11, <3>1, <3>3
  <2>3. ASSUME Gives(t[n], a) PROVE Fits(t[n], Word(a), Negated(a))
    <3>1. ~IsPrefix(s \o <<"=">>, a)
      BY <1>1, <2>1, NotBoth
    <3>2. a # s
      BY <1>2, <2>1
    <3>3. t[n].type = "bool" /\ a = No \o s
      BY <1>5, <1>11, <2>3, <3>1, <3>2
    <3>4. Word(a) = s
      BY <1>8, <2>1, <3>3
    <3>5. ~HasValue(t[n], Word(a))
      BY <1>1, <1>7, <3>4 DEF HasValue
    <3>6. QED
      BY <1>1, <1>6, <1>7, <3>3, <3>4, <3>5 DEF Fits
  <2>4. QED
    BY <2>2, <2>3
<1>13. CASE ~Negated(a)
  <2>1. Word(a) = a /\ Negated(a) = FALSE
    BY <1>13 DEF Word, Negated
  <2>2. CASE t[n].type \in Valued
    <3>1. Fits(t[n], a, FALSE) <=> IsPrefix(s, a) /\ HasValue(t[n], a)
      BY <1>1, <1>6, <2>2 DEF Fits
    <3>2. QED
      BY <1>10, <1>11, <2>1, <2>2, <3>1
  <2>3. CASE t[n].type = "null"
    <3>1. Fits(t[n], a, FALSE) <=> IsPrefix(s, a)
      BY <1>1, <1>6, <2>3 DEF Fits
    <3>2. QED
      BY <1>4, <1>6, <1>7, <1>10, <1>11, <2>1, <2>3, <3>1
  <2>4. CASE t[n].type \in FlagTypes
    <3>1. ASSUME Fits(t[n], Word(a), Negated(a)) PROVE Gives(t[n], a)
      <4>1. ~HasValue(t[n], Word(a))
        BY <2>4, <3>1 DEF Fits
      <4>2. QED
        BY <1>4, <1>6, <1>11, <2>1, <2>4, <3>1, <4>1
    <3>2. ASSUME Gives(t[n], a) PROVE Fits(t[n], Word(a), Negated(a))
      <4>1. ~(a = No \o s)
        <5>1. ASSUME a = No \o s PROVE FALSE
          <6>1. Len(a) > 2 /\ IsPrefix(No, a)
            BY <1>2, <1>8, <5>1
          <6>2. QED
            BY <1>13, <6>1 DEF Negated, No
        <5>2. QED
          BY <5>1
      <4>2. a = s
        BY <1>11, <2>4, <3>2, <4>1
      <4>3. ~HasValue(t[n], a)
        BY <1>1, <1>7, <4>2 DEF HasValue
      <4>4. QED
        BY <1>1, <1>6, <1>7, <2>1, <2>4, <4>2, <4>3 DEF Fits
    <3>3. QED
      BY <3>1, <3>2
  <2>5. QED
    BY <1>5, <2>2, <2>3, <2>4
<1>14. QED
  BY <1>12, <1>13

(* An argument gives at most one option.                                   *)
LEMMA OnlyOne ==
  ASSUME NEW t \in Tables, NEW n \in DOMAIN t, NEW m \in DOMAIN t, NEW a, IsArg(t, a),
         Gives(t[n], a), Gives(t[m], a)
  PROVE  n = m
<1>1. \A j \in DOMAIN t : /\ t[j].name \in Seq(Range(t[j].name)) /\ Len(t[j].name) \in Nat
                          /\ \A k \in 1 .. Len(t[j].name) : t[j].name[k] # "="
                          /\ ~IsPrefix(No, t[j].name)
  BY NameIs
<1>2. a \in Seq(Range(a)) /\ Len(a) \in Nat
  BY ArgIs
<1>3. \A j \in DOMAIN t :
        IsPrefix(t[j].name \o <<"=">>, a) =>
          /\ ~IsPrefix(No, a) /\ Len(a) > Len(t[j].name) /\ a[Len(t[j].name) + 1] = "="
          /\ \A k \in 1 .. Len(t[j].name) : t[j].name[k] = a[k]
  <2>1. SUFFICES ASSUME NEW j \in DOMAIN t, IsPrefix(t[j].name \o <<"=">>, a)
                 PROVE  /\ ~IsPrefix(No, a) /\ Len(a) > Len(t[j].name)
                        /\ a[Len(t[j].name) + 1] = "="
                        /\ \A k \in 1 .. Len(t[j].name) : t[j].name[k] = a[k]
    BY Zenon
  <2>2. ~IsPrefix(No, a)
    BY <2>1, NotBoth
  <2>3. PICK s : s = t[j].name
    OBVIOUS
  <2>4. IsPrefix(s, a) /\ Len(a) > Len(s) /\ a[Len(s) + 1] = "="
    BY <1>1, <1>2, <2>1, <2>3, WithValue
  <2>5. \A k \in 1 .. Len(s) : s[k] = a[k]
    BY <1>1, <1>2, <2>3, <2>4, PrefixIs
  <2>6. QED
    BY <2>2, <2>3, <2>4, <2>5
<1>4. t[n].name = t[m].name => n = m
  BY TablesAssumption
<1>5. \A j \in DOMAIN t : /\ IsPrefix(No, No \o t[j].name)
                          /\ From(No \o t[j].name, 3) = t[j].name
  BY <1>1, WithNo
<1>6. \A j \in DOMAIN t : Gives(t[j], a) =>
         \/ IsPrefix(t[j].name \o <<"=">>, a)
         \/ a = t[j].name
         \/ a = No \o t[j].name
  BY DEF Gives, No
<1>7. CASE IsPrefix(t[n].name \o <<"=">>, a) /\ IsPrefix(t[m].name \o <<"=">>, a)
  <2>1. PICK s : s = t[n].name
    OBVIOUS
  <2>2. PICK u : u = t[m].name
    OBVIOUS
  <2>3. /\ Len(a) > Len(s) /\ a[Len(s) + 1] = "=" /\ \A k \in 1 .. Len(s) : s[k] = a[k]
        /\ Len(a) > Len(u) /\ a[Len(u) + 1] = "=" /\ \A k \in 1 .. Len(u) : u[k] = a[k]
    BY <1>3, <1>7, <2>1, <2>2
  <2>4. /\ Len(s) \in Nat /\ Len(u) \in Nat /\ s \in Seq(Range(s)) /\ u \in Seq(Range(u))
        /\ \A k \in 1 .. Len(s) : s[k] # "="
        /\ \A k \in 1 .. Len(u) : u[k] # "="
    BY <1>1, <2>1, <2>2
  <2>5. Len(s) = Len(u)
    <3>1. ASSUME Len(s) < Len(u) PROVE FALSE
      <4>1. Len(s) + 1 \in 1 .. Len(u)
        BY <2>4, <3>1
      <4>2. QED
        BY <2>3, <2>4, <4>1
    <3>2. ASSUME Len(u) < Len(s) PROVE FALSE
      <4>1. Len(u) + 1 \in 1 .. Len(s)
        BY <2>4, <3>2
      <4>2. QED
        BY <2>3, <2>4, <4>1
    <3>3. QED
      BY <2>4, <3>1, <3>2
  <2>6. s = u
    <3>1. \A k \in 1 .. Len(s) : s[k] = u[k]
      BY <2>3, <2>5
    <3>2. PICK S : S = Range(s) \cup Range(u)
      OBVIOUS
    <3>3. s \in Seq(S) /\ u \in Seq(S)
      BY <2>4, <3>2
    <3>4. QED
      BY <2>5, <3>1, <3>3, SeqEqual
  <2>7. QED
    BY <1>4, <2>1, <2>2, <2>6
<1>8. ASSUME NEW j \in DOMAIN t, NEW h \in DOMAIN t,
             IsPrefix(t[j].name \o <<"=">>, a), ~IsPrefix(t[h].name \o <<"=">>, a),
             Gives(t[h], a)
      PROVE  FALSE
  <2>1. CASE a = t[h].name
    <3>1. Len(t[j].name) + 1 \in 1 .. Len(a) /\ a[Len(t[j].name) + 1] = "="
      BY <1>1, <1>2, <1>3, <1>8
    <3>2. QED
      BY <1>1, <1>8, <2>1, <3>1
  <2>2. CASE a = No \o t[h].name
    BY <1>3, <1>5, <1>8, <2>2
  <2>3. QED
    BY <1>6, <1>8, <2>1, <2>2
<1>9. CASE a = t[n].name /\ a = t[m].name
  BY <1>4, <1>9
<1>10. CASE a = No \o t[n].name /\ a = No \o t[m].name
  BY <1>4, <1>5, <1>10
<1>11. ASSUME NEW j \in DOMAIN t, NEW h \in DOMAIN t, a = t[j].name, a = No \o t[h].name
       PROVE  FALSE
  BY <1>1, <1>5, <1>11
<1>12. QED
  BY <1>6, <1>7, <1>8, <1>9, <1>10, <1>11

(* What smap_parseline makes of an argument is what it says.               *)
LEMMA ValueRead ==
  ASSUME NEW t \in Tables, NEW n \in DOMAIN t, NEW a, IsArg(t, a), Gives(t[n], a),
         t[n].type # "null"
  PROVE  LET r == smap_parseline(t[n], ValueOf(t[n], a))
         IN  r.ok = Valid(t[n], a) /\ r.val = ValueGiven(t[n], a)
<1>1. PICK o : o = t[n]
  OBVIOUS
<1>2. PICK v : v = ValueOf(o, a)
  OBVIOUS
<1>3. SUFFICES smap_parseline(o, v).ok = Valid(o, a) /\ smap_parseline(o, v).val = ValueGiven(o, a)
  BY <1>1, <1>2
<1>4. CASE o.type \in Valued
  <2>1. ~Negated(a) /\ Word(a) = a
    <3>1. IsPrefix(t[n].name \o <<"=">>, a)
      BY <1>1, <1>4 DEF Gives, Valued
    <3>2. ~IsPrefix(No, a)
      BY <3>1, NotBoth
    <3>3. QED
      BY <3>2 DEF Negated, Word, No
  <2>2. PICK x : x = ValueText(o, a)
    OBVIOUS
  <2>3. v = <<x>>
    BY <1>2, <1>4, <2>1, <2>2 DEF ValueOf, Valued
  <2>4. v[1] = x
    BY <2>3
  <2>5. CASE o.type \in {"string", "const_string"}
    <3>1. smap_parseline(o, v) = [ok |-> TRUE, val |-> x]
      BY <2>4, <2>5 DEF smap_parseline
    <3>2. Valid(o, a) = TRUE /\ ValueGiven(o, a) = x
      BY <2>2, <2>5 DEF Valid, ValueGiven
    <3>3. QED
      BY <3>1, <3>2
  <2>6. CASE o.type = "long"
    <3>1. smap_parseline(o, v) = [ok |-> strtol(x).rest = <<>>, val |-> strtol(x).val]
      BY <2>4, <2>6 DEF smap_parseline
    <3>2. Valid(o, a) = (strtol(x).rest = <<>>) /\ ValueGiven(o, a) = strtol(x).val
      BY <2>2, <2>6 DEF Valid, ValueGiven
    <3>3. QED
      BY <3>1, <3>2
  <2>7. CASE o.type = "enum"
    <3>1. smap_parseline(o, v) = [ok |-> find_value(o, x) # 0, val |-> find_value(o, x)]
      BY <2>4, <2>7 DEF smap_parseline
    <3>2. Valid(o, a) = (find_value(o, x) # 0) /\ ValueGiven(o, a) = find_value(o, x)
      BY <2>2, <2>7 DEF Valid, ValueGiven
    <3>3. QED
      BY <3>1, <3>2
  <2>8. QED
    BY <1>4, <2>5, <2>6, <2>7 DEF Valued
<1>5. CASE o.type \in FlagTypes
  <2>0. o.type \notin Valued /\ Valid(o, a) = TRUE
    BY <1>5 DEF Valued, FlagTypes, Valid
  <2>1. a = o.name \/ (o.type = "bool" /\ a = No \o o.name)
    BY <1>1, <1>5, <2>0 DEF Gives, No, FlagTypes
  <2>2. ASSUME a = o.name PROVE ~Negated(a)
    BY <1>1, <2>2, NameIs DEF Negated, No
  <2>3. ASSUME a # o.name PROVE Negated(a)
    <3>1. PICK s : s = o.name
      OBVIOUS
    <3>2. s \in Seq(Range(s)) /\ Len(s) \in Nat /\ Len(s) > 0
      BY <1>1, <3>1, NameIs
    <3>3. a = No \o s
      BY <2>1, <2>3, <3>1
    <3>4. Len(a) = Len(s) + 2 /\ IsPrefix(No, a)
      BY <3>2, <3>3, WithNo
    <3>5. Len(a) > 2
      BY <3>2, <3>4
    <3>6. QED
      BY <3>4, <3>5 DEF Negated, No
  <2>4. v = IF Negated(a) THEN <<>> ELSE <<a>>
    BY <1>1, <1>2, <2>0 DEF ValueOf
  <2>5. (v # <<>>) = (a = o.name)
    BY <2>2, <2>3, <2>4
  <2>6. CASE o.type = "bool"
    <3>1. smap_parseline(o, v) = [ok |-> TRUE, val |-> v # <<>>]
      BY <2>6 DEF smap_parseline
    <3>2. ValueGiven(o, a) = (a = o.name)
      BY <2>6 DEF ValueGiven
    <3>3. QED
      BY <2>0, <2>5, <3>1, <3>2
  <2>7. CASE o.type = "bitmask"
    <3>1. smap_parseline(o, v) = [ok |-> TRUE, val |-> TRUE]
      BY <2>7 DEF smap_parseline
    <3>2. ValueGiven(o, a) = (a = o.name) /\ (a = o.name) = TRUE
      BY <2>1, <2>7 DEF ValueGiven
    <3>3. smap_parseline(o, v).ok = TRUE /\ smap_parseline(o, v).val = TRUE
      BY <3>1
    <3>4. QED
      BY <2>0, <3>2, <3>3, Zenon
  <2>8. CASE o.type = "bitmask_rev"
    <3>1. smap_parseline(o, v) = [ok |-> TRUE, val |-> FALSE] /\ ValueGiven(o, a) = FALSE
      BY <2>8 DEF smap_parseline, ValueGiven
    <3>2. smap_parseline(o, v).ok = TRUE /\ smap_parseline(o, v).val = FALSE
      BY <3>1
    <3>3. QED
      BY <2>0, <3>1, <3>2, Zenon
  <2>9. CASE o.type = "const"
    <3>1. smap_parseline(o, v) = [ok |-> TRUE, val |-> o.v] /\ ValueGiven(o, a) = o.v
      BY <2>9 DEF smap_parseline, ValueGiven
    <3>2. QED
      BY <2>0, <3>1
  <2>10. QED
    BY <1>5, <2>6, <2>7, <2>8, <2>9 DEF FlagTypes
<1>6. QED
  BY <1>1, <1>4, <1>5, NameIs

(* What find_opt and smap_parseline make of an argument is what it says.   *)
LEMMA Read ==
  ASSUME NEW t \in Tables, NEW a, IsArg(t, a)
  PROVE  /\ (\A n \in DOMAIN t : ~Gives(t[n], a)) <=> find_opt(t, a).n = 0
         /\ \A n \in DOMAIN t : Gives(t[n], a) =>
              /\ find_opt(t, a).n = n
              /\ smap_parseline(t[n], find_opt(t, a).value).ok = Valid(t[n], a)
              /\ t[n].type # "null" =>
                   smap_parseline(t[n], find_opt(t, a).value).val = ValueGiven(t[n], a)
<1>1. \A n \in DOMAIN t : Fits(t[n], Word(a), Negated(a)) <=> Gives(t[n], a)
  BY FitsIs
<1> DEFINE fit == {n \in DOMAIN t : Fits(t[n], Word(a), Negated(a))}
<1>2. DOMAIN t \subseteq Nat \ {0}
  <2>1. t \in Seq(Range(t))
    BY TablesAssumption
  <2>2. QED
    BY ONLY <2>1, LenProperties
<1>3. ASSUME fit = {}
      PROVE  find_opt(t, a).n = 0 /\ \A n \in DOMAIN t : ~Gives(t[n], a)
  <2>1. find_opt(t, a) = [n |-> 0, value |-> <<>>]
    BY <1>3 DEF find_opt
  <2>2. QED
    BY <1>1, <1>3, <2>1
<1>4. ASSUME NEW n \in DOMAIN t, Gives(t[n], a)
      PROVE  /\ find_opt(t, a).n = n
             /\ smap_parseline(t[n], find_opt(t, a).value).ok = Valid(t[n], a)
             /\ t[n].type # "null" =>
                  smap_parseline(t[n], find_opt(t, a).value).val = ValueGiven(t[n], a)
  <2>1. fit = {n}
    BY <1>1, <1>4, OnlyOne
  <2>2. (CHOOSE k \in fit : \A j \in fit : k <= j) = n
    BY <1>2, <2>1
  <2>3. fit # {}
    BY <2>1
  <2>4. find_opt(t, a).n = n /\ find_opt(t, a).value = ValueOf(t[n], a)
    <3> DEFINE least == CHOOSE k \in fit : \A j \in fit : k <= j
    <3>1. find_opt(t, a) = [n |-> least, value |-> ValueOf(t[least], a)]
      BY <2>3 DEF find_opt
    <3>2. least = n
      BY <2>2
    <3> HIDE DEF least
    <3>3. find_opt(t, a) = [n |-> n, value |-> ValueOf(t[n], a)]
      BY <3>1, <3>2
    <3>4. QED
      BY <3>3
  <2>5. CASE t[n].type = "null"
    <3>1. smap_parseline(t[n], find_opt(t, a).value) = [ok |-> TRUE, val |-> <<>>]
          /\ Valid(t[n], a) = TRUE
      BY <2>5 DEF smap_parseline, Valid
    <3>2. QED
      BY <2>4, <2>5, <3>1
  <2>6. CASE t[n].type # "null"
    BY <1>4, <2>4, <2>6, ValueRead, Zenon
  <2>7. QED
    BY <2>5, <2>6
<1>5. ASSUME fit # {} PROVE find_opt(t, a).n # 0 /\ \E n \in DOMAIN t : Gives(t[n], a)
  BY <1>1, <1>2, <1>4, <1>5
<1>6. QED
  BY <1>3, <1>4, <1>5

-----------------------------------------------------------------------------
(* The k-th argument, where it stands now, sets variable c or is wrong.    *)
SetBy(n, c, k) == Sets(opt[n], c, argv[k])
SetAt(c, k) == \E n \in DOMAIN opt : SetBy(n, c, k)
Wrong(k) == \E n \in DOMAIN opt : Gives(opt[n], argv[k]) /\ ~Valid(opt[n], argv[k])

(* The arguments have changed places, but not the options among them.      *)
Ordering(p) ==
  /\ p \in [1 .. Len(argv) -> 1 .. Len(argv)]
  /\ \A k, l \in 1 .. Len(argv) : p[k] = p[l] => k = l
  /\ \A l \in 1 .. Len(argv) : \E k \in 1 .. Len(argv) : p[k] = l
  /\ \A k \in 1 .. Len(argv) : argv[k] = given[p[k]]
  /\ \A k, l \in 1 .. Len(argv) :
       k < l /\ ~Operand(argv[k]) /\ ~Operand(argv[l]) => p[k] < p[l]

(* What the arguments before the one in hand have set, and reported.       *)
SetSoFar ==
  \A c \in DOMAIN data :
    \/ data[c] = <<>> /\ \A k \in 1 .. i - 1 : ~SetAt(c, k)
    \/ \E k \in 1 .. i - 1, n \in DOMAIN opt :
         /\ SetBy(n, c, k) /\ data[c] = <<ValueGiven(opt[n], argv[k])>>
         /\ \A j \in 1 .. i - 1 : SetAt(c, j) => j <= k
WrongSoFar ==
  rc # 0 <=> \E k \in 1 .. i - 1 : Wrong(k) \/ (~permute /\ Operand(argv[k]))

(* The types of the parser's state.                                        *)
OptTypes ==
  /\ opt \in Tables /\ given \in ArgLists /\ permute \in BOOLEAN /\ Ordinary
  /\ argv \in Seq(Range(given)) /\ Len(argv) = Len(given)
  /\ i \in 1 .. Len(argv) + 1
  /\ DOMAIN data = {opt[n].data : n \in DOMAIN opt}

(* argv is the list as written but for its order, in which the options     *)
(* have kept theirs; data and rc say what the arguments before i have set  *)
(* and reported; when the parser stops only operands are left.             *)
OptInv ==
  /\ OptTypes
  /\ \E p : Ordering(p)
  /\ permute => \A k \in 1 .. i - 1 : ~Operand(argv[k])
  /\ SetSoFar /\ WrongSoFar
  /\ optpc = "done" => /\ \A k \in i .. Len(argv) : Operand(argv[k])
                       /\ ~permute => i = Len(argv) + 1

(* argv has as many places as the list as written, and the same words.     *)
LEMMA ArgvIs ==
  ASSUME OptTypes
  PROVE  /\ Len(argv) \in Nat /\ given \in Seq(Range(given)) /\ DOMAIN given = 1 .. Len(argv)
         /\ \A k \in 1 .. Len(argv) : IsArg(opt, argv[k]) /\ argv[k] \in Range(given)
<1>1. /\ given \in Seq(Range(given))
      /\ \A k \in DOMAIN given : given[k] \in Seq(Range(given[k]))
  BY ArgumentsAssumption DEF OptTypes
<1>2. Len(argv) \in Nat /\ DOMAIN given = 1 .. Len(argv)
  BY <1>1, LenProperties DEF OptTypes
<1>3. ASSUME NEW k \in 1 .. Len(argv) PROVE IsArg(opt, argv[k]) /\ argv[k] \in Range(given)
  <2>1. argv[k] \in Range(given)
    BY ElementOfSeq DEF OptTypes
  <2>2. PICK j \in DOMAIN given : argv[k] = given[j]
    BY <2>1 DEF Range
  <2>3. \A n \in DOMAIN opt : ~Overlong(opt[n], given[j])
    BY Zenon DEF OptTypes, Ordinary
  <2>4. QED
    BY <1>1, <2>1, <2>2, <2>3 DEF IsArg
<1>4. QED
  BY <1>1, <1>2, <1>3

(* smap_parseopt starts at the first argument with nothing set.            *)
LEMMA OptionsStarts ==
  ASSUME OptionsInit, Ordinary
  PROVE  OptInv
<1>1. given \in ArgLists /\ given \in Seq(Range(given)) /\ argv = given /\ i = 1
  BY ArgumentsAssumption DEF OptionsInit, OptionsStart
<1>2. Len(argv) \in Nat
  BY <1>1, LenProperties
<1>3. OptTypes
  BY <1>1, <1>2 DEF OptionsInit, OptionsStart, OptTypes
<1>4. 1 .. i - 1 = {}
  BY <1>1
<1>5. SetSoFar /\ WrongSoFar
  BY <1>4 DEF SetSoFar, WrongSoFar, OptionsInit, OptionsStart
<1>6. Ordering([k \in 1 .. Len(argv) |-> k])
  BY <1>1, <1>2 DEF Ordering
<1>7. \E p : Ordering(p)
  BY <1>6
<1>8. optpc # "done"
  BY DEF OptionsInit, OptionsStart
<1>9. QED
  BY <1>3, <1>4, <1>5, <1>7, <1>8 DEF OptInv

(* An option is parsed.                                                    *)
LEMMA ParsesOption ==
  ASSUME OptInv, ParseOption
  PROVE  OptInv'
<1>1. /\ OptTypes /\ SetSoFar /\ WrongSoFar /\ optpc = "parse" /\ i <= Len(argv)
      /\ i' = i + 1 /\ UNCHANGED <<opt, argv, given, permute, optpc>>
  BY DEF OptInv, ParseOption
<1>2. Len(argv) \in Nat /\ i \in 1 .. Len(argv) /\ i' - 1 = i
  BY <1>1, ArgvIs DEF OptTypes
<1>3. PICK a : a = argv[i]
  OBVIOUS
<1>4. IsArg(opt, a) /\ opt \in Tables
  BY <1>1, <1>2, <1>3, ArgvIs DEF OptTypes
<1>5. find_opt(opt, a).n # 0
  BY <1>3 DEF ParseOption
<1>6. PICK n \in DOMAIN opt : Gives(opt[n], a)
  BY <1>4, <1>5, Read
<1>7. /\ find_opt(opt, a).n = n
      /\ smap_parseline(opt[n], find_opt(opt, a).value).ok = Valid(opt[n], a)
      /\ opt[n].type # "null" =>
           smap_parseline(opt[n], find_opt(opt, a).value).val = ValueGiven(opt[n], a)
  BY <1>4, <1>6, Read
<1> DEFINE stored == Valid(opt[n], a) /\ opt[n].type # "null"
<1>8. /\ ~Valid(opt[n], a) => rc' = 1
      /\ Valid(opt[n], a) => rc' = rc
      /\ data' = IF stored THEN [data EXCEPT ![opt[n].data] = <<ValueGiven(opt[n], a)>>]
                ELSE data
  <2>1. PICK f : f = find_opt(opt, a)
    OBVIOUS
  <2>2. PICK x : x = smap_parseline(opt[f.n], f.value)
    OBVIOUS
  <2>3. Store(opt[f.n], x)
    BY <1>3, <2>1, <2>2 DEF ParseOption
  <2>4. /\ x.ok = Valid(opt[n], a)
        /\ opt[n].type # "null" => x.val = ValueGiven(opt[n], a)
    BY <1>7, <2>1, <2>2, Zenon
  <2>5. f.n = n
    BY <1>7, <2>1
  <2>6. Store(opt[n], x)
    BY <2>3, <2>5
  <2>7. CASE Valid(opt[n], a)
    <3>1. /\ data' = IF opt[n].type = "null" THEN data ELSE [data EXCEPT ![opt[n].data] = <<x.val>>]
          /\ rc' = rc
      BY <2>4, <2>6, <2>7 DEF Store
    <3>2. QED
      BY <2>4, <2>7, <3>1
  <2>8. CASE ~Valid(opt[n], a)
    BY <2>4, <2>6, <2>8 DEF Store
  <2>9. QED
    BY <2>7, <2>8
<1>9. \A m \in DOMAIN opt : Gives(opt[m], a) => m = n
  BY <1>4, <1>6, OnlyOne
<1>10. DOMAIN data = {opt[m].data : m \in DOMAIN opt} /\ opt[n].data \in DOMAIN data
  BY <1>1 DEF OptTypes
<1>11. OptTypes'
  <2>1. DOMAIN data' = DOMAIN data
    BY <1>8
  <2>2. i' \in 1 .. Len(argv) + 1
    BY <1>1, <1>2
  <2>3. Ordinary'
    BY <1>1 DEF OptTypes, Ordinary
  <2>4. QED
    BY <1>1, <2>1, <2>2, <2>3 DEF OptTypes
<1>12. /\ \A p : Ordering(p)' <=> Ordering(p)
       /\ \A k : (Operand(argv[k])' <=> Operand(argv[k])) /\ (Wrong(k)' <=> Wrong(k))
       /\ \A m, c, k : (SetBy(m, c, k)' <=> SetBy(m, c, k)) /\ (SetAt(c, k)' <=> SetAt(c, k))
  BY <1>1 DEF Ordering, Operand, Wrong, SetBy, SetAt
<1>13. 1 .. i' - 1 = 1 .. i - 1 \cup {i} /\ \A k \in 1 .. i - 1 : k <= i /\ k # i
  BY <1>2
<1>14. ~Operand(argv[i])
  BY <1>3, <1>6 DEF Operand
<1>15. \A m \in DOMAIN opt : \A c : SetBy(m, c, i) <=> m = n /\ stored /\ opt[n].data = c
  BY <1>3, <1>6, <1>9 DEF SetBy, Sets
<1>16. Wrong(i) <=> ~Valid(opt[n], a)
  BY <1>3, <1>6, <1>9 DEF Wrong
<1>17. SetSoFar'
  <2>1. SUFFICES ASSUME NEW c \in DOMAIN data
                 PROVE  \/ data'[c] = <<>> /\ \A k \in 1 .. i' - 1 : ~SetAt(c, k)
                        \/ \E k \in 1 .. i' - 1, m \in DOMAIN opt :
                             /\ SetBy(m, c, k) /\ data'[c] = <<ValueGiven(opt[m], argv[k])>>
                             /\ \A j \in 1 .. i' - 1 : SetAt(c, j) => j <= k
    <3>1. DOMAIN data' = DOMAIN data
      BY <1>8
    <3>2. QED
      BY <1>1, <1>12, <3>1 DEF SetSoFar
  <2>2. CASE stored /\ opt[n].data = c
    <3>1. data'[c] = <<ValueGiven(opt[n], argv[i])>>
      BY <1>3, <1>8, <1>10, <2>2
    <3>2. i \in 1 .. i' - 1 /\ SetBy(n, c, i) /\ \A j \in 1 .. i' - 1 : j <= i
      BY <1>2, <1>13, <1>15, <2>2
    <3>3. QED
      BY <3>1, <3>2
  <2>3. CASE ~(stored /\ opt[n].data = c)
    <3>1. data'[c] = data[c]
      BY <1>8, <1>10, <2>3
    <3>2. ~SetAt(c, i)
      BY <1>15, <2>3 DEF SetAt
    <3>3. \/ data[c] = <<>> /\ \A k \in 1 .. i - 1 : ~SetAt(c, k)
          \/ \E k \in 1 .. i - 1, m \in DOMAIN opt :
               /\ SetBy(m, c, k) /\ data[c] = <<ValueGiven(opt[m], argv[k])>>
               /\ \A j \in 1 .. i - 1 : SetAt(c, j) => j <= k
      BY <1>1 DEF SetSoFar
    <3>4. QED
      BY <1>13, <3>1, <3>2, <3>3
  <2>4. QED
    BY <2>2, <2>3
<1>18. WrongSoFar'
  <2>1. rc' # 0 <=> rc # 0 \/ Wrong(i)
    BY <1>8, <1>16
  <2>2. rc # 0 <=> \E k \in 1 .. i - 1 : Wrong(k) \/ (~permute /\ Operand(argv[k]))
    BY <1>1 DEF WrongSoFar
  <2>3. rc' # 0 <=> \E k \in 1 .. i' - 1 : Wrong(k) \/ (~permute /\ Operand(argv[k]))
    BY <1>13, <1>14, <2>1, <2>2
  <2>4. QED
    BY <1>1, <1>12, <2>3 DEF WrongSoFar
<1>19. permute' => \A k \in 1 .. i' - 1 : ~Operand(argv[k])'
  BY <1>1, <1>12, <1>13, <1>14 DEF OptInv
<1>20. \E p : Ordering(p)'
  BY <1>12 DEF OptInv
<1>21. QED
  BY <1>1, <1>11, <1>17, <1>18, <1>19, <1>20 DEF OptInv

(* A swap of an operand with the next option keeps the options in order.   *)
LEMMA SwapOrders ==
  ASSUME OptTypes, NEW p, Ordering(p), NEW j \in 1 .. Len(argv), i < j,
         Operand(argv[i]), \A k \in i + 1 .. j - 1 : Operand(argv[k]),
         argv' = [argv EXCEPT ![i] = argv[j], ![j] = argv[i]], UNCHANGED <<opt, given>>
  PROVE  /\ \E q : Ordering(q)'
         /\ argv' \in Seq(Range(given)) /\ Len(argv') = Len(argv)
         /\ \A k \in 1 .. i - 1 : argv'[k] = argv[k]
<1> DEFINE N == Len(argv)
<1>1. N \in Nat /\ i \in 1 .. N /\ argv \in Seq(Range(given)) /\ DOMAIN argv = 1 .. N
  BY ArgvIs, LenProperties DEF OptTypes
<1>2. argv[i] \in Range(given) /\ argv[j] \in Range(given)
  BY <1>1, ArgvIs
<1>3. /\ argv' \in Seq(Range(given)) /\ Len(argv') = N
      /\ argv'[i] = argv[j] /\ argv'[j] = argv[i]
      /\ \A k \in 1 .. N : k # i /\ k # j => argv'[k] = argv[k]
  <2>1. argv \in [1 .. N -> Range(given)]
    BY <1>1
  <2>2. argv' \in [1 .. N -> Range(given)]
    BY <1>2, <2>1
  <2>3. argv' \in Seq(Range(given)) /\ Len(argv') = N
    BY <1>1, <2>2, IsASeq, LenProperties
  <2>4. QED
    BY <1>1, <2>3
<1> DEFINE q == [p EXCEPT ![i] = p[j], ![j] = p[i]]
<1>4. /\ p \in [1 .. N -> 1 .. N]
      /\ \A k, l \in 1 .. N : p[k] = p[l] => k = l
      /\ \A l \in 1 .. N : \E k \in 1 .. N : p[k] = l
      /\ \A k \in 1 .. N : argv[k] = given[p[k]]
      /\ \A k, l \in 1 .. N : k < l /\ ~Operand(argv[k]) /\ ~Operand(argv[l]) => p[k] < p[l]
  BY DEF Ordering
<1>5. /\ q \in [1 .. N -> 1 .. N] /\ q[i] = p[j] /\ q[j] = p[i]
      /\ \A k \in 1 .. N : k # i /\ k # j => q[k] = p[k]
  BY <1>1, <1>4
<1> HIDE DEF q
<1> DEFINE turn(k) == IF k = i THEN j ELSE IF k = j THEN i ELSE k
<1>6. \A k \in 1 .. N : turn(k) \in 1 .. N /\ q[k] = p[turn(k)] /\ argv'[k] = argv[turn(k)]
  BY <1>1, <1>3, <1>5
<1>7. \A k, l \in 1 .. N : turn(k) = turn(l) => k = l
  BY <1>1
<1> HIDE DEF turn
<1>8. \A k, l \in 1 .. N : q[k] = q[l] => k = l
  BY <1>4, <1>6, <1>7
<1>9. \A l \in 1 .. N : \E k \in 1 .. N : q[k] = l
  <2>1. SUFFICES ASSUME NEW l \in 1 .. N PROVE \E k \in 1 .. N : q[k] = l
    OBVIOUS
  <2>2. PICK k \in 1 .. N : p[k] = l
    BY <1>4
  <2>3. CASE k = i
    BY <1>5, <2>2, <2>3
  <2>4. CASE k = j
    BY <1>1, <1>5, <2>2, <2>4
  <2>5. CASE k # i /\ k # j
    BY <1>5, <2>2, <2>5
  <2>6. QED
    BY <2>3, <2>4, <2>5
<1>10. ASSUME NEW k \in 1 .. N PROVE argv'[k] = given[q[k]]
  <2>1. PICK h : h = turn(k)
    OBVIOUS
  <2>2. h \in 1 .. N /\ q[k] = p[h] /\ argv'[k] = argv[h]
    BY <1>6, <2>1
  <2>3. argv[h] = given[p[h]]
    BY <1>4, <2>2
  <2>4. QED
    BY <2>2, <2>3
<1>11. ASSUME NEW k \in 1 .. N, NEW l \in 1 .. N, k < l, ~Operand(argv'[k]), ~Operand(argv'[l])
      PROVE  q[k] < q[l]
  <2>1. k # j /\ l # j
    BY <1>3, <1>11
  <2>2. CASE k = i
    <3>1. l > j
      <4>1. ~(l \in i + 1 .. j - 1)
        BY <1>1, <1>3, <1>11, <2>1
      <4>2. QED
        BY <1>1, <1>11, <2>1, <2>2, <4>1
    <3>2. argv'[l] = argv[l] /\ q[l] = p[l] /\ argv'[k] = argv[j] /\ q[k] = p[j]
      BY <1>1, <1>3, <1>5, <2>2, <3>1
    <3>3. QED
      BY <1>4, <1>11, <3>1, <3>2
  <2>3. CASE l = i
    <3>1. k < j /\ k # i /\ k # j
      BY <1>1, <1>11, <2>3
    <3>2. argv'[k] = argv[k] /\ q[k] = p[k] /\ argv'[l] = argv[j] /\ q[l] = p[j]
      BY <1>3, <1>5, <2>3, <3>1
    <3>3. QED
      BY <1>4, <1>11, <3>1, <3>2
  <2>4. CASE k # i /\ l # i
    BY <1>3, <1>4, <1>5, <1>11, <2>1, <2>4
  <2>5. QED
    BY <2>2, <2>3, <2>4
<1>12. \A k : Operand(argv[k])' <=> Operand(argv'[k])
  BY DEF Operand
<1>13. \E r : Ordering(r)'
  <2>1. PICK r : r = q
    OBVIOUS
  <2>2. /\ r \in [1 .. Len(argv') -> 1 .. Len(argv')]
        /\ \A k, l \in 1 .. Len(argv') : r[k] = r[l] => k = l
        /\ \A l \in 1 .. Len(argv') : \E k \in 1 .. Len(argv') : r[k] = l
        /\ \A k \in 1 .. Len(argv') : argv'[k] = given'[r[k]]
        /\ \A k, l \in 1 .. Len(argv') :
             k < l /\ ~Operand(argv[k])' /\ ~Operand(argv[l])' => r[k] < r[l]
    <3>1. given' = given /\ Len(argv') = N
      BY <1>3
    <3> HIDE DEF N
    <3>2. \A k, l \in 1 .. N : k < l /\ ~Operand(argv[k])' /\ ~Operand(argv[l])' => r[k] < r[l]
      BY <1>11, <1>12, <2>1
    <3>3. QED
      BY <1>5, <1>8, <1>9, <1>10, <2>1, <3>1, <3>2, ZenonT(30)
  <2>3. Ordering(r)'
    BY <2>2 DEF Ordering
  <2>4. QED
    BY <2>3
<1>14. \A k \in 1 .. i - 1 : argv'[k] = argv[k]
  BY <1>1, <1>3
<1>15. QED
  BY <1>3, <1>13, <1>14

(* find_opt finds the options among the arguments.                         *)
LEMMA Found ==
  ASSUME OptTypes, NEW k \in 1 .. Len(argv)
  PROVE  Operand(argv[k]) <=> find_opt(opt, argv[k]).n = 0
<1>1. PICK a : a = argv[k]
  OBVIOUS
<1>2. IsArg(opt, a) /\ opt \in Tables
  BY <1>1, ArgvIs DEF OptTypes
<1>3. (\A n \in DOMAIN opt : ~Gives(opt[n], a)) <=> find_opt(opt, a).n = 0
  BY <1>2, Read
<1>4. QED
  BY <1>1, <1>3 DEF Operand

(* An argument that is no option: an error, a swap or the end.             *)
LEMMA MeetsOperand ==
  ASSUME OptInv, NoOption
  PROVE  OptInv'
<1>1. /\ OptTypes /\ SetSoFar /\ WrongSoFar /\ optpc = "parse" /\ i <= Len(argv)
      /\ UNCHANGED <<opt, given, permute, data>>
  BY DEF OptInv, NoOption
<1>2. Len(argv) \in Nat /\ i \in 1 .. Len(argv)
  BY <1>1, ArgvIs DEF OptTypes
<1>3. Operand(argv[i])
  BY <1>1, <1>2, Found DEF NoOption
<1>4. CASE ~permute /\ rc' = 1 /\ i' = i + 1 /\ UNCHANGED <<argv, optpc>>
  <2>1. /\ \A p : Ordering(p)' <=> Ordering(p)
        /\ \A k : (Operand(argv[k])' <=> Operand(argv[k])) /\ (Wrong(k)' <=> Wrong(k))
        /\ \A m, c, k : (SetBy(m, c, k)' <=> SetBy(m, c, k)) /\ (SetAt(c, k)' <=> SetAt(c, k))
    BY <1>1, <1>4 DEF Ordering, Operand, Wrong, SetBy, SetAt
  <2>2. 1 .. i' - 1 = 1 .. i - 1 \cup {i} /\ i' \in 1 .. Len(argv) + 1
    BY <1>2, <1>4
  <2>3. \A c : ~SetAt(c, i)
    BY <1>3 DEF Operand, SetAt, SetBy, Sets
  <2>4. OptTypes'
    BY <1>1, <1>4, <2>2 DEF OptTypes, Ordinary
  <2>5. SetSoFar'
    <3>1. SUFFICES ASSUME NEW c \in DOMAIN data
                   PROVE  \/ data[c] = <<>> /\ \A k \in 1 .. i' - 1 : ~SetAt(c, k)
                          \/ \E k \in 1 .. i' - 1, m \in DOMAIN opt :
                               /\ SetBy(m, c, k) /\ data[c] = <<ValueGiven(opt[m], argv[k])>>
                               /\ \A j \in 1 .. i' - 1 : SetAt(c, j) => j <= k
      BY <1>1, <1>4, <2>1 DEF SetSoFar
    <3>2. \/ data[c] = <<>> /\ \A k \in 1 .. i - 1 : ~SetAt(c, k)
          \/ \E k \in 1 .. i - 1, m \in DOMAIN opt :
               /\ SetBy(m, c, k) /\ data[c] = <<ValueGiven(opt[m], argv[k])>>
               /\ \A j \in 1 .. i - 1 : SetAt(c, j) => j <= k
      BY <1>1 DEF SetSoFar
    <3>3. QED
      BY <2>2, <2>3, <3>2
  <2>6. WrongSoFar'
    <3>1. rc' # 0 /\ i \in 1 .. i' - 1
      BY <1>2, <1>4
    <3>2. QED
      BY <1>1, <1>3, <1>4, <2>1, <3>1 DEF WrongSoFar
  <2>7. \E p : Ordering(p)'
    BY <2>1 DEF OptInv
  <2>8. QED
    BY <1>1, <1>4, <2>4, <2>5, <2>6, <2>7 DEF OptInv
<1>5. CASE permute /\ NextOption # {} /\ Permute /\ UNCHANGED <<rc, optpc>>
  <2>1. NextOption \subseteq Nat
    BY <1>2 DEF NextOption
  <2>2. PICK j \in NextOption : \A h \in NextOption : j <= h
    <3>1. \E j \in NextOption : \A h \in NextOption : j <= h
      BY <1>5, <2>1, MinIsLeast
    <3>2. QED
      BY <3>1
  <2>3. PICK c : c = CHOOSE k \in NextOption : \A h \in NextOption : k <= h
    OBVIOUS
  <2>4. c \in NextOption /\ \A h \in NextOption : c <= h
    BY <2>2, <2>3
  <2>5. argv' = [argv EXCEPT ![i] = argv[c], ![c] = argv[i]] /\ i' = i
    BY <1>5, <2>3 DEF Permute
  <2>6. c \in i + 1 .. Len(argv)
    BY <2>4 DEF NextOption
  <2>7. c \in 1 .. Len(argv) /\ i < c
    BY <1>2, <2>6
  <2>8. ASSUME NEW k \in i + 1 .. c - 1 PROVE Operand(argv[k])
    <3>1. k \in i + 1 .. Len(argv) /\ k \in 1 .. Len(argv) /\ ~(c <= k)
      BY <1>2, <2>7, <2>8
    <3>2. k \notin NextOption
      BY <2>4, <3>1
    <3>3. QED
      BY <1>1, <3>1, <3>2, Found DEF NextOption
  <2>9. PICK p : Ordering(p)
    BY DEF OptInv
  <2>10. /\ \E q : Ordering(q)'
         /\ argv' \in Seq(Range(given)) /\ Len(argv') = Len(argv)
         /\ \A k \in 1 .. i - 1 : argv'[k] = argv[k]
    BY <1>1, <1>3, <2>5, <2>7, <2>8, <2>9, SwapOrders
  <2>11. OptTypes'
    BY <1>1, <2>5, <2>10 DEF OptTypes, Ordinary
  <2>12. \A k \in 1 .. i - 1 : /\ Operand(argv[k])' <=> Operand(argv[k])
                               /\ Wrong(k)' <=> Wrong(k)
                               /\ \A m, d : SetBy(m, d, k)' <=> SetBy(m, d, k)
                               /\ \A d : SetAt(d, k)' <=> SetAt(d, k)
    BY <1>1, <2>10 DEF Operand, Wrong, SetBy, SetAt
  <2>13. SetSoFar'
    <3>1. SUFFICES ASSUME NEW d \in DOMAIN data
                   PROVE  \/ data[d] = <<>> /\ \A k \in 1 .. i - 1 : ~SetAt(d, k)'
                          \/ \E k \in 1 .. i - 1, m \in DOMAIN opt :
                               /\ SetBy(m, d, k)' /\ data[d] = <<ValueGiven(opt[m], argv'[k])>>
                               /\ \A h \in 1 .. i - 1 : SetAt(d, h)' => h <= k
      BY <1>1, <2>5 DEF SetSoFar
    <3>2. \/ data[d] = <<>> /\ \A k \in 1 .. i - 1 : ~SetAt(d, k)
          \/ \E k \in 1 .. i - 1, m \in DOMAIN opt :
               /\ SetBy(m, d, k) /\ data[d] = <<ValueGiven(opt[m], argv[k])>>
               /\ \A h \in 1 .. i - 1 : SetAt(d, h) => h <= k
      BY <1>1 DEF SetSoFar
    <3>3. QED
      BY <2>10, <2>12, <3>2
  <2>14. WrongSoFar'
    BY <1>1, <1>5, <2>5, <2>12 DEF WrongSoFar
  <2>15. \A k \in 1 .. i' - 1 : ~Operand(argv[k])'
    BY <1>5, <2>5, <2>12 DEF OptInv
  <2>16. optpc' = "parse"
    BY <1>1, <1>5
  <2>17. QED
    BY <2>10, <2>11, <2>13, <2>14, <2>15, <2>16 DEF OptInv
<1>6. CASE permute /\ NextOption = {} /\ optpc' = "done" /\ UNCHANGED <<argv, rc, i>>
  <2>1. /\ \A p : Ordering(p)' <=> Ordering(p)
        /\ \A k : (Operand(argv[k])' <=> Operand(argv[k])) /\ (Wrong(k)' <=> Wrong(k))
        /\ \A m, c, k : (SetBy(m, c, k)' <=> SetBy(m, c, k)) /\ (SetAt(c, k)' <=> SetAt(c, k))
    BY <1>1, <1>6 DEF Ordering, Operand, Wrong, SetBy, SetAt
  <2>2. ASSUME NEW k \in i .. Len(argv) PROVE Operand(argv[k])
    <3>1. CASE k = i
      BY <1>3, <3>1
    <3>2. CASE k # i
      <4>1. k \in i + 1 .. Len(argv) /\ k \in 1 .. Len(argv)
        BY <1>2, <3>2
      <4>2. QED
        BY <1>1, <1>6, <4>1, Found DEF NextOption
    <3>3. QED
      BY <3>1, <3>2
  <2>3. OptTypes' /\ SetSoFar' /\ WrongSoFar'
    BY <1>1, <1>6, <2>1 DEF OptTypes, Ordinary, SetSoFar, WrongSoFar
  <2>4. \E p : Ordering(p)'
    BY <2>1 DEF OptInv
  <2>5. QED
    BY <1>1, <1>6, <2>1, <2>2, <2>3, <2>4 DEF OptInv
<1>7. QED
  BY <1>4, <1>5, <1>6 DEF NoOption

(* The end of the list.                                                    *)
LEMMA MeetsEnd ==
  ASSUME OptInv, AllParsed \/ UNCHANGED optvars
  PROVE  OptInv'
<1>1. UNCHANGED <<opt, argv, given, permute, i, data, rc>>
  BY DEF AllParsed, optvars
<1>2. /\ \A p : Ordering(p)' <=> Ordering(p)
      /\ \A k : (Operand(argv[k])' <=> Operand(argv[k])) /\ (Wrong(k)' <=> Wrong(k))
      /\ \A m, c, k : (SetBy(m, c, k)' <=> SetBy(m, c, k)) /\ (SetAt(c, k)' <=> SetAt(c, k))
  BY <1>1 DEF Ordering, Operand, Wrong, SetBy, SetAt
<1>3. OptTypes /\ SetSoFar /\ WrongSoFar
  BY DEF OptInv
<1>4. OptTypes' /\ SetSoFar' /\ WrongSoFar'
  BY <1>1, <1>2, <1>3 DEF OptTypes, Ordinary, SetSoFar, WrongSoFar
<1>5. Len(argv) \in Nat /\ i \in 1 .. Len(argv) + 1
  BY <1>3, ArgvIs DEF OptTypes
<1>6. AllParsed => i = Len(argv) + 1 /\ i .. Len(argv) = {}
  BY <1>5 DEF AllParsed
<1>7. optpc' = "done" => AllParsed \/ optpc = "done"
  BY DEF optvars
<1>8. QED
  BY <1>1, <1>2, <1>4, <1>6, <1>7 DEF OptInv

-----------------------------------------------------------------------------
(* Two sets of places with as many elements: one is mapped onto the other. *)
LEMMA AsMany ==
  ASSUME NEW S, NEW T, IsFiniteSet(S), NEW p,
         \A k \in S : p[k] \in T,
         \A k, l \in S : p[k] = p[l] => k = l,
         \A l \in T : \E k \in S : p[k] = l
  PROVE  Cardinality(S) = Cardinality(T)
<1> DEFINE f == [k \in S |-> p[k]]
<1>1. f \in [S -> T] /\ \A k \in S : f[k] = p[k]
  OBVIOUS
<1>2. f \in Bijection(S, T)
  BY <1>1 DEF Bijection, Injection, Surjection, IsInjective
<1>3. ExistsBijection(S, T)
  BY <1>2 DEF ExistsBijection
<1>4. QED
  BY <1>3, FS_Bijection

(* What the invariant says of the arguments as they stand, told of the     *)
(* list as it was written.                                                 *)
LEMMA EffectAtEnd ==
  ASSUME OptInv
  PROVE  OptionsTakeEffect
<1> DEFINE sets(c) == {k \in DOMAIN given : \E n \in DOMAIN opt : Sets(opt[n], c, given[k])}
           N == Len(argv)
<1>1. SUFFICES ASSUME optpc = "done"
      PROVE /\ \A c \in DOMAIN data :
                 IF sets(c) = {} THEN data[c] = <<>>
                 ELSE \E k \in sets(c), n \in DOMAIN opt :
                        /\ \A j \in sets(c) : j <= k
                        /\ Sets(opt[n], c, given[k])
                        /\ data[c] = <<ValueGiven(opt[n], given[k])>>
            /\ permute => \A a \in Range(given) \cup Range(argv) :
                 Cardinality({k \in i .. N : argv[k] = a})
                   = IF Operand(a) THEN Cardinality({k \in DOMAIN given : given[k] = a}) ELSE 0
            /\ rc # 0 <=>
                 \/ \E k \in DOMAIN given, n \in DOMAIN opt :
                      Gives(opt[n], given[k]) /\ ~Valid(opt[n], given[k])
                 \/ ~permute /\ \E k \in DOMAIN given : Operand(given[k])
  BY DEF OptionsTakeEffect
<1>2. OptTypes /\ SetSoFar /\ WrongSoFar
  BY DEF OptInv
<1>3. N \in Nat /\ i \in 1 .. N + 1 /\ DOMAIN given = 1 .. N
  BY <1>2, ArgvIs DEF OptTypes
<1>4. PICK p : Ordering(p)
  BY DEF OptInv
<1>5. /\ \A k \in 1 .. N : p[k] \in 1 .. N /\ argv[k] = given[p[k]]
      /\ \A k, l \in 1 .. N : p[k] = p[l] => k = l
      /\ \A l \in 1 .. N : \E k \in 1 .. N : p[k] = l
      /\ \A k, l \in 1 .. N : k < l /\ ~Operand(argv[k]) /\ ~Operand(argv[l]) => p[k] < p[l]
  BY <1>4 DEF Ordering
<1>6. /\ \A k \in i .. N : Operand(argv[k])
      /\ ~permute => i = N + 1
      /\ permute => \A k \in 1 .. i - 1 : ~Operand(argv[k])
  BY <1>1 DEF OptInv
<1>7. /\ \A k \in 1 .. N : k \in 1 .. i - 1 \/ k \in i .. N
      /\ \A k \in 1 .. i - 1 : k \in 1 .. N
      /\ \A k \in i .. N : k \in 1 .. N
  BY <1>3
<1>8. \A n \in DOMAIN opt, k \in 1 .. N :
        Gives(opt[n], argv[k]) => k \in 1 .. i - 1 /\ ~Operand(argv[k])
  BY <1>6, <1>7 DEF Operand
<1>9. ASSUME NEW c \in DOMAIN data
      PROVE  IF sets(c) = {} THEN data[c] = <<>>
             ELSE \E k \in sets(c), n \in DOMAIN opt :
                    /\ \A j \in sets(c) : j <= k
                    /\ Sets(opt[n], c, given[k])
                    /\ data[c] = <<ValueGiven(opt[n], given[k])>>
  <2>1. \A l \in sets(c) : \E k \in 1 .. i - 1 : p[k] = l /\ SetAt(c, k) /\ ~Operand(argv[k])
    <3>1. SUFFICES ASSUME NEW l \in sets(c)
                   PROVE  \E k \in 1 .. i - 1 : p[k] = l /\ SetAt(c, k) /\ ~Operand(argv[k])
      OBVIOUS
    <3>2. l \in 1 .. N
      BY <1>3
    <3>3. PICK n \in DOMAIN opt : Sets(opt[n], c, given[l])
      OBVIOUS
    <3>4. PICK k \in 1 .. N : p[k] = l
      BY <1>5, <3>2
    <3>5. argv[k] = given[l]
      BY <1>5, <3>4
    <3>6. Gives(opt[n], argv[k]) /\ SetBy(n, c, k)
      BY <3>3, <3>5 DEF SetBy, Sets
    <3>7. QED
      BY <1>8, <3>4, <3>6 DEF SetAt
  <2>2. CASE data[c] = <<>> /\ \A k \in 1 .. i - 1 : ~SetAt(c, k)
    BY <2>1, <2>2
  <2>3. CASE \E k \in 1 .. i - 1, n \in DOMAIN opt :
               /\ SetBy(n, c, k) /\ data[c] = <<ValueGiven(opt[n], argv[k])>>
               /\ \A j \in 1 .. i - 1 : SetAt(c, j) => j <= k
    <3>1. PICK k \in 1 .. i - 1, n \in DOMAIN opt :
               /\ SetBy(n, c, k) /\ data[c] = <<ValueGiven(opt[n], argv[k])>>
               /\ \A j \in 1 .. i - 1 : SetAt(c, j) => j <= k
      BY <2>3
    <3>2. k \in 1 .. N /\ argv[k] = given[p[k]] /\ p[k] \in 1 .. N
      BY <1>5, <1>7
    <3>3. Sets(opt[n], c, given[p[k]]) /\ p[k] \in sets(c)
      BY <1>3, <3>1, <3>2 DEF SetBy
    <3>4. ~Operand(argv[k])
      BY <1>8, <3>1, <3>2 DEF SetBy, Sets
    <3>5. ASSUME NEW l \in sets(c) PROVE l <= p[k]
      <4>1. PICK j \in 1 .. i - 1 : p[j] = l /\ SetAt(c, j) /\ ~Operand(argv[j])
        BY <2>1
      <4>2. j <= k /\ j \in 1 .. N
        BY <1>7, <3>1, <4>1
      <4>3. CASE j = k
        BY <3>2, <4>1, <4>3
      <4>4. CASE j < k
        <5>1. p[j] < p[k]
          BY <1>5, <3>2, <3>4, <4>1, <4>2, <4>4
        <5>2. p[j] \in 1 .. N
          BY ONLY <1>5, <4>2
        <5>3. p[j] \in Int /\ p[k] \in Int
          BY <1>3, <3>2, <5>2
        <5>4. QED
          BY <4>1, <5>1, <5>3
      <4>5. QED
        BY <4>2, <4>3, <4>4
    <3>6. QED
      BY <3>1, <3>2, <3>3, <3>5
  <2>4. QED
    BY <1>2, <2>2, <2>3 DEF SetSoFar
<1>10. ASSUME permute, NEW a
       PROVE  Cardinality({k \in i .. N : argv[k] = a})
                = IF Operand(a) THEN Cardinality({k \in DOMAIN given : given[k] = a}) ELSE 0
  <2> DEFINE S == {k \in i .. N : argv[k] = a}
             T == {k \in DOMAIN given : given[k] = a}
  <2>1. CASE ~Operand(a)
    <3>1. S = {}
      BY <1>6, <2>1
    <3>2. QED
      BY <2>1, <3>1, FS_EmptySet
  <2>2. CASE Operand(a)
    <3>1. IsFiniteSet(S)
      <4>1. IsFiniteSet(i .. N)
        BY <1>3, FS_Interval
      <4>2. S \in SUBSET (i .. N)
        OBVIOUS
      <4>3. QED
        BY <4>1, <4>2, FS_Subset
    <3>2. \A k \in S : p[k] \in T
      BY <1>3, <1>5, <1>7
    <3>3. \A k, l \in S : p[k] = p[l] => k = l
      BY <1>5, <1>7
    <3>4. ASSUME NEW l \in T PROVE \E k \in S : p[k] = l
      <4>1. PICK k \in 1 .. N : p[k] = l
        BY <1>3, <1>5
      <4>2. argv[k] = a
        BY <1>5, <4>1
      <4>3. k \in i .. N
        BY <1>6, <1>7, <1>10, <2>2, <4>2
      <4>4. QED
        BY <4>1, <4>2, <4>3
    <3> HIDE DEF S, T
    <3>5. Cardinality(S) = Cardinality(T)
      BY <3>1, <3>2, <3>3, <3>4, AsMany
    <3>6. QED
      BY <2>2, <3>5 DEF S, T
  <2>3. QED
    BY <2>1, <2>2
<1>11. rc # 0 <=>
         \/ \E k \in DOMAIN given, n \in DOMAIN opt :
              Gives(opt[n], given[k]) /\ ~Valid(opt[n], given[k])
         \/ ~permute /\ \E k \in DOMAIN given : Operand(given[k])
  <2>1. rc # 0 <=> \E k \in 1 .. i - 1 : Wrong(k) \/ (~permute /\ Operand(argv[k]))
    BY <1>2 DEF WrongSoFar
  <2>2. (\E k \in 1 .. i - 1 : Wrong(k)) <=>
          \E k \in DOMAIN given, n \in DOMAIN opt :
            Gives(opt[n], given[k]) /\ ~Valid(opt[n], given[k])
    <3>1. ASSUME NEW k \in 1 .. i - 1, Wrong(k)
          PROVE  \E l \in DOMAIN given, n \in DOMAIN opt :
                   Gives(opt[n], given[l]) /\ ~Valid(opt[n], given[l])
      <4>1. p[k] \in DOMAIN given /\ argv[k] = given[p[k]]
        BY <1>3, <1>5, <1>7
      <4>2. QED
        BY <3>1, <4>1 DEF Wrong
    <3>2. ASSUME NEW l \in DOMAIN given, NEW n \in DOMAIN opt,
                 Gives(opt[n], given[l]), ~Valid(opt[n], given[l])
          PROVE  \E k \in 1 .. i - 1 : Wrong(k)
      <4>1. PICK k \in 1 .. N : p[k] = l
        BY <1>3, <1>5
      <4>2. argv[k] = given[l]
        BY <1>5, <4>1
      <4>3. QED
        BY <1>8, <3>2, <4>2 DEF Wrong
    <3>3. QED
      BY <3>1, <3>2
  <2>3. ~permute => ((\E k \in 1 .. i - 1 : Operand(argv[k]))
                       <=> \E k \in DOMAIN given : Operand(given[k]))
    <3>1. ASSUME NEW k \in 1 .. i - 1, Operand(argv[k])
          PROVE  \E l \in DOMAIN given : Operand(given[l])
      <4>1. p[k] \in DOMAIN given /\ argv[k] = given[p[k]]
        BY <1>3, <1>5, <1>7
      <4>2. QED
        BY <3>1, <4>1
    <3>2. ASSUME ~permute, NEW l \in DOMAIN given, Operand(given[l])
          PROVE  \E k \in 1 .. i - 1 : Operand(argv[k])
      <4>1. PICK k \in 1 .. N : p[k] = l
        BY <1>3, <1>5
      <4>2. argv[k] = given[l]
        BY <1>5, <4>1
      <4>3. k \in 1 .. i - 1
        BY ONLY <1>3, <1>6, <3>2, k \in 1 .. N
      <4>4. QED
        BY <3>2, <4>2, <4>3
    <3>3. QED
      BY <3>1, <3>2
  <2>4. QED
    BY <2>1, <2>2, <2>3
<1>12. QED
  BY <1>9, <1>10, <1>11

(* Whatever the table and wherever its options stand among the arguments,  *)
(* smap_parseopt gives every variable the last valid value for it, leaves  *)
(* exactly the other arguments to a module that takes some, and reports an *)
(* error exactly when a value is wrong or an argument is one too many; as  *)
(* long as no argument goes on behind the name of a flag (Ordinary), and   *)
(* none is the negation of a bit of a mask.                                *)
THEOREM OptionsTakeEffectCorrect == OptionsSpec => []OptionsTakeEffect
<1> DEFINE Inv == Ordinary => OptInv
<1>1. OptionsInit => Inv
  BY OptionsStarts
<1>2. Inv /\ [OptionsNext]_optvars => Inv'
  <2>1. SUFFICES ASSUME Inv, [OptionsNext]_optvars, Ordinary' PROVE OptInv'
    OBVIOUS
  <2>2. UNCHANGED <<opt, given>>
    BY <2>1 DEF OptionsNext, ParseOption, NoOption, AllParsed, optvars
  <2>3. OptInv
    BY <2>1, <2>2 DEF Ordinary
  <2>4. QED
    BY <2>1, <2>3, ParsesOption, MeetsOperand, MeetsEnd DEF OptionsNext
<1>3. Inv => OptionsTakeEffect
  BY EffectAtEnd DEF OptionsTakeEffect
<1>4. QED
  BY <1>1, <1>2, <1>3, PTL DEF OptionsSpec

-----------------------------------------------------------------------------
(* The client's connection.                                                *)

\* What a descriptor may lead to.
Peers == Urls \cup {NULL, "leaked"}

\* ConnectedAsNamed of a stream, a name and descriptors that are given, so
\* that it can be said of the state before and after a call.
Named(io, name, ends) ==
    /\ ends \in Seq(Peers)
    /\ io \in 0..Len(ends)
    /\ (io = 0) = (name = NULL)
    /\ io # 0 => ends[io] = name
    /\ \A fd \in DOMAIN ends : ends[fd] \in Urls => fd = io

ClientInv == Named(iostr, curserver, peer)

-----------------------------------------------------------------------------
\* Once smapc_close returns, nothing is named and no descriptor leads to a
\* server.
LEMMA CloseDisconnects ==
    ASSUME ClientInv
    PROVE  /\ Named(smapc_close.iostr, smapc_close.server, smapc_close.peer)
           /\ smapc_close.iostr = 0
<1>1. CASE iostr = 0
  <2>1. smapc_close = [iostr |-> 0, server |-> curserver, peer |-> peer]
    BY <1>1 DEF smapc_close
  <2> QED BY <1>1, <2>1 DEF ClientInv
<1>2. CASE iostr # 0
  <2>1. smapc_close = [iostr |-> 0, server |-> NULL, peer |-> Closed]
    BY <1>2 DEF smapc_close
  <2>2. /\ Closed \in Seq(Peers) /\ Len(Closed) = Len(peer)
        /\ DOMAIN Closed = DOMAIN peer
        /\ \A fd \in DOMAIN peer : Closed[fd] = IF fd = iostr THEN NULL ELSE peer[fd]
    BY <1>2 DEF ClientInv, Named, Closed, Peers
  <2>3. Named(0, NULL, Closed)
    BY <2>2, UrlsAssumption DEF ClientInv, Named
  <2> QED BY <2>1, <2>3
<1> QED BY <1>1, <1>2

\* A connection that replaces another is the only one and goes to the server
\* that is asked for; an attempt that fails at any step leaves none.
LEMMA ConnectNames ==
    ASSUME ClientInv, NEW url, smapc_connect(url)
    PROVE  ClientInv'
<1> DEFINE before == smapc_close.peer
<1>1. Named(0, smapc_close.server, before)
  BY CloseDisconnects
<1>2. smapc_close.server = NULL
  BY <1>1 DEF Named
<1>3. \A fd \in DOMAIN before : before[fd] \notin Urls
  BY <1>1 DEF Named
<1>4. before \in Seq(Peers)
  BY <1>1 DEF Named
<1> HIDE DEF before
<1>5. PICK o \in open_socket(url, before), created \in BOOLEAN :
          IF o.fd # 0 /\ created
          THEN iostr' = o.fd /\ curserver' = url /\ peer' = o.peer
          ELSE /\ iostr' = 0 /\ curserver' = smapc_close.server
               /\ peer' = IF o.fd = 0 THEN o.peer ELSE [o.peer EXCEPT ![o.fd] = NULL]
  BY DEF smapc_connect, before
<1>6. CASE o = [fd |-> 0, peer |-> before]
  <2>1. iostr' = 0 /\ curserver' = NULL /\ peer' = before
    BY <1>2, <1>5, <1>6
  <2> QED BY <2>1, <1>3, <1>4 DEF ClientInv, Named
<1>7. CASE o = [fd |-> 0, peer |-> Append(before, "leaked")]
  <2>1. iostr' = 0 /\ curserver' = NULL /\ peer' = Append(before, "leaked")
    BY <1>2, <1>5, <1>7
  <2>2. /\ Append(before, "leaked") \in Seq(Peers)
        /\ \A fd \in DOMAIN Append(before, "leaked") :
               Append(before, "leaked")[fd] \notin Urls
    BY <1>3, <1>4, UrlsAssumption DEF Peers
  <2> QED BY <2>1, <2>2 DEF ClientInv, Named
<1>8. CASE url \in Urls /\ o = [fd |-> Len(before) + 1, peer |-> Append(before, url)]
  <2> DEFINE n == Len(before) + 1
             made == Append(before, url)
  <2>1. /\ made \in Seq(Peers) /\ Len(made) = n /\ n \in Nat /\ n # 0
        /\ DOMAIN made = 1..n /\ made[n] = url
        /\ \A fd \in DOMAIN made : fd # n => made[fd] = before[fd] /\ fd \in DOMAIN before
    BY <1>4, <1>8 DEF Peers
  <2>2. o.fd = n /\ o.peer = made
    BY <1>8
  <2> HIDE DEF n, made
  <2>3. CASE created
    <3>1. iostr' = n /\ curserver' = url /\ peer' = made
      BY <1>5, <2>1, <2>2, <2>3
    <3> QED BY <3>1, <2>1, <1>3, <1>8, UrlsAssumption DEF ClientInv, Named
  <2>4. CASE ~created
    <3>1. iostr' = 0 /\ curserver' = NULL /\ peer' = [made EXCEPT ![n] = NULL]
      BY <1>2, <1>5, <2>1, <2>2, <2>4
    <3>2. /\ peer' \in Seq(Peers) /\ DOMAIN peer' = DOMAIN made
          /\ \A fd \in DOMAIN made : peer'[fd] \notin Urls
      BY <3>1, <2>1, <1>3, UrlsAssumption DEF Peers
    <3> QED BY <3>1, <3>2 DEF ClientInv, Named
  <2> QED BY <2>3, <2>4
<1> QED BY <1>5, <1>6, <1>7, <1>8 DEF open_socket

\* A command leaves the connection alone, closes it or opens another.
LEMMA CommandNames ==
    ASSUME ClientInv, NEW ws, handle_command(ws)
    PROVE  ClientInv'
<1>1. \/ UNCHANGED <<iostr, curserver, peer>>
      \/ cmd_open(ws)
      \/ cmd_close(ws)
  <2>1. CASE Len(ws) \notin ArgCount(ws[1])
    BY <2>1 DEF handle_command
  <2>2. CASE Len(ws) \in ArgCount(ws[1])
    <3>1. CASE ws[1] = "map"    BY <2>2, <3>1, Zenon DEF handle_command, cmd_map
    <3>2. CASE ws[1] = "nomap"  BY <2>2, <3>2, Zenon DEF handle_command, cmd_nomap
    <3>3. CASE ws[1] = "open"   BY <2>2, <3>3, Zenon DEF handle_command
    <3>4. CASE ws[1] = "close"  BY <2>2, <3>4, Zenon DEF handle_command
    <3>5. CASE ws[1] = "prefix" BY <2>2, <3>5, Zenon DEF handle_command, cmd_prefix
    <3>6. CASE ws[1] \notin {"map", "nomap", "open", "close", "prefix"}
      BY <2>2, <3>6, Zenon DEF handle_command
    <3> QED BY <3>1, <3>2, <3>3, <3>4, <3>5, <3>6
  <2> QED BY <2>1, <2>2
<1>2. CASE UNCHANGED <<iostr, curserver, peer>>
  BY <1>2 DEF ClientInv
<1>3. CASE cmd_open(ws)
  BY <1>3, ConnectNames DEF cmd_open
<1>4. CASE cmd_close(ws)
  BY <1>4, CloseDisconnects DEF cmd_close, ClientInv
<1> QED BY <1>1, <1>2, <1>3, <1>4

-----------------------------------------------------------------------------
\* The server that smapc names is the one at the other end of its stream, it
\* names one exactly while it is connected, and no other connection is open,
\* whatever is typed and wherever an open fails (smapc_connect, smapc_close).
THEOREM ConnectedAsNamedCorrect == SmapcSpec => []ConnectedAsNamed
<1>1. SmapcInit => ClientInv
  <2>1. Named(0, NULL, <<>>)
    <3>1. << >> \in Seq(Peers) /\ Len(<< >>) = 0 /\ DOMAIN << >> = {}
      OBVIOUS
    <3> QED BY <3>1 DEF Named
  <2> QED BY <2>1 DEF SmapcInit, ClientInv
<1>2. ClientInv /\ [SmapcNext]_cvars => ClientInv'
  <2> SUFFICES ASSUME ClientInv, [SmapcNext]_cvars PROVE ClientInv'
    OBVIOUS
  <2>1. ASSUME NEW l \in Lines, Command(l) PROVE ClientInv'
    BY <2>1, CommandNames DEF Command
  <2>2. ASSUME NEW l \in Lines, TypedQuery(l) PROVE ClientInv'
    BY <2>2 DEF TypedQuery, ClientInv
  <2>3. CASE LeaveLoop
    <3>1. CASE UNCHANGED <<iostr, curserver, peer>>
      BY <3>1 DEF ClientInv
    <3>2. CASE /\ iostr' = smapc_close.iostr /\ curserver' = smapc_close.server
               /\ peer' = smapc_close.peer
      BY <3>2, CloseDisconnects DEF ClientInv
    <3> QED BY <2>3, <3>1, <3>2 DEF LeaveLoop
  <2>4. CASE SingleQuery
    BY <2>4, ConnectNames DEF SingleQuery
  <2>5. CASE ServerOption
    BY <2>5, ConnectNames DEF ServerOption
  <2>6. CASE DefaultQuery
    BY <2>6 DEF DefaultQuery, ClientInv
  <2>7. CASE EnterLoop
    BY <2>7 DEF EnterLoop, ClientInv
  <2>8. CASE UNCHANGED cvars
    BY <2>8 DEF cvars, ClientInv
  <2> QED BY <2>1, <2>2, <2>3, <2>4, <2>5, <2>6, <2>7, <2>8 DEF SmapcNext
<1>3. ClientInv => ConnectedAsNamed
  BY DEF ClientInv, Named, ConnectedAsNamed
<1> QED BY <1>1, <1>2, <1>3, PTL DEF SmapcSpec
=============================================================================
