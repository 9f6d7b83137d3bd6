------------------------------- MODULE Options -------------------------------
(***************************************************************************)
(* The options of module and database statements (src/lib/parseopt.c).     *)
(*                                                                         *)
(* An argument is a sequence of characters.  The table of options is a     *)
(* sequence of [name, type, data, v]: data names the variable, or the bit  *)
(* of one, that the option sets, and v is the value of a constant or the   *)
(* sequence of the words of an enumeration.  The variable data has the     *)
(* value of each of them, as the sequence <<>> before any argument sets it *)
(* and <<value>> after.  Case is not told apart, and the functions that    *)
(* options may have are part of the modules that declare them.             *)
(***************************************************************************)
EXTENDS Integers, Sequences, SequencesExt, FiniteSets

CONSTANTS
    Tables,     \* tables of options
    ArgLists,   \* argument vectors without the word argv[0]
    LongMax     \* LONG_MAX

VARIABLES
    opt,        \* the table
    argv,
    given,      \* argv as it was written
    permute,    \* SMAP_PARSEOPT_PERMUTE and pindex are given, or neither is
    i,          \* index of the argument in hand
    data,
    rc,
    optpc       \* "parse" or "done"

optvars == <<opt, argv, given, permute, i, data, rc, optpc>>

OptionsStart ==
    /\ argv = given
    /\ i = 1 /\ rc = 0 /\ optpc = "parse"
    /\ data = [c \in {opt[n].data : n \in DOMAIN opt} |-> <<>>]

OptionsInit ==
    /\ opt \in Tables /\ given \in ArgLists /\ permute \in BOOLEAN
    /\ OptionsStart

-----------------------------------------------------------------------------
From(w, n) == SubSeq(w, n, Len(w))

Valued    == {"string", "const_string", "long", "enum"}
FlagTypes == {"bool", "bitmask", "bitmask_rev", "const"}

HasValue(o, w) == Len(w) > Len(o.name) /\ w[Len(o.name) + 1] = "="

\* Does w, without its prefix no, fit option o?  A flag fits every word that
\* begins with its name, unless an equals sign follows, and an option without
\* a type (smap_opt_null) every word that begins with its name.
Fits(o, w, isbool) ==
    /\ IsPrefix(o.name, w)
    /\ isbool => o.type = "bool"
    /\ o.type \in Valued => HasValue(o, w)
    /\ o.type \in FlagTypes => ~HasValue(o, w)

\* Is arg taken for the negation of a flag?
Negated(arg) == Len(arg) > 2 /\ IsPrefix(<<"n", "o">>, arg)
Word(arg) == IF Negated(arg) THEN From(arg, 3) ELSE arg

ValueText(o, w) == From(w, Len(o.name) + 2)

\* *value: <<v>>, or <<>> for a null pointer.
ValueOf(o, arg) ==
    CASE o.type \in Valued -> <<ValueText(o, Word(arg))>>
      [] o.type = "null"   -> IF HasValue(o, Word(arg)) THEN <<ValueText(o, Word(arg))>> ELSE <<>>
      [] OTHER             -> IF Negated(arg) THEN <<>> ELSE <<arg>>

\* The option of the table that fits argument arg, 0 if none does, and the
\* value it gives.  After no, only a Boolean option fits.
find_opt(table, arg) ==
    LET fit == {n \in DOMAIN table : Fits(table[n], Word(arg), Negated(arg))}
    IN  IF fit = {} THEN [n |-> 0, value |-> <<>>]
        ELSE LET n == CHOOSE k \in fit : \A j \in fit : k <= j
             IN  [n |-> n, value |-> ValueOf(table[n], arg)]

\* The place of a word in an enumeration, 0 if it is not there.
find_value(o, value) ==
    LET at == {k \in DOMAIN o.v : o.v[k] = value}
    IN  IF at = {} THEN 0 ELSE CHOOSE k \in at : \A j \in at : k <= j

\* strtol with base 0: a sign, hexadecimal after 0x, octal after 0, decimal
\* otherwise; the nearest number there is for one that is too large; and what
\* is left of the text.  Nothing is left of an empty text.
XDigits == <<"0", "1", "2", "3", "4", "5", "6", "7", "8", "9", "a", "b", "c", "d", "e", "f">>
strtol(s) ==
    LET IsDigit(c, base) == \E d \in 1 .. base : XDigits[d] = c
        u    == IF s # <<>> /\ s[1] \in {"+", "-"} THEN Tail(s) ELSE s
        hex  == Len(u) > 2 /\ u[1] = "0" /\ u[2] = "x" /\ IsDigit(u[3], 16)
        base == IF hex THEN 16 ELSE IF u # <<>> /\ u[1] = "0" THEN 8 ELSE 10
        d    == IF hex THEN From(u, 3) ELSE u
        n    == CHOOSE k \in 0 .. Len(d) :
                    /\ \A j \in 1 .. k : IsDigit(d[j], base)
                    /\ k = Len(d) \/ ~IsDigit(d[k + 1], base)
        Add(z, c) == z * base + (CHOOSE x \in 0 .. 15 : XDigits[x + 1] = c)
        abs  == FoldLeft(Add, 0, SubSeq(d, 1, n))
    IN  [rest |-> IF n = 0 THEN s ELSE From(d, n + 1),
         val  |-> IF s # u /\ s[1] = "-" THEN (IF abs > LongMax THEN -LongMax - 1 ELSE -abs)
                  ELSE IF abs > LongMax THEN LongMax ELSE abs]

\* Whether the value is valid, and what is stored for option o.
smap_parseline(o, value) ==
    CASE o.type \in {"string", "const_string"} -> [ok |-> TRUE, val |-> value[1]]
      [] o.type = "long" -> [ok |-> strtol(value[1]).rest = <<>>, val |-> strtol(value[1]).val]
      [] o.type = "enum" -> [ok |-> find_value(o, value[1]) # 0, val |-> find_value(o, value[1])]
      [] o.type = "bool" -> [ok |-> TRUE, val |-> value # <<>>]
      [] o.type = "bitmask"     -> [ok |-> TRUE, val |-> TRUE]
      [] o.type = "bitmask_rev" -> [ok |-> TRUE, val |-> FALSE]
      [] o.type = "const" -> [ok |-> TRUE, val |-> o.v]
      [] o.type = "null"  -> [ok |-> TRUE, val |-> <<>>]

\* What is stored for an option without a type is nothing.
Store(o, r) ==
    IF ~r.ok THEN rc' = 1 /\ UNCHANGED data
    ELSE /\ data' = IF o.type = "null" THEN data ELSE [data EXCEPT ![o.data] = <<r.val>>]
         /\ UNCHANGED rc

\* One argument that is an option.
ParseOption ==
    /\ optpc = "parse" /\ i <= Len(argv)
    /\ LET f == find_opt(opt, argv[i]) IN
       /\ f.n # 0
       /\ Store(opt[f.n], smap_parseline(opt[f.n], f.value))
    /\ i' = i + 1
    /\ UNCHANGED <<opt, argv, given, permute, optpc>>

\* The next option behind the argument in hand.
NextOption == {j \in i + 1 .. Len(argv) : find_opt(opt, argv[j]).n # 0}

\* Fault: the argument swapped in is passed over.
Permute_Skip ==
    LET j == CHOOSE k \in NextOption : \A h \in NextOption : k <= h
    IN  /\ argv' = [argv EXCEPT ![i] = argv[j], ![j] = argv[i]]
        /\ i' = i + 1

\* The option changes places with the argument in hand, and is parsed next.
Permute ==
    LET j == CHOOSE k \in NextOption : \A h \in NextOption : k <= h
    IN  /\ argv' = [argv EXCEPT ![i] = argv[j], ![j] = argv[i]]
        /\ i' = i

\* One argument that is none: an error, or the place where the arguments of
\* the module begin once all options have been moved before it.
NoOption ==
    /\ optpc = "parse" /\ i <= Len(argv)
    /\ find_opt(opt, argv[i]).n = 0
    /\ \/ /\ ~permute
          /\ rc' = 1 /\ i' = i + 1
          /\ UNCHANGED <<argv, optpc>>
       \/ /\ permute /\ NextOption # {}
          /\ Permute
          /\ UNCHANGED <<rc, optpc>>
       \/ /\ permute /\ NextOption = {}
          /\ optpc' = "done"
          /\ UNCHANGED <<argv, rc, i>>
    /\ UNCHANGED <<opt, given, permute, data>>

AllParsed ==
    /\ optpc = "parse" /\ i > Len(argv)
    /\ optpc' = "done"
    /\ UNCHANGED <<opt, argv, given, permute, i, data, rc>>

OptionsNext == ParseOption \/ NoOption \/ AllParsed

OptionsSpec == OptionsInit /\ [][OptionsNext]_optvars

-----------------------------------------------------------------------------
\* The tables of the modules: names differ, have no equals sign and do not
\* begin with no.
ASSUME TablesAssumption ==
    \A t \in Tables :
        /\ t \in Seq(Range(t))
        /\ \A n \in DOMAIN t :
             /\ t[n].name \in Seq(Range(t[n].name)) /\ t[n].name # <<>>
             /\ t[n].type \in Valued \cup FlagTypes \cup {"null"}
             /\ ~Contains(t[n].name, "=") /\ ~IsPrefix(<<"n", "o">>, t[n].name)
        /\ \A n, m \in DOMAIN t : t[n].name = t[m].name => n = m

ASSUME ArgumentsAssumption ==
    \A list \in ArgLists :
        list \in Seq(Range(list)) /\ \A k \in DOMAIN list : list[k] \in Seq(Range(list[k]))

-----------------------------------------------------------------------------
\* By the form it is written in: arg gives option o, the value it gives, and
\* whether that value is valid.
Gives(o, arg) ==
    CASE o.type \in Valued -> IsPrefix(o.name \o <<"=">>, arg)
      [] o.type = "null"   -> arg = o.name \/ IsPrefix(o.name \o <<"=">>, arg)
      [] o.type = "bool"   -> arg = o.name \/ arg = <<"n", "o">> \o o.name
      [] OTHER             -> arg = o.name

ValueGiven(o, arg) ==
    CASE o.type \in {"string", "const_string"} -> ValueText(o, arg)
      [] o.type = "long"        -> strtol(ValueText(o, arg)).val
      [] o.type = "enum"        -> find_value(o, ValueText(o, arg))
      [] o.type = "bitmask_rev" -> FALSE
      [] o.type = "const"       -> o.v
      [] OTHER                  -> arg = o.name

Valid(o, arg) ==
    CASE o.type = "long" -> strtol(ValueText(o, arg)).rest = <<>>
      [] o.type = "enum" -> find_value(o, ValueText(o, arg)) # 0
      [] OTHER -> TRUE

Operand(arg) == \A n \in DOMAIN opt : ~Gives(opt[n], arg)

\* Option o is stored through the variable c, and arg gives it a valid value.
Sets(o, c, arg) == o.data = c /\ o.type # "null" /\ Gives(o, arg) /\ Valid(o, arg)

\* An argument that goes on behind the name of a flag: find_opt compares no
\* more than the name and takes it for the flag.
Overlong(o, arg) ==
    /\ o.type \notin Valued /\ Fits(o, Word(arg), Negated(arg))
    /\ Word(arg) # o.name /\ ~HasValue(o, Word(arg))
Ordinary == \A k \in DOMAIN given, n \in DOMAIN opt : ~Overlong(opt[n], given[k])

\* The prefix no before the name of a bit of a mask.
NegatesMask(arg) ==
    \E n \in DOMAIN opt : opt[n].type = "bitmask" /\ arg = <<"n", "o">> \o opt[n].name

(***************************************************************************)
(* Wherever the options stand among the other arguments, each one takes    *)
(* effect, the last of several for the same variable wins, none is left    *)
(* among the arguments the module goes on with, and no other argument is   *)
(* lost or doubled; an error is reported exactly when a value is wrong or, *)
(* where the module takes no other arguments, one is given                 *)
(* (smap_parseopt).  This is said of lists in which no argument goes on    *)
(* behind the name of a flag, and none negates a bit of a mask: find_opt   *)
(* takes the prefix no before a Boolean option only (parseopt.c:48), so    *)
(* that it leaves noicase and noextended, which doc/smap.texi:2907-2914    *)
(* lists for the sed module, among the s-expressions.                      *)
(***************************************************************************)
OptionsTakeEffect ==
    optpc = "done" /\ Ordinary /\ ~(\E k \in DOMAIN given : NegatesMask(given[k])) =>
        LET sets(c) == {k \in DOMAIN given : \E n \in DOMAIN opt : Sets(opt[n], c, given[k])}
        IN  /\ \A c \in DOMAIN data :
                 IF sets(c) = {} THEN data[c] = <<>>
                 ELSE \E k \in sets(c), n \in DOMAIN opt :
                        /\ \A j \in sets(c) : j <= k
                        /\ Sets(opt[n], c, given[k])
                        /\ data[c] = <<ValueGiven(opt[n], given[k])>>
            /\ permute => \A a \in Range(given) \cup Range(argv) :
                 Cardinality({k \in i .. Len(argv) : argv[k] = a})
                   = IF Operand(a) THEN Cardinality({k \in DOMAIN given : given[k] = a}) ELSE 0
            /\ rc # 0 <=>
                 \/ \E k \in DOMAIN given, n \in DOMAIN opt :
                      Gives(opt[n], given[k]) /\ ~Valid(opt[n], given[k])
                 \/ ~permute /\ \E k \in DOMAIN given : Operand(given[k])
=============================================================================
