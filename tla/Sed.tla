-------------------------------- MODULE Sed --------------------------------
(***************************************************************************)
(* modules/sed: a sed database, from the compilation of its s-expressions  *)
(* (transform.c: parse_transform_expr) to the replies to its queries       *)
(* (sed.c: sed_query), with the loop over the matches one step at a time.  *)
(* The list of output pieces belongs to the database and outlives a query. *)
(* An expression is a sequence of characters; regcomp and regexec are      *)
(* external and cover literals, a starred letter, one group and anchors.   *)
(***************************************************************************)
EXTENDS Naturals, Sequences, SequencesExt, FiniteSets

CONSTANTS
    Databases,  \* set of [args, means]: the arguments of a database statement
                \* (texts of s-expressions) and what they are meant to do
    Keys,       \* the keys looked up
    MaxOut,     \* characters the process can allocate for one output
    Queries     \* bound on the number of queries

VARIABLES
    db,         \* the database statement
    trs,        \* compiled expressions: the list from tr_head on
    spc,        \* "init", "refused", "idle", "match", "reduce", "reply", "freed", "crash"
    key,        \* key of the current query
    xform,      \* whether it is a transformation (sed_xform)
    idx,        \* expression being applied
    rest,       \* what is left of its input
    slist,      \* output pieces collected so far, joined
    output,     \* *poutput: <<text>>, or <<>> for a null pointer
    nmatches,   \* matches seen so far
    case_ctl, save_ctl,
    cctl_buf,   \* whether tr_cctl_buf has been allocated
    reply,      \* how the last query ended: "none" as long as it has not,
                \* "positive", "negative", "output" (of a transformation), "error"
    queries,    \* queries made so far
    nomem       \* whether a query has failed for lack of memory

svars == <<db, trs, spc, key, xform, idx, rest, slist, output, nmatches, case_ctl,
           save_ctl, cctl_buf, reply, queries, nomem>>

Up(c)  == CASE c = "a" -> "A" [] c = "b" -> "B" [] OTHER -> c
Low(c) == CASE c = "A" -> "a" [] c = "B" -> "b" [] OTHER -> c

-----------------------------------------------------------------------------
(***************************************************************************)
(* The regular expressions: a list of atoms [c, star], a group around the  *)
(* atoms grp[1] .. grp[2], and the anchors.                                *)
(***************************************************************************)
regcomp(text, icase) ==
    LET Atom(c) == [c |-> IF icase THEN Low(c) ELSE c, star |-> FALSE]
        Put(p, c) ==
            CASE p.esc  -> [p EXCEPT !.atoms = Append(@, Atom(c)), !.esc = FALSE]
              [] ~p.esc /\ c = "\\" -> [p EXCEPT !.esc = TRUE]
              [] ~p.esc /\ c = "("  -> [p EXCEPT !.grp[1] = Len(p.atoms) + 1]
              [] ~p.esc /\ c = ")"  -> [p EXCEPT !.grp[2] = Len(p.atoms)]
              [] ~p.esc /\ c = "*"  -> [p EXCEPT !.atoms[Len(p.atoms)].star = TRUE]
              [] ~p.esc /\ c = "^"  -> [p EXCEPT !.bol = TRUE]
              [] ~p.esc /\ c = "$"  -> [p EXCEPT !.eol = TRUE]
              [] OTHER -> [p EXCEPT !.atoms = Append(@, Atom(c))]
        r == FoldLeft(Put, [atoms |-> <<>>, grp |-> <<0, 0>>, bol |-> FALSE,
                            eol |-> FALSE, icase |-> icase, esc |-> FALSE], text)
    IN  [ok |-> (r.grp[1] = 0) = (r.grp[2] = 0), pat |-> r,
         nsub |-> IF r.grp[1] = 0 THEN 0 ELSE 1]

\* Where a match from position i on can put the borders of the atoms.
Borders(pat, s, i) ==
    LET n == Len(pat.atoms)
        C(k) == IF pat.icase THEN Low(s[k]) ELSE s[k]
    IN  {b \in [0 .. n -> i .. Len(s) + 1] :
            /\ b[0] = i
            /\ pat.bol => i = 1
            /\ pat.eol => b[n] = Len(s) + 1
            /\ \A k \in 1 .. n :
                 /\ b[k] >= b[k - 1]
                 /\ ~pat.atoms[k].star => b[k] = b[k - 1] + 1
                 /\ \A j \in b[k - 1] .. b[k] - 1 : C(j) = pat.atoms[k].c}

\* The leftmost longest match: its span, and the span of the group.
regexec(pat, s) ==
    LET n == Len(pat.atoms)
        starts == {i \in 1 .. Len(s) + 1 : Borders(pat, s, i) # {}}
        i  == CHOOSE i \in starts : \A j \in starts : i <= j
        bs == Borders(pat, s, i)
        b  == CHOOSE b \in bs : \A c \in bs :
                 \/ c = b
                 \/ \E k \in 0 .. n : /\ \A j \in 0 .. k - 1 : b[n - j] = c[n - j]
                                      /\ b[n - k] > c[n - k]
    IN  IF starts = {} THEN [ok |-> FALSE, span |-> <<<<0, 0>>>>]
        ELSE [ok |-> TRUE,
              span |-> IF pat.grp[1] = 0 THEN <<<<i, b[n]>>>>
                       ELSE <<<<i, b[n]>>, <<b[pat.grp[1] - 1], b[pat.grp[2]]>>>>]

-----------------------------------------------------------------------------
(***************************************************************************)
(* Compilation.                                                            *)
(***************************************************************************)

\* Fault: the delimiter ends the part although it is escaped.
FindDelim_NoEscape(e, i, delim) ==
    CHOOSE k \in i .. Len(e) + 1 :
        /\ k = Len(e) + 1 \/ e[k] = delim
        /\ \A j \in i .. k - 1 : e[j] # delim

\* First delimiter from i on that no backslash protects; past the end if none.
RECURSIVE FindDelim(_, _, _)
FindDelim(e, i, delim) ==
    IF i > Len(e) \/ e[i] = delim THEN i
    ELSE IF e[i] = "\\" /\ i < Len(e) THEN FindDelim(e, i + 2, delim)
    ELSE FindDelim(e, i + 1, delim)

Literal(segs, text) ==
    IF text = <<>> THEN segs ELSE Append(segs, [t |-> "lit", text |-> text, n |-> 0])
Special(segs, t, n) == Append(segs, [t |-> t, text |-> <<>>, n |-> n])

\* The replacement: literal text from beg on, back-references, case controls.
\* Every other escaped character stays with its backslash.
RECURSIVE Segments(_, _, _, _)
Segments(s, beg, cur, segs) ==
    LET before == Literal(segs, SubSeq(s, beg, cur - 1)) IN
    IF cur > Len(s) THEN before
    ELSE IF s[cur] = "&"
    THEN Segments(s, cur + 1, cur + 1, Special(before, "ref", 0))
    ELSE IF s[cur] = "\\"
    THEN Segments(s, cur + 2, cur + 2,
           CASE s[cur + 1] = "0" -> Special(before, "ref", 0)
             [] s[cur + 1] = "1" -> Special(before, "ref", 1)
             [] s[cur + 1] = "2" -> Special(before, "ref", 2)
             [] s[cur + 1] \in {"L", "l", "U", "u", "E"} -> Special(before, s[cur + 1], 0)
             [] s[cur + 1] \in {"\\", "&"} -> Literal(before, <<s[cur + 1]>>)
             [] s[cur + 1] = "t" -> Literal(before, <<"TAB">>)
             [] OTHER -> Literal(before, <<"\\", s[cur + 1]>>))
    ELSE Segments(s, beg, cur + 1, segs)

Flags(e, k) == SubSeq(e, k, FindDelim(e, k, ";") - 1)

\* An anchored expression is applied once, whatever its flags.
Anchored(re) == re[1] = "^" \/ re[Len(re)] = "$"

parse_transform_expr(e) ==
    LET delim == e[2]
        i     == FindDelim(e, 3, delim)
        j     == FindDelim(e, i + 1, delim)
        re    == SubSeq(e, 3, i - 1)
        flags == Flags(e, j + 1)
        Has(f) == f \in Range(flags)
        comp  == regcomp(re, Has("i"))
        segs  == Segments(SubSeq(e, i + 1, j - 1), 1, 1, <<>>)
        ok    == /\ e[1] = "s" /\ i <= Len(e) /\ j <= Len(e)
                 /\ Range(flags) \subseteq {"g", "i", "x", "1", "2", "3"}
                 /\ comp.ok
                 /\ \A k \in DOMAIN segs : segs[k].t = "ref" => segs[k].n <= comp.nsub
    IN  IF ~ok THEN [ok |-> FALSE]
        ELSE [ok |-> TRUE,
              tf |-> [pat |-> comp.pat, segs |-> segs,
                      global |-> Has("g") /\ ~Anchored(re),
                      number |-> CASE Has("1") -> 1 [] Has("2") -> 2
                                   [] Has("3") -> 3 [] OTHER -> 0],
              rest |-> SubSeq(e, j + 2 + Len(flags), Len(e))]

\* Expressions separated by semicolons, added to the list of the database.
RECURSIVE transform_compile_incr(_, _)
transform_compile_incr(e, list) ==
    IF e = <<>> THEN [ok |-> TRUE, list |-> list]
    ELSE LET r == parse_transform_expr(e)
         IN  IF ~r.ok THEN [ok |-> FALSE, list |-> <<>>]
             ELSE transform_compile_incr(r.rest, Append(list, r.tf))

sed_init_db ==
    /\ spc = "init"
    /\ LET Add(acc, a) == IF acc.ok THEN transform_compile_incr(a, acc.list) ELSE acc
           r == FoldLeft(Add, [ok |-> TRUE, list |-> <<>>], db.args)
       IN  /\ trs' = r.list
           /\ spc' = IF r.ok THEN "idle" ELSE "refused"
    /\ UNCHANGED <<db, key, xform, idx, rest, slist, output, nmatches, case_ctl, save_ctl,
                   cctl_buf, reply, queries, nomem>>

-----------------------------------------------------------------------------
(***************************************************************************)
(* Applying the expressions.                                               *)
(***************************************************************************)

\* Start of an expression: transform_string passes the original input to
\* every one of them.
Apply(k, i) ==
    /\ idx' = i
    /\ rest' = k
    /\ nmatches' = 0
    /\ case_ctl' = "E"
    /\ save_ctl' = "E"

Query(k, x) ==
    /\ spc = "idle"
    /\ queries < Queries
    /\ queries' = queries + 1
    /\ key' = k
    /\ xform' = x
    /\ output' = <<>>
    /\ reply' = "none"
    /\ Apply(k, 1)
    /\ spc' = IF trs = <<>> THEN "reply" ELSE "match"
    /\ UNCHANGED <<db, trs, slist, cctl_buf, nomem>>

run_case_conv(ctl, text) ==
    [k \in DOMAIN text |->
        CASE ctl = "U" \/ (ctl = "u" /\ k = 1) -> Up(text[k])
          [] ctl = "L" \/ (ctl = "l" /\ k = 1) -> Low(text[k])
          [] OTHER -> text[k]]

\* State of a replacement: the text so far, the case controls, whether the
\* conversion buffer exists, and whether it was used without existing.
Convert(st, text) ==
    IF st.ctl = "E" THEN [st EXCEPT !.out = @ \o text]
    ELSE [st EXCEPT !.out = @ \o run_case_conv(st.ctl, text),
                    !.buf = @ \/ text # <<>>,
                    !.crash = @ \/ (~st.buf /\ text = <<>> /\ st.ctl \in {"u", "l"}),
                    !.ctl = IF st.ctl \in {"u", "l"} THEN st.save ELSE @,
                    !.save = IF st.ctl \in {"u", "l"} THEN "E" ELSE @]

Segment(st, seg, m) ==
    CASE seg.t = "lit" -> Convert(st, seg.text)
      [] seg.t = "ref" -> Convert(st, SubSeq(rest, m.span[seg.n + 1][1], m.span[seg.n + 1][2] - 1))
      [] seg.t \in {"u", "l"} -> [st EXCEPT !.ctl = seg.t,
                                            !.save = IF @ \in {"E", "U", "L"} THEN st.ctl ELSE @]
      [] OTHER -> [st EXCEPT !.ctl = seg.t]

Replace(tf, m) ==
    FoldLeft(LAMBDA st, seg : Segment(st, seg, m),
             [out |-> <<>>, ctl |-> case_ctl, save |-> save_ctl,
              buf |-> cctl_buf, crash |-> FALSE],
             tf.segs)

\* A match before the one asked for is copied as it is, text before it included.
SkipMatch(tf, m) ==
    LET before == SubSeq(rest, 1, m.span[1][1] - 1)
        upto   == SubSeq(rest, 1, m.span[1][2] - 1)
    IN  /\ tf.number > 0 /\ nmatches + 1 < tf.number
        /\ slist' = slist \o before \o upto
        /\ rest' = SubSeq(rest, m.span[1][2], Len(rest))
        /\ spc' = IF rest' = <<>> THEN "reduce" ELSE "match"
        /\ UNCHANGED <<case_ctl, save_ctl, cctl_buf>>

ReplaceMatch(tf, m) ==
    LET before == SubSeq(rest, 1, m.span[1][1] - 1)
        after  == SubSeq(rest, m.span[1][2], Len(rest))
        r      == Replace(tf, m)
    IN  /\ ~(tf.number > 0 /\ nmatches + 1 < tf.number)
        /\ slist' = slist \o before \o r.out \o (IF tf.global THEN <<>> ELSE after)
        /\ rest' = after
        /\ spc' = IF r.crash THEN "crash"
                  ELSE IF ~tf.global \/ after = <<>> THEN "reduce" ELSE "match"
        /\ case_ctl' = r.ctl
        /\ save_ctl' = r.save
        /\ cctl_buf' = r.buf

Match ==
    LET tf == trs[idx]
        m  == regexec(tf.pat, rest)
    IN  /\ spc = "match"
        /\ rest # <<>>
        /\ Len(slist) < MaxOut
        /\ m.ok
        /\ SkipMatch(tf, m) \/ ReplaceMatch(tf, m)
        /\ nmatches' = nmatches + 1
        /\ UNCHANGED <<db, trs, key, xform, idx, output, reply, queries, nomem>>

\* The rest has no match, or there is no rest.
NoMatch ==
    /\ spc = "match"
    /\ Len(slist) < MaxOut
    /\ rest = <<>> \/ ~regexec(trs[idx].pat, rest).ok
    /\ slist' = slist \o rest
    /\ rest' = <<>>
    /\ spc' = "reduce"
    /\ UNCHANGED <<db, trs, key, xform, idx, output, nmatches, case_ctl, save_ctl, cctl_buf,
                   reply, queries, nomem>>

\* transform_append fails: transform_string returns, the pieces stay in the
\* list and the query is answered with onerror-reply or not at all.
NoMem ==
    /\ spc = "match"
    /\ Len(slist) >= MaxOut
    /\ nomem' = TRUE
    /\ reply' = "error"
    /\ spc' = "idle"
    /\ UNCHANGED <<db, trs, key, xform, idx, rest, slist, output, nmatches, case_ctl,
                   save_ctl, cctl_buf, queries>>

\* The list is turned into a string and emptied; the string replaces the one
\* the previous expression gave.
sed_slist_reduce ==
    /\ spc = "reduce"
    /\ output' = <<slist>>
    /\ slist' = <<>>
    /\ IF idx < Len(trs)
       THEN Apply(key, idx + 1) /\ spc' = "match"
       ELSE spc' = "reply" /\ UNCHANGED <<idx, rest, nmatches, case_ctl, save_ctl>>
    /\ UNCHANGED <<db, trs, key, xform, cctl_buf, reply, queries, nomem>>

\* sed_query compares the key with the output; without an expression there
\* is no output to compare with.
sed_query ==
    /\ spc = "reply"
    /\ ~xform
    /\ reply' = IF output = <<key>> THEN "negative" ELSE "positive"
    /\ spc' = IF output = <<>> THEN "crash" ELSE "idle"
    /\ slist' = <<>>
    /\ UNCHANGED <<db, trs, key, xform, idx, rest, output, nmatches, case_ctl, save_ctl,
                   cctl_buf, queries, nomem>>

sed_xform ==
    /\ spc = "reply"
    /\ xform
    /\ reply' = "output"
    /\ spc' = "idle"
    /\ UNCHANGED <<db, trs, key, xform, idx, rest, slist, output, nmatches, case_ctl,
                   save_ctl, cctl_buf, queries, nomem>>

sed_free_db ==
    /\ spc = "idle"
    /\ spc' = "freed"
    /\ trs' = <<>>
    /\ slist' = <<>>
    /\ cctl_buf' = FALSE
    /\ UNCHANGED <<db, key, xform, idx, rest, output, nmatches, case_ctl, save_ctl,
                   reply, queries, nomem>>

SInit ==
    /\ db \in Databases
    /\ trs = <<>> /\ spc = "init"
    /\ key = <<>> /\ xform = FALSE /\ idx = 1 /\ rest = <<>>
    /\ slist = <<>> /\ output = <<>> /\ nmatches = 0
    /\ case_ctl = "E" /\ save_ctl = "E" /\ cctl_buf = FALSE
    /\ reply = "none" /\ queries = 0 /\ nomem = FALSE

SNext ==
    \/ sed_init_db
    \/ \E k \in Keys, x \in BOOLEAN : Query(k, x)
    \/ Match
    \/ NoMatch
    \/ NoMem
    \/ sed_slist_reduce
    \/ sed_query
    \/ sed_xform
    \/ sed_free_db

-----------------------------------------------------------------------------
(***************************************************************************)
(* Reference: what GNU sed does, to which the manual refers, from what an  *)
(* expression means: [re, repl, global, number, icase], repl a list of     *)
(* <<"lit", text>>, <<"ref", n>> and <<"ctl", letter>>.                    *)
(***************************************************************************)

\* Case conversion, character by character: \u and \l hold for one character.
Spell(st, c) ==
    [st EXCEPT !.once = "E",
               !.out = Append(@, CASE st.once = "u" -> Up(c)
                                   [] st.once = "l" -> Low(c)
                                   [] st.once = "E" /\ st.mode = "U" -> Up(c)
                                   [] st.once = "E" /\ st.mode = "L" -> Low(c)
                                   [] OTHER -> c)]

Written(repl, s, m) ==
    LET Piece(st, r) ==
          CASE r[1] = "lit" -> FoldLeft(Spell, st, r[2])
            [] r[1] = "ref" -> FoldLeft(Spell, st, SubSeq(s, m.span[r[2] + 1][1],
                                                          m.span[r[2] + 1][2] - 1))
            [] r[1] = "ctl" /\ r[2] \in {"u", "l"} -> [st EXCEPT !.once = r[2]]
            [] OTHER -> [st EXCEPT !.mode = r[2], !.once = "E"]
    IN  FoldLeft(Piece, [out |-> <<>>, once |-> "E", mode |-> "E"], repl).out

RECURSIVE Substituted(_, _, _)
Substituted(e, s, count) ==
    LET m == regexec(regcomp(e.re, e.icase).pat, s)
        n == count + 1
        replaced == n = e.number \/ (e.number = 0 /\ (n = 1 \/ e.global))
                    \/ (e.global /\ n >= e.number)
        before == SubSeq(s, 1, m.span[1][1] - 1)
        after  == SubSeq(s, m.span[1][2], Len(s))
        this   == IF replaced THEN Written(e.repl, s, m)
                  ELSE SubSeq(s, m.span[1][1], m.span[1][2] - 1)
    IN  IF ~m.ok THEN s
        ELSE before \o this \o
             (IF m.span[1][2] = 1 \/ (replaced /\ ~e.global) THEN after
              ELSE Substituted(e, after, n))

Meant(k) == FoldLeft(LAMBDA s, e : Substituted(e, s, 0), k, db.means)

\* A case conversion that is still on at the end of the replacement.
Open(e) ==
    \E i \in DOMAIN e.repl :
        /\ e.repl[i][1] = "ctl" /\ e.repl[i][2] \in {"U", "L"}
        /\ \A j \in i + 1 .. Len(e.repl) : e.repl[j] # <<"ctl", "E">>

\* The delimiter is part of the replacement, where it needs a backslash.
EscapedDelimiter(e) ==
    \E i \in DOMAIN e.repl : e.repl[i][1] = "lit" /\ db.args[1][2] \in Range(e.repl[i][2])

MatchesEmpty(e) == regexec(regcomp(e.re, e.icase).pat, <<>>).ok

\* Expressions and keys on which the code is not known to depart from sed.  It
\* departs with several expressions in one database, each of which it applies
\* to the key, keeping the last output (transform.c:749; doc/smap.texi:2991,
\* "As in sed, you can give several replace expressions"); with a match
\* number above one, where the text before a match that is passed over comes
\* twice (629-638; doc/smap.texi:3013, "Only replace the numberth match");
\* with \u or \l before a group, which may be empty; with a match of the
\* empty string or an open case conversion together with the flag g; with a
\* replacement that has the delimiter in it, whose backslash stays (471-481);
\* and on the empty key, which it returns as it is even if the expression
\* matches it (616).
Plain ==
    /\ Len(db.means) = 1
    /\ LET e == db.means[1] IN
         /\ e.number <= 1
         /\ ~EscapedDelimiter(e)
         /\ key = <<>> => ~MatchesEmpty(e)
         /\ \A k \in 1 .. Len(e.repl) - 1 :
              e.repl[k] \in {<<"ctl", "u">>, <<"ctl", "l">>} => e.repl[k + 1][1] = "lit"
         /\ e.global => ~Open(e) /\ ~MatchesEmpty(e)

Answered == spc = "idle" /\ queries > 0 /\ ~nomem

(***************************************************************************)
(* Every well-formed expression is accepted, and a database with one       *)
(* expression gives for every key, query after query, the text sed would   *)
(* give, and the positive reply exactly when that text differs from the    *)
(* key, where Plain holds: delimiters, escapes, flags and references       *)
(* survive the compilation, the pieces of the output come in the right     *)
(* order, and nothing of an earlier query is left in the list the database *)
(* keeps.                                                                  *)
(***************************************************************************)
TransformAsDocumented ==
    /\ spc = "refused" => db.means = <<>>
    /\ Answered /\ Plain =>
        /\ output = <<Meant(key)>>
        /\ reply = IF xform THEN "output"
                   ELSE IF Meant(key) = key THEN "negative" ELSE "positive"
=============================================================================
