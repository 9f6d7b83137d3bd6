----------------------------- MODULE WordSplit -----------------------------
(***************************************************************************)
(* lib/wordsplit.c: one call of wordsplit() on one logical line of the     *)
(* configuration file (profiles "novar" and "vars") or on one template of  *)
(* a database module ("env" and "getvar", which set WRDSF_NOSPLIT).  The   *)
(* input is a sequence of characters over an alphabet that has one member  *)
(* per class the code tells apart.  Nodes of the list of segments are      *)
(* records; a segment [beg, end) of the input becomes a text in the        *)
(* expansion.  Flags no caller in the repository sets (SED_EXPR,           *)
(* RETURN_DELIMS, APPEND, DOOFFS, WS) are left out.                        *)
(***************************************************************************)
EXTENDS Naturals, Sequences, SequencesExt

CONSTANTS
    Inputs,     \* set of token sequences: the lines to split
    Env,        \* ws_env: a function from names (sequences of letters) to texts
    Profiles    \* subset of {"novar", "vars", "env", "getvar"}

VARIABLES
    tokens,     \* the line, as the tokens it was put together from
    prof,       \* which flags the caller set
    pc,         \* next stage of wordsplit_len
    start,      \* position scan_word starts at
    nodes,      \* list of nodes, ws_head first
    words,      \* ws_wordv
    errno       \* ws_errno: "", "quote" or "cbrace"

vars == <<tokens, prof, pc, start, nodes, words, errno>>

Letters == {"v", "e", "b", "u", "w", "t"}
Digits  == {"0", "1", "9"}
VarChr  == Letters \cup Digits
NUL     == "NUL"

(***************************************************************************)
(* The characters of a token.                                              *)
(***************************************************************************)
Chars(t) ==
    CASE t[1] = "lit"  -> <<t[2]>>
      [] t[1] = "esc"  -> <<"\\">> \o t[2]
      [] t[1] = "brc"  -> <<"$", "{">> \o t[2] \o <<"}">>
      [] t[1] = "dfl"  -> <<"$", "{">> \o t[2] \o <<":", "{", "w", "}", "}">>
      [] t[1] = "ref"  -> <<"$">> \o t[2] \o <<".">>

input == FlattenSeq([k \in DOMAIN tokens |-> Chars(tokens[k])])

Ch(k)       == IF k \in 1 .. Len(input) THEN input[k] ELSE NUL
Text(b, e)  == SubSeq(input, b, IF e - 1 > Len(input) THEN Len(input) ELSE e - 1)
IsDelim(c)  == c = " "

Quoting     == prof \in {"novar", "vars"}    \* WRDSF_QUOTE, WRDSF_CESCAPES
Commenting  == prof \in {"novar", "vars"}    \* WRDSF_COMMENT

SegmNode(b, e, quote, noexpand, join) ==
    [beg |-> b, end |-> e, quote |-> quote, noexpand |-> noexpand, join |-> join]

WordNode(text, noexpand, join, null) ==
    [text |-> text, noexpand |-> noexpand, join |-> join, null |-> null]

JoinLast(ns) ==
    IF ns = <<>> THEN ns ELSE [ns EXCEPT ![Len(ns)].join = TRUE]

-----------------------------------------------------------------------------
(***************************************************************************)
(* Scanning.                                                               *)
(***************************************************************************)

\* An empty segment is kept only for a quoted string (_WSNF_EMPTYOK).
wordsplit_add_segm(ns, b, e, join) ==
    IF e = b THEN ns ELSE Append(ns, SegmNode(b, e, FALSE, FALSE, join))

\* Fault: a backslash does not protect a double quote.
scan_qstring_NoEscape(s) ==
    LET RECURSIVE Find(_)
        Find(j) == IF j > Len(input) THEN 0 ELSE IF Ch(j) = Ch(s) THEN j ELSE Find(j + 1)
    IN  Find(s + 1)

\* The closing quote of the string opened at position s, 0 when there is none.
scan_qstring(s) ==
    LET RECURSIVE Find(_)
        Find(j) == IF j > Len(input) THEN 0
                   ELSE IF Ch(j) = Ch(s) THEN j
                   ELSE IF Ch(s) = "\"" /\ Ch(j) = "\\" THEN Find(j + 2)
                   ELSE Find(j + 1)
    IN  Find(s + 1)

\* The loop of scan_word: st is the start of the current segment and jn is
\* set once the word has had a quoted part.
RECURSIVE ScanLoop(_, _, _, _)
ScanLoop(i, st, jn, ns) ==
    IF i <= Len(input) /\ Commenting /\ Ch(i) = "#"
    THEN [err |-> FALSE, endp |-> Len(input) + 1,
          nodes |-> wordsplit_add_segm(ns, st, i, FALSE)]
    ELSE IF i <= Len(input) /\ Quoting /\ Ch(i) = "\\" /\ i < Len(input)
    THEN ScanLoop(i + 2, st, jn, ns)
    ELSE IF i <= Len(input) /\ Quoting /\ Ch(i) \in {"'", "\""}
    THEN LET close == scan_qstring(i)
             ns1   == IF jn THEN JoinLast(ns) ELSE ns
             ns2   == wordsplit_add_segm(ns1, st, i, TRUE)
         IN  IF close = 0
             THEN [err |-> TRUE, endp |-> i, nodes |-> ns2]
             ELSE ScanLoop(close + 1, close + 1, TRUE,
                           Append(ns2, SegmNode(i + 1, close, TRUE,
                                                Ch(i) = "'", FALSE)))
    ELSE IF i <= Len(input) /\ ~IsDelim(Ch(i)) /\ ~(Quoting /\ Ch(i) = "\\")
    THEN ScanLoop(i + 1, st, jn, ns)
    ELSE LET e   == IF i <= Len(input) /\ Ch(i) = "\\" THEN i + 1 ELSE i
             ns1 == IF jn /\ e > st THEN JoinLast(ns) ELSE ns
         IN  [err |-> FALSE, endp |-> e,
              nodes |-> wordsplit_add_segm(ns1, st, e, FALSE)]

\* Position of the next word: delimiters are squeezed.
RECURSIVE skip_delim(_)
skip_delim(k) == IF k <= Len(input) /\ IsDelim(Ch(k)) THEN skip_delim(k + 1) ELSE k

scan_word ==
    /\ pc = "scan"
    /\ start <= Len(input)
    /\ LET r == IF IsDelim(Ch(start))
                THEN [err |-> FALSE, endp |-> start, nodes |-> nodes]
                ELSE ScanLoop(start, start, FALSE, nodes)
       IN  /\ nodes' = IF r.err THEN <<>> ELSE r.nodes
           /\ errno' = IF r.err THEN "quote" ELSE errno
           /\ pc' = IF r.err THEN "done" ELSE pc
           /\ start' = skip_delim(r.endp + 1)
    /\ UNCHANGED <<tokens, prof, words>>

\* The list is complete; its last node is made not joinable.
ScanEnd ==
    /\ pc = "scan"
    /\ start > Len(input)
    /\ nodes' = IF nodes = <<>> THEN nodes
                ELSE [nodes EXCEPT ![Len(nodes)].join = FALSE]
    /\ pc' = "expand"
    /\ UNCHANGED <<tokens, prof, start, words, errno>>

\* WRDSF_NOSPLIT: the whole input is one quoted argument.
NoSplit ==
    /\ pc = "nosplit"
    /\ nodes' = IF input = <<>> THEN <<>>
                ELSE <<SegmNode(1, Len(input) + 1, TRUE, FALSE, FALSE)>>
    /\ pc' = "expand"
    /\ UNCHANGED <<tokens, prof, start, words, errno>>

-----------------------------------------------------------------------------
(***************************************************************************)
(* Variable expansion.                                                     *)
(***************************************************************************)

\* Position of the brace that closes the default value begun at i, 0 if none
\* is found before the limit.  at is the position, skip says that it follows a
\* backslash.
find_closing_cbrace(i, limit) ==
    LET Step(a, c) ==
          LET next == [a EXCEPT !.at = @ + 1, !.skip = FALSE] IN
          IF a.found # 0 THEN a
          ELSE IF a.skip THEN next
          ELSE CASE a.state = "squote" /\ c = "'"  -> [next EXCEPT !.state = "init"]
                 [] a.state = "dquote" /\ c = "\\" -> [next EXCEPT !.skip = TRUE]
                 [] a.state = "dquote" /\ c = "\"" -> [next EXCEPT !.state = "init"]
                 [] a.state = "init" /\ c = "\""   -> [next EXCEPT !.state = "dquote"]
                 [] a.state = "init" /\ c = "'"    -> [next EXCEPT !.state = "squote"]
                 [] a.state = "init" /\ c = "{"    -> [next EXCEPT !.level = @ + 1]
                 [] a.state = "init" /\ c = "}"    ->
                      [next EXCEPT !.level = @ - 1, !.found = IF a.level = 1 THEN a.at ELSE 0]
                 [] OTHER -> next
    IN  FoldLeft(Step, [at |-> i, found |-> 0, skip |-> FALSE, level |-> 1, state |-> "init"],
                 Text(i, limit)).found

\* First position from i on whose character is not in S, or the limit.
Skip(i, limit, S) ==
    CHOOSE k \in i .. (IF limit > i THEN limit ELSE i) :
        /\ k >= limit \/ Ch(k) \notin S
        /\ \A j \in i .. k - 1 : Ch(j) \in S

\* The name and the last position of the reference whose text begins at s,
\* after the dollar sign.  The limit the caller passes lies past the end of
\* the node: by one character for the first reference of a node, by more for
\* the ones that follow.
Reference(s, limit) ==
    LET inBraces == ({Ch(k) : k \in s .. limit} \ {"}", ":"})
    IN  IF Ch(s) \in Letters
        THEN LET e == Skip(s + 1, limit, VarChr)
             IN  [kind |-> "var", name |-> Text(s, e), pend |-> e - 1]
        ELSE IF Ch(s) = "{"
        THEN LET e == Skip(s + 2, limit, inBraces)
                 j == IF Ch(e) = ":" THEN find_closing_cbrace(e + 1, limit)
                      ELSE IF Ch(e) = "}" THEN e ELSE 0
             IN  [kind |-> IF j = 0 THEN "error" ELSE "var",
                  name |-> Text(s + 1, e), pend |-> j]
        ELSE [kind |-> "other", name |-> <<>>, pend |-> s]

\* The words of a value that is inserted unquoted: wordsplit() with no flags
\* but WRDSF_SQUEEZE_DELIMS.
Fields(value) ==
    LET Put(acc, c) ==
          IF IsDelim(c) THEN [acc EXCEPT !.open = FALSE]
          ELSE IF acc.open
               THEN [acc EXCEPT !.out[Len(acc.out)] = Append(@, c)]
               ELSE [open |-> TRUE, out |-> Append(acc.out, <<c>>)]
    IN  FoldLeft(Put, [open |-> FALSE, out |-> <<>>], value).out

\* The value of a variable as <<value>>, <<>> when it has none.
wordsplit_find_env(name) == IF name \in DOMAIN Env THEN <<Env[name]>> ELSE <<>>

\* The nodes that an unquoted reference to a variable with a value becomes.
FieldNodes(node, fields) ==
    [k \in DOMAIN fields |-> WordNode(fields[k], TRUE, k = Len(fields) /\ node.join, FALSE)]

\* The nodes a reference is replaced with; found is the value as <<value>>.
Replacement(node, s, ref, found) ==
    IF ref.kind = "other"
    THEN <<WordNode(<<"$">> \o Text(s, s + 1), FALSE, node.join, FALSE)>>
    ELSE IF found = <<>> /\ prof = "vars"            \* WRDSF_KEEPUNDEF
    THEN <<WordNode(Text(s - 1, ref.pend + 1), TRUE, node.join, FALSE)>>
    ELSE IF found = <<>> /\ prof = "getvar"          \* ws_getvar found nothing
    THEN <<WordNode(<<>>, FALSE, FALSE, TRUE)>>
    ELSE IF node.quote
    THEN <<WordNode(FlattenSeq(found), TRUE, node.join, FALSE)>>
    ELSE IF FlattenSeq(found) = <<>>
    THEN <<WordNode(<<>>, FALSE, FALSE, TRUE)>>
    ELSE FieldNodes(node, Fields(found[1]))

Expansion(node, s, ref) ==
    [err |-> ref.kind = "error", pend |-> ref.pend,
     nodes |-> Replacement(node, s, ref, wordsplit_find_env(ref.name))]

expvar(node, s, limit) == Expansion(node, s, Reference(s, limit))

\* Fault: the text is not joined with what follows it.
Prefix_NoJoin(b, e, join) ==
    IF e > b THEN <<WordNode(Text(b, e), FALSE, FALSE, FALSE)>> ELSE <<>>

\* node_split_prefix: the text before a reference, or after the last one.
Prefix(b, e, join) ==
    IF e > b THEN <<WordNode(Text(b, e), FALSE, join, FALSE)>> ELSE <<>>

\* A node that contains no reference and no text stays as it is.
AsWord(node) == WordNode(Text(node.beg, node.end), node.noexpand, node.join, FALSE)

\* The node is read up to its end; p is where the next character to look at
\* is, str where the text after the last reference begins.
node_expand_vars(node) ==
    LET Replaced(a, k, x) ==
          [p |-> x.pend + 1, str |-> x.pend + 1, err |-> x.err,
           nodes |-> JoinLast(a.nodes) \o Prefix(a.str, k, TRUE) \o x.nodes]
        Step(a, k) ==
          IF a.err \/ k < a.p THEN a
          ELSE IF Ch(k) = "\\" THEN [a EXCEPT !.p = k + 2]
          ELSE IF Ch(k) # "$"  THEN [a EXCEPT !.p = k + 1]
          ELSE Replaced(a, k, expvar(node, k + 1, a.str + (node.end - node.beg) + 1))
        Rest(a) == IF a.p > a.str THEN JoinLast(a.nodes) \o Prefix(a.str, a.p, node.join)
                   ELSE a.nodes
        Whole(ns) == IF ns = <<>> THEN <<AsWord(node)>> ELSE ns
        Result(a) == IF a.err THEN [err |-> TRUE, nodes |-> <<>>]
                     ELSE [err |-> FALSE, nodes |-> Whole(Rest(a))]
        Start == [p |-> node.beg, str |-> node.beg, err |-> FALSE, nodes |-> <<>>]
        Positions == [k \in 1 .. node.end - node.beg |-> node.beg + k - 1]
    IN  IF node.noexpand THEN [err |-> FALSE, nodes |-> <<AsWord(node)>>]
        ELSE Result(FoldLeft(Step, Start, Positions))

\* Fault: the join flag outlives the node it refers to.
RemoveNull_KeepJoin(ns) == SelectSeq(ns, LAMBDA n : ~n.null)

\* wsnode_remove of every null node.  Only the removal of the last node of the
\* list resets the join flag of the one before it.
RemoveNull(ns) ==
    LET kept == SelectSeq(ns, LAMBDA n : ~n.null)
    IN  IF ns # <<>> /\ Last(ns).null /\ kept # <<>>
        THEN [kept EXCEPT ![Len(kept)].join = FALSE]
        ELSE kept

\* The lists that the nodes expand to replace them, unless one has failed.
Substitute(xs) ==
    LET bad == \E k \in DOMAIN xs : xs[k].err
    IN  /\ nodes' = IF bad THEN <<>>
                    ELSE RemoveNull(FlattenSeq([k \in DOMAIN xs |-> xs[k].nodes]))
        /\ errno' = IF bad THEN "cbrace" ELSE errno
        /\ pc' = IF bad THEN "done" ELSE "unquote"

wordsplit_varexp ==
    /\ pc = "expand"
    /\ Substitute([k \in DOMAIN nodes |->
                     IF prof = "novar" THEN [err |-> FALSE, nodes |-> <<AsWord(nodes[k])>>]
                     ELSE node_expand_vars(nodes[k])])
    /\ UNCHANGED <<tokens, prof, start, words>>

-----------------------------------------------------------------------------
(***************************************************************************)
(* Quote removal, coalescing, and the words.                               *)
(***************************************************************************)

wordsplit_c_unquote_char(c) == IF c = "t" THEN "TAB" ELSE c

\* The digits of a number in the given base from position k of s on, at most
\* cnt of them.
xtonum(s, k, base, cnt) ==
    LET Val(c) == CASE c = "0" -> 0 [] c = "1" -> 1 [] c = "9" -> 9 [] OTHER -> 255
        Run[j \in 0 .. cnt] ==
            IF j < cnt /\ k + j <= Len(s) /\ Val(s[k + j]) < base
            THEN 1 + Run[j + 1] ELSE 0
        n == Run[0]
    IN  [off |-> n,
         val |-> FoldLeft(LAMBDA v, c : v * base + Val(c), 0, SubSeq(s, k, k + n - 1))]

RECURSIVE wordsplit_c_unquote_copy(_)
wordsplit_c_unquote_copy(s) ==
    IF s = <<>> THEN <<>>
    ELSE IF s[1] # "\\" THEN <<s[1]>> \o wordsplit_c_unquote_copy(Tail(s))
    ELSE IF Len(s) = 1 THEN <<>>        \* the terminating zero is copied
    ELSE LET hex == s[2] = "x"
             num == IF hex THEN xtonum(s, 3, 16, 2) ELSE xtonum(s, 2, 8, 3)
         IN  IF hex /\ num.off > 0
             THEN <<<<"code", num.val>>>>
                  \o wordsplit_c_unquote_copy(SubSeq(s, 3 + num.off, Len(s)))
             ELSE IF ~hex /\ s[2] \in Digits /\ num.off > 0
             THEN <<<<"code", num.val>>>>
                  \o wordsplit_c_unquote_copy(SubSeq(s, 2 + num.off, Len(s)))
             ELSE IF hex \/ s[2] \in Digits
             THEN <<"\\", s[2]>> \o wordsplit_c_unquote_copy(SubSeq(s, 3, Len(s)))
             ELSE <<wordsplit_c_unquote_char(s[2])>>
                  \o wordsplit_c_unquote_copy(SubSeq(s, 3, Len(s)))

wsnode_quoteremoval ==
    /\ pc = "unquote"
    /\ nodes' = IF Quoting
                THEN [k \in DOMAIN nodes |->
                        IF nodes[k].noexpand THEN nodes[k]
                        ELSE [nodes[k] EXCEPT !.text = wordsplit_c_unquote_copy(@)]]
                ELSE nodes
    /\ pc' = "coalesce"
    /\ UNCHANGED <<tokens, prof, start, words, errno>>

\* coalesce_segment on every node with the join flag: such a node is merged
\* with its successors up to the first one that has no flag.
Coalesced(ns) ==
    LET Put(acc, n) ==
          IF acc.open
          THEN [open |-> n.join, out |-> [acc.out EXCEPT ![Len(acc.out)] = @ \o n.text]]
          ELSE [open |-> n.join, out |-> Append(acc.out, n.text)]
    IN  FoldLeft(Put, [open |-> FALSE, out |-> <<>>], ns).out

\* A join flag on the last node makes coalesce_segment follow a null pointer.
wsnode_coalesce ==
    /\ pc = "coalesce"
    /\ pc' = IF nodes # <<>> /\ Last(nodes).join THEN "crash" ELSE "done"
    /\ words' = Coalesced(nodes)        \* wordsplit_finish
    /\ nodes' = <<>>                    \* wordsplit_free_nodes
    /\ UNCHANGED <<tokens, prof, start, errno>>

Init ==
    /\ tokens \in Inputs
    /\ prof \in Profiles
    /\ pc = IF prof \in {"env", "getvar"} THEN "nosplit" ELSE "scan"
    /\ start = 1
    /\ nodes = <<>>
    /\ words = <<>>
    /\ errno = ""

Next ==
    \/ scan_word
    \/ ScanEnd
    \/ NoSplit
    \/ wordsplit_varexp
    \/ wsnode_quoteremoval
    \/ wsnode_coalesce

Spec == Init /\ [][Next]_vars

-----------------------------------------------------------------------------
(***************************************************************************)
(* Reference: what the manual says of a configuration line, token by token *)
(* (doc/smap.texi, "Smapd Configuration File").                            *)
(***************************************************************************)
Lexer == [mode |-> "none", cur |-> <<>>, open |-> FALSE, out |-> <<>>, stop |-> FALSE]

\* Text t goes on with the current word.
Put(l, t) == [l EXCEPT !.cur = @ \o t, !.open = TRUE]

\* The current word, if any, is complete.
Cut(l) == IF l.open THEN [l EXCEPT !.out = Append(@, l.cur), !.cur = <<>>, !.open = FALSE]
          ELSE l

PutFields(l, fs) ==
    IF fs = <<>> THEN l
    ELSE FoldLeft(LAMBDA a, f : Put(Cut(a), f), Put(l, fs[1]), Tail(fs))

Value(t, l) ==
    IF prof # "novar" /\ t[2] \in DOMAIN Env
    THEN IF l.mode = "none" THEN PutFields(l, Fields(Env[t[2]])) ELSE Put(l, Env[t[2]])
    ELSE Put(l, IF t[1] = "ref" THEN <<"$">> \o t[2] ELSE Chars(t))

\* The manual's table of escape sequences, of which the alphabet has one: any
\* other character after a backslash stands for itself.
Unescaped(s) == <<IF s[1] = "t" THEN "TAB" ELSE s[1]>> \o Tail(s)

Lex(l, t) ==
    LET quote == t[1] = "lit" /\ t[2] \in {"'", "\""} IN
    CASE l.stop -> l
      [] ~l.stop /\ quote /\ l.mode = "none" -> Put([l EXCEPT !.mode = t[2]], <<>>)
      [] ~l.stop /\ quote /\ l.mode = t[2]   -> [l EXCEPT !.mode = "none"]
      [] ~l.stop /\ t[1] = "lit" /\ t[2] = " " /\ l.mode = "none" -> Cut(l)
      [] ~l.stop /\ t[1] = "lit" /\ t[2] = "#" /\ l.mode = "none" -> [l EXCEPT !.stop = TRUE]
      [] ~l.stop /\ l.mode # "'" /\ t[1] = "esc" -> Put(l, Unescaped(t[2]))
      [] ~l.stop /\ l.mode # "'" /\ t[1] \in {"brc", "dfl"} -> Value(t, l)
      [] ~l.stop /\ l.mode # "'" /\ t[1] = "ref" -> Put(Value(t, l), <<".">>)
      [] OTHER -> Put(l, Chars(t))

LexedUpTo(k) == FoldLeft(Lex, Lexer, SubSeq(tokens, 1, k))

ReferenceWords ==
    LET l == LexedUpTo(Len(tokens))
    IN  IF ~l.stop /\ l.mode # "none" THEN <<>> ELSE Cut(l).out

\* Lines on which the code is known to depart from the manual: an unquoted
\* reference to a variable without a word in its value that is glued to the
\* text before it, or whose value is blank but not empty, and a comment glued
\* to a word that has a quoted part.
Awkward ==
    \E k \in DOMAIN tokens :
        LET l == LexedUpTo(k - 1)
            t == tokens[k]
        IN  /\ ~l.stop /\ l.mode = "none"
            /\ \/ /\ prof = "vars" /\ t[1] \in {"brc", "dfl", "ref"}
                  /\ t[2] \in DOMAIN Env /\ Fields(Env[t[2]]) = <<>>
                  /\ l.open \/ Env[t[2]] # <<>>
               \/ /\ t = <<"lit", "#">> /\ l.open
                  /\ \E j \in 1 .. k - 1 : tokens[j] \in {<<"lit", "'">>, <<"lit", "\"">>}

\* An escape sequence in octal or hexadecimal.  wordsplit_c_unquote_copy reads
\* \x1 and \1 as character codes and leaves the backslash of \9 in place,
\* against doc/smap.texi:1301-1302, "A \ followed by any character not listed
\* in the table above is replaced with that character alone": the table has
\* no numbers.
NumericEscape ==
    \E k \in DOMAIN tokens :
        /\ tokens[k][1] = "esc" /\ tokens[k][2][1] \in {"x"} \cup Digits
        /\ ~LexedUpTo(k - 1).stop /\ LexedUpTo(k - 1).mode # "'"

(***************************************************************************)
(* Outside the awkward lines and without numeric escapes, the words        *)
(* parse_config_loop gets are the ones the manual describes: quotes,       *)
(* escapes, comments and references in any order give the same words       *)
(* whichever nodes the line is cut into, and an unclosed quote is          *)
(* reported.                                                               *)
(***************************************************************************)
WordsAsDocumented ==
    pc = "done" /\ prof \in {"novar", "vars"} /\ ~Awkward /\ ~NumericEscape =>
        /\ words = ReferenceWords
        /\ (errno = "quote") = LET l == LexedUpTo(Len(tokens))
                              IN  ~l.stop /\ l.mode # "none"

\* The text of a template with its references replaced.
Filled ==
    FlattenSeq([k \in DOMAIN tokens |->
        IF tokens[k][1] \in {"brc", "dfl", "ref"}
        THEN (IF tokens[k][2] \in DOMAIN Env THEN Env[tokens[k][2]] ELSE <<>>)
             \o (IF tokens[k][1] = "ref" THEN <<".">> ELSE <<>>)
        ELSE Chars(tokens[k])])

(***************************************************************************)
(* A template of a database module gives at most one word, the template    *)
(* with every reference replaced by its value; there is no word at all     *)
(* only when the text is empty (do_query and send_reply of the modules use *)
(* ws_wordv[0] without looking at ws_wordc).                               *)
(***************************************************************************)
TemplateIsOneWord ==
    pc = "done" /\ prof \in {"env", "getvar"} =>
        \/ words = <<Filled>>
        \/ words = <<>> /\ Filled = <<>>

(***************************************************************************)
(* coalesce_segment never runs past the end of the list, unless a variable *)
(* whose value is blank but not empty is referenced outside quotes.        *)
(***************************************************************************)
JoinEndsInList ==
    pc = "crash" => \E k \in DOMAIN tokens :
        /\ tokens[k][1] \in {"brc", "dfl", "ref"} /\ LexedUpTo(k - 1).mode = "none"
        /\ tokens[k][2] \in DOMAIN Env
        /\ Env[tokens[k][2]] # <<>> /\ Fields(Env[tokens[k][2]]) = <<>>
=============================================================================
