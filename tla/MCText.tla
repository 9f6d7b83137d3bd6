------------------------------- MODULE MCText -------------------------------
(* Word splitting, the configuration file, module options, the sed module  *)
(* and the client's shell: components that read text, in one run; part     *)
(* says which of them a behaviour is about.                                *)
EXTENDS WordSplit, Sed, Config, Options, Smapc, TLC

CONSTANT MaxTokens

VARIABLE part

Lit(c) == <<"lit", c>>

MCTokens ==
    {Lit("w"), Lit(" "), Lit("'"), Lit("\""), Lit("#"),
     <<"esc", <<"t">>>>, <<"esc", <<"\"">>>>, <<"esc", <<"x", "1">>>>, <<"esc", <<"9">>>>,
     <<"brc", <<"v">>>>, <<"ref", <<"e">>>>, <<"brc", <<"b">>>>, <<"dfl", <<"u">>>>}

\* All lines of up to MaxTokens tokens, and longer ones over fewer tokens.
MCInputs ==
    UNION {[1 .. n -> MCTokens] : n \in 0 .. MaxTokens}
    \cup [1 .. MaxTokens + 2 -> {Lit("w"), Lit(" "), Lit("\""), Lit("#"), <<"brc", <<"v">>>>}]

MCEnv == (<<"v">> :> <<"w", " ", "w", "'">>) @@ (<<"e">> :> <<>>) @@ (<<"b">> :> <<" ">>)

\* The characters of a string.
S(str) == [k \in 1 .. Len(str) |-> SubSeq(str, k, k)]

Means(re, repl, global, number, icase) ==
    [re |-> S(re), repl |-> repl, global |-> global, number |-> number, icase |-> icase]
T(str) == <<"lit", S(str)>>
R(n)   == <<"ref", n>>
C(l)   == <<"ctl", l>>
D(args, means) == [args |-> args, means |-> means]

\* For an anchored expression the flag g adds nothing to what is meant.
MCDatabases == {
    D(<<S("s/a/b/")>>,           <<Means("a", <<T("b")>>, FALSE, 0, FALSE)>>),
    D(<<S("s,A,/&,gi")>>,        <<Means("A", <<T("/"), R(0)>>, TRUE, 0, TRUE)>>),
    D(<<S("s/\\/*b/x\\&/1;")>>,  <<Means("/*b", <<T("x&")>>, FALSE, 1, FALSE)>>),
    D(<<S("s,(a*)b,\\1\\1/,")>>, <<Means("(a*)b", <<R(1), R(1), T("/")>>, FALSE, 0, FALSE)>>),
    D(<<S("s/ab*/\\U&b\\Ea/g")>>, <<Means("ab*", <<C("U"), R(0), T("b"), C("E"), T("a")>>, TRUE, 0, FALSE)>>),
    D(<<S("s/(b*)a/\\u\\1b/")>>, <<Means("(b*)a", <<C("u"), R(1), T("b")>>, FALSE, 0, FALSE)>>),
    D(<<S("s/^a*/b/g")>>,        <<Means("^a*", <<T("b")>>, FALSE, 0, FALSE)>>),
    D(<<S("s/b$/\\uab\\t&/")>>,  <<Means("b$", <<C("u"), T("ab"), <<"lit", <<"TAB">>>>, R(0)>>, FALSE, 0, FALSE)>>),
    D(<<S("s/b*/a/g")>>,         <<Means("b*", <<T("a")>>, TRUE, 0, FALSE)>>),
    D(<<S("s/a/\\//")>>,         <<Means("a", <<T("/")>>, FALSE, 0, FALSE)>>),
    D(<<S("s/a/b/2")>>,          <<Means("a", <<T("b")>>, FALSE, 2, FALSE)>>),
    D(<<S("s/a/b/;s/b/a/")>>,    <<Means("a", <<T("b")>>, FALSE, 0, FALSE),
                                   Means("b", <<T("a")>>, FALSE, 0, FALSE)>>),
    D(<<S("s/a/b/q")>>,          <<>>),
    D(<<S("s/a/\\1/")>>,         <<>>),
    D(<<S("s/a/b")>>,            <<>>),
    D(<<>>,                      <<>>) }

MCKeys == UNION {[1 .. n -> {"a", "b", "/"}] : n \in 0 .. 3}

Line(ws, rule) == [words |-> ws, cont |-> FALSE, quote |-> FALSE, means |-> rule]
Stmt(ws)       == <<Line(ws, <<>>)>>
Rule(conds, d, x) == <<[conds |-> conds, db |-> d, xform |-> x]>>

MCVariables == {"$v", "$w"}
MCAddresses ==
    ("4/1" :> [is |-> "netlen", addr |-> 8, mask |-> 1]) @@
    ("0/0" :> [is |-> "netlen", addr |-> 0, mask |-> 0]) @@
    ("host" :> [is |-> "host", addr |-> 6, mask |-> 0]) @@
    ("0/0.3" :> [is |-> "dotted", addr |-> 2, mask |-> 3]) @@
    ("/s" :> [is |-> "unix", addr |-> "/s", mask |-> 0])

MCNumbers == [w \in {"5", "9", "-1"} |-> CASE w = "5" -> 5 [] w = "9" -> 9 [] w = "-1" -> -1]
MCModes == [w \in {"640", "rw-r-----", "r-"} |-> S(w)]

\* What may stand before a dispatch statement.
MCStatements == {
    Stmt(<<>>),
    Stmt(<<"=", "$v", "d1">>), Stmt(<<"=", "$v", "d2">>), Stmt(<<"=", "$w", "$v">>),
    Stmt(<<"=", "$w", "d1", "d2">>),
    Stmt(<<"module", "m", "echo">>), Stmt(<<"module", "m">>),
    Stmt(<<"database", "d", "m">>), Stmt(<<"database">>),
    Stmt(<<"server", "a", "url">>), Stmt(<<"server", "a", "bad", "begin">>),
    Stmt(<<"server", "a", "url", "end">>), Stmt(<<"server", "$v", "url", "begin">>),
    Stmt(<<"user", "nobody">>), Stmt(<<"end">>), Stmt(<<"$v">>),
    Stmt(<<"backlog", "$v">>), Stmt(<<"backlog", "-1">>), Stmt(<<"idle-timeout", "-1">>),
    Stmt(<<"max-children", "9">>), Stmt(<<"backlog", "9">>), Stmt(<<"backlog", "5">>),
    Stmt(<<"socket-mode", "640">>), Stmt(<<"socket-mode", "rw-r-----">>),
    Stmt(<<"socket-mode", "rwxrwxrwx", "0">>), Stmt(<<"socket-mode", "r-">>),
    Stmt(<<"foreground", "nil">>), Stmt(<<"single-process", "on">>),
    <<[words |-> <<"module">>, cont |-> TRUE, quote |-> FALSE, means |-> <<>>]>>,
    <<[words |-> <<"module">>, cont |-> FALSE, quote |-> TRUE, means |-> <<>>]>> }

\* Arguments of dispatch and the rule meant by them.
MCDispatches == {
    Line(<<"default", "database", "$v">>, Rule(<<>>, "$v", "none")),
    Line(<<"database", "$v", "map", "$w">>, Rule(<<<<"map", "eq", "$w">>>>, "$v", "none")),
    Line(<<"not", "not", "key", "like", "$v", "from", "4/1", "database", "d">>,
         Rule(<<<<"not", <<"not", <<"key", "like", "$v">>>>>>, <<"from", "4/1">>>>, "d", "none")),
    Line(<<"server", "$w", "map", "regexp", "re", "transform", "key", "d">>,
         Rule(<<<<"server", "$w">>, <<"map", "regexp", "re">>>>, "d", "key")),
    Line(<<"from", "/s", "not", "from", "0/0", "key", "is", "is", "transform", "map", "$w">>,
         Rule(<<<<"from", "/s">>, <<"not", <<"from", "0/0">>>>, <<"key", "eq", "is">>>>, "$w", "map")),
    Line(<<"key", "not", "from", "host", "database", "d">>,
         Rule(<<<<"key", "eq", "not">>, <<"from", "host">>>>, "d", "none")) } \cup
    {Line(ws, <<>>) : ws \in {
        <<"from", "0/0.3", "database", "d">>, <<"from", "nohost", "database", "d">>,
        <<"database", "d", "map", "regexp", "(">>, <<"map", "like", "database", "d">>,
        <<"not", "database", "d">>, <<"transform", "like", "d">>, <<"transform", "d">>,
        <<"database", "d", "database", "e">>, <<"like", "database", "d", "junk">>,
        <<"default", "database">>, <<"default", "map", "d">>, <<"map">>, <<"server">>}}

\* The statement on one line, or broken after each of its words.
Layouts(line) ==
    LET ws == <<"dispatch">> \o line.words
    IN  {<<[line EXCEPT !.words = ws]>>} \cup
        {<<[line EXCEPT !.words = SubSeq(ws, 1, n), !.cont = TRUE],
           Line(SubSeq(ws, n + 1, Len(ws)), <<>>)>> : n \in 1 .. Len(ws)}

\* Two statements of any kind before a dispatch on one line, or one before a
\* dispatch broken anywhere, or four about variables and blocks.
MCFiles ==
    LET some == {Stmt(<<"=", "$v", "d1">>), Stmt(<<"=", "$v", "d2">>),
                 Stmt(<<"=", "$w", "$v">>), Stmt(<<"server", "$v", "url", "begin">>),
                 Stmt(<<"end">>)}
        OneLine(d) == <<[d EXCEPT !.words = <<"dispatch">> \o @]>>
    IN  {p \o q \o OneLine(d) : p \in MCStatements, q \in MCStatements, d \in MCDispatches}
        \cup {p \o l : p \in MCStatements, l \in UNION {Layouts(d) : d \in MCDispatches}}
        \cup {b \o p \o <<Line(<<"end">>, <<>>)>> \o q : p \in MCStatements, q \in MCStatements,
                b \in {Stmt(<<"server", "a", "url", "begin">>)}}
        \cup {p \o q \o r \o t \o OneLine(d) : p \in some, q \in some, r \in some, t \in some,
                d \in {x \in MCDispatches : x.means # <<>>}}

Opt(name, type, to, v) == [name |-> S(name), type |-> type, data |-> to, v |-> v]
MCTables ==
    {<<Opt("ic", "bitmask", "icase", 0), Opt("r", "string", "reply", 0), Opt("tls", "bool", "tls", 0)>>,
     <<Opt("tls", "enum", "mode", <<S("a"), S("no")>>), Opt("t", "long", "port", 0),
       Opt("nu", "bool", "nu", 0)>>,
     <<Opt("f", "null", "file", 0), Opt("on", "bitmask", "bit", 0), Opt("off", "bitmask_rev", "bit", 0),
       Opt("r", "const_string", "reply", 0), Opt("std", "const", "reply", S("x"))>>}

MCArgs == {S("ic"), S("r=x"), S("r="), S("tls"), S("notls"), S("nor=x"), S("tls=no"), S("tls=b"),
           S("t=10"), S("t=1x"), S("nu"), S("nonu"), S("s/a/b/")}
MCMoreArgs == {S(t) : t \in {"t=", "t=010", "t=09", "t=-0x1f", "t=99", "t=0x", "noic", "icx", "nonux",
                             "f", "f=z", "fz", "on", "off", "std"}}
MCArgLists == UNION {[1 .. n -> MCArgs] : n \in 0 .. 3} \cup [1 .. 2 -> MCArgs \cup MCMoreArgs] \cup
              [1 .. 3 -> {S("f=z"), S("on"), S("off"), S("std"), S("r=x"), S("x")}] \cup
              [1 .. 5 -> {S("ic"), S("r=x"), S("x"), S("notls")}]

Input(c, ws) == [ch |-> c, words |-> ws]
MCLines ==
    {Input(c, ws) : c \in {"", "."}, ws \in {<<"open", "u1">>, <<"open", "u2">>, <<"open", "x">>,
                                            <<"open">>, <<"close">>, <<"map", "m">>, <<"nomap">>,
                                            <<"prefix", ":">>}}
    \cup {Input(":", <<"close">>), Input("#", <<"open", "u1">>), Input("?", <<"x">>),
          Input("", <<"k">>), Input(".", <<"quit", "x">>)}

CmdLine(u, m, k, s, norc) == [url |-> u, map |-> m, key |-> k, server |-> s, norc |-> norc]
MCCmdLines ==
    {CmdLine("u1", "m", "k", "", FALSE), CmdLine("x", "m", "k", "", TRUE),
     CmdLine("", "m", "k", "u2", FALSE), CmdLine("", "m", "k", "", FALSE),
     CmdLine("", "n", "", "u2", TRUE), CmdLine("", "", "", "", FALSE)}

AllVars == <<part, vars, svars, cfgvars, optvars, cvars>>

WordsIdle   == tokens = <<>> /\ prof = "novar" /\ Init
SedIdle     == db = D(<<>>, <<>>) /\ SInit
ConfigIdle  == file = <<>> /\ ConfigStart
OptionsIdle == opt = <<>> /\ given = <<>> /\ OptionsStart /\ permute = FALSE
SmapcIdle   == cmdline = CmdLine("", "", "", "", FALSE) /\ SmapcInit

MCInit ==
    \/ part = "words"   /\ Init        /\ SedIdle /\ ConfigIdle /\ OptionsIdle /\ SmapcIdle
    \/ part = "sed"     /\ SInit       /\ WordsIdle /\ ConfigIdle /\ OptionsIdle /\ SmapcIdle
    \/ part = "config"  /\ ConfigInit  /\ WordsIdle /\ SedIdle /\ OptionsIdle /\ SmapcIdle
    \/ part = "options" /\ OptionsInit /\ WordsIdle /\ SedIdle /\ ConfigIdle /\ SmapcIdle
    \/ part = "smapc"   /\ SmapcInit   /\ WordsIdle /\ SedIdle /\ ConfigIdle /\ OptionsIdle

MCNext ==
    \/ part = "words"   /\ Next        /\ UNCHANGED <<part, svars, cfgvars, optvars, cvars>>
    \/ part = "sed"     /\ SNext       /\ UNCHANGED <<part, vars, cfgvars, optvars, cvars>>
    \/ part = "config"  /\ ConfigNext  /\ UNCHANGED <<part, vars, svars, optvars, cvars>>
    \/ part = "options" /\ OptionsNext /\ UNCHANGED <<part, vars, svars, cfgvars, cvars>>
    \/ part = "smapc"   /\ SmapcNext   /\ UNCHANGED <<part, vars, svars, cfgvars, optvars>>

MCSpec == MCInit /\ [][MCNext]_AllVars
=============================================================================
