------------------------------- MODULE Config -------------------------------
(***************************************************************************)
(* How smapd reads its configuration file: physical lines become           *)
(* statements (read_line), words are expanded with the variables assigned  *)
(* so far, and module, database, server and dispatch statements are        *)
(* carried out (src/src/cfg.c, src/src/smapd.c, src/src/module.c and the   *)
(* parser of dispatch rules in src/src/query.c).  What the statements of a *)
(* server block do is in Startup, how a line is split into words in        *)
(* WordSplit.                                                              *)
(*                                                                         *)
(* A word is a string; the members of Variables are references.  A         *)
(* physical line is [words, cont, quote, means]: cont when it ends with a  *)
(* backslash, quote when it has an unbalanced quote, and means holds the   *)
(* rule that the author of a correct dispatch statement had in mind.  A    *)
(* line with nothing but a comment is like an empty one.                   *)
(***************************************************************************)
EXTENDS Integers, Sequences, SequencesExt, FiniteSetsExt, Bitwise

CONSTANTS
    Files,      \* configuration files: sequences of physical lines
    Variables,  \* words that refer to a variable
    BadUrls,    \* arguments of server that smap_server_new rejects
    Regexps,    \* arguments of regexp that parse_regexp accepts
    Addresses,  \* arguments of from: [is, addr, mask] by word
    OctetBits,  \* bits of an octet; an IP address has two octets
    Numbers,    \* the integer of each word that is one, in decimal
    Modes,      \* the characters of each word that may be a file mode
    IntBits,    \* bits of an int
    LongBits    \* bits of an unsigned long, and of a size_t

VARIABLES
    file,       \* the lines not yet read
    loops,      \* calls of parse_config_loop, innermost last: kwtab and env
    truth,      \* for each of them, the assignments read: name, value, and
                \* whether the value depends on no variable that is Lost
    cfg_errors,
    modules,    \* ids declared
    databases,
    servers,
    rules,      \* dispatch_head: the rules and what was meant by them
    settings,   \* values of the file's and the servers' parameters
    wanted,     \* what was written for them
    cfgpc       \* "read", "done" or "exit"

cfgvars == <<file, loops, truth, cfg_errors, modules, databases, servers, rules, settings,
             wanted, cfgpc>>

NewLoop(kwtab, srv) == [kwtab |-> kwtab, srv |-> srv, env |-> <<>>]
Loop == Last(loops)

ConfigStart ==
    /\ loops = <<NewLoop("global", "")>>
    /\ truth = <<<<>>>>
    /\ cfg_errors = FALSE
    /\ modules = {} /\ databases = {} /\ servers = <<>>
    /\ rules = <<>> /\ settings = <<>> /\ wanted = <<>>
    /\ cfgpc = "read"

ConfigInit == file \in Files /\ ConfigStart

-----------------------------------------------------------------------------
(***************************************************************************)
(* Lines and words.                                                        *)
(***************************************************************************)

\* The number of physical lines the next statement takes: empty lines before
\* it, and every line that ends with a backslash and the one after it.
RECURSIVE read_line(_)
read_line(k) ==
    IF k > Len(file) THEN Len(file)
    ELSE IF file[k].cont \/ (file[k].words = <<>> /\ (k = 1 \/ ~file[k - 1].cont))
    THEN read_line(k + 1)
    ELSE k

Taken     == SubSeq(file, 1, read_line(1))
RawWords  == FlattenSeq([k \in DOMAIN Taken |-> Taken[k].words])
MeantBy   == FlattenSeq([k \in DOMAIN Taken |-> Taken[k].means])
BadQuotes == \E k \in DOMAIN Taken : Taken[k].quote

\* Position of a variable in ws_env, one past its end when it is not there.
find_env_var(env, name) ==
    LET at == {k \in DOMAIN env : env[k][1] = name}
    IN  IF at = {} THEN Len(env) + 1 ELSE CHOOSE k \in at : \A j \in at : k <= j


\* The entry is replaced, or added, and becomes the last one of the list.
asgn(env, name, value) ==
    Append(SubSeq(env, 1, find_env_var(env, name) - 1), <<name, value>>)

\* A variable without a value stays as it was written, both before the first
\* assignment (WRDSF_NOVAR) and after it (WRDSF_KEEPUNDEF).
Assigned(word) == word \in Variables /\ find_env_var(Loop.env, word) <= Len(Loop.env)
Expanded(word) ==
    IF Assigned(word) THEN Loop.env[find_env_var(Loop.env, word)][2] ELSE word

Words == [k \in DOMAIN RawWords |-> IF RawWords[1] = "=" /\ k = 2 THEN RawWords[2]
                                    ELSE Expanded(RawWords[k])]

\* A statement has been read; all lines it took are gone.
Reading(keyword) ==
    /\ cfgpc = "read" /\ RawWords # <<>> /\ ~BadQuotes
    /\ Words[1] = keyword
    /\ file' = SubSeq(file, Len(Taken) + 1, Len(file))

GlobalKeywords == {"module", "database", "dispatch", "server"}
IsSetting(kw) ==
    \/ kw \in {"backlog", "max-children", "single-process", "socket-mode"}
    \/ kw \in {"foreground", "idle-timeout"} /\ Loop.kwtab = "global"
Known == \/ Words[1] = "=" \/ IsSetting(Words[1])
         \/ Words[1] \in (IF Loop.kwtab = "global" THEN GlobalKeywords ELSE {"end", "user"})

-----------------------------------------------------------------------------
(***************************************************************************)
(* Dispatch rules: recursive descent over the words of the statement.      *)
(***************************************************************************)

Tok(s) == CASE s \in {"like", "fnmatch"} -> "like"
            [] s \in {"eq", "is"} -> "eq"
            [] s \in {"from", "server", "map", "regexp", "database", "not",
                      "transform", "key"} -> s
            [] OTHER -> "none"

Fail == [ok |-> FALSE, cond |-> <<>>, rest |-> <<>>]
Cond(c, rest) == [ok |-> TRUE, cond |-> c, rest |-> rest]

\* Mask and address in host byte order; the mask of the form a.b is left in
\* network byte order, which a little-endian host reads the other way round.
Bits        == 2 * OctetBits
Swapped(a)  == (a % 2^OctetBits) * 2^OctetBits + a \div 2^OctetBits
Netmask(n)  == IF n = 0 THEN 0
               ELSE (((2^Bits - 1) \div 2^(Bits - n)) * 2^(Bits - n)) % 2^Bits

Sockaddr(a) ==
    CASE a.is = "unix"   -> [fam |-> "unix", addr |-> a.addr, mask |-> 0]
      [] a.is = "host"   -> [fam |-> "inet", addr |-> a.addr, mask |-> 2^Bits - 1]
      [] a.is = "netlen" -> [fam |-> "inet", addr |-> a.addr, mask |-> Netmask(a.mask)]
      [] a.is = "dotted" -> [fam |-> "inet", addr |-> a.addr, mask |-> Swapped(a.mask)]

\* A socket name that is too long, a host that cannot be resolved and a mask
\* that is none are not among Addresses.
parse_dispatch_from(in) ==
    IF in = <<>> \/ Head(in) \notin DOMAIN Addresses THEN Fail
    ELSE Cond(<<"from", Sockaddr(Addresses[Head(in)])>>, Tail(in))

match_sockaddr(sptr, sa) ==
    /\ sptr.fam = sa.fam
    /\ sptr.addr = IF sa.fam = "inet" THEN sa.addr & sptr.mask ELSE sa.addr

\* The clients there are, and those that a correct argument of from names.
AllClients == [fam : {"inet"}, addr : 0 .. 2^Bits - 1] \cup
              {[fam |-> "unix", addr |-> Addresses[w].addr] :
                  w \in {x \in DOMAIN Addresses : Addresses[x].is = "unix"}}
Clients(a) ==
    {c \in AllClients :
        IF a.is = "unix" THEN c.fam = "unix" /\ c.addr = a.addr
        ELSE LET host == IF a.is = "netlen" THEN Bits - a.mask ELSE 0
             IN  c.fam = "inet" /\ c.addr \div 2^host = a.addr \div 2^host}

parse_dispatch_server(in) ==
    IF in = <<>> THEN Fail ELSE Cond(<<"server", Head(in)>>, Tail(in))

parse_regexp(s) == s \in Regexps

\* Any other keyword after map or key is an ordinary word.
parse_dispatch_comp(t, in) ==
    IF in = <<>> THEN Fail
    ELSE LET op == Tok(Head(in)) IN
         IF op \in {"like", "eq", "regexp"}
         THEN IF Len(in) < 2 \/ (op = "regexp" /\ ~parse_regexp(in[2])) THEN Fail
              ELSE Cond(<<t, op, in[2]>>, SubSeq(in, 3, Len(in)))
         ELSE Cond(<<t, "eq", Head(in)>>, Tail(in))

RECURSIVE parse_subcond(_)
parse_dispatch_not(in) ==
    LET r == parse_subcond(in)
    IN  IF r.ok THEN Cond(<<"not", r.cond>>, r.rest) ELSE Fail

parse_subcond(in) ==
    IF in = <<>> THEN Fail
    ELSE CASE Tok(Head(in)) = "not"    -> parse_dispatch_not(Tail(in))
           [] Tok(Head(in)) = "from"   -> parse_dispatch_from(Tail(in))
           [] Tok(Head(in)) = "server" -> parse_dispatch_server(Tail(in))
           [] Tok(Head(in)) \in {"map", "key"} ->
                parse_dispatch_comp(Tok(Head(in)), Tail(in))
           [] OTHER -> Fail

\* One word after another is taken for a condition or for the database.  The
\* words like, eq and regexp are passed over here, and an error ends the loop
\* without ending the rule.
RECURSIVE DispatchLoop(_, _)
DispatchLoop(in, acc) ==
    IF in = <<>> THEN acc
    ELSE LET tok  == Tok(Head(in))
             args == IF tok = "transform" THEN Tail(Tail(in)) ELSE Tail(in)
         IN  CASE tok = "none" -> acc
               [] tok \in {"like", "eq", "regexp"} -> DispatchLoop(Tail(in), acc)
               [] tok \in {"not", "from", "server", "map", "key"} ->
                    LET r == parse_subcond(in)
                    IN  IF r.ok THEN DispatchLoop(r.rest, [acc EXCEPT !.conds = Append(@, r.cond)])
                        ELSE acc
               [] tok = "transform" /\ (Len(in) < 2 \/ Tok(in[2]) = "none") -> acc
               [] OTHER ->
                    LET db  == IF args # <<>> /\ acc.db = "" THEN Head(args) ELSE acc.db
                        xf  == IF tok = "transform" /\ Tok(in[2]) \in {"map", "key"}
                               THEN Tok(in[2]) ELSE acc.xform
                        bad == \/ args = <<>> \/ acc.db # ""
                               \/ tok = "transform" /\ Tok(in[2]) \notin {"map", "key"}
                        new == [acc EXCEPT !.db = db, !.xform = xf]
                    IN  IF bad THEN new ELSE DispatchLoop(Tail(args), new)

NoRule == [conds |-> <<>>, db |-> "", xform |-> "none"]

parse_complex_dispatch(in) == DispatchLoop(in, NoRule)

parse_default_dispatch(in) ==
    IF Len(in) = 2 /\ Tok(in[1]) = "database" THEN [NoRule EXCEPT !.db = in[2]] ELSE NoRule

parse_dispatch(in) ==
    IF in[1] = "default" THEN parse_default_dispatch(Tail(in)) ELSE parse_complex_dispatch(in)

-----------------------------------------------------------------------------
(***************************************************************************)
(* Statements.                                                             *)
(***************************************************************************)

\* The file as the manual has it: a variable has the value last assigned to it
\* in the file or, its scope being left open, in the block; a variable without
\* a value stays as it was written.
Assignments  == Last(truth)
LastAt(word) == LET at == {k \in DOMAIN Assignments : Assignments[k].name = word}
                IN  IF at = {} THEN 0 ELSE Max(at)
LastValue(word) == IF LastAt(word) = 0 THEN word ELSE Assignments[LastAt(word)].value

\* A variable that was assigned between two assignments of another one, which
\* cut the list of variables behind its own place; or whose value was made
\* from a variable lost like this.
Lost(word) ==
    LET i == LastAt(word)
    IN  /\ i # 0
        /\ \/ ~Assignments[i].sure
           \/ \E h \in 1 .. i - 1, j \in i + 1 .. Len(Assignments) :
                 Assignments[h].name = Assignments[j].name

\* What the author meant, with the variables replaced.

RECURSIVE MeantCond(_)
MeantCond(c) ==
    CASE c[1] = "not"    -> <<"not", MeantCond(c[2])>>
      [] c[1] = "server" -> <<"server", LastValue(c[2])>>
      [] c[1] = "from"   -> <<"from", Clients(Addresses[c[2]])>>
      [] OTHER           -> <<c[1], c[2], LastValue(c[3])>>

MeantRule(r) == [conds |-> [k \in DOMAIN r.conds |-> MeantCond(r.conds[k])],
                 db |-> LastValue(r.db), xform |-> r.xform]

MeantRules == [k \in DOMAIN MeantBy |-> MeantRule(MeantBy[k])]

cfg_dispatch ==
    /\ Reading("dispatch") /\ Loop.kwtab = "global"
    /\ LET rule == IF Len(Words) < 3 THEN NoRule ELSE parse_dispatch(Tail(Words))
       IN  IF rule.db = ""
           THEN cfg_errors' = TRUE /\ UNCHANGED rules
           ELSE /\ rules' = Append(rules, [rule |-> rule, meant |-> MeantRules,
                                          sure |-> ~\E w \in Range(RawWords) : Lost(w)])
                /\ UNCHANGED cfg_errors
    /\ UNCHANGED <<loops, truth, modules, databases, servers, settings, wanted, cfgpc>>

\* name=value is the words "=", name and value; a second value is an error.
Assign ==
    /\ Reading("=")
    /\ IF Len(Words) > 3
       THEN cfg_errors' = TRUE /\ UNCHANGED <<loops, truth>>
       ELSE /\ loops' = [loops EXCEPT ![Len(loops)].env = asgn(@, Words[2], Words[3])]
            /\ truth' = [truth EXCEPT ![Len(truth)] =
                           Append(@, [name |-> RawWords[2], value |-> LastValue(RawWords[3]),
                                      sure |-> ~Lost(RawWords[3])])]
            /\ UNCHANGED cfg_errors
    /\ UNCHANGED <<modules, databases, servers, rules, settings, wanted, cfgpc>>

module_declare(id) ==
    IF id \in modules THEN cfg_errors' = TRUE /\ UNCHANGED modules
    ELSE modules' = modules \cup {id} /\ UNCHANGED cfg_errors

cfg_module ==
    /\ Reading("module") /\ Loop.kwtab = "global"
    /\ IF Len(Words) < 3 THEN cfg_errors' = TRUE /\ UNCHANGED modules
       ELSE module_declare(Words[2])
    /\ UNCHANGED <<loops, truth, databases, servers, rules, settings, wanted, cfgpc>>

database_declare(id) ==
    IF id \in databases THEN cfg_errors' = TRUE /\ UNCHANGED databases
    ELSE databases' = databases \cup {id} /\ UNCHANGED cfg_errors

cfg_database ==
    /\ Reading("database") /\ Loop.kwtab = "global"
    /\ IF Len(Words) < 3 THEN cfg_errors' = TRUE /\ UNCHANGED databases
       ELSE database_declare(Words[2])
    /\ UNCHANGED <<loops, truth, modules, servers, rules, settings, wanted, cfgpc>>

smap_srvman_attach_server(id) == servers' = Append(servers, id)

\* A block is read by a parse_config_loop of its own, with its own table of
\* keywords and without the variables of the file.
cfg_server ==
    /\ Reading("server") /\ Loop.kwtab = "global"
    /\ IF Len(Words) \notin {3, 4} \/ Words[3] \in BadUrls
       THEN cfg_errors' = TRUE /\ UNCHANGED <<loops, truth, servers>>
       ELSE /\ smap_srvman_attach_server(Words[2])
            /\ IF Len(Words) = 3 THEN UNCHANGED <<loops, truth, cfg_errors>>
               ELSE IF Words[4] # "begin"
               THEN cfg_errors' = TRUE /\ UNCHANGED <<loops, truth>>
               ELSE /\ loops' = Append(loops, NewLoop("server", Words[2]))
                    /\ truth' = Append(truth, <<>>)
                    /\ UNCHANGED cfg_errors
    /\ UNCHANGED <<modules, databases, rules, settings, wanted, cfgpc>>

\* parse_int and CFG_GETNUM: the number strtoul returns, converted to the type
\* of the parameter and back, must still be the same.
LowBits(n)    == n % 2^IntBits
Signed(n) == IF LowBits(n) >= 2^(IntBits - 1) THEN LowBits(n) - 2^IntBits ELSE LowBits(n)
parse_int(type, z) ==
    LET n == z % 2^LongBits
    IN  CASE type = "int"  -> IF Signed(n) % 2^LongBits = n THEN <<Signed(n)>> ELSE <<>>
          [] type = "uint" -> IF LowBits(n) = n THEN <<LowBits(n)>> ELSE <<>>
          [] type = "size" -> <<n>>

cfg_parse_bool(w) ==
    CASE w \in {"yes", "on", "t", "true", "1"}    -> <<TRUE>>
      [] w \in {"no", "off", "nil", "false", "0"} -> <<FALSE>>
      [] OTHER -> <<>>

\* Octal digits, or three times rwx with a minus sign for a missing letter.
Octal == <<"0", "1", "2", "3", "4", "5", "6", "7">>
DigitOf(c) == CHOOSE d \in 0 .. 7 : Octal[d + 1] = c
parse_mode_string(str) ==
    IF str[1] \in Range(Octal)
    THEN IF Range(str) \subseteq Range(Octal)
         THEN <<FoldLeft(LAMBDA acc, c : 8 * acc + DigitOf(c), 0, str)>> ELSE <<>>
    ELSE LET letter(k) == <<"r", "w", "x">>[((k - 1) % 3) + 1]
         IN  IF Len(str) = 9 /\ \A k \in 1 .. 9 : str[k] \in {letter(k), "-"}
             THEN <<FoldLeft(LAMBDA acc, c : 2 * acc + (IF c = "-" THEN 0 ELSE 1), 0, str)>>
             ELSE <<>>

TypeOf(kw) ==
    CASE kw \in {"foreground", "single-process"} -> "bool"
      [] kw = "socket-mode" -> "mode"
      [] kw = "max-children" -> "size"
      [] kw = "backlog" /\ Loop.kwtab = "global" -> "int"
      [] OTHER -> "uint"

Parsed(type, w) ==
    CASE type = "bool" -> cfg_parse_bool(w)
      [] type = "mode" -> IF w \in DOMAIN Modes THEN parse_mode_string(Modes[w]) ELSE <<>>
      [] OTHER -> IF w \in DOMAIN Numbers THEN parse_int(type, Numbers[w]) ELSE <<>>

\* What a value that is right for its parameter stands for.
Intended(type, w) ==
    CASE type = "bool" -> <<w \in {"yes", "on", "t", "true", "1"}>>
      [] type = "mode" ->
           LET m == Modes[w]
           IN  <<IF Len(m) = 9 THEN MapThenSumSet(LAMBDA k : 2^(9 - k), {k \in 1 .. 9 : m[k] # "-"})
                 ELSE MapThenSumSet(LAMBDA k : DigitOf(m[k]) * 8^(Len(m) - k), DOMAIN m)>>
      [] OTHER -> <<Numbers[w]>>

SetParameter(srv) ==
    /\ cfgpc = "read" /\ RawWords # <<>> /\ ~BadQuotes /\ IsSetting(Words[1])
    /\ file' = SubSeq(file, Len(Taken) + 1, Len(file))
    /\ LET type == TypeOf(Words[1])
           v    == IF Len(Words) = 2 THEN Parsed(type, Words[2]) ELSE <<>>
       IN  IF v = <<>> THEN cfg_errors' = TRUE /\ UNCHANGED <<settings, wanted>>
           ELSE /\ settings' = (<<srv, Words[1]>> :> v) @@ settings
                /\ wanted' = (<<srv, Words[1]>> :> Intended(type, LastValue(RawWords[2]))) @@ wanted
                /\ UNCHANGED cfg_errors
    /\ UNCHANGED <<loops, truth, modules, databases, servers, rules, cfgpc>>

\* A statement that sets a parameter of smapd, or of the server of the block.
Setting       == Loop.kwtab = "global" /\ SetParameter("")
ServerSetting == Loop.kwtab = "server" /\ SetParameter(Loop.srv)

ServerStatement ==
    /\ Reading("user") /\ Loop.kwtab = "server"
    /\ UNCHANGED <<loops, truth, cfg_errors, modules, databases, servers, rules, settings, wanted, cfgpc>>

EndBlock ==
    /\ Reading("end") /\ Loop.kwtab = "server"
    /\ loops' = Front(loops) /\ truth' = Front(truth)
    /\ UNCHANGED <<cfg_errors, modules, databases, servers, rules, settings, wanted, cfgpc>>

Unrecognized ==
    /\ cfgpc = "read" /\ RawWords # <<>> /\ ~BadQuotes /\ ~Known
    /\ file' = SubSeq(file, Len(Taken) + 1, Len(file))
    /\ cfg_errors' = TRUE
    /\ UNCHANGED <<loops, truth, modules, databases, servers, rules, settings, wanted, cfgpc>>

\* wordsplit has failed: smapd exits at once.
SplitError ==
    /\ cfgpc = "read" /\ BadQuotes
    /\ cfgpc' = "exit"
    /\ UNCHANGED <<file, loops, truth, cfg_errors, modules, databases, servers, rules, settings,
                   wanted>>

\* The end of the file ends every loop, also that of a block without end.
parse_config ==
    /\ cfgpc = "read" /\ RawWords = <<>>
    /\ cfgpc' = "done"
    /\ file' = <<>>
    /\ loops' = <<loops[1]>> /\ truth' = <<truth[1]>>
    /\ UNCHANGED <<cfg_errors, modules, databases, servers, rules, settings,
                   wanted>>

ConfigNext ==
    \/ cfg_dispatch \/ Assign \/ cfg_module \/ cfg_database \/ cfg_server
    \/ Setting \/ ServerSetting \/ ServerStatement \/ EndBlock \/ Unrecognized \/ SplitError \/ parse_config

-----------------------------------------------------------------------------
(***************************************************************************)
(* Properties.                                                             *)
(***************************************************************************)

RECURSIVE Effect(_)
Effect(c) ==
    CASE c[1] = "not"  -> <<"not", Effect(c[2])>>
      [] c[1] = "from" -> <<"from", {sa \in AllClients : match_sockaddr(c[2], sa)}>>
      [] OTHER         -> c

RuleAsMeant(r) ==
    r.meant # <<>> =>
        r.meant[1] = [r.rule EXCEPT !.conds = [j \in DOMAIN @ |-> Effect(@[j])]]


=============================================================================
