-------------------------------- MODULE Sql --------------------------------
(***************************************************************************)
(* modules/mysql/mysql.c and modules/postgres/postgres.c: databases of one *)
(* of the two modules in the sessions of one smapd process.  A database    *)
(* whose statement names no connection of its own (MDB_DEFDB) uses the one *)
(* of the module statement, def_db, which therefore counts its users.      *)
(*                                                                         *)
(* The client libraries and the servers are external: a MySQL server       *)
(* answers with a sequence of results, of which mysql_store_result takes   *)
(* one at a time; PQexec reads them all and keeps the last.                *)
(***************************************************************************)
EXTENDS Template, Naturals, FiniteSets, FiniteSetsExt

CONSTANTS
    Dbs,            \* the databases of the module
    Kinds,          \* subset of {"mysql", "postgres"}
    ModOptions,     \* module statements
    DbOptions,      \* database statements
    Chars,          \* characters
    Keys,           \* keys the clients look up
    Peers,          \* conninfo: <<>> or <<source, destination>>
    Answers,        \* what the server sends: sequences of results, <<>> an error
    Escaping,       \* connections to servers that take a backslash in a
                    \* string constant for an escape
    MaxQueries      \* bound on the queries of a behaviour

ASSUME DbsAssumption == IsFiniteSet(Dbs)

\* The connection is made with CLIENT_MULTI_RESULTS and not with
\* CLIENT_MULTI_STATEMENTS: a query is one statement, and only a stored
\* procedure sends more than one result, its sets of rows followed by a
\* status.
ASSUME AnswersAssumption ==
    /\ Answers \subseteq Seq(UNION {ToSet(a) : a \in Answers})
    /\ \A a \in Answers : \A k \in 1 .. Len(a) - 1 : a[k].fields

ASSUME KeysAssumption == {"'", "\\"} \subseteq Chars /\ Keys \subseteq Seq(Chars)

VARIABLES
    kind,           \* which module
    def,            \* def_db: the options of the module statement
    db,             \* the databases that mod_init_db has made
    conn,           \* the connection of each database and of def_db
    opened,         \* databases open for the session (DBF_OPEN)
    sqlpc,          \* "init", "session", "closing" or "crash"
    asked,          \* the last query: its key, text, connection and reply, and
                    \* whether what was escaped for it fitted in its buffer
    queries         \* number of queries so far

sqlvars == <<kind, def, db, conn, opened, sqlpc, asked, queries>>

\* A MySQL server is in Escaping unless NO_BACKSLASH_ESCAPES is set, a
\* PostgreSQL server if standard_conforming_strings is off, its default before
\* version 9.1.  Neither module sets it.
DefDb  == "def_db"
Closed == [open |-> FALSE, refcnt |-> 0, alive |-> FALSE, pending |-> <<>>]

-----------------------------------------------------------------------------
(***************************************************************************)
(* Environments and templates.                                             *)
(***************************************************************************)

Escaped(text, special) ==
    FlattenSeq([k \in DOMAIN text |->
        IF text[k] \in special THEN <<"\\", text[k]>> ELSE <<text[k]>>])

Doubled(text) ==
    FlattenSeq([k \in DOMAIN text |-> IF text[k] = "'" THEN <<"'", "'">> ELSE <<text[k]>>])

\* mysql_real_escape_string, for the characters the instances use: it is
\* given the connection and does what the server at its other end expects.
real_escape_string(h, text) ==
    IF h \in Escaping THEN Escaped(text, {"\\", "'", "\""}) ELSE Doubled(text)

\* quote_copy writes for a server that takes backslash escapes, whichever
\* server there is.
\* Fault: the backslash itself is not escaped.
quote_copy_NoBackslash(text) == Escaped(text, {"TAB", "'"})
quote_copy(text) == Escaped(text, {"\\", "TAB", "'"})

\* The room quote_copy needs, the null character included, and whether it is
\* called at all.
\* Fault: a tab is taken for a character that needs no backslash.
ToQuote(text, special) == {k \in DOMAIN text : text[k] \in special}
quoted_length_NoTab(text) ==
    [len   |-> Len(text) + Cardinality(ToQuote(text, {"\\", "'"})) + 1,
     quote |-> ToQuote(text, {"\\", "TAB", "'"}) # {}]
quoted_length(text) ==
    LET special == ToQuote(text, {"\\", "TAB", "'"})
    IN  [len |-> Len(text) + Cardinality(special) + 1, quote |-> special # {}]

\* intab of create_query_env: both addresses come from inet_ntoa, which
\* returns the same static buffer each time, so the second call overwrites
\* what the first one returned.
create_query_env(key, peer) ==
    [v \in {"map", "key"} \cup (IF peer = NULL THEN {} ELSE {"src", "dst"}) |->
        CASE v = "map" -> <<"m">>
          [] v = "key" -> key
          [] v \in {"src", "dst"} -> peer[2]]

\* fill_env with the connection: every value is escaped.
fill_env(h, env) == [v \in DOMAIN env |-> real_escape_string(h, env[v])]

\* The same in postgres.c: a value without special characters is not copied.
pg_fill_env(env) ==
    [v \in DOMAIN env |-> IF quoted_length(env[v]).quote THEN quote_copy(env[v]) ELSE env[v]]

\* The values are escaped one after the other in the same buffer, which grows
\* when a value needs more room than those before it: its size when the i-th
\* variable has been given its room, for the variables that are copied.
vartab == <<"map", "key", "src", "dst">>
BufferSize(i, room) == Max({room[v] : v \in DOMAIN room \cap {vartab[j] : j \in 1 .. i}})
InBuffer(copy, room) ==
    \A i \in DOMAIN vartab :
        vartab[i] \in DOMAIN room => Len(copy[vartab[i]]) < BufferSize(i, room)

\* Whether each copy and its null character are in the buffer.
fill_env_Fits(h, env) ==
    InBuffer(fill_env(h, env), [v \in DOMAIN env |-> 2 * Len(env[v]) + 1])
pg_fill_env_Fits(env) ==
    InBuffer(pg_fill_env(env),
             [v \in {v \in DOMAIN env : quoted_length(env[v]).quote} |->
                 quoted_length(env[v]).len])

moddb_reply(d, which) ==
    IF db[d][which] # NULL THEN db[d][which]
    ELSE IF def[which] # NULL THEN def[which]
    ELSE <<<<"lit", <<IF which = "pos" THEN "OK" ELSE "NOTFOUND">>>>>>

modpg_reply(d, which) == moddb_reply(d, which)

\* send_reply: a template that cannot be expanded yields no reply at all.
send_reply(t, env) == IF Expandable(t) THEN <<Expand(t, env)>> ELSE <<>>
pg_send_reply(t, env) == send_reply(t, env)

\* The columns of the first row follow the variables of the query, so that a
\* column named map or key is hidden by them.  A null value is strlen(NULL)
\* in mysql.c and an empty text in postgres.c.
HasNull(row) == \E c \in DOMAIN row : row[c] = <<"NULL">>
do_positive_reply(d, env, row) == send_reply(moddb_reply(d, "pos"), env @@ row)
pg_do_positive_reply(d, env, row) ==
    pg_send_reply(modpg_reply(d, "pos"),
                  env @@ [c \in DOMAIN row |-> IF row[c] = <<"NULL">> THEN <<>> ELSE row[c]])

-----------------------------------------------------------------------------
(***************************************************************************)
(* Statements.                                                             *)
(***************************************************************************)

SqlInit ==
    /\ kind \in Kinds
    /\ def \in ModOptions
    /\ db = [d \in Dbs |-> NULL]
    /\ conn = [c \in Dbs \cup {DefDb} |-> Closed]
    /\ opened = {}
    /\ sqlpc = "init"
    /\ asked = [key |-> <<>>, query |-> <<>>, template |-> <<>>, conn |-> DefDb,
                reply |-> <<>>, fits |-> TRUE]
    /\ queries = 0

Declare(d, opt, defdb) ==
    db' = [db EXCEPT ![d] = [defdb |-> defdb, query |-> opt.query,
                             pos |-> opt.pos, neg |-> opt.neg, err |-> opt.err]]

dbdeclared(opt) == opt.conn

mod_init_db(d) ==
    /\ kind = "mysql" /\ sqlpc = "init" /\ db[d] = NULL
    /\ \E opt \in DbOptions : Declare(d, opt, opt.defaultdb \/ ~dbdeclared(opt))
    /\ UNCHANGED <<kind, def, conn, opened, sqlpc, asked, queries>>

\* postgres.c has no option defaultdb: arguments that are no options make the
\* conninfo string.
modpg_init_db(d) ==
    /\ kind = "postgres" /\ sqlpc = "init" /\ db[d] = NULL
    /\ \E opt \in DbOptions : ~opt.defaultdb /\ Declare(d, opt, ~opt.conn)
    /\ UNCHANGED <<kind, def, conn, opened, sqlpc, asked, queries>>

SessionStart ==
    /\ \/ sqlpc = "init" /\ \A d \in Dbs : db[d] # NULL
       \/ sqlpc = "closing" /\ opened = {}
    /\ sqlpc' = "session"
    /\ UNCHANGED <<kind, def, db, conn, opened, asked, queries>>

SessionEnd ==
    /\ sqlpc = "session" /\ opened # {}
    /\ sqlpc' = "closing"
    /\ UNCHANGED <<kind, def, db, conn, opened, asked, queries>>

-----------------------------------------------------------------------------
(***************************************************************************)
(* Connections.                                                            *)
(***************************************************************************)

moddb_handle(d) == IF db[d].defdb THEN DefDb ELSE d
modpg_handle(d) == moddb_handle(d)

\* One more user, or a new connection; nothing changes when that fails.
opendb(h, connects) ==
    IF conn[h].open THEN [conn EXCEPT ![h].refcnt = @ + 1]
    ELSE IF connects
         THEN [conn EXCEPT ![h] = [open |-> TRUE, refcnt |-> @.refcnt + 1,
                                   alive |-> TRUE, pending |-> <<>>]]
         ELSE conn

pg_opendb(h, connects) == opendb(h, connects)

\* Fault: the connection is closed with its first user.
closedb_First(h) ==
    IF conn[h].open THEN [conn EXCEPT ![h] = Closed] ELSE conn

closedb(h) ==
    IF ~conn[h].open THEN conn
    ELSE IF conn[h].refcnt = 1 THEN [conn EXCEPT ![h] = Closed]
    ELSE [conn EXCEPT ![h].refcnt = @ - 1]

pg_closedb(h) == closedb(h)

\* The dispatcher opens a database before the first query it gets in a session.
mod_open(d) ==
    /\ kind = "mysql" /\ sqlpc = "session" /\ d \notin opened
    /\ \E connects \in BOOLEAN :
         /\ conn' = opendb(moddb_handle(d), connects)
         /\ opened' = IF conn'[moddb_handle(d)].open THEN opened \cup {d} ELSE opened
    /\ UNCHANGED <<kind, def, db, sqlpc, asked, queries>>

\* A null conninfo is handed to PQconnectdb when neither statement has one.
modpg_open(d) ==
    /\ kind = "postgres" /\ sqlpc = "session" /\ d \notin opened
    /\ \/ \E connects \in BOOLEAN :
            /\ conn' = pg_opendb(modpg_handle(d), connects)
            /\ opened' = IF conn'[modpg_handle(d)].open THEN opened \cup {d} ELSE opened
            /\ sqlpc' = sqlpc
       \/ /\ modpg_handle(d) = DefDb /\ ~conn[DefDb].open /\ ~def.conn
          /\ sqlpc' = "crash"
          /\ UNCHANGED <<conn, opened>>
    /\ UNCHANGED <<kind, def, db, asked, queries>>

\* close_databases, at the end of the session.  With MDB_DEFDB the second
\* call of closedb finds the database itself not open.
Close(d, after) ==
    /\ sqlpc = "closing" /\ d \in opened
    /\ conn' = after
    /\ opened' = opened \ {d}
    /\ UNCHANGED <<kind, def, db, sqlpc, asked, queries>>

mod_close(d)   == kind = "mysql" /\ Close(d, closedb(moddb_handle(d)))
modpg_close(d) == kind = "postgres" /\ Close(d, pg_closedb(modpg_handle(d)))

\* The server goes away.  Neither module connects again: every later query of
\* the session fails.
ServerGone(h) ==
    /\ conn[h].open /\ conn[h].alive
    /\ conn' = [conn EXCEPT ![h].alive = FALSE]
    /\ UNCHANGED <<kind, def, db, opened, sqlpc, asked, queries>>

-----------------------------------------------------------------------------
(***************************************************************************)
(* Queries.                                                                *)
(***************************************************************************)

Asked(d, key, query, fits, reply) ==
    asked' = [key |-> key, query |-> query, template |-> db[d].query,
              conn |-> moddb_handle(d), reply |-> reply, fits |-> fits]

Crash == sqlpc' = "crash" /\ UNCHANGED <<conn, asked>>

\* do_query of mysql.c: what mysql_query and the first mysql_store_result
\* give.  A connection with unread results refuses the query; the first
\* result may be lost on its way, which looks like one without rows.
do_query(h, answer, lost) ==
    IF ~conn[h].alive \/ conn[h].pending # <<>> \/ answer = <<>>
    THEN [rc |-> 1, res |-> <<>>, conn |-> conn[h]]
    ELSE [rc |-> 0,
          res |-> IF lost THEN <<>> ELSE <<answer[1]>>,
          conn |-> [conn[h] EXCEPT !.alive = ~lost, !.pending = Tail(answer)]]

\* Fault: one more result is consumed, not all of them.
flush_result_Once(c) == [c EXCEPT !.pending = IF @ = <<>> THEN @ ELSE Tail(@)]

\* Results are consumed up to and including the first that has no rows to
\* store.
flush_result(c) ==
    LET without == {k \in DOMAIN c.pending : ~c.pending[k].fields}
    IN  [c EXCEPT !.pending = IF without = {} THEN <<>>
                              ELSE SubSeq(@, Min(without) + 1, Len(@))]

mod_query(d) ==
    /\ kind = "mysql" /\ sqlpc = "session" /\ d \in opened /\ queries < MaxQueries
    /\ \E key \in Keys, peer \in Peers, answer \in Answers, lost \in BOOLEAN :
         LET env == create_query_env(key, peer)
             h   == moddb_handle(d)
             bad == ~Expandable(db[d].query)
             q   == IF bad THEN <<>> ELSE Expand(db[d].query, fill_env(h, env))
             r   == IF bad THEN [rc |-> 1, res |-> <<>>, conn |-> conn[h]]
                    ELSE do_query(h, answer, lost)
             set == r.res # <<>> /\ r.res[1].fields
         IN  \/ (db[d].query = NULL \/ (set /\ r.res[1].rows # <<>> /\ HasNull(r.res[1].rows[1])))
                /\ Crash
             \/ /\ db[d].query # NULL
                /\ ~(set /\ r.res[1].rows # <<>> /\ HasNull(r.res[1].rows[1]))
                /\ conn' = [conn EXCEPT ![h] = IF set THEN flush_result(r.conn) ELSE r.conn]
                /\ Asked(d, key, q, fill_env_Fits(h, env),
                     IF r.rc # 0 THEN send_reply(moddb_reply(d, "err"), env)
                     ELSE IF set /\ r.res[1].rows # <<>>
                     THEN do_positive_reply(d, env, r.res[1].rows[1])
                     ELSE send_reply(moddb_reply(d, "neg"), env))
                /\ sqlpc' = sqlpc
    /\ queries' = queries + 1
    /\ UNCHANGED <<kind, def, db, opened>>

\* PQexec: the last result, <<>> when the query failed.
pg_do_query(h, answer) ==
    IF conn[h].alive /\ answer # <<>> THEN <<Last(answer)>> ELSE <<>>

modpg_query(d) ==
    /\ kind = "postgres" /\ sqlpc = "session" /\ d \in opened /\ queries < MaxQueries
    /\ \E key \in Keys, peer \in Peers, answer \in Answers :
         LET env == create_query_env(key, peer)
             bad == ~Expandable(db[d].query)
             q   == IF bad THEN <<>> ELSE Expand(db[d].query, pg_fill_env(env))
             res == IF bad THEN <<>> ELSE pg_do_query(modpg_handle(d), answer)
         IN  \/ db[d].query = NULL /\ Crash
             \/ /\ db[d].query # NULL
                /\ Asked(d, key, q, pg_fill_env_Fits(env),
                     IF res = <<>> THEN pg_send_reply(modpg_reply(d, "err"), env)
                     ELSE IF res[1].rows # <<>>
                     THEN pg_do_positive_reply(d, env, res[1].rows[1])
                     ELSE pg_send_reply(modpg_reply(d, "neg"), env))
                /\ UNCHANGED <<sqlpc, conn>>
    /\ queries' = queries + 1
    /\ UNCHANGED <<kind, def, db, opened>>

SqlNext ==
    \/ SessionStart
    \/ SessionEnd
    \/ \E d \in Dbs :
         \/ mod_init_db(d) \/ mod_open(d) \/ mod_query(d) \/ mod_close(d)
         \/ modpg_init_db(d) \/ modpg_open(d) \/ modpg_query(d) \/ modpg_close(d)
    \/ \E h \in Dbs \cup {DefDb} : ServerGone(h)

SqlSpec == SqlInit /\ [][SqlNext]_sqlvars

-----------------------------------------------------------------------------
(***************************************************************************)
(* Properties.                                                             *)
(***************************************************************************)

\* A connection is open exactly while some database of the session uses it,
\* and its reference count is the number of those databases: no database of
\* a session loses the connection of def_db when another one is closed, and
\* none survives the session (opendb, closedb).
ConnectionsCounted ==
    \A h \in Dbs \cup {DefDb} :
        LET users == {d \in opened : moddb_handle(d) = h}
        IN  /\ conn[h].refcnt = Cardinality(users)
            /\ conn[h].open <=> users # {}

\* A query leaves no result unread: as long as the server is there, the next
\* query of the session is not refused as out of sync, also when a stored
\* procedure sent several results (flush_result).
InSync == \A h \in Dbs \cup {DefDb} : conn[h].alive => conn[h].pending = <<>>

\* A template with the key between apostrophes, the first of the statement.
KeyTemplate(t) ==
    /\ DOMAIN t = 1 .. 3 /\ t[1][1] = "lit" /\ t[2] = <<"var", "key">> /\ t[3][1] = "lit"
    /\ LET before == t[1][2]  after == t[3][2]
       IN  /\ before \in Seq(Chars) /\ before # <<>>
           /\ \A k \in DOMAIN before : before[k] = "'" <=> k = Len(before)
           /\ after \in Seq(Chars) /\ after # <<>>
           /\ after[1] = "'" /\ (Len(after) > 1 => after[2] # "'")

\* How the server at the end of connection h reads the next character of a
\* statement: what it has read of the first string constant and of the text
\* behind it.  Two apostrophes in a constant stand for one.
Scan(h, acc, c) ==
    CASE acc.at = "before" -> [acc EXCEPT !.at = IF c = "'" THEN "in" ELSE @]
      [] acc.at = "in"     -> IF c = "'" THEN [acc EXCEPT !.at = "after"]
                              ELSE IF c = "\\" /\ h \in Escaping THEN [acc EXCEPT !.at = "escape"]
                              ELSE [acc EXCEPT !.val = Append(@, c)]
      [] acc.at = "escape" -> [at |-> "in", val |-> Append(acc.val, c), rest |-> acc.rest]
      [] acc.at = "after"  -> IF c = "'" /\ acc.rest = <<>>
                              THEN [at |-> "in", val |-> Append(acc.val, c), rest |-> <<>>]
                              ELSE [acc EXCEPT !.rest = Append(@, c)]

StringConstant(h) ==
    LET read[q \in Seq(Chars)] ==
          IF q = <<>> THEN [at |-> "before", val |-> <<>>, rest |-> <<>>]
          ELSE Scan(h, read[Front(q)], Last(q))
    IN  read

\* A key between apostrophes in the query template is the lookup key for the
\* server, whatever characters it has: the value of a constant that ends
\* where the template ends it (fill_env).  mysql.c escapes it for the server
\* there is.  postgres.c escapes for a server in Escaping (quote_copy); the
\* property says nothing of its keys on another one, where doc/smap.texi:2680
\* ("key: Lookup key") does not hold: a backslash is then part of the
\* constant, and an apostrophe in the key ends it.
KeyReachesServer ==
    KeyTemplate(asked.template) /\ (kind = "mysql" \/ asked.conn \in Escaping) =>
        StringConstant(asked.conn)[asked.query] =
            [at |-> "after", val |-> asked.key, rest |-> Tail(asked.template[3][2])]

\* What a value is escaped to for the query is no longer than the buffer
\* allocated for it, which its length before escaping, the number of
\* characters to escape and the values before it determine (quoted_length,
\* fill_env of both modules).
CopiesFit == asked.fits
=============================================================================
