-------------------------------- MODULE Ldap --------------------------------
(***************************************************************************)
(* modules/ldap/ldap.c: one database in the sessions of one smapd process. *)
(* The module statement, a configuration file and the database statement   *)
(* give options; the attributes to ask the directory for are the variables *)
(* of the reply templates.  The directory and libldap are external.        *)
(***************************************************************************)
EXTENDS Template, Naturals, FiniteSets, FiniteSetsExt

CONSTANTS
    LdapModules,    \* module statements: functions from option names to values
    LdapFiles,      \* configuration files: sequences of lines [is, name, value]
    LdapStatements, \* database statements, likewise
    Entries,        \* answers of the directory: sequences of entries
    LdapKeys,       \* keys the clients look up
    LdapQueries     \* bound on the queries of a behaviour

Given(name, opts) == name \in DOMAIN opts
Sets(line, name)  == line.is = "option" /\ line.name = name

\* A positive-reply is a template, wherever it is given.
ASSUME LdapOptionsAssumption ==
    /\ \A f \in LdapFiles : f \in Seq(Range(f))
    /\ \A m \in LdapModules \cup LdapStatements :
         Given("positive-reply", m) => IsTemplate(m["positive-reply"])
    /\ \A f \in LdapFiles : \A k \in DOMAIN f :
         Sets(f[k], "positive-reply") => IsTemplate(f[k].value)

VARIABLES
    stmts,      \* [module, file, db]: the options each of them gives
    conf,       \* db->conf: the effective options
    lineno,     \* line: the lines of the configuration file read so far
    attrs,      \* db->conf.attrs: the attributes to ask for, in any order
    handle,     \* db->ldap
    lost,       \* handles that nothing refers to any more
    ldappc,     \* "init", "file", "refused", "session", "open" or "crash"
    answered,   \* the entry and the key of the last positive reply, the reply
    ldapn       \* number of queries so far

ldapvars == <<stmts, conf, lineno, attrs, handle, lost, ldappc, answered, ldapn>>

LdapInit ==
    /\ \E m \in LdapModules, f \in LdapFiles, d \in LdapStatements :
         stmts = [module |-> m, file |-> f, db |-> d]
    /\ conf = <<>>
    /\ lineno = 0
    /\ attrs = {}
    /\ handle = NULL
    /\ lost = 0
    /\ ldappc = "init"
    /\ answered = [key |-> <<>>, entry |-> <<>>, reply |-> <<>>]
    /\ ldapn = 0

-----------------------------------------------------------------------------
(***************************************************************************)
(* mod_ldap_init_db.                                                       *)
(***************************************************************************)

\* The options of one source over those of another.
Over(opts, others) ==
    [o \in DOMAIN opts \cup DOMAIN others |-> IF Given(o, opts) THEN opts[o] ELSE others[o]]

\* mod_ldap_init; config-file is not an option of the module statement.
mod_ldap_init == [o \in DOMAIN stmts.module \ {"config-file"} |-> stmts.module[o]]

\* A copy of every option; the list of attributes of dfl_conf is never set.
\* The statement is parsed for config-file alone (MKOPT_RESET).
ldap_conf_cpy ==
    /\ ldappc = "init"
    /\ conf' = mod_ldap_init
    /\ ldappc' = "file"
    /\ UNCHANGED <<stmts, lineno, attrs, handle, lost, answered, ldapn>>

\* One line of the file: comments, blank lines, lines that are too long and
\* lines that name no option are skipped.
parse_ldap_conf ==
    /\ ldappc = "file" /\ lineno < Len(stmts.file)
    /\ LET next == stmts.file[lineno + 1]
       IN  conf' = IF next.is = "option" THEN Over([o \in {next.name} |-> next.value], conf)
                   ELSE conf
    /\ lineno' = lineno + 1
    /\ UNCHANGED <<stmts, attrs, handle, lost, ldappc, answered, ldapn>>

\* A file that cannot be opened, or has a value that is no number, is an
\* error after which mod_ldap_init_db goes on with memory it has released.
FileError(file) == \E k \in DOMAIN file : file[k].is \in {"inval", "unreadable"}

\* After the file the statement is parsed again, for everything else.
make_options == Over(stmts.db, conf)

\* Fault: the names in the negative reply replace the ones found before.
VarNames_Fresh(c) ==
    UNION {wordsplit_varnames(o, c[o]) :
             o \in DOMAIN c \cap IF Given("negative-reply", c)
                                THEN {"negative-reply", "onerror-reply"}
                                ELSE {"positive-reply", "onerror-reply"}}

\* The references in the three reply templates, in one list.
ReplyOptions == {"positive-reply", "negative-reply", "onerror-reply"}
VarNames(c)  == UNION {wordsplit_varnames(o, c[o]) : o \in DOMAIN c \cap ReplyOptions}
HasReply(c)  == \E o \in ReplyOptions : Given(o, c)

\* The loop that eliminates map and key tests the place it writes to, not the
\* one it reads from, so it is right for one such name; at the second one it
\* frees a name still in the list and reads past its end.
Own(ref)        == ref.name \in {"map", "key"}
Eliminate(refs) == {ref.name : ref \in {r \in refs : ~Own(r)}}
Overruns(refs)  == Cardinality({r \in refs : Own(r)}) > 1

\* A database without a filter is refused.  Without any reply option the list
\* of attributes is a null pointer, which the loop dereferences.
mod_ldap_init_db ==
    /\ ldappc = "file" /\ lineno = Len(stmts.file)
    /\ LET c == make_options
       IN  /\ conf' = c
           /\ attrs' = Eliminate(VarNames(c))
           /\ ldappc' =
                IF FileError(stmts.file) THEN "crash"
                ELSE IF ~Given("filter", c) THEN "refused"
                ELSE IF ~HasReply(c) \/ Overruns(VarNames(c)) THEN "crash"
                ELSE "session"
    /\ UNCHANGED <<stmts, lineno, handle, lost, answered, ldapn>>

-----------------------------------------------------------------------------
(***************************************************************************)
(* Connections.                                                            *)
(***************************************************************************)

\* What becomes of one URL of the list.  The hosts of one that names none
\* come from the DNS; the URLs put together from them lack the colon.  When
\* the DNS does not answer, a wordsplit structure that was never set up is
\* freed, which may end the process.
UrlsOf(url) ==
    CASE url = "host"  -> {<<"ldap://">>}
      [] url = "dn"    -> {<<"ldap//">>, <<"ldap//", "ldap//">>, <<>>, <<"crash">>}

parse_ldap_uri(uri) ==
    {FlattenSeq(f) :
        f \in {g \in [DOMAIN uri -> UNION {UrlsOf(uri[k]) : k \in DOMAIN uri}] :
                 \A k \in DOMAIN uri : g[k] \in UrlsOf(uri[k])}}

\* A handle, none, or the end of the process.  ldap_initialize refuses a list
\* with a malformed URL; without uri it uses its own default.  Nothing sets
\* conf.tls, so TLS is never started.
ldap_connect ==
    IF ~Given("uri", conf) THEN {"none", "ld"}
    ELSE UNION {IF \E k \in DOMAIN urls : urls[k] = "crash" THEN {"crash"}
                ELSE IF urls = <<>> \/ \E k \in DOMAIN urls : urls[k] = "ldap//"
                THEN {"none"} ELSE {"none", "ld"} : urls \in parse_ldap_uri(conf["uri"])}

\* get_passwd passes an uninitialised pointer to open when bindpwfile is
\* given: an error or the end of the process.
get_passwd == IF Given("bindpwfile", conf) THEN {"fail", "crash"} ELSE {"ok"}

\* ldap_bind: 0 when the server accepts.
ldap_bind == IF "ok" \in get_passwd THEN {"ok", "fail"} ELSE get_passwd

\* A handle whose bind has failed is dropped without ldap_unbind_ext.
mod_ldap_open ==
    /\ ldappc = "session"
    /\ \E ld \in ldap_connect, bound \in ldap_bind :
         /\ handle' = IF ld = "ld" /\ bound = "ok" THEN <<ld>> ELSE handle
         /\ lost' = IF ld = "ld" /\ bound = "fail" THEN lost + 1 ELSE lost
         /\ ldappc' = IF ld = "none" THEN ldappc
                      ELSE IF ld = "crash" \/ bound = "crash" THEN "crash"
                      ELSE IF bound = "ok" THEN "open" ELSE ldappc
    /\ lost < LdapQueries
    /\ UNCHANGED <<stmts, conf, lineno, attrs, answered, ldapn>>

mod_ldap_close ==
    /\ ldappc = "open"
    /\ handle' = NULL
    /\ ldappc' = "session"
    /\ UNCHANGED <<stmts, conf, lineno, attrs, lost, answered, ldapn>>

-----------------------------------------------------------------------------
(***************************************************************************)
(* Queries.                                                                *)
(***************************************************************************)

Joined(values, delim) ==
    FlattenSeq([k \in DOMAIN values |-> IF k = 1 THEN values[k] ELSE delim \o values[k]])

\* What the directory returns of an entry: the attributes asked for, all of
\* them when the list is empty.
Returned(entry) ==
    IF attrs = {} THEN entry
    ELSE [a \in {"dn"} \cup (DOMAIN entry \cap attrs) |-> entry[a]]

\* The first value of an attribute, or all of them joined.
ValueOf(values) ==
    IF Given("join-delim", conf) THEN Joined(values, conf["join-delim"]) ELSE values[1]

\* The variables of a query, and those of a positive reply: dn, then map and
\* key, then the attributes of the entry.
inenv(key) == [v \in {"map", "key"} |-> IF v = "map" THEN <<"m">> ELSE key]
getvar(key, msg) ==
    [v \in {"dn", "map", "key"} \cup DOMAIN msg |->
        IF v = "dn" THEN msg["dn"][1]
        ELSE IF v \in {"map", "key"} THEN inenv(key)[v] ELSE ValueOf(msg[v])]

Reply(name, default) ==
    IF Given(name, conf) THEN conf[name] ELSE <<<<"lit", <<default>>>>>>

ldap_send_reply(t, env) == IF Expandable(t) THEN <<Expand(t, env)>> ELSE <<>>

\* getvar tests for dn before anything else and calls ldap_get_dn, which
\* aborts the process when there is no entry.
AsksDn(t) ==
    \E k \in DOMAIN t : t[k] = <<"var", "dn">> /\ \A j \in 1 .. k - 1 : t[j][1] # "bad"

\* A filter that cannot be expanded is an error of smap_query: the module
\* writes no reply and leaves it to the dispatcher (Dispatch).  Errors of the
\* search and of its result are answered with onerror-reply.
mod_ldap_query ==
    /\ ldappc = "open" /\ ldapn < LdapQueries
    /\ \E key \in LdapKeys, found \in Entries, fails \in BOOLEAN :
         LET bad   == ~Expandable(conf["filter"])
             other == Reply(IF fails THEN "onerror-reply" ELSE "negative-reply", "NOTFOUND")
             none  == fails \/ found = <<>>
         IN  \/ /\ ~bad /\ none /\ AsksDn(other)
                /\ ldappc' = "crash"
                /\ UNCHANGED answered
             \/ /\ bad \/ ~none \/ ~AsksDn(other)
                /\ answered' =
                     IF bad THEN [key |-> key, entry |-> <<>>, reply |-> <<>>]
                     ELSE IF none
                     THEN [key |-> key, entry |-> <<>>, reply |-> ldap_send_reply(other, inenv(key))]
                     ELSE [key |-> key, entry |-> found[1],
                           reply |-> ldap_send_reply(Reply("positive-reply", "OK"),
                                                     getvar(key, Returned(found[1])))]
                /\ ldappc' = ldappc
    /\ ldapn' = ldapn + 1
    /\ UNCHANGED <<stmts, conf, lineno, attrs, handle, lost>>

LdapNext ==
    \/ ldap_conf_cpy \/ parse_ldap_conf \/ mod_ldap_init_db
    \/ mod_ldap_open \/ mod_ldap_close \/ mod_ldap_query

LdapSpec == LdapInit /\ [][LdapNext]_ldapvars

-----------------------------------------------------------------------------
(***************************************************************************)
(* Properties.                                                             *)
(***************************************************************************)

\* The lines of the configuration file that set an option.
Lines(name) == {k \in DOMAIN stmts.file : Sets(stmts.file[k], name)}

\* An option, its sources ranked as doc/smap.texi:2738-2741 has it: "The
\* settings from the command line override those from /etc/ldap.conf", those
\* of the database statement being read last.
IsConfigured(name) ==
    Given(name, stmts.db) \/ Lines(name) # {} \/ Given(name, stmts.module)
Configured(name) ==
    IF Given(name, stmts.db) THEN stmts.db[name]
    ELSE IF Given(name, stmts.module) THEN stmts.module[name]
    ELSE stmts.file[Max(Lines(name))].value

\* The code ranks them otherwise: mod_ldap_init_db reads the file over the
\* options of the module statement (ldap.c:754-762).
FileOverrides(name) ==
    ~Given(name, stmts.db) /\ Given(name, stmts.module) /\ Lines(name) # {}
AsRanked == \A o \in {"positive-reply", "join-delim"} : ~FileOverrides(o)

\* The template of a positive reply, the value its variables have in an entry
\* and the reply made of them.
ConfiguredReply ==
    IF IsConfigured("positive-reply") THEN Configured("positive-reply")
    ELSE <<<<"lit", <<"OK">>>>>>
EntryValue(key, entry, v) ==
    CASE v = "key" -> key
      [] v = "map" -> <<"m">>
      [] v = "dn"  -> entry["dn"][1]
      [] v \in DOMAIN entry \ {"dn", "key", "map"} ->
           IF IsConfigured("join-delim") THEN Joined(entry[v], Configured("join-delim"))
           ELSE entry[v][1]
      [] OTHER -> <<>>
EntryReply(key, entry) ==
    FlattenSeq([k \in DOMAIN ConfiguredReply |->
        IF ConfiguredReply[k][1] = "lit" THEN ConfiguredReply[k][2]
        ELSE EntryValue(key, entry, ConfiguredReply[k][2])])

\* The code has no variable db, which doc/smap.texi:2846-2848 lists with map
\* and key, and takes it for an attribute (ldap.c:1007).
NamesDb == \E k \in DOMAIN ConfiguredReply : ConfiguredReply[k] = <<"var", "db">>

\* A positive reply is the configured template with every variable replaced
\* by the entry's own value: the attributes asked for when the database was
\* declared are all the ones a later reply needs, an attribute the entry
\* lacks is empty, several values are joined as the options say, and no
\* source of options hides one of higher rank (mod_ldap_init_db, getvar,
\* mod_ldap_query).  Excepted are options on whose rank code and manual
\* differ (FileOverrides) and templates with the variable db.
PositiveReplyFromEntry ==
    answered.entry # <<>> /\ AsRanked /\ Expandable(ConfiguredReply) /\ ~NamesDb =>
        answered.reply = <<EntryReply(answered.key, answered.entry)>>
=============================================================================
