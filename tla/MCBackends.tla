----------------------------- MODULE MCBackends -----------------------------
(* The modules mysql, postgres, ldap, mailutils and guile: independent      *)
(* components in one run; part says which one a behaviour is about.         *)
EXTENDS Sql, Ldap, Mailutils, Guile, TLC

CONSTANT Parts

VARIABLE part

L(t) == <<"lit", t>>
V(n) == <<"var", n>>

-----------------------------------------------------------------------------
Select  == <<L(<<"SELECT", "'">>), V("key"), L(<<"'">>)>>
Limited == <<L(<<"SELECT", "'">>), V("key"), L(<<"'", "LIMIT", "1">>)>>
SrcDst  == <<L(<<"OK">>), V("src"), V("a")>>
Broken  == <<<<"bad", <<"$", "{">>>>>>

SqlOpt(defaultdb, own, query, pos, neg, err) ==
    [defaultdb |-> defaultdb, conn |-> own, query |-> query,
     pos |-> pos, neg |-> neg, err |-> err]

MCModOptions == {SqlOpt(FALSE, TRUE, NULL, SrcDst, NULL, NULL),
                 SqlOpt(FALSE, FALSE, Select, NULL, NULL, Broken)}

MCDbOptions == {SqlOpt(FALSE, FALSE, Select, NULL, NULL, NULL),
                SqlOpt(TRUE, TRUE, Limited, NULL, NULL, NULL),
                SqlOpt(FALSE, TRUE, Select, SrcDst, NULL, NULL),
                SqlOpt(FALSE, TRUE, NULL, NULL, NULL, NULL),
                SqlOpt(FALSE, FALSE, Broken, NULL, Broken, NULL)}

MCPeers == {<<>>, <<<<"s">>, <<"t">>>>}
MCChars == {"\\", "'", "TAB", "k", "SELECT", "LIMIT", "1"}
MCKeys == {<<"k">>, <<"\\", "'", "k">>, <<"TAB", "\\">>}

Rows(rows) == [fields |-> TRUE, rows |-> rows]
Status     == [fields |-> FALSE, rows |-> <<>>]
Row(text)  == ("a" :> text) @@ ("key" :> <<"c">>)

\* An error, an empty and a full set, a stored procedure with one and with
\* two sets, a statement without a result and a null value.
MCAnswers == {<<>>, <<Rows(<<>>)>>, <<Rows(<<Row(<<"x">>)>>), Status>>,
              <<Rows(<<>>), Rows(<<Row(<<"x">>)>>), Rows(<<>>), Status>>, <<Status>>,
              <<Rows(<<Row(<<"NULL">>)>>)>>}

-----------------------------------------------------------------------------
Filter  == "filter" :> <<L(<<"uid=">>), V("key")>>
Mail    == "positive-reply" :> <<L(<<"OK">>), V("key"), V("mail"), V("cn"), V("dn")>>
NoMail  == "negative-reply" :> <<L(<<"NO">>), V("map"), V("cn")>>
Error   == "onerror-reply" :> <<L(<<"ERR">>), V("cn")>>
Join(d) == "join-delim" :> <<d>>

MCModules    == {<<>>, Filter @@ Join(","), Mail @@ ("config-file" :> <<"f">>)}
Line(is, name, value) == [is |-> is, name |-> name, value |-> value]
Set(option) == LET name == CHOOSE o \in DOMAIN option : TRUE
               IN  Line("option", name, option[name])
MCFiles == {<<>>, <<Set(Join(";")), Line("skipped", "", <<>>), Set(Filter), Set(Join("/"))>>,
            <<Set(Filter), Line("inval", "ldap_version", <<>>)>>, <<Line("unreadable", "", <<>>)>>,
            <<Line("option", "positive-reply", <<L(<<"FILE">>), V("uid")>>)>>}
MCStatements == {Filter @@ Mail, Filter @@ Error @@ Join("+"), NoMail, <<>>,
                 ("filter" :> Broken) @@ Error, Filter @@ Error @@ ("bindpwfile" :> <<"p">>),
                 Filter @@ Mail @@ ("uri" :> <<"host", "host">>), Filter @@ Mail @@ ("uri" :> <<"host", "dn">>),
                 Filter @@ Mail @@ Error @@ ("negative-reply" :> <<L(<<"NO">>), V("dn")>>),
                 Filter @@ ("positive-reply" :> <<L(<<"OK">>), V("db"), V("mail")>>)}

Entry(mail, cn) == ("dn" :> <<<<"d">>>>) @@ ("mail" :> mail) @@ ("cn" :> cn) @@ ("uid" :> <<<<"u">>>>)
MCLdapKeys == {<<"k">>}
MCEntries == {<<>>, <<Entry(<<<<"a">>, <<"b">>>>, <<<<"c">>>>)>>,
              <<("dn" :> <<<<"e">>>>) @@ ("mail" :> <<<<"x">>>>), Entry(<<<<"y">>>>, <<<<"z">>>>)>>}

-----------------------------------------------------------------------------
MCUsers == {[uid |-> "u", change_uid |-> c, quota |-> q] : c \in BOOLEAN, q \in {0, 5}}
MCMuStatements == {[mode |-> md, pos |-> p, neg |-> "ok", err |-> e, cfg |-> TRUE] :
                     md \in {"auth", "mbq"}, p \in {"ok", "bad"}, e \in {"ok", "bad"}}

MCTables == {{"open", "close", "query"}, {"query"}, {"xform"}}

-----------------------------------------------------------------------------
BackendVars == <<part, sqlvars, ldapvars, muvars, gvars>>

SqlRest   == /\ SqlInit /\ kind = "mysql"
             /\ def = SqlOpt(FALSE, TRUE, NULL, SrcDst, NULL, NULL)
LdapRest  == LdapInit /\ stmts = [module |-> <<>>, file |-> <<>>, db |-> <<>>]
MuRest    == MuInit /\ ruid = "root" /\ stmt.mode = "auth" /\ stmt.pos = "ok" /\ stmt.err = "ok"
GuileRest == GuileInit /\ single

MCInit ==
    /\ part \in Parts
    /\ IF part = "sql" THEN SqlInit ELSE SqlRest
    /\ IF part = "ldap" THEN LdapInit ELSE LdapRest
    /\ IF part = "mailutils" THEN MuInit ELSE MuRest
    /\ IF part = "guile" THEN GuileInit ELSE GuileRest

MCNext ==
    /\ \/ part = "sql" /\ SqlNext /\ UNCHANGED <<ldapvars, muvars, gvars>>
       \/ part = "ldap" /\ LdapNext /\ UNCHANGED <<sqlvars, muvars, gvars>>
       \/ part = "mailutils" /\ MuNext /\ UNCHANGED <<sqlvars, ldapvars, gvars>>
       \/ part = "guile" /\ GuileNext /\ UNCHANGED <<sqlvars, ldapvars, muvars>>
    /\ UNCHANGED part

MCSpec == MCInit /\ [][MCNext]_BackendVars
=============================================================================
