------------------------------ MODULE Dispatch ------------------------------
(***************************************************************************)
(* Modules, databases and dispatch rules of smapd (src/src/module.c,       *)
(* src/src/query.c) and the session loop that uses them (smap_loop in      *)
(* src/src/smapd.c).                                                       *)
(*                                                                         *)
(* At start-up main walks three lists in turn: smap_modules_load drops the *)
(* modules that do not load together with their databases, init_databases  *)
(* drops the databases that do not initialise, link_dispatch_rules drops   *)
(* the rules left without a usable database.  After that the process       *)
(* serves sessions; within a session databases are opened when a rule      *)
(* first needs them and closed when the session ends.                      *)
(*                                                                         *)
(* Modules, databases and rules are numbered in the order in which the     *)
(* configuration declares them, so each list is a set of numbers visited   *)
(* in increasing order.  What a loadable module does is external: its      *)
(* functions may succeed or fail at every call.                            *)
(***************************************************************************)
EXTENDS Integers, FiniteSets, FiniteSetsExt

CONSTANTS
  NModules, NDatabases, NRules,
  Kind,        \* module -> its smap_version, capabilities, functions, and
               \* whether smap_query may write a reply and then fail
  DbModule,    \* database -> the module named in its statement
  Rule,        \* rule -> its conditions, database and transformation
  Peers,       \* <<server id, client address>> pairs a session may have
  Words        \* map names and keys

Modules == 1..NModules
Databases == 1..NDatabases
Rules == 1..NRules
Capabilities == {"query", "xform"}

(* A condition is the field it tests, the values of the field that satisfy *)
(* it (eq, like, regexp and netmask alike), and how many times "not" was   *)
(* written in front of it.                                                 *)
Fields == {"server", "source", "map", "key"}

ASSUME SizesAssumption ==
  NModules \in Nat /\ NDatabases \in Nat /\ NRules \in Nat
ASSUME KindAssumption ==
  \A m \in Modules : /\ Kind[m].version \in Nat
                     /\ Kind[m].talks \in BOOLEAN
                     /\ Kind[m].capabilities \subseteq Capabilities
                     /\ Kind[m].functions \subseteq Capabilities
ASSUME DbModuleAssumption == \A d \in Databases : DbModule[d] \in Nat
ASSUME RuleAssumption ==
  \A r \in Rules :
     /\ Rule[r].db \in Nat
     /\ Rule[r].xform \in {"none", "map", "key"}
     /\ \A c \in Rule[r].conds : c.field \in Fields /\ c.nots \in Nat
\* "none" stands for a part of a line that is missing.
ASSUME WordsAssumption == "none" \notin Words

VARIABLES
  pc,         \* control point
  at,         \* the element of the current start-up list
  modules,    \* modules in the list
  loaded,     \* modules whose handle and module fields are set
  databases,  \* databases in the list
  dbh,        \* databases whose dbh field is set
  rules,      \* rules in the list
  opened,     \* databases whose "opened" flag is set
  handles,    \* external: databases whose smap_open succeeded, not yet closed
  qp,         \* the query: server, source, map, key
  start,      \* the rule find_dispatch_rule starts from
  cur,        \* qr: the rule found
  replies,    \* history: replies written for the current query
  trail       \* history: the query each transformation tried was applied to

regVars == <<at, modules, loaded, databases, dbh, rules>>
queryVars == <<start, cur, replies, trail>>
vars == <<pc, regVars, opened, handles, qp, queryVars>>

Startup == {"load", "init", "link"}
Serving == {"idle", "read", "find", "open", "apply", "notfound", "close",
            "dead", "exit"}

NoQuery == [server |-> "none", source |-> "none", map |-> "none",
            key |-> "none"]

Nothing == [r \in {} |-> NoQuery]

(* The first element of list s that is not before n; 0 at the end.         *)
NextOf(s, n) == LET rest == {x \in s : x >= n}
                IN  IF rest = {} THEN 0 ELSE Min(rest)

Init ==
  /\ pc = "load" /\ at = 1
  /\ modules = Modules /\ loaded = {}
  /\ databases = Databases /\ dbh = {} /\ rules = Rules
  /\ opened = {} /\ handles = {}
  /\ qp = NoQuery /\ start = 0 /\ cur = 0 /\ replies = 0 /\ trail = Nothing

-----------------------------------------------------------------------------
(* Start-up.                                                               *)

(* The MODULE_ASSERT checks of _load_module.                               *)
WellFormed(m) ==
  LET k == Kind[m]
  IN  /\ k.version <= 2
      /\ k.version = 1 => "query" \in k.functions
      /\ k.version # 1 => k.capabilities \subseteq k.functions

(* remove_dependent_databases.                                             *)
Dependent(m) == {d \in databases : DbModule[d] = m}

(* smap_modules_load: a module that cannot be opened, is not well formed   *)
(* or whose smap_init fails is removed, with the databases that name it.   *)
LoadModule ==
  /\ pc = "load" /\ at <= NModules
  /\ \/ /\ WellFormed(at)
        /\ loaded' = loaded \cup {at}
        /\ UNCHANGED <<modules, databases>>
     \/ /\ modules' = modules \ {at}
        /\ databases' = databases \ Dependent(at)
        /\ UNCHANGED loaded
  /\ at' = at + 1
  /\ UNCHANGED <<pc, dbh, rules, opened, handles, qp, queryVars>>

LoadDone ==
  /\ pc = "load" /\ at > NModules
  /\ pc' = "init" /\ at' = 1
  /\ UNCHANGED <<modules, loaded, databases, dbh, rules, opened, handles, qp,
                 queryVars>>

(* init_databases: a database whose module is not in the list, or whose    *)
(* smap_init_db fails, is removed.                                         *)
InitDatabase ==
  /\ pc = "init" /\ at <= NDatabases
  /\ \/ /\ at \in databases /\ DbModule[at] \in modules
        /\ dbh' = dbh \cup {at}
        /\ UNCHANGED databases
     \/ /\ databases' = databases \ {at}
        /\ UNCHANGED dbh
  /\ at' = at + 1
  /\ UNCHANGED <<pc, modules, loaded, rules, opened, handles, qp, queryVars>>

InitDone ==
  /\ pc = "init" /\ at > NDatabases
  /\ pc' = "link" /\ at' = 1
  /\ UNCHANGED <<modules, loaded, databases, dbh, rules, opened, handles, qp,
                 queryVars>>

(* Fault: capabilities are not compared with the rule.                     *)
Provides_Any(k, xform) == TRUE

(* rule_fixup: the rule's database exists and its module can do what the   *)
(* rule asks for; nothing is asked of a module of version 0.               *)
Provides(k, xform) ==
  /\ k.version = 1 => xform = "none"
  /\ k.version > 1 =>
       (IF xform = "none" THEN "query" ELSE "xform") \in k.capabilities
Linkable(r) ==
  /\ Rule[r].db \in databases
  /\ Provides(Kind[DbModule[Rule[r].db]], Rule[r].xform)

(* link_dispatch_rules.                                                    *)
LinkRule ==
  /\ pc = "link" /\ at <= NRules
  /\ rules' = IF Linkable(at) THEN rules ELSE rules \ {at}
  /\ at' = at + 1
  /\ UNCHANGED <<pc, modules, loaded, databases, dbh, opened, handles, qp,
                 queryVars>>

LinkDone ==
  /\ pc = "link" /\ at > NRules
  /\ pc' = "idle"
  /\ UNCHANGED <<regVars, opened, handles, qp, queryVars>>

-----------------------------------------------------------------------------
(* Sessions.                                                               *)

(* smap_session_server enters smap_loop.  A process that serves its        *)
(* sessions itself comes back here after each of them.                     *)
SessionStart ==
  /\ pc = "idle"
  /\ \E peer \in Peers :
       qp' = [NoQuery EXCEPT !.server = peer[1], !.source = peer[2]]
  /\ pc' = "read"
  /\ replies' = 0 /\ trail' = Nothing
  /\ UNCHANGED <<regVars, opened, handles, start, cur>>

(* A line with a map name and a key: dispatch_query.                       *)
ReadQuery ==
  /\ pc = "read"
  /\ \E map, key \in Words :
       qp' = [qp EXCEPT !.map = map, !.key = key]
  /\ start' = NextOf(rules, 1) /\ cur' = 0
  /\ replies' = 0 /\ trail' = Nothing
  /\ pc' = "find"
  /\ UNCHANGED <<regVars, opened, handles>>

(* End of file or a read error ends the loop.                              *)
ReadEnd ==
  /\ pc = "read"
  /\ pc' = "close"
  /\ UNCHANGED <<regVars, opened, handles, qp, queryVars>>

(* A line without a map name, or no line within idle_timeout: the process  *)
(* exits, or SIGALRM ends it.                                              *)
ReadAbort ==
  /\ pc = "read"
  /\ pc' = "dead"
  /\ UNCHANGED <<regVars, opened, handles, qp, queryVars>>

-----------------------------------------------------------------------------
(* dispatch_query_pack.                                                    *)

(* compare: equality, a shell pattern or a regular expression.             *)
compare(c, v) == v \in c.values

(* match_cond: query_cond_not returns the value of its subcondition.       *)
match_cond(c, q) == compare(c, q[c.field])

(* match_cond_list.                                                        *)
Matches(r, q) == \A c \in Rule[r].conds : match_cond(c, q)

(* Fault: the search always starts at the head.                            *)
Candidates_FromHead == {r \in rules : Matches(r, qp)}

(* find_dispatch_rule: a start of NULL stands for the head of the list.    *)
Candidates == {r \in rules : r >= start /\ Matches(r, qp)}
find_dispatch_rule ==
  /\ pc = "find"
  /\ \/ /\ Candidates = {}
        /\ pc' = "notfound"
        /\ UNCHANGED cur
     \/ /\ Candidates # {}
        /\ cur' = Min(Candidates)
        /\ pc' = "open"
  /\ UNCHANGED <<regVars, opened, handles, qp, start, replies, trail>>

CurDb == Rule[cur].db

(* The function a rule calls through its pointer, the module it calls, and *)
(* whether that pointer is set.                                            *)
Need(r) == IF Rule[r].xform = "none" THEN "query" ELSE "xform"
ModuleOf(r) == DbModule[Rule[r].db]
Defined(r) == Need(r) \in Kind[ModuleOf(r)].functions

(* Fault: the opened flag is not set.                                      *)
OpenDatabase_NoFlag ==
  /\ pc = "open"
  /\ handles' = IF CurDb \in opened THEN handles ELSE handles \cup {CurDb}
  /\ opened' = opened
  /\ pc' = "apply"
  /\ UNCHANGED <<regVars, qp, queryVars>>

(* The database is open already, or smap_open succeeds.                    *)
OpenDatabase ==
  /\ pc = "open"
  /\ handles' = IF CurDb \in opened THEN handles ELSE handles \cup {CurDb}
  /\ opened' = opened \cup {CurDb}
  /\ pc' = "apply"
  /\ UNCHANGED <<regVars, qp, queryVars>>

(* Fault: the failure falls through to the end of the function.            *)
OpenFail_NoReturn ==
  /\ pc = "open" /\ CurDb \notin opened
  /\ replies' = replies + 1
  /\ pc' = "notfound"
  /\ UNCHANGED <<regVars, opened, handles, qp, start, cur, trail>>

(* smap_open fails: the reply is NOTFOUND whatever rules follow.           *)
OpenFail ==
  /\ pc = "open" /\ CurDb \notin opened
  /\ replies' = replies + 1
  /\ pc' = "read"
  /\ UNCHANGED <<regVars, opened, handles, qp, start, cur, trail>>

(* Fault: the search goes on with the same rule.                           *)
NextRule_Same == cur

(* smap_xform fails, yields nothing, or yields a new map or key; then the  *)
(* search goes on with the rule after this one, if there is one.           *)
NextRule == NextOf(rules, cur + 1)
Transform ==
  /\ pc = "apply" /\ Rule[cur].xform # "none" /\ Defined(cur)
  /\ \/ UNCHANGED qp
     \/ \E w \in Words : qp' = [qp EXCEPT ![Rule[cur].xform] = w]
  /\ trail' = [r \in DOMAIN trail \cup {cur} |->
                 IF r = cur THEN qp ELSE trail[r]]
  /\ start' = NextRule
  /\ pc' = IF NextRule = 0 THEN "notfound" ELSE "find"
  /\ UNCHANGED <<regVars, opened, handles, cur, replies>>

(* smap_query: on success the module has written the reply.                *)
QueryOk ==
  /\ pc = "apply" /\ Rule[cur].xform = "none" /\ Defined(cur)
  /\ replies' = replies + 1
  /\ pc' = "read"
  /\ UNCHANGED <<regVars, opened, handles, qp, start, cur, trail>>

(* The module has called its back end and written a reply although its     *)
(* smap_query is about to return an error: guile_query hands the stream to *)
(* a procedure that may write before it throws or returns #f.              *)
Talks(r) == Rule[r].xform = "none" /\ Kind[ModuleOf(r)].talks

(* smap_query fails: the dispatcher adds its NOTFOUND.                     *)
QueryFail ==
  /\ pc = "apply" /\ Rule[cur].xform = "none" /\ Defined(cur)
  /\ \/ UNCHANGED replies
     \/ Talks(cur) /\ replies' = replies + 1
  /\ pc' = "notfound"
  /\ UNCHANGED <<regVars, opened, handles, qp, start, cur, trail>>

(* The call goes through a null pointer, which ends the process.           *)
NullCall ==
  /\ pc = "apply" /\ ~Defined(cur)
  /\ pc' = "dead"
  /\ UNCHANGED <<regVars, opened, handles, qp, queryVars>>

NotFound ==
  /\ pc = "notfound"
  /\ replies' = replies + 1
  /\ pc' = "read"
  /\ UNCHANGED <<regVars, opened, handles, qp, start, cur, trail>>

(* close_databases, at the end of smap_loop.                               *)
close_databases ==
  /\ pc = "close"
  /\ handles' = handles \ opened
  /\ opened' = {}
  /\ pc' = "idle"
  /\ UNCHANGED <<regVars, qp, queryVars>>

(* free_databases, when main is about to exit.                             *)
free_databases ==
  /\ pc = "idle"
  /\ dbh' = {}
  /\ pc' = "exit"
  /\ UNCHANGED <<at, modules, loaded, databases, rules, opened, handles, qp,
                 queryVars>>

-----------------------------------------------------------------------------
Step ==
  \/ LoadModule \/ LoadDone \/ InitDatabase \/ InitDone
  \/ LinkRule \/ LinkDone
  \/ find_dispatch_rule \/ OpenDatabase \/ OpenFail \/ Transform
  \/ QueryOk \/ QueryFail \/ NullCall \/ NotFound \/ close_databases

Next == \/ Step
        \/ SessionStart \/ ReadQuery \/ ReadEnd \/ ReadAbort \/ free_databases

Spec == Init /\ [][Next]_vars

(* The process is scheduled and the calls into a module return; nothing is *)
(* assumed of clients.                                                     *)
FairSpec == Spec /\ WF_vars(Step)

-----------------------------------------------------------------------------
(* Properties.                                                             *)

(* The three start-up passes leave nothing dangling: each database in the  *)
(* list is initialised and has a loaded module, and each rule in the list  *)
(* has a database in the list whose module provides the function the rule  *)
(* calls through its pointer.  A module that says it has version 0 is      *)
(* excepted: rule_fixup compares capabilities for version 2 only and the   *)
(* transformation for version 1 only, so that NullCall is possible there.  *)
LinkedRulesSound ==
  pc \in Serving \ {"exit"} =>
    /\ \A d \in databases : d \in dbh /\ DbModule[d] \in loaded
    /\ \A r \in rules :
         /\ Rule[r].db \in databases
         /\ Kind[ModuleOf(r)].version > 0 => Defined(r)

(* A database is used only while it is open, the flag never disagrees with *)
(* the module, and no session leaves a database open to the next one.      *)
OpenBalanced ==
  /\ handles = opened
  /\ pc = "apply" => CurDb \in handles
  /\ pc = "idle" => handles = {}

(* By the time a query has been dealt with, exactly one reply has been     *)
(* written for it, and none before (dispatch_query_pack).  A module that   *)
(* fails after it has written is excepted: the dispatcher's NOTFOUND then  *)
(* is a second reply.                                                      *)
OneReply ==
  /\ pc \in {"find", "open", "apply"} => replies = 0
  /\ pc = "notfound" => replies = 0 \/ (Talks(cur) /\ replies = 1)
  /\ pc = "read" => IF qp.map = "none" THEN replies = 0
                    ELSE replies = 1 \/ (Talks(cur) /\ replies = 2)

(* The query as it stood when rule r was passed over: after the last       *)
(* transformation by a rule before r.                                      *)
AsSeenBy(r) ==
  LET after == {t \in DOMAIN trail : t > r}
  IN  IF after = {} THEN qp ELSE trail[Min(after)]

(* The rule in use is the first that applies: a rule before it was either  *)
(* used for a transformation, or did not match the query as transformed by *)
(* the rules before that one.  No rule is used twice.                      *)
FirstMatchWins ==
  pc \in {"open", "apply"} =>
    /\ cur \in rules /\ Matches(cur, qp)
    /\ \A r \in rules : \/ r >= cur
                         \/ r \in DOMAIN trail
                         \/ ~Matches(r, AsSeenBy(r))
    /\ \A r \in DOMAIN trail : r < cur /\ Rule[r].xform # "none"

(* Every query gets its reply, unless a rule of a module of version 0      *)
(* calls a function the module does not have.                              *)
EveryQueryAnswered ==
  pc = "find" ~> \/ pc = "read"
                 \/ /\ pc = "dead" /\ cur \in rules
                    /\ Kind[ModuleOf(cur)].version = 0
=============================================================================
