--------------------------- MODULE DispatchProofs ---------------------------
(***************************************************************************)
(* Proofs about Dispatch, for every configuration: the start-up passes     *)
(* leave no dangling rule, databases are opened and closed in pairs, a     *)
(* query gets one reply, and the first rule that applies answers it.       *)
(***************************************************************************)
EXTENDS Dispatch, WellFoundedInduction, TLAPS

-----------------------------------------------------------------------------
(* The least element of a list.                                            *)

(* A list that is not empty has a first element: Min is what it says.      *)
LEMMA MinIsLeast ==
  ASSUME NEW S \in SUBSET Nat, S # {}
  PROVE  Min(S) \in S /\ \A y \in S : Min(S) <= y
<1>1. PICK x \in S : \A y \in S : ~(<<y, x>> \in OpToRel(<, Nat))
  BY NatLessThanWellFounded, WFMin, Zenon
<1>2. \A y \in S : ~(y < x)
  BY <1>1 DEF OpToRel
<1>3. \A y \in S : x <= y
  BY <1>2
<1>4. QED
  BY <1>3 DEF Min

(* NextOf, the step from one rule to the next: nothing of the list lies    *)
(* between n and the element it returns.                                   *)
LEMMA NextOfIsNext ==
  ASSUME NEW S \in SUBSET Nat, NEW n \in Nat
  PROVE  \/ NextOf(S, n) = 0 /\ \A x \in S : x < n
         \/ /\ NextOf(S, n) \in S /\ NextOf(S, n) >= n
            /\ \A x \in S : x < n \/ x >= NextOf(S, n)
<1> DEFINE rest == {x \in S : x >= n}
<1>1. CASE rest = {}
  <2>1. NextOf(S, n) = 0
    BY <1>1 DEF NextOf
  <2>2. \A x \in S : x < n
    BY <1>1
  <2>3. QED
    BY <2>1, <2>2
<1>2. CASE rest # {}
  <2>1. NextOf(S, n) = Min(rest)
    BY <1>2 DEF NextOf
  <2>2. rest \in SUBSET Nat
    OBVIOUS
  <2>3. Min(rest) \in rest /\ \A y \in rest : Min(rest) <= y
    BY <1>2, <2>2, MinIsLeast
  <2>4. QED
    BY <2>1, <2>3
<1>3. QED
  BY <1>1, <1>2

-----------------------------------------------------------------------------
(* The registry.                                                           *)

(* The lists only shrink, and hold what the configuration declares.        *)
Shape ==
  /\ pc \in Startup \cup Serving
  /\ at \in Nat \ {0} /\ modules \subseteq Modules /\ loaded \subseteq Modules
  /\ databases \subseteq Databases /\ rules \subseteq Rules

(* What the start-up passes have settled so far: everything behind the     *)
(* element the current pass is at, and all that earlier passes visited.    *)
RegInv ==
  /\ \A m \in loaded : WellFormed(m)
  /\ pc = "load" => \A m \in modules : m < at => m \in loaded
  /\ pc # "load" => modules \subseteq loaded
  /\ pc = "init" => \A d \in databases :
                      d < at => d \in dbh /\ DbModule[d] \in modules
  /\ pc \notin {"load", "init", "exit"} =>
       \A d \in databases : d \in dbh /\ DbModule[d] \in modules
  /\ pc = "link" => \A r \in rules : r < at => Linkable(r)
  /\ pc \in Serving => \A r \in rules : Linkable(r)

(* The variables the session steps leave alone keep RegInv.                *)
LEMMA RegistryKept ==
  ASSUME RegInv, {pc, pc'} \subseteq Serving \ {"exit"}, UNCHANGED regVars
  PROVE  RegInv'
<1>1. /\ pc \in Serving /\ pc \notin {"load", "init", "exit"}
      /\ pc' \notin {"load", "init", "link"}
  BY DEF Serving
<1>3. \A r \in rules' : Linkable(r)'
  BY <1>1 DEF RegInv, regVars, Linkable
<1>4. /\ \A m \in loaded' : WellFormed(m)
      /\ modules' \subseteq loaded'
      /\ \A d \in databases' : d \in dbh' /\ DbModule[d] \in modules'
  BY <1>1 DEF RegInv, regVars
<1>5. QED
  BY <1>1, <1>3, <1>4 DEF RegInv

(* The lists and the control point keep their shape in every run.          *)
LEMMA ShapeCorrect == Spec => []Shape
<1>1. Init => Shape
  BY SizesAssumption DEF Init, Shape, Startup, Modules, Databases, Rules
<1>2. Shape /\ [Next]_vars => Shape'
  <2> SUFFICES ASSUME Shape, [Next]_vars PROVE Shape'
    OBVIOUS
  <2> USE DEF Startup, Serving
  <2>1. CASE LoadModule
    <3>1. at \in Modules /\ at' \in Nat \ {0} /\ pc' = pc
      BY <2>1, SizesAssumption DEF LoadModule, Shape, Modules
    <3>2. loaded' \subseteq Modules /\ modules' \subseteq Modules
      BY <2>1, <3>1 DEF LoadModule, Shape
    <3>3. databases' \subseteq databases /\ rules' = rules
      BY <2>1 DEF LoadModule
    <3>4. QED
      BY <3>1, <3>2, <3>3 DEF Shape
  <2>2. CASE InitDatabase \/ LinkRule
    BY <2>2 DEF InitDatabase, LinkRule, Shape
  <2>3. CASE LoadDone \/ InitDone
    BY <2>3 DEF LoadDone, InitDone, Shape
  <2>4. CASE LinkDone \/ find_dispatch_rule \/ OpenDatabase \/ OpenFail
    BY <2>4 DEF LinkDone, find_dispatch_rule, OpenDatabase, OpenFail, Shape,
       regVars
  <2>5. CASE Transform \/ QueryOk \/ QueryFail \/ NullCall \/ NotFound \/ close_databases
    BY <2>5 DEF Transform, QueryOk, QueryFail, NullCall, NotFound, close_databases,
       Shape, regVars
  <2>6. CASE SessionStart \/ ReadQuery \/ ReadEnd \/ ReadAbort
    BY <2>6 DEF SessionStart, ReadQuery, ReadEnd, ReadAbort, Shape, regVars
  <2>7. CASE free_databases \/ UNCHANGED vars
    BY <2>7 DEF free_databases, vars, regVars, Shape
  <2>8. QED
    BY <2>1, <2>2, <2>3, <2>4, <2>5, <2>6, <2>7 DEF Next, Step
<1>3. QED
  BY <1>1, <1>2, PTL DEF Spec

(* After start-up each database is initialised and has a loaded module,    *)
(* and each rule has a database whose module defines the function the rule *)
(* calls (smap_modules_load, init_databases, link_dispatch_rules), unless  *)
(* the module says that its version is 0.                                  *)
THEOREM LinkedRulesSoundCorrect == Spec => []LinkedRulesSound
<1>1. Init => RegInv
  BY SizesAssumption DEF Init, RegInv, Modules, Startup, Serving
<1>2. Shape /\ RegInv /\ [Next]_vars => RegInv'
  <2> SUFFICES ASSUME Shape, RegInv, [Next]_vars PROVE RegInv'
    OBVIOUS
  <2> USE DEF Modules, Databases, Rules, Serving
  <2>1. CASE LoadModule
    <3>1. /\ at \in Nat /\ modules \subseteq Nat
          /\ \A m \in modules : m < at + 1 => m < at \/ m = at
      BY SizesAssumption DEF Shape
    <3>2. pc = "load" /\ pc' = "load" /\ at' = at + 1
          /\ modules' \subseteq modules /\ loaded \subseteq loaded'
      BY <2>1 DEF LoadModule
    <3>3. at \in loaded' \/ at \notin modules'
      BY <2>1 DEF LoadModule
    <3>4. \A m \in loaded' : WellFormed(m)
      BY <2>1 DEF LoadModule, RegInv
    <3>5. QED
      BY <3>1, <3>2, <3>3, <3>4 DEF RegInv
  <2>2. CASE LoadDone
    <3>1. \A m \in modules : m \in Nat /\ m <= NModules
      BY SizesAssumption DEF Shape
    <3>2. \A d \in databases : d \in Nat /\ ~(d < 1)
      BY SizesAssumption DEF Shape
    <3>3. at \in Nat /\ at > NModules /\ pc = "load"
      BY <2>2 DEF Shape, LoadDone
    <3>4. \A m \in modules : m < at
      BY <3>1, <3>3, SizesAssumption
    <3>5. modules' \subseteq loaded'
      BY <2>2, <3>3, <3>4 DEF LoadDone, RegInv
    <3>6. QED
      BY <2>2, <3>2, <3>5 DEF LoadDone, RegInv
  <2>3. CASE InitDatabase
    <3>1. \A d \in databases : d < at + 1 => d < at \/ d = at
      BY SizesAssumption DEF Shape
    <3>2. /\ pc = "init" /\ pc' = "init" /\ at' = at + 1
          /\ UNCHANGED <<modules, loaded>>
          /\ databases' \subseteq databases /\ dbh \subseteq dbh'
      BY <2>3 DEF InitDatabase
    <3>3. at \in databases' => at \in dbh' /\ DbModule[at] \in modules
      BY <2>3 DEF InitDatabase
    <3>4. QED
      BY <3>1, <3>2, <3>3 DEF RegInv
  <2>4. CASE InitDone
    <3>1. \A d \in databases : d \in Nat /\ d <= NDatabases
      BY SizesAssumption DEF Shape
    <3>2. \A r \in rules : r \in Nat /\ ~(r < 1)
      BY SizesAssumption DEF Shape
    <3>3. at \in Nat /\ at > NDatabases /\ pc = "init"
      BY <2>4 DEF Shape, InitDone
    <3>4. \A d \in databases : d < at
      BY <3>1, <3>3, SizesAssumption
    <3>5. \A d \in databases : d \in dbh /\ DbModule[d] \in modules
      BY <3>3, <3>4 DEF RegInv
    <3>6. QED
      BY <2>4, <3>2, <3>5 DEF InitDone, RegInv
  <2>5. CASE LinkRule
    BY <2>5, SizesAssumption DEF LinkRule, Shape, RegInv, Linkable
  <2>6. CASE LinkDone
    BY <2>6, SizesAssumption DEF LinkDone, Shape, RegInv, Linkable, regVars
  <2>7. CASE free_databases
    BY <2>7 DEF free_databases, RegInv, Linkable
  <2>8. ASSUME {pc, pc'} \subseteq Serving \ {"exit"}, UNCHANGED regVars
        PROVE  RegInv'
    BY <2>8, RegistryKept
  <2>9. CASE find_dispatch_rule \/ OpenDatabase \/ OpenFail
    BY <2>8, <2>9 DEF find_dispatch_rule, OpenDatabase, OpenFail
  <2>10. CASE Transform \/ QueryOk \/ QueryFail \/ NullCall \/ NotFound \/ close_databases
    BY <2>8, <2>10 DEF Transform, QueryOk, QueryFail, NullCall, NotFound, close_databases
  <2>11. CASE SessionStart \/ ReadQuery \/ ReadEnd \/ ReadAbort
    BY <2>8, <2>11 DEF SessionStart, ReadQuery, ReadEnd, ReadAbort
  <2>12. CASE UNCHANGED vars
    BY <2>12 DEF vars, regVars, RegInv, Linkable
  <2>13. QED
    BY <2>1, <2>2, <2>3, <2>4, <2>5, <2>6, <2>7, <2>9, <2>10, <2>11, <2>12
       DEF Next, Step
<1>3. Shape /\ RegInv => LinkedRulesSound
  <2> SUFFICES ASSUME Shape, RegInv, pc \in Serving \ {"exit"}
               PROVE  LinkedRulesSound
    BY DEF LinkedRulesSound
  <2>1. \A d \in databases : d \in dbh /\ DbModule[d] \in loaded
    BY DEF RegInv, Serving
  <2>2. ASSUME NEW r \in rules, Kind[ModuleOf(r)].version > 0
        PROVE  Defined(r)
    <3> DEFINE m == ModuleOf(r)
    <3>1. Rule[r].db \in databases /\ Provides(Kind[m], Rule[r].xform)
      BY DEF RegInv, Linkable, ModuleOf
    <3>2. m \in Modules /\ WellFormed(m)
      BY <2>1, <3>1 DEF RegInv, Shape, ModuleOf
    <3>3. Kind[m].version \in Nat
      BY <3>2, KindAssumption
    <3>4. QED
      BY <2>2, <3>1, <3>2, <3>3 DEF Provides, WellFormed, Defined, Need
  <2>3. QED
    BY <2>1, <2>2 DEF RegInv, Linkable, LinkedRulesSound
<1>4. QED
  BY <1>1, <1>2, <1>3, ShapeCorrect, PTL DEF Spec

-----------------------------------------------------------------------------
(* Sessions.                                                               *)

(* The steps before the first session open nothing.                        *)
OpenInv == OpenBalanced /\ (pc \in Startup => opened = {})

(* The opened flags agree with the modules, a database is used only while  *)
(* it is open, and no session leaves one open to the next                  *)
(* (dispatch_query_pack, close_databases).                                 *)
THEOREM OpenBalancedCorrect == Spec => []OpenBalanced
<1>1. Init => OpenInv
  BY DEF Init, OpenInv, OpenBalanced
<1>2. OpenInv /\ [Next]_vars => OpenInv'
  <2> SUFFICES ASSUME OpenInv, [Next]_vars PROVE OpenInv'
    OBVIOUS
  <2> USE DEF OpenInv, OpenBalanced, Startup, regVars, queryVars
  <2>1. CASE LoadModule \/ LoadDone \/ InitDatabase \/ InitDone
    BY <2>1 DEF LoadModule, LoadDone, InitDatabase, InitDone
  <2>2. CASE LinkRule \/ LinkDone
    BY <2>2 DEF LinkRule, LinkDone
  <2>3. CASE find_dispatch_rule \/ OpenFail \/ Transform
    BY <2>3 DEF find_dispatch_rule, OpenFail, Transform
  <2>4. CASE OpenDatabase
    BY <2>4 DEF OpenDatabase, CurDb
  <2>5. CASE QueryOk \/ QueryFail \/ NullCall \/ NotFound
    BY <2>5 DEF QueryOk, QueryFail, NullCall, NotFound
  <2>6. CASE close_databases
    BY <2>6 DEF close_databases
  <2>7. CASE SessionStart \/ ReadQuery \/ ReadEnd \/ ReadAbort
    BY <2>7 DEF SessionStart, ReadQuery, ReadEnd, ReadAbort
  <2>8. CASE free_databases \/ UNCHANGED vars
    BY <2>8 DEF free_databases, vars, CurDb
  <2>9. QED
    BY <2>1, <2>2, <2>3, <2>4, <2>5, <2>6, <2>7, <2>8 DEF Next, Step
<1>3. OpenInv => OpenBalanced
  BY DEF OpenInv
<1>4. QED
  BY <1>1, <1>2, <1>3, PTL DEF Spec

(* A query that is being dealt with has a map name, whatever a             *)
(* transformation made of it.                                              *)
Asking == {"find", "open", "apply", "notfound"}
ReplyInv ==
  /\ OneReply
  /\ "map" \in DOMAIN qp
  /\ pc \in Asking => qp.map # "none"

(* By the time a query has been dealt with exactly one reply has been      *)
(* written for it, on every path through dispatch_query_pack; a module     *)
(* that fails after it has written is the one exception.                   *)
THEOREM OneReplyCorrect == Spec => []OneReply
<1>1. Init => ReplyInv
  BY DEF Init, ReplyInv, OneReply, Asking, NoQuery
<1>2. ReplyInv /\ [Next]_vars => ReplyInv'
  <2> SUFFICES ASSUME ReplyInv, [Next]_vars PROVE ReplyInv'
    OBVIOUS
  <2> USE DEF ReplyInv, OneReply, Asking, regVars, queryVars
  <2>1. CASE LoadModule \/ LoadDone \/ InitDatabase \/ InitDone
    BY <2>1 DEF LoadModule, LoadDone, InitDatabase, InitDone
  <2>2. CASE LinkRule \/ LinkDone
    BY <2>2 DEF LinkRule, LinkDone
  <2>3. CASE find_dispatch_rule \/ OpenFail \/ OpenDatabase
    BY <2>3 DEF find_dispatch_rule, OpenFail, OpenDatabase
  <2>4. CASE Transform
    <3>1. "map" \in DOMAIN qp' /\ qp'.map # "none"
      BY <2>4, WordsAssumption DEF Transform
    <3>2. pc' \in {"find", "notfound"} /\ replies' = 0
      BY <2>4 DEF Transform
    <3>3. QED
      BY <3>1, <3>2
  <2>5. CASE QueryOk \/ QueryFail \/ NullCall \/ NotFound
    BY <2>5 DEF QueryOk, QueryFail, NullCall, NotFound
  <2>6. CASE close_databases \/ ReadEnd \/ ReadAbort
    BY <2>6 DEF close_databases, ReadEnd, ReadAbort
  <2>7. CASE SessionStart
    BY <2>7 DEF SessionStart, NoQuery
  <2>8. CASE ReadQuery
    BY <2>8, WordsAssumption DEF ReadQuery
  <2>9. CASE free_databases \/ UNCHANGED vars
    BY <2>9 DEF free_databases, vars
  <2>10. QED
    BY <2>1, <2>2, <2>3, <2>4, <2>5, <2>6, <2>7, <2>8, <2>9 DEF Next, Step
<1>3. ReplyInv => OneReply
  BY DEF ReplyInv
<1>4. QED
  BY <1>1, <1>2, <1>3, PTL DEF Spec

-----------------------------------------------------------------------------
(* The search.                                                             *)

(* Every rule before n has been used for a transformation, or did not      *)
(* match the query as it stood when the search passed it; what was used    *)
(* lies before n.                                                          *)
Passed(n) ==
  /\ \A r \in rules : \/ r >= n
                      \/ r \in DOMAIN trail
                      \/ ~Matches(r, AsSeenBy(r))
  /\ \A r \in DOMAIN trail : r < n /\ Rule[r].xform # "none"

(* Between two rules the search is at "start".  It is 0 only if there are  *)
(* no rules at all: find_dispatch_rule would begin again at the head.      *)
SearchInv ==
  /\ DOMAIN trail \subseteq Nat
  /\ pc = "find" => start \in Nat /\ Passed(start) /\ (start = 0 => rules = {})
  /\ pc \in {"open", "apply"} => cur \in rules /\ Matches(cur, qp) /\ Passed(cur)

(* The rule in use is the first that applies to the query as transformed   *)
(* so far, and none is used twice (find_dispatch_rule,                     *)
(* dispatch_query_pack).                                                   *)
THEOREM FirstMatchWinsCorrect == Spec => []FirstMatchWins
<1>1. Init => SearchInv
  BY DEF Init, SearchInv, Nothing
<1>2. Shape /\ SearchInv /\ [Next]_vars => SearchInv'
  <2> SUFFICES ASSUME Shape, SearchInv, [Next]_vars PROVE SearchInv'
    OBVIOUS
  <2>a. rules \in SUBSET Nat
    BY SizesAssumption DEF Shape, Rules
  <2>1. CASE ReadQuery
    <3>1. /\ start' = NextOf(rules, 1) /\ rules' = rules /\ pc' = "find"
          /\ DOMAIN trail' = {}
      BY <2>1 DEF ReadQuery, Nothing, regVars
    <3>2. \A r \in rules : r >= 1
      BY SizesAssumption DEF Shape, Rules
    <3>3. start' \in Nat /\ (start' = 0 => rules = {})
          /\ \A r \in rules : r >= start'
      <4>0. PICK n : n = NextOf(rules, 1)
        OBVIOUS
      <4>1. \/ n = 0 /\ \A r \in rules : r < 1
            \/ n \in rules /\ \A r \in rules : r < 1 \/ r >= n
        BY <2>a, <4>0, NextOfIsNext
      <4>2. \A r \in rules : r \in Nat /\ ~(r < 1)
        BY <2>a, <3>2
      <4>3. n \in Nat /\ (n = 0 => rules = {}) /\ \A r \in rules : r >= n
        <5>0. \A r \in rules : r \in Nat
          BY <2>a
        <5>1. n \in Nat
          <6>1. CASE n = 0
            BY <6>1
          <6>2. CASE n \in rules
            BY <5>0, <6>2
          <6>3. QED
            BY <4>1, <6>1, <6>2
        <5>2. CASE n = 0 /\ \A r \in rules : r < 1
          <6>1. rules = {}
            BY <4>2, <5>2
          <6>2. QED
            BY <5>1, <6>1
        <5>3. CASE n \in rules /\ \A r \in rules : r < 1 \/ r >= n
          <6>1. n # 0 /\ \A r \in rules : r >= n
            BY <4>2, <5>3
          <6>2. QED
            BY <5>1, <6>1
        <5>4. QED
          BY <4>1, <5>2, <5>3
      <4>4. QED
        BY <3>1, <4>0, <4>3
    <3>4. QED
      BY <3>1, <3>3 DEF SearchInv, Passed
  <2>2. CASE find_dispatch_rule
    <3>1. UNCHANGED <<rules, qp, trail, start>> /\ pc = "find"
      BY <2>2 DEF find_dispatch_rule, regVars
    <3>2. CASE Candidates = {}
      BY <2>2, <3>1, <3>2 DEF find_dispatch_rule, SearchInv
    <3>3. CASE Candidates # {}
      <4>1. Candidates \in SUBSET Nat
        BY <2>a DEF Candidates
      <4>2. cur' = Min(Candidates) /\ pc' = "open"
        BY <2>2, <3>3 DEF find_dispatch_rule
      <4>3. cur' \in Candidates /\ \A r \in Candidates : cur' <= r
        BY <3>3, <4>1, <4>2, MinIsLeast
      <4>4. cur' \in rules /\ Matches(cur', qp) /\ cur' >= start
            /\ start \in Nat /\ Passed(start)
        BY <3>1, <4>3 DEF Candidates, SearchInv
      <4>5. ASSUME NEW r \in rules, r < cur', r \notin DOMAIN trail
            PROVE  ~Matches(r, AsSeenBy(r))
        <5>1. CASE r >= start
          <6>1. ~Matches(r, qp)
            BY <4>3, <4>4, <4>5, <5>1, <2>a DEF Candidates
          <6>2. {t \in DOMAIN trail : t > r} = {}
            BY <4>4, <5>1, <2>a DEF Passed, SearchInv
          <6>3. QED
            BY <6>1, <6>2 DEF AsSeenBy
        <5>2. CASE ~(r >= start)
          BY <4>4, <4>5, <5>2 DEF Passed
        <5>3. QED
          BY <5>1, <5>2
      <4>6. \A r \in DOMAIN trail : r < cur' /\ Rule[r].xform # "none"
        BY <4>4, <2>a DEF Passed, SearchInv
      <4>7. \A r \in rules : AsSeenBy(r)' = AsSeenBy(r)
        BY <3>1 DEF AsSeenBy
      <4>8. Passed(cur)'
        BY <3>1, <4>4, <4>5, <4>6, <4>7, <2>a DEF Passed
      <4>9. QED
        BY <3>1, <4>2, <4>4, <4>8 DEF SearchInv
    <3>4. QED
      BY <3>2, <3>3
  <2>3. CASE Transform
    <3>1. /\ cur \in rules /\ cur \in Nat /\ Passed(cur)
          /\ Rule[cur].xform # "none" /\ UNCHANGED <<rules, cur>>
      BY <2>3, <2>a DEF Transform, SearchInv, regVars
    <3>2. /\ DOMAIN trail' = DOMAIN trail \cup {cur}
          /\ trail'[cur] = qp
          /\ \A r \in DOMAIN trail : trail'[r] = trail[r]
      BY <2>3, <3>1 DEF Transform, Passed, SearchInv
    <3>3. CASE NextRule = 0
      BY <2>3, <3>1, <3>2, <3>3 DEF Transform, SearchInv
    <3>4. CASE NextRule # 0
      <4>1. pc' = "find" /\ start' = NextOf(rules, cur + 1)
        BY <2>3, <3>4 DEF Transform, NextRule
      <4>2. /\ start' \in Nat /\ start' > cur
            /\ \A r \in rules : r <= cur \/ r >= start'
        <5>0. PICK n : n = NextOf(rules, cur + 1)
          OBVIOUS
        <5>1. \/ n = 0
              \/ /\ n \in rules /\ n >= cur + 1
                 /\ \A r \in rules : r < cur + 1 \/ r >= n
          <6>1. cur + 1 \in Nat
            BY <3>1
          <6>2. QED
            BY <2>a, <5>0, <6>1, NextOfIsNext, Zenon
        <5>2. n # 0
          BY <3>4, <5>0 DEF NextRule
        <5>3. n \in Nat /\ n > cur /\ \A r \in rules : r <= cur \/ r >= n
          <6>1. n \in rules /\ n \in Nat
            BY <2>a, <5>1, <5>2
          <6>2. n > cur
            BY <3>1, <5>1, <5>2, <6>1
          <6>3. ASSUME NEW r \in rules PROVE r <= cur \/ r >= n
            <7>1. r \in Nat /\ (r < cur + 1 \/ r >= n)
              BY <2>a, <5>1, <5>2
            <7>2. QED
              BY <3>1, <6>1, <7>1
          <6>4. QED
            BY <6>1, <6>2, <6>3
        <5>4. QED
          BY <4>1, <5>0, <5>3
      <4>3. ASSUME NEW r \in rules, r < start', r \notin DOMAIN trail'
            PROVE  ~Matches(r, AsSeenBy(r)')
        <5>1. r \in Nat /\ r < cur /\ ~Matches(r, AsSeenBy(r))
          BY <2>a, <3>1, <3>2, <4>2, <4>3 DEF Passed
        <5> DEFINE after == {t \in DOMAIN trail : t > r}
                   after2 == {t \in DOMAIN trail' : t > r}
        <5>2. after2 = after \cup {cur}
          BY <3>1, <3>2, <5>1
        <5>3. CASE after = {}
          <6>1. Min(after2) = cur
            <7>1. after2 \in SUBSET Nat /\ after2 = {cur}
              BY <3>1, <5>2, <5>3
            <7>2. QED
              BY <7>1, MinIsLeast
          <6>2. AsSeenBy(r)' = qp
            BY <3>2, <5>2, <6>1 DEF AsSeenBy
          <6>3. AsSeenBy(r) = qp
            BY <5>3 DEF AsSeenBy
          <6>4. QED
            BY <5>1, <6>2, <6>3
        <5>4. CASE after # {}
          <6>1. after \in SUBSET Nat /\ after2 \in SUBSET Nat
            BY <3>1, <5>2 DEF SearchInv
          <6>2. \A t \in after : t < cur
            BY <3>1 DEF Passed
          <6>3. /\ Min(after) \in after /\ \A t \in after : Min(after) <= t
            BY <5>4, <6>1, MinIsLeast
          <6>4. Min(after2) \in after2 /\ \A t \in after2 : Min(after2) <= t
            BY <5>2, <6>1, MinIsLeast
          <6>5. Min(after2) = Min(after)
            BY <3>1, <5>2, <6>1, <6>2, <6>3, <6>4, SMTT(30)
          <6>6. AsSeenBy(r)' = trail'[Min(after2)]
            BY <5>2 DEF AsSeenBy
          <6>7. AsSeenBy(r) = trail[Min(after)]
            BY <5>4 DEF AsSeenBy
          <6>8. QED
            BY <3>2, <5>1, <6>3, <6>5, <6>6, <6>7
        <5>5. QED
          BY <5>3, <5>4
      <4>4. \A r \in DOMAIN trail' : r < start' /\ Rule[r].xform # "none"
        BY <3>1, <3>2, <4>2 DEF Passed, SearchInv
      <4>5. Passed(start)'
        BY <2>a, <3>1, <4>2, <4>3, <4>4 DEF Passed
      <4>6. QED
        BY <3>1, <3>2, <3>4, <4>1, <4>2, <4>5 DEF SearchInv, NextRule
    <3>5. QED
      BY <3>3, <3>4
  <2>4. CASE OpenDatabase
    <3>1. UNCHANGED <<rules, qp, trail, cur>> /\ pc = "open" /\ pc' = "apply"
      BY <2>4 DEF OpenDatabase, regVars, queryVars
    <3>2. \A r \in rules : AsSeenBy(r)' = AsSeenBy(r)
      BY <3>1 DEF AsSeenBy
    <3>3. QED
      BY <3>1, <3>2 DEF SearchInv, Passed
  <2>5. CASE UNCHANGED vars
    <3>1. UNCHANGED <<rules, qp, trail, cur, start, pc>>
      BY <2>5 DEF vars, regVars, queryVars
    <3>2. \A r \in rules : AsSeenBy(r)' = AsSeenBy(r)
      BY <3>1 DEF AsSeenBy
    <3>3. QED
      BY <3>1, <3>2 DEF SearchInv, Passed
  <2>6. ASSUME pc' \notin {"find", "open", "apply"},
               DOMAIN trail' \in {{}, DOMAIN trail}
        PROVE  SearchInv'
    BY <2>6 DEF SearchInv
  <2>7. CASE LoadModule \/ LoadDone \/ InitDatabase \/ InitDone \/ LinkRule
    BY <2>6, <2>7 DEF LoadModule, LoadDone, InitDatabase, InitDone, LinkRule,
       queryVars
  <2>8. CASE LinkDone \/ OpenFail \/ QueryOk \/ QueryFail \/ NullCall \/ NotFound
    BY <2>6, <2>8 DEF LinkDone, OpenFail, QueryOk, QueryFail, NullCall, NotFound, queryVars
  <2>9. CASE close_databases \/ ReadEnd \/ ReadAbort \/ free_databases
    BY <2>6, <2>9 DEF close_databases, ReadEnd, ReadAbort, free_databases,
       queryVars
  <2>10. CASE SessionStart
    BY <2>6, <2>10 DEF SessionStart, Nothing
  <2>11. QED
    BY <2>1, <2>2, <2>3, <2>4, <2>5, <2>7, <2>8, <2>9, <2>10 DEF Next, Step
<1>3. Shape /\ SearchInv => FirstMatchWins
  BY DEF SearchInv, Passed, FirstMatchWins
<1>4. QED
  BY <1>1, <1>2, <1>3, ShapeCorrect, PTL DEF Spec
=============================================================================
