---------------------------- MODULE BackendProofs ---------------------------
(***************************************************************************)
(* Proofs about the modules mysql, postgres, ldap, mailutils and guile,    *)
(* for any number of databases, any statements and any order of queries,   *)
(* sessions and failures.                                                  *)
(***************************************************************************)
EXTENDS Sql, Ldap, Mailutils, Guile, RecursionProofs, FiniteSetTheorems

-----------------------------------------------------------------------------
(* Connections of the SQL modules.                                         *)

Handles == Dbs \cup {DefDb}
UsersOf(h) == {d \in opened : moddb_handle(d) = h}

IsConn(c) ==
  /\ c = [open |-> c.open, refcnt |-> c.refcnt, alive |-> c.alive,
          pending |-> c.pending]
  /\ c.open \in BOOLEAN /\ c.refcnt \in Nat /\ c.alive \in BOOLEAN

(* The connections are counted by the databases that are open.  Which      *)
(* connection a database uses is settled before the first of them opens.   *)
SqlInv ==
  /\ opened \subseteq Dbs
  /\ sqlpc = "init" => opened = {}
  /\ DOMAIN conn = Handles /\ \A h \in Handles : IsConn(conn[h])
  /\ ConnectionsCounted /\ InSync

(* A database uses its own connection or the one of the module.            *)
LEMMA HandleIsOne == \A d \in Dbs : moddb_handle(d) \in Handles
BY DEF moddb_handle, Handles

(* The users of a connection before and after one of them comes or goes.   *)
LEMMA UserCount ==
  ASSUME NEW S \in SUBSET Dbs, NEW d \in Dbs
  PROVE  /\ Cardinality(S) \in Nat
         /\ Cardinality(S) = 0 <=> S = {}
         /\ d \notin S => Cardinality(S \cup {d}) = Cardinality(S) + 1
         /\ d \in S => Cardinality(S \ {d}) = Cardinality(S) - 1
<1>1. IsFiniteSet(S)
  BY DbsAssumption, FS_Subset
<1>2. QED
  BY <1>1, FS_EmptySet, FS_AddElement, FS_RemoveElement, FS_CardinalityType

(* A connection whose server is gone is otherwise as it was.               *)
LEMMA SetAlive ==
  ASSUME NEW c, IsConn(c), NEW alive
  PROVE  [c EXCEPT !.alive = alive] =
           [open |-> c.open, refcnt |-> c.refcnt, alive |-> alive,
            pending |-> c.pending]
BY DEF IsConn

(* flush_result leaves nothing unread of what a stored procedure sends:    *)
(* only the last of the results may be one without rows.                   *)
LEMMA FlushEmpties ==
  ASSUME NEW R, NEW c, IsConn(c), c.pending \in Seq(R),
         \A k \in 1 .. Len(c.pending) - 1 : c.pending[k].fields
  PROVE  flush_result(c) = [c EXCEPT !.pending = <<>>]
<1> DEFINE s == c.pending
           without == {k \in DOMAIN s : ~s[k].fields}
<1>1. CASE without = {}
  BY <1>1 DEF flush_result
<1>2. CASE without # {}
  <2>1. Len(s) \in Nat /\ DOMAIN s = 1 .. Len(s)
    OBVIOUS
  <2>2. \A k \in without : k = Len(s)
    BY <2>1
  <2>3. Min(without) = Len(s)
    BY <1>2, <2>1, <2>2 DEF Min
  <2>4. SubSeq(s, Len(s) + 1, Len(s)) = <<>>
    BY <2>1, SubSeqEmpty
  <2>5. flush_result(c) = [c EXCEPT !.pending = SubSeq(s, Min(without) + 1, Len(s))]
    BY <1>2 DEF flush_result, IsConn
  <2>6. QED
    BY <2>3, <2>4, <2>5
<1>3. QED
  BY <1>1, <1>2

(* A step that opens and closes nothing keeps the count of each connection *)
(* if it keeps the connection's own.                                       *)
LEMMA CountKept ==
  ASSUME SqlInv, UNCHANGED opened, sqlpc' = "init" => sqlpc = "init",
         opened = {} \/ UNCHANGED db,
         DOMAIN conn' = Handles,
         \A h \in Handles : /\ IsConn(conn'[h])
                            /\ conn'[h].open = conn[h].open
                            /\ conn'[h].refcnt = conn[h].refcnt
                            /\ conn'[h].alive => conn'[h].pending = <<>>
  PROVE  SqlInv'
<1>1. ASSUME NEW h \in Handles PROVE UsersOf(h)' = UsersOf(h)
  BY DEF UsersOf, moddb_handle
<1>2. ConnectionsCounted'
  <2> SUFFICES ASSUME NEW h \in Handles
               PROVE  /\ conn'[h].refcnt = Cardinality(UsersOf(h)')
                      /\ conn'[h].open <=> UsersOf(h)' # {}
    BY DEF ConnectionsCounted, UsersOf, Handles
  <2>1. conn[h].refcnt = Cardinality(UsersOf(h)) /\ (conn[h].open <=> UsersOf(h) # {})
    BY DEF SqlInv, ConnectionsCounted, UsersOf, Handles
  <2>2. QED
    BY <1>1, <2>1
<1>3. QED
  BY <1>2 DEF SqlInv, InSync, Handles

(* opendb and the flag the dispatcher sets.                                *)
LEMMA OpenCounts ==
  ASSUME SqlInv, NEW d \in Dbs, d \notin opened, NEW connects \in BOOLEAN,
         conn' = opendb(moddb_handle(d), connects),
         opened' = IF conn'[moddb_handle(d)].open THEN opened \cup {d} ELSE opened,
         sqlpc = "session", sqlpc' = sqlpc, UNCHANGED db
  PROVE  SqlInv'
<1>0. PICK h \in Handles : h = moddb_handle(d)
  BY HandleIsOne
<1>1. DOMAIN conn = Handles /\ IsConn(conn[h])
  BY DEF SqlInv
<1>2. CASE ~conn[h].open /\ ~connects
  <2>1. conn' = conn /\ opened' = opened
    BY <1>0, <1>2 DEF opendb
  <2>2. QED
    BY <2>1, CountKept DEF SqlInv, InSync, Handles
<1>3. CASE conn[h].open \/ connects
  <2>1. PICK c : /\ conn' = [conn EXCEPT ![h] = c] /\ IsConn(c) /\ c.open
                 /\ c.refcnt = conn[h].refcnt + 1
                 /\ c.alive => c.pending = <<>>
    <3>1. CASE conn[h].open
      <4> DEFINE c == [conn[h] EXCEPT !.refcnt = @ + 1]
      <4>1. /\ c = [open |-> conn[h].open, refcnt |-> conn[h].refcnt + 1,
                   alive |-> conn[h].alive, pending |-> conn[h].pending]
            /\ conn[h].open \in BOOLEAN /\ conn[h].alive \in BOOLEAN
            /\ conn[h].refcnt \in Nat
        BY <1>1 DEF IsConn
      <4>2. conn' = [conn EXCEPT ![h] = c]
        BY <1>0, <3>1 DEF opendb
      <4>3. conn[h].alive => conn[h].pending = <<>>
        BY DEF SqlInv, InSync, Handles
      <4> HIDE DEF c
      <4>4. IsConn(c) /\ c.refcnt = conn[h].refcnt + 1 /\ c.open = conn[h].open
            /\ c.alive = conn[h].alive /\ c.pending = conn[h].pending
        BY <4>1 DEF IsConn
      <4>5. QED
        BY <3>1, <4>2, <4>3, <4>4
    <3>2. CASE ~conn[h].open
      <4> DEFINE c == [open |-> TRUE, refcnt |-> conn[h].refcnt + 1,
                       alive |-> TRUE, pending |-> <<>>]
      <4>1. IsConn(c) /\ c.open /\ c.refcnt = conn[h].refcnt + 1
            /\ c.pending = <<>>
        BY <1>1 DEF IsConn
      <4>2. conn' = [conn EXCEPT ![h] = c]
        BY <1>0, <1>3, <3>2 DEF opendb
      <4>3. QED
        BY <4>1, <4>2
    <3>3. QED
      BY <3>1, <3>2
  <2>2. conn'[h] = c /\ \A k \in Handles \ {h} : conn'[k] = conn[k]
    BY <1>1, <2>1
  <2>3. opened' = opened \cup {d} /\ opened' \subseteq Dbs
    BY <1>0, <2>1, <2>2 DEF SqlInv
  <2>4. UsersOf(h)' = UsersOf(h) \cup {d} /\ d \notin UsersOf(h)
        /\ UsersOf(h) \in SUBSET Dbs
    BY <1>0, <2>3 DEF UsersOf, moddb_handle, SqlInv
  <2>5. \A k \in Handles \ {h} : UsersOf(k)' = UsersOf(k)
    BY <1>0, <2>3 DEF UsersOf, moddb_handle
  <2>6. ConnectionsCounted'
    <3> SUFFICES ASSUME NEW k \in Handles
                 PROVE  /\ conn'[k].refcnt = Cardinality(UsersOf(k)')
                        /\ conn'[k].open <=> UsersOf(k)' # {}
      BY DEF ConnectionsCounted, UsersOf, Handles
    <3>1. conn[k].refcnt = Cardinality(UsersOf(k)) /\ (conn[k].open <=> UsersOf(k) # {})
      BY DEF SqlInv, ConnectionsCounted, UsersOf, Handles
    <3>2. CASE k # h
      BY <2>2, <2>5, <3>1, <3>2
    <3>3. CASE k = h
      <4>1. Cardinality(UsersOf(h) \cup {d}) = Cardinality(UsersOf(h)) + 1
        BY <2>4, UserCount
      <4>2. c.refcnt = Cardinality(UsersOf(h)')
        BY <2>1, <2>4, <3>1, <3>3, <4>1
      <4>3. QED
        BY <2>1, <2>2, <2>4, <3>3, <4>2
    <3>4. QED
      BY <3>2, <3>3
  <2>7. QED
    BY <1>1, <2>1, <2>2, <2>3, <2>6 DEF SqlInv, InSync, Handles
<1>4. QED
  BY <1>2, <1>3

(* closedb at the end of the session.                                      *)
LEMMA CloseCounts ==
  ASSUME SqlInv, NEW d \in opened, conn' = closedb(moddb_handle(d)),
         opened' = opened \ {d}, sqlpc' = sqlpc, UNCHANGED db
  PROVE  SqlInv'
<1>0. PICK h \in Handles : h = moddb_handle(d)
  BY HandleIsOne DEF SqlInv
<1>1. DOMAIN conn = Handles /\ IsConn(conn[h]) /\ d \in Dbs
  BY DEF SqlInv
<1>2. d \in UsersOf(h) /\ UsersOf(h) \in SUBSET Dbs
  BY <1>0 DEF UsersOf, SqlInv
<1>3. conn[h].open /\ conn[h].refcnt = Cardinality(UsersOf(h))
  BY <1>2 DEF SqlInv, ConnectionsCounted, UsersOf, Handles
<1>4. PICK c : /\ conn' = [conn EXCEPT ![h] = c]
               /\ c = IF conn[h].refcnt = 1 THEN Closed
                      ELSE [conn[h] EXCEPT !.refcnt = @ - 1]
  <2> DEFINE c == IF conn[h].refcnt = 1 THEN Closed
                  ELSE [conn[h] EXCEPT !.refcnt = @ - 1]
  <2>1. conn' = closedb(h)
    BY <1>0
  <2>2. closedb(h) = [conn EXCEPT ![h] = c]
    BY <1>3 DEF closedb
  <2>3. QED
    BY <2>1, <2>2
<1>5. /\ Cardinality(UsersOf(h)) \in Nat
      /\ Cardinality(UsersOf(h) \ {d}) = Cardinality(UsersOf(h)) - 1
      /\ Cardinality(UsersOf(h) \ {d}) \in Nat
      /\ Cardinality(UsersOf(h) \ {d}) = 0 <=> UsersOf(h) \ {d} = {}
  BY <1>1, <1>2, UserCount
<1>6. /\ IsConn(c) /\ c.refcnt = conn[h].refcnt - 1
      /\ c.open <=> conn[h].refcnt # 1
      /\ c.alive => c.pending = <<>>
  <2>1. CASE conn[h].refcnt = 1
    BY <1>4, <2>1 DEF IsConn, Closed
  <2>2. CASE conn[h].refcnt # 1
    <3>1. conn[h].refcnt - 1 \in Nat
      BY <1>3, <1>5
    <3>2. c = [conn[h] EXCEPT !.refcnt = conn[h].refcnt - 1]
      BY <1>4, <2>2
    <3>3. IsConn(c) /\ c.refcnt = conn[h].refcnt - 1 /\ c.open = conn[h].open
          /\ c.alive = conn[h].alive /\ c.pending = conn[h].pending
      BY <1>1, <3>1, <3>2 DEF IsConn
    <3>4. conn[h].alive => conn[h].pending = <<>>
      BY DEF SqlInv, InSync, Handles
    <3>5. QED
      BY <1>3, <2>2, <3>3, <3>4
  <2>3. QED
    BY <2>1, <2>2
<1>7. conn'[h] = c /\ \A k \in Handles \ {h} : conn'[k] = conn[k]
  BY <1>1, <1>4
<1>8. UsersOf(h)' = UsersOf(h) \ {d}
  BY DEF UsersOf, moddb_handle
<1>9. \A k \in Handles \ {h} : UsersOf(k)' = UsersOf(k)
  BY <1>0 DEF UsersOf, moddb_handle
<1>10. ConnectionsCounted'
  <2> SUFFICES ASSUME NEW k \in Handles
               PROVE  /\ conn'[k].refcnt = Cardinality(UsersOf(k)')
                      /\ conn'[k].open <=> UsersOf(k)' # {}
    BY DEF ConnectionsCounted, UsersOf, Handles
  <2>1. conn[k].refcnt = Cardinality(UsersOf(k)) /\ (conn[k].open <=> UsersOf(k) # {})
    BY DEF SqlInv, ConnectionsCounted, UsersOf, Handles
  <2>2. CASE k # h
    BY <1>7, <1>9, <2>1, <2>2
  <2>3. CASE k = h
    <3>1. c.refcnt = Cardinality(UsersOf(h) \ {d})
      BY <1>3, <1>5, <1>6
    <3>2. c.open <=> UsersOf(h) \ {d} # {}
      BY <1>3, <1>5, <1>6
    <3>3. QED
      BY <1>7, <1>8, <2>3, <3>1, <3>2
  <2>4. QED
    BY <2>2, <2>3
<1>11. /\ opened' \subseteq Dbs /\ (sqlpc' = "init" => opened' = {})
       /\ DOMAIN conn' = Handles
  BY <1>1, <1>4 DEF SqlInv
<1>12. InSync'
  BY <1>6, <1>7 DEF SqlInv, InSync, Handles
<1>13. \A k \in Handles : IsConn(conn'[k])
  BY <1>6, <1>7 DEF SqlInv
<1>14. QED
  BY <1>10, <1>11, <1>12, <1>13 DEF SqlInv

(* What the first part of mod_query of mysql.c gets, and whether it has    *)
(* something to store.                                                     *)
QueryResult(d, answer, gone) ==
  IF ~Expandable(db[d].query)
  THEN [rc |-> 1, res |-> <<>>, conn |-> conn[moddb_handle(d)]]
  ELSE do_query(moddb_handle(d), answer, gone)
HasSet(r) == r.res # <<>> /\ r.res[1].fields
AfterQuery(r) == IF HasSet(r) THEN flush_result(r.conn) ELSE r.conn

(* The connection a query of mysql.c leaves: as it was, with nothing       *)
(* unread, or lost.                                                        *)
LEMMA QueryInSync ==
  ASSUME SqlInv, NEW h \in Handles, NEW answer \in Answers, NEW gone \in BOOLEAN,
         NEW r,
         \/ r = do_query(h, answer, gone)
         \/ r = [rc |-> 1, res |-> <<>>, conn |-> conn[h]]
  PROVE  /\ IsConn(AfterQuery(r))
         /\ AfterQuery(r).open = conn[h].open
         /\ AfterQuery(r).refcnt = conn[h].refcnt
         /\ AfterQuery(r).alive => AfterQuery(r).pending = <<>>
<1>1. IsConn(conn[h]) /\ (conn[h].alive => conn[h].pending = <<>>)
  BY DEF SqlInv, InSync, Handles
<1>2. CASE r = [rc |-> 1, res |-> <<>>, conn |-> conn[h]]
  <2>1. AfterQuery(r) = conn[h]
    BY <1>2 DEF AfterQuery, HasSet
  <2>2. QED
    BY <1>1, <2>1
<1>3. CASE r # [rc |-> 1, res |-> <<>>, conn |-> conn[h]]
  <2>1. /\ answer # <<>>
        /\ r.res = IF gone THEN <<>> ELSE <<answer[1]>>
        /\ r.conn = [conn[h] EXCEPT !.alive = ~gone, !.pending = Tail(answer)]
    BY <1>3 DEF do_query
  <2>2. /\ IsConn(r.conn) /\ r.conn.open = conn[h].open
        /\ r.conn.refcnt = conn[h].refcnt
        /\ r.conn.alive = ~gone /\ r.conn.pending = Tail(answer)
    BY <1>1, <2>1 DEF IsConn
  <2> DEFINE R == UNION {ToSet(a) : a \in Answers}
  <2>3. answer \in Seq(R) /\ \A k \in 1 .. Len(answer) - 1 : answer[k].fields
    BY AnswersAssumption
  <2> HIDE DEF R
  <2>4. /\ Tail(answer) \in Seq(R) /\ Len(Tail(answer)) = Len(answer) - 1
        /\ \A k \in 1 .. Len(Tail(answer)) : Tail(answer)[k] = answer[k + 1]
    BY <2>1, <2>3, HeadTailProperties
  <2>5. CASE HasSet(r)
    <3>1. \A k \in 1 .. Len(Tail(answer)) - 1 : Tail(answer)[k].fields
      BY <2>3, <2>4
    <3>2. r.conn.pending \in Seq(R)
          /\ \A k \in 1 .. Len(r.conn.pending) - 1 : r.conn.pending[k].fields
      BY <2>2, <2>4, <3>1
    <3>3. flush_result(r.conn) = [r.conn EXCEPT !.pending = <<>>]
      BY <2>2, <3>2, FlushEmpties
    <3>4. AfterQuery(r) = [r.conn EXCEPT !.pending = <<>>]
      BY <2>5, <3>3 DEF AfterQuery
    <3>5. QED
      BY <2>2, <3>4 DEF IsConn
  <2>6. CASE ~HasSet(r)
    <3>0. AfterQuery(r) = r.conn
      BY <2>6 DEF AfterQuery
    <3>1. CASE gone
      BY <2>2, <3>0, <3>1
    <3>2. CASE ~gone
      <4>1. ~answer[1].fields
        <5>1. r.res = <<answer[1]>>
          BY <2>1, <3>2
        <5>2. r.res # <<>> /\ r.res[1] = answer[1]
          BY <5>1
        <5>3. QED
          BY <2>6, <5>2 DEF HasSet
      <4>2. Len(answer) = 1
        <5>1. PICK n \in Nat : n = Len(answer) /\ n # 0
          BY <2>1, <2>3, EmptySeq
        <5>2. ~(1 \in 1 .. n - 1)
          BY <2>3, <4>1, <5>1
        <5>3. n = 1
          BY <5>1, <5>2
        <5>4. QED
          BY <5>1, <5>3
      <4>3. Tail(answer) = <<>>
        <5>1. Len(Tail(answer)) = 0
          BY <2>4, <4>2
        <5>2. QED
          BY <2>4, <5>1, EmptySeq
      <4>4. QED
        BY <2>2, <3>0, <4>3
    <3>3. QED
      BY <3>1, <3>2
  <2>7. QED
    BY <2>5, <2>6
<1>4. QED
  BY <1>2, <1>3

(* SqlInv is inductive.                                                    *)
LEMMA SqlInvCorrect == SqlSpec => []SqlInv
<1>1. SqlInit => SqlInv
  <2> SUFFICES ASSUME SqlInit PROVE SqlInv
    OBVIOUS
  <2>1. opened = {} /\ conn = [c \in Handles |-> Closed]
    BY DEF SqlInit, Handles
  <2>2. IsConn(Closed) /\ Closed.refcnt = 0 /\ ~Closed.open /\ ~Closed.alive
    BY DEF Closed, IsConn
  <2>3. \A h \in Handles : conn[h] = Closed /\ UsersOf(h) = {}
    BY <2>1 DEF UsersOf
  <2>4. ConnectionsCounted
    BY <2>2, <2>3, FS_EmptySet DEF ConnectionsCounted, UsersOf, Handles
  <2>5. QED
    BY <2>1, <2>2, <2>3, <2>4 DEF SqlInv, InSync, Handles
<1>2. SqlInv /\ [SqlNext]_sqlvars => SqlInv'
  <2> SUFFICES ASSUME SqlInv, [SqlNext]_sqlvars PROVE SqlInv'
    OBVIOUS
  <2>a. /\ DOMAIN conn = Handles
        /\ \A h \in Handles : /\ IsConn(conn[h])
                              /\ conn[h].alive => conn[h].pending = <<>>
    BY DEF SqlInv, InSync, Handles
  <2>b. ASSUME UNCHANGED <<conn, opened>>, opened = {} \/ UNCHANGED db,
               sqlpc' = "init" => sqlpc = "init"
        PROVE  SqlInv'
    BY <2>a, <2>b, CountKept
  <2>1. CASE SessionStart \/ SessionEnd \/ UNCHANGED sqlvars
    BY <2>1, <2>b DEF SessionStart, SessionEnd, sqlvars
  <2>2. ASSUME NEW d \in Dbs, mod_init_db(d) \/ modpg_init_db(d)
        PROVE  SqlInv'
    <3>1. opened = {} /\ UNCHANGED <<conn, opened, sqlpc>>
      BY <2>2 DEF mod_init_db, modpg_init_db, SqlInv
    <3>2. QED
      BY <2>b, <3>1
  <2>3. ASSUME NEW d \in Dbs, mod_open(d) PROVE SqlInv'
    BY <2>3, OpenCounts DEF mod_open
  <2>4. ASSUME NEW d \in Dbs, modpg_open(d) PROVE SqlInv'
    <3>1. CASE UNCHANGED <<conn, opened>> /\ sqlpc' = "crash"
      BY <2>4, <2>b, <3>1 DEF modpg_open
    <3>2. CASE ~(UNCHANGED <<conn, opened>> /\ sqlpc' = "crash")
      <4>1. PICK connects \in BOOLEAN :
              /\ conn' = opendb(moddb_handle(d), connects)
              /\ opened' = IF conn'[moddb_handle(d)].open THEN opened \cup {d}
                           ELSE opened
              /\ sqlpc' = sqlpc
        BY <2>4, <3>2 DEF modpg_open, pg_opendb, modpg_handle
      <4>2. d \notin opened /\ sqlpc = "session" /\ UNCHANGED db
        BY <2>4 DEF modpg_open
      <4>3. QED
        BY <4>1, <4>2, OpenCounts
    <3>3. QED
      BY <3>1, <3>2
  <2>5. ASSUME NEW d \in Dbs, mod_close(d) \/ modpg_close(d) PROVE SqlInv'
    <3>1. Close(d, closedb(moddb_handle(d)))
      BY <2>5 DEF mod_close, modpg_close, pg_closedb, modpg_handle
    <3>2. QED
      BY <3>1, CloseCounts DEF Close
  <2>6. ASSUME NEW d \in Dbs, modpg_query(d) PROVE SqlInv'
    <3>1. UNCHANGED <<conn, opened, db>> /\ (sqlpc' = sqlpc \/ sqlpc' = "crash")
      BY <2>6 DEF modpg_query, Crash
    <3>2. QED
      BY <2>b, <3>1
  <2>7. ASSUME NEW h \in Handles, ServerGone(h) PROVE SqlInv'
    <3> DEFINE c == [conn[h] EXCEPT !.alive = FALSE]
    <3>0. /\ c = [open |-> conn[h].open, refcnt |-> conn[h].refcnt,
                 alive |-> FALSE, pending |-> conn[h].pending]
          /\ conn[h].open \in BOOLEAN /\ conn[h].refcnt \in Nat
      <4>1. IsConn(conn[h])
        BY <2>a
      <4>2. c = [open |-> conn[h].open, refcnt |-> conn[h].refcnt,
                 alive |-> FALSE, pending |-> conn[h].pending]
        BY <4>1, SetAlive
      <4>3. QED
        BY <4>1, <4>2 DEF IsConn
    <3>2. conn' = [conn EXCEPT ![h] = c] /\ UNCHANGED <<db, opened, sqlpc>>
      BY <2>7 DEF ServerGone
    <3> HIDE DEF c
    <3>1. IsConn(c) /\ c.open = conn[h].open /\ c.refcnt = conn[h].refcnt
          /\ c.alive = FALSE
      BY <3>0 DEF IsConn
    <3>3. DOMAIN conn' = Handles /\ conn'[h] = c
          /\ \A k \in Handles \ {h} : conn'[k] = conn[k]
      BY <2>a, <3>2
    <3>4. QED
      BY <2>a, <3>1, <3>2, <3>3, CountKept
  <2>8. ASSUME NEW d \in Dbs, mod_query(d) PROVE SqlInv'
    <3>1. CASE UNCHANGED conn /\ sqlpc' = "crash"
      BY <2>8, <2>b, <3>1 DEF mod_query
    <3>2. CASE ~(UNCHANGED conn /\ sqlpc' = "crash")
      <4>0. PICK h \in Handles : h = moddb_handle(d)
        BY HandleIsOne
      <4>1. PICK answer \in Answers, gone \in BOOLEAN :
              /\ conn' = [conn EXCEPT ![moddb_handle(d)] =
                            AfterQuery(QueryResult(d, answer, gone))]
              /\ sqlpc' = sqlpc
        BY <2>8, <3>2 DEF mod_query, Crash, AfterQuery, HasSet, QueryResult
      <4>2. PICK c : /\ conn' = [conn EXCEPT ![h] = c] /\ IsConn(c)
                     /\ c.open = conn[h].open /\ c.refcnt = conn[h].refcnt
                     /\ c.alive => c.pending = <<>>
        <5>1. PICK r : r = QueryResult(d, answer, gone)
          OBVIOUS
        <5>2. \/ r = do_query(h, answer, gone)
              \/ r = [rc |-> 1, res |-> <<>>, conn |-> conn[h]]
          BY <4>0, <5>1 DEF QueryResult
        <5>3. QED
          BY <4>0, <4>1, <5>1, <5>2, QueryInSync, ZenonT(30)
      <4>3. DOMAIN conn' = Handles /\ conn'[h] = c
            /\ \A k \in Handles \ {h} : conn'[k] = conn[k]
        BY <2>a, <4>2
      <4>4. UNCHANGED <<db, opened, sqlpc>>
        BY <2>8, <4>1 DEF mod_query
      <4>5. QED
        BY <2>a, <4>2, <4>3, <4>4, CountKept
    <3>3. QED
      BY <3>1, <3>2
  <2>9. QED
    BY <2>1, <2>2, <2>3, <2>4, <2>5, <2>6, <2>7, <2>8 DEF SqlNext, Handles
<1>3. QED
  BY <1>1, <1>2, PTL DEF SqlSpec

(* Every connection, also the one of the module statement that several     *)
(* databases share, is open exactly while a database of the session uses   *)
(* it (opendb, closedb of mysql.c and postgres.c).                         *)
THEOREM ConnectionsCountedCorrect == SqlSpec => []ConnectionsCounted
<1>1. SqlInv => ConnectionsCounted
  BY DEF SqlInv
<1>2. QED
  BY <1>1, SqlInvCorrect, PTL

(* No query leaves results behind that would make the next one fail        *)
(* (do_query, flush_result).                                               *)
THEOREM InSyncCorrect == SqlSpec => []InSync
<1>1. SqlInv => InSync
  BY DEF SqlInv
<1>2. QED
  BY <1>1, SqlInvCorrect, PTL

-----------------------------------------------------------------------------
(* The identity mailutils looks at a mailbox with.                         *)

(* While the mailbox is open smapd has its own identity unless the account *)
(* asks for another, and then it can come back from it.                    *)
MuInv ==
  /\ "auth" \in DOMAIN res
  /\ IdentityRestored
  /\ mupc \in {"mailbox", "restore", "replied", "failed"} =>
       IF res.auth.change_uid THEN ruid = "root" ELSE euid = ruid

(* Whatever fails on the way, smapd has its own identity again before it   *)
(* answers with an error and before the next query (checksize).            *)
THEOREM IdentityRestoredCorrect == MuSpec => []IdentityRestored
<1>1. MuInit => MuInv
  BY DEF MuInit, MuInv, IdentityRestored, Res0
<1>2. MuInv /\ [MuNext]_muvars => MuInv'
  <2> SUFFICES ASSUME MuInv, [MuNext]_muvars PROVE MuInv'
    OBVIOUS
  <2> USE DEF MuInv, IdentityRestored
  <2>1. CASE mod_mailutils_open
    <3>1. mupc = "closed" /\ mupc' \in {"closed", "idle"}
          /\ UNCHANGED <<ruid, euid, res>>
      BY <2>1 DEF mod_mailutils_open
    <3>2. QED
      BY <3>1
  <2>2. CASE _mu_auth_query
    BY <2>2 DEF _mu_auth_query
  <2>3. CASE _mu_mbq_query
    BY <2>3 DEF _mu_mbq_query, Res0
  <2>4. CASE checksize
    <3>1. CASE mupc' = "error" /\ UNCHANGED <<euid, res>>
      BY <2>4, <3>1 DEF checksize
    <3>2. CASE ~(mupc' = "error" /\ UNCHANGED <<euid, res>>)
      <4>1. PICK auth : /\ euid' \in switch_user_id(auth, auth.uid)
                        /\ res' = [res EXCEPT !.auth = auth]
                        /\ mupc' = "mailbox"
        BY <2>4, <3>2 DEF checksize
      <4>2. res'.auth = auth /\ "auth" \in DOMAIN res' /\ ruid' = ruid
            /\ euid = ruid
        BY <2>4, <4>1 DEF checksize
      <4>3. IF auth.change_uid THEN ruid = "root" ELSE euid' = euid
        BY <4>1 DEF switch_user_id
      <4>4. QED
        BY <4>1, <4>2, <4>3
    <3>3. QED
      BY <3>1, <3>2
  <2>5. CASE MailboxFails
    BY <2>5 DEF MailboxFails
  <2>6. CASE checksize_user
    <3>1. /\ mupc = "mailbox" /\ mupc' \in {"failed", "replied"}
          /\ UNCHANGED <<ruid, euid>> /\ res'.auth = res.auth
          /\ "auth" \in DOMAIN res'
      BY <2>6 DEF checksize_user
    <3>2. QED
      BY <3>1
  <2>7. CASE RestoreUser
    <3>1. euid' = ruid /\ UNCHANGED <<ruid, res>> /\ mupc' \in {"error", "idle"}
      BY <2>7 DEF RestoreUser, Restored
    <3>2. QED
      BY <3>1
  <2>8. CASE OnError
    BY <2>8 DEF OnError
  <2>9. CASE UNCHANGED muvars
    BY <2>9 DEF muvars
  <2>10. QED
    BY <2>1, <2>2, <2>3, <2>4, <2>5, <2>6, <2>7, <2>8, <2>9 DEF MuNext
<1>3. MuInv => IdentityRestored
  BY DEF MuInv
<1>4. QED
  BY <1>1, <1>2, <1>3, PTL DEF MuSpec

-----------------------------------------------------------------------------
(* Handles of the guile databases.                                         *)

(* Also a database that is closed may have a handle, left by a procedure   *)
(* that threw: it is still protected and still its own.                    *)
Kept(h, prot) ==
  \A d \in GuileDbs : h[d] # UNSPECIFIED =>
    h[d] \in prot /\ \A e \in GuileDbs \ {d} : h[e] # h[d]
HandleOf == [d \in GuileDbs |-> gdb[d].handle]

IsDb(r) == r = [vtab |-> r.vtab, handle |-> r.handle,
                oport_inited |-> r.oport_inited]
GuileInv ==
  /\ DOMAIN gdb = GuileDbs /\ \A d \in GuileDbs : IsDb(gdb[d])
  /\ gopen \subseteq GuileDbs
  /\ gpc \in {"init", "declare"} => gopen = {}
  /\ \A d \in gopen : "open" \in gdb[d].vtab => gdb[d].handle # UNSPECIFIED
  /\ Kept(HandleOf, protected)

(* No open database loses its handle to the garbage collector or to        *)
(* another database, also after sessions in which opening or closing has   *)
(* thrown (guile_open, guile_close).                                       *)
THEOREM HandlesKeptCorrect == GuileSpec => []HandlesKept
<1>1. GuileInit => GuileInv
  <2> SUFFICES ASSUME GuileInit PROVE GuileInv
    OBVIOUS
  <2>1. \A d \in GuileDbs : gdb[d] = NoDb
    BY DEF GuileInit
  <2>2. NoDb.handle = UNSPECIFIED /\ IsDb(NoDb)
    BY DEF NoDb, IsDb
  <2>3. QED
    BY <2>1, <2>2 DEF GuileInit, GuileInv, Kept, HandleOf
<1>2. GuileInv /\ [GuileNext]_gvars => GuileInv'
  <2> SUFFICES ASSUME GuileInv, [GuileNext]_gvars PROVE GuileInv'
    OBVIOUS
  <2>a. ASSUME UNCHANGED <<gdb, gopen, protected>>,
               gpc' \in {"init", "declare"} => gpc \in {"init", "declare"}
        PROVE  GuileInv'
    BY <2>a DEF GuileInv, HandleOf
  <2>1. CASE guile_init \/ SessionBegins \/ SessionEnds \/ SessionOver
             \/ UNCHANGED gvars
    BY <2>1, <2>a DEF guile_init, SessionBegins, SessionEnds, SessionOver, gvars
  <2>2. ASSUME NEW d \in GuileDbs, NEW v, UNCHANGED <<gopen, protected>>,
               \/ gpc = "declare" /\ gpc' = gpc /\ gdb' = [gdb EXCEPT ![d].vtab = v]
               \/ gdb' = [gdb EXCEPT ![d].oport_inited = v]
                    /\ gpc = "session" /\ gpc' \in {"session", "crash"}
        PROVE  GuileInv'
    <3>1. \A e \in GuileDbs : gdb'[e].handle = gdb[e].handle /\ IsDb(gdb'[e])
      BY <2>2 DEF GuileInv, IsDb
    <3>2. HandleOf' = HandleOf
      BY <3>1 DEF HandleOf
    <3>3. \A e \in gopen : gdb'[e].vtab = gdb[e].vtab
      BY <2>2 DEF GuileInv, IsDb
    <3>4. QED
      BY <2>2, <3>1, <3>2, <3>3 DEF GuileInv
  <2>3. ASSUME NEW d \in GuileDbs, guile_init_db(d) \/ guile_query(d)
        PROVE  GuileInv'
    BY <2>2, <2>3 DEF guile_init_db, guile_query
  <2>4. ASSUME NEW d \in GuileDbs, NEW h, gdb' = [gdb EXCEPT ![d].handle = h]
        PROVE  /\ DOMAIN gdb' = GuileDbs /\ \A e \in GuileDbs : IsDb(gdb'[e])
               /\ gdb'[d].handle = h
               /\ \A e \in GuileDbs \ {d} : gdb'[e] = gdb[e]
               /\ \A e \in GuileDbs : gdb'[e].vtab = gdb[e].vtab
               /\ HandleOf' = [HandleOf EXCEPT ![d] = h]
    <3>1. /\ DOMAIN gdb' = GuileDbs /\ \A e \in GuileDbs : IsDb(gdb'[e])
          /\ gdb'[d].handle = h
          /\ \A e \in GuileDbs \ {d} : gdb'[e] = gdb[e]
          /\ \A e \in GuileDbs : gdb'[e].vtab = gdb[e].vtab
      BY <2>4 DEF GuileInv, IsDb
    <3>2. QED
      BY <3>1 DEF HandleOf
  <2>5. ASSUME NEW d \in GuileDbs, guile_open(d) PROVE GuileInv'
    <3>0. gpc = "session" /\ gpc' = gpc /\ d \notin gopen
      BY <2>5 DEF guile_open
    <3>1. CASE /\ UNCHANGED <<gdb, protected>>
               /\ gopen' = gopen \/ (gopen' = gopen \cup {d} /\ "open" \notin gdb[d].vtab)
      BY <3>0, <3>1 DEF GuileInv, HandleOf
    <3>2. ASSUME NEW h \in Fresh, gdb' = [gdb EXCEPT ![d].handle = h],
                 protected' = protected \cup {h}, gopen' = gopen \cup {d}
          PROVE  GuileInv'
      <4>1. h # UNSPECIFIED /\ \A e \in GuileDbs : gdb[e].handle # h
        <5>1. 2 * Cardinality(GuileDbs) * MaxSessions \in Int
          BY GuileAssumption, FS_CardinalityType
        <5>2. QED
          BY <5>1 DEF Fresh, Unused, UNSPECIFIED
      <4>2. Kept(HandleOf, protected)'
        BY <2>4, <3>2, <4>1 DEF Kept, HandleOf, GuileInv
      <4>3. \A e \in gopen' : "open" \in gdb'[e].vtab => gdb'[e].handle # UNSPECIFIED
        BY <2>4, <3>2, <4>1 DEF GuileInv
      <4>4. QED
        BY <2>4, <3>0, <3>2, <4>2, <4>3 DEF GuileInv
    <3>3. CASE gdb' = [gdb EXCEPT ![d].handle = UNSPECIFIED]
               /\ UNCHANGED <<protected, gopen>>
      <4>1. Kept(HandleOf, protected)'
        BY <2>4, <3>3 DEF Kept, HandleOf, GuileInv
      <4>2. \A e \in gopen' : "open" \in gdb'[e].vtab => gdb'[e].handle # UNSPECIFIED
        BY <2>4, <3>0, <3>3 DEF GuileInv
      <4>3. QED
        BY <2>4, <3>0, <3>3, <4>1, <4>2 DEF GuileInv
    <3>4. QED
      BY <2>5, <3>1, <3>2, <3>3 DEF guile_open, Protect
  <2>6. ASSUME NEW d \in GuileDbs, guile_close(d) PROVE GuileInv'
    <3>0. gpc = "closing" /\ gpc' = gpc /\ gopen' = gopen \ {d}
      BY <2>6 DEF guile_close
    <3>1. CASE UNCHANGED <<gdb, protected>>
      BY <3>0, <3>1 DEF GuileInv, HandleOf
    <3>2. CASE /\ protected' = protected \ {gdb[d].handle}
               /\ gdb' = [gdb EXCEPT ![d].handle = UNSPECIFIED]
      <4>1. Kept(HandleOf, protected)'
        BY <2>4, <3>2 DEF Kept, HandleOf, GuileInv
      <4>2. \A e \in gopen' : "open" \in gdb'[e].vtab => gdb'[e].handle # UNSPECIFIED
        BY <2>4, <3>0, <3>2 DEF GuileInv
      <4>3. QED
        BY <2>4, <3>0, <3>2, <4>1, <4>2 DEF GuileInv
    <3>3. QED
      BY <2>6, <3>1, <3>2 DEF guile_close
  <2>7. QED
    BY <2>1, <2>3, <2>5, <2>6 DEF GuileNext
<1>3. GuileInv => HandlesKept
  BY DEF GuileInv, HandlesKept, Kept, HandleOf
<1>4. QED
  BY <1>1, <1>2, <1>3, PTL DEF GuileSpec
-----------------------------------------------------------------------------
(* Replies of the LDAP module.                                             *)

(* The options a positive reply depends on, and the lines of the           *)
(* configuration file that have set one so far.                            *)
Relevant == {"positive-reply", "join-delim"}
LinesRead(o) == {k \in 1 .. lineno : Sets(stmts.file[k], o)}

(* While the file is read, the options are those of its last line that     *)
(* sets them, and before such a line those of the module statement.        *)
OptionsSoFar ==
  \A o \in Relevant :
    /\ Given(o, conf) <=> LinesRead(o) # {} \/ Given(o, stmts.module)
    /\ Given(o, conf) =>
         conf[o] = IF LinesRead(o) # {} THEN stmts.file[Max(LinesRead(o))].value
                   ELSE stmts.module[o]

(* After the database statement they are the configured ones, unless the   *)
(* file overrides the module statement, and the directory is asked for     *)
(* every variable of the positive reply.                                   *)
OptionsInForce ==
  /\ \A o \in Relevant :
       /\ Given(o, conf) <=> IsConfigured(o)
       /\ Given(o, conf) /\ ~FileOverrides(o) => conf[o] = Configured(o)
  /\ attrs = Eliminate(VarNames(conf))

(* Where the options are known, the positive reply is a template.          *)
IsReplyTemplate ==
  Given("positive-reply", conf) => IsTemplate(conf["positive-reply"])

Statements ==
  \E m \in LdapModules, f \in LdapFiles, d \in LdapStatements :
    stmts = [module |-> m, file |-> f, db |-> d]

LdapInv ==
  /\ Statements
  /\ lineno \in 0 .. Len(stmts.file)
  /\ ldappc = "init" => lineno = 0
  /\ ldappc = "file" => OptionsSoFar
  /\ ldappc \in {"file", "session", "open"} => IsReplyTemplate
  /\ ldappc \in {"session", "open"} => OptionsInForce
  /\ PositiveReplyFromEntry

LEMMA StatementsType ==
  ASSUME Statements
  PROVE  /\ stmts.module \in LdapModules /\ stmts.file \in LdapFiles
         /\ stmts.db \in LdapStatements
         /\ Len(stmts.file) \in Nat /\ DOMAIN stmts.file = 1 .. Len(stmts.file)
<1>1. /\ stmts.module \in LdapModules /\ stmts.file \in LdapFiles
      /\ stmts.db \in LdapStatements
  BY DEF Statements
<1>2. stmts.file \in Seq(Range(stmts.file))
  BY <1>1, LdapOptionsAssumption
<1> HIDE DEF Statements
<1>3. QED
  BY <1>1, <1>2

(* A line of the file that sets an option takes the place of the ones      *)
(* before it; another line changes nothing.                                *)
LEMMA LastLine ==
  ASSUME Statements, NEW o, lineno \in Nat, lineno' = lineno + 1,
         lineno + 1 \in DOMAIN stmts.file, stmts' = stmts
  PROVE  /\ Sets(stmts.file[lineno + 1], o) =>
              LinesRead(o)' # {} /\ Max(LinesRead(o)') = lineno + 1
         /\ ~Sets(stmts.file[lineno + 1], o) => LinesRead(o)' = LinesRead(o)
<1> DEFINE S == {k \in 1 .. lineno + 1 : Sets(stmts.file[k], o)}
<1>1. LinesRead(o)' = S
  BY DEF LinesRead, Sets
<1>2. ASSUME Sets(stmts.file[lineno + 1], o) PROVE Max(S) = lineno + 1
  <2>1. lineno + 1 \in S /\ \A y \in S : lineno + 1 >= y
    BY <1>2
  <2>2. \A x \in S : (\A y \in S : x >= y) => x = lineno + 1
    BY <2>1
  <2> HIDE DEF S
  <2>3. QED
    BY <2>1, <2>2 DEF Max
<1>3. ASSUME ~Sets(stmts.file[lineno + 1], o) PROVE S = LinesRead(o)
  BY <1>3 DEF LinesRead
<1>4. ASSUME Sets(stmts.file[lineno + 1], o) PROVE S # {}
  BY <1>4
<1> HIDE DEF S
<1>5. QED
  BY <1>1, <1>2, <1>3, <1>4

(* The value of a variable in a positive reply is the one the entry has:   *)
(* the directory was asked for it.                                         *)
LEMMA VariableFromEntry ==
  ASSUME OptionsInForce, AsRanked, IsReplyTemplate, Given("positive-reply", conf),
         Expandable(conf["positive-reply"]),
         NEW key, NEW entry, NEW k \in DOMAIN conf["positive-reply"],
         conf["positive-reply"][k][1] # "lit"
  PROVE  LET v   == conf["positive-reply"][k][2]
             env == getvar(key, Returned(entry))
         IN  (IF v \in DOMAIN env THEN env[v] ELSE <<>>) = EntryValue(key, entry, v)
<1> DEFINE t   == conf["positive-reply"]
           v   == t[k][2]
           msg == Returned(entry)
           ref == [option |-> "positive-reply", at |-> k, name |-> v]
<1>1. t[k][1] = "var"
  BY DEF IsReplyTemplate, IsTemplate, Expandable
<1>2. ref \in VarNames(conf)
  <2>1. ref \in wordsplit_varnames("positive-reply", t)
    BY <1>1 DEF wordsplit_varnames
  <2>2. QED
    BY <2>1 DEF VarNames, ReplyOptions, Given
<1>3. v \in attrs \/ v \in {"map", "key"}
  BY <1>2 DEF OptionsInForce, Eliminate, Own
<1>4. v \in DOMAIN msg => v \in DOMAIN entry \/ v = "dn"
  BY DEF Returned
<1>5. v \notin {"map", "key"} /\ v \in DOMAIN entry => v \in DOMAIN msg
  BY <1>3 DEF Returned
<1>6. v \in DOMAIN msg => msg[v] = entry[v]
  BY DEF Returned
<1>7. msg["dn"] = entry["dn"]
  BY DEF Returned
<1>8. entry[v] = msg[v] =>
        ValueOf(msg[v]) = IF IsConfigured("join-delim")
                          THEN Joined(entry[v], Configured("join-delim"))
                          ELSE entry[v][1]
  BY DEF ValueOf, OptionsInForce, AsRanked, Relevant
<1> DEFINE env == getvar(key, msg)
<1>9. /\ DOMAIN env = {"dn", "map", "key"} \cup DOMAIN msg
      /\ env["dn"] = msg["dn"][1] /\ env["map"] = <<"m">> /\ env["key"] = key
      /\ v \in DOMAIN msg /\ v \notin {"dn", "map", "key"} => env[v] = ValueOf(msg[v])
  BY DEF getvar, inenv
<1> HIDE DEF env, msg, v, t
<1>10. (IF v \in DOMAIN env THEN env[v] ELSE <<>>) = EntryValue(key, entry, v)
  BY <1>4, <1>5, <1>6, <1>7, <1>8, <1>9 DEF EntryValue
<1>11. QED
  BY <1>10 DEF env, msg, v, t

(* Every positive reply is the configured template with the entry's own    *)
(* values (PositiveReplyFromEntry), for every combination of module        *)
(* statement, configuration file and database statement in which the file  *)
(* overrides no option of the module statement that the reply depends on,  *)
(* every template without the variable db, every entry and every key.      *)
THEOREM LdapRepliesFromEntry == LdapSpec => []PositiveReplyFromEntry
<1>1. LdapInit => LdapInv
  <2> SUFFICES ASSUME LdapInit PROVE LdapInv
    OBVIOUS
  <2>1. Statements
    BY DEF LdapInit, Statements
  <2>2. Len(stmts.file) \in Nat
    BY <2>1, StatementsType
  <2>3. PositiveReplyFromEntry
    BY DEF LdapInit, PositiveReplyFromEntry
  <2>4. QED
    BY <2>1, <2>2, <2>3 DEF LdapInit, LdapInv
<1>2. LdapInv /\ [LdapNext]_ldapvars => LdapInv'
  <2> SUFFICES ASSUME LdapInv, [LdapNext]_ldapvars PROVE LdapInv'
    OBVIOUS
  <2>a. stmts' = stmts /\ Statements /\ Statements'
    <3>1. LdapNext => stmts' = stmts
      <4>1. ldap_conf_cpy => stmts' = stmts
        BY DEF ldap_conf_cpy
      <4>2. parse_ldap_conf => stmts' = stmts
        BY DEF parse_ldap_conf
      <4>3. mod_ldap_init_db => stmts' = stmts
        BY DEF mod_ldap_init_db
      <4>4. mod_ldap_open => stmts' = stmts
        BY DEF mod_ldap_open
      <4>5. mod_ldap_close => stmts' = stmts
        BY DEF mod_ldap_close
      <4>6. mod_ldap_query => stmts' = stmts
        BY DEF mod_ldap_query
      <4>7. QED
        BY <4>1, <4>2, <4>3, <4>4, <4>5, <4>6 DEF LdapNext
    <3>2. QED
      BY <3>1 DEF LdapInv, ldapvars, Statements
  <2>b. /\ stmts.module \in LdapModules /\ stmts.file \in LdapFiles
        /\ stmts.db \in LdapStatements
        /\ Len(stmts.file) \in Nat /\ DOMAIN stmts.file = 1 .. Len(stmts.file)
    BY <2>a, StatementsType
  <2>f. /\ ConfiguredReply' = ConfiguredReply
        /\ AsRanked' <=> AsRanked
        /\ \A key, entry : EntryReply(key, entry)' = EntryReply(key, entry)
    <3>1. \A o : (IsConfigured(o)' <=> IsConfigured(o)) /\ Configured(o)' = Configured(o)
      BY <2>a DEF IsConfigured, Configured, Lines
    <3>2. ConfiguredReply' = ConfiguredReply
      BY <3>1 DEF ConfiguredReply
    <3>3. \A key, entry, v : EntryValue(key, entry, v)' = EntryValue(key, entry, v)
      BY <3>1 DEF EntryValue
    <3>4. \A key, entry : EntryReply(key, entry)' = EntryReply(key, entry)
      BY <3>2, <3>3, Zenon DEF EntryReply
    <3>5. AsRanked' <=> AsRanked
      BY <2>a DEF AsRanked, FileOverrides, Lines
    <3>6. QED
      BY <3>2, <3>4, <3>5
  <2>c. ASSUME UNCHANGED answered PROVE PositiveReplyFromEntry'
    BY <2>c, <2>f DEF LdapInv, PositiveReplyFromEntry, NamesDb
  <2>d. ASSUME UNCHANGED <<conf, attrs>>, OptionsInForce PROVE OptionsInForce'
    BY <2>a, <2>d DEF OptionsInForce, IsConfigured, Configured, FileOverrides, Lines
  <2>e. ASSUME UNCHANGED conf, IsReplyTemplate PROVE IsReplyTemplate'
    BY <2>e DEF IsReplyTemplate
  <2>1. CASE ldap_conf_cpy
    <3>1. \A o \in Relevant : /\ LinesRead(o)' = {}
                              /\ Given(o, conf') <=> Given(o, stmts.module)
                              /\ Given(o, conf') => conf'[o] = stmts.module[o]
      BY <2>1 DEF ldap_conf_cpy, LdapInv, LinesRead, Relevant, mod_ldap_init, Given
    <3>2. OptionsSoFar'
      BY <2>a, <3>1 DEF OptionsSoFar, Given
    <3>3. IsReplyTemplate'
      BY <2>b, <3>1, LdapOptionsAssumption DEF IsReplyTemplate, Relevant
    <3>4. QED
      BY <2>1, <2>a, <2>c, <3>2, <3>3 DEF ldap_conf_cpy, LdapInv
  <2>2. CASE parse_ldap_conf
    <3> DEFINE next == stmts.file[lineno + 1]
    <3>1. lineno \in Nat /\ lineno' = lineno + 1 /\ lineno + 1 \in DOMAIN stmts.file
      BY <2>2, <2>b DEF parse_ldap_conf, LdapInv
    <3>2. \A o \in Relevant :
            /\ Sets(next, o) => Given(o, conf') /\ conf'[o] = next.value
            /\ ~Sets(next, o) => /\ Given(o, conf') <=> Given(o, conf)
                                 /\ Given(o, conf) => conf'[o] = conf[o]
      BY <2>2 DEF parse_ldap_conf, Over, Given, Sets
    <3> HIDE DEF next
    <3>3. OptionsSoFar
      BY <2>2 DEF parse_ldap_conf, LdapInv
    <3>4. OptionsSoFar'
      <4> SUFFICES ASSUME NEW o \in Relevant
                   PROVE  /\ Given(o, conf') <=> LinesRead(o)' # {} \/ Given(o, stmts.module)
                          /\ Given(o, conf') =>
                               conf'[o] = IF LinesRead(o)' # {}
                                          THEN stmts.file[Max(LinesRead(o)')].value
                                          ELSE stmts.module[o]
        BY <2>a DEF OptionsSoFar, Given
      <4>1. CASE Sets(next, o)
        <5>1. LinesRead(o)' # {} /\ Max(LinesRead(o)') = lineno + 1
          BY <2>a, <3>1, <4>1, LastLine DEF next
        <5>2. QED
          BY <3>2, <4>1, <5>1 DEF next
      <4>2. CASE ~Sets(next, o)
        <5>1. LinesRead(o)' = LinesRead(o)
          BY <2>a, <3>1, <4>2, LastLine DEF next
        <5>2. QED
          BY <3>2, <3>3, <4>2, <5>1 DEF OptionsSoFar
      <4>3. QED
        BY <4>1, <4>2
    <3>5. IsReplyTemplate'
      <4>1. Sets(next, "positive-reply") => IsTemplate(next.value)
        BY <2>b, <3>1, LdapOptionsAssumption DEF next
      <4>2. IsReplyTemplate
        BY <2>2 DEF parse_ldap_conf, LdapInv
      <4>3. QED
        BY <3>2, <4>1, <4>2 DEF IsReplyTemplate, Relevant, Given
    <3>6. QED
      BY <2>2, <2>a, <2>b, <2>c, <3>1, <3>4, <3>5 DEF parse_ldap_conf, LdapInv
  <2>3. CASE mod_ldap_init_db
    <3>1. OptionsSoFar /\ IsReplyTemplate
      BY <2>3 DEF mod_ldap_init_db, LdapInv
    <3>2. \A o : LinesRead(o) = Lines(o)
      BY <2>3, <2>b DEF mod_ldap_init_db, LinesRead, Lines
    <3>3. \A o \in Relevant :
            /\ Given(o, stmts.db) => Given(o, conf') /\ conf'[o] = stmts.db[o]
            /\ ~Given(o, stmts.db) => /\ Given(o, conf') <=> Given(o, conf)
                                      /\ Given(o, conf) => conf'[o] = conf[o]
      BY <2>3 DEF mod_ldap_init_db, make_options, Over, Given
    <3>4. \A o \in Relevant : /\ Given(o, conf') <=> IsConfigured(o)
                              /\ Given(o, conf') /\ ~FileOverrides(o) =>
                                   conf'[o] = Configured(o)
      BY <3>1, <3>2, <3>3 DEF OptionsSoFar, IsConfigured, Configured, FileOverrides
    <3>5. attrs' = Eliminate(VarNames(conf'))
      BY <2>3 DEF mod_ldap_init_db
    <3>6. OptionsInForce'
      BY <2>a, <3>4, <3>5 DEF OptionsInForce, IsConfigured, Configured, FileOverrides, Lines,
                              Given, Eliminate, VarNames
    <3>7. IsReplyTemplate'
      BY <2>b, <3>1, <3>3, LdapOptionsAssumption DEF IsReplyTemplate, Relevant, Given
    <3>8. QED
      BY <2>3, <2>a, <2>c, <3>6, <3>7 DEF mod_ldap_init_db, LdapInv
  <2>4. CASE mod_ldap_open
    BY <2>4, <2>a, <2>c, <2>d, <2>e DEF mod_ldap_open, LdapInv
  <2>5. CASE mod_ldap_close
    BY <2>5, <2>a, <2>c, <2>d, <2>e DEF mod_ldap_close, LdapInv
  <2>6. CASE mod_ldap_query
    <3>1. OptionsInForce /\ IsReplyTemplate
      BY <2>6 DEF mod_ldap_query, LdapInv
    <3> DEFINE pos == ConfiguredReply
    <3>2. AsRanked => pos = Reply("positive-reply", "OK")
      BY <3>1 DEF OptionsInForce, AsRanked, Relevant, Reply, ConfiguredReply
    <3>3. ASSUME NEW key, NEW entry, Expandable(pos), AsRanked
          PROVE  ldap_send_reply(pos, getvar(key, Returned(entry))) =
                   <<EntryReply(key, entry)>>
      <4> DEFINE env == getvar(key, Returned(entry))
                 Got(k) == IF pos[k][1] = "lit" THEN pos[k][2]
                           ELSE IF pos[k][2] \in DOMAIN env THEN env[pos[k][2]]
                           ELSE <<>>
      <4>1. ASSUME NEW k \in DOMAIN pos
            PROVE  Got(k) = IF pos[k][1] = "lit" THEN pos[k][2]
                            ELSE EntryValue(key, entry, pos[k][2])
        <5>1. CASE pos[k][1] = "lit"
          BY <5>1
        <5>2. CASE pos[k][1] # "lit"
          <6>1. Given("positive-reply", conf) /\ pos = conf["positive-reply"]
            <7>1. CASE Given("positive-reply", conf)
              BY <7>1, <3>2, <3>3 DEF Reply
            <7>2. CASE ~Given("positive-reply", conf)
              <8>1. pos = <<<<"lit", <<"OK">>>>>>
                BY <7>2, <3>2, <3>3 DEF Reply
              <8>2. QED
                BY <8>1, <4>1, <5>2
            <7>3. QED
              BY <7>1, <7>2
          <6> HIDE DEF pos
          <6>2. QED
            BY <3>1, <3>3, <5>2, <6>1, VariableFromEntry
        <5>3. QED
          BY <5>1, <5>2
      <4> HIDE DEF pos
      <4>2. Expand(pos, env) = EntryReply(key, entry)
        BY <4>1, Zenon DEF Expand, EntryReply, pos
      <4>3. QED
        BY <3>3, <4>2 DEF ldap_send_reply
    <3>4. ASSUME ~UNCHANGED answered
          PROVE  \E key \in LdapKeys, found \in Entries :
                   \/ answered'.entry = <<>>
                   \/ answered' = [key |-> key, entry |-> found[1],
                                   reply |-> ldap_send_reply(Reply("positive-reply", "OK"),
                                                             getvar(key, Returned(found[1])))]
      BY <2>6, <3>4 DEF mod_ldap_query
    <3>5. ASSUME AsRanked, answered'.entry # <<>>, ~UNCHANGED answered
          PROVE  \E key, entry :
                   answered' = [key |-> key, entry |-> entry,
                                reply |-> ldap_send_reply(pos, getvar(key, Returned(entry)))]
      BY <3>2, <3>4, <3>5
    <3> HIDE DEF pos
    <3>6. PositiveReplyFromEntry'
      <4>1. CASE answered'.entry = <<>>
        BY <4>1 DEF PositiveReplyFromEntry
      <4>2. CASE AsRanked /\ answered'.entry # <<>> /\ Expandable(pos) /\ ~UNCHANGED answered
        <5>1. PICK key, entry :
                answered' = [key |-> key, entry |-> entry,
                             reply |-> ldap_send_reply(pos, getvar(key, Returned(entry)))]
          BY <3>5, <4>2
        <5>2. QED
          BY <2>f, <3>3, <4>2, <5>1 DEF PositiveReplyFromEntry, pos
      <4>3. CASE ~Expandable(pos) \/ ~AsRanked
        BY <2>f, <4>3 DEF PositiveReplyFromEntry, pos
      <4>4. CASE UNCHANGED answered
        BY <2>c, <4>4
      <4>5. QED
        BY <4>1, <4>2, <4>3, <4>4
    <3>7. QED
      BY <2>6, <2>a, <2>d, <2>e, <3>6 DEF mod_ldap_query, LdapInv
  <2>7. CASE UNCHANGED ldapvars
    <3>1. OptionsSoFar => OptionsSoFar'
      BY <2>7 DEF ldapvars, OptionsSoFar, LinesRead
    <3>2. QED
      BY <2>7, <2>a, <2>c, <2>d, <2>e, <3>1 DEF ldapvars, LdapInv
  <2>8. QED
    BY <2>1, <2>2, <2>3, <2>4, <2>5, <2>6, <2>7 DEF LdapNext
<1>3. LdapInv => PositiveReplyFromEntry
  BY DEF LdapInv
<1>4. QED
  BY <1>1, <1>2, <1>3, PTL DEF LdapSpec

-----------------------------------------------------------------------------
(* How the server reads the key of a query: the text of the template up to *)
(* the key opens a string constant, the key as it is escaped is its value, *)
(* and the text behind it closes the constant.                             *)

(* What has been read of a statement.                                      *)
ReadSoFar == [at : {"before", "in", "escape", "after"}, val : Seq(Chars), rest : Seq(Chars)]
At(at, val, rest) == [at |-> at, val |-> val, rest |-> rest]

(* The server reads one more character.                                    *)
LEMMA ScanIs ==
  ASSUME NEW h \in Handles, NEW val \in Seq(Chars), NEW rest \in Seq(Chars), NEW c \in Chars
  PROVE  /\ Scan(h, At("before", val, rest), c) = At(IF c = "'" THEN "in" ELSE "before", val, rest)
         /\ Scan(h, At("in", val, rest), c) =
              IF c = "'" THEN At("after", val, rest)
              ELSE IF c = "\\" /\ h \in Escaping THEN At("escape", val, rest)
              ELSE At("in", Append(val, c), rest)
         /\ Scan(h, At("escape", val, rest), c) = At("in", Append(val, c), rest)
         /\ Scan(h, At("after", val, rest), c) =
              IF c = "'" /\ rest = <<>> THEN At("in", Append(val, c), rest)
              ELSE At("after", val, Append(rest, c))
<1>1. PICK a : a = At("before", val, rest)
  OBVIOUS
<1>2. PICK b : b = At("in", val, rest)
  OBVIOUS
<1>3. PICK d : d = At("escape", val, rest)
  OBVIOUS
<1>4. PICK e : e = At("after", val, rest)
  OBVIOUS
<1>5. Scan(h, a, c) = At(IF c = "'" THEN "in" ELSE "before", val, rest)
  BY <1>1 DEF Scan, At
<1>6. Scan(h, b, c) = IF c = "'" THEN At("after", val, rest)
                   ELSE IF c = "\\" /\ h \in Escaping THEN At("escape", val, rest)
                   ELSE At("in", Append(val, c), rest)
  <2>1. b.at = "in" /\ b = [at |-> "in", val |-> val, rest |-> rest]
    BY <1>2 DEF At
  <2>2. Scan(h, b, c) = IF c = "'" THEN [b EXCEPT !.at = "after"]
                     ELSE IF c = "\\" /\ h \in Escaping THEN [b EXCEPT !.at = "escape"]
                     ELSE [b EXCEPT !.val = Append(b.val, c)]
    BY <2>1 DEF Scan
  <2>3. /\ [b EXCEPT !.at = "after"] = At("after", val, rest)
        /\ [b EXCEPT !.at = "escape"] = At("escape", val, rest)
    BY <2>1 DEF At
  <2>4. PICK v : v = Append(val, c)
    OBVIOUS
  <2>5. [b EXCEPT !.val = v] = At("in", v, rest) /\ b.val = val
    BY <2>1 DEF At
  <2>6. QED
    BY <2>2, <2>3, <2>4, <2>5
<1>7. Scan(h, d, c) = At("in", Append(val, c), rest)
  BY <1>3 DEF Scan, At
<1>8. Scan(h, e, c) = IF c = "'" /\ rest = <<>> THEN At("in", Append(val, c), rest)
                   ELSE At("after", val, Append(rest, c))
  <2>1. CASE c = "'" /\ rest = <<>>
    BY <1>4, <2>1 DEF Scan, At
  <2>2. CASE ~(c = "'" /\ rest = <<>>)
    <3>1. e.at = "after" /\ e.rest = rest /\ e = [at |-> "after", val |-> val, rest |-> rest]
      BY <1>4 DEF At
    <3>2. PICK r : r = Append(rest, c)
      OBVIOUS
    <3>3. Scan(h, e, c) = [e EXCEPT !.rest = r]
      BY <2>2, <3>1, <3>2 DEF Scan
    <3>4. [e EXCEPT !.rest = r] = At("after", val, r)
      BY <3>1 DEF At
    <3>5. QED
      BY <2>2, <3>2, <3>3, <3>4
  <2>3. QED
    BY <2>1, <2>2
<1>9. QED
  BY <1>1, <1>2, <1>3, <1>4, <1>5, <1>6, <1>7, <1>8

(* It keeps what it has read in the same form.                             *)
LEMMA ScanType ==
  ASSUME NEW h \in Handles, NEW a \in ReadSoFar, NEW c \in Chars
  PROVE  Scan(h, a, c) \in ReadSoFar
<1>1. PICK at \in {"before", "in", "escape", "after"}, val \in Seq(Chars), rest \in Seq(Chars) :
        a = At(at, val, rest)
  BY DEF ReadSoFar, At
<1>2. Append(val, c) \in Seq(Chars) /\ Append(rest, c) \in Seq(Chars)
  BY AppendProperties
<1>3. \A x \in {"before", "in", "escape", "after"}, v \in Seq(Chars), r \in Seq(Chars) :
        At(x, v, r) \in ReadSoFar
  BY DEF ReadSoFar, At
<1>4. CASE at = "before"
  BY <1>1, <1>2, <1>3, <1>4, ScanIs
<1>5. CASE at = "in"
  <2>1. \/ Scan(h, a, c) = At("after", val, rest)
        \/ Scan(h, a, c) = At("escape", val, rest)
        \/ Scan(h, a, c) = At("in", Append(val, c), rest)
    BY <1>1, <1>5, ScanIs
  <2>2. QED
    BY <1>2, <1>3, <2>1
<1>6. CASE at = "escape"
  <2>1. Scan(h, a, c) = At("in", Append(val, c), rest)
    BY <1>1, <1>6, ScanIs
  <2>2. QED
    BY <1>2, <1>3, <2>1
<1>7. CASE at = "after"
  <2>1. \/ Scan(h, a, c) = At("in", Append(val, c), rest)
        \/ Scan(h, a, c) = At("after", val, Append(rest, c))
    BY <1>1, <1>7, ScanIs
  <2>2. QED
    BY <1>2, <1>3, <2>1
<1>8. QED
  BY <1>4, <1>5, <1>6, <1>7

(* A text with one more character.                                         *)
LEMMA Longer ==
  ASSUME NEW s \in Seq(Chars), NEW c \in Chars
  PROVE  Append(s, c) \in Seq(Chars) /\ Append(s, c) # <<>>
BY AppendProperties

(* The characters of a statement are read from the left to the right.      *)
LEMMA StringConstantIs ==
  ASSUME NEW h \in Handles
  PROVE  /\ StringConstant(h)[<<>>] = At("before", <<>>, <<>>)
         /\ \A s \in Seq(Chars), c \in Chars :
              StringConstant(h)[Append(s, c)] = Scan(h, StringConstant(h)[s], c)
<1> DEFINE D      == Seq(Chars)
           start  == At("before", <<>>, <<>>)
           rank   == [s \in D |-> Len(s)]
           parent == [s \in D |-> IF s = <<>> THEN s ELSE Front(s)]
           step   == [p \in D \X ReadSoFar |-> IF p[1] = <<>> THEN start ELSE Scan(h, p[2], Last(p[1]))]
           Body(f) == [s \in D |-> IF s = <<>> THEN start ELSE Scan(h, f[Front(s)], Last(s))]
<1>0. start \in ReadSoFar /\ <<>> \in D
  BY EmptySeq DEF ReadSoFar, At
<1>1. \A s \in D : /\ Len(s) \in Nat /\ (Len(s) = 0 <=> s = <<>>)
                   /\ s # <<>> => Front(s) \in D /\ Len(Front(s)) < Len(s) /\ Last(s) \in Chars
  <2> SUFFICES ASSUME NEW s \in D
               PROVE  /\ Len(s) \in Nat /\ (Len(s) = 0 <=> s = <<>>)
                      /\ s # <<>> => Front(s) \in D /\ Len(Front(s)) < Len(s) /\ Last(s) \in Chars
    OBVIOUS
  <2>1. Len(s) \in Nat /\ (Len(s) = 0 <=> s = <<>>)
    BY EmptySeq, LenProperties
  <2>2. QED
    BY <2>1, FrontLast
<1> HIDE DEF start
<1>2. step \in [D \X ReadSoFar -> ReadSoFar]
  <2> SUFFICES ASSUME NEW s \in D, NEW a \in ReadSoFar
               PROVE  (IF s = <<>> THEN start ELSE Scan(h, a, Last(s))) \in ReadSoFar
    OBVIOUS
  <2> QED
    BY <1>0, <1>1, ScanType
<1>3. rank \in [D -> Nat] /\ parent \in [D -> D]
  BY <1>1
<1>4. \A s \in D : rank[s] # 0 => rank[parent[s]] < rank[s]
  BY <1>1
<1>5. PICK f \in [D -> ReadSoFar] : IsRecursion(f, start, step, rank, parent, D)
  <2> HIDE DEF step, rank, parent, D
  <2>1. \E f \in [D -> ReadSoFar] : IsRecursion(f, start, step, rank, parent, D)
    BY <1>0, <1>2, <1>3, <1>4, Recursion
  <2> QED
    BY <2>1
<1>6. f = Body(f)
  <2>1. ASSUME NEW s \in D
        PROVE  f[s] = IF s = <<>> THEN start ELSE Scan(h, f[Front(s)], Last(s))
    <3>1. f[s] = IF rank[s] = 0 THEN start ELSE step[<<s, f[parent[s]]>>]
      BY <1>5 DEF IsRecursion
    <3>2. CASE s = <<>>
      BY <1>1, <3>1, <3>2
    <3>3. CASE s # <<>>
      <4>1. rank[s] # 0 /\ parent[s] = Front(s) /\ parent[s] \in D /\ f[parent[s]] \in ReadSoFar
        BY <1>1, <3>3
      <4>2. step[<<s, f[parent[s]]>>] = Scan(h, f[parent[s]], Last(s))
        BY <3>3, <4>1
      <4> HIDE DEF step, rank, parent
      <4>3. QED
        BY <3>1, <3>3, <4>1, <4>2
    <3>4. QED
      BY <3>2, <3>3
  <2>2. QED
    BY <2>1
<1>7. StringConstant(h) = Body(StringConstant(h))
  <2>1. StringConstant(h) = CHOOSE g : g = Body(g)
    BY DEF StringConstant, start, At
  <2> HIDE DEF Body
  <2>2. QED
    BY <1>6, <2>1
<1>8. \A s \in D : StringConstant(h)[s] = IF s = <<>> THEN start
                                       ELSE Scan(h, StringConstant(h)[Front(s)], Last(s))
  BY <1>7
<1>9. ASSUME NEW s \in D, NEW c \in Chars
      PROVE  StringConstant(h)[Append(s, c)] = Scan(h, StringConstant(h)[s], c)
  <2>1. Append(s, c) \in D /\ Append(s, c) # <<>>
    BY Longer
  <2>2. Front(Append(s, c)) = s /\ Last(Append(s, c)) = c
    BY FrontLast
  <2>3. QED
    BY <1>8, <2>1, <2>2
<1>10. QED
  BY <1>0, <1>8, <1>9 DEF start

(* A statement grows by one character or by a text.                        *)
LEMMA Grows ==
  ASSUME NEW S, NEW p \in Seq(S), NEW q \in Seq(S), NEW c \in S
  PROVE  /\ Append(q, c) \in Seq(S) /\ q \o <<c>> = Append(q, c)
         /\ p \o q \in Seq(S) /\ p \o Append(q, c) = Append(p \o q, c)
<1>1. <<c>> \in Seq(S) /\ q \o <<c>> = Append(q, c) /\ p \o q \in Seq(S)
  OBVIOUS
<1>2. (p \o q) \o <<c>> = Append(p \o q, c)
  BY <1>1
<1>3. QED
  BY <1>1, <1>2, ConcatAssociative, AppendProperties

(* The first texts of a list, one after the other.                         *)
LEMMA FlattenIs ==
  ASSUME NEW S, NEW l \in Seq(Seq(S)), l # <<>>
  PROVE  \E f \in [1 .. Len(l) -> Seq(S)] :
           /\ f[1] = l[1] /\ FlattenSeq(l) = f[Len(l)]
           /\ \A k \in 2 .. Len(l) : f[k] = f[k - 1] \o l[k]
<1> DEFINE n      == Len(l)
           D      == 1 .. n
           rank   == [k \in D |-> k - 1]
           parent == [k \in D |-> IF k = 1 THEN 1 ELSE k - 1]
           step   == [p \in D \X Seq(S) |-> p[2] \o l[p[1]]]
           Body(f) == [k \in D |-> IF k = 1 THEN l[k] ELSE f[k - 1] \o l[k]]
<1>1. n \in Nat \ {0} /\ \A k \in D : l[k] \in Seq(S)
  BY EmptySeq, ElementOfSeq
<1>2. step \in [D \X Seq(S) -> Seq(S)]
  BY <1>1, ConcatProperties
<1>3. rank \in [D -> Nat] /\ parent \in [D -> D] /\ 1 \in D
  BY <1>1
<1>4. \A k \in D : rank[k] # 0 => rank[parent[k]] < rank[k]
  BY <1>1
<1>5. PICK f \in [D -> Seq(S)] : IsRecursion(f, l[1], step, rank, parent, D)
  <2>1. l[1] \in Seq(S)
    BY <1>1, <1>3
  <2> HIDE DEF step, rank, parent, D
  <2>2. \E f \in [D -> Seq(S)] : IsRecursion(f, l[1], step, rank, parent, D)
    BY <1>2, <1>3, <1>4, <2>1, Recursion
  <2> QED
    BY <2>2
<1>6. ASSUME NEW k \in D PROVE f[k] = IF k = 1 THEN l[k] ELSE f[k - 1] \o l[k]
  <2>1. f[k] = IF rank[k] = 0 THEN l[1] ELSE step[<<k, f[parent[k]]>>]
    BY <1>5 DEF IsRecursion
  <2>2. CASE k = 1
    BY <1>3, <2>1, <2>2
  <2>3. CASE k # 1
    <3>1. rank[k] # 0 /\ parent[k] = k - 1 /\ parent[k] \in D /\ f[parent[k]] \in Seq(S)
      <4>1. k - 1 \in D /\ k - 1 # 0
        BY <1>1, <2>3
      <4>2. QED
        BY <2>3, <4>1
    <3>2. step[<<k, f[parent[k]]>>] = f[parent[k]] \o l[k]
      BY <3>1
    <3> HIDE DEF step, rank, parent
    <3>3. QED
      BY <2>1, <2>3, <3>1, <3>2
  <2>4. QED
    BY <2>2, <2>3
<1>7. f = Body(f)
  BY <1>6
<1> DEFINE g == CHOOSE k : k = Body(k)
<1>8. g = Body(g)
  <2> HIDE DEF Body
  <2> QED
    BY <1>7
<1>9. FlattenSeq(l) = g[n]
  BY <1>1 DEF FlattenSeq
<1> HIDE DEF g
<1>10. \A k \in D : g[k] = IF k = 1 THEN l[k] ELSE g[k - 1] \o l[k]
  BY <1>8
<1> DEFINE T == {k \in Nat : k + 1 \in D => g[k + 1] = f[k + 1]}
<1>11. ASSUME NEW k \in Nat, \A j \in Nat : j < k => j \in T PROVE k \in T
  <2>1. SUFFICES ASSUME k + 1 \in D PROVE g[k + 1] = f[k + 1]
    OBVIOUS
  <2>2. CASE k = 0
    <3>1. 1 \in D => f[1] = l[1] /\ g[1] = l[1]
      BY <1>6, <1>10
    <3>2. QED
      BY <1>3, <2>2, <3>1
  <2>3. CASE k # 0
    <3>1. PICK m : m = k + 1
      OBVIOUS
    <3>2. k - 1 \in Nat /\ k - 1 < k /\ k - 1 + 1 = k /\ k \in D /\ m - 1 = k /\ m # 1
      BY <1>1, <2>1, <2>3, <3>1
    <3>3. g[k] = f[k]
      BY <1>11, <3>2
    <3>4. g[m] = g[m - 1] \o l[m] /\ f[m] = f[m - 1] \o l[m]
      BY <1>6, <1>10, <2>1, <3>1, <3>2
    <3>5. QED
      BY <3>1, <3>2, <3>3, <3>4
  <2>4. QED
    BY <2>2, <2>3
<1>12. T = Nat
  <2> T \in SUBSET Nat
    OBVIOUS
  <2> HIDE DEF T
  <2> QED
    BY <1>11, Induction
<1>13. g[n] = f[n]
  <2>1. n - 1 \in Nat /\ n - 1 + 1 = n /\ n \in D
    BY <1>1
  <2>2. n - 1 \in T
    BY <1>12, <2>1
  <2>3. QED
    BY <2>1, <2>2
<1>14. \A k \in 2 .. n : k \in D /\ k # 1
  BY <1>1
<1>15. QED
  BY <1>3, <1>6, <1>9, <1>13, <1>14

(* The first n characters of a text and one more.                          *)
LEMMA OneMore ==
  ASSUME NEW s \in Seq(Chars), NEW n \in Nat, n < Len(s)
  PROVE  /\ SubSeq(s, 1, n) \in Seq(Chars) /\ s[n + 1] \in Chars
         /\ SubSeq(s, 1, n + 1) = Append(SubSeq(s, 1, n), s[n + 1])
         /\ n > 0 => /\ SubSeq(s, 2, n) \in Seq(Chars)
                     /\ SubSeq(s, 2, n + 1) = Append(SubSeq(s, 2, n), s[n + 1])
<1>1. Len(s) \in Nat /\ n + 1 \in 1 .. Len(s)
  BY LenProperties
<1>2. s[n + 1] \in Chars
  BY <1>1, ElementOfSeq
<1>3. PICK m : m = n + 1
  OBVIOUS
<1>4. m \in 1 .. Len(s) /\ m - 1 = n
  BY <1>1, <1>3
<1>5. ASSUME NEW h \in 1 .. 2, h <= m
      PROVE  SubSeq(s, h, n) \in Seq(Chars) /\ SubSeq(s, h, m) = Append(SubSeq(s, h, n), s[m])
  <2>1. h \in 1 .. Len(s) /\ m \in h .. Len(s) /\ h \in Nat \ {0} /\ h <= n + 1 /\ n <= Len(s)
    BY <1>1, <1>4, <1>5
  <2>2. SubSeq(s, h, m) = SubSeq(s, h, m - 1) \o <<s[m]>>
    BY <2>1, SubSeqRecursiveSecond
  <2>3. SubSeq(s, h, n) \in Seq(Chars)
    BY <2>1, PartOf
  <2>4. SubSeq(s, h, n) \o <<s[m]>> = Append(SubSeq(s, h, n), s[m])
    BY <1>2, <1>3, <2>3
  <2>5. QED
    BY <1>4, <2>2, <2>3, <2>4
<1>6. 1 \in 1 .. 2 /\ 2 \in 1 .. 2 /\ 1 <= m /\ (n > 0 => 2 <= m)
  BY <1>3
<1>7. QED
  BY <1>2, <1>3, <1>5, <1>6

(* The text of the template up to the key opens the constant.              *)
LEMMA Opens ==
  ASSUME NEW h \in Handles, NEW s \in Seq(Chars), s # <<>>, \A k \in 1 .. Len(s) : s[k] = "'" <=> k = Len(s)
  PROVE  StringConstant(h)[s] = At("in", <<>>, <<>>)
<1>1. Len(s) \in Nat \ {0} /\ <<>> \in Seq(Chars)
  BY EmptySeq
<1> DEFINE T == {n \in Nat : n < Len(s) => StringConstant(h)[SubSeq(s, 1, n)] = At("before", <<>>, <<>>)}
<1>2. ASSUME NEW n \in Nat, n < Len(s), StringConstant(h)[SubSeq(s, 1, n)] = At("before", <<>>, <<>>)
      PROVE  StringConstant(h)[SubSeq(s, 1, n + 1)] =
               At(IF n + 1 = Len(s) THEN "in" ELSE "before", <<>>, <<>>)
  <2>1. PICK c : c = s[n + 1]
    OBVIOUS
  <2>2. PICK p : p = SubSeq(s, 1, n)
    OBVIOUS
  <2>3. p \in Seq(Chars) /\ c \in Chars /\ SubSeq(s, 1, n + 1) = Append(p, c)
    BY <1>2, <2>1, <2>2, OneMore
  <2>4. c = "'" <=> n + 1 = Len(s)
    <3>1. n + 1 \in 1 .. Len(s)
      BY <1>1, <1>2
    <3>2. QED
      BY <2>1, <3>1
  <2>5. StringConstant(h)[Append(p, c)] = Scan(h, At("before", <<>>, <<>>), c)
    BY <1>2, <2>2, <2>3, StringConstantIs
  <2>6. Scan(h, At("before", <<>>, <<>>), c) = At(IF c = "'" THEN "in" ELSE "before", <<>>, <<>>)
    BY <1>1, <2>3, ScanIs
  <2>7. QED
    BY <2>3, <2>4, <2>5, <2>6
<1>3. ASSUME NEW n \in Nat, \A m \in Nat : m < n => m \in T PROVE n \in T
  <2>1. CASE n = 0
    <3>1. SubSeq(s, 1, 0) = <<>>
      BY SubSeqEmpty
    <3>2. QED
      BY <2>1, <3>1, StringConstantIs
  <2>2. CASE n # 0
    <3>1. PICK m : m = n - 1
      OBVIOUS
    <3>2. m \in Nat /\ m < n /\ m + 1 = n
      BY <2>2, <3>1
    <3>3. SUFFICES ASSUME n < Len(s) PROVE StringConstant(h)[SubSeq(s, 1, n)] = At("before", <<>>, <<>>)
      OBVIOUS
    <3>4. m < Len(s) /\ m + 1 # Len(s)
      BY <1>1, <3>2, <3>3
    <3>5. StringConstant(h)[SubSeq(s, 1, m)] = At("before", <<>>, <<>>)
      BY <1>3, <3>2, <3>4
    <3>6. StringConstant(h)[SubSeq(s, 1, m + 1)] = At("before", <<>>, <<>>)
      BY <1>2, <3>2, <3>4, <3>5
    <3>7. QED
      BY <3>2, <3>6
  <2>3. QED
    BY <2>1, <2>2
<1>4. T = Nat
  <2> T \in SUBSET Nat
    OBVIOUS
  <2> HIDE DEF T
  <2> QED
    BY <1>3, Induction
<1>5. PICK m : m = Len(s) - 1
  OBVIOUS
<1>6. m \in Nat /\ m < Len(s) /\ m + 1 = Len(s)
  BY <1>1, <1>5
<1>7. StringConstant(h)[SubSeq(s, 1, m)] = At("before", <<>>, <<>>)
  BY <1>4, <1>6
<1>8. StringConstant(h)[SubSeq(s, 1, m + 1)] = At("in", <<>>, <<>>)
  BY <1>2, <1>6, <1>7
<1>9. SubSeq(s, 1, Len(s)) = s
  BY SubSeqFull
<1>10. QED
  BY <1>6, <1>8, <1>9

(* The text of the template behind the key closes it.                      *)
LEMMA Closes ==
  ASSUME NEW h \in Handles, NEW q \in Seq(Chars), NEW v \in Seq(Chars), StringConstant(h)[q] = At("in", v, <<>>),
         NEW s \in Seq(Chars), s # <<>>, s[1] = "'", Len(s) > 1 => s[2] # "'"
  PROVE  StringConstant(h)[q \o s] = At("after", v, Tail(s))
<1>1. Len(s) \in Nat \ {0} /\ <<>> \in Seq(Chars)
  BY EmptySeq
<1> DEFINE T == {n \in Nat : n < Len(s) =>
                   StringConstant(h)[q \o SubSeq(s, 1, n + 1)] = At("after", v, SubSeq(s, 2, n + 1))}
<1>2. ASSUME NEW n \in Nat, n < Len(s)
      PROVE  /\ s[n + 1] \in Chars /\ q \o SubSeq(s, 1, n) \in Seq(Chars)
             /\ StringConstant(h)[q \o SubSeq(s, 1, n + 1)]
                  = Scan(h, StringConstant(h)[q \o SubSeq(s, 1, n)], s[n + 1])
  <2>1. PICK c : c = s[n + 1]
    OBVIOUS
  <2>2. PICK p : p = SubSeq(s, 1, n)
    OBVIOUS
  <2>3. p \in Seq(Chars) /\ c \in Chars /\ SubSeq(s, 1, n + 1) = Append(p, c)
    BY <1>2, <2>1, <2>2, OneMore
  <2>4. q \o p \in Seq(Chars) /\ q \o Append(p, c) = Append(q \o p, c)
    BY <2>3, Grows
  <2>5. StringConstant(h)[Append(q \o p, c)] = Scan(h, StringConstant(h)[q \o p], c)
    BY <2>3, <2>4, StringConstantIs
  <2>6. QED
    BY <2>1, <2>2, <2>3, <2>4, <2>5
<1>3. ASSUME NEW n \in Nat, \A m \in Nat : m < n => m \in T PROVE n \in T
  <2>1. SUFFICES ASSUME n < Len(s)
                 PROVE  StringConstant(h)[q \o SubSeq(s, 1, n + 1)] = At("after", v, SubSeq(s, 2, n + 1))
    OBVIOUS
  <2>2. CASE n = 0
    <3>1. SubSeq(s, 1, 0) = <<>> /\ SubSeq(s, 2, 1) = <<>> /\ q \o <<>> = q
      BY SubSeqEmpty, ConcatEmptySeq
    <3>2. 0 + 1 = 1 /\ 0 < Len(s)
      BY <1>1
    <3>3. StringConstant(h)[q \o SubSeq(s, 1, 1)] = Scan(h, StringConstant(h)[q], s[1]) /\ s[1] \in Chars
      BY <1>2, <3>1, <3>2
    <3>4. Scan(h, At("in", v, <<>>), s[1]) = At("after", v, <<>>)
      BY <1>1, <3>3, ScanIs
    <3>5. QED
      BY <2>2, <3>1, <3>2, <3>3, <3>4
  <2>3. CASE n # 0
    <3>1. PICK m : m = n - 1
      OBVIOUS
    <3>2. m \in Nat /\ m < n /\ m + 1 = n /\ m < Len(s) /\ n > 0
      BY <1>1, <2>1, <2>3, <3>1
    <3>3. StringConstant(h)[q \o SubSeq(s, 1, n)] = At("after", v, SubSeq(s, 2, n))
      BY <1>3, <3>2
    <3>4. PICK c : c = s[n + 1]
      OBVIOUS
    <3>5. PICK r : r = SubSeq(s, 2, n)
      OBVIOUS
    <3>6. c \in Chars /\ r \in Seq(Chars) /\ SubSeq(s, 2, n + 1) = Append(r, c)
      BY <2>1, <3>2, <3>4, <3>5, OneMore
    <3>7. ~(c = "'" /\ r = <<>>)
      <4>1. SUFFICES ASSUME r = <<>> PROVE c # "'"
        OBVIOUS
      <4>2. n = 1
        <5>1. Len(SubSeq(s, 2, n)) = n - 2 + 1
          BY <2>1, <3>2, PartOf
        <5>2. Len(r) = 0
          BY <4>1
        <5>3. QED
          BY <3>5, <5>1, <5>2
      <4>3. Len(s) > 1 /\ n + 1 = 2
        BY <1>1, <2>1, <4>2
      <4>4. QED
        BY <3>4, <4>3
    <3>8. Scan(h, At("after", v, r), c) = At("after", v, Append(r, c))
      BY <3>6, <3>7, ScanIs
    <3>9. StringConstant(h)[q \o SubSeq(s, 1, n + 1)] = Scan(h, StringConstant(h)[q \o SubSeq(s, 1, n)], s[n + 1])
      BY <1>2, <2>1
    <3>10. QED
      BY <3>3, <3>4, <3>5, <3>6, <3>8, <3>9
  <2>4. QED
    BY <2>2, <2>3
<1>4. T = Nat
  <2> T \in SUBSET Nat
    OBVIOUS
  <2> HIDE DEF T
  <2> QED
    BY <1>3, Induction
<1>5. PICK m : m = Len(s) - 1
  OBVIOUS
<1>6. m \in Nat /\ m < Len(s) /\ m + 1 = Len(s)
  BY <1>1, <1>5
<1>7. StringConstant(h)[q \o SubSeq(s, 1, m + 1)] = At("after", v, SubSeq(s, 2, m + 1))
  BY <1>4, <1>6
<1>8. SubSeq(s, 1, Len(s)) = s /\ SubSeq(s, 2, Len(s)) = Tail(s)
  BY SubSeqFull, TailIsSubSeq
<1>9. QED
  BY <1>6, <1>7, <1>8

(* A character as it may stand in a constant: as it is, escaped when the   *)
(* server takes escapes, or doubled.                                       *)
AsItIs(h, c) == c # "'" /\ (c # "\\" \/ h \notin Escaping)
Stands(h, piece, c) ==
  \/ AsItIs(h, c) /\ piece = <<c>>
  \/ h \in Escaping /\ piece = <<"\\", c>>
  \/ c = "'" /\ piece = <<c, c>>

(* Such a character is read back.                                          *)
LEMMA PieceRead ==
  ASSUME NEW h \in Handles, NEW q \in Seq(Chars), NEW v \in Seq(Chars),
         StringConstant(h)[q] = At("in", v, <<>>),
         NEW c \in Chars, NEW x, Stands(h, x, c)
  PROVE  /\ x \in Seq(Chars) /\ q \o x \in Seq(Chars)
         /\ StringConstant(h)[q \o x] = At("in", Append(v, c), <<>>)
<1>1. <<>> \in Seq(Chars) /\ "\\" \in Chars /\ "\\" # "'"
  BY EmptySeq, KeysAssumption
<1>2. CASE AsItIs(h, c) /\ x = <<c>>
  <2>1. x \in Seq(Chars) /\ q \o x \in Seq(Chars) /\ q \o x = Append(q, c)
    BY <1>2, Grows
  <2>2. Scan(h, At("in", v, <<>>), c) = At("in", Append(v, c), <<>>)
    BY <1>1, <1>2, ScanIs DEF AsItIs
  <2>3. StringConstant(h)[Append(q, c)] = Scan(h, StringConstant(h)[q], c)
    BY StringConstantIs
  <2>4. QED
    BY <2>1, <2>2, <2>3
<1>3. CASE h \in Escaping /\ x = <<"\\", c>>
  <2>1. PICK b \in Chars : b = "\\"
    BY <1>1
  <2>2. <<b>> \in Seq(Chars) /\ x = Append(<<b>>, c) /\ x \in Seq(Chars)
    BY <1>3, <2>1
  <2>3. q \o <<b>> = Append(q, b) /\ Append(q, b) \in Seq(Chars)
    BY Grows
  <2>4. q \o Append(<<b>>, c) = Append(q \o <<b>>, c) /\ q \o Append(<<b>>, c) \in Seq(Chars)
    <3>1. q \o Append(<<b>>, c) = Append(q \o <<b>>, c)
      BY <2>2, Grows
    <3>2. QED
      BY <2>3, <3>1, Longer
  <2>5. StringConstant(h)[Append(q, b)] = At("escape", v, <<>>)
    <3>1. Scan(h, At("in", v, <<>>), b) = At("escape", v, <<>>)
      BY <1>1, <1>3, <2>1, ScanIs
    <3>2. StringConstant(h)[Append(q, b)] = Scan(h, StringConstant(h)[q], b)
      BY StringConstantIs
    <3>3. QED
      BY <3>1, <3>2
  <2>6. PICK r : r = Append(q, b)
    OBVIOUS
  <2>7. StringConstant(h)[Append(r, c)] = Scan(h, StringConstant(h)[r], c)
    BY <2>3, <2>6, StringConstantIs
  <2>8. Scan(h, At("escape", v, <<>>), c) = At("in", Append(v, c), <<>>)
    BY <1>1, ScanIs
  <2>9. QED
    BY <2>2, <2>3, <2>4, <2>5, <2>6, <2>7, <2>8
<1>4. CASE c = "'" /\ x = <<c, c>>
  <2>1. <<c>> \in Seq(Chars) /\ x = Append(<<c>>, c) /\ x \in Seq(Chars)
    BY <1>4
  <2>2. q \o <<c>> = Append(q, c) /\ Append(q, c) \in Seq(Chars)
    BY Grows
  <2>3. q \o Append(<<c>>, c) = Append(q \o <<c>>, c) /\ q \o Append(<<c>>, c) \in Seq(Chars)
    <3>1. q \o Append(<<c>>, c) = Append(q \o <<c>>, c)
      BY <2>1, Grows
    <3>2. QED
      BY <2>2, <3>1, Longer
  <2>4. StringConstant(h)[Append(q, c)] = At("after", v, <<>>)
    <3>1. Scan(h, At("in", v, <<>>), c) = At("after", v, <<>>)
      BY <1>1, <1>4, ScanIs
    <3>2. StringConstant(h)[Append(q, c)] = Scan(h, StringConstant(h)[q], c)
      BY StringConstantIs
    <3>3. QED
      BY <3>1, <3>2
  <2>5. PICK r : r = Append(q, c)
    OBVIOUS
  <2>6. StringConstant(h)[Append(r, c)] = Scan(h, StringConstant(h)[r], c)
    BY <2>2, <2>5, StringConstantIs
  <2>7. Scan(h, At("after", v, <<>>), c) = At("in", Append(v, c), <<>>)
    BY <1>1, <1>4, ScanIs
  <2>8. QED
    BY <2>1, <2>2, <2>3, <2>4, <2>5, <2>6, <2>7
<1>5. QED
  BY <1>2, <1>3, <1>4 DEF Stands

(* A text whose characters stand in a constant as they may is read back.   *)
LEMMA TextRead ==
  ASSUME NEW h \in Handles, NEW q \in Seq(Chars), StringConstant(h)[q] = At("in", <<>>, <<>>),
         NEW text \in Seq(Chars), NEW l \in Seq(Seq(Chars)), Len(l) = Len(text),
         \A k \in 1 .. Len(text) : Stands(h, l[k], text[k])
  PROVE  /\ FlattenSeq(l) \in Seq(Chars) /\ q \o FlattenSeq(l) \in Seq(Chars)
         /\ StringConstant(h)[q \o FlattenSeq(l)] = At("in", text, <<>>)
<1>1. Len(text) \in Nat /\ \A k \in 1 .. Len(text) : text[k] \in Chars
  BY LenProperties, ElementOfSeq
<1>2. CASE l = <<>>
  <2>1. Len(l) = 0
    BY <1>2
  <2>2. FlattenSeq(l) = <<>>
    BY <1>2, <2>1 DEF FlattenSeq
  <2>3. text = <<>>
    BY <2>1, EmptySeq
  <2>4. <<>> \in Seq(Chars) /\ q \o <<>> = q
    BY EmptySeq, ConcatEmptySeq
  <2>5. QED
    BY <2>2, <2>3, <2>4
<1>3. CASE l # <<>>
  <2>1. PICK f \in [1 .. Len(l) -> Seq(Chars)] :
          /\ f[1] = l[1] /\ FlattenSeq(l) = f[Len(l)]
          /\ \A k \in 2 .. Len(l) : f[k] = f[k - 1] \o l[k]
    BY <1>3, FlattenIs
  <2>2. Len(l) \in Nat \ {0} /\ \A k \in 1 .. Len(l) : l[k] \in Seq(Chars) /\ f[k] \in Seq(Chars)
    BY <1>3, EmptySeq, ElementOfSeq
  <2> DEFINE T == {n \in Nat : n < Len(l) =>
                     StringConstant(h)[q \o f[n + 1]] = At("in", SubSeq(text, 1, n + 1), <<>>)}
  <2>3. ASSUME NEW n \in Nat, \A m \in Nat : m < n => m \in T PROVE n \in T
    <3>1. SUFFICES ASSUME n < Len(l)
                   PROVE  StringConstant(h)[q \o f[n + 1]] = At("in", SubSeq(text, 1, n + 1), <<>>)
      OBVIOUS
    <3>2. PICK c : c = text[n + 1]
      OBVIOUS
    <3>3. PICK x : x = l[n + 1]
      OBVIOUS
    <3>4. n + 1 \in 1 .. Len(text) /\ n + 1 \in 1 .. Len(l)
      BY <1>1, <2>2, <3>1
    <3>5. c \in Chars /\ Stands(h, x, c) /\ x \in Seq(Chars)
      BY <1>1, <2>2, <3>2, <3>3, <3>4
    <3>6. PICK v : v = SubSeq(text, 1, n)
      OBVIOUS
    <3>7. v \in Seq(Chars) /\ SubSeq(text, 1, n + 1) = Append(v, c)
      BY <1>1, <3>1, <3>2, <3>6, OneMore
    <3>8. \E p \in Seq(Chars) : StringConstant(h)[p] = At("in", v, <<>>) /\ q \o f[n + 1] = p \o x
      <4>1. CASE n = 0
        <5>1. v = <<>>
          BY <3>6, <4>1, SubSeqEmpty
        <5>2. n + 1 = 1 /\ f[n + 1] = x
          BY <2>1, <3>3, <4>1
        <5>3. QED
          BY <5>1, <5>2
      <4>2. CASE n # 0
        <5>1. PICK m : m = n - 1
          OBVIOUS
        <5>2. m \in Nat /\ m < n /\ m + 1 = n /\ m < Len(l) /\ n \in 1 .. Len(l)
              /\ n + 1 \in 2 .. Len(l) /\ n + 1 - 1 = n
          BY <2>2, <3>1, <4>2, <5>1
        <5>3. StringConstant(h)[q \o f[n]] = At("in", v, <<>>)
          BY <2>3, <3>6, <5>2
        <5>4. f[n + 1] = f[n] \o x
          <6>1. PICK k : k = n + 1
            OBVIOUS
          <6>2. k \in 2 .. Len(l) /\ k - 1 = n
            BY <5>2, <6>1
          <6>3. f[k] = f[k - 1] \o l[k]
            BY <2>1, <6>2
          <6>4. QED
            BY <3>3, <6>1, <6>2, <6>3
        <5>5. PICK g \in Seq(Chars) : g = f[n]
          BY <2>2, <5>2
        <5>6. q \o g \in Seq(Chars) /\ (q \o g) \o x = q \o (g \o x)
          <6>1. q \o g \in Seq(Chars)
            BY ConcatProperties
          <6>2. (q \o g) \o x = q \o (g \o x)
            BY <3>5, ConcatAssociative, SMTT(30)
          <6>3. QED
            BY <6>1, <6>2
        <5>7. QED
          BY <5>3, <5>4, <5>5, <5>6
      <4>3. QED
        BY <4>1, <4>2
    <3>9. PICK p \in Seq(Chars) : StringConstant(h)[p] = At("in", v, <<>>) /\ q \o f[n + 1] = p \o x
      BY <3>8
    <3>10. StringConstant(h)[p \o x] = At("in", Append(v, c), <<>>)
      BY <3>5, <3>7, <3>9, PieceRead
    <3>11. QED
      BY <3>7, <3>9, <3>10
  <2>4. T = Nat
    <3> T \in SUBSET Nat
      OBVIOUS
    <3> HIDE DEF T
    <3> QED
      BY <2>3, Induction
  <2>5. PICK m : m = Len(l) - 1
    OBVIOUS
  <2>6. m \in Nat /\ m < Len(l) /\ m + 1 = Len(l) /\ Len(l) \in 1 .. Len(l)
    BY <2>2, <2>5
  <2>7. StringConstant(h)[q \o f[m + 1]] = At("in", SubSeq(text, 1, m + 1), <<>>)
    BY <2>4, <2>6
  <2>8. SubSeq(text, 1, Len(text)) = text
    BY SubSeqFull
  <2>9. f[Len(l)] \in Seq(Chars)
    BY <2>2, <2>6
  <2>10. q \o f[Len(l)] \in Seq(Chars)
    BY <2>9, ConcatProperties
  <2>11. QED
    BY <2>1, <2>6, <2>7, <2>8, <2>9, <2>10
<1>4. QED
  BY <1>2, <1>3

(* Texts of one character each, one after the other.                       *)
LEMMA FlattenOnes ==
  ASSUME NEW text \in Seq(Chars)
  PROVE  FlattenSeq([k \in 1 .. Len(text) |-> <<text[k]>>]) = text
<1>1. Len(text) \in Nat /\ \A k \in 1 .. Len(text) : text[k] \in Chars
  BY LenProperties, ElementOfSeq
<1>2. PICK l : l = [k \in 1 .. Len(text) |-> <<text[k]>>]
  OBVIOUS
<1>3. l \in Seq(Seq(Chars)) /\ Len(l) = Len(text) /\ \A k \in 1 .. Len(text) : l[k] = <<text[k]>>
  BY <1>1, <1>2
<1>4. CASE text = <<>>
  <2>1. Len(l) = 0 /\ l = <<>>
    BY <1>3, <1>4, EmptySeq
  <2>2. FlattenSeq(l) = <<>>
    BY <2>1 DEF FlattenSeq
  <2>3. QED
    BY <1>2, <1>4, <2>2
<1>5. CASE text # <<>>
  <2>1. Len(text) \in Nat \ {0} /\ l # <<>>
    <3>1. Len(text) # 0
      BY <1>1, <1>5, EmptySeq
    <3>2. l # <<>>
      BY <1>3, <3>1, EmptySeq
    <3>3. QED
      BY <1>1, <3>1, <3>2
  <2>2. PICK f \in [1 .. Len(l) -> Seq(Chars)] :
          /\ f[1] = l[1] /\ FlattenSeq(l) = f[Len(l)]
          /\ \A k \in 2 .. Len(l) : f[k] = f[k - 1] \o l[k]
    BY <1>3, <2>1, FlattenIs
  <2> DEFINE T == {n \in Nat : n < Len(l) => f[n + 1] = SubSeq(text, 1, n + 1)}
  <2>3. ASSUME NEW n \in Nat, \A m \in Nat : m < n => m \in T PROVE n \in T
    <3>1. SUFFICES ASSUME n < Len(l) PROVE f[n + 1] = SubSeq(text, 1, n + 1)
      OBVIOUS
    <3>2. PICK c : c = text[n + 1]
      OBVIOUS
    <3>3. PICK v : v = SubSeq(text, 1, n)
      OBVIOUS
    <3>4. n + 1 \in 1 .. Len(text) /\ l[n + 1] = <<c>>
      BY <1>1, <1>3, <3>1, <3>2
    <3>5. v \in Seq(Chars) /\ c \in Chars /\ SubSeq(text, 1, n + 1) = Append(v, c)
      BY <1>3, <3>1, <3>2, <3>3, OneMore
    <3>6. v \o <<c>> = Append(v, c)
      BY <3>5, Grows
    <3>7. CASE n = 0
      <4>1. v = <<>> /\ n + 1 = 1 /\ f[n + 1] = <<c>>
        BY <2>2, <3>3, <3>4, <3>7, SubSeqEmpty
      <4>2. Append(<<>>, c) = <<c>>
        OBVIOUS
      <4>3. QED
        BY <3>5, <4>1, <4>2
    <3>8. CASE n # 0
      <4>1. PICK m : m = n - 1
        OBVIOUS
      <4>2. m \in Nat /\ m < n /\ m + 1 = n /\ m < Len(l) /\ n + 1 \in 2 .. Len(l) /\ n + 1 - 1 = n
        BY <1>1, <1>3, <3>1, <3>8, <4>1
      <4>3. f[n] = v
        BY <2>3, <3>3, <4>2
      <4>4. f[n + 1] = v \o <<c>>
        <5>1. PICK k : k = n + 1
          OBVIOUS
        <5>2. k \in 2 .. Len(l) /\ k - 1 = n
          BY <4>2, <5>1
        <5>3. f[k] = f[k - 1] \o l[k]
          BY <2>2, <5>2
        <5>4. QED
          BY <3>4, <4>3, <5>1, <5>2, <5>3
      <4>5. QED
        BY <3>5, <3>6, <4>4
    <3>9. QED
      BY <3>7, <3>8
  <2>4. T = Nat
    <3> T \in SUBSET Nat
      OBVIOUS
    <3> HIDE DEF T
    <3> QED
      BY <2>3, Induction
  <2>5. PICK m : m = Len(l) - 1
    OBVIOUS
  <2>6. m \in Nat /\ m < Len(l) /\ m + 1 = Len(l)
    BY <1>3, <2>1, <2>5
  <2>7. f[m + 1] = SubSeq(text, 1, m + 1)
    BY <2>4, <2>6
  <2>8. SubSeq(text, 1, Len(text)) = text
    BY SubSeqFull
  <2>9. QED
    BY <1>2, <1>3, <2>2, <2>6, <2>7, <2>8
<1>6. QED
  BY <1>4, <1>5

(* Escaped lets every character stand in a constant of a server that takes *)
(* escapes.                                                                *)
LEMMA EscapedReads ==
  ASSUME NEW h \in Handles, h \in Escaping, NEW text \in Seq(Chars), NEW special, {"'", "\\"} \subseteq special,
         NEW q \in Seq(Chars), StringConstant(h)[q] = At("in", <<>>, <<>>)
  PROVE  /\ Escaped(text, special) \in Seq(Chars) /\ q \o Escaped(text, special) \in Seq(Chars)
         /\ StringConstant(h)[q \o Escaped(text, special)] = At("in", text, <<>>)
<1>1. PICK l : l = [k \in DOMAIN text |-> IF text[k] \in special THEN <<"\\", text[k]>>
                                          ELSE <<text[k]>>]
  OBVIOUS
<1>2. Len(text) \in Nat /\ DOMAIN text = 1 .. Len(text) /\ \A k \in 1 .. Len(text) : text[k] \in Chars
  BY LenProperties, ElementOfSeq
<1>3. \A c \in Chars : /\ <<c>> \in Seq(Chars) /\ <<"\\", c>> \in Seq(Chars)
                       /\ c \notin special => Stands(h, <<c>>, c)
                       /\ Stands(h, <<"\\", c>>, c)
  BY KeysAssumption DEF Stands, AsItIs
<1>4. /\ l \in Seq(Seq(Chars)) /\ Len(l) = Len(text)
      /\ \A k \in 1 .. Len(text) : Stands(h, l[k], text[k])
  <2>1. \A k \in 1 .. Len(text) : l[k] \in Seq(Chars) /\ Stands(h, l[k], text[k])
    BY <1>1, <1>2, <1>3
  <2>2. l \in [1 .. Len(text) -> Seq(Chars)]
    BY <1>1, <1>2, <2>1
  <2>3. QED
    BY <1>2, <2>1, <2>2
<1>5. FlattenSeq(l) = Escaped(text, special)
  BY <1>1 DEF Escaped
<1>6. /\ FlattenSeq(l) \in Seq(Chars) /\ q \o FlattenSeq(l) \in Seq(Chars)
      /\ StringConstant(h)[q \o FlattenSeq(l)] = At("in", text, <<>>)
  BY <1>4, TextRead
<1>7. QED
  BY <1>5, <1>6

(* Doubled does so for a server that takes none.                           *)
LEMMA DoubledReads ==
  ASSUME NEW h \in Handles, h \notin Escaping, NEW text \in Seq(Chars),
         NEW q \in Seq(Chars), StringConstant(h)[q] = At("in", <<>>, <<>>)
  PROVE  /\ Doubled(text) \in Seq(Chars) /\ q \o Doubled(text) \in Seq(Chars)
         /\ StringConstant(h)[q \o Doubled(text)] = At("in", text, <<>>)
<1>1. PICK l : l = [k \in DOMAIN text |-> IF text[k] = "'" THEN <<"'", "'">> ELSE <<text[k]>>]
  OBVIOUS
<1>2. Len(text) \in Nat /\ DOMAIN text = 1 .. Len(text) /\ \A k \in 1 .. Len(text) : text[k] \in Chars
  BY LenProperties, ElementOfSeq
<1>3. \A c \in Chars : /\ <<c>> \in Seq(Chars)
                       /\ c # "'" => Stands(h, <<c>>, c)
  BY DEF Stands, AsItIs
<1>4. \A c \in Chars : c = "'" => <<"'", "'">> \in Seq(Chars) /\ Stands(h, <<"'", "'">>, c)
  BY KeysAssumption DEF Stands
<1>5. /\ l \in Seq(Seq(Chars)) /\ Len(l) = Len(text)
      /\ \A k \in 1 .. Len(text) : Stands(h, l[k], text[k])
  <2>1. \A k \in 1 .. Len(text) : l[k] \in Seq(Chars) /\ Stands(h, l[k], text[k])
    BY <1>1, <1>2, <1>3, <1>4
  <2>2. l \in [1 .. Len(text) -> Seq(Chars)]
    BY <1>1, <1>2, <2>1
  <2>3. QED
    BY <1>2, <2>1, <2>2
<1>6. FlattenSeq(l) = Doubled(text)
  BY <1>1 DEF Doubled
<1>7. /\ FlattenSeq(l) \in Seq(Chars) /\ q \o FlattenSeq(l) \in Seq(Chars)
      /\ StringConstant(h)[q \o FlattenSeq(l)] = At("in", text, <<>>)
  BY <1>5, TextRead
<1>8. QED
  BY <1>6, <1>7

(* A key without special characters is not copied.                         *)
LEMMA PlainReads ==
  ASSUME NEW h \in Handles, NEW text \in Seq(Chars), \A k \in DOMAIN text : text[k] \notin {"'", "\\"},
         NEW q \in Seq(Chars), StringConstant(h)[q] = At("in", <<>>, <<>>)
  PROVE  /\ q \o text \in Seq(Chars)
         /\ StringConstant(h)[q \o text] = At("in", text, <<>>)
<1>1. PICK l : l = [k \in 1 .. Len(text) |-> <<text[k]>>]
  OBVIOUS
<1>2. Len(text) \in Nat /\ DOMAIN text = 1 .. Len(text) /\ \A k \in 1 .. Len(text) : text[k] \in Chars
  BY LenProperties, ElementOfSeq
<1>3. /\ l \in Seq(Seq(Chars)) /\ Len(l) = Len(text)
      /\ \A k \in 1 .. Len(text) : Stands(h, l[k], text[k])
  <2>1. \A k \in 1 .. Len(text) : l[k] \in Seq(Chars) /\ Stands(h, l[k], text[k])
    BY <1>1, <1>2 DEF Stands, AsItIs
  <2>2. l \in [1 .. Len(text) -> Seq(Chars)]
    BY <1>1, <1>2, <2>1
  <2>3. QED
    BY <1>2, <2>1, <2>2
<1>4. FlattenSeq(l) = text
  BY <1>1, FlattenOnes
<1>5. QED
  BY <1>3, <1>4, TextRead

(* Three texts, one after the other.                                       *)
LEMMA FlattenThree ==
  ASSUME NEW l \in Seq(Seq(Chars)), Len(l) = 3
  PROVE  FlattenSeq(l) = (l[1] \o l[2]) \o l[3]
<1>1. l # <<>>
  OBVIOUS
<1>2. PICK f \in [1 .. Len(l) -> Seq(Chars)] :
        /\ f[1] = l[1] /\ FlattenSeq(l) = f[Len(l)]
        /\ \A k \in 2 .. Len(l) : f[k] = f[k - 1] \o l[k]
  BY <1>1, FlattenIs
<1>3. \A k \in 2 .. 3 : f[k] = f[k - 1] \o l[k]
  BY <1>2
<1>4. f[2] = f[1] \o l[2] /\ f[3] = f[2] \o l[3]
  <2>1. 2 \in 2 .. 3 /\ 3 \in 2 .. 3 /\ 2 - 1 = 1 /\ 3 - 1 = 2
    OBVIOUS
  <2>2. QED
    BY <1>3, <2>1
<1>5. QED
  BY <1>2, <1>4

(* A template with the key between apostrophes, expanded.                  *)
LEMMA KeyExpanded ==
  ASSUME NEW t, KeyTemplate(t), NEW env, "key" \in DOMAIN env, env["key"] \in Seq(Chars)
  PROVE  /\ Expandable(t) /\ t[1][2] \in Seq(Chars) /\ t[3][2] \in Seq(Chars)
         /\ Expand(t, env) = (t[1][2] \o env["key"]) \o t[3][2]
<1>1. /\ DOMAIN t = 1 .. 3 /\ t[1][1] = "lit" /\ t[2] = <<"var", "key">> /\ t[3][1] = "lit"
      /\ t[1][2] \in Seq(Chars) /\ t[3][2] \in Seq(Chars)
  BY DEF KeyTemplate
<1>2. t[2][1] = "var" /\ t[2][2] = "key"
  BY <1>1
<1>3. \A k \in 1 .. 3 : k = 1 \/ k = 2 \/ k = 3
  OBVIOUS
<1>4. Expandable(t)
  BY <1>1, <1>2, <1>3 DEF Expandable
<1>5. PICK l : l = [k \in DOMAIN t |->
                      IF t[k][1] = "lit" THEN t[k][2]
                      ELSE IF t[k][2] \in DOMAIN env THEN env[t[k][2]] ELSE <<>>]
  OBVIOUS
<1>6. Expand(t, env) = FlattenSeq(l)
  BY <1>5 DEF Expand
<1>7. DOMAIN l = 1 .. 3 /\ l[1] = t[1][2] /\ l[2] = env["key"] /\ l[3] = t[3][2]
  <2>1. 1 \in DOMAIN t /\ 2 \in DOMAIN t /\ 3 \in DOMAIN t
    BY <1>1
  <2>2. DOMAIN l = 1 .. 3
    BY <1>1, <1>5
  <2>3. l[1] = t[1][2] /\ l[3] = t[3][2]
    BY <1>1, <1>5, <2>1
  <2>4. l[2] = env["key"]
    BY <1>2, <1>5, <2>1
  <2>5. QED
    BY <2>2, <2>3, <2>4
<1>8. l \in Seq(Seq(Chars)) /\ Len(l) = 3
  <2>1. \A k \in 1 .. 3 : l[k] \in Seq(Chars)
    BY <1>1, <1>3, <1>7
  <2>2. l = [k \in 1 .. 3 |-> l[k]]
    BY <1>5, <1>7
  <2>3. QED
    BY ONLY <2>1, <2>2
<1>9. FlattenSeq(l) = (l[1] \o l[2]) \o l[3]
  BY <1>8, FlattenThree
<1>10. QED
  BY <1>1, <1>4, <1>6, <1>7, <1>9

(* What the server reads of a query is the key and the rest of the         *)
(* template.                                                               *)
LEMMA KeyRead ==
  ASSUME NEW h \in Handles, NEW t, KeyTemplate(t), NEW key \in Seq(Chars), NEW env, "key" \in DOMAIN env,
         \/ h \in Escaping /\ \E special : /\ {"'", "\\"} \subseteq special
                                           /\ env["key"] = Escaped(key, special)
         \/ h \notin Escaping /\ env["key"] = Doubled(key)
         \/ env["key"] = key /\ \A k \in DOMAIN key : key[k] \notin {"'", "\\"}
  PROVE  /\ Expandable(t)
         /\ StringConstant(h)[Expand(t, env)] = At("after", key, Tail(t[3][2]))
<1>1. PICK before : before = t[1][2]
  OBVIOUS
<1>2. PICK after : after = t[3][2]
  OBVIOUS
<1>3. /\ before \in Seq(Chars) /\ before # <<>>
      /\ \A k \in DOMAIN before : before[k] = "'" <=> k = Len(before)
      /\ after \in Seq(Chars) /\ after # <<>>
      /\ after[1] = "'" /\ (Len(after) > 1 => after[2] # "'")
  BY <1>1, <1>2 DEF KeyTemplate
<1>4. StringConstant(h)[before] = At("in", <<>>, <<>>)
  <2>1. DOMAIN before = 1 .. Len(before)
    BY <1>3, LenProperties
  <2>2. QED
    BY <1>3, <2>1, Opens
<1>5. PICK v : v = env["key"]
  OBVIOUS
<1>6. v \in Seq(Chars) /\ before \o v \in Seq(Chars) /\ StringConstant(h)[before \o v] = At("in", key, <<>>)
  <2>0. ASSUME h \notin Escaping, v = Doubled(key)
        PROVE  /\ v \in Seq(Chars) /\ before \o v \in Seq(Chars)
               /\ StringConstant(h)[before \o v] = At("in", key, <<>>)
    BY <1>3, <1>4, <2>0, DoubledReads
  <2>1. ASSUME h \in Escaping,
               NEW special, {"'", "\\"} \subseteq special, v = Escaped(key, special)
        PROVE  /\ v \in Seq(Chars) /\ before \o v \in Seq(Chars)
               /\ StringConstant(h)[before \o v] = At("in", key, <<>>)
    BY <1>3, <1>4, <2>1, EscapedReads
  <2>2. ASSUME v = key, \A k \in DOMAIN key : key[k] \notin {"'", "\\"}
        PROVE  /\ v \in Seq(Chars) /\ before \o v \in Seq(Chars)
               /\ StringConstant(h)[before \o v] = At("in", key, <<>>)
    BY <1>3, <1>4, <2>2, PlainReads
  <2>3. QED
    BY <1>5, <2>0, <2>1, <2>2
<1>7. Expandable(t) /\ Expand(t, env) = (before \o v) \o after
  BY <1>1, <1>2, <1>5, <1>6, KeyExpanded
<1>8. StringConstant(h)[(before \o v) \o after] = At("after", key, Tail(after))
  BY <1>3, <1>6, Closes, ZenonT(30)
<1>9. QED
  BY <1>2, <1>7, <1>8

(* What a query records is read by the server as the property says.        *)
LEMMA AskedReads ==
  ASSUME NEW d \in Dbs, NEW key \in Keys, NEW from, NEW env, NEW fits, NEW reply,
         \/ env = fill_env(moddb_handle(d), create_query_env(key, from))
         \/ kind' # "mysql" /\ env = pg_fill_env(create_query_env(key, from)),
         Asked(d, key, IF ~Expandable(db[d].query) THEN <<>> ELSE Expand(db[d].query, env),
               fits, reply)
  PROVE  KeyReachesServer'
<1>0. PICK h \in Handles : h = moddb_handle(d)
  BY DEF Handles, moddb_handle
<1>1. PICK t : t = db[d].query
  OBVIOUS
<1>2. PICK q : q = IF ~Expandable(t) THEN <<>> ELSE Expand(t, env)
  OBVIOUS
<1>3. asked'.key = key /\ asked'.query = q /\ asked'.template = t /\ asked'.conn = h
  BY <1>0, <1>1, <1>2 DEF Asked
<1>4. SUFFICES ASSUME kind' = "mysql" \/ h \in Escaping, KeyTemplate(t)
               PROVE  StringConstant(h)[q] = At("after", key, Tail(t[3][2]))
  BY <1>3 DEF KeyReachesServer, At
<1>5. key \in Seq(Chars)
  BY KeysAssumption
<1>6. /\ "key" \in DOMAIN env
      /\ \/ h \in Escaping /\ \E special : /\ {"'", "\\"} \subseteq special
                                            /\ env["key"] = Escaped(key, special)
         \/ h \notin Escaping /\ env["key"] = Doubled(key)
         \/ env["key"] = key /\ \A k \in DOMAIN key : key[k] \notin {"'", "\\"}
  <2>1. {"'", "\\"} \subseteq {"\\", "'", "\""} /\ {"'", "\\"} \subseteq {"\\", "TAB", "'"}
    OBVIOUS
  <2>2. PICK e : e = create_query_env(key, from)
    OBVIOUS
  <2>3. "key" \in DOMAIN e /\ e["key"] = key
    BY <2>2 DEF create_query_env
  <2>4. /\ "key" \in DOMAIN fill_env(h, e)
        /\ h \in Escaping => fill_env(h, e)["key"] = Escaped(key, {"\\", "'", "\""})
        /\ h \notin Escaping => fill_env(h, e)["key"] = Doubled(key)
    BY <2>3 DEF fill_env, real_escape_string
  <2>5. /\ "key" \in DOMAIN pg_fill_env(e)
        /\ pg_fill_env(e)["key"] = IF quoted_length(key).quote THEN quote_copy(key) ELSE key
    BY <2>3 DEF pg_fill_env
  <2>6. quote_copy(key) = Escaped(key, {"\\", "TAB", "'"})
    BY DEF quote_copy
  <2>7. ~quoted_length(key).quote => \A k \in DOMAIN key : key[k] \notin {"'", "\\"}
    BY <1>5 DEF quoted_length, ToQuote
  <2>8. /\ "key" \in DOMAIN pg_fill_env(e)
        /\ \/ pg_fill_env(e)["key"] = Escaped(key, {"\\", "TAB", "'"})
           \/ /\ pg_fill_env(e)["key"] = key
              /\ \A k \in DOMAIN key : key[k] \notin {"'", "\\"}
    BY <2>5, <2>6, <2>7
  <2>9. CASE env = fill_env(h, e)
    BY <2>1, <2>4, <2>9, Zenon
  <2>10. CASE kind' # "mysql" /\ env = pg_fill_env(e)
    BY <1>4, <2>1, <2>8, <2>10, Zenon
  <2>11. QED
    BY <1>0, <2>2, <2>9, <2>10, Zenon
<1>7. Expandable(t) /\ StringConstant(h)[Expand(t, env)] = At("after", key, Tail(t[3][2]))
  BY <1>4, <1>5, <1>6, KeyRead
<1>8. QED
  BY <1>2, <1>7

(* No other step changes what was asked last, or the module.               *)
LEMMA OnlyQueriesAsk ==
  ASSUME [SqlNext]_sqlvars
  PROVE  KeyReachesServer' \/ UNCHANGED <<asked, kind>>
<1>1. ASSUME NEW d \in Dbs, mod_query(d) PROVE KeyReachesServer' \/ UNCHANGED <<asked, kind>>
  <2>1. kind' = kind
    BY <1>1 DEF mod_query
  <2>2. PICK key \in Keys, from \in Peers :
          \/ UNCHANGED asked
          \/ \E fits, reply :
               Asked(d, key, IF ~Expandable(db[d].query) THEN <<>>
                             ELSE Expand(db[d].query, fill_env(moddb_handle(d), create_query_env(key, from))),
                     fits, reply)
    BY <1>1 DEF mod_query, Crash
  <2>3. QED
    BY <2>1, <2>2, AskedReads
<1>2. ASSUME NEW d \in Dbs, modpg_query(d) PROVE KeyReachesServer' \/ UNCHANGED <<asked, kind>>
  <2>1. kind' = kind /\ kind' # "mysql"
    BY <1>2 DEF modpg_query
  <2>2. PICK key \in Keys, from \in Peers :
          \/ UNCHANGED asked
          \/ \E fits, reply :
               Asked(d, key, IF ~Expandable(db[d].query) THEN <<>>
                             ELSE Expand(db[d].query, pg_fill_env(create_query_env(key, from))),
                     fits, reply)
    BY <1>2 DEF modpg_query, Crash
  <2>3. QED
    BY <2>1, <2>2, AskedReads
<1>3. ASSUME NEW d \in Dbs,
             \/ mod_init_db(d) \/ mod_open(d) \/ mod_close(d)
             \/ modpg_init_db(d) \/ modpg_open(d) \/ modpg_close(d)
      PROVE  UNCHANGED <<asked, kind>>
  BY <1>3 DEF mod_init_db, mod_open, mod_close, modpg_init_db, modpg_open, modpg_close, Close
<1>4. ASSUME SessionStart \/ SessionEnd \/ (\E h \in Dbs \cup {DefDb} : ServerGone(h))
             \/ UNCHANGED sqlvars
      PROVE  UNCHANGED <<asked, kind>>
  BY <1>4 DEF SessionStart, SessionEnd, ServerGone, sqlvars
<1>5. QED
  BY <1>1, <1>2, <1>3, <1>4 DEF SqlNext

(* For every key and template: what the mysql module puts between the      *)
(* apostrophes of a query is read as the key by a server of either mode,   *)
(* what the postgres module puts there by a server that takes backslash    *)
(* escapes, and the rest of the template as what it is (fill_env,          *)
(* quote_copy).                                                            *)
THEOREM KeyReachesServerCorrect == SqlSpec => []KeyReachesServer
<1>1. SqlInit => KeyReachesServer
  <2>1. SUFFICES ASSUME SqlInit, KeyTemplate(asked.template) PROVE FALSE
    BY DEF KeyReachesServer
  <2>2. asked.template = <<>> /\ 1 \in DOMAIN asked.template
    BY <2>1 DEF SqlInit, KeyTemplate
  <2>3. QED
    BY <2>2
<1>2. KeyReachesServer /\ [SqlNext]_sqlvars => KeyReachesServer'
  <2>1. KeyReachesServer /\ UNCHANGED <<asked, kind>> => KeyReachesServer'
    BY DEF KeyReachesServer
  <2>2. QED
    BY <2>1, OnlyQueriesAsk
<1>3. QED
  BY <1>1, <1>2, PTL DEF SqlSpec
=============================================================================
