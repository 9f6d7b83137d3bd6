------------------------------- MODULE Guile -------------------------------
(***************************************************************************)
(* modules/guile/guile.c: databases whose operations are Scheme procedures *)
(* in the sessions of one smapd process.  A process that forks for every   *)
(* connection serves one session, a single-process server or smapd -i as   *)
(* many as come.  Streams, handles and sessions are numbers; what Scheme   *)
(* procedures do is external.                                              *)
(***************************************************************************)
EXTENDS Naturals, FiniteSets

CONSTANTS
    GuileDbs,       \* the databases of the module
    Tables,         \* virtual tables an init function may return: sets of names
    MaxSessions     \* bound on the sessions of a single process

ASSUME GuileAssumption == IsFiniteSet(GuileDbs) /\ MaxSessions \in Nat

VARIABLES
    single,         \* whether the process serves more than one session
    gpc,            \* "init", "failed", "declare", "idle", "session", "closing" or "crash"
    gvtab,          \* global_vtab
    gdb,            \* databases: vtab, handle and oport_inited
    gopen,          \* databases open for the session
    gsession,       \* number of the session, which is also its stream
    port,           \* stream behind the current output port, 0 if none
    protected       \* handles protected from the garbage collector

gvars == <<single, gpc, gvtab, gdb, gopen, gsession, port, protected>>

UNSPECIFIED == 0
NoDb == [vtab |-> {}, handle |-> UNSPECIFIED, oport_inited |-> FALSE]

\* A new Scheme object.
Unused(h) == h \notin protected /\ \A d \in GuileDbs : gdb[d].handle # h
Fresh == {h \in 1 .. 2 * Cardinality(GuileDbs) * MaxSessions :
            Unused(h) /\ \A k \in 1 .. h - 1 : ~Unused(k)}

GuileInit ==
    /\ single \in BOOLEAN
    /\ gpc = "init"
    /\ gvtab = {}
    /\ gdb = [d \in GuileDbs |-> NoDb]
    /\ gopen = {}
    /\ gsession = 0
    /\ port = 0
    /\ protected = {}

-----------------------------------------------------------------------------
(***************************************************************************)
(* Initialization.                                                         *)
(***************************************************************************)

\* init_vtab: the entries the init function returns are stored over the ones
\* already there; an exception, a value of another type or an unknown name
\* is a failure.
init_vtab(vtab) == {[ok |-> TRUE, vtab |-> vtab \cup t] : t \in Tables}
                   \cup {[ok |-> FALSE, vtab |-> vtab]}

\* Without init-script there is no global table.
guile_init ==
    /\ gpc = "init"
    /\ \/ \E r \in init_vtab({}) :
            /\ gvtab' = r.vtab
            /\ gpc' = IF r.ok THEN "declare" ELSE "failed"
       \/ gpc' = "declare" /\ gvtab' = {}
    /\ UNCHANGED <<single, gdb, gopen, gsession, port, protected>>

\* The table of a database starts as a copy of the global one.  A database
\* needs a query or an xform procedure, from either.
guile_init_db(d) ==
    /\ gpc = "declare" /\ gdb[d] = NoDb
    /\ \E r \in init_vtab(gvtab) :
         /\ r.ok /\ r.vtab \cap {"query", "xform"} # {}
         /\ gdb' = [gdb EXCEPT ![d].vtab = r.vtab]
    /\ UNCHANGED <<single, gpc, gvtab, gopen, gsession, port, protected>>

\* init_databases drops a database that fails.
Declared == {d \in GuileDbs : gdb[d].vtab # {}}

SessionBegins ==
    /\ gpc \in {"declare", "idle"}
    /\ Declared # {}
    /\ gsession < IF single THEN MaxSessions ELSE 1
    /\ gsession' = gsession + 1
    /\ gpc' = "session"
    /\ UNCHANGED <<single, gvtab, gdb, gopen, port, protected>>

-----------------------------------------------------------------------------
(***************************************************************************)
(* Sessions.                                                               *)
(***************************************************************************)

\* Fault: a database that still has a handle is taken to have it protected.
Protect_Once(d, h) ==
    IF gdb[d].handle = UNSPECIFIED THEN protected \cup {h} ELSE protected

Protect(d, h) == protected \cup {h}

\* The procedure returns a handle, which is protected, or the unspecified
\* value, or throws; the last two are failures.
guile_open(d) ==
    /\ gpc = "session" /\ d \in Declared \ gopen
    /\ IF "open" \notin gdb[d].vtab
       THEN gopen' = gopen \cup {d} /\ UNCHANGED <<gdb, protected>>
       ELSE \/ \E h \in Fresh :
                 /\ gdb' = [gdb EXCEPT ![d].handle = h]
                 /\ protected' = Protect(d, h)
                 /\ gopen' = gopen \cup {d}
            \/ gdb' = [gdb EXCEPT ![d].handle = UNSPECIFIED] /\ UNCHANGED <<protected, gopen>>
            \/ UNCHANGED <<gdb, protected, gopen>>
    /\ UNCHANGED <<single, gpc, gvtab, gsession, port>>

\* The first query of a database makes an output port for the stream of its
\* session and remembers that it has done so.  The procedure writes its reply
\* to the current port.  A database with only xform has no procedure to call;
\* transformations (guile_xform) change no state.
guile_query(d) ==
    /\ gpc = "session" /\ d \in gopen
    /\ gdb' = [gdb EXCEPT ![d].oport_inited = TRUE]
    /\ port' = IF gdb[d].oport_inited THEN port ELSE gsession
    /\ gpc' = IF "query" \in gdb[d].vtab THEN gpc ELSE "crash"
    /\ UNCHANGED <<single, gvtab, gopen, gsession, protected>>

SessionEnds ==
    /\ gpc = "session"
    /\ gpc' = "closing"
    /\ UNCHANGED <<single, gvtab, gdb, gopen, gsession, port, protected>>

\* When the close procedure throws, the handle stays and stays protected;
\* close_databases marks the database as closed all the same.
guile_close(d) ==
    /\ gpc = "closing" /\ d \in gopen
    /\ gopen' = gopen \ {d}
    /\ \/ /\ protected' = protected \ {gdb[d].handle}
          /\ gdb' = [gdb EXCEPT ![d].handle = UNSPECIFIED]
       \/ "close" \in gdb[d].vtab /\ UNCHANGED <<gdb, protected>>
    /\ UNCHANGED <<single, gpc, gvtab, gsession, port>>

SessionOver ==
    /\ gpc = "closing" /\ gopen = {}
    /\ gpc' = "idle"
    /\ UNCHANGED <<single, gvtab, gdb, gopen, gsession, port, protected>>

GuileNext ==
    \/ guile_init \/ SessionBegins \/ SessionEnds \/ SessionOver
    \/ \E d \in GuileDbs :
         \/ guile_init_db(d) \/ guile_open(d) \/ guile_query(d)
         \/ guile_close(d)

GuileSpec == GuileInit /\ [][GuileNext]_gvars

-----------------------------------------------------------------------------
(***************************************************************************)
(* Properties.                                                             *)
(***************************************************************************)

\* No two open databases share a handle, and the handle of an open database
\* with an open procedure is one the garbage collector leaves alone, also
\* after sessions in which opening or closing has thrown (guile_open,
\* guile_close).
HandlesKept ==
    \A d \in gopen : "open" \in gdb[d].vtab =>
        /\ gdb[d].handle \in protected
        /\ \A e \in gopen \ {d} : gdb[e].handle # gdb[d].handle
=============================================================================
