----------------------------- MODULE WorkerPool -----------------------------
(***************************************************************************)
(* What the server manager promises, without its select loop, its flags    *)
(* and its counters: every server has a crew of processes, each of them    *)
(* working on one connection.  A process joins a crew when it is created,  *)
(* within the limits, and leaves it after it has ended and been waited     *)
(* for, or when its server is withdrawn or the daemon goes down.           *)
(***************************************************************************)
EXTENDS Naturals, FiniteSets

CONSTANTS
  Servers, Pids,
  MaxOf,         \* the largest crew of each server, 0 for no limit
  MaxChildren,   \* the limit for all crews together, 0 for none
  NServers       \* the number of servers: how far the limit may be missed

VARIABLES
  phase,         \* "down", "serving" or "closing"
  crew,          \* the processes of each server
  proc           \* of each pid: "none", "run" or "ended" but not waited for

poolVars == <<phase, crew, proc>>

NoCrew == [s \in Servers |-> {}]
AllCrews == UNION {crew[s] : s \in Servers}

Init ==
  /\ phase = "down"
  /\ crew = NoCrew
  /\ proc = [p \in Pids |-> "none"]

(* A daemon starts; if it becomes another process, the children of an      *)
(* earlier one are not its own.                                            *)
Start ==
  /\ phase = "down" /\ crew = NoCrew
  /\ phase' = "serving"
  /\ proc' = proc \/ proc' = [p \in Pids |-> "none"]
  /\ UNCHANGED crew

HasRoom(s) ==
  /\ MaxOf[s] > 0 => Cardinality(crew[s]) < MaxOf[s]
  /\ MaxChildren > 0 => Cardinality(AllCrews) < MaxChildren - 1 + NServers

Join(s, p) ==
  /\ phase = "serving" /\ HasRoom(s)
  /\ proc[p] = "none" /\ p \notin AllCrews
  /\ proc' = [proc EXCEPT ![p] = "run"]
  /\ crew' = [crew EXCEPT ![s] = @ \cup {p}]
  /\ UNCHANGED phase

End(p) ==
  /\ proc[p] = "run"
  /\ proc' = [proc EXCEPT ![p] = "ended"]
  /\ UNCHANGED <<phase, crew>>

(* Only a process that has ended leaves its crew.                          *)
Leave(p) ==
  /\ phase \in {"serving", "closing"}
  /\ proc[p] = "ended"
  /\ proc' = [proc EXCEPT ![p] = "none"]
  /\ crew' = [s \in Servers |-> crew[s] \ {p}]
  /\ UNCHANGED phase

Withdraw(s) ==
  /\ phase = "serving"
  /\ crew' = [crew EXCEPT ![s] = {}]
  /\ UNCHANGED <<phase, proc>>

Close ==
  /\ phase = "serving"
  /\ phase' = "closing"
  /\ UNCHANGED <<crew, proc>>

GoDown ==
  /\ phase \in {"serving", "closing"}
  /\ phase' = "down"
  /\ crew' = NoCrew
  /\ UNCHANGED proc

Next ==
  \/ Start \/ Close \/ GoDown
  \/ \E p \in Pids : End(p) \/ Leave(p)
  \/ \E s \in Servers : Withdraw(s) \/ \E p \in Pids : Join(s, p)

Spec == Init /\ [][Next]_poolVars
=============================================================================
