------------------------------- MODULE SrvMan -------------------------------
(***************************************************************************)
(* The server manager of smapd (src/src/srvman.c) and the part of          *)
(* smap_daemon (src/src/smapd.c) that drives it: one master process with   *)
(* a list of listening servers, a select loop, one child per connection,   *)
(* the SIGCHLD, SIGTERM and SIGHUP handlers, the shutdown sequence and the *)
(* restart by execv.                                                       *)
(*                                                                         *)
(* The master's control point is pc.  Between two of its steps any child   *)
(* may exit, any client may connect and any signal may be delivered, so    *)
(* everything the code reads in one statement and uses in a later one is   *)
(* exposed to the handlers here as it is in the program.                   *)
(*                                                                         *)
(* Servers are numbered in the order in which the configuration attaches   *)
(* them, so the list srvman.head .. srvman.tail is the set "attached"      *)
(* visited in increasing order.                                            *)
(***************************************************************************)
EXTENDS Integers, FiniteSets

CONSTANTS
  NServers,       \* number of "server" statements in the configuration
  Pids,           \* process identifiers available for children
  MaxOf,          \* max-children of each server, 0 for unlimited
  MaxChildren,    \* the global max-children, 0 for unlimited
  SingleProcess,  \* servers that run their sessions in the master
  Foreground,     \* TRUE when smapd is run with --foreground
  Timeout,        \* shutdown-timeout in seconds
  Backlog         \* length of the queue of connections not yet accepted

Servers == 1..NServers
BadFd == 0        \* a descriptor that belongs to no server

ASSUME NServersAssumption == NServers \in Nat \ {0}
ASSUME PidsAssumption == IsFiniteSet(Pids)
ASSUME MaxOfAssumption == MaxOf \in [Servers -> Nat]
ASSUME MaxChildrenAssumption == MaxChildren \in Nat
ASSUME SingleProcessAssumption == SingleProcess \subseteq Servers
ASSUME ForegroundAssumption == Foreground \in BOOLEAN
ASSUME TimeoutAssumption == Timeout \in Nat \ {0}
ASSUME BacklogAssumption == Backlog \in Nat \ {0}

VARIABLES
  pc,            \* control point of the master process
  attached,      \* servers in the list srvman.head
  fdset, maxfd,  \* the descriptors to select on, as last computed
  todo,          \* rdset: ready servers connection_loop has yet to visit
  recompute,     \* recompute_fd
  rc,            \* rc of children_cleanup or of connection_loop
  need_cleanup, stop, restart,  \* flags set by the signal handlers
  pending,       \* connections waiting in each server's listen queue
  pstate,        \* what the kernel knows of each pid
  pidtab,        \* the pids registered with each server
  nchild,        \* srv->num_children
  num_children,  \* srvman.num_children
  ticks,         \* seconds spent in the shutdown loop
  killed,        \* history: children the master has sent SIGKILL
  orphans,       \* history: children whose server was freed under them
  lost           \* history: registrations freed without being uncounted

loopVars  == <<fdset, maxfd, todo, recompute, rc>>
flagVars  == <<need_cleanup, stop, restart>>
countVars == <<pidtab, nchild, num_children>>
ghostVars == <<killed, orphans, lost>>
vars == <<pc, attached, loopVars, flagVars, pending, pstate, countVars,
          ticks, ghostVars>>

-----------------------------------------------------------------------------
(* Control points.  smap_srvman_run installs its SIGCHLD handler on the    *)
(* way from "run" to "loop_init" and removes it when it leaves the loop.   *)

LoopPcs == {"loop_init", "top", "reap", "compute", "limits", "pause_fds",
            "pause_max", "selecting", "scan", "session"}
ShutdownPcs == {"sigterm", "sh_reap", "sigkill"}
EndPcs == {"exit", "killed"}
PcValues == {"boot", "open", "run", "free", "exec"}
              \cup LoopPcs \cup ShutdownPcs \cup EndPcs

Blocked   == {"pause_fds", "pause_max", "selecting"}
Listening == {"run"} \cup LoopPcs \cup ShutdownPcs

Tracked == UNION {pidtab[s] : s \in Servers}
Children == {p \in Pids : pstate[p] \in {"run", "zombie"}}
Zombies == {p \in Pids : pstate[p] = "zombie"}
Idle == {p \in Pids : pstate[p] = "free"}

NoChildren == [s \in Servers |-> {}]
Zero == [s \in Servers |-> 0]

(* SERVER_BUSY: the server has run out of its own children limit.          *)
Busy(s) == MaxOf[s] > 0 /\ nchild[s] >= MaxOf[s]

(* Fault: the limit is tested with > instead of >=.                        *)
TooMany_OffByOne == MaxChildren > 0 /\ num_children > MaxChildren

(* The check the main loop makes against the global limit.                 *)
TooMany == MaxChildren > 0 /\ num_children >= MaxChildren

-----------------------------------------------------------------------------
(* Start-up.                                                               *)

Init ==
  /\ pc = "boot"
  /\ attached = Servers
  /\ fdset = {} /\ maxfd = "unset" /\ todo = {}
  /\ recompute = FALSE /\ rc = FALSE
  /\ need_cleanup = FALSE /\ stop = FALSE /\ restart = FALSE
  /\ pending = Zero
  /\ pstate = [p \in Pids |-> "free"]
  /\ pidtab = NoChildren /\ nchild = Zero /\ num_children = 0
  /\ ticks = 0
  /\ killed = {} /\ orphans = {} /\ lost = 0

(* smap_daemon up to its signal calls.  daemon() forks: whatever children  *)
(* the process had before an execv are no longer children of the master.   *)
Boot ==
  /\ pc = "boot"
  /\ pc' = "open"
  /\ IF Foreground
     THEN UNCHANGED <<pstate, killed, orphans>>
     ELSE /\ pstate' = [p \in Pids |-> CASE pstate[p] = "run" -> "adopted"
                                         [] pstate[p] = "zombie" -> "free"
                                         [] OTHER -> pstate[p]]
          /\ killed' = {} /\ orphans' = {}
  /\ UNCHANGED <<attached, loopVars, flagVars, pending, countVars, ticks, lost>>

(* daemon() or switch_to_privs failed.                                     *)
BootFail ==
  /\ pc = "boot"
  /\ pc' = "exit"
  /\ UNCHANGED <<attached, loopVars, flagVars, pending, pstate, countVars,
                 ticks, ghostVars>>

(* smap_srvman_open: servers that cannot be opened are freed; with none    *)
(* left smap_daemon exits.                                                 *)
smap_srvman_open ==
  /\ pc = "open"
  /\ \E opened \in SUBSET Servers :
       /\ attached' = opened
       /\ pc' = IF opened = {} THEN "exit" ELSE "run"
  /\ UNCHANGED <<loopVars, flagVars, pending, pstate, countVars, ticks,
                 ghostVars>>

(* smap_srvman_run up to its loop: recompute_fd = 1, fdset and maxfd are   *)
(* automatic variables without a value, the SIGCHLD handler is installed.  *)
RunStart ==
  /\ pc = "run"
  /\ recompute' = TRUE /\ maxfd' = "unset" /\ fdset' = {}
  /\ pc' = "loop_init"
  /\ UNCHANGED <<attached, todo, rc, flagVars, pending, pstate, countVars,
                 ticks, ghostVars>>

(* for (stop = 0; ...                                                      *)
LoopInit ==
  /\ pc = "loop_init"
  /\ stop' = FALSE
  /\ pc' = "top"
  /\ UNCHANGED <<attached, loopVars, need_cleanup, restart, pending, pstate,
                 countVars, ticks, ghostVars>>

-----------------------------------------------------------------------------
(* The main loop.                                                          *)

(* The loop test, and the test of need_cleanup.                            *)
LoopTop ==
  /\ pc = "top"
  /\ \/ /\ stop \/ attached = {}
        /\ pc' = "sigterm"
        /\ UNCHANGED <<need_cleanup, rc>>
     \/ /\ ~stop /\ attached # {} /\ need_cleanup
        /\ need_cleanup' = FALSE
        /\ rc' = FALSE
        /\ pc' = "reap"
     \/ /\ ~stop /\ attached # {} /\ ~need_cleanup
        /\ pc' = "compute"
        /\ UNCHANGED <<need_cleanup, rc>>
  /\ UNCHANGED <<attached, fdset, maxfd, todo, recompute, stop, restart,
                 pending, pstate, countVars, ticks, ghostVars>>

(* Fault: the server's counter is decremented twice.                       *)
Uncount_Twice(s) ==
  /\ nchild' = [nchild EXCEPT ![s] = @ - 2]
  /\ num_children' = num_children - 1

(* Fault: the global counter is not decremented.                           *)
Uncount_Leak(s) ==
  /\ nchild' = [nchild EXCEPT ![s] = @ - 1]
  /\ num_children' = num_children

(* Removing a registered child from the two counters.                      *)
Uncount(s) ==
  /\ nchild' = [nchild EXCEPT ![s] = @ - 1]
  /\ num_children' = num_children - 1

(* Fault: busy is tested after the child has been uncounted.               *)
FreedSlot_After(s) == MaxOf[s] > 0 /\ nchild[s] - 1 >= MaxOf[s]

(* The value unregister_child returns for a child of server s: whether the *)
(* server was busy before the child is uncounted.                          *)
FreedSlot(s) == Busy(s)

(* Fault: only the first server's table is searched.                       *)
unregister_child_FirstOnly(p) ==
  \/ \E s \in attached :
       /\ \A t \in attached : s <= t
       /\ p \in pidtab[s]
       /\ rc' = (rc \/ FreedSlot(s))
       /\ pidtab' = [pidtab EXCEPT ![s] = @ \ {p}]
       /\ Uncount(s)
  \/ /\ \A s \in attached : p \notin pidtab[s] \/ \E t \in attached : t < s
     /\ UNCHANGED <<rc, countVars>>

(* The child leaves the table that holds it; a pid in no table is ignored. *)
unregister_child(p) ==
  \/ \E s \in attached :
       /\ p \in pidtab[s]
       /\ rc' = (rc \/ FreedSlot(s))
       /\ pidtab' = [pidtab EXCEPT ![s] = @ \ {p}]
       /\ Uncount(s)
  \/ /\ p \notin Tracked
     /\ UNCHANGED <<rc, countVars>>

(* One successful waitpid of children_cleanup, in the main loop or in the  *)
(* shutdown loop.                                                          *)
Reap(p) ==
  /\ pc \in {"reap", "sh_reap"}
  /\ pstate[p] = "zombie"
  /\ pstate' = [pstate EXCEPT ![p] = "free"]
  /\ unregister_child(p)
  /\ killed' = killed \ {p} /\ orphans' = orphans \ {p}
  /\ UNCHANGED <<pc, attached, fdset, maxfd, todo, recompute, flagVars,
                 pending, ticks, lost>>

(* Fault: need_cleanup is reset after the children are waited for.         *)
ReapDone_FlagLate ==
  /\ pc = "reap"
  /\ Zombies = {} \/ need_cleanup
  /\ recompute' = rc
  /\ need_cleanup' = FALSE
  /\ pc' = "compute"
  /\ UNCHANGED <<attached, fdset, maxfd, todo, rc, stop, restart, pending,
                 pstate, countVars, ticks, ghostVars>>

(* waitpid finds nothing: recompute_fd = children_cleanup().               *)
ReapDone ==
  /\ pc = "reap"
  /\ Zombies = {}
  /\ recompute' = rc
  /\ pc' = "compute"
  /\ UNCHANGED <<attached, fdset, maxfd, todo, rc, flagVars, pending, pstate,
                 countVars, ticks, ghostVars>>

(* compute_fdset when recompute_fd is set.  The last disjunct is the read  *)
(* of fdset and maxfd before any assignment to them.                       *)
compute_fdset ==
  /\ pc = "compute"
  /\ \/ /\ recompute
        /\ fdset' = {s \in attached : ~Busy(s)}
        /\ maxfd' = IF \A s \in attached : Busy(s) THEN "zero" ELSE "positive"
     \/ /\ ~recompute /\ maxfd # "unset"
        /\ UNCHANGED <<fdset, maxfd>>
     \/ /\ ~recompute /\ maxfd = "unset"
        /\ fdset' \in SUBSET (attached \cup {BadFd})
        /\ maxfd' \in {"zero", "positive"}
  /\ recompute' = FALSE
  /\ pc' = "limits"
  /\ UNCHANGED <<attached, todo, rc, flagVars, pending, pstate, countVars,
                 ticks, ghostVars>>

(* The tests before select, and a select that fails with EBADF because a   *)
(* descriptor of the set has been closed.                                  *)
CheckLimits ==
  /\ pc = "limits"
  /\ pc' = CASE maxfd = "zero" -> "pause_fds"
             [] maxfd # "zero" /\ TooMany -> "pause_max"
             [] maxfd # "zero" /\ ~TooMany /\ ~(fdset \subseteq attached)
                  -> "sigterm"
             [] OTHER -> "selecting"
  /\ UNCHANGED <<attached, loopVars, flagVars, pending, pstate, countVars,
                 ticks, ghostVars>>

(* Fault: only the first ready server is visited.                          *)
SelectReturns_FirstOnly ==
  /\ pc = "selecting"
  /\ \E s \in fdset : /\ pending[s] > 0
                      /\ \A t \in fdset : t < s => pending[t] = 0
                      /\ todo' = {s}
  /\ rc' = FALSE
  /\ pc' = "scan"
  /\ UNCHANGED <<attached, fdset, maxfd, recompute, flagVars, pending, pstate,
                 countVars, ticks, ghostVars>>

(* select returns the ready descriptors and connection_loop begins.        *)
SelectReturns ==
  /\ pc = "selecting"
  /\ todo' = {s \in fdset : pending[s] > 0}
  /\ todo' # {}
  /\ rc' = FALSE
  /\ pc' = "scan"
  /\ UNCHANGED <<attached, fdset, maxfd, recompute, flagVars, pending, pstate,
                 countVars, ticks, ghostVars>>

-----------------------------------------------------------------------------
(* connection_loop and server_accept: the ready servers in list order.     *)

AtServer(s) ==
  /\ pc = "scan"
  /\ s \in todo
  /\ \A t \in todo : s <= t

(* Fault: accept without testing SERVER_BUSY.                              *)
Refuses_Never(s) == FALSE

(* The test server_accept makes before it accepts.                         *)
Refuses(s) == Busy(s)

(* The server is full: the connection stays in the listen queue.           *)
ScanBusy(s) ==
  /\ AtServer(s)
  /\ Refuses(s)
  /\ rc' = TRUE
  /\ todo' = todo \ {s}
  /\ UNCHANGED <<pc, attached, fdset, maxfd, recompute, flagVars, pending,
                 pstate, countVars, ticks, ghostVars>>

(* The server leaves the list and its pidtab is freed with it; the global  *)
(* counter is not adjusted.                                                *)
smap_server_free(s) ==
  /\ attached' = attached \ {s}
  /\ pidtab' = [pidtab EXCEPT ![s] = {}]
  /\ nchild' = [nchild EXCEPT ![s] = 0]
  /\ orphans' = orphans \cup pidtab[s]
  /\ lost' = lost + nchild[s]

(* accept fails: the server is shut down and freed.                        *)
AcceptFail(s) ==
  /\ AtServer(s)
  /\ ~Refuses(s)
  /\ smap_server_free(s)
  /\ pending' = [pending EXCEPT ![s] = 0]
  /\ rc' = TRUE
  /\ todo' = todo \ {s}
  /\ UNCHANGED <<pc, fdset, maxfd, recompute, flagVars, pstate, num_children,
                 ticks, killed>>

(* The connection is accepted and closed: refused by the access list, or   *)
(* fork failed.                                                            *)
ConnDropped(s) ==
  /\ AtServer(s)
  /\ ~Refuses(s)
  /\ pending' = [pending EXCEPT ![s] = @ - 1]
  /\ todo' = todo \ {s}
  /\ UNCHANGED <<pc, attached, fdset, maxfd, recompute, rc, flagVars, pstate,
                 countVars, ticks, ghostVars>>

(* Fault: the pid is counted but not stored.                               *)
register_child_NoTab(s, p) ==
  /\ pidtab' = pidtab
  /\ nchild' = [nchild EXCEPT ![s] = @ + 1]
  /\ num_children' = num_children + 1

(* A new child enters its server's table and both counters.                *)
register_child(s, p) ==
  /\ pidtab' = [pidtab EXCEPT ![s] = @ \cup {p}]
  /\ nchild' = [nchild EXCEPT ![s] = @ + 1]
  /\ num_children' = num_children + 1

(* Fault: the server's whole queue is served before the loop goes on.      *)
Fork_Drain(s, p) ==
  /\ AtServer(s)
  /\ ~Refuses(s)
  /\ s \notin SingleProcess
  /\ p \in Idle
  /\ pstate' = [pstate EXCEPT ![p] = "run"]
  /\ register_child(s, p)
  /\ pending' = [pending EXCEPT ![s] = @ - 1]
  /\ todo' = IF pending[s] > 1 THEN todo ELSE todo \ {s}
  /\ UNCHANGED <<pc, attached, fdset, maxfd, recompute, rc, flagVars, ticks,
                 ghostVars>>

(* server_run in a child of its own.                                       *)
Fork(s, p) ==
  /\ AtServer(s)
  /\ ~Refuses(s)
  /\ s \notin SingleProcess
  /\ p \in Idle
  /\ pstate' = [pstate EXCEPT ![p] = "run"]
  /\ register_child(s, p)
  /\ pending' = [pending EXCEPT ![s] = @ - 1]
  /\ todo' = todo \ {s}
  /\ UNCHANGED <<pc, attached, fdset, maxfd, recompute, rc, flagVars, ticks,
                 ghostVars>>

(* server_run in the master.                                               *)
RunSingle(s) ==
  /\ AtServer(s)
  /\ ~Refuses(s)
  /\ s \in SingleProcess
  /\ pending' = [pending EXCEPT ![s] = @ - 1]
  /\ todo' = todo \ {s}
  /\ pc' = "session"
  /\ UNCHANGED <<attached, fdset, maxfd, recompute, rc, flagVars, pstate,
                 countVars, ticks, ghostVars>>

(* The session ends (end of file, or a read error, an interrupting SIGCHLD *)
(* included) and connection_loop goes on.                                  *)
SessionEnd ==
  /\ pc = "session"
  /\ pc' = "scan"
  /\ UNCHANGED <<attached, loopVars, flagVars, pending, pstate, countVars,
                 ticks, ghostVars>>

(* smap_loop exits on a protocol error, or SIGALRM ends the process after  *)
(* idle_timeout seconds: the process is the master.                        *)
SessionAbort ==
  /\ pc = "session"
  /\ pc' = "killed"
  /\ pending' = Zero
  /\ UNCHANGED <<attached, loopVars, flagVars, pstate, countVars, ticks,
                 ghostVars>>

(* recompute_fd = connection_loop().                                       *)
ScanDone ==
  /\ pc = "scan"
  /\ todo = {}
  /\ recompute' = rc
  /\ pc' = "top"
  /\ UNCHANGED <<attached, fdset, maxfd, todo, rc, flagVars, pending, pstate,
                 countVars, ticks, ghostVars>>

-----------------------------------------------------------------------------
(* smap_srvman_shutdown, smap_srvman_free and the end of smap_daemon.      *)

(* SIGTERM to every registered child.  Children inherit sig_stop as their  *)
(* SIGTERM handler: it sets a flag no child reads, so none exits for it.   *)
SigTermChildren ==
  /\ pc = "sigterm"
  /\ ticks' = 0
  /\ pc' = "sh_reap"
  /\ UNCHANGED <<attached, loopVars, flagVars, pending, pstate, countVars,
                 ghostVars>>

(* Fault: the clock is read anew on every turn.                            *)
Elapsed_Restarted == 0

(* time(NULL) - start, after one more sleep(1).                            *)
Elapsed == ticks + 1

(* One turn of the shutdown loop after its children_cleanup: leave when no *)
(* child is counted, else sleep a second and look at the clock.            *)
ShutdownTurn ==
  /\ pc = "sh_reap"
  /\ Zombies = {}
  /\ \/ /\ num_children = 0
        /\ pc' = "sigkill"
        /\ UNCHANGED ticks
     \/ /\ num_children # 0
        /\ pc' = IF Elapsed < Timeout THEN "sh_reap" ELSE "sigkill"
        /\ ticks' = Elapsed
  /\ UNCHANGED <<attached, loopVars, flagVars, pending, pstate, countVars,
                 ghostVars>>

(* Fault: only the first server's children are signalled.                  *)
Signalled_First == UNION {pidtab[s] : s \in {t \in attached :
                                              \A u \in attached : t <= u}}

(* The children server_signal_children sends SIGKILL.                      *)
Signalled == UNION {pidtab[s] : s \in attached}

(* SIGKILL to every registered child; the listening sockets are closed.    *)
SigKillChildren ==
  /\ pc = "sigkill"
  /\ killed' = killed \cup Signalled
  /\ pending' = Zero
  /\ pc' = "free"
  /\ UNCHANGED <<attached, loopVars, flagVars, pstate, countVars, ticks,
                 orphans, lost>>

(* smap_srvman_free, then the test of restart.                             *)
smap_srvman_free ==
  /\ pc = "free"
  /\ attached' = {}
  /\ pidtab' = NoChildren /\ nchild' = Zero
  /\ lost' = num_children
  /\ pc' = IF restart THEN "exec" ELSE "exit"
  /\ UNCHANGED <<loopVars, flagVars, pending, pstate, num_children, ticks,
                 killed, orphans>>

(* execv: the same process, its memory anew.                               *)
Exec ==
  /\ pc = "exec"
  /\ pc' = "boot"
  /\ attached' = Servers
  /\ fdset' = {} /\ maxfd' = "unset" /\ todo' = {}
  /\ recompute' = FALSE /\ rc' = FALSE
  /\ need_cleanup' = FALSE /\ stop' = FALSE /\ restart' = FALSE
  /\ num_children' = 0 /\ lost' = 0
  /\ ticks' = 0
  /\ UNCHANGED <<pending, pstate, pidtab, nchild, killed, orphans>>

ExecFail ==
  /\ pc = "exec"
  /\ pc' = "exit"
  /\ UNCHANGED <<attached, loopVars, flagVars, pending, pstate, countVars,
                 ticks, ghostVars>>

-----------------------------------------------------------------------------
(* The environment: signals, children, clients.                            *)

(* A delivered signal ends pause and select with EINTR; after the pause    *)
(* for want of descriptors the loop sets recompute_fd.                     *)
Interrupt ==
  /\ pc' = IF pc \in Blocked THEN "top" ELSE pc
  /\ recompute' = (recompute \/ pc = "pause_fds")

(* SIGTERM, SIGQUIT or SIGINT; before the handlers are set any signal is   *)
(* fatal.                                                                  *)
SigTerm ==
  /\ pc \notin EndPcs
  /\ \/ /\ pc = "boot"
        /\ pc' = "killed"
        /\ UNCHANGED <<stop, recompute>>
     \/ /\ pc # "boot"
        /\ stop' = TRUE
        /\ Interrupt
  /\ UNCHANGED <<attached, fdset, maxfd, todo, rc, need_cleanup, restart,
                 pending, pstate, countVars, ticks, ghostVars>>

(* SIGHUP, when smapd was started by its absolute name.                    *)
SigHup ==
  /\ pc \notin EndPcs \cup {"boot"}
  /\ stop' = TRUE /\ restart' = TRUE
  /\ Interrupt
  /\ UNCHANGED <<attached, fdset, maxfd, todo, rc, need_cleanup, pending,
                 pstate, countVars, ticks, ghostVars>>

(* A child ends.  SIGCHLD reaches srvman_signal while the handler is       *)
(* installed and is discarded otherwise.                                   *)
ChildExit(p) ==
  /\ pstate[p] = "run"
  /\ pc \notin EndPcs
  /\ pstate' = [pstate EXCEPT ![p] = "zombie"]
  /\ need_cleanup' = (need_cleanup \/ pc \in LoopPcs)
  /\ Interrupt
  /\ UNCHANGED <<attached, fdset, maxfd, todo, rc, stop, restart, pending,
                 countVars, ticks, ghostVars>>

(* A child left behind by an earlier master ends; init waits for it.       *)
AdoptedExit(p) ==
  /\ pstate[p] = "adopted"
  /\ pstate' = [pstate EXCEPT ![p] = "free"]
  /\ UNCHANGED <<pc, attached, loopVars, flagVars, pending, countVars, ticks,
                 ghostVars>>

(* A client's connection enters the listen queue.                          *)
Connect(s) ==
  /\ pc \in Listening
  /\ s \in attached
  /\ pending[s] < Backlog
  /\ pending' = [pending EXCEPT ![s] = @ + 1]
  /\ UNCHANGED <<pc, attached, loopVars, flagVars, pstate, countVars, ticks,
                 ghostVars>>

-----------------------------------------------------------------------------
(* The steps the master takes by itself, the end of a session excepted.    *)
Master ==
  \/ Boot \/ BootFail \/ smap_srvman_open \/ RunStart \/ LoopInit
  \/ LoopTop \/ (\E p \in Pids : Reap(p)) \/ ReapDone \/ compute_fdset
  \/ CheckLimits \/ SelectReturns
  \/ \E s \in Servers : \/ ScanBusy(s) \/ AcceptFail(s) \/ ConnDropped(s)
                        \/ RunSingle(s) \/ \E p \in Pids : Fork(s, p)
  \/ ScanDone
  \/ SigTermChildren \/ ShutdownTurn \/ SigKillChildren
  \/ smap_srvman_free \/ Exec \/ ExecFail

Environment ==
  \/ SessionEnd \/ SessionAbort
  \/ SigTerm \/ SigHup
  \/ \E p \in Pids : ChildExit(p) \/ AdoptedExit(p)
  \/ \E s \in Servers : Connect(s)

Next == Master \/ Environment

Spec == Init /\ [][Next]_vars

(* The kernel schedules the master: it never rests for ever at a control   *)
(* point where it could go on.  Nothing is assumed of clients, of          *)
(* children, of signals or of sessions.                                    *)
FairSpec == Spec /\ WF_vars(Master)

-----------------------------------------------------------------------------
(* Properties.                                                             *)

(* Every variable keeps its type.                                          *)
TypeOK ==
  /\ pc \in PcValues
  /\ attached \subseteq Servers
  /\ fdset \subseteq Servers \cup {BadFd}
  /\ maxfd \in {"unset", "zero", "positive"}
  /\ todo \subseteq attached
  /\ recompute \in BOOLEAN /\ rc \in BOOLEAN
  /\ need_cleanup \in BOOLEAN /\ stop \in BOOLEAN /\ restart \in BOOLEAN
  /\ pending \in [Servers -> 0..Backlog]
  /\ pstate \in [Pids -> {"free", "run", "zombie", "adopted"}]
  /\ pidtab \in [Servers -> SUBSET Pids]
  /\ nchild \in [Servers -> Nat]
  /\ num_children \in Nat
  /\ ticks \in 0..Timeout
  /\ killed \subseteq Pids /\ orphans \subseteq Pids
  /\ lost \in Nat

(* The books of register_child and unregister_child balance: a server      *)
(* counts the pids in its table, no pid is in two tables, and the global   *)
(* counter is the number of registered children plus the registrations     *)
(* smap_server_free dropped.                                               *)
Accounting ==
  /\ \A s \in Servers : nchild[s] = Cardinality(pidtab[s])
  /\ \A s, t \in Servers : s # t => pidtab[s] \cap pidtab[t] = {}
  /\ num_children = Cardinality(Tracked) + lost

(* A pid in a table is a child not yet waited for.  server_signal_children *)
(* therefore never signals a process that merely got a recycled pid.       *)
OnlyOwnChildren == Tracked \subseteq Children

(* The fdset the loop selects on is stale after a fork, yet server_accept  *)
(* never lets a server exceed its own max-children.                        *)
ServerLimit == \A s \in Servers : MaxOf[s] > 0 => nchild[s] <= MaxOf[s]

(* What the code keeps of the global max-children, which is less than what *)
(* the manual promises (MaxChildrenKept in MCSrvMan is violated): the      *)
(* limit is tested once per select, before any of the ready servers forks, *)
(* so that one pass may overshoot by a child for each further server; no   *)
(* sequence of passes overshoots by more.                                  *)
GlobalBound ==
  MaxChildren > 0 => num_children <= MaxChildren - 1 + NServers

(* While the loop runs, the death of a registered child is never           *)
(* forgotten: until it has been waited for, either children_cleanup is at  *)
(* work or the flag that starts it is set.                                 *)
ZombieNoticed ==
  (pc \in LoopPcs \ {"reap"} /\ Tracked \cap Zombies # {}) => need_cleanup

(* When the master blocks in select, or in pause for want of descriptors,  *)
(* every server that may accept is among the descriptors it watches: no    *)
(* path that skips compute_fdset leaves a free server deaf.  The daemon    *)
(* run in the foreground is excepted: after a restart it may read fdset    *)
(* before the first compute_fdset.                                         *)
NoDeafServer ==
  ~Foreground =>
    /\ pc = "selecting" => \A s \in attached : Busy(s) \/ s \in fdset
    /\ pc = "pause_fds" => \A s \in attached : Busy(s)

(* smap_server_free leaks the freed server's share of the global counter,  *)
(* but the leak alone never fills the limit: whenever the master pauses    *)
(* because of max-children (smap_srvman_run), a registered child is still  *)
(* running, or one has ended and need_cleanup says so, so that the next    *)
(* signal of any kind makes room.  That signal need not come: the SIGCHLD  *)
(* of a child that ended just before pause() has been spent (PauseEnds in  *)
(* MCSrvMan is violated).                                                  *)
PauseHasChild ==
  pc = "pause_max" =>
    \E p \in Tracked : \/ pstate[p] = "run"
                       \/ pstate[p] = "zombie" /\ need_cleanup

(* When smapd leaves its shutdown, each child that still runs has been     *)
(* sent SIGKILL, unless its server was freed under it.                     *)
NoSurvivors ==
  pc \in {"free", "exec"} =>
     {p \in Pids : pstate[p] = "run"} \subseteq killed \cup orphans

(* The crews of WorkerPool are the tables of children; the daemon is down  *)
(* from the end of its shutdown until it has booted again.                 *)
PoolPhase == CASE pc \in {"boot", "exec"} \cup EndPcs -> "down"
               [] pc \in ShutdownPcs \cup {"free"} -> "closing"
               [] OTHER -> "serving"
PoolCrew == IF pc = "killed" THEN NoChildren ELSE pidtab
PoolProc == [p \in Pids |-> CASE pstate[p] = "run" -> "run"
                              [] pstate[p] = "zombie" -> "ended"
                              [] OTHER -> "none"]

Pool == INSTANCE WorkerPool WITH phase <- PoolPhase, crew <- PoolCrew, proc <- PoolProc

(* The server manager is a worker pool: through stale sets of descriptors, *)
(* late flags and signals at any point, a process is started only while    *)
(* the daemon serves and there is room for it, it leaves its server only   *)
(* after it has ended, and no crew outlives the daemon (smap_srvman_run,   *)
(* register_child, unregister_child, smap_srvman_shutdown).                *)
ImplementsPool == Pool!Spec

(* smap_srvman_shutdown ends, whatever the children do.                    *)
ShutdownEnds == pc = "sigterm" ~> pc \in {"exec", "exit"}

(* With no limit configured, a full listen queue does not stay full: its   *)
(* first connection is accepted, or the server or the daemon goes away.    *)
EveryConnectionTaken ==
  \A s \in Servers : pending[s] = Backlog ~> pending[s] < Backlog
=============================================================================
