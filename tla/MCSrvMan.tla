------------------------------ MODULE MCSrvMan ------------------------------
(* Instances of SrvMan for TLC, and what the documentation and the         *)
(* comments of the repository say of the server manager.                   *)
EXTENDS SrvMan, TLC

NoLimit == [s \in Servers |-> 0]
OneEach == [s \in Servers |-> 1]
FirstOne == [s \in Servers |-> IF s = 1 THEN 1 ELSE 0]
OnlyFirst == {1}
PidSymmetry == Permutations(Pids)

(* doc/smap.texi, max-children: at the limit smapd waits "until any of     *)
(* them terminates": once a registered child has terminated, the master    *)
(* does not stay in the pause.                                             *)
PauseEnds ==
  (pc = "pause_max" /\ Tracked \cap Zombies # {}) ~> pc # "pause_max"

(* doc/smap.texi, max-children: "Maximum number of children processes      *)
(* allowed to run simultaneously": no more registered children run at any  *)
(* time, however many servers are ready in one pass of connection_loop.    *)
MaxChildrenKept ==
  MaxChildren > 0 =>
    Cardinality({p \in Tracked : pstate[p] = "run"}) <= MaxChildren

(* srvman.c, above server_accept: "Return 1 to command main loop to        *)
(* recompute the set of active descriptors."  A server whose accept failed *)
(* is therefore out of the set when the loop comes to select again.        *)
SelectsOpenFds == pc \in {"limits", "selecting"} => fdset \subseteq attached
=============================================================================
