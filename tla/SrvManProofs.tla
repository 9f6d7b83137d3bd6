---------------------------- MODULE SrvManProofs ----------------------------
(***************************************************************************)
(* Proofs about SrvMan that hold for every number of servers, every set of *)
(* pids and every choice of limits.                                        *)
(***************************************************************************)
EXTENDS SrvMan, FiniteSetTheorems, TLAPS

(* Servers that are not in the list have no children registered.           *)
Detached == \A s \in Servers : s \notin attached => pidtab[s] = {}

(* Nobody is registered before the loop has started.                       *)
Fresh == pc \in {"boot", "open", "run", "exec"} => pidtab = NoChildren

(* The servers connection_loop has yet to visit have a connection to take. *)
TodoReady == pc \in {"scan", "session"} => \A s \in todo : pending[s] > 0
TodoIdle == pc \notin {"scan", "session", "killed"} => todo = {}

(* The master only blocks in select on descriptors that are open.          *)
SelectOpen == pc = "selecting" => fdset \subseteq attached

(* The clock has not run out while the shutdown loop runs.                 *)
Grace == pc = "sh_reap" => ticks < Timeout

(* The inductive invariant behind the books of the server manager.  The    *)
(* type invariant is not inductive by itself: a counter that is about to   *)
(* be decremented must be known to be positive.                            *)
Inv == TypeOK /\ Accounting /\ OnlyOwnChildren /\ Detached /\ Fresh
         /\ TodoReady /\ TodoIdle /\ SelectOpen /\ Grace

-----------------------------------------------------------------------------
(* Counting.                                                               *)

(* The registered children, and each table of them, are finite sets.       *)
LEMMA TrackedFinite ==
  ASSUME TypeOK
  PROVE  /\ Tracked \in SUBSET Pids
         /\ IsFiniteSet(Tracked)
         /\ Cardinality(Tracked) \in Nat
         /\ \A s \in Servers : /\ pidtab[s] \in SUBSET Tracked
                               /\ IsFiniteSet(pidtab[s])
                               /\ Cardinality(pidtab[s]) \in Nat
<1>1. Tracked \in SUBSET Pids
  BY DEF TypeOK, Tracked
<1>2. IsFiniteSet(Tracked) /\ Cardinality(Tracked) \in Nat
  BY <1>1, PidsAssumption, FS_Subset, FS_CardinalityType
<1>3. ASSUME NEW s \in Servers
      PROVE  /\ pidtab[s] \in SUBSET Tracked
             /\ IsFiniteSet(pidtab[s])
             /\ Cardinality(pidtab[s]) \in Nat
  <2>1. pidtab[s] \in SUBSET Tracked
    BY DEF Tracked
  <2>2. QED
    BY <2>1, <1>2, FS_Subset, FS_CardinalityType
<1>4. QED
  BY <1>1, <1>2, <1>3

(* register_child of a pid that is in no table.                            *)
LEMMA CountRegister ==
  ASSUME TypeOK, Accounting, lost' = lost,
         NEW s \in Servers, NEW p \in Pids, p \notin Tracked,
         register_child(s, p)
  PROVE  /\ Accounting'
         /\ Tracked' = Tracked \cup {p}
         /\ pidtab' \in [Servers -> SUBSET Pids]
         /\ nchild' \in [Servers -> Nat]
         /\ num_children' \in Nat
<1>1. /\ pidtab' = [pidtab EXCEPT ![s] = @ \cup {p}]
      /\ nchild' = [nchild EXCEPT ![s] = @ + 1]
      /\ num_children' = num_children + 1
  BY DEF register_child
<1>2. /\ pidtab' \in [Servers -> SUBSET Pids]
      /\ nchild' \in [Servers -> Nat]
      /\ num_children' \in Nat
  BY <1>1 DEF TypeOK
<1>3. Tracked' = Tracked \cup {p}
  BY <1>1 DEF TypeOK, Tracked
<1>4. \A t \in Servers : nchild'[t] = Cardinality(pidtab'[t])
  <2>1. Cardinality(pidtab[s] \cup {p}) = Cardinality(pidtab[s]) + 1
    <3>1. p \notin pidtab[s]
      BY DEF Tracked
    <3>2. QED
      BY <3>1, TrackedFinite, FS_AddElement
  <2>2. QED
    BY <1>1, <2>1 DEF TypeOK, Accounting
<1>5. \A t, u \in Servers : t # u => pidtab'[t] \cap pidtab'[u] = {}
  BY <1>1 DEF TypeOK, Accounting, Tracked
<1>6. num_children' = Cardinality(Tracked') + lost'
  <2>1. Cardinality(Tracked \cup {p}) = Cardinality(Tracked) + 1
    BY TrackedFinite, FS_AddElement
  <2>2. QED
    BY <1>1, <1>3, <2>1, TrackedFinite DEF TypeOK, Accounting
<1>7. QED
  BY <1>2, <1>3, <1>4, <1>5, <1>6 DEF Accounting

(* unregister_child of a pid that is in the table of server s.             *)
LEMMA CountUnregister ==
  ASSUME TypeOK, Accounting, lost' = lost,
         NEW s \in Servers, NEW p \in pidtab[s],
         pidtab' = [pidtab EXCEPT ![s] = @ \ {p}], Uncount(s)
  PROVE  /\ Accounting'
         /\ Tracked' = Tracked \ {p}
         /\ pidtab' \in [Servers -> SUBSET Pids]
         /\ nchild' \in [Servers -> Nat]
         /\ num_children' \in Nat
<1>1. /\ nchild' = [nchild EXCEPT ![s] = @ - 1]
      /\ num_children' = num_children - 1
  BY DEF Uncount
<1>2. pidtab' \in [Servers -> SUBSET Pids]
  BY DEF TypeOK
<1>3. Tracked' = Tracked \ {p}
  BY DEF TypeOK, Accounting, Tracked
<1>4. Cardinality(pidtab[s] \ {p}) = Cardinality(pidtab[s]) - 1
  BY TrackedFinite, FS_RemoveElement
<1>5. Cardinality(Tracked \ {p}) = Cardinality(Tracked) - 1
  <2>1. p \in Tracked
    BY TrackedFinite
  <2>2. QED
    BY <2>1, TrackedFinite, FS_RemoveElement
<1>6. /\ Cardinality(pidtab[s]) - 1 \in Nat
      /\ Cardinality(Tracked) - 1 \in Nat
  <2>1. IsFiniteSet(pidtab[s] \ {p}) /\ IsFiniteSet(Tracked \ {p})
    BY TrackedFinite, FS_RemoveElement
  <2>2. QED
    BY <1>4, <1>5, <2>1, FS_CardinalityType
<1>7. nchild' \in [Servers -> Nat] /\ num_children' \in Nat
  BY <1>1, <1>6, TrackedFinite DEF TypeOK, Accounting
<1>8. \A t \in Servers : nchild'[t] = Cardinality(pidtab'[t])
  BY <1>1, <1>4 DEF TypeOK, Accounting
<1>9. \A t, u \in Servers : t # u => pidtab'[t] \cap pidtab'[u] = {}
  BY DEF TypeOK, Accounting
<1>10. num_children' = Cardinality(Tracked') + lost'
  BY <1>1, <1>3, <1>5, TrackedFinite DEF TypeOK, Accounting
<1>11. QED
  BY <1>2, <1>3, <1>7, <1>8, <1>9, <1>10 DEF Accounting

(* smap_server_free of server s after a failed accept.                     *)
LEMMA CountFree ==
  ASSUME TypeOK, Accounting,
         NEW s \in Servers,
         pidtab' = [pidtab EXCEPT ![s] = {}],
         nchild' = [nchild EXCEPT ![s] = 0],
         num_children' = num_children,
         lost' = lost + nchild[s]
  PROVE  /\ Accounting'
         /\ Tracked' = Tracked \ pidtab[s]
         /\ pidtab' \in [Servers -> SUBSET Pids]
         /\ nchild' \in [Servers -> Nat]
         /\ lost' \in Nat
<1>1. /\ pidtab' \in [Servers -> SUBSET Pids]
      /\ nchild' \in [Servers -> Nat]
      /\ lost' \in Nat
  BY DEF TypeOK
<1>2. Tracked' = Tracked \ pidtab[s]
  BY DEF TypeOK, Accounting, Tracked
<1>3. Cardinality(Tracked \ pidtab[s]) = Cardinality(Tracked) - nchild[s]
  <2>1. Tracked \cap pidtab[s] = pidtab[s]
    BY TrackedFinite
  <2>2. Cardinality(Tracked \ pidtab[s])
          = Cardinality(Tracked) - Cardinality(Tracked \cap pidtab[s])
    BY TrackedFinite, FS_Difference
  <2>3. QED
    BY <2>1, <2>2 DEF Accounting
<1>4. \A t \in Servers : nchild'[t] = Cardinality(pidtab'[t])
  BY FS_EmptySet DEF TypeOK, Accounting
<1>5. \A t, u \in Servers : t # u => pidtab'[t] \cap pidtab'[u] = {}
  BY DEF TypeOK, Accounting
<1>6. num_children' = Cardinality(Tracked') + lost'
  BY <1>2, <1>3, TrackedFinite DEF TypeOK, Accounting
<1>7. QED
  BY <1>1, <1>2, <1>4, <1>5, <1>6 DEF Accounting
-----------------------------------------------------------------------------
(* The inductive invariant.                                                *)

(* smapd starts in a state that satisfies the invariant.                   *)
LEMMA InitInv == Init => Inv
<1> SUFFICES ASSUME Init PROVE Inv
  OBVIOUS
<1> USE NServersAssumption, TimeoutAssumption, BacklogAssumption DEF Init
<1>1. TypeOK
  <2>1. pending \in [Servers -> 0..Backlog] /\ nchild \in [Servers -> Nat]
    BY DEF Zero
  <2>2. pidtab \in [Servers -> SUBSET Pids]
    BY DEF NoChildren
  <2>3. pc \in PcValues
    BY DEF PcValues
  <2>4. ticks \in 0..Timeout /\ lost \in Nat /\ num_children \in Nat
    OBVIOUS
  <2>5. QED
    BY <2>1, <2>2, <2>3, <2>4 DEF TypeOK
<1>2. Tracked = {}
  BY DEF Tracked, NoChildren
<1>3. Accounting
  BY <1>2, FS_EmptySet DEF Accounting, NoChildren, Zero
<1>4. QED
  BY <1>1, <1>2, <1>3 DEF Inv, OnlyOwnChildren, Detached, Fresh, TodoReady,
     TodoIdle, SelectOpen, Grace

(* Every step of the master and of its environment preserves the           *)
(* invariant, and so does a stuttering step.                               *)
LEMMA StepInv ==
  ASSUME Inv, [Next]_vars
  PROVE  Inv'
<1> USE NServersAssumption, TimeoutAssumption, BacklogAssumption
        DEF loopVars, flagVars, countVars, ghostVars, PcValues, LoopPcs,
            ShutdownPcs, EndPcs
<1>a. TypeOK /\ Accounting /\ OnlyOwnChildren /\ Detached /\ Fresh
         /\ TodoReady /\ TodoIdle /\ SelectOpen /\ Grace
  BY DEF Inv
<1>b. ASSUME UNCHANGED <<pidtab, nchild, num_children, lost>>
      PROVE  Accounting' /\ Tracked' = Tracked
  BY <1>a, <1>b DEF Accounting, Tracked
<1>1. CASE Boot
  <2>1. TypeOK'
    BY <1>a, <1>1 DEF Boot, TypeOK
  <2>2. Accounting' /\ Tracked' = {}
    <3>1. Tracked = {}
      BY <1>a, <1>1 DEF Boot, Fresh, Tracked, NoChildren
    <3>2. QED
      BY <3>1, <1>b, <1>1 DEF Boot
  <2>3. QED
    BY <1>a, <1>1, <2>1, <2>2 DEF Boot, Inv, OnlyOwnChildren, Detached, Fresh,
       TodoReady, TodoIdle, SelectOpen, Grace
<1>2. CASE BootFail
  <2>1. TypeOK'
    BY <1>a, <1>2 DEF BootFail, TypeOK, Grace, SelectOpen
  <2>2. Accounting' /\ Tracked' = Tracked
    BY <1>b, <1>2 DEF BootFail
  <2>3. QED
    BY <1>a, <1>2, <2>1, <2>2 DEF BootFail, TypeOK, Inv, OnlyOwnChildren,
       Children, Detached, Fresh, TodoReady, TodoIdle, SelectOpen,
       Grace
<1>3. CASE ExecFail
  <2>1. TypeOK'
    BY <1>a, <1>3 DEF ExecFail, TypeOK, Grace, SelectOpen
  <2>2. Accounting' /\ Tracked' = Tracked
    BY <1>b, <1>3 DEF ExecFail
  <2>3. QED
    BY <1>a, <1>3, <2>1, <2>2 DEF ExecFail, TypeOK, Inv, OnlyOwnChildren,
       Children, Detached, Fresh, TodoReady, TodoIdle, SelectOpen,
       Grace
<1>4. CASE RunStart
  <2>1. TypeOK'
    BY <1>a, <1>4 DEF RunStart, TypeOK, Grace, SelectOpen
  <2>2. Accounting' /\ Tracked' = Tracked
    BY <1>b, <1>4 DEF RunStart
  <2>3. QED
    BY <1>a, <1>4, <2>1, <2>2 DEF RunStart, TypeOK, Inv, OnlyOwnChildren,
       Children, Detached, Fresh, TodoReady, TodoIdle, SelectOpen,
       Grace
<1>5. CASE LoopInit
  <2>1. TypeOK'
    BY <1>a, <1>5 DEF LoopInit, TypeOK, Grace, SelectOpen
  <2>2. Accounting' /\ Tracked' = Tracked
    BY <1>b, <1>5 DEF LoopInit
  <2>3. QED
    BY <1>a, <1>5, <2>1, <2>2 DEF LoopInit, TypeOK, Inv, OnlyOwnChildren,
       Children, Detached, Fresh, TodoReady, TodoIdle, SelectOpen,
       Grace
<1>6. CASE LoopTop
  <2>1. TypeOK'
    BY <1>a, <1>6 DEF LoopTop, TypeOK, Grace, SelectOpen
  <2>2. Accounting' /\ Tracked' = Tracked
    BY <1>b, <1>6 DEF LoopTop
  <2>3. QED
    BY <1>a, <1>6, <2>1, <2>2 DEF LoopTop, TypeOK, Inv, OnlyOwnChildren,
       Children, Detached, Fresh, TodoReady, TodoIdle, SelectOpen,
       Grace
<1>7. CASE ReapDone
  <2>1. TypeOK'
    BY <1>a, <1>7 DEF ReapDone, TypeOK, Grace, SelectOpen
  <2>2. Accounting' /\ Tracked' = Tracked
    BY <1>b, <1>7 DEF ReapDone
  <2>3. QED
    BY <1>a, <1>7, <2>1, <2>2 DEF ReapDone, TypeOK, Inv, OnlyOwnChildren,
       Children, Detached, Fresh, TodoReady, TodoIdle, SelectOpen,
       Grace
<1>8. CASE compute_fdset
  <2>1. TypeOK'
    BY <1>a, <1>8 DEF compute_fdset, TypeOK, Grace, SelectOpen
  <2>2. Accounting' /\ Tracked' = Tracked
    BY <1>b, <1>8 DEF compute_fdset
  <2>3. QED
    BY <1>a, <1>8, <2>1, <2>2 DEF compute_fdset, TypeOK, Inv, OnlyOwnChildren,
       Children, Detached, Fresh, TodoReady, TodoIdle, SelectOpen,
       Grace
<1>9. CASE CheckLimits
  <2>1. TypeOK'
    BY <1>a, <1>9 DEF CheckLimits, TypeOK, Grace, SelectOpen
  <2>2. Accounting' /\ Tracked' = Tracked
    BY <1>b, <1>9 DEF CheckLimits
  <2>3. QED
    BY <1>a, <1>9, <2>1, <2>2 DEF CheckLimits, TypeOK, Inv, OnlyOwnChildren,
       Children, Detached, Fresh, TodoReady, TodoIdle, SelectOpen,
       Grace
<1>10. CASE SelectReturns
  <2>1. TypeOK'
    BY <1>a, <1>10 DEF SelectReturns, TypeOK, Grace, SelectOpen
  <2>2. Accounting' /\ Tracked' = Tracked
    BY <1>b, <1>10 DEF SelectReturns
  <2>3. QED
    BY <1>a, <1>10, <2>1, <2>2 DEF SelectReturns, TypeOK, Inv, OnlyOwnChildren,
       Children, Detached, Fresh, TodoReady, TodoIdle, SelectOpen,
       Grace
<1>11. CASE ScanDone
  <2>1. TypeOK'
    BY <1>a, <1>11 DEF ScanDone, TypeOK, Grace, SelectOpen
  <2>2. Accounting' /\ Tracked' = Tracked
    BY <1>b, <1>11 DEF ScanDone
  <2>3. QED
    BY <1>a, <1>11, <2>1, <2>2 DEF ScanDone, TypeOK, Inv, OnlyOwnChildren,
       Children, Detached, Fresh, TodoReady, TodoIdle, SelectOpen,
       Grace
<1>12. CASE SessionEnd
  <2>1. TypeOK'
    BY <1>a, <1>12 DEF SessionEnd, TypeOK, Grace, SelectOpen
  <2>2. Accounting' /\ Tracked' = Tracked
    BY <1>b, <1>12 DEF SessionEnd
  <2>3. QED
    BY <1>a, <1>12, <2>1, <2>2 DEF SessionEnd, TypeOK, Inv, OnlyOwnChildren,
       Children, Detached, Fresh, TodoReady, TodoIdle, SelectOpen,
       Grace
<1>13. CASE SigTermChildren
  <2>1. TypeOK'
    BY <1>a, <1>13 DEF SigTermChildren, TypeOK, Grace, SelectOpen
  <2>2. Accounting' /\ Tracked' = Tracked
    BY <1>b, <1>13 DEF SigTermChildren
  <2>3. QED
    BY <1>a, <1>13, <2>1, <2>2 DEF SigTermChildren, TypeOK, Inv, OnlyOwnChildren,
       Children, Detached, Fresh, TodoReady, TodoIdle, SelectOpen,
       Grace
<1>14. CASE ShutdownTurn
  <2>1. TypeOK'
    BY <1>a, <1>14 DEF ShutdownTurn, TypeOK, Grace, SelectOpen, Elapsed
  <2>2. Accounting' /\ Tracked' = Tracked
    BY <1>b, <1>14 DEF ShutdownTurn
  <2>3. QED
    BY <1>a, <1>14, <2>1, <2>2 DEF ShutdownTurn, TypeOK, Inv, OnlyOwnChildren,
       Children, Detached, Fresh, TodoReady, TodoIdle, SelectOpen,
       Grace, Elapsed
<1>15. CASE SigTerm
  <2>1. TypeOK'
    BY <1>a, <1>15 DEF SigTerm, TypeOK, Grace, SelectOpen, Interrupt, Blocked
  <2>2. Accounting' /\ Tracked' = Tracked
    BY <1>b, <1>15 DEF SigTerm
  <2>3. QED
    BY <1>a, <1>15, <2>1, <2>2 DEF SigTerm, TypeOK, Inv, OnlyOwnChildren,
       Children, Detached, Fresh, TodoReady, TodoIdle, SelectOpen,
       Grace, Interrupt, Blocked
<1>16. CASE SigHup
  <2>1. TypeOK'
    BY <1>a, <1>16 DEF SigHup, TypeOK, Grace, SelectOpen, Interrupt, Blocked
  <2>2. Accounting' /\ Tracked' = Tracked
    BY <1>b, <1>16 DEF SigHup
  <2>3. QED
    BY <1>a, <1>16, <2>1, <2>2 DEF SigHup, TypeOK, Inv, OnlyOwnChildren,
       Children, Detached, Fresh, TodoReady, TodoIdle, SelectOpen,
       Grace, Interrupt, Blocked
<1>17. CASE SigKillChildren
  <2>1. TypeOK'
    BY <1>a, <1>17 DEF SigKillChildren, TypeOK, Grace, SelectOpen, Signalled, Zero
  <2>2. Accounting' /\ Tracked' = Tracked
    BY <1>b, <1>17 DEF SigKillChildren
  <2>3. QED
    BY <1>a, <1>17, <2>1, <2>2 DEF SigKillChildren, TypeOK, Inv, OnlyOwnChildren,
       Children, Detached, Fresh, TodoReady, TodoIdle, SelectOpen,
       Grace, Signalled, Zero
<1>18. CASE SessionAbort
  <2>1. TypeOK'
    BY <1>a, <1>18 DEF SessionAbort, TypeOK, Grace, SelectOpen, Zero
  <2>2. Accounting' /\ Tracked' = Tracked
    BY <1>b, <1>18 DEF SessionAbort
  <2>3. QED
    BY <1>a, <1>18, <2>1, <2>2 DEF SessionAbort, TypeOK, Inv, OnlyOwnChildren,
       Children, Detached, Fresh, TodoReady, TodoIdle, SelectOpen,
       Grace, Zero
<1>19. CASE smap_srvman_open
  <2>1. TypeOK'
    BY <1>a, <1>19 DEF smap_srvman_open, TypeOK, TodoIdle
  <2>2. Accounting' /\ Tracked' = Tracked
    BY <1>b, <1>19 DEF smap_srvman_open
  <2>3. \A s \in Servers : pidtab'[s] = {}
    BY <1>a, <1>19 DEF smap_srvman_open, Fresh, NoChildren
  <2>4. QED
    BY <1>a, <1>19, <2>1, <2>2, <2>3 DEF smap_srvman_open, TypeOK, Inv,
       OnlyOwnChildren, Children, Detached, Fresh, TodoReady, TodoIdle,
       SelectOpen, Grace
<1>20. ASSUME NEW p \in Pids, Reap(p) PROVE Inv'
  <2>1. CASE \E s \in attached : p \in pidtab[s]
    <3>1. PICK s \in attached : /\ p \in pidtab[s]
                                /\ pidtab' = [pidtab EXCEPT ![s] = @ \ {p}]
                                /\ rc' = (rc \/ FreedSlot(s))
                                /\ Uncount(s)
      BY <1>20, <2>1 DEF Reap, unregister_child, Tracked, TypeOK, Inv
    <3>2. s \in Servers
      BY <1>a DEF TypeOK
    <3>3. /\ Accounting'
          /\ Tracked' = Tracked \ {p}
          /\ pidtab' \in [Servers -> SUBSET Pids]
          /\ nchild' \in [Servers -> Nat]
          /\ num_children' \in Nat
      BY <1>a, <1>20, <3>1, <3>2, CountUnregister DEF Reap
    <3>4. TypeOK'
      BY <1>a, <1>20, <3>1, <3>3 DEF Reap, TypeOK
    <3>5. Detached' /\ Fresh'
      BY <1>a, <1>20, <3>1, <3>2 DEF Reap, TypeOK, Detached, Fresh
    <3>6. OnlyOwnChildren'
      BY <1>a, <1>20, <3>3 DEF Reap, TypeOK, OnlyOwnChildren, Children
    <3>7. QED
      BY <1>a, <1>20, <3>3, <3>4, <3>5, <3>6 DEF Reap, Inv, TodoReady,
         TodoIdle, SelectOpen, Grace
  <2>2. CASE ~ \E s \in attached : p \in pidtab[s]
    <3>1. p \notin Tracked /\ UNCHANGED <<rc, pidtab, nchild, num_children>>
      BY <1>20, <2>2 DEF Reap, unregister_child
    <3>2. Accounting' /\ Tracked' = Tracked
      BY <1>b, <1>20, <3>1 DEF Reap
    <3>3. TypeOK'
      BY <1>a, <1>20, <3>1 DEF Reap, TypeOK
    <3>4. OnlyOwnChildren'
      BY <1>a, <1>20, <3>1, <3>2 DEF Reap, TypeOK, OnlyOwnChildren, Children
    <3>5. QED
      BY <1>a, <1>20, <3>1, <3>2, <3>3, <3>4 DEF Reap, Inv, Detached, Fresh,
         TodoReady, TodoIdle, SelectOpen, Grace
  <2>3. QED
    BY <2>1, <2>2
<1>21. ASSUME NEW s \in Servers, ScanBusy(s) PROVE Inv'
  <2>1. TypeOK'
    BY <1>a, <1>21 DEF ScanBusy, AtServer, TypeOK, TodoReady
  <2>2. Accounting' /\ Tracked' = Tracked
    BY <1>b, <1>21 DEF ScanBusy
  <2>3. QED
    BY <1>a, <1>21, <2>1, <2>2 DEF ScanBusy, AtServer, TypeOK, Inv,
       OnlyOwnChildren, Children, Detached, Fresh, TodoReady, TodoIdle,
       SelectOpen, Grace
<1>22. ASSUME NEW s \in Servers, ConnDropped(s) PROVE Inv'
  <2>1. TypeOK'
    BY <1>a, <1>22 DEF ConnDropped, AtServer, TypeOK, TodoReady
  <2>2. Accounting' /\ Tracked' = Tracked
    BY <1>b, <1>22 DEF ConnDropped
  <2>3. QED
    BY <1>a, <1>22, <2>1, <2>2 DEF ConnDropped, AtServer, TypeOK, Inv,
       OnlyOwnChildren, Children, Detached, Fresh, TodoReady, TodoIdle,
       SelectOpen, Grace
<1>23. ASSUME NEW s \in Servers, RunSingle(s) PROVE Inv'
  <2>1. TypeOK'
    BY <1>a, <1>23 DEF RunSingle, AtServer, TypeOK, TodoReady
  <2>2. Accounting' /\ Tracked' = Tracked
    BY <1>b, <1>23 DEF RunSingle
  <2>3. QED
    BY <1>a, <1>23, <2>1, <2>2 DEF RunSingle, AtServer, TypeOK, Inv,
       OnlyOwnChildren, Children, Detached, Fresh, TodoReady, TodoIdle,
       SelectOpen, Grace
<1>24. ASSUME NEW s \in Servers, Connect(s) PROVE Inv'
  <2>1. TypeOK'
    BY <1>a, <1>24 DEF Connect, AtServer, TypeOK, TodoReady, Listening
  <2>2. Accounting' /\ Tracked' = Tracked
    BY <1>b, <1>24 DEF Connect
  <2>3. QED
    BY <1>a, <1>24, <2>1, <2>2 DEF Connect, AtServer, TypeOK, Inv,
       OnlyOwnChildren, Children, Detached, Fresh, TodoReady, TodoIdle,
       SelectOpen, Grace, Listening
<1>25. ASSUME NEW s \in Servers, AcceptFail(s) PROVE Inv'
  <2>1. /\ Accounting'
        /\ Tracked' = Tracked \ pidtab[s]
        /\ pidtab' \in [Servers -> SUBSET Pids]
        /\ nchild' \in [Servers -> Nat]
        /\ lost' \in Nat
    BY <1>a, <1>25, CountFree DEF AcceptFail, smap_server_free
  <2>2. TypeOK'
    BY <1>a, <1>25, <2>1 DEF AcceptFail, smap_server_free, AtServer, TypeOK
  <2>3. OnlyOwnChildren' /\ Detached' /\ Fresh'
    BY <1>a, <1>25, <2>1 DEF AcceptFail, smap_server_free, AtServer, TypeOK, OnlyOwnChildren,
       Children, Detached, Fresh
  <2>4. TodoReady' /\ TodoIdle' /\ SelectOpen' /\ Grace'
    BY <1>a, <1>25 DEF AcceptFail, smap_server_free, AtServer, TypeOK, TodoReady, TodoIdle,
       SelectOpen, Grace
  <2>5. QED
    BY <2>1, <2>2, <2>3, <2>4 DEF Inv
<1>26. ASSUME NEW s \in Servers, NEW p \in Pids, Fork(s, p) PROVE Inv'
  <2>1. p \notin Tracked
    BY <1>a, <1>26 DEF Fork, Idle, OnlyOwnChildren, Children
  <2>2. /\ Accounting'
        /\ Tracked' = Tracked \cup {p}
        /\ pidtab' \in [Servers -> SUBSET Pids]
        /\ nchild' \in [Servers -> Nat]
        /\ num_children' \in Nat
    BY <1>a, <1>26, <2>1, CountRegister DEF Fork
  <2>3. TypeOK'
    <3>1. pending' \in [Servers -> 0..Backlog]
      BY <1>a, <1>26 DEF Fork, AtServer, TypeOK, TodoReady
    <3>2. pstate' \in [Pids -> {"free", "run", "zombie", "adopted"}]
      BY <1>a, <1>26 DEF Fork, TypeOK
    <3>3. QED
      BY <1>a, <1>26, <2>2, <3>1, <3>2 DEF Fork, TypeOK
  <2>4. OnlyOwnChildren'
    BY <1>a, <1>26, <2>2 DEF Fork, TypeOK, OnlyOwnChildren, Children
  <2>5. Detached' /\ Fresh'
    BY <1>a, <1>26 DEF Fork, AtServer, register_child, TypeOK, Detached, Fresh
  <2>6. TodoReady' /\ TodoIdle' /\ SelectOpen' /\ Grace'
    BY <1>a, <1>26 DEF Fork, AtServer, TypeOK, TodoReady, TodoIdle,
       SelectOpen, Grace
  <2>7. QED
    BY <2>2, <2>3, <2>4, <2>5, <2>6 DEF Inv
<1>27. CASE smap_srvman_free
  <2>1. TypeOK'
    BY <1>a, <1>27 DEF smap_srvman_free, TypeOK, TodoIdle, NoChildren, Zero
  <2>2. Tracked' = {} /\ \A s \in Servers : pidtab'[s] = {} /\ nchild'[s] = 0
    BY <1>27 DEF smap_srvman_free, Tracked, NoChildren, Zero
  <2>3. Accounting'
    BY <1>a, <1>27, <2>2, FS_EmptySet DEF smap_srvman_free, TypeOK, Accounting
  <2>4. QED
    BY <1>a, <1>27, <2>1, <2>2, <2>3 DEF smap_srvman_free, Inv,
       OnlyOwnChildren, Detached, Fresh, TodoReady, TodoIdle, SelectOpen, Grace
<1>28. CASE Exec
  <2>1. TypeOK'
    <3>1. ticks' \in 0..Timeout /\ num_children' \in Nat /\ lost' \in Nat
      BY <1>28 DEF Exec
    <3>2. /\ attached' \subseteq Servers /\ todo' \subseteq attached'
          /\ fdset' \subseteq Servers \cup {BadFd}
      BY <1>28 DEF Exec
    <3>3. QED
      BY <1>a, <1>28, <3>1, <3>2 DEF Exec, TypeOK
  <2>2. Tracked' = {} /\ \A s \in Servers : pidtab'[s] = {}
    BY <1>a, <1>28 DEF Exec, Fresh, Tracked, NoChildren
  <2>3. Accounting'
    BY <1>a, <1>28, <2>2, FS_EmptySet DEF Exec, TypeOK, Accounting
  <2>4. QED
    BY <1>a, <1>28, <2>1, <2>2, <2>3 DEF Exec, Inv, OnlyOwnChildren, Detached,
       Fresh, TodoReady, TodoIdle, SelectOpen, Grace
<1>29. ASSUME NEW p \in Pids, ChildExit(p) PROVE Inv'
  <2>1. TypeOK'
    BY <1>a, <1>29 DEF ChildExit, TypeOK, Interrupt, Blocked
  <2>2. Accounting' /\ Tracked' = Tracked
    BY <1>b, <1>29 DEF ChildExit
  <2>3. QED
    BY <1>a, <1>29, <2>1, <2>2 DEF ChildExit, Interrupt, Blocked, TypeOK, Inv,
       OnlyOwnChildren, Children, Detached, Fresh, TodoReady, TodoIdle,
       SelectOpen, Grace
<1>30. ASSUME NEW p \in Pids, AdoptedExit(p) PROVE Inv'
  <2>1. TypeOK'
    BY <1>a, <1>30 DEF AdoptedExit, TypeOK
  <2>2. Accounting' /\ Tracked' = Tracked
    BY <1>b, <1>30 DEF AdoptedExit
  <2>3. QED
    BY <1>a, <1>30, <2>1, <2>2 DEF AdoptedExit, TypeOK, Inv, OnlyOwnChildren,
       Children, Detached, Fresh, TodoReady, TodoIdle, SelectOpen, Grace
<1>31. CASE UNCHANGED vars
  <2>1. Accounting' /\ Tracked' = Tracked
    BY <1>b, <1>31 DEF vars
  <2>2. QED
    BY <1>a, <1>31, <2>1 DEF vars, TypeOK, Inv, OnlyOwnChildren, Children,
       Detached, Fresh, TodoReady, TodoIdle, SelectOpen, Grace
<1>32. QED
  BY <1>1, <1>2, <1>3, <1>4, <1>5, <1>6, <1>7, <1>8, <1>9, <1>10, <1>11,
     <1>12, <1>13, <1>14, <1>15, <1>16, <1>17, <1>18, <1>19, <1>20, <1>21,
     <1>22, <1>23, <1>24, <1>25, <1>26, <1>27, <1>28, <1>29, <1>30, <1>31
     DEF Next, Master, Environment

(* The inductive invariant holds of every reachable state: tables,         *)
(* counters, list of servers and control point of srvman.c agree.          *)
THEOREM InvCorrect == Spec => []Inv
<1>1. QED
  BY InitInv, StepInv, PTL DEF Spec

(* Every variable of the server manager keeps its type: in particular no   *)
(* counter of children is ever decremented below zero.                     *)
THEOREM TypeCorrect == Spec => []TypeOK
<1>1. Inv => TypeOK
  BY DEF Inv
<1>2. QED
  BY <1>1, InvCorrect, PTL

(* register_child, unregister_child and smap_server_free keep the books:   *)
(* per-server counters, tables and the global counter agree.               *)
THEOREM AccountingCorrect == Spec => []Accounting
<1>1. Inv => Accounting
  BY DEF Inv
<1>2. QED
  BY <1>1, InvCorrect, PTL

(* No table of children holds the pid of a process that is not a child of  *)
(* the master, so the kill calls of smap_srvman_shutdown never reach a     *)
(* stranger.                                                               *)
THEOREM OwnChildrenCorrect == Spec => []OnlyOwnChildren
<1>1. Inv => OnlyOwnChildren
  BY DEF Inv
<1>2. QED
  BY <1>1, InvCorrect, PTL

-----------------------------------------------------------------------------
(* The per-server limit.                                                   *)

(* server_accept never lets a server exceed its max-children, although the *)
(* descriptor set the loop selects on is stale after every fork.           *)
THEOREM ServerLimitCorrect == Spec => []ServerLimit
<1>1. Init => ServerLimit
  BY MaxOfAssumption DEF Init, ServerLimit, Zero
<1>2. Inv /\ ServerLimit /\ [Next]_vars => ServerLimit'
  <2> SUFFICES ASSUME Inv, ServerLimit, [Next]_vars PROVE ServerLimit'
    OBVIOUS
  <2> USE MaxOfAssumption DEF ServerLimit
  <2>a. TypeOK
    BY DEF Inv
  <2>1. ASSUME NEW p \in Pids, Reap(p) PROVE ServerLimit'
    BY <2>1, <2>a DEF Reap, unregister_child, Uncount, countVars, TypeOK
  <2>2. ASSUME NEW s \in Servers, NEW p \in Pids, Fork(s, p)
        PROVE  ServerLimit'
    BY <2>2, <2>a DEF Fork, register_child, Refuses, Busy, TypeOK
  <2>3. ASSUME NEW s \in Servers, AcceptFail(s) PROVE ServerLimit'
    BY <2>3, <2>a DEF AcceptFail, smap_server_free, TypeOK
  <2>4. CASE smap_srvman_free
    BY <2>4 DEF smap_srvman_free, Zero
  <2>5. CASE UNCHANGED nchild
    BY <2>5
  <2>6. QED
    BY <2>1, <2>2, <2>3, <2>4, <2>5 DEF Next, Master, Environment, vars,
       countVars, Boot, BootFail, smap_srvman_open, RunStart, LoopInit,
       LoopTop, ReapDone, compute_fdset, CheckLimits, SelectReturns, ScanBusy,
       ConnDropped, RunSingle, ScanDone, SigTermChildren, ShutdownTurn,
       SigKillChildren, Exec, ExecFail, SessionEnd, SessionAbort, SigTerm,
       SigHup, ChildExit, AdoptedExit, Connect
<1>3. QED
  BY <1>1, <1>2, InvCorrect, PTL DEF Spec

-----------------------------------------------------------------------------
(* The global limit.                                                       *)

(* There are at most NServers servers in any set of them.                  *)
LEMMA ServerSubset ==
  ASSUME NEW T \in SUBSET Servers
  PROVE  /\ IsFiniteSet(T)
         /\ Cardinality(T) \in Nat
         /\ Cardinality(T) <= NServers
<1>1. IsFiniteSet(Servers) /\ Cardinality(Servers) = NServers
  BY NServersAssumption, FS_Interval DEF Servers
<1>2. QED
  BY <1>1, FS_Subset, FS_CardinalityType

(* GlobalBound alone is not inductive: in the middle of connection_loop    *)
(* each ready server not yet visited may still add a child.                *)
BoundInv ==
  MaxChildren > 0 =>
    /\ num_children + Cardinality(todo) <= MaxChildren - 1 + NServers
    /\ pc = "selecting" => num_children < MaxChildren

(* However many passes the loop makes, the number of counted children      *)
(* exceeds the global max-children by fewer than the number of servers.    *)
THEOREM GlobalBoundCorrect == Spec => []GlobalBound
<1> USE MaxChildrenAssumption, NServersAssumption
<1>1. Init => BoundInv
  BY FS_EmptySet DEF Init, BoundInv
<1>2. Inv /\ BoundInv /\ [Next]_vars => BoundInv'
  <2> SUFFICES ASSUME Inv, BoundInv, [Next]_vars, MaxChildren > 0
               PROVE  BoundInv'
    BY DEF BoundInv
  <2>a. /\ TypeOK /\ Accounting /\ TodoReady
        /\ Cardinality(todo) \in Nat /\ num_children \in Nat
        /\ num_children + Cardinality(todo) <= MaxChildren - 1 + NServers
        /\ pc = "selecting" => num_children < MaxChildren
    <3>1. todo \in SUBSET Servers
      BY DEF Inv, TypeOK
    <3>2. QED
      BY <3>1, ServerSubset DEF Inv, BoundInv, TypeOK
  <2>b. TypeOK'
    BY StepInv DEF Inv
  <2>1. ASSUME NEW p \in Pids, Reap(p) PROVE BoundInv'
    BY <2>1, <2>a DEF Reap, unregister_child, Uncount, countVars, BoundInv
  <2>2. ASSUME NEW s \in todo, todo' = todo \ {s}, pc = "scan",
               num_children' \in {num_children, num_children + 1},
               pc' \in {"scan", "session"}
        PROVE  BoundInv'
    <3>1. Cardinality(todo') = Cardinality(todo) - 1
      <4>1. todo \in SUBSET Servers
        BY <2>a DEF TypeOK
      <4>2. QED
        BY <4>1, <2>2, ServerSubset, FS_RemoveElement
    <3>2. QED
      BY <3>1, <2>2, <2>a DEF BoundInv
  <2>3. ASSUME NEW s \in Servers, ScanBusy(s) PROVE BoundInv'
    BY <2>3, <2>2 DEF ScanBusy, AtServer, countVars
  <2>4. ASSUME NEW s \in Servers, AcceptFail(s) PROVE BoundInv'
    BY <2>4, <2>2 DEF AcceptFail, smap_server_free, AtServer
  <2>5. ASSUME NEW s \in Servers, ConnDropped(s) PROVE BoundInv'
    BY <2>5, <2>2 DEF ConnDropped, AtServer, countVars
  <2>6. ASSUME NEW s \in Servers, RunSingle(s) PROVE BoundInv'
    BY <2>6, <2>2 DEF RunSingle, AtServer, countVars
  <2>7. ASSUME NEW s \in Servers, NEW p \in Pids, Fork(s, p) PROVE BoundInv'
    BY <2>7, <2>2 DEF Fork, AtServer, register_child
  <2>8. CASE SelectReturns
    <3>1. Cardinality(todo') \in Nat /\ Cardinality(todo') <= NServers
      <4>1. todo' \in SUBSET Servers
        BY <2>b DEF TypeOK
      <4>2. QED
        BY <4>1, ServerSubset
    <3>2. QED
      BY <3>1, <2>8, <2>a DEF SelectReturns, countVars, BoundInv
  <2>9. CASE CheckLimits
    BY <2>9, <2>a DEF CheckLimits, TooMany, loopVars, countVars, BoundInv
  <2>10. CASE Exec
    BY <2>10, FS_EmptySet DEF Exec, BoundInv
  <2>11. ASSUME UNCHANGED <<num_children, todo>>, pc' = "selecting" => pc' = pc
         PROVE  BoundInv'
    BY <2>11, <2>a DEF BoundInv
  <2>12. QED
    BY <2>1, <2>3, <2>4, <2>5, <2>6, <2>7, <2>8, <2>9, <2>10, <2>11
       DEF Next, Master, Environment, vars, loopVars,
       countVars, Boot, BootFail, smap_srvman_open, RunStart, LoopInit,
       LoopTop, ReapDone, compute_fdset, ScanDone, SigTermChildren,
       ShutdownTurn, SigKillChildren, smap_srvman_free, ExecFail, SessionEnd,
       SessionAbort, SigTerm, SigHup, ChildExit, AdoptedExit, Connect,
       Interrupt
<1>3. Inv /\ BoundInv => GlobalBound
  <2>1. Inv => todo \in SUBSET Servers /\ num_children \in Nat
    BY DEF Inv, TypeOK
  <2>2. QED
    BY <2>1, ServerSubset DEF BoundInv, GlobalBound
<1>4. QED
  BY <1>1, <1>2, <1>3, InvCorrect, PTL DEF Spec

-----------------------------------------------------------------------------
(* The main loop and the shutdown: the master never overlooks a child or a *)
(* server, never pauses without a child that will wake it, and leaves no   *)
(* child behind.                                                           *)

-----------------------------------------------------------------------------
(* The flag set by the SIGCHLD handler.                                    *)

(* While the loop of smap_srvman_run is at work, a registered child that   *)
(* has ended is never forgotten: resetting need_cleanup before the calls   *)
(* of waitpid, not after them, leaves no moment at which a SIGCHLD is      *)
(* lost.                                                                   *)
THEOREM ZombieNoticedCorrect == Spec => []ZombieNoticed
<1>1. Init => ZombieNoticed
  BY DEF Init, ZombieNoticed, LoopPcs
<1>2. Inv /\ ZombieNoticed /\ [Next]_vars => ZombieNoticed'
  <2> SUFFICES ASSUME Inv, ZombieNoticed, [Next]_vars PROVE ZombieNoticed'
    OBVIOUS
  <2> USE DEF loopVars, flagVars, countVars, ghostVars
  <2>a. TypeOK /\ Fresh /\ OnlyOwnChildren
    BY DEF Inv
  <2>b. ASSUME UNCHANGED <<pidtab, pstate, need_cleanup>>,
               pc' \in LoopPcs \ {"reap"} => pc \in LoopPcs \ {"reap"}
        PROVE  ZombieNoticed'
    BY <2>b DEF ZombieNoticed, Tracked, Zombies
  <2>1. CASE Boot
    BY <2>1 DEF Boot, ZombieNoticed, LoopPcs
  <2>2. CASE RunStart
    <3>1. Tracked' = {}
      BY <2>2, <2>a DEF RunStart, Fresh, NoChildren, Tracked
    <3>2. QED
      BY <3>1 DEF ZombieNoticed
  <2>3. CASE LoopTop
    <3>1. CASE need_cleanup /\ pc' = "reap"
      BY <3>1 DEF ZombieNoticed
    <3>2. CASE ~(need_cleanup /\ pc' = "reap")
      BY <2>3, <2>b, <3>2 DEF LoopTop, LoopPcs
    <3>3. QED
      BY <3>1, <3>2
  <2>4. ASSUME NEW p \in Pids, Reap(p) PROVE ZombieNoticed'
    BY <2>4 DEF Reap, ZombieNoticed, LoopPcs
  <2>5. CASE ReapDone
    <3>1. Zombies' = {}
      BY <2>5 DEF ReapDone, Zombies
    <3>2. QED
      BY <3>1 DEF ZombieNoticed
  <2>6. ASSUME NEW s \in Servers, AcceptFail(s) PROVE ZombieNoticed'
    <3>1. Tracked' \subseteq Tracked /\ Zombies' = Zombies
      BY <2>6, <2>a DEF AcceptFail, smap_server_free, Tracked, Zombies, TypeOK
    <3>2. QED
      BY <2>6, <3>1 DEF AcceptFail, ZombieNoticed
  <2>7. ASSUME NEW s \in Servers, NEW p \in Pids, Fork(s, p)
        PROVE  ZombieNoticed'
    <3>1. Tracked' \subseteq Tracked \cup {p}
      BY <2>7, <2>a DEF Fork, register_child, Tracked, TypeOK
    <3>2. Zombies' = Zombies /\ p \notin Zombies
      BY <2>7, <2>a DEF Fork, Idle, Zombies, TypeOK
    <3>3. QED
      BY <2>7, <3>1, <3>2 DEF Fork, ZombieNoticed
  <2>8. CASE smap_srvman_free
    BY <2>8 DEF smap_srvman_free, ZombieNoticed, LoopPcs
  <2>9. CASE Exec
    BY <2>9 DEF Exec, ZombieNoticed, LoopPcs
  <2>10. ASSUME NEW p \in Pids, ChildExit(p) PROVE ZombieNoticed'
    <3>1. pc' \in LoopPcs => pc \in LoopPcs
      BY <2>10 DEF ChildExit, Interrupt, Blocked, LoopPcs
    <3>2. QED
      BY <2>10, <3>1 DEF ChildExit, ZombieNoticed
  <2>11. ASSUME NEW p \in Pids, AdoptedExit(p) PROVE ZombieNoticed'
    <3>1. Tracked' = Tracked /\ Zombies' = Zombies
      BY <2>11, <2>a DEF AdoptedExit, Tracked, Zombies, TypeOK
    <3>2. QED
      BY <2>11, <3>1 DEF AdoptedExit, ZombieNoticed
  <2>12. CASE SigTerm \/ SigHup
    BY <2>12, <2>b DEF SigTerm, SigHup, Interrupt, Blocked, LoopPcs
  <2>13. QED
    BY <2>b, <2>1, <2>2, <2>3, <2>4, <2>5, <2>6, <2>7, <2>8, <2>9, <2>10,
       <2>11, <2>12
       DEF Next, Master, Environment, vars, LoopPcs, BootFail,
       smap_srvman_open, LoopInit, compute_fdset, CheckLimits, SelectReturns,
       AtServer, ScanBusy, ConnDropped, RunSingle, ScanDone, SigTermChildren,
       ShutdownTurn, SigKillChildren, ExecFail, SessionEnd, SessionAbort,
       Connect
<1>3. QED
  BY <1>1, <1>2, InvCorrect, PTL DEF Spec

-----------------------------------------------------------------------------
(* The shutdown.                                                           *)

(* NoSurvivors speaks of two control points; behind it stands that at no   *)
(* other one a child is unaccounted for: it is in a table, or has been     *)
(* killed, or has lost its server.                                         *)
SurvivorInv ==
  /\ Children \subseteq Tracked \cup killed \cup orphans
  /\ pc = "free" => Tracked \subseteq killed

(* smap_srvman_shutdown leaves no running child without SIGKILL unless     *)
(* smap_server_free had dropped its table, in this life of the daemon or,  *)
(* in the foreground, in an earlier one.                                   *)
THEOREM NoSurvivorsCorrect == Spec => []NoSurvivors
<1>1. Init => SurvivorInv
  BY DEF Init, SurvivorInv, Children
<1>2. Inv /\ SurvivorInv /\ [Next]_vars => SurvivorInv'
  <2> SUFFICES ASSUME Inv, SurvivorInv, [Next]_vars PROVE SurvivorInv'
    OBVIOUS
  <2> USE DEF loopVars, flagVars, countVars, ghostVars
  <2>a. TypeOK /\ Fresh /\ OnlyOwnChildren /\ Detached /\ Accounting
    BY DEF Inv
  <2>b. ASSUME UNCHANGED <<pidtab, pstate, killed, orphans>>,
               pc' = "free" => pc = "free"
        PROVE  SurvivorInv'
    BY <2>b DEF SurvivorInv, Tracked, Children
  <2>1. CASE Boot
    <3>1. CASE Foreground
      BY <2>1, <2>b, <3>1 DEF Boot
    <3>2. CASE ~Foreground
      <4>1. ASSUME NEW p \in Pids PROVE pstate'[p] \notin {"run", "zombie"}
        <5>1. pstate[p] \in {"free", "run", "zombie", "adopted"}
          BY <2>a DEF TypeOK
        <5>2. QED
          BY <2>1, <3>2, <5>1 DEF Boot
      <4>2. Children' = {}
        BY <4>1 DEF Children
      <4>3. QED
        BY <2>1, <4>2 DEF Boot, SurvivorInv
    <3>3. QED
      BY <3>1, <3>2
  <2>2. ASSUME NEW p \in Pids, Reap(p) PROVE SurvivorInv'
    <3>1. Tracked \ {p} \subseteq Tracked'
      BY <2>2, <2>a DEF Reap, unregister_child, Tracked, TypeOK
    <3>2. Children' = Children \ {p}
      BY <2>2, <2>a DEF Reap, Children, TypeOK
    <3>3. QED
      BY <2>2, <3>1, <3>2 DEF Reap, SurvivorInv
  <2>3. ASSUME NEW s \in Servers, AcceptFail(s) PROVE SurvivorInv'
    <3>1. Tracked \subseteq Tracked' \cup orphans' /\ orphans \subseteq orphans'
      BY <2>3, <2>a DEF AcceptFail, smap_server_free, Tracked, TypeOK
    <3>2. Children' = Children
      BY <2>3 DEF AcceptFail, Children
    <3>3. QED
      BY <2>3, <3>1, <3>2 DEF AcceptFail, AtServer, SurvivorInv
  <2>4. ASSUME NEW s \in Servers, NEW p \in Pids, Fork(s, p) PROVE SurvivorInv'
    <3>1. Tracked \cup {p} \subseteq Tracked'
      BY <2>4, <2>a DEF Fork, register_child, Tracked, TypeOK
    <3>2. Children' = Children \cup {p}
      BY <2>4, <2>a DEF Fork, Children, TypeOK
    <3>3. QED
      BY <2>4, <3>1, <3>2 DEF Fork, AtServer, SurvivorInv
  <2>5. CASE SigKillChildren
    <3>1. Tracked \subseteq Signalled
      BY <2>a DEF Tracked, Signalled, Detached
    <3>2. Tracked' = Tracked /\ Children' = Children
      BY <2>5 DEF SigKillChildren, Tracked, Children
    <3>3. QED
      BY <2>5, <3>1, <3>2 DEF SigKillChildren, SurvivorInv
  <2>6. CASE smap_srvman_free
    <3>1. Children' = Children
      BY <2>6 DEF smap_srvman_free, Children
    <3>2. QED
      BY <2>6, <3>1 DEF smap_srvman_free, SurvivorInv
  <2>7. ASSUME NEW p \in Pids, ChildExit(p) PROVE SurvivorInv'
    <3>1. Children' = Children
      BY <2>7, <2>a DEF ChildExit, Children, TypeOK
    <3>2. Tracked' = Tracked
      BY <2>7 DEF ChildExit, Tracked
    <3>3. QED
      BY <2>7, <3>1, <3>2 DEF ChildExit, Interrupt, SurvivorInv
  <2>8. ASSUME NEW p \in Pids, AdoptedExit(p) PROVE SurvivorInv'
    <3>1. Children' = Children
      BY <2>8, <2>a DEF AdoptedExit, Children, TypeOK
    <3>2. Tracked' = Tracked
      BY <2>8 DEF AdoptedExit, Tracked
    <3>3. QED
      BY <2>8, <3>1, <3>2 DEF AdoptedExit, SurvivorInv
  <2>9. QED
    BY <2>b, <2>1, <2>2, <2>3, <2>4, <2>5, <2>6, <2>7, <2>8
       DEF Next, Master, Environment, vars, BootFail, smap_srvman_open,
       RunStart, LoopInit, LoopTop, ReapDone, compute_fdset, CheckLimits,
       SelectReturns, ScanBusy, ConnDropped, RunSingle, ScanDone,
       SigTermChildren, ShutdownTurn, Exec, ExecFail, SessionEnd,
       SessionAbort, SigTerm, SigHup, Interrupt, Connect
<1>3. Inv /\ SurvivorInv => NoSurvivors
  <2> SUFFICES ASSUME Inv, SurvivorInv, pc \in {"free", "exec"}
               PROVE  {p \in Pids : pstate[p] = "run"} \subseteq killed \cup orphans
    BY DEF NoSurvivors
  <2>1. Tracked \subseteq killed
    BY DEF Inv, Fresh, NoChildren, Tracked, SurvivorInv
  <2>2. QED
    BY <2>1 DEF SurvivorInv, Children
<1>4. QED
  BY <1>1, <1>2, <1>3, InvCorrect, PTL DEF Spec

-----------------------------------------------------------------------------
(* The pause at the global limit.                                          *)

(* The children that smap_server_free would drop if every server still to  *)
(* be visited failed in accept.                                            *)
Exposed == UNION {pidtab[s] : s \in todo}

(* What smap_server_free has leaked, and what it may leak before the pass  *)
(* of connection_loop ends, stays below the limit: the pass was begun with *)
(* fewer children than that, and a server that forks is not visited again. *)
LeakInv ==
  /\ pc \in {"boot", "open", "run"} => lost = 0
  /\ MaxChildren > 0 /\ pc \in LoopPcs
       => lost + Cardinality(Exposed) < MaxChildren
  /\ MaxChildren > 0 /\ pc = "selecting" => num_children < MaxChildren
  /\ pc = "pause_max" => MaxChildren > 0 /\ num_children >= MaxChildren

(* Sets of pids are finite, and a part is no larger than the whole.        *)
LEMMA PidSubset ==
  ASSUME NEW T \in SUBSET Pids, NEW S \in SUBSET T
  PROVE  /\ IsFiniteSet(S)
         /\ Cardinality(S) \in Nat /\ Cardinality(T) \in Nat
         /\ Cardinality(S) <= Cardinality(T)
BY PidsAssumption, FS_Subset, FS_CardinalityType

(* Once a server has been visited its children are exposed no more.        *)
LEMMA ExposedShrinks ==
  ASSUME TypeOK, TypeOK', Accounting, NEW s \in todo,
         todo' = todo \ {s},
         \A t \in Servers \ {s} : pidtab'[t] = pidtab[t]
  PROVE  Cardinality(Exposed') + Cardinality(pidtab[s]) = Cardinality(Exposed)
<1>0. s \in Servers /\ todo \subseteq Servers
  BY DEF TypeOK
<1>1. Exposed' = Exposed \ pidtab[s]
  <2>1. Exposed' = UNION {pidtab[t] : t \in todo \ {s}}
    BY <1>0 DEF Exposed
  <2>2. \A t \in todo \ {s} : pidtab[t] \cap pidtab[s] = {}
    BY <1>0 DEF Accounting
  <2>3. QED
    BY <2>1, <2>2 DEF Exposed
<1>2. Exposed \cap pidtab[s] = pidtab[s]
  BY DEF Exposed
<1>3. Exposed \in SUBSET Pids /\ pidtab[s] \in SUBSET Pids
  BY <1>0 DEF Exposed, TypeOK
<1>4. /\ IsFiniteSet(Exposed) /\ Cardinality(Exposed) \in Nat
      /\ Cardinality(pidtab[s]) \in Nat
  BY <1>3, PidSubset
<1>5. Cardinality(Exposed \ pidtab[s])
        = Cardinality(Exposed) - Cardinality(Exposed \cap pidtab[s])
  BY <1>4, FS_Difference
<1>6. Cardinality(Exposed') = Cardinality(Exposed) - Cardinality(pidtab[s])
  BY <1>1, <1>2, <1>5, Zenon
<1>7. QED
  BY <1>4, <1>6

(* Whenever the master pauses because of max-children, a registered child  *)
(* is running or its end has been noted in need_cleanup, although every    *)
(* failed accept leaks its server's share of the global counter.           *)
THEOREM PauseHasChildCorrect == Spec => []PauseHasChild
<1> USE MaxChildrenAssumption
<1>1. Init => LeakInv
  BY DEF Init, LeakInv, LoopPcs
<1>2. Inv /\ LeakInv /\ [Next]_vars => LeakInv'
  <2> SUFFICES ASSUME Inv, LeakInv, [Next]_vars PROVE LeakInv'
    OBVIOUS
  <2> USE DEF loopVars, flagVars, countVars, ghostVars
  <2>a. TypeOK /\ Fresh /\ Accounting /\ TodoIdle
    BY DEF Inv
  <2>b. TypeOK' /\ Accounting' /\ TodoIdle'
    BY StepInv DEF Inv
  <2>c. /\ lost \in Nat /\ num_children \in Nat
        /\ Cardinality(Tracked) \in Nat
        /\ num_children = Cardinality(Tracked) + lost
    BY <2>a, TrackedFinite DEF TypeOK, Accounting
  <2>g. Cardinality(Exposed) \in Nat
    <3>1. Exposed \in SUBSET Pids
      BY <2>a DEF Exposed, TypeOK
    <3>2. QED
      BY <3>1, PidSubset
  <2>h. /\ Cardinality(Exposed') \in Nat
        /\ Cardinality(Exposed') <= Cardinality(Tracked')
    <3>1. Tracked' \in SUBSET Pids /\ Exposed' \in SUBSET Tracked'
      BY <2>b DEF Exposed, Tracked, TypeOK
    <3>2. QED
      BY <3>1, PidSubset
  <2>d. ASSUME UNCHANGED <<pidtab, todo, lost, num_children>>,
               pc' \in LoopPcs => pc \in LoopPcs,
               pc' \in {"boot", "open", "run"} => pc \in {"boot", "open", "run"},
               pc' = "selecting" => pc = "selecting",
               pc' = "pause_max" => pc = "pause_max"
        PROVE  LeakInv'
    BY <2>d DEF LeakInv, Exposed
  <2>e. ASSUME todo = {} PROVE Exposed = {} /\ Cardinality(Exposed) = 0
    BY <2>e, FS_EmptySet DEF Exposed
  <2>f. ASSUME todo' = {} PROVE Exposed' = {} /\ Cardinality(Exposed') = 0
    BY <2>f, FS_EmptySet DEF Exposed
  <2>1. CASE RunStart
    BY <2>1, <2>a, <2>b, <2>f DEF RunStart, LeakInv, TodoIdle, LoopPcs
  <2>2. CASE LoopTop \/ LoopInit
    BY <2>2, <2>d DEF LoopTop, LoopInit, LoopPcs
  <2>3. ASSUME NEW p \in Pids, Reap(p) PROVE LeakInv'
    BY <2>3, <2>a, <2>e, <2>b, <2>f DEF Reap, LeakInv, TodoIdle, LoopPcs
  <2>4. CASE CheckLimits
    <3>1. /\ pc' \in {"pause_fds", "pause_max", "sigterm", "selecting"}
          /\ pc' = "pause_max" => TooMany
          /\ pc' = "selecting" => ~TooMany
      BY <2>4 DEF CheckLimits
    <3>2. Exposed' = Exposed
      BY <2>4 DEF CheckLimits, Exposed
    <3>3. QED
      BY <2>4, <2>c, <3>1, <3>2 DEF CheckLimits, LeakInv, TooMany, LoopPcs
  <2>5. CASE SelectReturns
    <3>1. Tracked' = Tracked
      BY <2>5 DEF SelectReturns, Tracked
    <3>2. QED
      BY <2>5, <2>c, <2>h, <3>1 DEF SelectReturns, LeakInv, LoopPcs
  <2>6. ASSUME NEW s \in Servers, AtServer(s), todo' = todo \ {s},
               \A t \in Servers \ {s} : pidtab'[t] = pidtab[t],
               lost' \in {lost, lost + nchild[s]},
               pc' \in {"scan", "session"}
        PROVE  LeakInv'
    <3>1. Cardinality(Exposed') + Cardinality(pidtab[s]) = Cardinality(Exposed)
      BY <2>6, <2>a, <2>b, ExposedShrinks DEF AtServer
    <3>2. nchild[s] = Cardinality(pidtab[s]) /\ nchild[s] \in Nat
      BY <2>a DEF Accounting, TypeOK
    <3>3. QED
      BY <2>6, <2>c, <2>g, <2>h, <3>1, <3>2 DEF AtServer, LeakInv, LoopPcs
  <2>7. ASSUME NEW s \in Servers,
               ScanBusy(s) \/ ConnDropped(s) \/ RunSingle(s)
        PROVE  LeakInv'
    BY <2>6, <2>7 DEF ScanBusy, ConnDropped, RunSingle, AtServer
  <2>8. ASSUME NEW s \in Servers, AcceptFail(s) PROVE LeakInv'
    <3>1. \A t \in Servers \ {s} : pidtab'[t] = pidtab[t]
      BY <2>8, <2>a DEF AcceptFail, smap_server_free, TypeOK
    <3>2. QED
      BY <2>6, <2>8, <3>1 DEF AcceptFail, smap_server_free, AtServer
  <2>9. ASSUME NEW s \in Servers, NEW p \in Pids, Fork(s, p) PROVE LeakInv'
    <3>1. \A t \in Servers \ {s} : pidtab'[t] = pidtab[t]
      BY <2>9, <2>a DEF Fork, register_child, TypeOK
    <3>2. QED
      BY <2>6, <2>9, <3>1 DEF Fork, AtServer
  <2>10. CASE Exec \/ smap_srvman_free
    BY <2>10 DEF Exec, smap_srvman_free, LeakInv, LoopPcs
  <2>11. CASE SigTerm \/ SigHup
    BY <2>11, <2>d DEF SigTerm, SigHup, Interrupt, Blocked, LoopPcs
  <2>12. ASSUME NEW p \in Pids, ChildExit(p) PROVE LeakInv'
    BY <2>12, <2>d DEF ChildExit, Interrupt, Blocked, LoopPcs
  <2>13. QED
    BY <2>d, <2>1, <2>2, <2>3, <2>4, <2>5, <2>7, <2>8, <2>9, <2>10, <2>11,
       <2>12
       DEF Next, Master, Environment, vars, LoopPcs, Boot, BootFail,
       smap_srvman_open, ReapDone, compute_fdset, ScanDone, SigTermChildren,
       ShutdownTurn, SigKillChildren, ExecFail, SessionEnd, SessionAbort,
       AdoptedExit, Connect
<1>3. Inv /\ LeakInv /\ ZombieNoticed => PauseHasChild
  <2> SUFFICES ASSUME Inv, LeakInv, ZombieNoticed, pc = "pause_max"
               PROVE  \E p \in Tracked : \/ pstate[p] = "run"
                                         \/ pstate[p] = "zombie" /\ need_cleanup
    BY DEF PauseHasChild
  <2>1. TypeOK /\ Accounting /\ OnlyOwnChildren
    BY DEF Inv
  <2>2. ASSUME Tracked = {} PROVE FALSE
    <3>1. num_children = lost /\ lost \in Nat
      BY <2>1, <2>2, FS_EmptySet DEF Accounting, TypeOK
    <3>2. Cardinality(Exposed) \in Nat
      <4>1. Exposed \in SUBSET Pids
        BY <2>1 DEF Exposed, TypeOK
      <4>2. QED
        BY <4>1, PidSubset
    <3>3. QED
      BY <3>1, <3>2 DEF LeakInv, LoopPcs
  <2>3. PICK p \in Tracked : p \in Children
    BY <2>1, <2>2 DEF OnlyOwnChildren
  <2>4. p \in Pids /\ pstate[p] \in {"run", "zombie"}
    BY <2>3 DEF Children
  <2>5. pstate[p] = "zombie" => need_cleanup
    BY <2>3, <2>4 DEF ZombieNoticed, Zombies, LoopPcs
  <2>6. QED
    BY <2>3, <2>4, <2>5
<1>4. QED
  BY <1>1, <1>2, <1>3, InvCorrect, ZombieNoticedCorrect, PTL DEF Spec

-----------------------------------------------------------------------------
(* The set of descriptors.                                                 *)

(* The set the loop selects on has every server that may accept.           *)
Covered ==
  /\ maxfd # "unset"
  /\ maxfd = "zero" => fdset = {}
  /\ \A s \in attached : Busy(s) \/ s \in fdset

(* Where the set may be out of date, and the flag that says so.  The path  *)
(* around the first compute_fdset would need a child before the first      *)
(* fork.                                                                   *)
WatchInv ==
  /\ pc \in {"boot", "open", "run", "loop_init"} => ~need_cleanup
  /\ pc \in {"open", "run", "loop_init"} => Children = {}
  /\ pc = "loop_init" => recompute
  /\ pc = "top" => Covered \/ (recompute /\ ~need_cleanup /\ Children = {})
  /\ pc = "reap" => Covered \/ rc
  /\ pc = "compute" => Covered \/ recompute
  /\ pc \in {"limits", "pause_fds", "pause_max", "selecting", "scan",
             "session"} => Covered
  /\ pc = "pause_fds" => maxfd = "zero"

(* A daemon that is not run in the foreground never blocks while a server  *)
(* that may accept is not watched: children_cleanup reports every slot it  *)
(* frees in time for compute_fdset.                                        *)
THEOREM NoDeafServerCorrect == Spec => []NoDeafServer
<1>1. CASE Foreground
  <2>1. NoDeafServer
    BY <1>1 DEF NoDeafServer
  <2>2. QED
    BY <2>1, PTL
<1>2. CASE ~Foreground
  <2>1. Init => WatchInv
    BY DEF Init, WatchInv
  <2>2. Inv /\ WatchInv /\ [Next]_vars => WatchInv'
    <3> SUFFICES ASSUME Inv, WatchInv, [Next]_vars PROVE WatchInv'
      OBVIOUS
    <3> USE DEF loopVars, flagVars, countVars, ghostVars
    <3>a. TypeOK /\ Accounting /\ OnlyOwnChildren
      BY DEF Inv
    <3>b. TypeOK'
      BY StepInv DEF Inv
    <3>c. ASSUME UNCHANGED <<attached, fdset, maxfd, nchild>>
          PROVE  Covered' = Covered
      BY <3>c DEF Covered, Busy
    <3>d. ASSUME UNCHANGED pstate PROVE Children' = Children
      BY <3>d DEF Children
    <3>1. CASE Boot
      <4>1. ASSUME NEW p \in Pids PROVE pstate'[p] \notin {"run", "zombie"}
        <5>1. pstate[p] \in {"free", "run", "zombie", "adopted"}
          BY <3>a DEF TypeOK
        <5>2. QED
          BY <1>2, <3>1, <5>1 DEF Boot
      <4>2. Children' = {}
        BY <4>1 DEF Children
      <4>3. QED
        BY <3>1, <4>2 DEF Boot, WatchInv
    <3>2. CASE BootFail \/ ExecFail \/ smap_srvman_open
      BY <3>2, <3>d DEF BootFail, ExecFail, smap_srvman_open, WatchInv
    <3>3. CASE RunStart
      BY <3>3, <3>d DEF RunStart, WatchInv
    <3>4. CASE LoopInit
      BY <3>4, <3>d DEF LoopInit, WatchInv
    <3>5. CASE LoopTop
      BY <3>5, <3>c, <3>d DEF LoopTop, WatchInv
    <3>6. ASSUME NEW p \in Pids, Reap(p) PROVE WatchInv'
      <4>1. pc' = pc /\ pc \in {"reap", "sh_reap"}
        BY <3>6 DEF Reap
      <4>2. CASE \E s \in attached : p \in pidtab[s] /\ rc' = (rc \/ FreedSlot(s))
                                      /\ Uncount(s)
        <5>1. PICK s \in attached : rc' = (rc \/ FreedSlot(s)) /\ Uncount(s)
          BY <4>2
        <5>2. CASE Busy(s)
          BY <4>1, <5>1, <5>2 DEF FreedSlot, WatchInv
        <5>3. CASE ~Busy(s)
          <6>1. \A t \in attached : Busy(t) => Busy(t)'
            BY <5>1, <5>3, <3>a, <3>b DEF Uncount, Busy, TypeOK
          <6>2. Covered => Covered'
            BY <3>6, <6>1 DEF Reap, Covered
          <6>3. QED
            BY <4>1, <5>1, <6>2 DEF WatchInv
        <5>4. QED
          BY <5>2, <5>3
      <4>3. CASE UNCHANGED <<rc, countVars>>
        <5>1. Covered' = Covered
          BY <3>6, <3>c, <4>3 DEF Reap
        <5>2. QED
          BY <4>1, <4>3, <5>1 DEF WatchInv
      <4>4. QED
        BY <3>6, <4>2, <4>3 DEF Reap, unregister_child
    <3>7. CASE ReapDone
      BY <3>7, <3>c DEF ReapDone, WatchInv
    <3>8. CASE compute_fdset
      <4>1. CASE recompute
        <5>1. /\ fdset' = {s \in attached : ~Busy(s)}
              /\ maxfd' = IF \A s \in attached : Busy(s) THEN "zero" ELSE "positive"
          BY <3>8, <4>1 DEF compute_fdset
        <5>2. attached' = attached /\ \A s \in attached : Busy(s)' = Busy(s)
          BY <3>8 DEF compute_fdset, Busy
        <5>3. Covered'
          BY <5>1, <5>2 DEF Covered
        <5>4. QED
          BY <3>8, <5>3 DEF compute_fdset, WatchInv
      <4>2. CASE ~recompute
        <5>1. maxfd # "unset" /\ Covered
          BY <3>8, <4>2 DEF compute_fdset, WatchInv, Covered
        <5>2. UNCHANGED <<attached, fdset, maxfd, nchild>>
          BY <3>8, <4>2, <5>1 DEF compute_fdset
        <5>3. QED
          BY <3>8, <3>c, <5>1, <5>2 DEF compute_fdset, WatchInv
      <4>3. QED
        BY <4>1, <4>2
    <3>9. CASE CheckLimits
      <4>1. /\ pc' \in {"pause_fds", "pause_max", "sigterm", "selecting"}
            /\ pc' = "pause_fds" => maxfd = "zero"
        BY <3>9 DEF CheckLimits
      <4>2. QED
        BY <3>9, <3>c, <4>1 DEF CheckLimits, WatchInv
    <3>10. CASE SelectReturns \/ SessionEnd \/ ScanDone
      BY <3>10, <3>c DEF SelectReturns, SessionEnd, ScanDone, WatchInv
    <3>11. ASSUME NEW s \in Servers,
                  ScanBusy(s) \/ ConnDropped(s) \/ RunSingle(s)
           PROVE  WatchInv'
      BY <3>11, <3>c DEF ScanBusy, ConnDropped, RunSingle, AtServer, WatchInv
    <3>12. ASSUME NEW s \in Servers, AcceptFail(s) PROVE WatchInv'
      <4>1. \A t \in attached' : t \in attached /\ nchild'[t] = nchild[t]
        BY <3>12, <3>a DEF AcceptFail, smap_server_free, TypeOK
      <4>2. Covered => Covered'
        BY <3>12, <4>1 DEF AcceptFail, Covered, Busy
      <4>3. QED
        BY <3>12, <4>2 DEF AcceptFail, AtServer, WatchInv
    <3>13. ASSUME NEW s \in Servers, NEW p \in Pids, Fork(s, p) PROVE WatchInv'
      <4>1. \A t \in attached : nchild[t] \in Nat /\ MaxOf[t] \in Nat
                                 /\ nchild'[t] \in {nchild[t], nchild[t] + 1}
        BY <3>13, <3>a, MaxOfAssumption DEF Fork, register_child, TypeOK
      <4>2. \A t \in attached : Busy(t) => Busy(t)'
        BY <4>1 DEF Busy
      <4>3. Covered => Covered'
        BY <3>13, <4>2 DEF Fork, Covered
      <4>4. QED
        BY <3>13, <4>3 DEF Fork, AtServer, WatchInv
    <3>14. CASE SigTermChildren \/ ShutdownTurn \/ SigKillChildren
                \/ smap_srvman_free \/ SessionAbort
      BY <3>14 DEF SigTermChildren, ShutdownTurn, SigKillChildren,
         smap_srvman_free, SessionAbort, WatchInv
    <3>15. CASE Exec
      BY <3>15 DEF Exec, WatchInv
    <3>16. CASE SigTerm \/ SigHup
      <4>1. /\ Covered' = Covered /\ Children' = Children
            /\ UNCHANGED <<maxfd, rc, need_cleanup>>
        BY <3>16, <3>c, <3>d DEF SigTerm, SigHup
      <4>2. CASE pc = "boot" /\ pc' = "killed"
        BY <4>1, <4>2 DEF WatchInv
      <4>3. CASE Interrupt /\ pc \notin Blocked
        <5>1. pc' = pc /\ (recompute => recompute')
          BY <4>3 DEF Interrupt
        <5>2. QED
          BY <4>1, <5>1 DEF WatchInv
      <4>4. CASE Interrupt /\ pc \in Blocked
        <5>1. pc' = "top" /\ Covered
          BY <4>4 DEF Interrupt, Blocked, WatchInv
        <5>2. QED
          BY <4>1, <5>1 DEF WatchInv
      <4>5. QED
        BY <3>16, <4>2, <4>3, <4>4 DEF SigTerm, SigHup
    <3>17. ASSUME NEW p \in Pids, ChildExit(p) PROVE WatchInv'
      <4>1. Children # {}
        BY <3>17 DEF ChildExit, Children
      <4>2. QED
        BY <3>17, <3>c, <4>1 DEF ChildExit, Interrupt, Blocked, LoopPcs, WatchInv
    <3>18. ASSUME NEW p \in Pids, AdoptedExit(p) PROVE WatchInv'
      <4>1. Children' = Children
        BY <3>18, <3>a DEF AdoptedExit, Children, TypeOK
      <4>2. QED
        BY <3>18, <3>c, <4>1 DEF AdoptedExit, WatchInv
    <3>19. ASSUME NEW s \in Servers, Connect(s) PROVE WatchInv'
      BY <3>19, <3>c, <3>d DEF Connect, WatchInv
    <3>20. CASE UNCHANGED vars
      BY <3>20, <3>c, <3>d DEF vars, WatchInv
    <3>21. QED
      BY <3>1, <3>2, <3>3, <3>4, <3>5, <3>6, <3>7, <3>8, <3>9, <3>10, <3>11,
         <3>12, <3>13, <3>14, <3>15, <3>16, <3>17, <3>18, <3>19, <3>20
         DEF Next, Master, Environment
  <2>3. WatchInv => NoDeafServer
    BY DEF WatchInv, Covered, NoDeafServer
  <2>4. QED
    BY <2>1, <2>2, <2>3, InvCorrect, PTL DEF Spec
<1>3. QED
  BY <1>1, <1>2
=============================================================================
