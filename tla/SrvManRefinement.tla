-------------------------- MODULE SrvManRefinement --------------------------
(***************************************************************************)
(* SrvMan implements WorkerPool, for every number of servers, every finite *)
(* set of pids and every choice of limits.                                 *)
(***************************************************************************)
EXTENDS SrvManProofs

(* A step that leaves the phase, the tables and the processes alone is a   *)
(* stuttering step of the pool.                                            *)
LEMMA PoolStutter ==
  ASSUME UNCHANGED <<PoolPhase, PoolCrew, PoolProc>>
  PROVE  [Pool!Next]_(Pool!poolVars)
BY DEF Pool!poolVars

(* Both modules count with the same Cardinality.                           *)
LEMMA PoolCardinality == \A S : Pool!Cardinality(S) = Cardinality(S)
BY DEF Pool!Cardinality, Cardinality

(* Every step of the server manager is a step of the pool or leaves it     *)
(* alone.                                                                  *)
LEMMA StepPool ==
  ASSUME Inv, Inv', GlobalBound', [Next]_vars
  PROVE  [Pool!Next]_(Pool!poolVars)
<1> USE DEF loopVars, flagVars, countVars, ghostVars
<1>a. TypeOK /\ Accounting /\ OnlyOwnChildren /\ Fresh /\ TypeOK'
  BY DEF Inv
<1>b. ASSUME UNCHANGED <<pc, pidtab, pstate>>
      PROVE  [Pool!Next]_(Pool!poolVars)
  BY <1>b, PoolStutter DEF PoolPhase, PoolCrew, PoolProc
<1>c. UNCHANGED pstate => UNCHANGED PoolProc
  BY DEF PoolProc
<1>1. CASE Boot
  <2>1. /\ PoolPhase = "down" /\ PoolCrew = NoChildren
        /\ PoolPhase' = "serving" /\ PoolCrew' = PoolCrew
    BY <1>a, <1>1
       DEF Boot, Fresh, PoolPhase, PoolCrew, LoopPcs, ShutdownPcs, EndPcs
  <2>2. PoolProc' = PoolProc \/ PoolProc' = [p \in Pids |-> "none"]
    BY <1>a, <1>1 DEF Boot, PoolProc, TypeOK
  <2>3. Pool!Start
    BY <2>1, <2>2 DEF Pool!Start, Pool!NoCrew, NoChildren
  <2>4. QED
    BY <2>3 DEF Pool!Next
<1>2. CASE BootFail
  <2>1. UNCHANGED <<PoolPhase, PoolCrew>>
    BY <1>a, <1>2
       DEF BootFail, PoolPhase, PoolCrew, LoopPcs, ShutdownPcs, EndPcs
  <2>2. QED
    BY <1>2, <1>c, <2>1, PoolStutter DEF BootFail
<1>3. CASE smap_srvman_open
  <2>1. CASE pc' = "run"
    <3>1. UNCHANGED <<PoolPhase, PoolCrew>>
      BY <1>3, <2>1
         DEF smap_srvman_open, PoolPhase, PoolCrew, LoopPcs, ShutdownPcs,
             EndPcs
    <3>2. QED
      BY <1>3, <1>c, <3>1, PoolStutter DEF smap_srvman_open
  <2>2. CASE pc' = "exit"
    <3>1. /\ PoolPhase = "serving" /\ PoolPhase' = "down"
          /\ PoolCrew' = NoChildren
      BY <1>a, <1>3, <2>2
         DEF smap_srvman_open, Fresh, PoolPhase, PoolCrew, LoopPcs,
             ShutdownPcs, EndPcs
    <3>2. Pool!GoDown
      BY <1>3, <1>c, <3>1
         DEF smap_srvman_open, Pool!GoDown, Pool!NoCrew, NoChildren
    <3>3. QED
      BY <3>2 DEF Pool!Next
  <2>3. QED
    BY <1>3, <2>1, <2>2 DEF smap_srvman_open
<1>4. CASE RunStart
  <2>1. UNCHANGED <<PoolPhase, PoolCrew>>
    BY <1>a, <1>4
       DEF RunStart, PoolPhase, PoolCrew, LoopPcs, ShutdownPcs, EndPcs
  <2>2. QED
    BY <1>4, <1>c, <2>1, PoolStutter DEF RunStart
<1>5. CASE LoopInit
  <2>1. UNCHANGED <<PoolPhase, PoolCrew>>
    BY <1>a, <1>5
       DEF LoopInit, PoolPhase, PoolCrew, LoopPcs, ShutdownPcs, EndPcs
  <2>2. QED
    BY <1>5, <1>c, <2>1, PoolStutter DEF LoopInit
<1>6. CASE LoopTop
  <2>1. CASE pc' = "sigterm"
    <3>1. PoolPhase = "serving" /\ PoolPhase' = "closing" /\ PoolCrew' = PoolCrew
      BY <1>6, <2>1
         DEF LoopTop, PoolPhase, PoolCrew, LoopPcs, ShutdownPcs, EndPcs
    <3>2. Pool!Close
      BY <1>6, <1>c, <3>1 DEF LoopTop, Pool!Close
    <3>3. QED
      BY <3>2 DEF Pool!Next
  <2>2. CASE pc' # "sigterm"
    <3>1. UNCHANGED <<PoolPhase, PoolCrew>>
      BY <1>6, <2>2
         DEF LoopTop, PoolPhase, PoolCrew, LoopPcs, ShutdownPcs, EndPcs
    <3>2. QED
      BY <1>6, <1>c, <3>1, PoolStutter DEF LoopTop
  <2>3. QED
    BY <2>1, <2>2
<1>7. CASE CheckLimits
  <2>1. CASE pc' = "sigterm"
    <3>1. PoolPhase = "serving" /\ PoolPhase' = "closing" /\ PoolCrew' = PoolCrew
      BY <1>7, <2>1
         DEF CheckLimits, PoolPhase, PoolCrew, LoopPcs, ShutdownPcs, EndPcs
    <3>2. Pool!Close
      BY <1>7, <1>c, <3>1 DEF CheckLimits, Pool!Close
    <3>3. QED
      BY <3>2 DEF Pool!Next
  <2>2. CASE pc' # "sigterm"
    <3>1. UNCHANGED <<PoolPhase, PoolCrew>>
      BY <1>7, <2>2
         DEF CheckLimits, PoolPhase, PoolCrew, LoopPcs, ShutdownPcs, EndPcs
    <3>2. QED
      BY <1>7, <1>c, <3>1, PoolStutter DEF CheckLimits
  <2>3. QED
    BY <2>1, <2>2
<1>8. ASSUME NEW p \in Pids, Reap(p) PROVE [Pool!Next]_(Pool!poolVars)
  <2>1. pc \in {"reap", "sh_reap"} /\ pc' = pc /\ pstate[p] = "zombie"
    BY <1>8 DEF Reap
  <2>2. /\ PoolPhase \in {"serving", "closing"} /\ PoolPhase' = PoolPhase
        /\ PoolCrew = pidtab /\ PoolCrew' = pidtab'
    BY <2>1 DEF PoolPhase, PoolCrew, LoopPcs, ShutdownPcs, EndPcs
  <2>3. PoolProc[p] = "ended" /\ PoolProc' = [PoolProc EXCEPT ![p] = "none"]
    BY <1>a, <1>8 DEF Reap, PoolProc, TypeOK
  <2>4. pidtab' = [s \in Servers |-> pidtab[s] \ {p}]
    BY <1>a, <1>8 DEF Reap, unregister_child, TypeOK, Accounting, Tracked
  <2>5. Pool!Leave(p)
    BY <2>2, <2>3, <2>4 DEF Pool!Leave
  <2>6. QED
    BY <2>5 DEF Pool!Next
<1>9. CASE ReapDone
  <2>1. UNCHANGED <<PoolPhase, PoolCrew>>
    BY <1>a, <1>9
       DEF ReapDone, PoolPhase, PoolCrew, LoopPcs, ShutdownPcs, EndPcs
  <2>2. QED
    BY <1>9, <1>c, <2>1, PoolStutter DEF ReapDone
<1>10. CASE compute_fdset
  <2>1. UNCHANGED <<PoolPhase, PoolCrew>>
    BY <1>a, <1>10
       DEF compute_fdset, PoolPhase, PoolCrew, LoopPcs, ShutdownPcs, EndPcs
  <2>2. QED
    BY <1>10, <1>c, <2>1, PoolStutter DEF compute_fdset
<1>11. CASE SelectReturns
  <2>1. UNCHANGED <<PoolPhase, PoolCrew>>
    BY <1>a, <1>11
       DEF SelectReturns, PoolPhase, PoolCrew, LoopPcs, ShutdownPcs, EndPcs
  <2>2. QED
    BY <1>11, <1>c, <2>1, PoolStutter DEF SelectReturns
<1>12. ASSUME NEW s \in Servers, ScanBusy(s) \/ ConnDropped(s) \/ Connect(s)
      PROVE  [Pool!Next]_(Pool!poolVars)
  BY <1>12, <1>b DEF ScanBusy, ConnDropped, Connect
<1>13. ASSUME NEW s \in Servers, AcceptFail(s) PROVE [Pool!Next]_(Pool!poolVars)
  <2>1. /\ PoolPhase = "serving" /\ PoolPhase' = PoolPhase
        /\ PoolCrew = pidtab /\ PoolCrew' = pidtab'
    BY <1>13
       DEF AcceptFail, AtServer, PoolPhase, PoolCrew, LoopPcs, ShutdownPcs,
           EndPcs
  <2>2. Pool!Withdraw(s)
    BY <1>13, <1>c, <2>1 DEF AcceptFail, smap_server_free, Pool!Withdraw
  <2>3. QED
    BY <2>2 DEF Pool!Next
<1>14. ASSUME NEW s \in Servers, NEW p \in Pids, Fork(s, p)
      PROVE  [Pool!Next]_(Pool!poolVars)
  <2>1. /\ PoolPhase = "serving" /\ PoolPhase' = PoolPhase
        /\ PoolCrew = pidtab /\ PoolCrew' = pidtab'
    BY <1>14
       DEF Fork, AtServer, PoolPhase, PoolCrew, LoopPcs, ShutdownPcs, EndPcs
  <2>2. Pool!AllCrews = Tracked
    BY <2>1 DEF Pool!AllCrews, Tracked
  <2>3. PoolProc[p] = "none" /\ PoolProc' = [PoolProc EXCEPT ![p] = "run"]
    BY <1>a, <1>14 DEF Fork, Idle, PoolProc, TypeOK
  <2>4. p \notin Pool!AllCrews
    BY <1>a, <1>14, <2>2 DEF Fork, Idle, OnlyOwnChildren, Children
  <2>5. MaxOf[s] > 0 => Cardinality(PoolCrew[s]) < MaxOf[s]
    <3>1. nchild[s] = Cardinality(PoolCrew[s]) /\ nchild[s] \in Nat /\ MaxOf[s] \in Nat
      BY <1>a, <2>1, MaxOfAssumption DEF Accounting, TypeOK
    <3>2. QED
      BY <1>14, <3>1 DEF Fork, Refuses, Busy
  <2>6. MaxChildren > 0 => Cardinality(Pool!AllCrews) < MaxChildren - 1 + NServers
    <3>1. /\ Cardinality(Tracked) \in Nat /\ lost \in Nat
          /\ num_children = Cardinality(Tracked) + lost
      BY <1>a, TrackedFinite DEF Accounting, TypeOK
    <3>2. num_children' = num_children + 1
      BY <1>14 DEF Fork, register_child
    <3>3. QED
      BY <2>2, <3>1, <3>2, MaxChildrenAssumption, NServersAssumption
         DEF GlobalBound
  <2>7. PoolCrew' = [PoolCrew EXCEPT ![s] = @ \cup {p}]
    BY <1>14, <2>1 DEF Fork, register_child
  <2>8. Pool!Join(s, p)
    <3>1. Pool!HasRoom(s)
      BY <2>5, <2>6, PoolCardinality DEF Pool!HasRoom
    <3>2. QED
      BY <2>1, <2>3, <2>4, <2>7, <3>1 DEF Pool!Join
  <2>9. QED
    BY <2>8 DEF Pool!Next
<1>15. ASSUME NEW s \in Servers, RunSingle(s) PROVE [Pool!Next]_(Pool!poolVars)
  <2>1. UNCHANGED <<PoolPhase, PoolCrew>>
    BY <1>15
       DEF RunSingle, AtServer, PoolPhase, PoolCrew, LoopPcs, ShutdownPcs,
           EndPcs
  <2>2. QED
    BY <1>15, <1>c, <2>1, PoolStutter DEF RunSingle
<1>16. CASE ScanDone
  <2>1. UNCHANGED <<PoolPhase, PoolCrew>>
    BY <1>a, <1>16
       DEF ScanDone, PoolPhase, PoolCrew, LoopPcs, ShutdownPcs, EndPcs
  <2>2. QED
    BY <1>16, <1>c, <2>1, PoolStutter DEF ScanDone
<1>17. CASE SessionEnd
  <2>1. UNCHANGED <<PoolPhase, PoolCrew>>
    BY <1>a, <1>17
       DEF SessionEnd, PoolPhase, PoolCrew, LoopPcs, ShutdownPcs, EndPcs
  <2>2. QED
    BY <1>17, <1>c, <2>1, PoolStutter DEF SessionEnd
<1>18. CASE SessionAbort
  <2>1. /\ PoolPhase = "serving" /\ PoolPhase' = "down"
        /\ PoolCrew' = NoChildren
    BY <1>18 DEF SessionAbort, PoolPhase, PoolCrew, LoopPcs, ShutdownPcs, EndPcs
  <2>2. Pool!GoDown
    BY <1>18, <1>c, <2>1 DEF SessionAbort, Pool!GoDown, Pool!NoCrew, NoChildren
  <2>3. QED
    BY <2>2 DEF Pool!Next
<1>19. CASE SigTermChildren
  <2>1. UNCHANGED <<PoolPhase, PoolCrew>>
    BY <1>a, <1>19
       DEF SigTermChildren, PoolPhase, PoolCrew, LoopPcs, ShutdownPcs, EndPcs
  <2>2. QED
    BY <1>19, <1>c, <2>1, PoolStutter DEF SigTermChildren
<1>20. CASE ShutdownTurn
  <2>1. UNCHANGED <<PoolPhase, PoolCrew>>
    BY <1>a, <1>20
       DEF ShutdownTurn, PoolPhase, PoolCrew, LoopPcs, ShutdownPcs, EndPcs
  <2>2. QED
    BY <1>20, <1>c, <2>1, PoolStutter DEF ShutdownTurn
<1>21. CASE SigKillChildren
  <2>1. UNCHANGED <<PoolPhase, PoolCrew>>
    BY <1>a, <1>21
       DEF SigKillChildren, PoolPhase, PoolCrew, LoopPcs, ShutdownPcs, EndPcs
  <2>2. QED
    BY <1>21, <1>c, <2>1, PoolStutter DEF SigKillChildren
<1>22. CASE smap_srvman_free
  <2>1. /\ PoolPhase = "closing" /\ PoolPhase' = "down"
        /\ PoolCrew' = NoChildren
    BY <1>22
       DEF smap_srvman_free, PoolPhase, PoolCrew, LoopPcs, ShutdownPcs, EndPcs
  <2>2. Pool!GoDown
    BY <1>22, <1>c, <2>1
       DEF smap_srvman_free, Pool!GoDown, Pool!NoCrew, NoChildren
  <2>3. QED
    BY <2>2 DEF Pool!Next
<1>23. CASE Exec
  <2>1. UNCHANGED <<PoolPhase, PoolCrew>>
    BY <1>a, <1>23 DEF Exec, PoolPhase, PoolCrew, LoopPcs, ShutdownPcs, EndPcs
  <2>2. QED
    BY <1>23, <1>c, <2>1, PoolStutter DEF Exec
<1>24. CASE ExecFail
  <2>1. UNCHANGED <<PoolPhase, PoolCrew>>
    BY <1>a, <1>24
       DEF ExecFail, PoolPhase, PoolCrew, LoopPcs, ShutdownPcs, EndPcs
  <2>2. QED
    BY <1>24, <1>c, <2>1, PoolStutter DEF ExecFail
<1>25. CASE SigTerm
  <2>1. UNCHANGED <<PoolPhase, PoolCrew>>
    BY <1>a, <1>25
       DEF SigTerm, PoolPhase, PoolCrew, LoopPcs, ShutdownPcs, EndPcs,
           Interrupt, Blocked, Fresh,
       TypeOK, PcValues
  <2>2. QED
    BY <1>25, <1>c, <2>1, PoolStutter DEF SigTerm
<1>26. CASE SigHup
  <2>1. UNCHANGED <<PoolPhase, PoolCrew>>
    BY <1>a, <1>26
       DEF SigHup, PoolPhase, PoolCrew, LoopPcs, ShutdownPcs, EndPcs,
           Interrupt, Blocked,
       TypeOK, PcValues
  <2>2. QED
    BY <1>26, <1>c, <2>1, PoolStutter DEF SigHup
<1>27. ASSUME NEW p \in Pids, ChildExit(p) PROVE [Pool!Next]_(Pool!poolVars)
  <2>1. UNCHANGED <<PoolPhase, PoolCrew>>
    BY <1>27
       DEF ChildExit, Interrupt, Blocked, PoolPhase, PoolCrew, LoopPcs,
           ShutdownPcs, EndPcs
  <2>2. PoolProc[p] = "run" /\ PoolProc' = [PoolProc EXCEPT ![p] = "ended"]
    BY <1>a, <1>27 DEF ChildExit, PoolProc, TypeOK
  <2>3. Pool!End(p)
    BY <2>1, <2>2 DEF Pool!End
  <2>4. QED
    BY <2>3 DEF Pool!Next
<1>28. ASSUME NEW p \in Pids, AdoptedExit(p) PROVE [Pool!Next]_(Pool!poolVars)
  <2>1. PoolProc' = PoolProc
    BY <1>a, <1>28 DEF AdoptedExit, PoolProc, TypeOK
  <2>2. UNCHANGED <<PoolPhase, PoolCrew>>
    BY <1>28 DEF AdoptedExit, PoolPhase, PoolCrew
  <2>3. QED
    BY <2>1, <2>2, PoolStutter
<1>29. CASE UNCHANGED vars
  BY <1>29, <1>b DEF vars
<1>30. QED
  BY <1>1, <1>2, <1>3, <1>4, <1>5, <1>6, <1>7, <1>8, <1>9, <1>10, <1>11,
     <1>12, <1>13, <1>14, <1>15, <1>16, <1>17, <1>18, <1>19, <1>20, <1>21,
     <1>22, <1>23, <1>24, <1>25, <1>26, <1>27, <1>28, <1>29
     DEF Next, Master, Environment

(* The server manager implements the worker pool: a process is started     *)
(* only while the daemon serves and within the limits, it leaves its       *)
(* server's table only after it has ended, and no table outlives the       *)
(* daemon (smap_srvman_run, server_accept, children_cleanup,               *)
(* smap_srvman_shutdown).                                                  *)
THEOREM PoolImplemented == Spec => ImplementsPool
<1>1. Init => Pool!Init
  <2> SUFFICES ASSUME Init PROVE Pool!Init
    OBVIOUS
  <2>1. PoolPhase = "down"
    <3>1. pc \in {"boot", "exec"} \cup EndPcs
      BY DEF Init
    <3>2. pc \notin ShutdownPcs \cup {"free"}
      BY DEF Init, ShutdownPcs
    <3>3. QED
      BY <3>1, <3>2, Zenon DEF PoolPhase
  <2>2. PoolCrew = Pool!NoCrew
    BY DEF Init, PoolCrew, Pool!NoCrew, NoChildren
  <2>3. PoolProc = [p \in Pids |-> "none"]
    <3>1. ASSUME NEW p \in Pids PROVE pstate[p] = "free"
      BY DEF Init
    <3>2. QED
      BY <3>1 DEF PoolProc
  <2>4. QED
    BY <2>1, <2>2, <2>3 DEF Pool!Init
<1>2. Inv /\ Inv' /\ GlobalBound' /\ [Next]_vars => [Pool!Next]_(Pool!poolVars)
  BY StepPool
<1>3. QED
  BY <1>1, <1>2, InvCorrect, GlobalBoundCorrect, PTL
     DEF Spec, ImplementsPool, Pool!Spec
=============================================================================
