-------------------------- MODULE ScanTimerProofs ---------------------------
(***************************************************************************)
(* Proofs about the second kernel module: the timer that re-arms itself    *)
(* and the work it queues are gone before the workqueue is, and nothing    *)
(* survives a failed load or an unload.                                    *)
(***************************************************************************)
EXTENDS ScanTimer, TLAPS

\* del_timer_sync comes first, then the flush: the timer is armed only before the one,
\* and work is queued or under way only before the other.
OrderInv ==
  /\ timer \in {"pending", "fired", "rearm"} => pc \in {"loaded", "del_timer"}
  /\ queued \/ work # "idle" => pc \in {"loaded", "del_timer", "flush"}

\* The workqueue is there from the first step of uroam_init to the last of uroam_exit.
QueueInv ==
  wq = "live" <=> pc \notin {"out", "gone"}

\* What is registered at each step.
HeldInv ==
  held = CASE pc \in {"out", "dir", "destroy", "gone"} -> {}
           [] pc = "entry"  -> {"proc_dir"}
           [] pc = "sysctl" -> {"proc_dir", "proc_entry"}
           [] OTHER         -> {"proc_dir", "proc_entry", "sysctl_table"}

IndInv == TypeOK /\ OrderInv /\ QueueInv /\ HeldInv

-----------------------------------------------------------------------------
\* A module that has not been loaded.
LEMMA InitIndInv == Init => IndInv
  BY DEF Init, IndInv, TypeOK, OrderInv, QueueInv, HeldInv

LEMMA NextIndInv == IndInv /\ [Next]_vars => IndInv'
<1> SUFFICES ASSUME IndInv, [Next]_vars PROVE IndInv'
  OBVIOUS
<1> USE DEF IndInv, TypeOK, OrderInv, QueueInv, HeldInv
<1>1. CASE AllocWorkqueue
  BY <1>1 DEF AllocWorkqueue
<1>2. CASE Loading
  <2>1. CASE ProcMkdir
    BY <2>1 DEF ProcMkdir, Fail
  <2>2. CASE ProcCreate
    BY <2>2 DEF ProcCreate, Fail
  <2>3. CASE RegisterSysctl
    BY <2>3 DEF RegisterSysctl, Fail
  <2> QED BY <1>2, <2>1, <2>2, <2>3 DEF Loading
<1>3. CASE BeginExit
  BY <1>3 DEF BeginExit
<1>4. CASE Unloading
  <2>1. CASE DelTimerSync
    BY <2>1 DEF DelTimerSync
  <2>2. CASE FlushWorkqueue
    BY <2>2 DEF FlushWorkqueue
  <2>3. CASE Unregister
    BY <2>3 DEF Unregister
  <2>4. CASE DestroyWorkqueue
    BY <2>4 DEF DestroyWorkqueue
  <2> QED BY <1>4, <2>1, <2>2, <2>3, <2>4 DEF Unloading
<1>5. CASE Timer
  BY <1>5 DEF Timer, TimerExpires, QueueWork, ModTimer
<1>6. CASE Work
  BY <1>6 DEF Work, WorkBegins, WorkChecks, WorkMerges, WorkEnds
<1>7. ASSUME NEW s \in Switch, SysctlWrite(s) PROVE IndInv'
  BY <1>7 DEF SysctlWrite
<1>8. ASSUME NEW v \in {"STOP", "MERGE", "UNMERGE"}, KsmWrite(v) PROVE IndInv'
  BY <1>8 DEF KsmWrite
<1>9. CASE UNCHANGED vars
  BY <1>9 DEF vars
<1> QED BY <1>1, <1>2, <1>3, <1>4, <1>5, <1>6, <1>7, <1>8, <1>9 DEF Next

\* No load, failed load or unload leaves the inductive invariant.
THEOREM IndInvHolds == Spec => []IndInv
  BY InitIndInv, NextIndInv, PTL DEF Spec

\* Type correctness of the module's state.
THEOREM TypeCorrect == Spec => []TypeOK
<1>1. IndInv => TypeOK
  BY DEF IndInv
<1> QED BY <1>1, IndInvHolds, PTL

\* However uroam_scan_timer_fn, mod_timer, the work and uroam_exit are interleaved, and
\* whichever step of uroam_init fails, nothing uses the workqueue before or after its time.
THEOREM QueueOutlivesUse == Spec => []NoUseAfterDestroy
<1>1. IndInv => NoUseAfterDestroy
  BY DEF IndInv, OrderInv, QueueInv, NoUseAfterDestroy
<1> QED BY <1>1, IndInvHolds, PTL

\* Once uroam_init has failed or uroam_exit has returned nothing of the module is left.
THEOREM UnloadLeavesNothing == Spec => []NothingLeft
<1>1. IndInv => NothingLeft
  BY DEF IndInv, TypeOK, OrderInv, QueueInv, HeldInv, NothingLeft
<1> QED BY <1>1, IndInvHolds, PTL
=============================================================================
