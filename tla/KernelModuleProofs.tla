------------------------- MODULE KernelModuleProofs -------------------------
(***************************************************************************)
(* Proofs about loading and unloading the kernel module: what is held at   *)
(* each step of uroam_init, of its cleanup chain and of uroam_exit, and    *)
(* from it what an unload can leave behind or tear down without its being  *)
(* there, and what of theirs the kthreads always find while they run.      *)
(***************************************************************************)
EXTENDS KernelModule, TLAPS

\* The parameter has kept the value it had when insmod began.
Unwritten(p) == p \notin toggled

\* The entries and the socket are there exactly between the step that makes them
\* and the one that takes them down, whichever way the cleanup chain is entered.
EntriesInv ==
  /\ IF pc \in {"out", "proc", "gone"} THEN ProcObjs \cap res = {} ELSE ProcObjs \subseteq res
  /\ IF pc \in {"out", "proc", "sysfs", "exit_proc", "gone"}
     THEN SysfsObjs \cap res = {} ELSE SysfsObjs \subseteq res
  /\ "nl_sock" \in res <=>
       pc \notin {"out", "proc", "sysfs", "netlink", "exit_sysfs", "exit_proc", "gone"}

\* Where trigger and group may be in place.
Monitored == {"hooks", "numa", "tracking", "loaded", "exit_tracking", "stop_tracking",
              "join_tracking", "exit_numa", "exit_hooks", "exit_pressure", "stop_pressure",
              "join_pressure", "exit_psi"}

PsiInv ==
  /\ pc \in {"out", "proc", "sysfs", "netlink", "pressure"} => PsiObjs \cap res = {}
  /\ Unwritten("enable_pressure_monitor") =>
       /\ pc \in Monitored /\ params["enable_pressure_monitor"] => spawnFailed \/ PsiObjs \subseteq res
       /\ pc \in Monitored /\ ~params["enable_pressure_monitor"] => PsiObjs \cap res = {}
       /\ pc \in {"stop_pressure", "join_pressure", "exit_psi"} => params["enable_pressure_monitor"]
       /\ pc \in {"exit_netlink", "exit_sysfs", "exit_proc", "gone"} => PsiObjs \cap res = {}

\* The chain is entered below exit_hooks only from steps before HooksInit.
Unhooked == {"exit_pressure", "stop_pressure", "join_pressure", "exit_psi", "exit_netlink",
             "exit_sysfs", "exit_proc", "gone"}

HooksInv ==
  /\ pc \in {"out", "proc", "sysfs", "netlink", "pressure", "hooks"} => HookObjs \cap res = {}
  /\ Unwritten("enable_allocation_hooks") =>
       /\ ~params["enable_allocation_hooks"] => HookObjs \cap res = {}
       /\ pc \in Unhooked => HookObjs \cap res \subseteq moved

TableInv ==
  /\ pc \in {"out", "proc", "sysfs", "netlink", "pressure", "hooks", "numa"} =>
       "distance_table" \notin res
  /\ Unwritten("enable_numa_aware") /\ params["enable_numa_aware"]
       /\ pc \in Unhooked \cup {"exit_hooks"} => "distance_table" \notin res

ThreadInv ==
  /\ \A t \in Thread : running[t] => Alive(t)
  /\ Alive("pressure") => running["pressure"] \/ pc \in {"stop_pressure", "join_pressure"}
  /\ Alive("tracking") => running["tracking"] \/ pc \in {"stop_tracking", "join_tracking"}
  /\ pc = "exit_psi" => ~Alive("pressure")

\* While its parameter is unwritten the monitor is stopped before the socket goes.
SocketInv ==
  Alive("pressure") /\ Unwritten("enable_pressure_monitor") =>
    params["enable_pressure_monitor"] /\ (pc \in Monitored \/ pc = "lost")

IndInv ==
  /\ TypeOK /\ EntriesInv /\ PsiInv /\ SocketInv /\ HooksInv /\ TableInv /\ ThreadInv
  /\ ThreadsOutlived /\ DoubleReleaseExplained

-----------------------------------------------------------------------------
\* What a module that has not been loaded holds satisfies the invariant.
LEMMA InitIndInv == Init => IndInv
  BY DEF Init, IndInv, TypeOK, EntriesInv, PsiInv, HooksInv, TableInv, ThreadInv, Alive,
         SocketInv, ThreadsOutlived, DoubleReleaseExplained, Unwritten, Monitored, Unhooked, Thread,
         Param, InitSteps, ExitSteps

\* The entries a failing uroam_create_proc_entries removes are those it made.
LEMMA ProcFailure ==
  ASSUME IndInv, CreateProcEntries
  PROVE  \/ Acquire(ProcObjs) /\ pc' = "sysfs"
         \/ HoldAll /\ pc' = "gone"
<1> SUFFICES ASSUME pc' # "sysfs" \/ ~Acquire(ProcObjs) PROVE HoldAll /\ pc' = "gone"
  OBVIOUS
<1> DEFINE made(k)    == {ProcOrder[i] : i \in 1..k - 1}
           removed(k) == {o \in ProcObjs : \/ k >= 4 /\ o = "proc_config"
                                           \/ k >= 3 /\ o = "proc_status"
                                           \/ k >= 2 /\ o = "proc_dir"}
<1>1. PICK k \in 1..4 : /\ res' = (res \cup made(k)) \ removed(k)
                        /\ bad' = bad \cup (removed(k) \ made(k))
                        /\ pc' = "gone"
  BY DEF CreateProcEntries
<1>2. removed(k) = made(k)
  <2>1. CASE k = 1
    BY <2>1
  <2>2. CASE k = 2
    <3>1. 1..k - 1 = {1}
      BY <2>2
    <3> QED BY <2>2, <3>1 DEF ProcOrder, ProcObjs
  <2>3. CASE k = 3
    <3>1. 1..k - 1 = {1, 2}
      BY <2>3
    <3> QED BY <2>3, <3>1 DEF ProcOrder, ProcObjs
  <2>4. CASE k = 4
    <3>1. 1..k - 1 = {1, 2, 3}
      BY <2>4
    <3> QED BY <2>4, <3>1 DEF ProcOrder, ProcObjs
  <2> QED BY <2>1, <2>2, <2>3, <2>4
<1>3. res \cap ProcObjs = {} /\ removed(k) \subseteq ProcObjs
  BY DEF IndInv, EntriesInv, CreateProcEntries
<1> HIDE DEF made, removed
<1> QED BY <1>1, <1>2, <1>3 DEF HoldAll

-----------------------------------------------------------------------------
LEMMA EntriesKept == ASSUME IndInv, Next PROVE EntriesInv'
<1> USE DEF IndInv, EntriesInv, Acquire, Release, HoldAll, Goto
<1>1. CASE CreateProcEntries
  BY <1>1, ProcFailure DEF CreateProcEntries, ProcObjs, SysfsObjs
<1>2. CASE CreateSysfsEntries \/ NetlinkInit
  BY <1>2 DEF CreateSysfsEntries, NetlinkInit, ProcObjs, SysfsObjs
<1>3. CASE PressureInit
  BY <1>3 DEF PressureInit, PressureStarts, PressureSpawnFails, PressureFails, ProcObjs, SysfsObjs, PsiObjs
<1>4. CASE HooksInit
  BY <1>4 DEF HooksInit, ProcObjs, SysfsObjs, Probes
<1>5. CASE NumaInit \/ TrackingInit
  BY <1>5 DEF NumaInit, TrackingInit, NumaTable, ProcObjs, SysfsObjs
<1>6. CASE TrackingExit \/ NumaExit \/ HooksExit
  BY <1>6 DEF TrackingExit, StopThread, KthreadStop, KthreadStopped, NumaExit, HooksExit, ProcObjs, SysfsObjs, HookObjs, Probes,
              BalanceWork
<1>7. CASE PressureExit
  BY <1>7 DEF PressureExit, SkipPressureExit, StopThread, KthreadStop, KthreadStopped, DestroyPsi, PsiObjs, ProcObjs, SysfsObjs
<1>8. CASE NetlinkExit \/ RemoveSysfsEntries \/ RemoveProcEntries
  BY <1>8 DEF NetlinkExit, RemoveSysfsEntries, RemoveProcEntries, ProcObjs, SysfsObjs
<1>9. CASE Admin
  BY <1>9 DEF Admin, BeginInit, BeginExit, Reload, ProcObjs, SysfsObjs
<1>10. CASE UNCHANGED <<pc, res>>
  BY <1>10
<1> QED
  BY <1>1, <1>2, <1>3, <1>4, <1>5, <1>6, <1>7, <1>8, <1>9, <1>10
  DEF Next, InitTask, ExitTask, ThreadStep, WriteParam, EnabledStore, ProbeFires

LEMMA PsiKept == ASSUME IndInv, Next PROVE PsiInv'
<1> USE DEF IndInv, PsiInv, Monitored, Unwritten, Acquire, Release, HoldAll, Goto, PsiObjs
<1>1. CASE CreateProcEntries
  BY <1>1, ProcFailure DEF CreateProcEntries, ProcObjs
<1>2. CASE CreateSysfsEntries \/ NetlinkInit
  BY <1>2 DEF CreateSysfsEntries, NetlinkInit, SysfsObjs
<1>3. CASE PressureInit
  BY <1>3 DEF PressureInit, PressureStarts, PressureSpawnFails, PressureFails
<1>4. CASE HooksInit
  BY <1>4 DEF HooksInit, Probes
<1>5. CASE NumaInit \/ TrackingInit
  BY <1>5 DEF NumaInit, TrackingInit, NumaTable
<1>6. CASE TrackingExit \/ NumaExit \/ HooksExit
  BY <1>6 DEF TrackingExit, StopThread, KthreadStop, KthreadStopped, NumaExit, HooksExit, HookObjs, Probes,
              BalanceWork
<1>7. CASE PressureExit
  BY <1>7 DEF PressureExit, SkipPressureExit, StopThread, KthreadStop, KthreadStopped, DestroyPsi
<1>8. CASE NetlinkExit \/ RemoveSysfsEntries \/ RemoveProcEntries
  BY <1>8 DEF NetlinkExit, RemoveSysfsEntries, RemoveProcEntries, ProcObjs, SysfsObjs
<1>9. CASE Admin
  BY <1>9 DEF Admin, BeginInit, BeginExit, Reload
<1>10. ASSUME NEW p \in Param, WriteParam(p) PROVE PsiInv'
  BY <1>10 DEF WriteParam, TypeOK, Param
<1>11. CASE UNCHANGED <<pc, res, params, toggled, spawnFailed>>
  BY <1>11
<1> QED
  BY <1>1, <1>2, <1>3, <1>4, <1>5, <1>6, <1>7, <1>8, <1>9, <1>10, <1>11
  DEF Next, InitTask, ExitTask, ThreadStep, EnabledStore, ProbeFires

LEMMA HooksKept == ASSUME IndInv, Next PROVE HooksInv'
<1> USE DEF IndInv, HooksInv, Unhooked, Unwritten, Acquire, Release, HoldAll, Goto, HookObjs, Probes
<1>1. CASE CreateProcEntries
  BY <1>1, ProcFailure DEF CreateProcEntries, ProcObjs
<1>2. CASE CreateSysfsEntries \/ NetlinkInit
  BY <1>2 DEF CreateSysfsEntries, NetlinkInit, SysfsObjs
<1>3. CASE PressureInit
  BY <1>3 DEF PressureInit, PressureStarts, PressureSpawnFails, PressureFails, PsiObjs
<1>4. CASE HooksInit
  BY <1>4 DEF HooksInit
<1>5. CASE NumaInit \/ TrackingInit
  BY <1>5 DEF NumaInit, TrackingInit, NumaTable
<1>6. CASE TrackingExit \/ NumaExit \/ HooksExit
  BY <1>6 DEF TrackingExit, StopThread, KthreadStop, KthreadStopped, NumaExit, HooksExit, BalanceWork
<1>7. CASE PressureExit
  BY <1>7 DEF PressureExit, SkipPressureExit, StopThread, KthreadStop, KthreadStopped, DestroyPsi, PsiObjs
<1>8. CASE NetlinkExit \/ RemoveSysfsEntries \/ RemoveProcEntries
  BY <1>8 DEF NetlinkExit, RemoveSysfsEntries, RemoveProcEntries, ProcObjs, SysfsObjs
<1>9. CASE Admin
  BY <1>9 DEF Admin, BeginInit, BeginExit, Reload
<1>10. ASSUME NEW p \in Param, WriteParam(p) PROVE HooksInv'
  BY <1>10 DEF WriteParam, TypeOK, Param
<1>11. CASE UNCHANGED <<pc, res, params, toggled>> /\ moved \subseteq moved'
  BY <1>11
<1> QED
  BY <1>1, <1>2, <1>3, <1>4, <1>5, <1>6, <1>7, <1>8, <1>9, <1>10, <1>11
  DEF Next, InitTask, ExitTask, ThreadStep, EnabledStore, ProbeFires

LEMMA TableKept == ASSUME IndInv, Next PROVE TableInv'
<1> USE DEF IndInv, TableInv, Unhooked, Unwritten, Acquire, Release, HoldAll, Goto
<1>1. CASE CreateProcEntries
  BY <1>1, ProcFailure DEF CreateProcEntries, ProcObjs
<1>2. CASE CreateSysfsEntries \/ NetlinkInit
  BY <1>2 DEF CreateSysfsEntries, NetlinkInit, SysfsObjs
<1>3. CASE PressureInit
  BY <1>3 DEF PressureInit, PressureStarts, PressureSpawnFails, PressureFails, PsiObjs
<1>4. CASE HooksInit
  BY <1>4 DEF HooksInit, Probes
<1>5. CASE NumaInit \/ TrackingInit
  BY <1>5 DEF NumaInit, TrackingInit, NumaTable
<1>6. CASE TrackingExit \/ NumaExit \/ HooksExit
  BY <1>6 DEF TrackingExit, StopThread, KthreadStop, KthreadStopped, NumaExit, HooksExit, BalanceWork
<1>7. CASE PressureExit
  BY <1>7 DEF PressureExit, SkipPressureExit, StopThread, KthreadStop, KthreadStopped, DestroyPsi
<1>8. CASE NetlinkExit \/ RemoveSysfsEntries \/ RemoveProcEntries
  BY <1>8 DEF NetlinkExit, RemoveSysfsEntries, RemoveProcEntries
<1>9. CASE Admin
  BY <1>9 DEF Admin, BeginInit, BeginExit, Reload
<1>10. ASSUME NEW p \in Param, WriteParam(p) PROVE TableInv'
  BY <1>10 DEF WriteParam, TypeOK, Param
<1>11. CASE UNCHANGED <<pc, res, params, toggled>>
  BY <1>11
<1> QED
  BY <1>1, <1>2, <1>3, <1>4, <1>5, <1>6, <1>7, <1>8, <1>9, <1>10, <1>11
  DEF Next, InitTask, ExitTask, ThreadStep, EnabledStore, ProbeFires

\* A kthread ends only when its flag has been cleared, and nothing but the step that
\* then waits for it clears the flag.
LEMMA ThreadKept == ASSUME IndInv, Next PROVE ThreadInv'
<1> USE DEF IndInv, ThreadInv, Alive, Thread, Goto, TypeOK
<1>1. CASE PressureInit
  BY <1>1 DEF PressureInit, PressureStarts, PressureSpawnFails, PressureFails
<1>2. CASE TrackingInit
  BY <1>2 DEF TrackingInit
<1>3. CASE TrackingExit
  BY <1>3 DEF TrackingExit, StopThread, KthreadStop, KthreadStopped
<1>4. CASE PressureExit
  BY <1>4 DEF PressureExit, SkipPressureExit, StopThread, KthreadStop, KthreadStopped, DestroyPsi
<1>5. CASE Reload
  BY <1>5 DEF Reload
<1>6. ASSUME NEW t \in Thread, ThreadStep(t) PROVE ThreadInv'
  BY <1>6 DEF ThreadStep
<1>7. CASE UNCHANGED <<running, thread>> 
             /\ pc \notin {"stop_pressure", "join_pressure", "stop_tracking", "join_tracking"}
             /\ pc' # "exit_psi"
  BY <1>7
<1>8. CASE UNCHANGED <<pc, running, thread>>
  BY <1>8
<1> QED
  BY <1>1, <1>2, <1>3, <1>4, <1>5, <1>6, <1>7, <1>8
  DEF Next, InitTask, ExitTask, Admin, CreateProcEntries, CreateSysfsEntries, NetlinkInit, HooksInit,
      NumaInit, NumaExit, HooksExit, NetlinkExit, RemoveSysfsEntries, RemoveProcEntries, BeginInit,
      BeginExit, WriteParam, EnabledStore, ProbeFires

\* The monitor is started after the socket is there; with the parameter as it was, the
\* exit that stops it comes before the one that releases the socket.
LEMMA SocketKept == ASSUME IndInv, Next PROVE SocketInv'
<1> USE DEF IndInv, SocketInv, Monitored, Unwritten, Alive, Thread, Goto
<1>1. CASE CreateProcEntries \/ CreateSysfsEntries \/ NetlinkInit
  BY <1>1 DEF CreateProcEntries, CreateSysfsEntries, NetlinkInit
<1>2. CASE PressureInit
  BY <1>2 DEF PressureInit, PressureStarts, PressureSpawnFails, PressureFails, TypeOK
<1>3. CASE HooksInit \/ NumaInit
  BY <1>3 DEF HooksInit, NumaInit
<1>4. CASE TrackingInit
  BY <1>4 DEF TrackingInit, TypeOK
<1>5. CASE TrackingExit
  BY <1>5 DEF TrackingExit, StopThread, KthreadStop, KthreadStopped
<1>6. CASE NumaExit \/ HooksExit
  BY <1>6 DEF NumaExit, HooksExit
<1>7. CASE PressureExit
  BY <1>7 DEF PressureExit, SkipPressureExit, StopThread, KthreadStop, KthreadStopped, DestroyPsi, ThreadInv
<1>8. CASE NetlinkExit \/ RemoveSysfsEntries \/ RemoveProcEntries
  BY <1>8 DEF NetlinkExit, RemoveSysfsEntries, RemoveProcEntries
<1>9. CASE Admin
  BY <1>9 DEF Admin, BeginInit, BeginExit, Reload
<1>10. ASSUME NEW t \in Thread, ThreadStep(t) PROVE SocketInv'
  BY <1>10 DEF ThreadStep, TypeOK
<1>11. ASSUME NEW p \in Param, WriteParam(p) PROVE SocketInv'
  BY <1>11 DEF WriteParam, TypeOK, Param
<1>12. CASE UNCHANGED <<pc, params, toggled, thread>>
  BY <1>12
<1> QED
  BY <1>1, <1>2, <1>3, <1>4, <1>5, <1>6, <1>7, <1>8, <1>9, <1>10, <1>11, <1>12
  DEF Next, InitTask, ExitTask, EnabledStore, ProbeFires

\* The trigger and the group go in DestroyPsi alone, behind the wait for the monitor;
\* the socket goes with the monitor alive only if its parameter was written; the
\* tracker is waited for before anything else is taken down.
LEMMA OutlivedKept == ASSUME IndInv, Next PROVE ThreadsOutlived'
<1> USE DEF IndInv, ThreadsOutlived, ThreadInv, Alive, Thread, Goto, Acquire, Release, HoldAll, PsiObjs
<1>1. CASE CreateProcEntries
  BY <1>1, ProcFailure DEF CreateProcEntries
<1>2. CASE CreateSysfsEntries \/ NetlinkInit
  BY <1>2 DEF CreateSysfsEntries, NetlinkInit
<1>3. CASE PressureInit
  BY <1>3 DEF PressureInit, PressureStarts, PressureSpawnFails, PressureFails, TypeOK, EntriesInv
<1>4. CASE HooksInit
  BY <1>4 DEF HooksInit
<1>5. CASE NumaInit \/ TrackingInit
  BY <1>5 DEF NumaInit, TrackingInit, NumaTable, EntriesInv, TypeOK
<1>6. CASE TrackingExit \/ NumaExit \/ HooksExit
  BY <1>6 DEF TrackingExit, StopThread, KthreadStop, KthreadStopped, NumaExit, HooksExit, HookObjs, Probes,
              BalanceWork
<1>7. CASE PressureExit
  BY <1>7 DEF PressureExit, SkipPressureExit, StopThread, KthreadStop, KthreadStopped, DestroyPsi
<1>8. CASE NetlinkExit \/ RemoveSysfsEntries \/ RemoveProcEntries
  BY <1>8 DEF NetlinkExit, RemoveSysfsEntries, RemoveProcEntries, ProcObjs, SysfsObjs, SocketInv,
              Unwritten, Monitored
<1>9. CASE Admin
  BY <1>9 DEF Admin, BeginInit, BeginExit, Reload
<1>10. ASSUME NEW t \in Thread, ThreadStep(t) PROVE ThreadsOutlived'
  BY <1>10 DEF ThreadStep, TypeOK
<1>11. CASE UNCHANGED <<pc, res, running, thread>> /\ toggled \subseteq toggled'
  BY <1>11
<1> QED
  BY <1>1, <1>2, <1>3, <1>4, <1>5, <1>6, <1>7, <1>8, <1>9, <1>10, <1>11
  DEF Next, InitTask, ExitTask, WriteParam, EnabledStore, ProbeFires

\* Every other step that releases something releases what is held.
LEMMA DoubleReleaseKept == ASSUME IndInv, Next PROVE DoubleReleaseExplained'
<1> USE DEF IndInv, DoubleReleaseExplained, Goto, Acquire, Release, HoldAll, BalanceWork, PsiObjs
<1>1. CASE CreateProcEntries
  BY <1>1, ProcFailure DEF CreateProcEntries
<1>2. CASE PressureInit
  BY <1>2 DEF PressureInit, PressureStarts, PressureSpawnFails, PressureFails
<1>3. CASE DestroyPsi
  BY <1>3 DEF DestroyPsi, PsiInv, Unwritten, Monitored
<1>4. CASE RemoveSysfsEntries \/ RemoveProcEntries
  BY <1>4 DEF RemoveSysfsEntries, RemoveProcEntries, EntriesInv
<1>5. CASE NumaExit
  BY <1>5 DEF NumaExit
<1>6. CASE Reload
  BY <1>6 DEF Reload
<1>7. ASSUME NEW p \in Param, WriteParam(p) PROVE DoubleReleaseExplained'
  BY <1>7 DEF WriteParam, TypeOK, Param
<1>8. CASE UNCHANGED <<bad, spawnFailed, params, toggled>>
  BY <1>8
<1> QED
  BY <1>1, <1>2, <1>3, <1>4, <1>5, <1>6, <1>7, <1>8
  DEF Next, InitTask, ExitTask, Admin, CreateSysfsEntries, NetlinkInit, HooksInit, NumaInit,
      TrackingInit, NumaTable, TrackingExit, StopThread, KthreadStop, KthreadStopped, HooksExit,
      PressureExit, SkipPressureExit, NetlinkExit, BeginInit, BeginExit, ThreadStep, EnabledStore,
      ProbeFires

LEMMA TypeKept == ASSUME IndInv, Next PROVE TypeOK'
<1> USE DEF IndInv, TypeOK, Goto, Acquire, Release, HoldAll, InitSteps, ExitSteps, Objects, BalanceWork
<1>1. CASE CreateProcEntries
  BY <1>1, ProcFailure DEF CreateProcEntries
<1>2. CASE CreateSysfsEntries \/ NetlinkInit
  BY <1>2 DEF CreateSysfsEntries, NetlinkInit
<1>3. CASE PressureInit
  BY <1>3 DEF PressureInit, PressureStarts, PressureSpawnFails, PressureFails, Thread
<1>4. CASE HooksInit
  BY <1>4 DEF HooksInit, HookObjs, Probes
<1>5. CASE NumaInit \/ TrackingInit
  BY <1>5 DEF NumaInit, TrackingInit, NumaTable, Thread
<1>6. CASE TrackingExit \/ NumaExit \/ HooksExit
  BY <1>6 DEF TrackingExit, StopThread, KthreadStop, KthreadStopped, NumaExit, HooksExit, Thread
<1>7. CASE PressureExit
  BY <1>7 DEF PressureExit, SkipPressureExit, StopThread, KthreadStop, KthreadStopped, DestroyPsi, Thread
<1>8. CASE NetlinkExit \/ RemoveSysfsEntries \/ RemoveProcEntries
  BY <1>8 DEF NetlinkExit, RemoveSysfsEntries, RemoveProcEntries
<1>9. CASE Admin
  BY <1>9 DEF Admin, BeginInit, BeginExit, Reload, Thread
<1>10. ASSUME NEW t \in Thread, ThreadStep(t) PROVE TypeOK'
  BY <1>10 DEF ThreadStep
<1>11. ASSUME NEW p \in Param, WriteParam(p) PROVE TypeOK'
  BY <1>11 DEF WriteParam
<1>12. ASSUME NEW v \in BOOLEAN, EnabledStore(v) PROVE TypeOK'
  BY <1>12 DEF EnabledStore
<1>13. ASSUME NEW k \in Probes, ProbeFires(k) PROVE TypeOK'
  BY <1>13 DEF ProbeFires
<1> QED
  BY <1>1, <1>2, <1>3, <1>4, <1>5, <1>6, <1>7, <1>8, <1>9, <1>10, <1>11, <1>12, <1>13
  DEF Next, InitTask, ExitTask

-----------------------------------------------------------------------------
LEMMA NextIndInv == IndInv /\ [Next]_vars => IndInv'
<1>1. ASSUME IndInv, UNCHANGED vars PROVE IndInv'
  BY <1>1 DEF vars, IndInv, TypeOK, EntriesInv, PsiInv, HooksInv, TableInv, ThreadInv, Alive, Unwritten,
              SocketInv, ThreadsOutlived, DoubleReleaseExplained
<1> QED
  BY <1>1, EntriesKept, PsiKept, HooksKept, TableKept, ThreadKept, SocketKept, OutlivedKept, DoubleReleaseKept,
     TypeKept DEF IndInv

\* No load, failed load or unload leaves the inductive invariant.
THEOREM IndInvHolds == Spec => []IndInv
  BY InitIndInv, NextIndInv, PTL DEF Spec

\* Type correctness of the module's state.
THEOREM TypeCorrect == Spec => []TypeOK
<1>1. IndInv => TypeOK
  BY DEF IndInv
<1> QED BY <1>1, IndInvHolds, PTL

\* Whatever fails in uroam_init and whoever writes a parameter meanwhile, what uroam_exit
\* leaves behind is guarded by a parameter that was written, or is the distance table
\* of uroam_tracking_init, or a probe that has fired.
THEOREM LeaksAreExplained == Spec => []LeaksExplained
<1>1. ASSUME IndInv, pc = "gone", NEW o \in res
      PROVE  \/ Guard(o) \cap toggled # {}
             \/ o = "distance_table" /\ ~params["enable_numa_aware"]
             \/ o \in moved
  <2>1. o \in PsiObjs \/ o \in HookObjs \/ o = "distance_table"
    BY <1>1 DEF IndInv, TypeOK, Objects, EntriesInv
  <2>2. CASE o \in PsiObjs
    <3>1. Guard(o) = {"enable_pressure_monitor"}
      BY <2>2 DEF Guard, PsiObjs, HookObjs, Probes
    <3> QED BY <1>1, <2>2, <3>1 DEF IndInv, PsiInv, Unwritten
  <2>3. CASE o \in HookObjs
    <3>1. Guard(o) = {"enable_allocation_hooks"}
      BY <2>3 DEF Guard, PsiObjs, HookObjs, Probes
    <3> QED BY <1>1, <2>3, <3>1 DEF IndInv, HooksInv, Unwritten, Unhooked
  <2>4. CASE o = "distance_table"
    <3>1. Guard(o) = {"enable_numa_aware"}
      BY <2>4 DEF Guard, PsiObjs, HookObjs, Probes
    <3> QED BY <1>1, <2>4, <3>1 DEF IndInv, TableInv, Unwritten, Unhooked
  <2> QED BY <2>1, <2>2, <2>3, <2>4
<1>2. IndInv => LeaksExplained
  BY <1>1 DEF LeaksExplained
<1> QED BY <1>2, IndInvHolds, PTL

\* What is torn down without being there: the PSI trigger and group, only after
\* kthread_run failed or enable_pressure_monitor was written; and the balancer's work,
\* which nobody sets up, on the way down through uroam_numa_exit.
THEOREM DoubleReleasesAreExplained == Spec => []DoubleReleaseExplained
<1>1. IndInv => DoubleReleaseExplained
  BY DEF IndInv
<1> QED BY <1>1, IndInvHolds, PTL

\* uroam_exit never takes the PSI group from the running monitor nor anything from the
\* running tracker, and the netlink socket from the monitor only when its exit was
\* skipped because the parameter was written.
THEOREM ThreadsDoNotOutlive == Spec => []ThreadsOutlived
<1>1. IndInv => ThreadsOutlived
  BY DEF IndInv
<1> QED BY <1>1, IndInvHolds, PTL
=============================================================================
