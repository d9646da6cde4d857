---------------------------- MODULE KernelModule ----------------------------
(***************************************************************************)
(* Loading and unloading the kernel module uroam (kernel/main.c): the      *)
(* subsystems uroam_init brings up one after the other, the goto chain     *)
(* that takes them down when one of them fails, uroam_exit, the two        *)
(* kthreads that run meanwhile, and the module parameters, which are       *)
(* writable (0644) and consulted again on the way down.                    *)
(*                                                                         *)
(* A subsystem is the set of kernel objects it holds.  Releasing an object *)
(* that is not held is recorded in "bad".  Where kthread_stop is given a   *)
(* thread that has already returned, nothing keeps its task_struct: the    *)
(* call returns, or touches freed memory and rmmod is "lost".              *)
(***************************************************************************)
EXTENDS Naturals, FiniteSets

VARIABLES
  pc,        \* where insmod, or rmmod, is
  params,    \* the module parameters
  toggled,   \* the parameters written since insmod began
  multi,     \* the machine has more than one NUMA node
  enabled,   \* uroam_global_state.enabled
  res,       \* kernel objects held
  bad,       \* objects released while not held
  running,   \* running[t]: the flag pressure_monitor_running / tracking_running
  thread,    \* thread[t]: where the kthread is
  spawnFailed, \* the pressure kthread could not be created in this load
  moved      \* kprobes that have fired: their address is no longer the probed one

vars == <<pc, params, toggled, multi, enabled, res, bad, running, thread, spawnFailed, moved>>

Param   == {"enable_pressure_monitor", "enable_allocation_hooks", "enable_numa_aware",
            "use_ftrace"}
Thread  == {"pressure", "tracking"}

ProcObjs  == {"proc_dir", "proc_status", "proc_config", "proc_stats"}
SysfsObjs == {"kobj", "attr"}
PsiObjs   == {"psi_group", "psi_trigger"}
Probes    == {"kp_mmap", "kp_brk"}
HookObjs  == Probes \cup {"ftrace_buffer"}
Objects   == ProcObjs \cup SysfsObjs \cup {"nl_sock"} \cup PsiObjs \cup HookObjs
               \cup {"distance_table"}

\* The balancer's work is cancelled on the way down, and nobody sets it up:
\* uroam_numa_enable_balancer(true) has no caller.
BalanceWork == {"numa_balance_work"}

InitSteps == {"proc", "sysfs", "netlink", "pressure", "hooks", "numa", "tracking"}
ExitSteps == {"exit_tracking", "stop_tracking", "join_tracking", "exit_numa", "exit_hooks",
              "exit_pressure", "stop_pressure", "join_pressure", "exit_psi", "exit_netlink",
              "exit_sysfs", "exit_proc"}

TypeOK ==
  /\ pc \in InitSteps \cup ExitSteps \cup {"out", "loaded", "gone", "lost"}
  /\ params \in [Param -> BOOLEAN] /\ toggled \in SUBSET Param
  /\ multi \in BOOLEAN /\ enabled \in BOOLEAN /\ spawnFailed \in BOOLEAN
  /\ res \in SUBSET Objects /\ bad \in SUBSET (Objects \cup BalanceWork) /\ moved \in SUBSET Probes
  /\ running \in [Thread -> BOOLEAN]
  /\ thread \in [Thread -> {"none", "top", "work", "sleep", "dead"}]

Init ==
  /\ pc = "out"
  /\ params \in [Param -> BOOLEAN] /\ toggled = {}
  /\ multi \in BOOLEAN
  /\ enabled = FALSE
  /\ res = {} /\ bad = {}
  /\ running = [t \in Thread |-> FALSE]
  /\ thread = [t \in Thread |-> "none"]
  /\ spawnFailed = FALSE /\ moved = {}

Alive(t) == thread[t] \in {"top", "work", "sleep"}

Acquire(objs) == res' = res \cup objs /\ UNCHANGED bad
Release(objs) == res' = res \ objs /\ bad' = bad \cup (objs \ res)
HoldAll       == UNCHANGED <<res, bad>>

Goto(from, to) == pc = from /\ pc' = to

-----------------------------------------------------------------------------
(* uroam_init.  Every step either goes on to the next subsystem or enters   *)
(* the cleanup chain, whose labels are the steps of uroam_exit.             *)

BeginInit ==
  /\ Goto("out", "proc")
  /\ enabled' = TRUE
  /\ UNCHANGED <<params, toggled, multi, res, bad, running, thread, spawnFailed, moved>>

\* Defect: the goto labels are one off, each also removes the entry that failed.
ProcLabelOffByOne ==
  /\ pc = "proc"
  /\ \/ Acquire(ProcObjs) /\ pc' = "sysfs"
     \/ /\ bad' = bad \cup {"proc_config"} /\ UNCHANGED res
        /\ pc' = "gone"
  /\ UNCHANGED <<params, toggled, multi, enabled, running, thread, spawnFailed, moved>>

\* uroam_create_proc_entries: when the k-th entry cannot be created, the goto
\* labels remove the earlier ones.
ProcOrder == <<"proc_dir", "proc_status", "proc_config", "proc_stats">>
CreateProcEntries ==
  /\ pc = "proc"
  /\ \/ Acquire(ProcObjs) /\ pc' = "sysfs"
     \/ \E k \in 1..4 :
          LET made    == {ProcOrder[i] : i \in 1..k - 1}
              removed == {o \in ProcObjs : \/ k >= 4 /\ o = "proc_config"
                                           \/ k >= 3 /\ o = "proc_status"
                                           \/ k >= 2 /\ o = "proc_dir"}
          IN /\ res' = (res \cup made) \ removed
             /\ bad' = bad \cup (removed \ made)
             /\ pc' = "gone"
  /\ UNCHANGED <<params, toggled, multi, enabled, running, thread, spawnFailed, moved>>

CreateSysfsEntries ==
  /\ pc = "sysfs"
  /\ \/ Acquire(SysfsObjs) /\ pc' = "netlink"
     \/ HoldAll /\ pc' = "exit_proc"     \* no kobject, or no file and the kobject put
  /\ UNCHANGED <<params, toggled, multi, enabled, running, thread, spawnFailed, moved>>

NetlinkInit ==
  /\ pc = "netlink"
  /\ \/ Acquire({"nl_sock"}) /\ pc' = "pressure"
     \/ HoldAll /\ pc' = "exit_sysfs"
  /\ UNCHANGED <<params, toggled, multi, enabled, running, thread, spawnFailed, moved>>

\* uroam_pressure_init.  The return value is that of psi_trigger_create even
\* when the kthread cannot be created: the trigger and the group have been
\* destroyed, and uroam_init goes on.
PressureStarts ==
  /\ Acquire(PsiObjs) /\ pc' = "hooks"
  /\ running' = [running EXCEPT !["pressure"] = TRUE]
  /\ thread' = [thread EXCEPT !["pressure"] = "top"]
  /\ UNCHANGED spawnFailed

PressureSpawnFails ==
  /\ HoldAll /\ pc' = "hooks"
  /\ spawnFailed' = TRUE
  /\ UNCHANGED <<running, thread>>

PressureFails ==        \* no group, or no trigger and the group cleaned up
  /\ HoldAll /\ pc' = "exit_netlink"
  /\ UNCHANGED <<running, thread, spawnFailed>>

PressureInit ==
  /\ pc = "pressure"
  /\ IF params["enable_pressure_monitor"]
     THEN PressureStarts \/ PressureSpawnFails \/ PressureFails
     ELSE HoldAll /\ pc' = "hooks" /\ UNCHANGED <<running, thread, spawnFailed>>
  /\ UNCHANGED <<params, toggled, multi, enabled, moved>>

\* uroam_hooks_init: ftrace if the parameter says so and its buffer can be had,
\* else the two kprobes, both or neither; no failure is fatal.  If the second cannot
\* be registered and the first has fired meanwhile, the first stays.
HooksInit ==
  /\ Goto("hooks", "numa")
  /\ \/ /\ params["enable_allocation_hooks"]
        /\ \/ params["use_ftrace"] /\ Acquire({"ftrace_buffer"}) /\ UNCHANGED moved
           \/ Acquire(Probes) /\ UNCHANGED moved
           \/ enabled /\ Acquire({"kp_mmap"}) /\ moved' = {"kp_mmap"}
     \/ HoldAll /\ UNCHANGED moved
  /\ UNCHANGED <<params, toggled, multi, enabled, running, thread, spawnFailed>>

\* uroam_numa_init never fails: without the distance table it goes on.
NumaTable == IF multi /\ "distance_table" \notin res
             THEN HoldAll \/ Acquire({"distance_table"}) ELSE HoldAll

NumaInit ==
  /\ Goto("numa", "tracking")
  /\ IF params["enable_numa_aware"] THEN NumaTable ELSE HoldAll
  /\ UNCHANGED <<params, toggled, multi, enabled, running, thread, spawnFailed, moved>>

\* uroam_tracking_init calls uroam_numa_init too, whatever the parameter says.
TrackingInit ==
  /\ pc = "tracking"
  /\ \/ /\ pc' = "loaded"
        /\ running' = [running EXCEPT !["tracking"] = TRUE]
        /\ thread' = [thread EXCEPT !["tracking"] = "top"]
        /\ NumaTable
     \/ /\ pc' = "exit_numa" /\ HoldAll
        /\ UNCHANGED <<running, thread>>
  /\ UNCHANGED <<params, toggled, multi, enabled, spawnFailed, moved>>

-----------------------------------------------------------------------------
(* uroam_exit, and from exit_numa on also the cleanup chain of uroam_init.  *)

BeginExit ==
  /\ Goto("loaded", "exit_tracking")
  /\ enabled' = FALSE
  /\ UNCHANGED <<params, toggled, multi, res, bad, running, thread, spawnFailed, moved>>

\* Defect: the thread is woken, but its flag is not cleared.
StopFlagKept(t, from, call, past) ==
  /\ pc = from
  /\ pc' = IF running[t] THEN call ELSE past
  /\ UNCHANGED <<params, toggled, multi, enabled, res, bad, running, thread, spawnFailed, moved>>

\* Clear the flag and wake the thread, which may leave its loop from here on.
StopThread(t, from, call, past) ==
  /\ pc = from
  /\ pc' = IF running[t] THEN call ELSE past
  /\ running' = [running EXCEPT ![t] = FALSE]
  /\ UNCHANGED <<params, toggled, multi, enabled, res, bad, thread, spawnFailed, moved>>

\* kthread_stop: the thread is waited for if it is still there; if it has returned,
\* its task_struct may have been freed, as nobody took a reference on it.
KthreadStop(t, call, join, past) ==
  /\ pc = call
  /\ IF Alive(t) THEN pc' = join ELSE pc' \in {past, "lost"}
  /\ UNCHANGED <<params, toggled, multi, enabled, res, bad, running, thread, spawnFailed, moved>>

KthreadStopped(t, join, past) ==
  /\ Goto(join, past) /\ ~Alive(t)
  /\ UNCHANGED <<params, toggled, multi, enabled, res, bad, running, thread, spawnFailed, moved>>

\* Defect: the flag is cleared and kthread_stop left out.
TrackingExitNoWait == StopThread("tracking", "exit_tracking", "exit_numa", "exit_numa")

TrackingExit == \/ StopThread("tracking", "exit_tracking", "stop_tracking", "exit_numa")
                \/ KthreadStop("tracking", "stop_tracking", "join_tracking", "exit_numa")
                \/ KthreadStopped("tracking", "join_tracking", "exit_numa")

\* uroam_numa_exit cancels the balancer's work before it frees the table.
NumaExit ==
  /\ Goto("exit_numa", "exit_hooks")
  /\ IF params["enable_numa_aware"]
     THEN Release(BalanceWork \cup (res \cap {"distance_table"})) ELSE HoldAll
  /\ UNCHANGED <<params, toggled, multi, enabled, running, thread, spawnFailed, moved>>

\* Defect: only the first kprobe is unregistered.
HooksExitFirstProbe ==
  /\ Goto("exit_hooks", "exit_pressure")
  /\ IF params["enable_allocation_hooks"]
     THEN Release(res \cap {"ftrace_buffer", "kp_mmap"}) ELSE HoldAll
  /\ UNCHANGED <<params, toggled, multi, enabled, running, thread, spawnFailed, moved>>

\* uroam_disable_hook_tracing goes by its own flags, not by the parameter.  A probe
\* is looked up by its address: unregister_kprobe does not find one that has fired.
HooksExit ==
  /\ Goto("exit_hooks", "exit_pressure")
  /\ IF params["enable_allocation_hooks"] THEN Release((res \cap HookObjs) \ moved) ELSE HoldAll
  /\ UNCHANGED <<params, toggled, multi, enabled, running, thread, spawnFailed, moved>>

SkipPressureExit ==
  /\ Goto("exit_pressure", "exit_netlink") /\ ~params["enable_pressure_monitor"]
  /\ UNCHANGED <<params, toggled, multi, enabled, res, bad, running, thread, spawnFailed, moved>>

\* The trigger and the group are destroyed whether or not they are there.
DestroyPsi ==
  /\ Goto("exit_psi", "exit_netlink")
  /\ Release(PsiObjs)
  /\ UNCHANGED <<params, toggled, multi, enabled, running, thread, spawnFailed, moved>>

PressureExit ==
  \/ SkipPressureExit
  \/ /\ params["enable_pressure_monitor"]
     /\ StopThread("pressure", "exit_pressure", "stop_pressure", "exit_psi")
  \/ KthreadStop("pressure", "stop_pressure", "join_pressure", "exit_psi")
  \/ KthreadStopped("pressure", "join_pressure", "exit_psi")
  \/ DestroyPsi

NetlinkExit ==
  /\ Goto("exit_netlink", "exit_sysfs")
  /\ Release(res \cap {"nl_sock"})
  /\ UNCHANGED <<params, toggled, multi, enabled, running, thread, spawnFailed, moved>>

RemoveSysfsEntries ==
  /\ Goto("exit_sysfs", "exit_proc")
  /\ Release(SysfsObjs)
  /\ UNCHANGED <<params, toggled, multi, enabled, running, thread, spawnFailed, moved>>

RemoveProcEntries ==
  /\ Goto("exit_proc", "gone")
  /\ Release(ProcObjs)
  /\ UNCHANGED <<params, toggled, multi, enabled, running, thread, spawnFailed, moved>>

\* A clean unload leaves a machine the module can be loaded into again; cancelling
\* a work that is still all zeros is a warning and no more.
Reload ==
  /\ Goto("gone", "out")
  /\ res = {} /\ bad \subseteq BalanceWork /\ bad' = {} /\ \A t \in Thread : ~Alive(t)
  /\ toggled' = {} /\ enabled' = FALSE /\ spawnFailed' = FALSE /\ moved' = {}
  /\ thread' = [t \in Thread |-> "none"] /\ running' = [t \in Thread |-> FALSE]
  /\ UNCHANGED <<params, multi, res>>

-----------------------------------------------------------------------------
(* What happens besides: the kthreads, and root writing to sysfs.           *)

\* pressure_monitor_fn and tracking_thread_fn have the same loop: test the flag,
\* work, wait for the timeout or for the flag to be cleared.
ThreadStep(t) ==
  /\ \/ /\ thread[t] = "top"
        /\ thread' = [thread EXCEPT ![t] = IF running[t] THEN "work" ELSE "dead"]
     \/ /\ thread[t] = "work"
        /\ thread' = [thread EXCEPT ![t] = "sleep"]
     \/ /\ thread[t] = "sleep"
        /\ thread' = [thread EXCEPT ![t] = IF running[t] THEN "top" ELSE "dead"]
  /\ UNCHANGED <<pc, params, toggled, multi, enabled, res, bad, running, spawnFailed, moved>>

\* /sys/module/uroam/parameters is there while the module is.  What the machine
\* does once rmmod is lost is not followed.
WriteParam(p) ==
  /\ pc \notin {"out", "gone", "lost"}
  /\ params' = [params EXCEPT ![p] = ~@]
  /\ toggled' = toggled \cup {p}
  /\ UNCHANGED <<pc, multi, enabled, res, bad, running, thread, spawnFailed, moved>>

\* uroam_enabled_store
EnabledStore(v) ==
  /\ "attr" \in res /\ pc # "lost"
  /\ enabled' = v
  /\ UNCHANGED <<pc, params, toggled, multi, res, bad, running, thread, spawnFailed, moved>>

\* uroam_kprobe_handler: a process calls mmap or brk while the module is enabled, and
\* the handler writes the address of a function of its own into the probe.
ProbeFires(k) ==
  /\ k \in res /\ enabled /\ pc \notin {"gone", "lost"}
  /\ moved' = moved \cup {k}
  /\ UNCHANGED <<pc, params, toggled, multi, enabled, res, bad, running, thread, spawnFailed>>

InitTask ==
  \/ CreateProcEntries \/ CreateSysfsEntries \/ NetlinkInit \/ PressureInit \/ HooksInit
  \/ NumaInit \/ TrackingInit

ExitTask ==
  \/ TrackingExit \/ NumaExit \/ HooksExit \/ PressureExit \/ NetlinkExit
  \/ RemoveSysfsEntries \/ RemoveProcEntries

Admin == BeginInit \/ BeginExit \/ Reload

Next ==
  \/ InitTask \/ ExitTask \/ Admin
  \/ \E t \in Thread : ThreadStep(t)
  \/ \E p \in Param : WriteParam(p)
  \/ \E v \in BOOLEAN : EnabledStore(v)
  \/ \E k \in Probes : ProbeFires(k)

\* insmod, rmmod and the kthreads run when they can; root need do nothing.
Spec == /\ Init /\ [][Next]_vars
        /\ WF_vars(InitTask) /\ WF_vars(ExitTask)
        /\ \A t \in Thread : WF_vars(ThreadStep(t))

-----------------------------------------------------------------------------
\* The parameter that guards an object's release.
Guard(o) == CASE o \in PsiObjs -> {"enable_pressure_monitor"}
              [] o \in HookObjs -> {"enable_allocation_hooks"}
              [] o = "distance_table" -> {"enable_numa_aware"}
              [] OTHER -> {}

\* Wherever uroam_init fails and whatever the threads do, after the module is
\* gone an object is still held only if the parameter guarding its release was
\* written in between, or it is the distance table, which uroam_tracking_init
\* allocates with enable_numa_aware off and uroam_exit then leaves behind, or a
\* probe that has fired.
LeaksExplained ==
  pc = "gone" => \A o \in res : \/ Guard(o) \cap toggled # {}
                                \/ o = "distance_table" /\ ~params["enable_numa_aware"]
                                \/ o \in moved

\* What is torn down without being there has two causes.  The PSI trigger and
\* group are, after the pressure kthread could not be created or its parameter was
\* written; the balancer's work is, whenever the NUMA code goes down, without
\* any failure: with enable_numa_aware on, or switched on meanwhile.
DoubleReleaseExplained ==
  /\ bad \subseteq PsiObjs \cup BalanceWork
  /\ bad \cap PsiObjs # {} => spawnFailed \/ "enable_pressure_monitor" \in toggled
  /\ bad \cap BalanceWork # {} => params["enable_numa_aware"] \/ "enable_numa_aware" \in toggled

\* A kthread finds what it touches there.  The tracker's netlink socket and NUMA
\* table are not released before it has ended, and the PSI group of the monitor
\* never is; but the monitor reports through the netlink socket, and that goes
\* under it when enable_pressure_monitor was written, as its exit is then skipped.
ThreadsOutlived ==
  /\ Alive("pressure") => /\ PsiObjs \subseteq res
                          /\ "nl_sock" \in res \/ "enable_pressure_monitor" \in toggled
  /\ Alive("tracking") =>
       /\ "nl_sock" \in res
       /\ pc \in {"loaded", "exit_tracking", "stop_tracking", "join_tracking"}

\* rmmod ends, wherever its kthreads are in their loops: no kthread_stop waits for
\* ever.  It may end in "lost" alone because a thread had returned before the call.
UnloadEnds == (pc = "exit_tracking") ~> (pc \in {"gone", "lost"})

\* Unloading takes down everything loading put up.
CleanupComplete ==
  pc = "gone" => res = {} /\ \A t \in Thread : ~Alive(t)
=============================================================================
