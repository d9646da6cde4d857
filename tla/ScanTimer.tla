------------------------------ MODULE ScanTimer ------------------------------
(***************************************************************************)
(* The second kernel module (kmod/uroam_kernel.c): a timer that re-arms    *)
(* itself and queues the scan work, the workqueue it runs on, the sysctls  *)
(* that steer it, and loading and unloading around them.                   *)
(***************************************************************************)
EXTENDS Naturals

VARIABLES
  pc,       \* where insmod, or rmmod, is
  held,     \* the proc entries and the sysctl table that are registered
  wq,       \* uroam_wq: "none", "live" or "destroyed"
  timer,    \* uroam_scan_timer
  queued,   \* uroam_scan_work is queued
  work,     \* where the work function is
  sysctl,   \* enable_uroam, enable_ksm, enable_compact
  ksm       \* ksm_run of the kernel

vars == <<pc, held, wq, timer, queued, work, sysctl, ksm>>

Switch == {"enable_uroam", "enable_ksm", "enable_compact"}

TypeOK ==
  /\ pc \in {"out", "dir", "entry", "sysctl", "loaded", "del_timer", "flush", "unregister",
             "destroy", "gone"}
  /\ held \in SUBSET {"proc_dir", "proc_entry", "sysctl_table"}
  /\ wq \in {"none", "live", "destroyed"}
  /\ timer \in {"unset", "idle", "pending", "fired", "rearm"}
  /\ queued \in BOOLEAN
  /\ work \in {"idle", "start", "ksm_merge", "compact"}
  /\ sysctl \in [Switch -> BOOLEAN]
  /\ ksm \in {"STOP", "MERGE", "UNMERGE"}

Init ==
  /\ pc = "out" /\ held = {} /\ wq = "none" /\ timer = "unset"
  /\ queued = FALSE /\ work = "idle"
  /\ sysctl = [s \in Switch |-> s = "enable_uroam"]
  /\ ksm \in {"STOP", "MERGE", "UNMERGE"}

-----------------------------------------------------------------------------
(* uroam_init: a failure undoes what is there and leaves.                   *)

AllocWorkqueue ==
  /\ pc = "out"
  /\ \/ wq' = "live" /\ timer' = "idle" /\ pc' = "dir"
     \/ pc' = "gone" /\ UNCHANGED <<wq, timer>>
  /\ UNCHANGED <<held, queued, work, sysctl, ksm>>

\* err_sysctl, err_entry, err_proc: what the label and the ones below it undo.
Fail(objs) == held' = held \ objs /\ wq' = "destroyed" /\ pc' = "gone" /\ UNCHANGED timer

ProcMkdir ==
  /\ pc = "dir"
  /\ \/ held' = held \cup {"proc_dir"} /\ pc' = "entry" /\ UNCHANGED <<wq, timer>>
     \/ Fail({})
  /\ UNCHANGED <<queued, work, sysctl, ksm>>

ProcCreate ==
  /\ pc = "entry"
  /\ \/ held' = held \cup {"proc_entry"} /\ pc' = "sysctl" /\ UNCHANGED <<wq, timer>>
     \/ Fail({"proc_dir"})
  /\ UNCHANGED <<queued, work, sysctl, ksm>>

\* Defect: the timer is armed before the last step that can fail.
ArmBeforeSysctl ==
  /\ pc = "sysctl"
  /\ \/ /\ held' = held \cup {"sysctl_table"} /\ pc' = "loaded"
        /\ timer' = "pending" /\ UNCHANGED wq
     \/ /\ held' = {} /\ wq' = "destroyed" /\ pc' = "gone" /\ timer' = "pending"
  /\ UNCHANGED <<queued, work, sysctl, ksm>>

RegisterSysctl ==
  /\ pc = "sysctl"
  /\ \/ /\ held' = held \cup {"sysctl_table"} /\ pc' = "loaded"
        /\ timer' = "pending" /\ UNCHANGED wq
     \/ Fail({"proc_entry", "proc_dir"})
  /\ UNCHANGED <<queued, work, sysctl, ksm>>

-----------------------------------------------------------------------------
(* The timer and the work.                                                  *)

TimerExpires ==
  /\ timer = "pending"
  /\ timer' = "fired"
  /\ UNCHANGED <<pc, held, wq, queued, work, sysctl, ksm>>

\* uroam_scan_timer_fn queues the work, which may still be running, then
\* arms the timer again.
QueueWork ==
  /\ timer = "fired"
  /\ queued' = TRUE
  /\ timer' = "rearm"
  /\ UNCHANGED <<pc, held, wq, work, sysctl, ksm>>

\* Defect: the handler does not arm the timer again.
TimerOneShot ==
  /\ timer = "rearm"
  /\ timer' = "idle"
  /\ UNCHANGED <<pc, held, wq, queued, work, sysctl, ksm>>

ModTimer ==
  /\ timer = "rearm"
  /\ timer' = "pending"
  /\ UNCHANGED <<pc, held, wq, queued, work, sysctl, ksm>>

\* uroam_scan_work_fn: tests ksm_run, then sets it; a work item runs once at a
\* time.
WorkBegins ==
  /\ queued /\ work = "idle"
  /\ queued' = FALSE
  /\ work' = "start"
  /\ UNCHANGED <<pc, held, wq, timer, sysctl, ksm>>

WorkChecks ==
  /\ work = "start"
  /\ work' = IF ~sysctl["enable_uroam"] THEN "idle"
             ELSE IF sysctl["enable_ksm"] /\ ksm # "STOP" THEN "ksm_merge" ELSE "compact"
  /\ UNCHANGED <<pc, held, wq, timer, queued, sysctl, ksm>>

WorkMerges ==
  /\ work = "ksm_merge"
  /\ ksm' = "MERGE"
  /\ work' = "compact"
  /\ UNCHANGED <<pc, held, wq, timer, queued, sysctl>>

WorkEnds ==       \* compaction leaves no state of its own
  /\ work = "compact"
  /\ work' = "idle"
  /\ UNCHANGED <<pc, held, wq, timer, queued, sysctl, ksm>>

-----------------------------------------------------------------------------
(* uroam_exit                                                               *)

BeginExit ==
  /\ pc = "loaded"
  /\ pc' = "del_timer"
  /\ UNCHANGED <<held, wq, timer, queued, work, sysctl, ksm>>

\* Defect: wait for the timer to run out instead of taking it off.
DelTimerWaits ==
  /\ pc = "del_timer" /\ timer = "idle"
  /\ pc' = "flush"
  /\ UNCHANGED <<held, wq, timer, queued, work, sysctl, ksm>>

\* del_timer_sync retries while the handler runs, then takes the timer off,
\* armed again or not.
DelTimerSync ==
  /\ pc = "del_timer" /\ timer \in {"idle", "pending"}
  /\ timer' = "idle"
  /\ pc' = "flush"
  /\ UNCHANGED <<held, wq, queued, work, sysctl, ksm>>

FlushWorkqueue ==
  /\ pc = "flush" /\ ~queued /\ work = "idle"
  /\ pc' = "unregister"
  /\ UNCHANGED <<held, wq, timer, queued, work, sysctl, ksm>>

\* Defect: the proc file and its directory are left to the kernel.
UnregisterTable ==
  /\ pc = "unregister"
  /\ held' = held \ {"sysctl_table"}
  /\ pc' = "destroy"
  /\ UNCHANGED <<wq, timer, queued, work, sysctl, ksm>>

Unregister ==
  /\ pc = "unregister"
  /\ held' = held \ {"sysctl_table", "proc_entry", "proc_dir"}
  /\ pc' = "destroy"
  /\ UNCHANGED <<wq, timer, queued, work, sysctl, ksm>>

DestroyWorkqueue ==
  /\ pc = "destroy" /\ ~queued /\ work = "idle"     \* drains first
  /\ wq' = "destroyed"
  /\ pc' = "gone"
  /\ UNCHANGED <<held, timer, queued, work, sysctl, ksm>>

-----------------------------------------------------------------------------
(* Root, through the sysctl table and /sys/kernel/mm/ksm/run.               *)

SysctlWrite(s) ==
  /\ "sysctl_table" \in held
  /\ sysctl' = [sysctl EXCEPT ![s] = ~@]
  /\ UNCHANGED <<pc, held, wq, timer, queued, work, ksm>>

KsmWrite(v) ==
  /\ ksm # v
  /\ ksm' = v
  /\ UNCHANGED <<pc, held, wq, timer, queued, work, sysctl>>

Loading   == ProcMkdir \/ ProcCreate \/ RegisterSysctl
Unloading == DelTimerSync \/ FlushWorkqueue \/ Unregister \/ DestroyWorkqueue
Timer     == TimerExpires \/ QueueWork \/ ModTimer
Work      == WorkBegins \/ WorkChecks \/ WorkMerges \/ WorkEnds

Next ==
  \/ AllocWorkqueue \/ Loading \/ BeginExit \/ Unloading \/ Timer \/ Work
  \/ \E s \in Switch : SysctlWrite(s)
  \/ \E v \in {"STOP", "MERGE", "UNMERGE"} : KsmWrite(v)

\* Timers expire, handlers and work run to their end, del_timer_sync keeps
\* retrying: it succeeds if the handler is again and again not running.
Spec == /\ Init /\ [][Next]_vars
        /\ WF_vars(Loading) /\ WF_vars(Timer) /\ WF_vars(Work)
        /\ SF_vars(DelTimerSync)
        /\ WF_vars(FlushWorkqueue \/ Unregister \/ DestroyWorkqueue)

-----------------------------------------------------------------------------
\* The timer handler never queues onto, and no work runs on, a workqueue that
\* is not there, on any path out of uroam_init or uroam_exit.
NoUseAfterDestroy ==
  timer \in {"pending", "fired", "rearm"} \/ queued \/ work # "idle" => wq = "live"

\* Whichever step of uroam_init fails, and after rmmod however the timer and the work
\* were caught, nothing is left registered, armed, queued, running or allocated.
NothingLeft ==
  pc = "gone" => /\ held = {} /\ wq # "live"
                 /\ timer \in {"unset", "idle"} /\ ~queued /\ work = "idle"

\* rmmod returns although the timer keeps re-arming itself and queueing work.
ExitEnds == (pc = "del_timer") ~> (pc = "gone")

\* While the module stays loaded the scan work runs again and again.
ScanRecurs == <>[](pc = "loaded") => []<>(work = "start")
=============================================================================
