------------------------------ MODULE Pressure ------------------------------
(***************************************************************************)
(* Memory pressure of the kernel module: the monitor thread and the PSI    *)
(* callbacks (kernel/pressure.c) publish a level through                   *)
(* uroam_notify_pressure (kernel/main.c) under uroam_state_lock, and user  *)
(* space asks for it over netlink (kernel/ipc.c) or reads /proc.           *)
(*                                                                         *)
(* pressure_count is a u64 that wraps at CountMod.  Every message carries  *)
(* the count at the time it is built, so the model keeps the level that    *)
(* belongs to the current count (counted) and leaves the count out of msg. *)
(***************************************************************************)
EXTENDS Integers

CONSTANTS
  Contexts,   \* contexts a PSI callback can run in
  CountMod    \* 2^64 in the code

ASSUME PressureAssumption ==
  /\ CountMod \in Nat \ {0, 1}
  /\ "monitor" \notin Contexts /\ "free" \notin Contexts

VARIABLES
  psi,      \* the memory pressure of the machine
  enabled,  \* uroam_global_state.enabled
  lock,     \* holder of uroam_state_lock
  level,    \* uroam_global_state.pressure_level
  count,    \* uroam_global_state.pressure_count
  counted,  \* the level that belongs to the current count
  task,     \* task[s]: where a notifier is, and the level it publishes
  query,    \* the netlink receive handler answering a pressure query
  msg       \* the last message sent to user space

vars == <<psi, enabled, lock, level, count, counted, task, query, msg>>

Level    == {"NONE", "SOME", "FULL"}
Notifier == Contexts \cup {"monitor"}
Counter  == 0..CountMod - 1

Next1(n) == (n + 1) % CountMod

TypeOK ==
  /\ psi \in Level /\ enabled \in BOOLEAN
  /\ lock \in Notifier \cup {"free"}
  /\ level \in Level /\ count \in Counter
  /\ counted \in Level
  /\ task \in [Notifier -> [at : {"idle", "enter", "count", "send"}, level : Level]]
  /\ query \in [at : {"idle", "read"}, level : Level]
  /\ msg \in [kind : {"none", "notify", "stats", "status", "reply"}, level : Level]

Init ==
  /\ psi \in Level /\ enabled = TRUE
  /\ lock = "free" /\ level = "SOME" /\ count = 0
  /\ counted = "SOME"
  /\ task = [s \in Notifier |-> [at |-> "idle", level |-> "NONE"]]
  /\ query = [at |-> "idle", level |-> "NONE"]
  /\ msg = [kind |-> "none", level |-> "NONE"]

Set(s, place, l) == task' = [task EXCEPT ![s] = [at |-> place, level |-> l]]
Send(k, l)       == msg' = [kind |-> k, level |-> l]

-----------------------------------------------------------------------------
(* uroam_notify_pressure, by the monitor and by the callbacks.              *)

\* Defect: the level is stored without taking the lock.
EnterUnlocked(s) ==
  /\ task[s].at = "enter"
  /\ lock' = s
  /\ level' = task[s].level
  /\ Set(s, "count", task[s].level)
  /\ UNCHANGED <<psi, enabled, count, counted, query, msg>>

NotifyEnter(s) ==
  /\ task[s].at = "enter" /\ lock = "free"
  /\ lock' = s
  /\ level' = task[s].level
  /\ Set(s, "count", task[s].level)
  /\ UNCHANGED <<psi, enabled, count, counted, query, msg>>

NotifyCount(s) ==
  /\ task[s].at = "count"
  /\ count' = Next1(count)
  /\ counted' = level
  /\ Set(s, "send", task[s].level)
  /\ UNCHANGED <<psi, enabled, lock, level, query, msg>>

\* uroam_netlink_send_pressure reads the count; the message is lost when no
\* buffer can be had or nobody listens.  Then the lock is released.
NotifySend(s) ==
  /\ task[s].at = "send"
  /\ Send("notify", task[s].level) \/ UNCHANGED msg
  /\ lock' = "free"
  /\ Set(s, "idle", "NONE")
  /\ UNCHANGED <<psi, enabled, level, count, counted, query>>

-----------------------------------------------------------------------------
(* pressure_monitor_fn and uroam_psi_update.                                *)

\* Defect: the monitor reports only pressure, never its end.
CheckPressureOnly ==
  /\ task["monitor"].at = "idle" /\ enabled /\ psi # "NONE"
  /\ Set("monitor", "enter", psi)
  /\ UNCHANGED <<psi, enabled, lock, level, count, counted, query, msg>>

\* Every second uroam_pressure_check publishes the level PSI shows at that
\* moment; it does nothing while the module is disabled.
PressureCheck ==
  /\ task["monitor"].at = "idle" /\ enabled
  /\ Set("monitor", "enter", psi)
  /\ UNCHANGED <<psi, enabled, lock, level, count, counted, query, msg>>

\* A change of the machine's pressure runs the trigger's callback in some
\* context, with no regard to enabled; it knows only pressure or no pressure.
PsiUpdate(c, l) ==
  /\ psi # l /\ task[c].at = "idle"
  /\ psi' = l
  /\ Set(c, "enter", IF l = "NONE" THEN "NONE" ELSE "FULL")
  /\ UNCHANGED <<enabled, lock, level, count, counted, query, msg>>

-----------------------------------------------------------------------------
(* uroam_netlink_rcv, uroam_netlink_send_stats, the sysfs switch.           *)

\* A pressure query reads the level and then, in uroam_netlink_send_pressure,
\* the count, without the lock.
PressureQuery ==
  /\ query.at = "idle"
  /\ query' = [at |-> "read", level |-> level]
  /\ UNCHANGED <<psi, enabled, lock, level, count, counted, task, msg>>

PressureReply ==
  /\ query.at = "read"
  /\ Send("reply", query.level) \/ UNCHANGED msg
  /\ query' = [at |-> "idle", level |-> "NONE"]
  /\ UNCHANGED <<psi, enabled, lock, level, count, counted, task>>

\* Defect: the statistics are copied without the lock.
StatsUnlocked ==
  /\ query.at = "idle"
  /\ Send("stats", level) \/ UNCHANGED msg
  /\ UNCHANGED <<psi, enabled, lock, level, count, counted, task, query>>

\* uroam_netlink_send_stats copies level and count under the lock.
StatsQuery ==
  /\ query.at = "idle" /\ lock = "free"
  /\ Send("stats", level) \/ UNCHANGED msg
  /\ UNCHANGED <<psi, enabled, lock, level, count, counted, task, query>>

\* uroam_proc_status_show prints level and count under the lock.
ProcStatusShow ==
  /\ lock = "free"
  /\ Send("status", level)
  /\ UNCHANGED <<psi, enabled, lock, level, count, counted, task, query>>

EnabledStore(v) ==
  /\ lock = "free" /\ enabled # v
  /\ enabled' = v
  /\ UNCHANGED <<psi, lock, level, count, counted, task, query, msg>>

Notify(s) == NotifyEnter(s) \/ NotifyCount(s) \/ NotifySend(s)

Next ==
  \/ \E s \in Notifier : Notify(s)
  \/ PressureCheck
  \/ \E c \in Contexts, l \in Level : PsiUpdate(c, l)
  \/ PressureQuery \/ PressureReply \/ StatsQuery \/ ProcStatusShow
  \/ \E v \in BOOLEAN : EnabledStore(v)

\* The kthread and the callbacks are scheduled; a waiter gets the spinlock if
\* it is free again and again (queued spinlocks are fair).
Fairness ==
  /\ \A s \in Notifier : /\ SF_vars(NotifyEnter(s))
                         /\ WF_vars(NotifyCount(s) \/ NotifySend(s))
  /\ WF_vars(PressureCheck)

Spec == Init /\ [][Next]_vars

FairSpec == Spec /\ Fairness

-----------------------------------------------------------------------------
\* Whoever takes the lock finds the level and the count of the same
\* notification, however monitor and callbacks overtake each other.
QuiescentConsistent == lock = "free" => level = counted

\* The module implements the register of LevelRegister: a write begins when the
\* level is stored and is complete when it is counted.  Notifications, statistics
\* and /proc carry the level that belongs to the count; a netlink query, which
\* takes no lock, answers with the level before or after the write it overlaps.
Register == INSTANCE LevelRegister WITH
  published <- counted,
  serial    <- count,
  writing   <- {task[s].level : s \in {t \in Notifier : task[t].at = "count"}},
  asked     <- IF query.at = "read" THEN query.level ELSE "nothing"

ImplementsRegister == Register!Spec

\* If the machine's pressure settles while the module stays enabled, so does
\* the published level, although callbacks say FULL for any pressure and may
\* run after a newer check: the next check of the monitor corrects them.
LevelConverges ==
  \A l \in Level : <>[](psi = l /\ enabled) => <>[](level = l)
=============================================================================
