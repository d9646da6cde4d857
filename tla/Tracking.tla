------------------------------ MODULE Tracking ------------------------------
(***************************************************************************)
(* The process tracker of the kernel module (kernel/tracking.c): the table *)
(* uroam_global_state.tracked_processes with its red-black tree index, the *)
(* two tasks that scan the pid space into it (the insmod task inside       *)
(* uroam_tracking_init and the kthread uroam_tracking), and the processes  *)
(* of the machine, which fork, exec and exit while a scan is under way.    *)
(*                                                                         *)
(* The tree is the set of slots linked into it: a search is by pid, and    *)
(* the shape of the tree is immaterial.  The memory and NUMA figures an    *)
(* entry carries are left out, its identity, name and class are kept.      *)
(***************************************************************************)
EXTENDS Integers, FiniteSets

CONSTANTS
  MaxPid,      \* pids are 1..MaxPid
  MaxTracked,  \* MAX_TRACKED_PROCESSES
  Comm,        \* command names
  AiComm,      \* the names an AI pattern matches
  InferComm,   \* the names holding inference, predict, query or api
  GameComm,    \* the names a gaming pattern matches
  MaxEvents    \* bound on the forks, execs and exits of a behaviour

ASSUME TrackingAssumption ==
  /\ MaxPid \in Nat \ {0}
  /\ MaxTracked \in Nat \ {0}
  /\ MaxEvents \in Nat
  /\ Comm # {}
  /\ "nopid" \notin Comm /\ "bare" \notin Comm /\ "unset" \notin Comm

VARIABLES
  procs,    \* procs[p]: name of process p, "bare" if only its struct pid is left
  events,   \* process events so far
  slots,    \* uroam_global_state.tracked_processes
  count,    \* uroam_global_state.tracked_count
  tree,     \* the slots linked into uroam_process_tree
  running,  \* tracking_running
  phase,    \* where insmod / rmmod is
  thread,   \* where the kthread is
  scan,     \* scan[s]: what scanner s is doing in uroam_tracking_scan
  sent      \* sent[p]: process updates user space received for pid p

procVars  == <<procs, events>>
tableVars == <<slots, count, tree, sent>>
vars      == <<procs, events, slots, count, tree, running, phase, thread, scan, sent>>

Pid     == 1..MaxPid
Slot    == 0..MaxTracked - 1
Scanner == {"insmod", "kthread"}

Priorities == {0, 1, 2}     \* UROAM_PRIORITY_P0, P1, P2: the ones assigned here

\* uroam_get_process_priority
ProcessPriority(c) ==
  IF c \in AiComm THEN IF c \in InferComm THEN 0 ELSE 2
  ELSE IF c \in GameComm THEN 1 ELSE 2

\* uroam_is_ai_workload and uroam_is_gaming_workload: the flags an entry gets.
ProcessClass(c) ==
  (IF c \in AiComm THEN {"is_ai_workload"} ELSE {})
    \cup (IF c \in GameComm THEN {"is_gaming"} ELSE {})

\* A slot of the table: zero until it is filled.
Info == [pid : {0} \cup Pid, comm : {"unset"} \cup Comm, priority : Priorities,
         class : SUBSET {"is_ai_workload", "is_gaming"}]

ZeroInfo == [pid |-> 0, comm |-> "unset", priority |-> 0, class |-> {}]

\* A scanner: its place in the loop, the pid it is at, the name it has read.
ScanState == [at : {"off", "find", "update", "advance"},
              pid : 1..MaxPid + 1, comm : {"unset"} \cup Comm]

At(place, p, c) == [at |-> place, pid |-> p, comm |-> c]

Idle == At("off", 1, "unset")

TypeOK ==
  /\ procs \in [Pid -> Comm \cup {"nopid", "bare"}]
  /\ events \in 0..MaxEvents
  /\ slots \in [Slot -> Info]
  /\ count \in 0..MaxTracked
  /\ tree \in SUBSET Slot
  /\ running \in BOOLEAN
  /\ phase \in {"unloaded", "scanning", "loaded", "exiting", "stopping", "exited", "lost"}
  /\ thread \in {"none", "top", "scan", "sleep", "gone"}
  /\ scan \in [Scanner -> ScanState]
  /\ sent \in [Pid -> Nat]

Init ==
  /\ procs \in [Pid -> Comm \cup {"nopid"}] /\ procs[1] # "nopid"
  /\ events = 0
  /\ slots = [i \in Slot |-> ZeroInfo]
  /\ count = 0
  /\ tree = {}
  /\ running = FALSE
  /\ phase = "unloaded"
  /\ thread = "none"
  /\ scan = [s \in Scanner |-> Idle]
  /\ sent = [p \in Pid |-> 0]

-----------------------------------------------------------------------------
(* The processes of the machine.                                           *)

ProcessEvent == events < MaxEvents /\ events' = events + 1

Fork(p, c) ==
  /\ ProcessEvent /\ procs[p] = "nopid"
  /\ procs' = [procs EXCEPT ![p] = c]
  /\ UNCHANGED <<slots, count, tree, running, phase, thread, scan, sent>>

Exec(p, c) ==
  /\ ProcessEvent /\ procs[p] \in Comm \ {c}
  /\ procs' = [procs EXCEPT ![p] = c]
  /\ UNCHANGED <<slots, count, tree, running, phase, thread, scan, sent>>

\* The struct pid outlives the task when the pid still names a group or session.
Exit(p, left) ==
  /\ ProcessEvent /\ p # 1 /\ procs[p] \notin {"nopid", left}
  /\ procs' = [procs EXCEPT ![p] = left]
  /\ UNCHANGED <<slots, count, tree, running, phase, thread, scan, sent>>

-----------------------------------------------------------------------------
(* uroam_tracking_scan, run by both scanners.                              *)

Linked(p) == {i \in tree : slots[i].pid = p}   \* uroam_process_tree_search

\* find_get_pid is an exact lookup: the first pid not in use ends the scan.
\* get_pid_task finds no task behind a bare struct pid; get_task_comm reads
\* the name before the lock is taken.
ScanFind(s) ==
  LET p == scan[s].pid IN
  /\ scan[s].at = "find"
  /\ scan' = [scan EXCEPT ![s] =
       IF p > MaxPid THEN Idle
       ELSE IF procs[p] = "nopid" THEN Idle
       ELSE IF procs[p] = "bare" THEN At("advance", p, "unset")
       ELSE At("update", p, procs[p])]
  /\ UNCHANGED <<procs, events, slots, count, tree, running, phase, thread, sent>>

\* uroam_process_tree_insert: -EEXIST leaves the tree alone.
TreeInsert(i, p) == IF Linked(p) # {} THEN tree ELSE tree \cup {i}

NewInfo(p, c) ==
  [pid |-> p, comm |-> c, priority |-> ProcessPriority(c),
   class |-> ProcessClass(c)]

\* Defect: a known pid is classified afresh.
ReclassifyProcess(p, c) ==
  /\ Linked(p) # {}
  /\ slots' = [i \in Slot |-> IF i \in Linked(p) THEN NewInfo(p, c) ELSE slots[i]]
  /\ UNCHANGED <<count, tree, sent>>

\* A known pid: memory, node and name are refreshed, priority and class are not.
RefreshProcess(p, c) ==
  /\ Linked(p) # {}
  /\ slots' = [i \in Slot |-> IF i \in Linked(p) THEN [slots[i] EXCEPT !.comm = c]
                              ELSE slots[i]]
  /\ UNCHANGED <<count, tree, sent>>

\* Defect: a pid is added without looking it up under the lock.
AddUnsearched(p, c) ==
  /\ count < MaxTracked
  /\ slots' = [slots EXCEPT ![count] = NewInfo(p, c)]
  /\ tree' = TreeInsert(count, p)
  /\ count' = count + 1
  /\ \E delivered \in {0, 1} : sent' = [sent EXCEPT ![p] = @ + delivered]

\* A new pid and a free slot: fill it, link it, count it, and send one process
\* update, which may be lost.
AddProcess(p, c) ==
  /\ Linked(p) = {} /\ count < MaxTracked
  /\ slots' = [slots EXCEPT ![count] = NewInfo(p, c)]
  /\ tree' = TreeInsert(count, p)
  /\ count' = count + 1
  /\ \E delivered \in {0, 1} : sent' = [sent EXCEPT ![p] = @ + delivered]

TableFull(p) ==
  /\ Linked(p) = {} /\ count >= MaxTracked
  /\ UNCHANGED tableVars

\* uroam_tracking_update_process under uroam_process_tree_lock.
UpdateProcess(s) ==
  LET p == scan[s].pid
      c == scan[s].comm IN
  /\ scan[s].at = "update"
  /\ RefreshProcess(p, c) \/ AddProcess(p, c) \/ TableFull(p)
  /\ scan' = [scan EXCEPT ![s] = At("advance", p, "unset")]
  /\ UNCHANGED <<procs, events, running, phase, thread>>

\* put_pid comes before pid->numbers is read for the next lookup: once the
\* process is gone the struct pid is freed, and may already name another one.
NextPids(p) ==
  {p + 1} \cup (IF procs[p] = "nopid"
                THEN {q + 1 : q \in {q \in Pid : procs[q] # "nopid"}} ELSE {})

\* Defect: the scan leaves after its first process.
AdvanceStops(s) ==
  /\ scan[s].at = "advance"
  /\ scan' = [scan EXCEPT ![s] = Idle]
  /\ UNCHANGED <<procs, events, slots, count, tree, running, phase, thread, sent>>

ScanAdvance(s) ==
  /\ scan[s].at = "advance"
  /\ \E q \in NextPids(scan[s].pid) :
       scan' = [scan EXCEPT ![s] = At("find", q, "unset")]
  /\ UNCHANGED <<procs, events, slots, count, tree, running, phase, thread, sent>>

StartScan(s) == scan' = [scan EXCEPT ![s] = At("find", 1, "unset")]

-----------------------------------------------------------------------------
(* The kthread, tracking_thread_fn.                                        *)

ThreadTop ==
  /\ thread = "top"
  /\ IF running THEN thread' = "scan" /\ StartScan("kthread")
                ELSE thread' = "gone" /\ UNCHANGED scan
  /\ UNCHANGED <<procs, events, slots, count, tree, running, phase, sent>>

ThreadScanned ==
  /\ thread = "scan" /\ scan["kthread"].at = "off"
  /\ thread' = "sleep"
  /\ UNCHANGED <<procs, events, slots, count, tree, running, phase, scan, sent>>

\* wait_event_interruptible_timeout is 0 at the 5 s timeout with the condition
\* still false, and positive once tracking_running is false.
ThreadWake ==
  /\ thread = "sleep"
  /\ thread' = IF running THEN "top" ELSE "gone"
  /\ UNCHANGED <<procs, events, slots, count, tree, running, phase, scan, sent>>

-----------------------------------------------------------------------------
(* uroam_tracking_init and uroam_tracking_exit.                            *)

TrackingInit ==
  /\ phase = "unloaded"
  /\ count' = 0
  /\ running' = TRUE
  /\ thread' = "top"
  /\ phase' = "scanning"
  /\ StartScan("insmod")
  /\ UNCHANGED <<procs, events, slots, tree, sent>>

\* kthread_run fails: the flag is taken back and the module does not load.
TrackingInitFails ==
  /\ phase = "unloaded"
  /\ count' = 0
  /\ running' = FALSE
  /\ phase' = "exited"
  /\ UNCHANGED <<procs, events, slots, tree, thread, scan, sent>>

InitialScanDone ==
  /\ phase = "scanning" /\ scan["insmod"].at = "off"
  /\ phase' = "loaded"
  /\ UNCHANGED <<procs, events, slots, count, tree, running, thread, scan, sent>>

\* Defect: the thread is woken, but its flag stays set.
ExitFlagKept ==
  /\ phase = "loaded"
  /\ phase' = "exiting"
  /\ UNCHANGED <<procs, events, slots, count, tree, running, thread, scan, sent>>

\* tracking_running is cleared and the kthread woken, before kthread_stop.
TrackingExit ==
  /\ phase = "loaded"
  /\ running' = FALSE
  /\ phase' = "exiting"
  /\ UNCHANGED <<procs, events, slots, count, tree, thread, scan, sent>>

\* The thread is waited for if it is there.  If it has already left its loop, as
\* the flag and the wake-up above let it, nobody holds its task_struct: the call
\* returns, or touches freed memory and rmmod does not come back.
KthreadStop ==
  /\ phase = "exiting"
  /\ IF thread = "gone" THEN phase' \in {"stopping", "lost"} ELSE phase' = "stopping"
  /\ UNCHANGED <<procs, events, slots, count, tree, running, thread, scan, sent>>

\* Defect: exit does not wait for the thread.
ExitWithoutWaiting ==
  /\ phase = "stopping"
  /\ count' = 0
  /\ phase' = "exited"
  /\ UNCHANGED <<procs, events, slots, tree, running, thread, scan, sent>>

\* kthread_stop returns when the thread function has: the count is cleared,
\* the tree is not.
TrackingExitDone ==
  /\ phase = "stopping" /\ thread = "gone"
  /\ count' = 0
  /\ phase' = "exited"
  /\ UNCHANGED <<procs, events, slots, tree, running, thread, scan, sent>>

\* The module's memory goes with it and a later insmod starts from zero.
Unload ==
  /\ phase = "exited"
  /\ slots' = [i \in Slot |-> ZeroInfo]
  /\ count' = 0 /\ tree' = {} /\ running' = FALSE
  /\ phase' = "unloaded" /\ thread' = "none"
  /\ scan' = [s \in Scanner |-> Idle]
  /\ sent' = [p \in Pid |-> 0]
  /\ UNCHANGED procVars

-----------------------------------------------------------------------------
Machine ==
  \E p \in Pid :
    \/ \E c \in Comm : Fork(p, c) \/ Exec(p, c)
    \/ \E left \in {"nopid", "bare"} : Exit(p, left)

Scan(s) == ScanFind(s) \/ UpdateProcess(s) \/ ScanAdvance(s)

Kthread == ThreadTop \/ ThreadScanned \/ ThreadWake

InitTask == InitialScanDone \/ KthreadStop \/ TrackingExitDone

Next ==
  \/ Machine
  \/ \E s \in Scanner : Scan(s)
  \/ Kthread
  \/ InitTask
  \/ TrackingInit \/ TrackingInitFails \/ TrackingExit \/ Unload

\* The scheduler runs every runnable task: no fairness for the administrator
\* (load, unload) nor for the processes of the machine.
Fairness ==
  /\ \A s \in Scanner : WF_vars(Scan(s))
  /\ WF_vars(Kthread)
  /\ WF_vars(InitTask)

Spec == Init /\ [][Next]_vars

FairSpec == Spec /\ Fairness

-----------------------------------------------------------------------------
InService == phase \in {"scanning", "loaded", "exiting", "stopping", "lost"}

Tracked(p) == \E i \in 0..count - 1 : slots[i].pid = p

\* However the two scans interleave with each other and with pids that die and
\* are reused, no pid occupies two slots and the tree links exactly the slots
\* in use, so a lookup finds every tracked process, and finds it once.
TableConsistent ==
  InService =>
    /\ tree = 0..count - 1
    /\ \A i, j \in tree : slots[i].pid = slots[j].pid => i = j
    /\ \A i \in tree : slots[i].pid \in Pid

\* User space is told of a pid at most once per load, and only of pids that
\* are in the table: an update lost by netlink is never repeated.
AnnouncedOnce ==
  InService => \A p \in Pid : sent[p] <= 1 /\ (sent[p] = 1 => Tracked(p))

\* Once uroam_tracking_exit has returned nobody reads or writes the table, so
\* the module's memory may go.
QuietAfterExit ==
  phase = "exited" => /\ thread \in {"none", "gone"} /\ ~running
                      /\ \A s \in Scanner : scan[s].at = "off"

\* A slot in use belongs to its pid, with the class it was given, until exit.
SlotsStable ==
  [][\A i \in Slot : InService /\ InService' /\ i < count =>
       /\ slots'[i].pid = slots[i].pid
       /\ slots'[i].priority = slots[i].priority
       /\ i < count']_vars

\* The tracker implements the register of ProcessRegistry: with two scans on a
\* machine whose processes change and whose pids are reused, every pid is entered
\* once, in the next slot, announced then or never, and kept, under the class it
\* was given, until uroam_tracking_exit; after that nothing is entered.
Registry == INSTANCE ProcessRegistry WITH
  serving <- InService,
  entries <- [i \in 0..count - 1 |-> slots[i]],
  told    <- sent

ImplementsRegistry == Registry!Spec

\* A process all of whose lower pids stay in use is eventually tracked, unless
\* the table is full or the module is being unloaded.
ReachableTracked ==
  \A p \in Pid :
    <>[](\A q \in 1..p : procs[q] # "nopid" /\ (q = p => procs[q] # "bare"))
      => []<>(~InService \/ ~running \/ Tracked(p) \/ count = MaxTracked)

\* rmmod ends: the kthread leaves its scan and its sleep, whatever the machine
\* does.  It may end badly, when the thread was faster than kthread_stop.
ExitReturns == (phase = "exiting") ~> (phase \in {"exited", "lost"})

=============================================================================
