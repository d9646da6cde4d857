--------------------------- MODULE TrackingProofs ---------------------------
(***************************************************************************)
(* Safety of the process tracker for every number of pids, every capacity  *)
(* of the table and every set of command names.                            *)
(***************************************************************************)
EXTENDS Tracking, TLAPS

\* What holds between two steps of a scan.
ScanInv ==
  /\ \A s \in Scanner :
       /\ scan[s].at \in {"update", "advance"} => scan[s].pid \in Pid
       /\ scan[s].at = "update" => scan[s].comm \in Comm
  /\ scan["insmod"].at # "off" => phase = "scanning"
  /\ scan["kthread"].at # "off" => thread = "scan"

\* How the tasks' positions depend on each other.
PhaseInv ==
  /\ thread \in {"top", "scan", "sleep"} => InService
  /\ phase \in {"exiting", "stopping", "exited", "lost", "unloaded"} => ~running
  /\ phase \in {"exited", "unloaded"} => count = 0
  /\ phase = "unloaded" => /\ thread = "none" /\ tree = {}
                           /\ \A p \in Pid : sent[p] = 0

IndInv ==
  /\ TypeOK
  /\ ScanInv
  /\ PhaseInv
  /\ TableConsistent
  /\ AnnouncedOnce

-----------------------------------------------------------------------------
\* The priorities the classifier returns are the ones of the table.
LEMMA PriorityType == ASSUME NEW c PROVE ProcessPriority(c) \in Priorities
  BY DEF ProcessPriority, Priorities

\* What uroam_tracking_update_process stores in a new slot is a slot's value.
LEMMA NewInfoType ==
  ASSUME NEW p \in Pid, NEW c \in Comm
  PROVE  NewInfo(p, c) \in Info /\ NewInfo(p, c).pid = p
  BY PriorityType DEF NewInfo, Info, ProcessClass

\* A position of a scan over pids is a scan state.
LEMMA AtType ==
  ASSUME NEW place \in {"off", "find", "update", "advance"},
         NEW p \in 1..MaxPid + 1, NEW c \in {"unset"} \cup Comm
  PROVE  /\ At(place, p, c) \in ScanState
         /\ At(place, p, c).at = place
         /\ At(place, p, c).pid = p
         /\ At(place, p, c).comm = c
  BY DEF At, ScanState

\* The initial state satisfies the invariant.
LEMMA InitIndInv == Init => IndInv
<1> SUFFICES ASSUME Init PROVE IndInv
  OBVIOUS
<1>1. ZeroInfo \in Info /\ Idle \in ScanState
  BY TrackingAssumption DEF ZeroInfo, Info, Idle, At, ScanState, Priorities
<1>2. TypeOK
  <2>1. slots \in [Slot -> Info] /\ scan \in [Scanner -> ScanState] /\ sent \in [Pid -> Nat]
    BY <1>1 DEF Init
  <2>2. procs \in [Pid -> Comm \cup {"nopid", "bare"}]
    BY DEF Init
  <2>3. events \in 0..MaxEvents /\ count \in 0..MaxTracked
    BY TrackingAssumption DEF Init
  <2> QED BY <2>1, <2>2, <2>3 DEF Init, TypeOK
<1>3. ScanInv /\ PhaseInv
  BY DEF Init, ScanInv, PhaseInv, InService, Idle, At, Scanner
<1>4. TableConsistent /\ AnnouncedOnce
  BY DEF Init, TableConsistent, AnnouncedOnce, InService
<1> QED BY <1>2, <1>3, <1>4 DEF IndInv

\* Process events of the machine keep the invariant: they change procs only.
LEMMA MachineStep == IndInv /\ Machine => IndInv'
<1> SUFFICES ASSUME IndInv, NEW p \in Pid, NEW v \in Comm \cup {"nopid", "bare"},
                    procs' = [procs EXCEPT ![p] = v], ProcessEvent,
                    UNCHANGED <<slots, count, tree, running, phase, thread, scan, sent>>
             PROVE  IndInv'
  BY DEF Machine, Fork, Exec, Exit
<1>1. TypeOK'
  <2>1. procs' \in [Pid -> Comm \cup {"nopid", "bare"}]
    BY DEF IndInv, TypeOK
  <2>2. events' \in 0..MaxEvents
    BY TrackingAssumption DEF IndInv, TypeOK, ProcessEvent
  <2> QED BY <2>1, <2>2 DEF IndInv, TypeOK
<1>2. ScanInv'
  BY DEF IndInv, ScanInv
<1>3. PhaseInv'
  BY DEF IndInv, PhaseInv, InService
<1>4. TableConsistent' /\ AnnouncedOnce'
  BY DEF IndInv, TableConsistent, AnnouncedOnce, Tracked, InService
<1> QED BY <1>1, <1>2, <1>3, <1>4 DEF IndInv

\* A step that moves a scan and leaves the table alone keeps the invariant.
LEMMA ScanMoves ==
  ASSUME IndInv, NEW s \in Scanner, ScanFind(s) \/ ScanAdvance(s)
  PROVE  IndInv'
<1>1. /\ UNCHANGED <<procs, events, slots, count, tree, running, phase, thread, sent>>
      /\ scan[s].at # "off"
  BY DEF ScanFind, ScanAdvance
<1>2. PICK r \in ScanState :
        /\ scan' = [scan EXCEPT ![s] = r]
        /\ r.at \in {"update", "advance"} => r.pid \in Pid
        /\ r.at = "update" => r.comm \in Comm
  <2>1. CASE ScanFind(s)
    <3> DEFINE p == scan[s].pid
               r == IF p > MaxPid THEN Idle
                    ELSE IF procs[p] = "nopid" THEN Idle
                    ELSE IF procs[p] = "bare" THEN At("advance", p, "unset")
                    ELSE At("update", p, procs[p])
    <3>1. scan' = [scan EXCEPT ![s] = r]
      BY <2>1 DEF ScanFind
    <3>2. p \in 1..MaxPid + 1
      BY DEF IndInv, TypeOK, ScanState
    <3>3. CASE p > MaxPid \/ procs[p] = "nopid"
      <4>1. r = At("off", 1, "unset")
        BY <3>3 DEF Idle
      <4> HIDE DEF r
      <4>2. 1 \in 1..MaxPid + 1
        BY TrackingAssumption
      <4>3. r \in ScanState /\ r.at = "off"
        BY <4>1, <4>2, AtType
      <4> QED BY <3>1, <4>3
    <3>4. CASE ~(p > MaxPid \/ procs[p] = "nopid")
      <4>1. p \in Pid
        BY <3>2, <3>4, TrackingAssumption DEF Pid
      <4>2. procs[p] \in Comm \cup {"bare"}
        BY <3>4, <4>1 DEF IndInv, TypeOK
      <4>3. r = IF procs[p] = "bare" THEN At("advance", p, "unset") ELSE At("update", p, procs[p])
        BY <3>4
      <4> HIDE DEF r
      <4>4. /\ r \in ScanState /\ r.at \in {"update", "advance"} /\ r.pid = p
            /\ r.at = "update" => r.comm \in Comm
        <5>1. CASE procs[p] = "bare"
          BY <3>2, <4>3, <5>1, AtType
        <5>2. CASE procs[p] \in Comm
          <6>1. procs[p] # "bare"
            BY <5>2, TrackingAssumption
          <6>2. r = At("update", p, procs[p])
            BY <4>3, <6>1
          <6>3. /\ At("update", p, procs[p]) \in ScanState
                /\ At("update", p, procs[p]).at = "update"
                /\ At("update", p, procs[p]).pid = p
                /\ At("update", p, procs[p]).comm = procs[p]
            BY <3>2, <5>2 DEF At, ScanState
          <6> QED BY <5>2, <6>2, <6>3
        <5> QED BY <4>2, <5>1, <5>2
      <4> QED BY <3>1, <4>1, <4>4
    <3> QED BY <3>3, <3>4
  <2>2. CASE ScanAdvance(s)
    <3>1. PICK q \in NextPids(scan[s].pid) : scan' = [scan EXCEPT ![s] = At("find", q, "unset")]
      BY <2>2 DEF ScanAdvance
    <3>2. scan[s].pid \in Pid
      BY <2>2 DEF ScanAdvance, IndInv, ScanInv
    <3>3. q \in 1..MaxPid + 1
      BY <3>2, TrackingAssumption DEF NextPids, Pid
    <3> DEFINE r == At("find", q, "unset")
    <3>4. /\ scan' = [scan EXCEPT ![s] = r]
          /\ r \in ScanState /\ r.at = "find"
      BY <3>1, <3>3, AtType
    <3> HIDE DEF r
    <3> QED BY <3>1, <3>4
  <2> QED BY <2>1, <2>2
<1>3. TypeOK'
  BY <1>1, <1>2 DEF IndInv, TypeOK
<1>4. ScanInv'
  BY <1>1, <1>2 DEF IndInv, ScanInv, TypeOK, Scanner
<1>5. PhaseInv'
  BY <1>1 DEF IndInv, PhaseInv, InService
<1>6. TableConsistent' /\ AnnouncedOnce'
  BY <1>1 DEF IndInv, TableConsistent, AnnouncedOnce, Tracked, InService
<1> QED BY <1>3, <1>4, <1>5, <1>6 DEF IndInv

\* A locked update keeps the invariant, whichever of its three branches runs:
\* the pid it adds was not linked, so it takes no second slot and has not been
\* announced.
LEMMA UpdateStep ==
  ASSUME IndInv, NEW s \in Scanner, UpdateProcess(s)
  PROVE  IndInv'
<1>0. PICK p, c : p = scan[s].pid /\ c = scan[s].comm
  OBVIOUS
<1>1. /\ p \in Pid /\ c \in Comm
      /\ p \in 1..MaxPid + 1
      /\ scan[s].at = "update"
      /\ scan' = [scan EXCEPT ![s] = At("advance", p, "unset")]
      /\ UNCHANGED <<procs, events, running, phase, thread>>
  BY <1>0 DEF UpdateProcess, IndInv, ScanInv, TypeOK, ScanState
<1>2. InService /\ InService'
  BY <1>1 DEF IndInv, ScanInv, PhaseInv, InService, Scanner
<1>3. tree = 0..count - 1 /\ count \in 0..MaxTracked
  BY <1>2 DEF IndInv, TypeOK, TableConsistent
<1>4. ScanInv' /\ scan' \in [Scanner -> ScanState]
  <2>1. /\ At("advance", p, "unset") \in ScanState
        /\ At("advance", p, "unset").at = "advance"
        /\ At("advance", p, "unset").pid = p
    BY <1>1, AtType
  <2> QED BY <1>1, <2>1 DEF IndInv, ScanInv, TypeOK, Scanner
<1>5. PhaseInv'
  BY <1>1, <1>2 DEF IndInv, PhaseInv, InService
<1>6. CASE RefreshProcess(p, c)
  <2>1. \A i \in Slot : slots'[i] \in Info /\ slots'[i].pid = slots[i].pid
    BY <1>1, <1>6 DEF RefreshProcess, IndInv, TypeOK, Info
  <2>2. slots' \in [Slot -> Info]
    BY <1>6, <2>1 DEF RefreshProcess
  <2>3. UNCHANGED <<count, tree, sent>>
    BY <1>6 DEF RefreshProcess
  <2>4. TypeOK'
    BY <1>1, <1>4, <2>2, <2>3 DEF IndInv, TypeOK
  <2>5. TableConsistent'
    BY <1>2, <1>3, <2>1, <2>3 DEF IndInv, TableConsistent, TypeOK
  <2>6. AnnouncedOnce'
    BY <1>2, <1>3, <2>1, <2>3, TrackingAssumption DEF IndInv, AnnouncedOnce, Tracked, Slot
  <2> QED BY <1>4, <1>5, <2>4, <2>5, <2>6 DEF IndInv
<1>7. CASE AddProcess(p, c)
  <2>1. /\ \A i \in tree : slots[i].pid # p
        /\ count \in Slot /\ count \notin tree
    BY <1>3, <1>7, TrackingAssumption DEF AddProcess, Linked, Slot
  <2>2. PICK delivered \in {0, 1} : sent' = [sent EXCEPT ![p] = @ + delivered]
    BY <1>7 DEF AddProcess
  <2>3. /\ slots' = [slots EXCEPT ![count] = NewInfo(p, c)]
        /\ count' = count + 1
        /\ tree' = tree \cup {count}
    BY <1>7 DEF AddProcess, TreeInsert
  <2>4. NewInfo(p, c) \in Info /\ NewInfo(p, c).pid = p
    BY <1>1, NewInfoType
  <2>5. /\ \A i \in tree : slots'[i] = slots[i]
        /\ slots'[count].pid = p
        /\ slots' \in [Slot -> Info]
    BY <2>1, <2>3, <2>4 DEF IndInv, TypeOK
  <2>6. tree' = 0..count' - 1 /\ count' \in 0..MaxTracked /\ tree' \subseteq Slot
    BY <1>3, <2>1, <2>3, TrackingAssumption DEF Slot
  <2>7. sent[p] = 0 /\ sent' \in [Pid -> Nat]
    <3>1. ~Tracked(p)
      BY <1>3, <2>1 DEF Tracked
    <3>2. sent[p] = 0
      BY <1>1, <1>2, <3>1 DEF IndInv, AnnouncedOnce, TypeOK
    <3> QED BY <1>1, <2>2, <3>2 DEF IndInv, TypeOK
  <2>8. TypeOK'
    BY <1>1, <1>4, <2>5, <2>6, <2>7 DEF IndInv, TypeOK
  <2>9. TableConsistent'
    BY <1>1, <1>2, <2>1, <2>3, <2>5, <2>6 DEF IndInv, TableConsistent
  <2>10. AnnouncedOnce'
    <3>1. \A q \in Pid : Tracked(q) => Tracked(q)'
      BY <1>3, <2>3, <2>5, <2>6 DEF Tracked
    <3>2. Tracked(p)'
      BY <1>3, <2>3, <2>5, <2>6 DEF Tracked
    <3>3. \A q \in Pid : q # p => sent'[q] = sent[q]
      BY <2>2 DEF IndInv, TypeOK
    <3>4. sent'[p] <= 1
      BY <1>1, <2>2, <2>7 DEF IndInv, TypeOK
    <3> QED BY <1>2, <3>1, <3>2, <3>3, <3>4 DEF IndInv, AnnouncedOnce
  <2> QED BY <1>4, <1>5, <2>8, <2>9, <2>10 DEF IndInv
<1>8. CASE TableFull(p)
  <2>1. UNCHANGED <<slots, count, tree, sent>>
    BY <1>8 DEF TableFull, tableVars
  <2>2. TypeOK'
    BY <1>1, <1>4, <2>1 DEF IndInv, TypeOK
  <2>3. TableConsistent' /\ AnnouncedOnce'
    BY <1>2, <2>1 DEF IndInv, TableConsistent, AnnouncedOnce, Tracked
  <2> QED BY <1>4, <1>5, <2>2, <2>3 DEF IndInv
<1> QED BY <1>0, <1>6, <1>7, <1>8 DEF UpdateProcess

\* The thread's own steps and those of insmod and rmmod move the tasks, start
\* a scan, or clear the table while no scan is under way.
LEMMA TaskStep ==
  ASSUME IndInv,
         \/ Kthread \/ InitTask
         \/ TrackingInit \/ TrackingInitFails \/ TrackingExit \/ Unload
  PROVE  IndInv'
<1> DEFINE start == At("find", 1, "unset")
<1>1. /\ start \in ScanState /\ start.at = "find"
      /\ Idle \in ScanState /\ Idle.at = "off"
      /\ ZeroInfo \in Info
  <2>1. 1 \in 1..MaxPid + 1
    BY TrackingAssumption
  <2> QED BY <2>1 DEF At, Idle, ScanState, ZeroInfo, Info, Priorities
<1> HIDE DEF start
<1>2. CASE ThreadTop
  <2>1. /\ scan' = IF running THEN [scan EXCEPT !["kthread"] = start] ELSE scan
        /\ thread' = IF running THEN "scan" ELSE "gone"
        /\ thread = "top"
        /\ UNCHANGED <<procs, events, slots, count, tree, running, phase, sent>>
    BY <1>2 DEF ThreadTop, StartScan, start
  <2>2. TypeOK'
    BY <1>1, <2>1 DEF IndInv, TypeOK, Scanner
  <2>3. ScanInv'
    BY <1>1, <2>1 DEF IndInv, ScanInv, TypeOK, Scanner
  <2>4. PhaseInv' /\ TableConsistent' /\ AnnouncedOnce'
    BY <2>1 DEF IndInv, PhaseInv, TableConsistent, AnnouncedOnce, Tracked, InService
  <2> QED BY <2>2, <2>3, <2>4 DEF IndInv
<1>3. CASE ThreadScanned \/ ThreadWake \/ InitialScanDone \/ TrackingExit \/ KthreadStop
  <2>1. UNCHANGED <<procs, events, slots, count, tree, scan, sent>>
    BY <1>3 DEF ThreadScanned, ThreadWake, InitialScanDone, TrackingExit, KthreadStop
  <2>2. TypeOK'
    BY <1>3, <2>1 DEF ThreadScanned, ThreadWake, InitialScanDone, TrackingExit, KthreadStop,
                      IndInv, TypeOK
  <2>3. ScanInv'
    BY <1>3, <2>1 DEF ThreadScanned, ThreadWake, InitialScanDone, TrackingExit, KthreadStop,
                      IndInv, ScanInv
  <2>4. PhaseInv' /\ InService' /\ InService
    BY <1>3, <2>1 DEF ThreadScanned, ThreadWake, InitialScanDone, TrackingExit, KthreadStop,
                      IndInv, PhaseInv, InService
  <2>5. TableConsistent' /\ AnnouncedOnce'
    BY <2>1, <2>4 DEF IndInv, TableConsistent, AnnouncedOnce, Tracked
  <2> QED BY <2>2, <2>3, <2>4, <2>5 DEF IndInv
<1>4. CASE TrackingExitDone
  <2> USE <1>4 DEF TrackingExitDone
  <2>1. TypeOK'
    BY TrackingAssumption DEF IndInv, TypeOK
  <2>2. ScanInv' /\ PhaseInv'
    BY DEF IndInv, ScanInv, PhaseInv, InService
  <2>3. TableConsistent' /\ AnnouncedOnce'
    BY DEF TableConsistent, AnnouncedOnce, InService
  <2> QED BY <2>1, <2>2, <2>3 DEF IndInv
<1>5. CASE TrackingInit
  <2>1. /\ scan' = [scan EXCEPT !["insmod"] = start]
        /\ phase = "unloaded" /\ phase' = "scanning" /\ thread' = "top"
        /\ count' = 0 /\ running' = TRUE
        /\ UNCHANGED <<procs, events, slots, tree, sent>>
    BY <1>5 DEF TrackingInit, StartScan, start
  <2>2. TypeOK'
    BY <1>1, <2>1, TrackingAssumption DEF IndInv, TypeOK, Scanner
  <2>3. ScanInv'
    BY <1>1, <2>1 DEF IndInv, ScanInv, PhaseInv, TypeOK, Scanner
  <2>4. PhaseInv' /\ TableConsistent' /\ AnnouncedOnce'
    BY <2>1 DEF IndInv, PhaseInv, TableConsistent, AnnouncedOnce, InService
  <2> QED BY <2>2, <2>3, <2>4 DEF IndInv
<1>6. CASE TrackingInitFails
  <2> USE <1>6 DEF TrackingInitFails
  <2>1. TypeOK'
    <3>1. count' \in 0..MaxTracked
      BY TrackingAssumption
    <3> QED BY <3>1 DEF IndInv, TypeOK
  <2>2. ScanInv' /\ PhaseInv'
    BY DEF IndInv, ScanInv, PhaseInv, InService
  <2>3. TableConsistent' /\ AnnouncedOnce'
    BY DEF TableConsistent, AnnouncedOnce, InService
  <2> QED BY <2>1, <2>2, <2>3 DEF IndInv
<1>7. CASE Unload
  <2> USE <1>7 DEF Unload
  <2>1. TypeOK'
    <3>1. slots' \in [Slot -> Info] /\ scan' \in [Scanner -> ScanState] /\ sent' \in [Pid -> Nat]
      BY <1>1
    <3>2. count' \in 0..MaxTracked /\ UNCHANGED <<procs, events>>
      BY TrackingAssumption DEF procVars
    <3> QED BY <3>1, <3>2 DEF IndInv, TypeOK
  <2>2. ScanInv' /\ PhaseInv'
    BY <1>1 DEF ScanInv, PhaseInv, InService, Scanner
  <2>3. TableConsistent' /\ AnnouncedOnce'
    BY DEF TableConsistent, AnnouncedOnce, InService
  <2> QED BY <2>1, <2>2, <2>3 DEF IndInv
<1> QED BY <1>2, <1>3, <1>4, <1>5, <1>6, <1>7 DEF Kthread, InitTask

\* The invariant is inductive.
LEMMA NextIndInv == IndInv /\ [Next]_vars => IndInv'
<1>1. IndInv /\ UNCHANGED vars => IndInv'
  BY DEF vars, IndInv, TypeOK, ScanInv, PhaseInv, TableConsistent, AnnouncedOnce, Tracked,
         InService
<1>2. ASSUME IndInv, NEW s \in Scanner, Scan(s) PROVE IndInv'
  BY <1>2, ScanMoves, UpdateStep DEF Scan
<1> QED BY <1>1, <1>2, MachineStep, TaskStep DEF Next

\* The tracker never leaves the inductive invariant.
THEOREM IndInvHolds == Spec => []IndInv
  BY InitIndInv, NextIndInv, PTL DEF Spec

-----------------------------------------------------------------------------
\* Type correctness of the tracker for every value of the constants.
THEOREM TypeCorrect == Spec => []TypeOK
<1>1. IndInv => TypeOK
  BY DEF IndInv
<1> QED BY <1>1, IndInvHolds, PTL

\* The table of kernel/tracking.c never holds a pid twice and its tree always
\* indexes exactly the slots in use, although two tasks fill it at once.
THEOREM TableIsConsistent == Spec => []TableConsistent
<1>1. IndInv => TableConsistent
  BY DEF IndInv
<1> QED BY <1>1, IndInvHolds, PTL

\* uroam_tracking_update_process announces a pid at most once per load.
THEOREM ProcessAnnouncedOnce == Spec => []AnnouncedOnce
<1>1. IndInv => AnnouncedOnce
  BY DEF IndInv
<1> QED BY <1>1, IndInvHolds, PTL

\* No scan and no thread outlives uroam_tracking_exit.
THEOREM QuietOnceExited == Spec => []QuietAfterExit
<1>1. IndInv => QuietAfterExit
  <2> SUFFICES ASSUME IndInv, phase = "exited" PROVE QuietAfterExit
    BY DEF QuietAfterExit
  <2>1. thread \in {"none", "gone"} /\ ~running
    BY DEF IndInv, TypeOK, PhaseInv, InService
  <2>2. \A s \in Scanner : scan[s].at = "off"
    BY <2>1 DEF IndInv, ScanInv, Scanner
  <2> QED BY <2>1, <2>2 DEF QuietAfterExit
<1> QED BY <1>1, IndInvHolds, PTL

\* A slot never changes its process, nor the priority first given to it, while
\* the tracker is in service.
THEOREM SlotsAreStable == Spec => SlotsStable
<1> DEFINE Stable == \A i \in Slot : InService /\ InService' /\ i < count =>
                       /\ slots'[i].pid = slots[i].pid
                       /\ slots'[i].priority = slots[i].priority
                       /\ i < count'
<1>1. ASSUME UNCHANGED <<slots, count>> PROVE Stable
  BY <1>1
<1>2. ASSUME IndInv, NEW s \in Scanner, UpdateProcess(s) PROVE Stable
  <2>1. PICK p, c : RefreshProcess(p, c) \/ AddProcess(p, c) \/ TableFull(p)
    BY <1>2 DEF UpdateProcess
  <2>2. CASE RefreshProcess(p, c)
    BY <1>2, <2>2 DEF RefreshProcess, IndInv, TypeOK, Info
  <2>3. CASE AddProcess(p, c)
    BY <1>2, <2>3 DEF AddProcess, IndInv, TypeOK, Slot
  <2>4. CASE TableFull(p)
    BY <1>1, <2>4 DEF TableFull, tableVars
  <2> QED BY <2>1, <2>2, <2>3, <2>4
<1>3. ASSUME TrackingInit \/ TrackingInitFails \/ TrackingExitDone \/ Unload PROVE Stable
  BY <1>3 DEF TrackingInit, TrackingInitFails, TrackingExitDone, Unload, InService
<1>4. ASSUME \/ Machine \/ Kthread \/ InitialScanDone \/ KthreadStop \/ TrackingExit
             \/ \E s \in Scanner : ScanFind(s) \/ ScanAdvance(s)
      PROVE  Stable
  <2>1. UNCHANGED <<slots, count>>
    BY <1>4 DEF Machine, Fork, Exec, Exit, Kthread, ThreadTop, ThreadScanned, ThreadWake,
                InitialScanDone, KthreadStop, TrackingExit, ScanFind, ScanAdvance
  <2> QED BY <1>1, <2>1
<1>5. IndInv /\ [Next]_vars => [Stable]_vars
  BY <1>2, <1>3, <1>4 DEF Next, Scan, InitTask
<1> QED BY <1>5, IndInvHolds, PTL DEF Spec, SlotsStable

-----------------------------------------------------------------------------
\* The refinement: what ProcessRegistry sees of the table.
Entries == [i \in 0..count - 1 |-> slots[i]]

\* A locked update enters the pid, renames its entry, or leaves the register as
\* it is; the pid it finds linked has one entry, and the pid it adds has none.
LEMMA UpdateRegistry ==
  ASSUME IndInv, NEW s \in Scanner, UpdateProcess(s)
  PROVE  [Registry!Next]_(Registry!vars)
<1>0. PICK p \in Pid, c \in Comm :
        /\ p = scan[s].pid /\ c = scan[s].comm /\ scan[s].at = "update"
        /\ RefreshProcess(p, c) \/ AddProcess(p, c) \/ TableFull(p)
  BY DEF UpdateProcess, IndInv, ScanInv
<1>1. InService /\ InService' /\ UNCHANGED phase
  BY <1>0 DEF UpdateProcess, IndInv, ScanInv, PhaseInv, InService, Scanner
<1>2. /\ tree = 0..count - 1 /\ count \in 0..MaxTracked /\ tree \subseteq Slot
      /\ \A i, j \in tree : slots[i].pid = slots[j].pid => i = j
      /\ slots \in [Slot -> Info]
  BY <1>1 DEF IndInv, TypeOK, TableConsistent
<1>3. CASE RefreshProcess(p, c)
  <2>1. PICK i \in tree : Linked(p) = {i}
    BY <1>2, <1>3 DEF RefreshProcess, Linked
  <2>2. /\ \A j \in tree : slots'[j] = IF j = i THEN [slots[i] EXCEPT !.comm = c] ELSE slots[j]
        /\ UNCHANGED <<count, sent>>
    BY <1>2, <1>3, <2>1 DEF RefreshProcess
  <2>3. Entries' = [Entries EXCEPT ![i].comm = c] /\ i \in DOMAIN Entries
    BY <1>2, <2>2 DEF Entries
  <2>4. Registry!Rename(i, c)
    BY <1>1, <2>2, <2>3 DEF Registry!Rename, Entries, InService
  <2> QED BY <2>3, <2>4 DEF Registry!Next, Entries
<1>4. CASE AddProcess(p, c)
  <2>1. /\ ~\E i \in DOMAIN Entries : Entries[i].pid = p
        /\ count < MaxTracked /\ count' = count + 1 /\ count \in Slot
    BY <1>2, <1>4, TrackingAssumption DEF AddProcess, Linked, Entries, Slot
  <2>2. \A i \in 0..count : slots'[i] = IF i = count THEN NewInfo(p, c) ELSE slots[i]
    BY <1>2, <1>4, <2>1 DEF AddProcess, Slot
  <2>3. Entries' = [i \in 0..count |-> IF i = count THEN NewInfo(p, c) ELSE Entries[i]]
    BY <1>2, <2>1, <2>2 DEF Entries
  <2>4. sent' = sent \/ sent' = [sent EXCEPT ![p] = @ + 1]
    <3>1. sent \in [Pid -> Nat] /\ sent[p] \in Nat
      BY DEF IndInv, TypeOK
    <3>2. PICK delivered \in {0, 1} : sent' = [sent EXCEPT ![p] = @ + delivered]
      BY <1>4 DEF AddProcess
    <3>3. CASE delivered = 0
      BY <3>1, <3>2, <3>3
    <3>4. CASE delivered = 1
      BY <3>2, <3>4
    <3> QED BY <3>2, <3>3, <3>4
  <2>5. Registry!Enter(p, c)
    BY <1>1, <2>1, <2>3, <2>4
       DEF Registry!Enter, Registry!Known, Registry!Entry, NewInfo, Entries, InService
  <2> QED BY <2>5 DEF Registry!Next
<1>5. CASE TableFull(p)
  BY <1>1, <1>5 DEF TableFull, tableVars, Registry!vars, InService
<1> QED BY <1>0, <1>3, <1>4, <1>5

\* An empty table is an empty register.
LEMMA EmptyEntries == count = 0 => Entries = [i \in {} |-> {}]
  BY DEF Entries

\* The remaining steps open and close the register, forget what was told, or
\* do not touch it.
LEMMA OtherRegistry ==
  ASSUME IndInv, IndInv',
         \/ Machine \/ Kthread \/ InitTask \/ \E s \in Scanner : ScanFind(s) \/ ScanAdvance(s)
         \/ TrackingInit \/ TrackingInitFails \/ TrackingExit \/ Unload
  PROVE  [Registry!Next]_(Registry!vars)
<1>1. CASE \/ Machine \/ Kthread \/ InitialScanDone \/ KthreadStop \/ TrackingExit
           \/ \E s \in Scanner : ScanFind(s) \/ ScanAdvance(s)
  <2>1. UNCHANGED <<slots, count, sent>> /\ InService' = InService
    BY <1>1 DEF Machine, Fork, Exec, Exit, Kthread, ThreadTop, ThreadScanned, ThreadWake,
                InitialScanDone, KthreadStop, TrackingExit, ScanFind, ScanAdvance, InService
  <2> QED BY <2>1 DEF Registry!vars
<1>2. count = 0 => Entries = [i \in {} |-> {}]
  BY EmptyEntries
<1>3. count' = 0 => Entries' = [i \in {} |-> {}]
  BY DEF Entries
<1>4. CASE TrackingExitDone
  <2>1. ~InService' /\ count' = 0 /\ UNCHANGED sent
    BY <1>4 DEF TrackingExitDone, InService
  <2>2. Registry!Close
    BY <1>3, <2>1 DEF Registry!Close, Entries, InService
  <2> QED BY <2>2 DEF Registry!Next
<1>5. CASE TrackingInit
  <2>1. ~InService /\ InService' /\ count' = count /\ UNCHANGED <<sent, slots>>
    BY <1>5 DEF TrackingInit, InService, IndInv, PhaseInv
  <2>2. Registry!Open
    BY <2>1 DEF Registry!Open, InService
  <2> QED BY <2>2 DEF Registry!Next
<1>6. CASE TrackingInitFails
  <2>1. ~InService /\ ~InService' /\ count' = count /\ UNCHANGED <<sent, slots>>
    BY <1>6 DEF TrackingInitFails, InService, IndInv, PhaseInv
  <2> QED BY <2>1 DEF Registry!vars, InService
<1>7. CASE Unload
  <2>1. ~InService /\ ~InService' /\ count = 0 /\ count' = 0 /\ sent' = [p \in Pid |-> 0]
    BY <1>7 DEF Unload, InService, IndInv, PhaseInv
  <2>2. Entries' = Entries
    BY <1>2, <1>3, <2>1
  <2>3. Registry!Forget
    BY <2>1, <2>2 DEF Registry!Forget, Registry!NobodyTold, Entries, InService
  <2> QED BY <2>3 DEF Registry!Next
<1> QED BY <1>1, <1>4, <1>5, <1>6, <1>7 DEF InitTask

\* The table that two tasks fill over a changing machine is, step by step, the
\* register of ProcessRegistry: one entry per pid, told once or never, kept.
THEOREM RegistryImplemented == Spec => ImplementsRegistry
<1>1. Init => Registry!Init
  <2> SUFFICES ASSUME Init PROVE Registry!Init
    OBVIOUS
  <2>1. Entries = [i \in {} |-> {}]
    BY EmptyEntries DEF Init
  <2> QED BY <2>1 DEF Init, Registry!Init, Registry!NobodyTold, Entries, InService
<1>2. IndInv /\ IndInv' /\ [Next]_vars => [Registry!Next]_(Registry!vars)
  <2>1. UNCHANGED vars => UNCHANGED Registry!vars
    BY DEF vars, Registry!vars, InService
  <2> QED BY <2>1, UpdateRegistry, OtherRegistry DEF Next, Scan
<1> QED BY <1>1, <1>2, IndInvHolds, PTL DEF Spec, ImplementsRegistry, Registry!Spec
=============================================================================
