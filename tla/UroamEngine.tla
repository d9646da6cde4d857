---------------------------- MODULE UroamEngine ----------------------------
(***************************************************************************)
(* The optimization thread of the Rust daemon uroamd, which rewrites       *)
(* kernel settings for what it finds running (optimization/mod.rs,         *)
(* classification/mod.rs, kernel/mod.rs), and main, which waits for it     *)
(* (daemon/main.rs).  UroamIpc is the daemon's other thread.               *)
(*                                                                         *)
(* Settings written together are one file here: "vm" is swappiness and     *)
(* cache pressure, "latency" page-cluster and min_free_kbytes, "ksm" its   *)
(* switch and rate, "thp" enabled and defrag, "oom" the score files.  The  *)
(* value of a file is the profile that wrote it; KSM is on or off.  A      *)
(* write to drop_caches leaves nothing behind, and the scores of processes *)
(* are left out, so these two only succeed or fail.                        *)
(***************************************************************************)
EXTENDS Naturals, Sequences, SettingSeries

CONSTANTS
  Machines,   \* [counts, low, swapped]: processes by workload, memory below 40%,
              \* more than 512 MB of swap in use
  AiKsm, BalancedKsm,    \* ksm_enabled of the two configurable profiles
  MaxMoves    \* bound on changes of the machine in a behaviour

Workload == {"General", "AiInference", "AiTraining", "Gaming", "Compilation", "Rendering",
             "Interactive", "Background"}
File     == {"vm", "latency", "ksm", "thp", "oom", "drop_caches"}
Stored   == File \ {"oom", "drop_caches"}

ASSUME EngineAssumption ==
  /\ {AiKsm, BalancedKsm} \subseteq BOOLEAN /\ MaxMoves \in Nat
  /\ \A m \in Machines : /\ m.counts \in [Workload -> Nat]
                         /\ {m.low, m.swapped} \subseteq BOOLEAN

VARIABLES
  up,       \* the process is running
  machine,  \* what the classifier finds
  moves,    \* how often the machine has changed
  broken,   \* files that are missing or may not be written
  file,     \* contents of the files
  engine    \* the optimization thread: where it is, the writes it has left

vars == <<up, machine, moves, broken, file, engine>>

Setting == {"ai", "gaming", "compilation", "balanced", "idle", "on", "off"}

TypeOK ==
  /\ up \in BOOLEAN /\ machine \in Machines /\ moves \in 0..MaxMoves
  /\ broken \in SUBSET File
  /\ file \in [Stored -> Setting \cup {"boot"}]
  /\ engine \in [at : {"sleep", "write", "ended"},
                 todo : Seq([file : File, value : Setting])]
  /\ engine.at = "write" <=> engine.todo # <<>>

\* broken is a choice of the machine: a kernel without KSM or without huge pages,
\* a read-only file in a container.
Init ==
  /\ up = TRUE /\ machine \in Machines /\ moves = 0
  /\ broken \in SUBSET File
  /\ file = [f \in Stored |-> "boot"]
  /\ engine = [at |-> "sleep", todo |-> <<>>]

-----------------------------------------------------------------------------
(* Classifier                                                               *)

is_idle(m) ==
  m.low /\ \A w \in {"Gaming", "AiInference", "Interactive"} : m.counts[w] = 0

\* get_current_workload: the HashMap is walked in no particular order, so a tie
\* may go either way.
Dominant(m) ==
  {w \in Workload : m.counts[w] > 0 /\ \A v \in Workload : m.counts[v] <= m.counts[w]}

ProfileOf(w) == CASE w \in {"AiInference", "AiTraining"} -> "ai"
                  [] w = "Gaming" -> "gaming"
                  [] w = "Compilation" -> "compilation"
                  [] OTHER -> "balanced"

Profiles(m) == IF is_idle(m) THEN {"idle"}
               ELSE IF Dominant(m) = {} THEN {"balanced"}
               ELSE {ProfileOf(w) : w \in Dominant(m)}

-----------------------------------------------------------------------------
(* OptimizationEngine: the writes of a profile, in order.                   *)

W(f, v)     == <<[file |-> f, value |-> v]>>
When(c, ws) == IF c THEN ws ELSE <<>>
OnOff(b)    == IF b THEN "on" ELSE "off"

ai_writes          == W("vm", "ai") \o When(AiKsm, W("ksm", "on")) \o W("thp", "ai")
                        \o W("oom", "ai")
gaming_writes      == W("vm", "gaming") \o W("latency", "gaming") \o W("ksm", "off")
                        \o W("thp", "gaming") \o W("oom", "gaming")
compilation_writes == W("vm", "compilation") \o W("ksm", "on") \o W("thp", "compilation")

\* Defect: the balanced profile switches KSM on but never off.
balanced_no_off    == W("vm", "balanced") \o When(BalancedKsm, W("ksm", "on"))
                        \o W("thp", "balanced")
balanced_writes    == W("vm", "balanced") \o W("ksm", OnOff(BalancedKsm))
                        \o W("thp", "balanced")
idle_writes(m)     == W("vm", "idle") \o W("ksm", "on")
                        \o When(m.swapped, W("drop_caches", "idle")) \o W("thp", "idle")

Writes(m, p) == CASE p = "ai" -> ai_writes
                  [] p = "gaming" -> gaming_writes
                  [] p = "compilation" -> compilation_writes
                  [] p = "idle" -> idle_writes(m)
                  [] OTHER -> balanced_writes

\* run_optimization_loop, after its sleep: look at the machine, choose.  /proc is
\* taken to be readable, as main found it before it started the thread.
run_optimization_pass ==
  /\ up /\ engine.at = "sleep"
  /\ \E p \in Profiles(machine) :
       engine' = [at |-> "write", todo |-> Writes(machine, p)]
  /\ UNCHANGED <<up, machine, moves, broken, file>>

\* Defect: every error is dropped, as those of the score files are.
SkipsFailed ==
  /\ up /\ engine.at = "write"
  /\ LET w == Head(engine.todo)
     IN file' = IF w.file \in Stored \ broken THEN [file EXCEPT ![w.file] = w.value] ELSE file
  /\ engine' = [at |-> IF Len(engine.todo) = 1 THEN "sleep" ELSE "write",
                todo |-> Tail(engine.todo)]
  /\ UNCHANGED <<up, machine, moves, broken>>

\* A failed write ends the pass, the loop and the thread; only the errors of the
\* score files are dropped.
EngineWrite ==
  /\ up /\ engine.at = "write"
  /\ LET w == Head(engine.todo)
         rest == [at |-> IF Len(engine.todo) = 1 THEN "sleep" ELSE "write",
                  todo |-> Tail(engine.todo)]
     IN \/ /\ w.file \notin broken
           /\ file' = IF w.file \in Stored THEN [file EXCEPT ![w.file] = w.value] ELSE file
           /\ engine' = rest
        \/ /\ w.file \in broken
           /\ engine' = IF w.file = "oom" THEN rest ELSE [at |-> "ended", todo |-> <<>>]
           /\ UNCHANGED file
  /\ UNCHANGED <<up, machine, moves, broken>>

\* join returns, its result is dropped, and main ends the process with success,
\* which Restart=on-failure does not restart.
MainReturns ==
  /\ up /\ engine.at = "ended"
  /\ up' = FALSE
  /\ UNCHANGED <<machine, moves, broken, file, engine>>

\* The IPC thread calls process::exit(0) at any moment.
ShutdownByIpc ==
  /\ up
  /\ up' = FALSE
  /\ UNCHANGED <<machine, moves, broken, file, engine>>

MachineMoves(m) ==
  /\ m # machine /\ moves < MaxMoves
  /\ machine' = m /\ moves' = moves + 1
  /\ UNCHANGED <<up, broken, file, engine>>

Engine == run_optimization_pass \/ EngineWrite

Next == Engine \/ MainReturns \/ ShutdownByIpc \/ \E m \in Machines : MachineMoves(m)

\* The scheduler runs both threads; the pass after a sleep always comes.
Spec == Init /\ [][Next]_vars /\ WF_vars(Engine) /\ WF_vars(MainReturns)

-----------------------------------------------------------------------------
(* Properties                                                               *)

Settled(p) ==
  /\ engine.at # "ended"
  /\ engine.at = "sleep" =>
       /\ file["vm"] = p /\ file["thp"] = p
       /\ file["ksm"] = CASE p = "gaming" -> "off"
                          [] p = "balanced" -> OnOff(BalancedKsm)
                          [] p = "ai" /\ ~AiKsm -> file["ksm"]
                          [] OTHER -> "on"

\* The settings follow the machine: while the daemon lives, a machine that keeps
\* calling for one profile ends up with that profile's settings, whatever the
\* profiles before it left behind.  No failed write leaves the daemon alive with
\* nobody who writes its settings.
FollowsMachine ==
  \A m \in Machines, p \in {"ai", "gaming", "compilation", "balanced", "idle"} :
    Profiles(m) = {p} /\ <>[](up /\ machine = m) => <>[]Settled(p)

\* The engine, left to itself, will have written v into f, or leave v there.
Bound(f, v) == Leaves(engine.todo, file[f], f, v)

PassBinds(p) ==
  /\ Bound("vm", p) /\ Bound("thp", p)
  /\ p = "gaming" => Bound("latency", p) /\ Bound("ksm", "off")
  /\ p = "balanced" => Bound("ksm", OnOff(BalancedKsm))
  /\ p \in {"compilation", "idle"} \/ (p = "ai" /\ AiKsm) => Bound("ksm", "on")

\* A pass ends with the settings of one profile that the machine calls for, whatever the
\* profiles before it have left: its writes bind them, and each that succeeds, or whose
\* error is dropped, keeps them bound; after any other the thread has ended.
PassesConverge ==
  [][/\ run_optimization_pass => \E p \in Profiles(machine) : PassBinds(p)'
     /\ EngineWrite /\ engine'.at # "ended" =>
          \A f \in Stored, v \in Setting : Bound(f, v) => Bound(f, v)']_vars

=============================================================================
