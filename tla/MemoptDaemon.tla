---------------------------- MODULE MemoptDaemon ----------------------------
(***************************************************************************)
(* The Go daemon memopt-daemon (daemon/main.go) and the memopt command     *)
(* (cli/main.go): every tick a daemon looks at the machine and rewrites a  *)
(* series of /proc and /sys files, one write after the other, while the    *)
(* command and other daemons write the same files.                         *)
(*                                                                         *)
(* No control decision reads a file back, so the model may follow any      *)
(* subset Knobs of the files: the writes to the others are left out.       *)
(***************************************************************************)
EXTENDS Integers, FiniteSets, SequencesExt, SettingSeries

CONSTANTS
  Daemons,    \* memopt-daemon processes
  Pid,        \* names of the other processes, and of their oom_score_adj files
  Kinds,      \* kinds of process that run, of the ones in Kind
  Gauges,     \* memory gauges: [used, full, some, hiSwap, loSwap, loRatio]
  Knobs,      \* the files followed
  MaxMoves    \* bound on what the machine and the administrator do in a behaviour

Kind == {"inference", "training", "game", "desktop", "editor", "system", "other"}

Knob == {"swappiness", "page-cluster", "vfs_cache_pressure", "ksm_run", "pages_to_scan",
         "sleep_millisecs", "max_pool_percent", "zswap_enabled", "compressor", "thp",
         "defrag", "dirty_ratio", "dirty_background_ratio", "min_free_kbytes", "drop_caches"}

ASSUME MemoptAssumption ==
  /\ Kinds \subseteq Kind /\ Knobs \subseteq Knob
  /\ MaxMoves \in Nat /\ Pid \cap Knob = {} /\ IsFiniteSet(Pid)
  /\ \A g \in Gauges : /\ {g.used, g.full, g.some} \subseteq Nat
                       /\ {g.hiSwap, g.loSwap, g.loRatio} \subseteq BOOLEAN

VARIABLES
  gauge,   \* memory and pressure figures of the machine
  procs,   \* procs[p]: the kind of process p, or "none"
  file,    \* contents of the files
  daemon,  \* daemon[d]: where it is, a signal pending, the writes it has left to do
  cli,     \* the writes the memopt command has left to do
  moves,   \* how many moves of the machine and the administrator there were
  told     \* the last "daemon stop" said the daemon is stopped

vars == <<gauge, procs, file, daemon, cli, moves, told>>

Move == moves < MaxMoves /\ moves' = moves + 1

Files == Knobs \cup Pid

-----------------------------------------------------------------------------
(* classifyProcess, from the kind of process on.                            *)

Workload(k) == CASE k \in {"inference", "training"} -> "AI"
                 [] k = "game" -> "Gaming"
                 [] k \in {"desktop", "system"} -> "Background"
                 [] OTHER -> "General"

Priority(k) == CASE k \in {"inference", "desktop"} -> 0
                 [] k \in {"training", "game", "editor", "system"} -> 1
                 [] OTHER -> 2

Running(ps)       == {p \in Pid : ps[p] # "none"}
Has(ps, workload) == \E p \in Running(ps) : Workload(ps[p]) = workload

detectIdle(g, ps) ==
  /\ \A p \in Running(ps) : Priority(ps[p]) > 1
  /\ g.used < 40 /\ g.full < 1 /\ g.some < 5

-----------------------------------------------------------------------------
(* applyOptimizations: the writes of one tick, in order.                    *)

\* Writes to files that are not followed are left out.
When(c, ws) == IF c THEN ws ELSE <<>>
W(f, v)     == When(f \in Files, <<[file |-> f, value |-> v]>>)

PressureWrites(g, idle) ==
  IF g.full > 10 \/ g.used > 85
  THEN W("swappiness", "5") \o W("ksm_run", "1") \o W("pages_to_scan", "3000")
  ELSE IF g.some > 5 \/ g.used > 70
  THEN W("swappiness", "20") \o W("ksm_run", "1")
  ELSE When(~idle, W("swappiness", "60")) \o W("ksm_run", "0")

\* Defect: the pool is not taken back after AI, games or idling.
PoolOnlyGrows(ps, idle) ==
  When(Has(ps, "AI") \/ Has(ps, "Gaming"), W("max_pool_percent", "30"))

PoolWrites(ps, idle) ==
  IF Has(ps, "AI") \/ Has(ps, "Gaming")
  THEN W("max_pool_percent", "30")
  ELSE When(~idle, W("max_pool_percent", "20"))

GamingWrites ==
  W("swappiness", "10") \o W("dirty_ratio", "5") \o W("dirty_background_ratio", "2")
  \o W("vfs_cache_pressure", "50") \o W("thp", "always") \o W("defrag", "always")
  \o W("ksm_run", "0") \o W("page-cluster", "0") \o W("min_free_kbytes", "65536")

AIWrites ==
  W("thp", "always") \o W("defrag", "defer+madvise") \o W("ksm_run", "1")
  \o W("pages_to_scan", "3000") \o W("sleep_millisecs", "10") \o W("page-cluster", "3")
  \o W("dirty_ratio", "30") \o W("dirty_background_ratio", "10")
  \o W("vfs_cache_pressure", "100")

CacheWrites(g, idle) ==
  IF g.used > 90 THEN W("drop_caches", "3")
  ELSE IF g.used > 80 /\ g.full > 5 THEN W("drop_caches", "2")
  ELSE When(g.used < 50 /\ idle, W("vfs_cache_pressure", "25"))

\* hiSwap: more than 15% of the high-priority memory is in swap; loSwap: more
\* than 500 MB of the low-priority memory; loRatio: less than 30% of it.
HighSwapped(g, ps) == g.hiSwap /\ \E p \in Running(ps) : Priority(ps[p]) < 2
LowSwapped(g, ps)  == g.loSwap /\ \E p \in Running(ps) : Priority(ps[p]) >= 2

SwapWrites(g, ps) ==
  IF HighSwapped(g, ps) THEN W("swappiness", "5") \o W("page-cluster", "0")
  ELSE IF LowSwapped(g, ps) /\ g.loRatio THEN W("swappiness", "80") \o W("page-cluster", "3")
  ELSE IF g.used > 80 THEN W("swappiness", "20") \o W("page-cluster", "1")
  ELSE W("swappiness", "40") \o W("page-cluster", "2")

OomScore(k) == CASE Priority(k) = 0 -> "-900" [] Priority(k) = 1 -> "-500" [] OTHER -> "300"

\* Defect: only the most important processes are given a score.
ProtectFirstOnly(ps) ==
  LET order == SetToSeq({p \in Running(ps) : Priority(ps[p]) < 1})
  IN [i \in 1..Len(order) |-> [file |-> order[i], value |-> OomScore(ps[order[i]])]]

\* protectHighPriorityProcesses
ProtectWrites(ps) ==
  LET order == SetToSeq(Running(ps))
  IN [i \in 1..Len(order) |-> [file |-> order[i], value |-> OomScore(ps[order[i]])]]

IdleWrites(g, ps, idle) ==
  IF idle
  THEN W("swappiness", "90") \o W("vfs_cache_pressure", "50") \o W("ksm_run", "1")
       \o W("pages_to_scan", "5000") \o W("sleep_millisecs", "5")
       \o W("max_pool_percent", "40") \o W("zswap_enabled", "Y") \o W("compressor", "zstd")
       \o When(LowSwapped(g, ps), W("drop_caches", "3")) \o W("defrag", "always")
  ELSE W("vfs_cache_pressure", "100") \o W("compressor", "lz4")

\* Defect: games come after AI, and have the last word.
GamesLast(g, ps) ==
  LET idle == detectIdle(g, ps)
  IN PressureWrites(g, idle) \o PoolWrites(ps, idle)
     \o When(Has(ps, "AI"), AIWrites) \o When(Has(ps, "Gaming"), GamingWrites)
     \o CacheWrites(g, idle) \o SwapWrites(g, ps) \o ProtectWrites(ps)
     \o IdleWrites(g, ps, idle)

applyOptimizations(g, ps) ==
  LET idle == detectIdle(g, ps)
  IN PressureWrites(g, idle) \o PoolWrites(ps, idle)
     \o When(Has(ps, "Gaming"), GamingWrites) \o When(Has(ps, "AI"), AIWrites)
     \o CacheWrites(g, idle) \o SwapWrites(g, ps) \o ProtectWrites(ps)
     \o IdleWrites(g, ps, idle)

Plan == [g \in Gauges |->
           [ps \in [Pid -> Kinds \cup {"none"}] |-> applyOptimizations(g, ps)]]

-----------------------------------------------------------------------------
Off == [at |-> "off", sig |-> FALSE, todo |-> <<>>]

Up == {d \in Daemons : daemon[d].at # "off"}

\* What the daemon and the command write.
Content == {"0", "1", "2", "3", "5", "10", "20", "25", "30", "40", "50", "60", "80", "90",
            "100", "500", "1000", "2000", "3000", "5000", "65536", "always", "madvise",
            "defer+madvise", "Y", "N", "zstd", "lz4", "-900", "-500", "300"}

TypeOK ==
  /\ gauge \in Gauges /\ procs \in [Pid -> Kinds \cup {"none"}]
  /\ file \in [Files -> Content \cup {"boot", "gone"}]
  /\ \A d \in Daemons :
       /\ daemon[d].at \in {"off", "wait", "busy"} /\ daemon[d].sig \in BOOLEAN
       /\ daemon[d].at # "busy" <=> daemon[d].todo = <<>>
       /\ \A i \in DOMAIN daemon[d].todo : daemon[d].todo[i].file \in Files
  /\ \A p \in Pid : file[p] = "gone" <=> procs[p] = "none"
  /\ \A i \in DOMAIN cli : cli[i].file \in Knobs
  /\ moves \in 0..MaxMoves /\ told \in BOOLEAN

Init ==
  /\ gauge \in Gauges
  /\ procs \in [Pid -> Kinds \cup {"none"}]
  /\ file = [f \in Files |-> IF f \in Knobs THEN "boot"
                             ELSE IF procs[f] = "none" THEN "gone" ELSE "0"]
  /\ daemon = [d \in Daemons |-> Off]
  /\ cli = <<>> /\ moves = 0 /\ told = FALSE

\* writeSysfs: a write to the file of a process that is gone fails, and the
\* daemon goes on.
writeSysfs(w) == file' = IF file[w.file] = "gone" THEN file
                         ELSE [file EXCEPT ![w.file] = w.value]

Begin(d, ws) ==
  daemon' = [daemon EXCEPT ![d].todo = ws,
                           ![d].at = IF ws = <<>> THEN "wait" ELSE "busy"]

-----------------------------------------------------------------------------
(* The daemon                                                               *)

\* startDaemon of the command, then runDaemon up to its loop.  Nothing looks
\* for a daemon that is already running.
startDaemon(d) ==
  /\ daemon[d].at = "off"
  /\ Begin(d, W("thp", "always") \o W("sleep_millisecs", "10"))
  /\ told' = FALSE
  /\ UNCHANGED <<gauge, procs, file, cli, moves>>

Tick(d) ==
  /\ daemon[d].at = "wait"
  /\ Begin(d, Plan[gauge][procs])
  /\ UNCHANGED <<gauge, procs, file, cli, moves, told>>

\* Defect: the tick does not end with its last write.
WriteStaysBusy(d) ==
  /\ daemon[d].at = "busy" /\ daemon[d].todo # <<>>
  /\ writeSysfs(Head(daemon[d].todo))
  /\ daemon' = [daemon EXCEPT ![d].todo = Tail(@)]
  /\ UNCHANGED <<gauge, procs, cli, moves, told>>

WriteNext(d) ==
  /\ daemon[d].at = "busy"
  /\ writeSysfs(Head(daemon[d].todo))
  /\ daemon' = [daemon EXCEPT ![d].todo = Tail(@),
                              ![d].at = IF Len(daemon[d].todo) = 1 THEN "wait" ELSE "busy"]
  /\ UNCHANGED <<gauge, procs, cli, moves, told>>

\* SIGINT or SIGTERM goes into the channel, which holds one ...
Signal(d) ==
  /\ Move
  /\ daemon[d].at # "off" /\ ~daemon[d].sig
  /\ daemon' = [daemon EXCEPT ![d].sig = TRUE]
  /\ UNCHANGED <<gauge, procs, file, cli, told>>

\* Defect: the signal is logged, and the loop goes on.
SignalLogged(d) ==
  /\ daemon[d].at = "wait" /\ daemon[d].sig
  /\ UNCHANGED vars

\* ... and ends the loop when select picks it.
Shutdown(d) ==
  /\ daemon[d].at = "wait" /\ daemon[d].sig
  /\ daemon' = [daemon EXCEPT ![d] = Off]
  /\ UNCHANGED <<gauge, procs, file, cli, moves, told>>

-----------------------------------------------------------------------------
(* The command                                                              *)

Command ==
  { W("ksm_run", "1") \o W("zswap_enabled", "Y") \o W("thp", "always")
      \o W("swappiness", "10"),                                          \* enable
    W("ksm_run", "0") \o W("zswap_enabled", "N") \o W("thp", "madvise")
      \o W("swappiness", "60"),                                          \* disable
    W("swappiness", "5") \o W("pages_to_scan", "500") \o W("defrag", "always"),
    W("swappiness", "20") \o W("pages_to_scan", "2000") \o W("defrag", "defer+madvise"),
    W("swappiness", "1") \o W("ksm_run", "0") \o W("defrag", "always"),
    W("swappiness", "60") \o W("pages_to_scan", "1000") }                \* tune

CommandWrites == Command \ {<<>>}

RunCommand(c) ==
  /\ Move
  /\ cli = <<>>
  /\ cli' = c
  /\ UNCHANGED <<gauge, procs, file, daemon, told>>

CommandStep ==
  /\ cli # <<>>
  /\ writeSysfs(Head(cli))
  /\ cli' = Tail(cli)
  /\ UNCHANGED <<gauge, procs, daemon, moves, told>>

\* stopDaemon: pgrep prints one pid a line; only a single line is a number, and
\* the daemon is then killed wherever it is.  Otherwise the pid is 0, which
\* Kill refuses; its error is dropped, and the command reports success.
stopDaemon ==
  /\ Move
  /\ Up # {}
  /\ daemon' = [d \in Daemons |-> IF Up = {d} THEN Off ELSE daemon[d]]
  /\ told' = TRUE
  /\ UNCHANGED <<gauge, procs, file, cli>>

-----------------------------------------------------------------------------
(* The machine                                                              *)

GaugeMoves(g) ==
  /\ Move
  /\ gauge # g
  /\ gauge' = g
  /\ UNCHANGED <<procs, file, daemon, cli, told>>

\* A pid is free, or taken by a process of some kind; a new process starts
\* with the default score.
ProcStarts(p, k) ==
  /\ Move
  /\ procs[p] = "none"
  /\ procs' = [procs EXCEPT ![p] = k]
  /\ file' = [file EXCEPT ![p] = "0"]
  /\ UNCHANGED <<gauge, daemon, cli, told>>

ProcEnds(p) ==
  /\ Move
  /\ procs[p] # "none"
  /\ procs' = [procs EXCEPT ![p] = "none"]
  /\ file' = [file EXCEPT ![p] = "gone"]
  /\ UNCHANGED <<gauge, daemon, cli, told>>

DaemonStep(d) == Tick(d) \/ WriteNext(d)

Environment ==
  \/ \E g \in Gauges : GaugeMoves(g)
  \/ \E p \in Pid : ProcEnds(p) \/ \E k \in Kinds : ProcStarts(p, k)

Next ==
  \/ \E d \in Daemons : startDaemon(d) \/ DaemonStep(d) \/ Signal(d) \/ Shutdown(d)
  \/ \E c \in CommandWrites : RunCommand(c)
  \/ CommandStep \/ stopDaemon
  \/ Environment

\* The ticker keeps ticking and writes return.  Go's select chooses at random
\* among the channels that are ready, so a pending signal is not passed over
\* for ever.
Spec == /\ Init /\ [][Next]_vars
        /\ \A d \in Daemons : WF_vars(DaemonStep(d)) /\ SF_vars(Shutdown(d))

-----------------------------------------------------------------------------
(* What the files should hold for a machine that stays as it is.            *)

Resting == \A d \in Daemons : daemon[d].at # "busy"

\* There are at most MaxMoves moves, so the machine settles in every behaviour;
\* a daemon must be left running, and the command have done its writes.
Settled == <>[](Up # {} /\ cli = <<>>)

\* The setting of KSM the workloads call for: shared pages under pressure, for
\* model weights and while idle; a game has it off if nothing else asks for it.
WantsKsm ==
  \/ detectIdle(gauge, procs) \/ Has(procs, "AI")
  \/ ~Has(procs, "Gaming") /\ (gauge.full > 10 \/ gauge.some > 5 \/ gauge.used > 70)

\* The share of memory for compressed swap: 40% idle, 30% with AI or games.
PoolShare ==
  IF detectIdle(gauge, procs) THEN "40"
  ELSE IF Has(procs, "AI") \/ Has(procs, "Gaming") THEN "30" ELSE "20"

\* Once the machine settles, between ticks KSM and the zswap pool are what its
\* state calls for, whatever ticks, commands, kills and second daemons wrote
\* before: nothing of an idle or a gaming period is left in them.
KnobsConverge ==
  Settled => <>[](Resting => /\ file["ksm_run"] = IF WantsKsm THEN "1" ELSE "0"
                             /\ file["max_pool_percent"] = PoolShare)

\* Once the machine settles every running process has the OOM score of its
\* kind for good, even one whose pid a daemon met before under another kind.
OomScoresConverge ==
  Settled => <>[](\A p \in Pid : procs[p] # "none" => file[p] = OomScore(procs[p]))

\* A daemon that was sent a signal ends, between two ticks or by a kill.
SignalEnds ==
  \A d \in Daemons : daemon[d].sig ~> daemon[d].at = "off"

\* Between ticks of a machine that has settled KSM is off while a game runs.
KsmOffWhileGaming ==
  Settled => <>[](Resting /\ Has(procs, "Gaming") => file["ksm_run"] # "1")

\* When "daemon stop" has said so, no daemon is running until one is started.
StopIsTrue == told => Up = {}

-----------------------------------------------------------------------------
(* What one tick does to the files, when nobody else writes them.           *)

\* Daemon d, left to itself, will have written v into f, or leave v there.
Bound(d, f, v) == Leaves(daemon[d].todo, file[f], f, v)

TickBinds(d) ==
  /\ "ksm_run" \in Knobs => Bound(d, "ksm_run", IF WantsKsm THEN "1" ELSE "0")
  /\ "max_pool_percent" \in Knobs => Bound(d, "max_pool_percent", PoolShare)
  /\ \A p \in Running(procs) : Bound(d, p, OomScore(procs[p]))

\* The six routines of a tick, which write over each other, end with KSM, the zswap pool
\* and the scores at what the machine they looked at calls for: the tick's series of
\* writes binds them, and each of its writes keeps them bound, so that only the
\* writes of others can leave them otherwise.
TicksConverge ==
  [][\A d \in Daemons :
       /\ Tick(d) => TickBinds(d)'
       /\ WriteNext(d) =>
            \A f \in Files, v \in Content :
              file[f] # "gone" /\ Bound(d, f, v) => Bound(d, f, v)']_vars

=============================================================================
