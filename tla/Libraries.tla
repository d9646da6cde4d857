------------------------------ MODULE Libraries ------------------------------
(***************************************************************************)
(* The libraries that applications call, the NUMA figures of the kernel    *)
(* module and the eBPF loader: eight parts that share no state, so that a  *)
(* step of the whole is a step of one of them.                             *)
(***************************************************************************)
EXTENDS Integers, Sequences, FiniteSets

CONSTANTS
  Threads,                                    \* of one process
  Kinds, Settings, MaxOpen, MaxSets,          \* PyContexts, RustOptimizers
  Blocks, Count,                              \* PyPool
  Tags, Object, MaxTotal,                     \* PyTracker
  Managers, MaxMounts,                        \* RamDisk
  Machines,                                   \* Aal
  Possible, NodeMemory,                       \* Numa
  Objects, Probes, Counting, MaxLinks, MaxAllocated  \* EbpfLoader

ASSUME ArchAssumption ==
  \A m \in Machines : /\ m.page_size \in Nat /\ m.ram \in Nat
                      /\ m.cpus \in Nat /\ m.online \in Nat

ASSUME NumaAssumption ==
  /\ Possible \in SUBSET Nat /\ IsFiniteSet(Possible) /\ 0 \in Possible
  /\ NodeMemory \in Nat

ASSUME ContextsAssumption ==
  /\ Kinds \subseteq {"ai", "inference", "training", "gaming"}
  /\ \A s \in Settings : s = [workload |-> s.workload, priority |-> s.priority]
  /\ MaxSets \in Nat

ASSUME PoolAssumption ==
  IsFiniteSet(Threads) /\ Threads # {} /\ Count \in Nat

ASSUME TrackerAssumption ==
  IsFiniteSet(Tags) /\ Object \subseteq [tag : Tags, size : Nat]

ASSUME DiskAssumption ==
  IsFiniteSet(Managers) /\ MaxMounts \in Nat

ASSUME LoaderAssumption ==
  /\ Counting \in Probes
  /\ MaxLinks \in Nat /\ MaxAllocated \in Nat

VARIABLES
  config, ctx, at, sets, base, mixed, touched,
  free_blocks, heap, held, poolCall,
  enabled, allocations, total_allocated, total_freed, live, trackerCall, missed,
  exists, mounts, mounted, diskAt, dropped,
  thp, swappiness, critical, saved, is_optimizing, todo, adminSets, stranded,
  machine, info, initialized, run, misled, overlapped,
  online, unused, nr_numa_nodes, distance_table, numa_nodes, stage, numaCtx, numaMixed,
  obj, open, fresh, links, total, attachTodo, running, allocated, before, misused

contextVars   == <<config, ctx, at, sets, base, mixed, touched>>
poolVars      == <<free_blocks, heap, held, poolCall>>
trackerVars   == <<enabled, allocations, total_allocated, total_freed, live, trackerCall, missed>>
diskVars      == <<exists, mounts, mounted, diskAt, dropped>>
optimizerVars == <<thp, swappiness, critical, saved, is_optimizing, todo, adminSets, stranded>>
aalVars       == <<machine, info, initialized, run, misled, overlapped>>
numaVars      == <<online, unused, nr_numa_nodes, distance_table, numa_nodes, stage, numaCtx, numaMixed>>
ebpfVars      == <<obj, open, fresh, links, total, attachTodo, running, allocated, before, misused>>

vars == <<contextVars, poolVars, trackerVars, diskVars, optimizerVars, aalVars, numaVars, ebpfVars>>

Contexts   == INSTANCE PyContexts
Pool       == INSTANCE PyPool WITH call <- poolCall
Tracker    == INSTANCE PyTracker WITH call <- trackerCall
Disk       == INSTANCE RamDisk WITH at <- diskAt
Optimizers == INSTANCE RustOptimizers WITH sets <- adminSets
Arch       == INSTANCE Aal
Nodes      == INSTANCE Numa WITH ctx <- numaCtx, mixed <- numaMixed
Loader     == INSTANCE EbpfLoader WITH todo <- attachTodo

Init ==
  /\ Contexts!Init /\ Pool!Init /\ Tracker!Init /\ Disk!Init /\ Optimizers!Init
  /\ Arch!Init /\ Nodes!Init /\ Loader!Init

\* A step of one part, while the others stand still.
ContextsStep ==
  /\ Contexts!Next
  /\ UNCHANGED <<poolVars, trackerVars, diskVars, optimizerVars, aalVars, numaVars, ebpfVars>>

PoolStep ==
  /\ Pool!Next
  /\ UNCHANGED <<contextVars, trackerVars, diskVars, optimizerVars, aalVars, numaVars, ebpfVars>>

TrackerStep ==
  /\ Tracker!Next
  /\ UNCHANGED <<contextVars, poolVars, diskVars, optimizerVars, aalVars, numaVars, ebpfVars>>

DiskStep ==
  /\ Disk!Next
  /\ UNCHANGED <<contextVars, poolVars, trackerVars, optimizerVars, aalVars, numaVars, ebpfVars>>

OptimizersStep ==
  /\ Optimizers!Next
  /\ UNCHANGED <<contextVars, poolVars, trackerVars, diskVars, aalVars, numaVars, ebpfVars>>

ArchStep ==
  /\ Arch!Next
  /\ UNCHANGED <<contextVars, poolVars, trackerVars, diskVars, optimizerVars, numaVars, ebpfVars>>

NodesStep ==
  /\ Nodes!Next
  /\ UNCHANGED <<contextVars, poolVars, trackerVars, diskVars, optimizerVars, aalVars, ebpfVars>>

LoaderStep ==
  /\ Loader!Next
  /\ UNCHANGED <<contextVars, poolVars, trackerVars, diskVars, optimizerVars, aalVars, numaVars>>

Next ==
  \/ ContextsStep \/ PoolStep \/ TrackerStep \/ DiskStep
  \/ OptimizersStep \/ ArchStep \/ NodesStep \/ LoaderStep

Spec == Init /\ [][Next]_vars

-----------------------------------------------------------------------------
(* Every part's variables stay in the sets the code can put them in.       *)
TypeOK ==
  /\ Contexts!TypeOK /\ Pool!TypeOK /\ Tracker!TypeOK /\ Disk!TypeOK
  /\ Optimizers!TypeOK /\ Arch!TypeOK /\ Nodes!TypeOK /\ Loader!TypeOK

(* What each part is to keep true, under its own name.                     *)
ContextsRestore       == Contexts!ContextsRestore
BlocksOnce            == Pool!BlocksOnce
TagsCoverCurrent      == Tracker!TagsCoverCurrent
TmpfsOwned            == Disk!TmpfsOwned
RestoresWhatOthersSet == Optimizers!RestoresWhatOthersSet
DetectionSettles      == Arch!DetectionSettles
SnapshotWhole         == Arch!SnapshotWhole
NodeInfoBalances      == Nodes!NodeInfoBalances
BestNodeIsLocal       == Nodes!BestNodeIsLocal
LoaderSound           == Loader!LoaderSound
=============================================================================
