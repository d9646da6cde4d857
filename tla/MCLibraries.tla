----------------------------- MODULE MCLibraries -----------------------------
(* Libraries on a small instance.  As the parts share nothing, they are looked  *)
(* at one at a time: "part" says which one is used.                             *)
EXTENDS Libraries, TLC

VARIABLE part

\* A job that lowers its own priority.
UserSettings == {[workload |-> "background", priority |-> "P3"]}

\* Two allocations under one tag, so that a free may exceed what the tag counts.
MCTags   == {"weights", "activations"}
MCObject == {[tag |-> "weights", size |-> 1], [tag |-> "weights", size |-> 2],
             [tag |-> "activations", size |-> 2]}

\* A big machine with more CPUs than there is room for, and one of another
\* architecture with as many as there is room for.
MCMachines ==
  {[arch |-> "x86_64", simd |-> {"sse2", "avx2"}, page_size |-> 4096, numa_maps |-> TRUE,
    little |-> TRUE, cpus |-> 300, online |-> 280, ram |-> 16],
   [arch |-> "arm64", simd |-> {"neon"}, page_size |-> 65536, numa_maps |-> FALSE,
    little |-> TRUE, cpus |-> 256, online |-> 256, ram |-> 16]}

\* No step and no property tells one thread from another.
Symmetry == Permutations(Threads)

Parts == {"contexts", "pool", "tracker", "disk", "optimizers", "arch", "nodes", "loader"}

\* Where a part may begin in several ways, the others begin in the first of them.
MCInit ==
  /\ part \in Parts
  /\ Init
  /\ part # "pool" => free_blocks = <<>>
  /\ part # "disk" => \A d \in Disk!Dir : ~exists[d]
  /\ part # "optimizers" => ~thp
  /\ part # "arch" => machine.cpus = 256
  /\ IF part = "nodes" THEN Cardinality(online) <= 2 ELSE online = {0}

MCNext ==
  /\ \/ part = "contexts"   /\ ContextsStep
     \/ part = "pool"       /\ PoolStep
     \/ part = "tracker"    /\ TrackerStep
     \/ part = "disk"       /\ DiskStep
     \/ part = "optimizers" /\ OptimizersStep
     \/ part = "arch"       /\ ArchStep
     \/ part = "nodes"      /\ NodesStep
     \/ part = "loader"     /\ LoaderStep
  /\ UNCHANGED part

MCSpec == MCInit /\ [][MCNext]_<<vars, part>>
=============================================================================
