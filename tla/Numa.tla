-------------------------------- MODULE Numa ---------------------------------
(***************************************************************************)
(* NUMA node information of the kernel module (kernel/numa.c).  insmod     *)
(* calls uroam_numa_init from main.c when enable_numa_aware is set, and    *)
(* uroam_numa_init and uroam_numa_update from uroam_tracking_init, where   *)
(* the tracking thread already runs and updates the same figures every     *)
(* five seconds.  Neither takes a lock.  uroam_numa_get_best_node chooses  *)
(* a node by these figures.  Memory is counted in units; nr_pages and      *)
(* nr_free_pages, which nothing is computed from, are left out.            *)
(***************************************************************************)
EXTENDS Integers, FiniteSets

CONSTANTS
  Possible,     \* node ids the kernel was built for
  NodeMemory    \* units of memory a node has

VARIABLES
  online,         \* ids of the nodes that are there, not always 0, 1, 2 ...
  unused,         \* unused[n]: the free memory of node n
  nr_numa_nodes,
  distance_table, \* numa_distance_table: there is one, filled
  numa_nodes,     \* what is recorded of each node
  stage,          \* how far insmod is
  ctx,            \* ctx[c]: where insmod or the kthread is in an update
  mixed           \* mixed[n]: both have been updating node n, and none alone since

vars == <<online, unused, nr_numa_nodes, distance_table, numa_nodes, stage, ctx, mixed>>

Context == {"insmod", "kthread"}
Memory  == 0..NodeMemory
Idle    == [at |-> "idle", node |-> 0, read |-> 0]

Stages == <<"main", "thread", "init", "update", "loaded">>

Figures == [total : {0, NodeMemory}, free : Memory, used : Memory, distances : BOOLEAN]
Updates == [at : {"idle", "free", "used", "store", "distance"}, node : Possible, read : Memory]

TypeOK ==
  /\ online \in SUBSET Possible /\ 0 \in online
  /\ unused \in [online -> Memory]
  /\ nr_numa_nodes \in 1..Cardinality(online)
  /\ distance_table \in BOOLEAN
  /\ numa_nodes \in [Possible -> Figures]
  /\ stage \in DOMAIN Stages
  /\ ctx \in [Context -> Updates]
  /\ mixed \in [Possible -> BOOLEAN]

Init ==
  /\ online \in {S \in SUBSET Possible : 0 \in S}
  /\ unused = [n \in online |-> NodeMemory]
  /\ nr_numa_nodes = 1 /\ distance_table = FALSE
  /\ numa_nodes = [n \in Possible |-> [total |-> 0, free |-> 0, used |-> 0, distances |-> FALSE]]
  /\ stage = 1
  /\ ctx = [c \in Context |-> Idle]
  /\ mixed = [n \in Possible |-> FALSE]

-----------------------------------------------------------------------------
(* uroam_numa_update_node_info, by one context, node after node.           *)

\* Offline nodes are passed over; ids beyond the number of nodes never come up.
NodesFrom(n) == {m \in online : n <= m /\ m < nr_numa_nodes}
FirstOf(S)   == CHOOSE n \in S : \A m \in S : n <= m

\* The update goes on at node n or behind it, or is over; an update that is over
\* takes insmod to its next stage.
GoesOn(c, n) ==
  IF NodesFrom(n) # {}
  THEN /\ ctx' = [ctx EXCEPT ![c] = [at |-> "free", node |-> FirstOf(NodesFrom(n)), read |-> 0]]
       /\ UNCHANGED stage
  ELSE /\ ctx' = [ctx EXCEPT ![c] = Idle]
       /\ stage' = IF c = "insmod" THEN stage + 1 ELSE stage

At(c, place) == ctx[c].at = place

\* Whoever begins a node alone gives it consistent figures, unless the other
\* context reaches the same node before they are complete.
Meets(c, n) == \E d \in Context \ {c} : ctx[d].node = n /\ ctx[d].at \in {"used", "store"}

\* total_memory and free_memory.
StoreFree(c) ==
  /\ At(c, "free")
  /\ LET n == ctx[c].node IN
       /\ numa_nodes' = [numa_nodes EXCEPT ![n].total = NodeMemory, ![n].free = unused[n]]
       /\ mixed' = [mixed EXCEPT ![n] = Meets(c, n)]
  /\ ctx' = [ctx EXCEPT ![c].at = "used"]
  /\ UNCHANGED <<online, unused, nr_numa_nodes, distance_table, stage>>

\* Both figures are read back from the shared record.
ReadUsed(c) ==
  /\ At(c, "used")
  /\ LET n == ctx[c].node IN
       ctx' = [ctx EXCEPT ![c].at = "store", ![c].read = numa_nodes[n].total - numa_nodes[n].free]
  /\ UNCHANGED <<online, unused, nr_numa_nodes, distance_table, numa_nodes, stage, mixed>>

\* Defect: the kernel is asked a second time how much is free.
StoreUsedResampled(c) ==
  /\ At(c, "store")
  /\ LET n == ctx[c].node IN
       numa_nodes' = [numa_nodes EXCEPT ![n].used = NodeMemory - unused[n]]
  /\ ctx' = [ctx EXCEPT ![c].at = "distance", ![c].read = 0]
  /\ UNCHANGED <<online, unused, nr_numa_nodes, distance_table, stage, mixed>>

StoreUsed(c) ==
  /\ At(c, "store")
  /\ numa_nodes' = [numa_nodes EXCEPT ![ctx[c].node].used = ctx[c].read]
  /\ ctx' = [ctx EXCEPT ![c].at = "distance", ![c].read = 0]
  /\ UNCHANGED <<online, unused, nr_numa_nodes, distance_table, stage, mixed>>

\* Every entry of distance[] gets the last column of the node's row: whether
\* there is a table is all that is kept of it.
CopyDistance(c) ==
  /\ At(c, "distance")
  /\ numa_nodes' = [numa_nodes EXCEPT ![ctx[c].node].distances = @ \/ distance_table]
  /\ GoesOn(c, ctx[c].node + 1)
  /\ UNCHANGED <<online, unused, nr_numa_nodes, distance_table, mixed>>

-----------------------------------------------------------------------------
(* The callers.                                                            *)

Insmod(s) == Stages[stage] = s /\ At("insmod", "idle")

\* The table is made once; without memory for it the figures go without it.
uroam_numa_init ==
  IF Cardinality(online) = 1
  THEN stage' = stage + 1 /\ UNCHANGED <<nr_numa_nodes, distance_table, ctx>>
  ELSE /\ nr_numa_nodes' = Cardinality(online)
       /\ distance_table' \in {TRUE, distance_table}
       /\ ctx' = [ctx EXCEPT !["insmod"] = [at |-> "free", node |-> 0, read |-> 0]]
       /\ UNCHANGED stage

\* From uroam_init if enable_numa_aware is set.
MainInit ==
  /\ Insmod("main")
  /\ \/ uroam_numa_init
     \/ stage' = stage + 1 /\ UNCHANGED <<nr_numa_nodes, distance_table, ctx>>
  /\ UNCHANGED <<online, unused, numa_nodes, mixed>>

\* uroam_tracking_init has started its thread, and sets numa_aware.
ThreadStarts ==
  /\ Insmod("thread")
  /\ stage' = stage + 1
  /\ UNCHANGED <<online, unused, nr_numa_nodes, distance_table, numa_nodes, ctx, mixed>>

TrackingInit ==
  /\ Insmod("init")
  /\ uroam_numa_init
  /\ UNCHANGED <<online, unused, numa_nodes, mixed>>

uroam_numa_update(c) ==
  /\ At(c, "idle")
  /\ IF nr_numa_nodes <= 1
     THEN c = "insmod" /\ stage' = stage + 1 /\ UNCHANGED ctx
     ELSE GoesOn(c, 0)
  /\ UNCHANGED <<online, unused, nr_numa_nodes, distance_table, numa_nodes, mixed>>

MemoryMoves(n) ==
  /\ unused' = [unused EXCEPT ![n] = NodeMemory - @]
  /\ UNCHANGED <<online, nr_numa_nodes, distance_table, numa_nodes, stage, ctx, mixed>>

Update(c) == StoreFree(c) \/ ReadUsed(c) \/ StoreUsed(c) \/ CopyDistance(c)

Next ==
  \/ MainInit \/ ThreadStarts \/ TrackingInit
  \/ Insmod("update") /\ uroam_numa_update("insmod")
  \/ stage > 2 /\ uroam_numa_update("kthread")
  \/ \E c \in Context : Update(c)
  \/ \E n \in online : MemoryMoves(n)

Spec == Init /\ [][Next]_vars

-----------------------------------------------------------------------------
(* uroam_numa_get_best_node for a process on node home, or one that is gone. *)

Gone == -1

Room(n, size) == n \in online /\ numa_nodes[n].free >= size

\* The first loop looks for the process's own node.
LocalNode(home, size) ==
  LET scan[n \in 0..nr_numa_nodes] ==
        IF n = nr_numa_nodes \/ (n = home /\ Room(n, size)) THEN n ELSE scan[n + 1]
  IN  scan[0]

\* Defect: the second loop ends at the first node with room.
FirstWithRoom(home, size) ==
  LET scan[n \in 0..nr_numa_nodes] ==
        IF n = nr_numa_nodes \/ Room(n, size) THEN n ELSE scan[n + 1]
  IN  scan[0]

\* The second assigns the node it is at to its own loop variable, best_node.
NearestNode(home, size) ==
  LET scan[n \in 0..nr_numa_nodes] ==
        IF n = nr_numa_nodes THEN n ELSE scan[n + 1]
  IN  scan[0]

uroam_numa_get_best_node(home, size) ==
  IF home = Gone THEN 0
  ELSE IF LocalNode(home, size) < nr_numa_nodes THEN LocalNode(home, size)
  ELSE NearestNode(home, size)

\* The figures of a node add up whenever nobody is writing them, unless insmod and
\* the tracking thread last wrote them together.
NodeInfoBalances ==
  \A n \in Possible :
    ~mixed[n] /\ (\A c \in Context : ctx[c].node = n => ctx[c].at \in {"idle", "free", "distance"})
      => numa_nodes[n].used + numa_nodes[n].free = numa_nodes[n].total

\* uroam_numa_get_best_node answers with one of three ids.  A process that is gone is
\* given node 0.  A process on a node with an id below the count of nodes, and room by
\* the last figures, is given that node.  Every other is given the count itself,
\* whatever room there is elsewhere: an id behind all nodes if all are counted and
\* their ids have no gap, otherwise possibly a node nobody has looked at.  (The comments
\* above the function and above its second loop promise a node with memory available.)
BestNodeIsLocal ==
  \A home \in online \cup {Gone}, size \in Memory :
    uroam_numa_get_best_node(home, size) =
      IF home = Gone THEN 0
      ELSE IF home < nr_numa_nodes /\ numa_nodes[home].free >= size THEN home
      ELSE nr_numa_nodes
=============================================================================
