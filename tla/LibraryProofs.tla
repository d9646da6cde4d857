---------------------------- MODULE LibraryProofs ----------------------------
(***************************************************************************)
(* Theorems about the parts of Libraries.  Each part has an inductive      *)
(* invariant of its own, which the steps of the other parts cannot touch.  *)
(* The byte swaps of ByteOrder have no state.                              *)
(***************************************************************************)
EXTENDS Libraries, ByteOrder, FiniteSetTheorems, SequenceTheorems, WellFoundedInduction, TLAPS

-----------------------------------------------------------------------------
(* Induction over numbers and finite sets, with the property as a set: what *)
(* the theorem on strict subsets of finite sets gives.                      *)

\* Every set of naturals has a least element.
LEMMA LeastOf ==
  ASSUME NEW S \in SUBSET Nat, S # {}
  PROVE  \E n \in S : \A m \in S : n <= m
<1> DEFINE Below == {0..n : n \in S}
<1>1. ASSUME NEW n \in S PROVE 0..n \in FiniteSubsetsOf(Nat)
  <2>1. IsFiniteSet(0..n)
    BY FS_Interval
  <2> QED BY <2>1 DEF FiniteSubsetsOf
<1>2. PICK B \in Below : \A C \in Below : <<C, B>> \notin StrictSubsetOrdering(Nat)
  <2>1. Below \subseteq FiniteSubsetsOf(Nat) /\ Below # {}
    BY <1>1
  <2> HIDE DEF Below
  <2> QED BY <2>1, FS_StrictSubsetOrderingWellFounded, WFMin, Zenon
<1>3. PICK n \in S : B = 0..n
  OBVIOUS
<1>4. ASSUME NEW m \in S PROVE n <= m
  <2> SUFFICES ASSUME m < n PROVE FALSE
    OBVIOUS
  <2>1. 0..m \in Below /\ 0..m \in SUBSET Nat /\ 0..n \in SUBSET Nat
    OBVIOUS
  <2>2. 0..m \subseteq 0..n /\ n \in 0..n /\ n \notin 0..m
    OBVIOUS
  <2>3. <<0..m, 0..n>> \in StrictSubsetOrdering(Nat)
    BY <2>1, <2>2 DEF StrictSubsetOrdering
  <2> QED BY <1>2, <1>3, <2>1, <2>3
<1> QED BY <1>4

\* A set that is closed under the successor holds every natural.
LEMMA SetInduction ==
  ASSUME NEW T \in SUBSET Nat, 0 \in T, \A n \in T : n + 1 \in T
  PROVE  T = Nat
<1> SUFFICES ASSUME Nat \ T # {} PROVE FALSE
  OBVIOUS
<1>1. PICK n \in Nat \ T : \A m \in Nat \ T : n <= m
  BY LeastOf
<1> QED BY <1>1, n - 1 \in Nat \/ n = 0

\* A family that is closed under adding an element holds every finite set.
LEMMA FiniteInduction ==
  ASSUME NEW S, IsFiniteSet(S), NEW Q, {} \in Q,
         \A T \in SUBSET S, x \in S : T \in Q => T \cup {x} \in Q
  PROVE  S \in Q
<1> SUFFICES ASSUME S \notin Q PROVE FALSE
  OBVIOUS
<1> DEFINE Bad == (SUBSET S) \ Q
<1>1. Bad \subseteq FiniteSubsetsOf(S) /\ Bad # {}
  BY FS_Subset DEF FiniteSubsetsOf
<1>2. PICK B \in Bad : \A C \in Bad : <<C, B>> \notin StrictSubsetOrdering(S)
  <2> HIDE DEF Bad
  <2> QED BY <1>1, FS_StrictSubsetOrderingWellFounded, WFMin, Zenon
<1>3. PICK x \in B : TRUE
  OBVIOUS
<1>4. B \ {x} \in Q
  <2>1. <<B \ {x}, B>> \in StrictSubsetOrdering(S)
    BY DEF StrictSubsetOrdering
  <2> QED BY <1>2, <2>1
<1>5. B = (B \ {x}) \cup {x}
  OBVIOUS
<1> QED BY <1>4, <1>5

\* Sets that differ in one element.
LEMMA OneElement ==
  ASSUME NEW S, NEW T, NEW m, IsFiniteSet(S), IsFiniteSet(T), S \ {m} = T \ {m}
  PROVE  /\ Cardinality(S) \in Nat /\ Cardinality(T) \in Nat
         /\ m \notin S /\ m \in T => Cardinality(T) = Cardinality(S) + 1
         /\ Cardinality(S) <= Cardinality(T) + 1
         /\ m \in T \/ m \notin S => Cardinality(S) <= Cardinality(T)
<1>0. ASSUME NEW A, IsFiniteSet(A)
      PROVE  /\ Cardinality(A \ {m}) \in Nat /\ Cardinality(A) \in Nat
             /\ Cardinality(A) = Cardinality(A \ {m}) + (IF m \in A THEN 1 ELSE 0)
  <2>1. IsFiniteSet(A \ {m}) /\ Cardinality(A \ {m}) = IF m \in A THEN Cardinality(A) - 1 ELSE Cardinality(A)
    BY <1>0, FS_RemoveElement
  <2>2. Cardinality(A \ {m}) \in Nat /\ Cardinality(A) \in Nat
    BY <1>0, <2>1, FS_CardinalityType
  <2> QED BY <2>1, <2>2
<1>1. /\ Cardinality(S \ {m}) \in Nat /\ Cardinality(S) \in Nat
      /\ Cardinality(S) = Cardinality(S \ {m}) + (IF m \in S THEN 1 ELSE 0)
  BY <1>0
<1>2. /\ Cardinality(T) \in Nat
      /\ Cardinality(T) = Cardinality(T \ {m}) + (IF m \in T THEN 1 ELSE 0)
  BY <1>0
<1>3. Cardinality(S \ {m}) = Cardinality(T \ {m})
  OBVIOUS
<1>4. PICK n \in Nat : n = Cardinality(S \ {m})
  BY <1>1
<1> QED BY <1>1, <1>2, <1>3, <1>4

-----------------------------------------------------------------------------
(* The composition: a step of the whole is a step of a part or leaves it    *)
(* alone.                                                                   *)
LEMMA PartSteps ==
  [Next]_vars => /\ [Contexts!Next]_Contexts!vars /\ [Pool!Next]_Pool!vars
                 /\ [Tracker!Next]_Tracker!vars /\ [Disk!Next]_Disk!vars
                 /\ [Optimizers!Next]_Optimizers!vars /\ [Arch!Next]_Arch!vars
                 /\ [Nodes!Next]_Nodes!vars /\ [Loader!Next]_Loader!vars
  BY DEF Next, ContextsStep, PoolStep, TrackerStep, DiskStep, OptimizersStep, ArchStep,
     NodesStep, LoaderStep, vars, contextVars, poolVars, trackerVars, diskVars, optimizerVars,
     aalVars, numaVars, ebpfVars, Contexts!vars, Pool!vars, Tracker!vars, Disk!vars,
     Optimizers!vars, Arch!vars, Nodes!vars, Loader!vars

-----------------------------------------------------------------------------
(* EbpfLoader.                                                             *)

\* What ReadsExactly says of an object, for those that are closed as well: their
\* links still count.
CountsExactly(o) ==
  LET k == links[o][Counting] IN
    /\ k = 0 => total[o] = 0
    /\ k = 1 => total[o] = allocated - before[o]
    /\ k > 1 => total[o] >= allocated - before[o]
    /\ before[o] <= allocated

LoaderInv ==
  /\ Loader!TypeOK
  /\ \A o \in Objects : CountsExactly(o)
  /\ ~misused => open = obj /\ (running => obj # {})

LEMMA LoaderStart == Loader!Init => LoaderInv
<1> SUFFICES ASSUME Loader!Init PROVE LoaderInv
  OBVIOUS
<1> USE LoaderAssumption DEF Loader!Init
<1>1. /\ fresh \in SUBSET Objects /\ open \in SUBSET (Objects \ fresh) /\ obj \in SUBSET open
      /\ attachTodo \in SUBSET Probes /\ (attachTodo # {} => obj # {})
  OBVIOUS
<1>2. /\ links \in [Objects -> [Probes -> 0..MaxLinks]]
      /\ total \in [Objects -> Nat]
  OBVIOUS
<1>3. before \in [Objects -> 0..MaxAllocated] /\ allocated \in 0..MaxAllocated
  OBVIOUS
<1>4. running \in BOOLEAN /\ misused \in BOOLEAN
  OBVIOUS
<1>5. \A o \in Objects : CountsExactly(o)
  BY DEF CountsExactly
<1> QED BY <1>1, <1>2, <1>3, <1>4, <1>5 DEF LoaderInv, Loader!TypeOK

\* An allocation adds its size once for each link that counts.
LEMMA TotalKeepsUp ==
  ASSUME NEW k \in Nat, NEW t \in Nat, NEW a \in Nat, NEW b \in Nat, NEW size \in {1, 2},
         b <= a, k = 0 => t = 0, k = 1 => t = a - b, k > 1 => t >= a - b
  PROVE  /\ t + k * size \in Nat
         /\ k = 0 => t + k * size = 0
         /\ k = 1 => t + k * size = a + size - b
         /\ k > 1 => t + k * size >= a + size - b
<1>1. CASE size = 1
  BY <1>1
<1>2. CASE size = 2
  BY <1>2
<1> QED BY <1>1, <1>2

LEMMA LoaderKeeps == LoaderInv /\ [Loader!Next]_Loader!vars => LoaderInv'
<1> SUFFICES ASSUME LoaderInv, [Loader!Next]_Loader!vars PROVE LoaderInv'
  OBVIOUS
<1>1. CASE Loader!ebpf_init
  BY <1>1 DEF LoaderInv, Loader!ebpf_init, Loader!TypeOK, CountsExactly, Loader!Quiet
<1>2. CASE \/ Loader!ebpf_attach \/ Loader!ebpf_start_monitoring
           \/ Loader!ebpf_stop_monitoring \/ Loader!ebpf_shutdown
  BY <1>2 DEF LoaderInv, Loader!ebpf_attach, Loader!ebpf_start_monitoring,
     Loader!ebpf_stop_monitoring, Loader!ebpf_shutdown, Loader!TypeOK, CountsExactly, Loader!Quiet
<1>3. ASSUME NEW p \in Probes, Loader!AttachProgram(p) PROVE LoaderInv'
  <2> USE <1>3 DEF LoaderInv, Loader!AttachProgram, Loader!TypeOK
  <2>1. UNCHANGED <<obj, open, fresh, total, allocated>> /\ attachTodo' \in SUBSET Probes /\ obj # {}
    OBVIOUS
  <2>2. running' \in BOOLEAN
    OBVIOUS
  <2>3. misused' \in BOOLEAN
    <3> HIDE DEF LoaderInv, Loader!TypeOK
    <3> QED BY Zenon
  <2>4. ~misused' => open' = obj' /\ (running' => obj' # {})
    OBVIOUS
  <2>5. CASE UNCHANGED <<links, before>>
    BY <2>1, <2>2, <2>3, <2>4, <2>5 DEF CountsExactly
  <2>6. ASSUME NEW o \in obj, links[o][p] < MaxLinks,
               links' = [links EXCEPT ![o][p] = @ + 1],
               before' = IF p = Counting /\ links[o][p] = 0
                          THEN [before EXCEPT ![o] = allocated] ELSE before
        PROVE  LoaderInv'
    <3>1. o \in Objects /\ links[o][p] \in Nat /\ links[o][p] + 1 \in 0..MaxLinks
      BY <2>6, LoaderAssumption
    <3>2. links' \in [Objects -> [Probes -> 0..MaxLinks]]
      BY <2>6, <3>1
    <3>3. before' \in [Objects -> 0..MaxAllocated]
      BY <2>6
    <3>4. ASSUME NEW x \in Objects PROVE CountsExactly(x)'
      <4>1. /\ links[x][Counting] \in Nat /\ total[x] \in Nat
            /\ before[x] \in Nat /\ allocated \in Nat
        BY LoaderAssumption
      <4>2. CASE x # o \/ p # Counting
        <5>1. links'[x][Counting] = links[x][Counting] /\ before'[x] = before[x]
          BY <2>6, <3>1, <4>2, LoaderAssumption
        <5> QED BY <2>1, <5>1 DEF CountsExactly
      <4>3. CASE x = o /\ p = Counting
        <5>1. /\ links'[x][Counting] = links[x][Counting] + 1
              /\ before'[x] = IF links[x][Counting] = 0 THEN allocated ELSE before[x]
          BY <2>6, <3>1, <4>3, LoaderAssumption
        <5>2. CountsExactly(x)
          OBVIOUS
        <5>3. total'[x] = total[x] /\ allocated' = allocated
          BY <2>1
        <5> HIDE DEF LoaderInv, Loader!TypeOK, Loader!AttachProgram
        <5> QED BY <4>1, <5>1, <5>2, <5>3 DEF CountsExactly
      <4> QED BY <4>2, <4>3
    <3> QED BY <2>1, <2>2, <2>3, <2>4, <3>2, <3>3, <3>4
  <2> QED BY <2>5, <2>6
<1>4. ASSUME NEW size \in {1, 2}, Loader!uroam_alloc_pages(size) PROVE LoaderInv'
  <2>1. allocated' \in 0..MaxAllocated /\ allocated' = allocated + size
    BY <1>4, LoaderAssumption DEF LoaderInv, Loader!TypeOK, Loader!uroam_alloc_pages
  <2>2. UNCHANGED <<obj, open, fresh, links, attachTodo, running, before, misused>>
    BY <1>4 DEF Loader!uroam_alloc_pages
  <2>3. ASSUME NEW o \in Objects PROVE total'[o] \in Nat /\ CountsExactly(o)'
    <3>1. /\ links[o][Counting] \in Nat /\ total[o] \in Nat
          /\ before[o] \in Nat /\ allocated \in Nat
      BY LoaderAssumption DEF LoaderInv, Loader!TypeOK
    <3>2. total'[o] = total[o] + links[o][Counting] * size
      BY <1>4 DEF Loader!uroam_alloc_pages
    <3>3. CountsExactly(o)
      BY DEF LoaderInv
    <3>4. /\ total'[o] \in Nat
          /\ links[o][Counting] = 0 => total'[o] = 0
          /\ links[o][Counting] = 1 => total'[o] = allocated' - before[o]
          /\ links[o][Counting] > 1 => total'[o] >= allocated' - before[o]
          /\ before[o] <= allocated'
      BY <2>1, <3>1, <3>2, <3>3, TotalKeepsUp DEF CountsExactly
    <3> QED BY <2>2, <3>4 DEF CountsExactly
  <2>4. total' \in [Objects -> Nat]
    BY <1>4, <2>3 DEF Loader!uroam_alloc_pages
  <2> QED BY <2>1, <2>2, <2>3, <2>4 DEF LoaderInv, Loader!TypeOK
<1>5. CASE Loader!ProcessEnds
  <2> USE <1>5, LoaderAssumption DEF LoaderInv, Loader!ProcessEnds, Loader!TypeOK
  <2>2. /\ fresh' \in SUBSET Objects /\ open' \in SUBSET (Objects \ fresh')
        /\ obj' \in SUBSET open' /\ attachTodo' \in SUBSET Probes
        /\ (attachTodo' # {} => obj' # {})
    OBVIOUS
  <2>3. links' \in [Objects -> [Probes -> 0..MaxLinks]] /\ total' \in [Objects -> Nat]
    OBVIOUS
  <2>4. before' \in [Objects -> 0..MaxAllocated] /\ allocated' \in 0..MaxAllocated
    OBVIOUS
  <2>5. running' \in BOOLEAN /\ misused' \in BOOLEAN
    OBVIOUS
  <2>6. \A o \in Objects : CountsExactly(o)'
    BY DEF CountsExactly
  <2> QED BY <2>2, <2>3, <2>4, <2>5, <2>6
<1>6. CASE UNCHANGED Loader!vars
  BY <1>6 DEF LoaderInv, Loader!vars, Loader!TypeOK, CountsExactly
<1> QED BY <1>1, <1>2, <1>3, <1>4, <1>5, <1>6 DEF Loader!Next

LEMMA LoaderInvHolds == Spec => []LoaderInv
<1>1. Init => LoaderInv
  BY LoaderStart DEF Init
<1> QED BY <1>1, LoaderKeeps, PartSteps, PTL DEF Spec

\* The statistics of ebpf_get_stats are exact or too high, and a loader that is used
\* as it must be loses no object.
THEOREM StatisticsSound == Spec => []LoaderSound
<1>1. ASSUME LoaderInv, NEW o \in obj PROVE Loader!ReadsExactly(o)
  <2>1. o \in Objects /\ CountsExactly(o)
    BY <1>1 DEF LoaderInv, Loader!TypeOK
  <2>2. links[o][Counting] \in Nat /\ total[o] \in Nat /\ before[o] \in Nat /\ allocated \in Nat
    BY <1>1, <2>1, LoaderAssumption DEF LoaderInv, Loader!TypeOK
  <2> QED BY <2>1, <2>2 DEF Loader!ReadsExactly, Loader!ebpf_get_stats, CountsExactly
<1>2. LoaderInv => LoaderSound
  BY <1>1 DEF LoaderInv, LoaderSound, Loader!LoaderSound, Loader!TypeOK
<1> QED BY <1>2, LoaderInvHolds, PTL

-----------------------------------------------------------------------------
(* Numa.                                                                   *)

Writes(c, n) == numaCtx[c].node = n /\ numaCtx[c].at \in {"used", "store"}

\* A node under an update is there; its figures are filled in before they are read back.
WritersInv ==
  \A c \in Nodes!Context :
    /\ numaCtx[c].at # "idle" => numaCtx[c].node \in online
    /\ numaCtx[c].at = "used" => numa_nodes[numaCtx[c].node].total = NodeMemory

\* Of a node nobody has written together, at most one context is past the first store;
\* what it has read back is right, and without it the figures add up.
Balanced(n) ==
  /\ \A c, d \in Nodes!Context : Writes(c, n) /\ Writes(d, n) => c = d
  /\ \A c \in Nodes!Context :
       numaCtx[c].at = "store" /\ numaCtx[c].node = n
         => numaCtx[c].read = numa_nodes[n].total - numa_nodes[n].free
  /\ (\A c \in Nodes!Context : ~Writes(c, n))
         => numa_nodes[n].used + numa_nodes[n].free = numa_nodes[n].total

NumaInv ==
  /\ Nodes!TypeOK
  /\ \A n \in Possible : numa_nodes[n].total = 0 => numa_nodes[n].free = 0
  /\ numaCtx["insmod"].at # "idle" => stage < 5
  /\ WritersInv
  /\ \A n \in Possible : ~numaMixed[n] => Balanced(n)

\* The instance's Cardinality is the library's.
LEMMA NumaCounts == \A S : Nodes!Cardinality(S) = Cardinality(S)
  BY DEF Nodes!Cardinality, Cardinality

LEMMA CountOnline ==
  ASSUME NEW S \in SUBSET Possible, 0 \in S
  PROVE  Cardinality(S) \in Nat \ {0}
  BY FS_Subset, FS_CardinalityType, FS_EmptySet, NumaAssumption

LEMMA FirstIsThere ==
  ASSUME NEW S \in SUBSET Possible, S # {}
  PROVE  Nodes!FirstOf(S) \in S
  BY LeastOf, NumaAssumption DEF Nodes!FirstOf

LEMMA NumaStart == Nodes!Init => NumaInv
<1> SUFFICES ASSUME Nodes!Init PROVE NumaInv
  OBVIOUS
<1> USE NumaAssumption DEF Nodes!Init
<1>1. online \in SUBSET Possible /\ 0 \in online /\ nr_numa_nodes \in 1..Cardinality(online)
  BY CountOnline
<1>2. unused \in [online -> Nodes!Memory]
  BY DEF Nodes!Memory
<1>3. numa_nodes \in [Possible -> Nodes!Figures]
  BY DEF Nodes!Memory, Nodes!Figures
<1>4. numaCtx \in [Nodes!Context -> Nodes!Updates]
  BY DEF Nodes!Memory, Nodes!Idle, Nodes!Updates
<1>5. numaMixed \in [Possible -> BOOLEAN] /\ distance_table \in BOOLEAN
  OBVIOUS
<1>6. stage \in DOMAIN Nodes!Stages
  BY DEF Nodes!Stages
<1>7. \A c \in Nodes!Context : numaCtx[c].at = "idle"
  BY DEF Nodes!Idle
<1>8. \A n \in Possible : numa_nodes[n].total = 0 /\ numa_nodes[n].free = 0 /\ numa_nodes[n].used = 0
  OBVIOUS
<1>9. Nodes!TypeOK
  BY <1>1, <1>2, <1>3, <1>4, <1>5, <1>6, NumaCounts DEF Nodes!TypeOK
<1>10. \A c \in Nodes!Context, n \in Possible : ~Writes(c, n)
  BY <1>7 DEF Writes
<1>11. WritersInv
  BY <1>7 DEF WritersInv
<1>12. \A n \in Possible : Balanced(n)
  BY <1>7, <1>8, <1>10 DEF Balanced
<1>13. numaCtx["insmod"].at = "idle"
  BY <1>7 DEF Nodes!Context
<1> QED BY <1>8, <1>9, <1>11, <1>12, <1>13 DEF NumaInv

\* Where an update goes on.
LEMMA GoesOnSafely ==
  ASSUME NumaInv, NEW c \in Nodes!Context, NEW n, Nodes!GoesOn(c, n),
         c = "insmod" => stage < 5, UNCHANGED <<online, nr_numa_nodes>>
  PROVE  /\ numaCtx' \in [Nodes!Context -> Nodes!Updates]
         /\ numaCtx'[c].at \in {"idle", "free"}
         /\ numaCtx'[c].at # "idle" => numaCtx'[c].node \in online
         /\ \A d \in Nodes!Context \ {c} : numaCtx'[d] = numaCtx[d]
         /\ stage' \in DOMAIN Nodes!Stages
         /\ numaCtx'["insmod"].at # "idle" => stage' < 5
<1>1. DOMAIN Nodes!Stages = 1..5
  BY DEF Nodes!Stages
<1> DEFINE S == Nodes!NodesFrom(n)
<1>2. S \subseteq online /\ online \subseteq Possible
  BY DEF Nodes!NodesFrom, NumaInv, Nodes!TypeOK
<1>3. stage \in 1..5 /\ 0 \in Nodes!Memory /\ 0 \in Possible
  BY <1>1, NumaAssumption DEF NumaInv, Nodes!TypeOK, Nodes!Memory
<1>4. numaCtx \in [Nodes!Context -> Nodes!Updates]
      /\ (numaCtx["insmod"].at # "idle" => stage < 5)
  BY DEF NumaInv, Nodes!TypeOK
<1>5. CASE S # {}
  <2>1. Nodes!FirstOf(S) \in online
    BY <1>2, <1>5, FirstIsThere
  <2>2. [at |-> "free", node |-> Nodes!FirstOf(S), read |-> 0] \in Nodes!Updates
    BY <1>2, <1>3, <2>1 DEF Nodes!Updates
  <2>3. /\ numaCtx' = [numaCtx EXCEPT ![c] = [at |-> "free", node |-> Nodes!FirstOf(S), read |-> 0]]
        /\ stage' = stage
    BY <1>5 DEF Nodes!GoesOn
  <2> HIDE DEF S
  <2> QED BY <1>1, <1>3, <1>4, <2>1, <2>2, <2>3 DEF Nodes!Context
<1>6. CASE S = {}
  <2>1. Nodes!Idle \in Nodes!Updates /\ Nodes!Idle.at = "idle"
    BY <1>3 DEF Nodes!Updates, Nodes!Idle
  <2>2. /\ numaCtx' = [numaCtx EXCEPT ![c] = Nodes!Idle]
        /\ stage' = IF c = "insmod" THEN stage + 1 ELSE stage
    BY <1>6 DEF Nodes!GoesOn
  <2> QED BY <1>1, <1>3, <1>4, <2>1, <2>2 DEF Nodes!Context
<1> QED BY <1>5, <1>6

\* A step that writes no figures and moves contexts only between updates leaves the
\* figures as balanced as they were.
LEMMA BalanceUntouched ==
  ASSUME NumaInv, UNCHANGED numaMixed,
         \A n \in Possible : /\ numa_nodes'[n].total = numa_nodes[n].total
                             /\ numa_nodes'[n].free = numa_nodes[n].free
                             /\ numa_nodes'[n].used = numa_nodes[n].used,
         \A c \in Nodes!Context :
            \/ numaCtx'[c] = numaCtx[c]
            \/ numaCtx[c].at \in {"idle", "distance"} /\ numaCtx'[c].at \in {"idle", "free"}
  PROVE  \A n \in Possible : ~numaMixed'[n] => Balanced(n)'
<1> SUFFICES ASSUME NEW n \in Possible, ~numaMixed'[n] PROVE Balanced(n)'
  OBVIOUS
<1>1. Balanced(n)
  BY DEF NumaInv
<1>2. \A c \in Nodes!Context : Writes(c, n)' <=> Writes(c, n)
  BY DEF Writes
<1>3. \A c \in Nodes!Context : numaCtx'[c].at = "store" => numaCtx'[c] = numaCtx[c]
  OBVIOUS
<1> QED BY <1>1, <1>2, <1>3 DEF Balanced

\* MainInit and TrackingInit: the table, and the first node.
LEMMA NumaInitKeeps ==
  ASSUME NumaInv, Nodes!uroam_numa_init, stage < 5, numaCtx["insmod"].at = "idle",
         UNCHANGED <<online, unused, numa_nodes, numaMixed>>
  PROVE  NumaInv'
<1>1. DOMAIN Nodes!Stages = 1..5
  BY DEF Nodes!Stages
<1>2. /\ online \in SUBSET Possible /\ 0 \in online
      /\ Cardinality(online) \in Nat \ {0}
      /\ nr_numa_nodes \in 1..Cardinality(online)
      /\ numaCtx \in [Nodes!Context -> Nodes!Updates]
      /\ distance_table \in BOOLEAN /\ stage \in 1..5
  BY <1>1, CountOnline, NumaCounts DEF NumaInv, Nodes!TypeOK
<1>3. [at |-> "free", node |-> 0, read |-> 0] \in Nodes!Updates
  BY NumaAssumption DEF Nodes!Updates, Nodes!Memory
<1>4. CASE /\ stage' = stage + 1 /\ UNCHANGED <<nr_numa_nodes, distance_table, numaCtx>>
  <2>1. Nodes!TypeOK' /\ stage' \in 1..5
    BY <1>1, <1>2, <1>4, NumaCounts DEF NumaInv, Nodes!TypeOK
  <2>2. \A n \in Possible : ~numaMixed'[n] => Balanced(n)'
    BY <1>4, BalanceUntouched
  <2> QED BY <1>4, <2>1, <2>2 DEF NumaInv, WritersInv
<1>5. CASE /\ nr_numa_nodes' = Nodes!Cardinality(online)
           /\ distance_table' \in {TRUE, distance_table}
           /\ numaCtx' = [numaCtx EXCEPT !["insmod"] = [at |-> "free", node |-> 0, read |-> 0]]
           /\ UNCHANGED stage
  <2>1. nr_numa_nodes' \in 1..Cardinality(online)
    BY <1>2, <1>5, NumaCounts
  <2>2. numaCtx' \in [Nodes!Context -> Nodes!Updates]
    BY <1>2, <1>3, <1>5
  <2>3. distance_table' \in BOOLEAN
    BY <1>2, <1>5
  <2>4. Nodes!TypeOK'
    BY <1>5, <2>1, <2>2, <2>3, NumaCounts DEF NumaInv, Nodes!TypeOK
  <2>5. \A c \in Nodes!Context :
          \/ numaCtx'[c] = numaCtx[c]
          \/ numaCtx[c].at = "idle" /\ numaCtx'[c].at = "free" /\ numaCtx'[c].node \in online
    BY <1>2, <1>5
  <2>6. WritersInv'
    BY <2>5 DEF NumaInv, WritersInv
  <2>7. \A n \in Possible : ~numaMixed'[n] => Balanced(n)'
    BY <2>5, BalanceUntouched
  <2> QED BY <1>5, <2>4, <2>6, <2>7 DEF NumaInv
<1> QED BY <1>4, <1>5 DEF Nodes!uroam_numa_init

\* Whoever goes on writes no figures on the way.
LEMMA GoesOnKeeps ==
  ASSUME NumaInv, NEW c \in Nodes!Context, NEW n, Nodes!GoesOn(c, n),
         numaCtx[c].at \in {"idle", "distance"}, c = "insmod" => stage < 5,
         UNCHANGED <<online, unused, nr_numa_nodes, distance_table, numaMixed>>,
         numa_nodes' \in [Possible -> Nodes!Figures],
         \A m \in Possible : /\ numa_nodes'[m].total = numa_nodes[m].total
                             /\ numa_nodes'[m].free = numa_nodes[m].free
                             /\ numa_nodes'[m].used = numa_nodes[m].used
  PROVE  NumaInv'
<1>1. /\ numaCtx' \in [Nodes!Context -> Nodes!Updates]
      /\ numaCtx'[c].at \in {"idle", "free"}
      /\ numaCtx'[c].at # "idle" => numaCtx'[c].node \in online
      /\ \A d \in Nodes!Context \ {c} : numaCtx'[d] = numaCtx[d]
      /\ stage' \in DOMAIN Nodes!Stages
      /\ numaCtx'["insmod"].at # "idle" => stage' < 5
  BY GoesOnSafely
<1>2. Nodes!TypeOK'
  BY <1>1 DEF NumaInv, Nodes!TypeOK
<1>3. \A d \in Nodes!Context : numaCtx[d].node \in Possible
  BY DEF NumaInv, Nodes!TypeOK, Nodes!Updates
<1>4. WritersInv'
  BY <1>1, <1>3 DEF NumaInv, WritersInv
<1>5. \A m \in Possible : ~numaMixed'[m] => Balanced(m)'
  <2>1. \A d \in Nodes!Context :
          \/ numaCtx'[d] = numaCtx[d]
          \/ numaCtx[d].at \in {"idle", "distance"} /\ numaCtx'[d].at \in {"idle", "free"}
    BY <1>1
  <2> QED BY <2>1, BalanceUntouched
<1> QED BY <1>1, <1>2, <1>4, <1>5 DEF NumaInv

\* Total and free memory: whoever does that alone clears the way for the rest.
LEMMA StoreFreeKeeps ==
  ASSUME NumaInv, NEW c \in Nodes!Context, Nodes!StoreFree(c)
  PROVE  NumaInv'
<1> PICK n : n = numaCtx[c].node
  OBVIOUS
<1>1. /\ n \in online /\ n \in Possible /\ numaCtx[c].at = "free"
      /\ unused[n] \in Nodes!Memory
  BY DEF Nodes!StoreFree, Nodes!At, NumaInv, WritersInv, Nodes!TypeOK
<1>2. /\ numa_nodes' = [numa_nodes EXCEPT ![n].total = NodeMemory, ![n].free = unused[n]]
      /\ numaMixed' = [numaMixed EXCEPT ![n] = Nodes!Meets(c, n)]
      /\ numaCtx' = [numaCtx EXCEPT ![c].at = "used"]
      /\ UNCHANGED <<online, unused, nr_numa_nodes, distance_table, stage>>
  BY DEF Nodes!StoreFree
<1>3. /\ numa_nodes \in [Possible -> Nodes!Figures] /\ numaCtx \in [Nodes!Context -> Nodes!Updates]
      /\ numaMixed \in [Possible -> BOOLEAN]
  BY DEF NumaInv, Nodes!TypeOK
<1>4. numa_nodes' \in [Possible -> Nodes!Figures]
  BY <1>1, <1>2, <1>3 DEF Nodes!Figures
<1>5. /\ numa_nodes'[n].total = NodeMemory /\ numa_nodes'[n].free = unused[n]
      /\ \A m \in Possible \ {n} : numa_nodes'[m] = numa_nodes[m]
  BY <1>1, <1>2, <1>3 DEF Nodes!Figures
<1>6. numaCtx' \in [Nodes!Context -> Nodes!Updates]
  BY <1>2, <1>3 DEF Nodes!Updates
<1>7. /\ numaCtx'[c].at = "used" /\ numaCtx'[c].node = n
      /\ \A d \in Nodes!Context \ {c} : numaCtx'[d] = numaCtx[d]
  BY <1>2, <1>3 DEF Nodes!Updates
<1>8. Nodes!Meets(c, n) \in BOOLEAN
  BY DEF Nodes!Meets
<1>9. numaMixed' \in [Possible -> BOOLEAN]
  BY <1>2, <1>3, <1>8
<1>10. Nodes!TypeOK'
  BY <1>2, <1>4, <1>6, <1>9 DEF NumaInv, Nodes!TypeOK
<1>11. WritersInv'
  BY <1>1, <1>2, <1>3, <1>5, <1>7 DEF NumaInv, WritersInv, Nodes!Updates
<1>12. \A m \in Possible : numa_nodes'[m].total = 0 => numa_nodes'[m].free = 0
  BY <1>1, <1>5, NumaAssumption DEF NumaInv, Nodes!Memory
<1>13. numaCtx'["insmod"].at # "idle" => stage' < 5
  BY <1>1, <1>2, <1>7 DEF NumaInv, Nodes!Context
<1>14. ASSUME NEW m \in Possible, ~numaMixed'[m] PROVE Balanced(m)'
  <2>1. CASE m = n
    <3>1. \A d \in Nodes!Context \ {c} : ~Writes(d, n)'
      BY <1>2, <1>3, <1>7, <1>14, <2>1 DEF Nodes!Meets, Writes
    <3>2. Writes(c, n)'
      BY <1>7 DEF Writes
    <3> QED BY <1>7, <2>1, <3>1, <3>2 DEF Balanced, Writes
  <2>2. CASE m # n
    <3>1. Balanced(m)
      BY <1>2, <1>3, <1>14, <2>2 DEF NumaInv
    <3>2. \A d \in Nodes!Context : Writes(d, m)' <=> Writes(d, m)
      BY <1>1, <1>7, <2>2 DEF Writes
    <3> QED BY <1>5, <1>7, <2>2, <3>1, <3>2 DEF Balanced
  <2> QED BY <2>1, <2>2
<1> QED BY <1>10, <1>11, <1>12, <1>13, <1>14 DEF NumaInv

\* The read-back.
LEMMA ReadUsedKeeps ==
  ASSUME NumaInv, NEW c \in Nodes!Context, Nodes!ReadUsed(c)
  PROVE  NumaInv'
<1> PICK n : n = numaCtx[c].node
  OBVIOUS
<1> PICK r : r = numa_nodes[n].total - numa_nodes[n].free
  OBVIOUS
<1>1. /\ n \in online /\ n \in Possible /\ numaCtx[c].at = "used"
      /\ numa_nodes[n].total = NodeMemory
  BY DEF Nodes!ReadUsed, Nodes!At, NumaInv, WritersInv, Nodes!TypeOK
<1>2. UNCHANGED <<online, unused, nr_numa_nodes, distance_table, numa_nodes, stage, numaMixed>>
  BY DEF Nodes!ReadUsed
<1>0. numaCtx' = [numaCtx EXCEPT ![c].at = "store", ![c].read = r]
  BY DEF Nodes!ReadUsed
<1>3. numa_nodes \in [Possible -> Nodes!Figures] /\ numaCtx \in [Nodes!Context -> Nodes!Updates]
  BY DEF NumaInv, Nodes!TypeOK
<1>4. r \in Nodes!Memory
  BY <1>1, <1>3, NumaAssumption DEF Nodes!Figures, Nodes!Memory
<1>5. numaCtx' \in [Nodes!Context -> Nodes!Updates]
  BY <1>0, <1>3, <1>4 DEF Nodes!Updates
<1>6. /\ numaCtx'[c].at = "store" /\ numaCtx'[c].node = n /\ numaCtx'[c].read = r
      /\ \A d \in Nodes!Context \ {c} : numaCtx'[d] = numaCtx[d]
  BY <1>0, <1>3 DEF Nodes!Updates
<1>7. Nodes!TypeOK'
  BY <1>2, <1>5 DEF NumaInv, Nodes!TypeOK
<1>8. WritersInv'
  <2>1. WritersInv
    BY DEF NumaInv
  <2> QED BY <1>1, <1>2, <1>6, <2>1 DEF WritersInv
<1>9. numaCtx'["insmod"].at # "idle" => stage' < 5
  BY <1>1, <1>2, <1>6 DEF NumaInv, Nodes!Context
<1>10. ASSUME NEW m \in Possible, ~numaMixed'[m] PROVE Balanced(m)'
  <2>1. Balanced(m)
    BY <1>2, <1>10 DEF NumaInv
  <2>2. \A d \in Nodes!Context : Writes(d, m)' <=> Writes(d, m)
    BY <1>1, <1>6 DEF Writes
  <2>3. \A d \in Nodes!Context :
          numaCtx'[d].at = "store" /\ numaCtx'[d].node = m
            => numaCtx'[d].read = numa_nodes[m].total - numa_nodes[m].free
    BY <1>6, <2>1 DEF Balanced
  <2> QED BY <1>2, <2>1, <2>2, <2>3 DEF Balanced
<1> QED BY <1>2, <1>7, <1>8, <1>9, <1>10 DEF NumaInv

\* Used memory, with what has been read back.
LEMMA StoreUsedKeeps ==
  ASSUME NumaInv, NEW c \in Nodes!Context, Nodes!StoreUsed(c)
  PROVE  NumaInv'
<1> PICK n, r : n = numaCtx[c].node /\ r = numaCtx[c].read
  OBVIOUS
<1>1. n \in online /\ n \in Possible /\ numaCtx[c].at = "store"
  BY DEF Nodes!StoreUsed, Nodes!At, NumaInv, WritersInv, Nodes!TypeOK
<1>2. /\ numa_nodes' = [numa_nodes EXCEPT ![n].used = r]
      /\ numaCtx' = [numaCtx EXCEPT ![c].at = "distance", ![c].read = 0]
      /\ UNCHANGED <<online, unused, nr_numa_nodes, distance_table, stage, numaMixed>>
  BY DEF Nodes!StoreUsed
<1>3. numa_nodes \in [Possible -> Nodes!Figures] /\ numaCtx \in [Nodes!Context -> Nodes!Updates]
  BY DEF NumaInv, Nodes!TypeOK
<1>4. r \in Nodes!Memory /\ 0 \in Nodes!Memory
  BY <1>3, NumaAssumption DEF Nodes!Updates, Nodes!Memory
<1>5. numa_nodes' \in [Possible -> Nodes!Figures]
  BY <1>1, <1>2, <1>3, <1>4 DEF Nodes!Figures
<1>6. /\ numa_nodes'[n].used = r
      /\ \A m \in Possible : /\ numa_nodes'[m].total = numa_nodes[m].total
                             /\ numa_nodes'[m].free = numa_nodes[m].free
                             /\ m = n \/ numa_nodes'[m].used = numa_nodes[m].used
  BY <1>1, <1>2, <1>3 DEF Nodes!Figures
<1>7. numaCtx' \in [Nodes!Context -> Nodes!Updates]
  BY <1>2, <1>3, <1>4 DEF Nodes!Updates
<1>8. /\ numaCtx'[c].at = "distance" /\ numaCtx'[c].node = n
      /\ \A d \in Nodes!Context \ {c} : numaCtx'[d] = numaCtx[d]
  BY <1>2, <1>3 DEF Nodes!Updates
<1>9. Nodes!TypeOK'
  BY <1>2, <1>5, <1>7 DEF NumaInv, Nodes!TypeOK
<1>10. WritersInv'
  BY <1>1, <1>2, <1>3, <1>6, <1>8 DEF NumaInv, WritersInv, Nodes!Updates
<1>11. numaCtx'["insmod"].at # "idle" => stage' < 5
  BY <1>1, <1>2, <1>8 DEF NumaInv, Nodes!Context
<1>12. ASSUME NEW m \in Possible, ~numaMixed'[m] PROVE Balanced(m)'
  <2>1. Balanced(m)
    BY <1>2, <1>12 DEF NumaInv
  <2>2. CASE m = n
    <3>1. Writes(c, n) /\ r = numa_nodes[n].total - numa_nodes[n].free
      BY <1>1, <2>1, <2>2 DEF Balanced, Writes
    <3>2. \A d \in Nodes!Context : ~Writes(d, n)'
      BY <1>8, <2>1, <2>2, <3>1 DEF Balanced, Writes
    <3>3. numa_nodes[n].total \in Int /\ numa_nodes[n].free \in Int
      BY <1>1, <1>3, NumaAssumption DEF Nodes!Figures, Nodes!Memory
    <3>4. numa_nodes'[n].used + numa_nodes'[n].free = numa_nodes'[n].total
      BY <1>1, <1>6, <3>1, <3>3
    <3> QED BY <2>2, <3>2, <3>4 DEF Balanced, Writes
  <2>3. CASE m # n
    <3>1. \A d \in Nodes!Context : Writes(d, m)' <=> Writes(d, m)
      BY <1>1, <1>8, <2>3 DEF Writes
    <3> QED BY <1>6, <1>8, <2>1, <2>3, <3>1 DEF Balanced
  <2> QED BY <2>2, <2>3
<1> QED BY <1>6, <1>9, <1>10, <1>11, <1>12 DEF NumaInv

LEMMA NumaKeeps == NumaInv /\ [Nodes!Next]_Nodes!vars => NumaInv'
<1> SUFFICES ASSUME NumaInv, [Nodes!Next]_Nodes!vars PROVE NumaInv'
  OBVIOUS
<1>0. DOMAIN Nodes!Stages = 1..5 /\ stage \in 1..5
  BY DEF NumaInv, Nodes!TypeOK, Nodes!Stages
<1>1. ASSUME NEW s, Nodes!Insmod(s), s # "loaded"
      PROVE  numaCtx["insmod"].at = "idle" /\ stage < 5
  BY <1>0, <1>1 DEF Nodes!Insmod, Nodes!At, Nodes!Stages
<1>2. ASSUME stage < 5, stage' = stage + 1, numaCtx["insmod"].at = "idle",
             UNCHANGED <<online, unused, nr_numa_nodes, distance_table, numa_nodes, numaCtx, numaMixed>>
      PROVE  NumaInv'
  <2>1. Nodes!TypeOK'
    BY <1>0, <1>2 DEF NumaInv, Nodes!TypeOK, Nodes!Stages
  <2>2. \A n \in Possible : ~numaMixed'[n] => Balanced(n)'
    BY <1>2, BalanceUntouched
  <2> QED BY <1>2, <2>1, <2>2 DEF NumaInv, WritersInv
<1>3. CASE Nodes!MainInit
  BY <1>1, <1>2, <1>3, NumaInitKeeps DEF Nodes!MainInit
<1>4. CASE Nodes!ThreadStarts
  BY <1>1, <1>2, <1>4 DEF Nodes!ThreadStarts
<1>5. CASE Nodes!TrackingInit
  BY <1>1, <1>5, NumaInitKeeps DEF Nodes!TrackingInit
<1>6. ASSUME NEW c \in Nodes!Context, Nodes!uroam_numa_update(c), c = "insmod" => Nodes!Insmod("update")
      PROVE  NumaInv'
  <2>1. CASE nr_numa_nodes <= 1
    BY <1>1, <1>2, <1>6, <2>1 DEF Nodes!uroam_numa_update
  <2>2. CASE ~(nr_numa_nodes <= 1)
    BY <1>1, <1>6, <2>2, GoesOnKeeps DEF Nodes!uroam_numa_update, Nodes!At, NumaInv, Nodes!TypeOK
  <2> QED BY <2>1, <2>2
<1>7. ASSUME NEW c \in Nodes!Context, Nodes!CopyDistance(c) PROVE NumaInv'
  <2> DEFINE n == numaCtx[c].node
  <2>1. /\ n \in Possible /\ numaCtx[c].at = "distance" /\ (c = "insmod" => stage < 5)
        /\ numa_nodes \in [Possible -> Nodes!Figures] /\ distance_table \in BOOLEAN
    BY <1>7 DEF Nodes!CopyDistance, Nodes!At, NumaInv, WritersInv, Nodes!TypeOK
  <2>2. /\ numa_nodes' = [numa_nodes EXCEPT ![n].distances = @ \/ distance_table]
        /\ Nodes!GoesOn(c, n + 1)
        /\ UNCHANGED <<online, unused, nr_numa_nodes, distance_table, numaMixed>>
    BY <1>7 DEF Nodes!CopyDistance
  <2> HIDE DEF n
  <2>3. (numa_nodes[n].distances \/ distance_table) \in BOOLEAN
    OBVIOUS
  <2>4. /\ numa_nodes' \in [Possible -> Nodes!Figures]
        /\ \A m \in Possible : /\ numa_nodes'[m].total = numa_nodes[m].total
                               /\ numa_nodes'[m].free = numa_nodes[m].free
                               /\ numa_nodes'[m].used = numa_nodes[m].used
    BY <2>1, <2>2, <2>3 DEF Nodes!Figures
  <2> QED BY <2>1, <2>2, <2>4, GoesOnKeeps
<1>8. ASSUME NEW n \in online, Nodes!MemoryMoves(n) PROVE NumaInv'
  <2>1. unused' \in [online -> Nodes!Memory]
    BY <1>8, NumaAssumption DEF Nodes!MemoryMoves, NumaInv, Nodes!TypeOK, Nodes!Memory
  <2>2. UNCHANGED <<online, nr_numa_nodes, distance_table, numa_nodes, stage, numaCtx, numaMixed>>
    BY <1>8 DEF Nodes!MemoryMoves
  <2>3. Nodes!TypeOK'
    BY <2>1, <2>2 DEF NumaInv, Nodes!TypeOK
  <2>4. \A m \in Possible : ~numaMixed'[m] => Balanced(m)'
    BY <2>2, BalanceUntouched
  <2> QED BY <2>2, <2>3, <2>4 DEF NumaInv, WritersInv
<1>9. CASE UNCHANGED Nodes!vars
  <2>1. UNCHANGED <<online, unused, nr_numa_nodes, distance_table, numa_nodes, stage, numaCtx, numaMixed>>
    BY <1>9 DEF Nodes!vars
  <2>2. Nodes!TypeOK'
    BY <2>1 DEF NumaInv, Nodes!TypeOK
  <2>3. \A m \in Possible : ~numaMixed'[m] => Balanced(m)'
    BY <2>1, BalanceUntouched
  <2> QED BY <2>1, <2>2, <2>3 DEF NumaInv, WritersInv
<1> QED
  BY <1>3, <1>4, <1>5, <1>6, <1>7, <1>8, <1>9, StoreFreeKeeps, ReadUsedKeeps, StoreUsedKeeps
  DEF Nodes!Next, Nodes!Update, Nodes!Context

\* The loops of uroam_numa_get_best_node, as recursive functions, have one solution.
LEMMA OneScan ==
  ASSUME NEW N \in Nat, NEW Stops, NEW f, NEW g,
         f = [n \in 0..N |-> IF n = N \/ n \in Stops THEN n ELSE f[n + 1]],
         g = [n \in 0..N |-> IF n = N \/ n \in Stops THEN n ELSE g[n + 1]]
  PROVE  f = g
<1> DEFINE T == {k \in Nat : k <= N => f[N - k] = g[N - k]}
<1>1. 0 \in T
  <2>1. f[N] = N /\ g[N] = N
    OBVIOUS
  <2> QED BY <2>1
<1>2. ASSUME NEW k \in T, k + 1 <= N PROVE f[N - (k + 1)] = g[N - (k + 1)]
  <2> DEFINE n == N - (k + 1)
  <2>1. n \in 0..N /\ n # N /\ n + 1 = N - k /\ f[n + 1] = g[n + 1]
    BY <1>2
  <2>2. /\ f[n] = IF n = N \/ n \in Stops THEN n ELSE f[n + 1]
        /\ g[n] = IF n = N \/ n \in Stops THEN n ELSE g[n + 1]
    BY <2>1
  <2> QED BY <2>1, <2>2
<1>3. \A k \in T : k + 1 \in T
  BY <1>2
<1>4. T = Nat
  <2> HIDE DEF T
  <2>1. T \in SUBSET Nat
    BY DEF T
  <2> QED BY <1>1, <1>3, <2>1, SetInduction
<1>5. ASSUME NEW n \in 0..N PROVE f[n] = g[n]
  <2>1. N - n \in Nat /\ N - n <= N /\ N - (N - n) = n
    OBVIOUS
  <2>2. N - n \in T
    <3> HIDE DEF T
    <3> QED BY <1>4, <2>1
  <2> QED BY <2>1, <2>2
<1> QED BY <1>5

LEMMA LocalNodeIs ==
  ASSUME nr_numa_nodes \in Nat, NEW home \in Nat, NEW size
  PROVE  Nodes!LocalNode(home, size) =
           IF home < nr_numa_nodes /\ Nodes!Room(home, size) THEN home ELSE nr_numa_nodes
<1> PICK N \in Nat : N = nr_numa_nodes
  OBVIOUS
<1> PICK Stops : Stops = {n \in {home} : Nodes!Room(n, size)}
  OBVIOUS
<1> DEFINE Scan(f) == f = [n \in 0..N |-> IF n = N \/ n \in Stops THEN n ELSE f[n + 1]]
           g == [n \in 0..N |-> IF home \in n..(N - 1) /\ home \in Stops THEN home ELSE N]
<1>1. Scan(g)
  OBVIOUS
<1>2. Nodes!LocalNode(home, size) = (CHOOSE f : Scan(f))[0]
  BY DEF Nodes!LocalNode
<1>3. (CHOOSE f : Scan(f)) = g
  BY <1>1, OneScan
<1>4. g[0] = IF home < N /\ Nodes!Room(home, size) THEN home ELSE N
  OBVIOUS
<1> QED BY <1>2, <1>3, <1>4

\* The second loop stops nowhere.
LEMMA NearestNodeIs ==
  ASSUME nr_numa_nodes \in Nat, NEW home, NEW size
  PROVE  Nodes!NearestNode(home, size) = nr_numa_nodes
<1> PICK N \in Nat : N = nr_numa_nodes
  OBVIOUS
<1> PICK Stops : Stops = {}
  OBVIOUS
<1> DEFINE Scan(f) == f = [n \in 0..N |-> IF n = N \/ n \in Stops THEN n ELSE f[n + 1]]
           g == [n \in 0..N |-> N]
<1>1. Scan(g)
  OBVIOUS
<1>2. Nodes!NearestNode(home, size) = (CHOOSE f : Scan(f))[0]
  BY DEF Nodes!NearestNode
<1>3. (CHOOSE f : Scan(f)) = g
  BY <1>1, OneScan
<1>4. g[0] = nr_numa_nodes
  OBVIOUS
<1> HIDE DEF g, Scan
<1> QED BY <1>2, <1>3, <1>4

LEMMA NumaInvHolds == Spec => []NumaInv
<1>1. Init => NumaInv
  BY NumaStart DEF Init
<1> QED BY <1>1, NumaKeeps, PartSteps, PTL DEF Spec

\* However insmod and the tracking thread interleave, the figures of a node that they have
\* not last written together add up.
THEOREM FiguresBalance == Spec => []NodeInfoBalances
<1>1. ASSUME NumaInv, NEW n \in Possible, ~numaMixed[n],
             \A c \in Nodes!Context :
               numaCtx[c].node = n => numaCtx[c].at \in {"idle", "free", "distance"}
      PROVE  numa_nodes[n].used + numa_nodes[n].free = numa_nodes[n].total
  <2>1. Balanced(n)
    BY <1>1 DEF NumaInv
  <2>2. \A c \in Nodes!Context : ~Writes(c, n)
    BY <1>1 DEF Writes
  <2> QED BY <2>1, <2>2 DEF Balanced
<1>2. NumaInv => NodeInfoBalances
  BY <1>1 DEF NodeInfoBalances, Nodes!NodeInfoBalances
<1> QED BY <1>2, NumaInvHolds, PTL

\* uroam_numa_get_best_node answers a process that is gone with node 0, one on a counted
\* node with room with that node, and every other with the count of nodes, which no search
\* chose; for any number of nodes, any gaps in their ids and any figures.
THEOREM BestNodeIsOwn == Spec => []BestNodeIsLocal
<1>1. ASSUME NumaInv, NEW home \in online \cup {Nodes!Gone}, NEW size \in Nodes!Memory
      PROVE  Nodes!uroam_numa_get_best_node(home, size) =
               IF home = Nodes!Gone THEN 0
               ELSE IF home < nr_numa_nodes /\ numa_nodes[home].free >= size THEN home
               ELSE nr_numa_nodes
  <2>1. CASE home = Nodes!Gone
    BY <2>1 DEF Nodes!uroam_numa_get_best_node
  <2>2. CASE home # Nodes!Gone
    <3>1. home \in online /\ home \in Nat /\ nr_numa_nodes \in Nat
      <4>1. online \in SUBSET Possible /\ 0 \in online /\ nr_numa_nodes \in 1..Cardinality(online)
        BY <1>1, NumaCounts DEF NumaInv, Nodes!TypeOK
      <4> QED BY <2>2, <4>1, CountOnline, NumaAssumption
    <3>2. /\ Nodes!LocalNode(home, size) =
               IF home < nr_numa_nodes /\ Nodes!Room(home, size) THEN home ELSE nr_numa_nodes
          /\ Nodes!NearestNode(home, size) = nr_numa_nodes
      BY <3>1, LocalNodeIs, NearestNodeIs
    <3> QED BY <2>2, <3>1, <3>2 DEF Nodes!uroam_numa_get_best_node, Nodes!Room
  <2> QED BY <2>1, <2>2
<1>2. NumaInv => BestNodeIsLocal
  BY <1>1 DEF BestNodeIsLocal, Nodes!BestNodeIsLocal
<1> QED BY <1>2, NumaInvHolds, PTL

-----------------------------------------------------------------------------
(* RustOptimizers.                                                         *)

\* What a call of the idle optimizer writes is never the saved value.
Files == {"swappiness", "vm", "ksm", "thp", "oom", "shader_cache", "drop_caches"}

LEMMA SmallSequences ==
  ASSUME NEW S, NEW x \in S, NEW y \in S, NEW z \in S
  PROVE  /\ <<>> \in Seq(S) /\ <<x>> \in Seq(S) /\ <<x, y>> \in Seq(S) /\ <<x, y, z>> \in Seq(S)
         /\ \A s \in Seq(S) : s # <<>> => Head(s) \in S /\ Tail(s) \in Seq(S)
  OBVIOUS

LEMMA IdleWrites ==
  /\ \A s \in {Optimizers!Minimal, Optimizers!Normal, Optimizers!Aggressive} : s \in Seq(Files)
  /\ Optimizers!GamingWrites \in Seq(Files) /\ Optimizers!GamingWrites \in Seq(Files \cup {"saved"})
<1>1. /\ "ksm" \in Files /\ "thp" \in Files /\ "swappiness" \in Files /\ "vm" \in Files
      /\ "drop_caches" \in Files /\ "oom" \in Files /\ "shader_cache" \in Files
  BY DEF Files
<1>2. Optimizers!Minimal \in Seq(Files)
  BY <1>1, SmallSequences DEF Optimizers!Minimal
<1>3. Optimizers!Normal \in Seq(Files)
  BY <1>1, <1>2, SmallSequences, ConcatProperties DEF Optimizers!Normal
<1>4. Optimizers!Aggressive \in Seq(Files)
  BY <1>1, <1>3, SmallSequences, ConcatProperties DEF Optimizers!Aggressive
<1>5. ASSUME NEW S, NEW a \in S, NEW b \in S, NEW c \in S, NEW d \in S, NEW e \in S, NEW f \in S
      PROVE  <<a, b, c, d, e, f>> \in Seq(S)
  OBVIOUS
<1>6. Optimizers!GamingWrites \in Seq(Files)
  BY <1>1, <1>5 DEF Optimizers!GamingWrites
<1>7. Optimizers!GamingWrites \in Seq(Files \cup {"saved"})
  BY <1>1, <1>5 DEF Optimizers!GamingWrites
<1> QED BY <1>2, <1>3, <1>4, <1>6, <1>7

\* The gaming value is somewhere, or about to be written, only while what it
\* replaced is saved; a call that puts the saved value back has found one saved.
OptimizersInv ==
  /\ swappiness \in Optimizers!Values /\ saved \in Optimizers!Values \cup {"none"}
  /\ todo \in [Optimizers!Optimizer -> Seq(Files \cup {"saved"})]
  /\ todo["idle"] \in Seq(Files)
  /\ todo["gaming"] # <<>> => saved # "none" \/ (stranded /\ todo["gaming"] \in Seq(Files))
  /\ Optimizers!RestoresWhatOthersSet

LEMMA OptimizersKeep == OptimizersInv /\ [Optimizers!Next]_Optimizers!vars => OptimizersInv'
<1> SUFFICES ASSUME OptimizersInv, [Optimizers!Next]_Optimizers!vars PROVE OptimizersInv'
  OBVIOUS
<1> USE DEF OptimizersInv, Optimizers!RestoresWhatOthersSet, Optimizers!Values, Optimizers!Optimizer
<1>0. CASE UNCHANGED Optimizers!vars
  BY <1>0 DEF Optimizers!vars
<1>1. CASE Optimizers!detect_gaming_processes
  BY <1>1 DEF Optimizers!detect_gaming_processes
<1>2. CASE Optimizers!apply_gaming_optimizations
  <2>1. Optimizers!GamingWrites \in Seq(Files) /\ Optimizers!GamingWrites \in Seq(Files \cup {"saved"})
    BY IdleWrites
  <2>2. /\ todo["gaming"] = <<>> /\ todo' = [todo EXCEPT !["gaming"] = Optimizers!GamingWrites]
        /\ swappiness' = swappiness
        /\ \/ saved' = (IF saved = "none" THEN swappiness ELSE saved) /\ stranded' = stranded
           \/ stranded' = (stranded \/ saved = "none") /\ saved' = saved
    BY <1>2 DEF Optimizers!apply_gaming_optimizations, Optimizers!Calls
  <2>3. /\ todo' \in [Optimizers!Optimizer -> Seq(Files \cup {"saved"})]
        /\ todo'["gaming"] \in Seq(Files) /\ todo'["idle"] = todo["idle"]
    BY <2>1, <2>2
  <2>4. CASE saved' = (IF saved = "none" THEN swappiness ELSE saved) /\ stranded' = stranded
    <3>1. saved' # "none" /\ saved' \in Optimizers!Values
      BY <2>4
    <3> QED BY <2>2, <2>3, <2>4, <3>1
  <2>5. CASE stranded' = (stranded \/ saved = "none") /\ saved' = saved
    <3>1. saved' # "none" \/ stranded'
      BY <2>5
    <3> QED BY <2>2, <2>3, <2>5, <3>1
  <2> QED BY <2>2, <2>4, <2>5
<1>3. CASE Optimizers!restore_settings
  <2>1. <<"saved">> \in Seq(Files \cup {"saved"})
    BY SmallSequences
  <2>2. /\ saved # "none" /\ todo' = [todo EXCEPT !["gaming"] = <<"saved">>]
        /\ UNCHANGED <<swappiness, saved, stranded>>
    BY <1>3 DEF Optimizers!restore_settings, Optimizers!Calls
  <2>3. todo' \in [Optimizers!Optimizer -> Seq(Files \cup {"saved"})] /\ todo'["idle"] = todo["idle"]
    BY <2>1, <2>2
  <2> QED BY <2>2, <2>3
<1>4. CASE Optimizers!apply_idle_optimizations
  <2>1. PICK s \in {Optimizers!Minimal, Optimizers!Normal, Optimizers!Aggressive} : Optimizers!Calls("idle", s)
    BY <1>4 DEF Optimizers!apply_idle_optimizations
  <2>2. s \in Seq(Files) /\ s \in Seq(Files \cup {"saved"})
    BY IdleWrites
  <2>3. todo' = [todo EXCEPT !["idle"] = s] /\ UNCHANGED <<swappiness, saved, stranded>>
    BY <1>4, <2>1 DEF Optimizers!apply_idle_optimizations, Optimizers!Calls
  <2>4. /\ todo' \in [Optimizers!Optimizer -> Seq(Files \cup {"saved"})]
        /\ todo'["idle"] \in Seq(Files) /\ todo'["gaming"] = todo["gaming"]
    BY <2>2, <2>3
  <2> QED BY <2>3, <2>4
<1>5. CASE Optimizers!cancel_idle
  BY <1>5 DEF Optimizers!cancel_idle
<1>6. ASSUME NEW o \in Optimizers!Optimizer, Optimizers!Write(o) PROVE OptimizersInv'
  <2>1. <<>> \in Seq(Files) /\ <<>> \in Seq(Files \cup {"saved"})
    OBVIOUS
  <2>2. CASE todo' = [todo EXCEPT ![o] = <<>>] /\ UNCHANGED swappiness
    BY <1>6, <2>1, <2>2 DEF Optimizers!Write
  <2>3. CASE /\ todo' = [todo EXCEPT ![o] = Tail(@)]
             /\ swappiness' = CASE Head(todo[o]) = "swappiness" -> o
                                [] Head(todo[o]) = "saved" -> saved
                                [] OTHER -> swappiness
    <3>1. todo[o] # <<>> /\ todo[o] \in Seq(Files \cup {"saved"}) /\ UNCHANGED <<saved, stranded>>
      BY <1>6 DEF Optimizers!Write
    <3>2. /\ Tail(todo[o]) \in Seq(Files \cup {"saved"})
          /\ todo[o] \in Seq(Files) => Tail(todo[o]) \in Seq(Files) /\ Head(todo[o]) \in Files
      BY <3>1
    <3>3. todo' \in [Optimizers!Optimizer -> Seq(Files \cup {"saved"})] /\ todo'["idle"] \in Seq(Files)
      BY <2>3, <3>2
    <3>4. "saved" \notin Files
      BY DEF Files
    <3>5. o = "gaming" => saved # "none" \/ (stranded /\ todo[o] \in Seq(Files))
      BY <3>1
    <3>6. todo'["gaming"] # <<>> => saved' # "none" \/ (stranded' /\ todo'["gaming"] \in Seq(Files))
      BY <2>3, <3>1, <3>2, <3>5
    <3>7. /\ swappiness' \in Optimizers!Values
          /\ ~stranded => (swappiness' = "gaming" => saved # "none")
      BY <2>3, <3>1, <3>2, <3>4, <3>5
    <3> QED BY <3>1, <3>3, <3>6, <3>7
  <2> QED BY <1>6, <2>2, <2>3 DEF Optimizers!Write
<1>7. CASE Optimizers!AdminSets
  BY <1>7 DEF Optimizers!AdminSets
<1>8. CASE Optimizers!Restart
  <2>1. <<>> \in Seq(Files) /\ <<>> \in Seq(Files \cup {"saved"})
    OBVIOUS
  <2> QED BY <1>8, <2>1 DEF Optimizers!Restart
<1> QED
  BY <1>0, <1>1, <1>2, <1>3, <1>4, <1>5, <1>6, <1>7, <1>8 DEF Optimizers!Next

LEMMA OptimizersInvHolds == Spec => []OptimizersInv
<1>1. Init => OptimizersInv
  BY IdleWrites DEF Init, Optimizers!Init, OptimizersInv, Optimizers!RestoresWhatOthersSet,
     Optimizers!Values, Optimizers!Optimizer
<1> QED BY <1>1, OptimizersKeep, PartSteps, PTL DEF Spec

\* A call goes on to the next file or ends: what it has before it stays an end of its writes.
LEMMA EndsOf ==
  ASSUME NEW s \in Seq(Files \cup {"saved"})
  PROVE  /\ s \in Optimizers!Ends(s) /\ <<>> \in Optimizers!Ends(s)
         /\ \A e \in Optimizers!Ends(s) : e # <<>> => Tail(e) \in Optimizers!Ends(s)
<1>1. Len(s) \in Nat /\ DOMAIN s = 1..Len(s)
  OBVIOUS
<1>2. s = SubSeq(s, 1, Len(s)) /\ 1 \in 1..Len(s) + 1
  BY <1>1
<1>3. <<>> = SubSeq(s, Len(s) + 1, Len(s)) /\ Len(s) + 1 \in 1..Len(s) + 1
  BY <1>1
<1>4. ASSUME NEW i \in 1..Len(s) + 1, SubSeq(s, i, Len(s)) # <<>>
      PROVE  /\ i + 1 \in 1..Len(s) + 1
             /\ Tail(SubSeq(s, i, Len(s))) = SubSeq(s, i + 1, Len(s))
  <2>1. i <= Len(s)
    BY <1>1, <1>3, <1>4
  <2> QED BY <1>1, <2>1
<1> QED BY <1>2, <1>3, <1>4 DEF Optimizers!Ends

LEMMA OptimizersTypes == Spec => []Optimizers!TypeOK
<1> DEFINE Idle == Optimizers!Ends(Optimizers!Aggressive) \cup Optimizers!Ends(Optimizers!Normal)
                     \cup Optimizers!Ends(Optimizers!Minimal)
           Gaming == Optimizers!Ends(Optimizers!GamingWrites) \cup {<<"saved">>}
           Rest == /\ thp \in BOOLEAN /\ critical \in BOOLEAN /\ is_optimizing \in BOOLEAN
                   /\ stranded \in BOOLEAN /\ adminSets \in 0..MaxSets
           Left == todo["gaming"] \in Gaming /\ todo["idle"] \in Idle
<1>1. /\ <<>> \in Idle /\ <<>> \in Gaming /\ Optimizers!GamingWrites \in Gaming
      /\ \A s \in {Optimizers!Minimal, Optimizers!Normal, Optimizers!Aggressive} : s \in Idle
      /\ \A e \in Idle : e # <<>> => Tail(e) \in Idle
      /\ \A e \in Gaming : e # <<>> => Tail(e) \in Gaming
  <2>1. \A s \in {Optimizers!Minimal, Optimizers!Normal, Optimizers!Aggressive} : s \in Seq(Files \cup {"saved"})
    <3>1. \A s \in Seq(Files) : s \in Seq(Files \cup {"saved"})
      OBVIOUS
    <3> QED BY <3>1, IdleWrites
  <2>2. Optimizers!GamingWrites \in Seq(Files \cup {"saved"})
    BY IdleWrites
  <2>3. Tail(<<"saved">>) = <<>>
    OBVIOUS
  <2> QED BY <2>1, <2>2, <2>3, EndsOf
<1>2. Init => Rest /\ Left
  <2> SUFFICES ASSUME Optimizers!Init PROVE Rest /\ Left
    BY DEF Init
  <2>1. Rest
    <3>1. adminSets \in 0..MaxSets
      BY ContextsAssumption DEF Optimizers!Init
    <3>2. /\ thp \in BOOLEAN /\ critical \in BOOLEAN /\ is_optimizing \in BOOLEAN
          /\ stranded \in BOOLEAN
      BY DEF Optimizers!Init
    <3> QED BY <3>1, <3>2
  <2>2. Left
    <3> HIDE DEF Idle, Gaming
    <3> QED BY <1>1 DEF Optimizers!Init, Optimizers!Optimizer
  <2> QED BY <2>1, <2>2
<1>3. Rest /\ [Optimizers!Next]_Optimizers!vars => Rest'
  <2> SUFFICES ASSUME Rest, [Optimizers!Next]_Optimizers!vars PROVE Rest'
    OBVIOUS
  <2>1. /\ thp' \in BOOLEAN /\ critical' \in BOOLEAN /\ is_optimizing' \in BOOLEAN /\ stranded' \in BOOLEAN
    BY DEF Optimizers!Next, Optimizers!vars, Optimizers!detect_gaming_processes,
           Optimizers!apply_gaming_optimizations, Optimizers!restore_settings,
           Optimizers!apply_idle_optimizations, Optimizers!cancel_idle, Optimizers!Write,
           Optimizers!AdminSets, Optimizers!Restart
  <2>2. adminSets' \in 0..MaxSets
    BY ContextsAssumption
       DEF Optimizers!Next, Optimizers!vars, Optimizers!detect_gaming_processes,
           Optimizers!apply_gaming_optimizations, Optimizers!restore_settings,
           Optimizers!apply_idle_optimizations, Optimizers!cancel_idle, Optimizers!Write,
           Optimizers!AdminSets, Optimizers!Restart
  <2> QED BY <2>1, <2>2
<1>4. OptimizersInv /\ Left /\ [Optimizers!Next]_Optimizers!vars => Left'
  <2> SUFFICES ASSUME OptimizersInv, Left, [Optimizers!Next]_Optimizers!vars PROVE Left'
    OBVIOUS
  <2> HIDE DEF Idle, Gaming
  <2>1. todo = [o \in {"gaming", "idle"} |-> todo[o]] /\ Optimizers!Optimizer = {"gaming", "idle"}
    BY DEF OptimizersInv, Optimizers!Optimizer
  <2>2. ASSUME NEW o \in Optimizers!Optimizer, Optimizers!Write(o) PROVE Left'
    <3>1. /\ todo[o] # <<>>
          /\ todo' = [todo EXCEPT ![o] = Tail(todo[o])] \/ todo' = [todo EXCEPT ![o] = <<>>]
      BY <2>2 DEF Optimizers!Write
    <3> QED BY <1>1, <2>1, <3>1
  <2>3. CASE Optimizers!apply_gaming_optimizations
    BY <1>1, <2>1, <2>3 DEF Optimizers!apply_gaming_optimizations, Optimizers!Calls
  <2>4. CASE Optimizers!restore_settings
    <3>1. <<"saved">> \in Gaming
      BY DEF Gaming
    <3> QED BY <2>1, <2>4, <3>1 DEF Optimizers!restore_settings, Optimizers!Calls
  <2>5. CASE Optimizers!apply_idle_optimizations
    BY <1>1, <2>1, <2>5 DEF Optimizers!apply_idle_optimizations, Optimizers!Calls
  <2>6. CASE Optimizers!Restart
    BY <1>1, <2>1, <2>6 DEF Optimizers!Restart
  <2>7. CASE todo' = todo
    BY <2>7
  <2> QED BY <2>2, <2>3, <2>4, <2>5, <2>6, <2>7
          DEF Optimizers!Next, Optimizers!vars, Optimizers!detect_gaming_processes,
              Optimizers!cancel_idle, Optimizers!AdminSets
<1>5. Rest /\ Left /\ OptimizersInv => Optimizers!TypeOK
  BY DEF OptimizersInv, Optimizers!TypeOK
<1> HIDE DEF Rest, Left
<1> QED BY <1>2, <1>3, <1>4, <1>5, OptimizersInvHolds, PartSteps, PTL DEF Spec

\* However often gaming optimizations are applied, fail half way, are restored and
\* applied again, what restore_settings puts back was never set by them, and where they
\* have set swappiness there is something to put back; unless a process ended without
\* restoring, or they wrote although what was there could not be read.
THEOREM RestoreIsHonest == Spec => []RestoresWhatOthersSet
<1>1. OptimizersInv => RestoresWhatOthersSet
  BY DEF OptimizersInv, RestoresWhatOthersSet
<1> QED BY <1>1, OptimizersInvHolds, PTL

-----------------------------------------------------------------------------
(* RamDisk.                                                                *)

\* The managers that hold a flag for a directory and are not about to mount it anew.
Owners(d) == {m \in Managers : mounted[m][d] /\ diskAt[m] \notin {<<"create", d>>, <<"mount", d>>}}

DiskInv ==
  /\ Disk!TypeOK
  /\ \A d \in Disk!Dir : mounts[d] <= Cardinality(Owners(d)) + dropped[d]

LEMMA Capped == \A n \in Nat : Disk!Min({MaxMounts, n}) = IF n <= MaxMounts THEN n ELSE MaxMounts
<1> SUFFICES ASSUME NEW n \in Nat
             PROVE  Disk!Min({MaxMounts, n}) = IF n <= MaxMounts THEN n ELSE MaxMounts
  OBVIOUS
<1> DEFINE k == IF n <= MaxMounts THEN n ELSE MaxMounts
<1>1. k \in {MaxMounts, n} /\ \A y \in {MaxMounts, n} : k <= y
  BY DiskAssumption
<1>2. \A x \in {MaxMounts, n} : (\A y \in {MaxMounts, n} : x <= y) => x = k
  BY <1>1, DiskAssumption
<1> HIDE DEF k
<1>3. Disk!Min({MaxMounts, n}) = k
  BY <1>1, <1>2 DEF Disk!Min
<1> QED BY <1>3 DEF k

LEMMA OwnersFinite ==
  ASSUME NEW d PROVE IsFiniteSet(Owners(d)) /\ Cardinality(Owners(d)) \in Nat
<1>1. Owners(d) \subseteq Managers
  BY DEF Owners
<1> QED BY <1>1, FS_Subset, FS_CardinalityType, DiskAssumption

\* A step of one manager makes no other an owner, nor stops it being one.
LEMMA OwnersChange ==
  ASSUME NEW d, NEW m \in Managers,
         \A n \in Managers \ {m} : mounted'[n][d] = mounted[n][d] /\ diskAt'[n] = diskAt[n]
  PROVE  /\ Cardinality(Owners(d)) \in Nat /\ Cardinality(Owners(d)') \in Nat
         /\ m \notin Owners(d) /\ m \in Owners(d)' => Cardinality(Owners(d)') = Cardinality(Owners(d)) + 1
         /\ Cardinality(Owners(d)) <= Cardinality(Owners(d)') + 1
         /\ m \in Owners(d)' \/ m \notin Owners(d) => Cardinality(Owners(d)) <= Cardinality(Owners(d)')
<1>1. Owners(d) \ {m} = Owners(d)' \ {m}
  BY DEF Owners
<1>2. IsFiniteSet(Owners(d)) /\ IsFiniteSet(Owners(d)')
  <2>1. Owners(d) \subseteq Managers /\ Owners(d)' \subseteq Managers
    BY DEF Owners
  <2> QED BY <2>1, FS_Subset, DiskAssumption
<1> QED BY <1>1, <1>2, OneElement

LEMMA DiskKeeps == DiskInv /\ [Disk!Next]_Disk!vars => DiskInv'
<1> SUFFICES ASSUME DiskInv, [Disk!Next]_Disk!vars PROVE DiskInv'
  OBVIOUS
<1> DEFINE Balances(d) == mounts[d] <= Cardinality(Owners(d)) + dropped[d]
<1>t. /\ exists \in [Disk!Dir -> BOOLEAN] /\ mounted \in [Managers -> [Disk!Dir -> BOOLEAN]]
      /\ diskAt \in [Managers -> Disk!Places]
  BY DEF DiskInv, Disk!TypeOK
<1>n. /\ mounts \in [Disk!Dir -> 0..MaxMounts] /\ dropped \in [Disk!Dir -> 0..MaxMounts]
      /\ \A d \in Disk!Dir : mounts[d] > 0 => exists[d]
      /\ \A d \in Disk!Dir : Balances(d) /\ mounts[d] \in Nat /\ dropped[d] \in Nat
      /\ MaxMounts \in Nat
  BY DiskAssumption DEF DiskInv, Disk!TypeOK
<1>p. /\ Disk!Rest \in Disk!Places
      /\ \A op \in {"exists", "create", "mount", "umount"}, d \in Disk!Dir :
           <<op, d>> \in Disk!Places /\ Disk!After(op, d) \in Disk!Places
      /\ "build" \in Disk!Dir
  BY DEF Disk!Places, Disk!After, Disk!Dir
<1>0. CASE UNCHANGED Disk!vars
  <2>1. \A d : Owners(d)' = Owners(d)
    BY <1>0 DEF Disk!vars, Owners
  <2> QED BY <1>0, <2>1 DEF Disk!vars, DiskInv, Disk!TypeOK
<1>1. ASSUME NEW m \in Managers, NEW op \in {"exists", "umount"}, Disk!Begins(m, op) PROVE DiskInv'
  <2>1. /\ UNCHANGED <<exists, mounts, mounted, dropped>>
        /\ diskAt' = [diskAt EXCEPT ![m] = <<op, "build">>] /\ diskAt[m] = Disk!Rest
    BY <1>1 DEF Disk!Begins, Disk!Goes
  <2>2. Disk!TypeOK'
    BY <2>1, <1>t, <1>n, <1>p DEF Disk!TypeOK
  <2>3. \A d \in Disk!Dir : Owners(d)' = Owners(d)
    BY <2>1, <1>t DEF Owners, Disk!Rest
  <2> QED BY <2>1, <2>2, <2>3, <1>n DEF DiskInv
<1>2. ASSUME NEW m \in Managers, NEW e \in Disk!Dir, Disk!FindsDir(m, e) PROVE DiskInv'
  <2>1. CASE exists[e]
    <3>1. /\ UNCHANGED <<exists, mounts, dropped>> /\ diskAt[m] = <<"exists", e>>
          /\ diskAt' = [diskAt EXCEPT ![m] = Disk!After("exists", e)]
          /\ mounted' = [mounted EXCEPT ![m][e] = TRUE]
      BY <1>2, <2>1 DEF Disk!FindsDir, Disk!Goes, Disk!Flag
    <3>2. Disk!TypeOK'
      BY <3>1, <1>t, <1>n, <1>p DEF Disk!TypeOK
    <3>3. ASSUME NEW d \in Disk!Dir PROVE Balances(d)'
      <4>1. \A n \in Managers \ {m} : mounted'[n][d] = mounted[n][d] /\ diskAt'[n] = diskAt[n]
        BY <3>1, <1>t
      <4>2. m \in Owners(d) => m \in Owners(d)'
        <5>1. Disk!After("exists", e) \notin {<<"create", d>>, <<"mount", d>>}
          BY DEF Disk!After, Disk!Rest
        <5>2. mounted[m][d] => mounted'[m][d]
          BY <3>1, <1>t
        <5> QED BY <5>1, <5>2, <3>1, <1>t DEF Owners
      <4>3. /\ Cardinality(Owners(d)) <= Cardinality(Owners(d)')
            /\ Cardinality(Owners(d)) \in Nat /\ Cardinality(Owners(d)') \in Nat
        BY <4>1, <4>2, OwnersChange
      <4> QED BY <4>3, <3>1, <1>n
    <3> QED BY <3>2, <3>3 DEF DiskInv
  <2>2. CASE ~exists[e]
    <3>1. /\ UNCHANGED <<exists, mounts, dropped, mounted>> /\ diskAt[m] = <<"exists", e>>
          /\ diskAt' = [diskAt EXCEPT ![m] = <<"create", e>>]
      BY <1>2, <2>2 DEF Disk!FindsDir, Disk!Goes, Disk!Flag
    <3>2. Disk!TypeOK'
      BY <3>1, <1>t, <1>n, <1>p DEF Disk!TypeOK
    <3>3. ASSUME NEW d \in Disk!Dir PROVE Balances(d)'
      <4>1. Cardinality(Owners(d)) \in Nat /\ Cardinality(Owners(d)') \in Nat
        BY <3>1, <1>t, OwnersChange
      <4>2. CASE d = e
        BY <4>1, <4>2, <2>2, <3>1, <1>n
      <4>3. CASE d # e
        <5>1. Owners(d)' = Owners(d)
          BY <4>3, <3>1, <1>t DEF Owners
        <5> QED BY <5>1, <3>1, <1>n
      <4> QED BY <4>2, <4>3
    <3> QED BY <3>2, <3>3 DEF DiskInv
  <2> QED BY <2>1, <2>2
<1>3. ASSUME NEW m \in Managers, NEW e \in Disk!Dir, Disk!CreateDir(m, e) PROVE DiskInv'
  <2>1. /\ UNCHANGED <<mounts, dropped, mounted>> /\ diskAt[m] = <<"create", e>>
        /\ exists' = [exists EXCEPT ![e] = TRUE] \/ UNCHANGED exists
        /\ \E to \in {<<"mount", e>>, Disk!Rest} : diskAt' = [diskAt EXCEPT ![m] = to]
    BY <1>3 DEF Disk!CreateDir, Disk!Goes
  <2>2. PICK to \in {<<"mount", e>>, Disk!Rest} : diskAt' = [diskAt EXCEPT ![m] = to]
    BY <2>1
  <2>3. Disk!TypeOK'
    BY <2>1, <2>2, <1>t, <1>n, <1>p DEF Disk!TypeOK
  <2>4. ASSUME NEW d \in Disk!Dir PROVE Balances(d)'
    <3>1. \A n \in Managers \ {m} : mounted'[n][d] = mounted[n][d] /\ diskAt'[n] = diskAt[n]
      BY <2>1, <2>2, <1>t
    <3>2. m \in Owners(d) => m \in Owners(d)'
      <4>1. m \in Owners(d) => d # e
        BY <2>1 DEF Owners
      <4>2. d # e => to \notin {<<"create", d>>, <<"mount", d>>}
        BY DEF Disk!Rest
      <4> QED BY <4>1, <4>2, <2>1, <2>2, <1>t DEF Owners
    <3>3. /\ Cardinality(Owners(d)) <= Cardinality(Owners(d)')
          /\ Cardinality(Owners(d)) \in Nat /\ Cardinality(Owners(d)') \in Nat
      BY <3>1, <3>2, OwnersChange
    <3> QED BY <3>3, <2>1, <1>n
  <2> QED BY <2>3, <2>4 DEF DiskInv
<1>4. ASSUME NEW m \in Managers, NEW e \in Disk!Dir, Disk!Mount(m, e) PROVE DiskInv'
  <2>1. /\ UNCHANGED <<exists, dropped>> /\ diskAt[m] = <<"mount", e>>
        /\ diskAt' = [diskAt EXCEPT ![m] = Disk!After("exists", e)]
    BY <1>4 DEF Disk!Mount, Disk!Goes
  <2>2. \/ /\ exists[e] /\ mounts[e] < MaxMounts
           /\ mounts' = [mounts EXCEPT ![e] = @ + 1]
           /\ mounted' = [mounted EXCEPT ![m][e] = TRUE]
        \/ UNCHANGED <<mounts, mounted>>
    BY <1>4 DEF Disk!Mount, Disk!Flag
  <2>3. Disk!TypeOK'
    <3>1. /\ exists' \in [Disk!Dir -> BOOLEAN] /\ diskAt' \in [Managers -> Disk!Places]
          /\ dropped' \in [Disk!Dir -> 0..MaxMounts]
      BY <2>1, <1>t, <1>n, <1>p
    <3>2. mounted' \in [Managers -> [Disk!Dir -> BOOLEAN]]
      <4>1. [mounted EXCEPT ![m][e] = TRUE] \in [Managers -> [Disk!Dir -> BOOLEAN]]
        BY <1>t
      <4>2. mounted' = mounted \/ mounted' = [mounted EXCEPT ![m][e] = TRUE]
        BY <2>2
      <4> QED BY <4>1, <4>2, <1>t
    <3>3. mounts' \in [Disk!Dir -> 0..MaxMounts] /\ \A d \in Disk!Dir : mounts'[d] > 0 => exists'[d]
      BY <2>1, <2>2, <1>n
    <3> QED BY <3>1, <3>2, <3>3 DEF Disk!TypeOK
  <2>4. ASSUME NEW d \in Disk!Dir PROVE Balances(d)'
    <3>1. \A n \in Managers \ {m} : mounted'[n][d] = mounted[n][d] /\ diskAt'[n] = diskAt[n]
      BY <2>1, <2>2, <1>t
    <3>2. Disk!After("exists", e) \notin {<<"create", d>>, <<"mount", d>>}
      BY DEF Disk!After, Disk!Rest
    <3>3. m \in Owners(d) => m \in Owners(d)'
      <4>1. mounted[m][d] => mounted'[m][d]
        BY <2>2, <1>t
      <4> QED BY <4>1, <3>2, <2>1, <1>t DEF Owners
    <3>4. mounts'[d] # mounts[d] => m \notin Owners(d) /\ m \in Owners(d)'
      <4>1. SUFFICES ASSUME mounts'[d] # mounts[d] PROVE m \notin Owners(d) /\ m \in Owners(d)'
        OBVIOUS
      <4>2. d = e /\ mounted'[m][d]
        BY <4>1, <2>2, <1>t, <1>n
      <4> QED BY <4>2, <3>2, <2>1, <1>t DEF Owners
    <3>5. mounts'[d] = mounts[d] \/ mounts'[d] = mounts[d] + 1
      BY <2>2, <1>n
    <3>6. /\ Cardinality(Owners(d)) \in Nat /\ Cardinality(Owners(d)') \in Nat
          /\ Cardinality(Owners(d)) <= Cardinality(Owners(d)')
          /\ mounts'[d] # mounts[d] => Cardinality(Owners(d)') = Cardinality(Owners(d)) + 1
      BY <3>1, <3>3, <3>4, OwnersChange
    <3> QED BY <3>5, <3>6, <2>1, <1>n
  <2> QED BY <2>3, <2>4 DEF DiskInv
<1>5. ASSUME NEW m \in Managers, NEW e \in Disk!Dir, Disk!Umount(m, e) PROVE DiskInv'
  <2>1. /\ UNCHANGED exists /\ diskAt[m] = <<"umount", e>>
        /\ diskAt' = [diskAt EXCEPT ![m] = Disk!After("umount", e)]
        /\ mounted' = [mounted EXCEPT ![m][e] = FALSE]
    BY <1>5 DEF Disk!Umount, Disk!Goes, Disk!Flag
  <2>2. \/ UNCHANGED <<mounts, dropped>> /\ ~(mounted[m][e] /\ mounts[e] > 0)
        \/ mounts' = [mounts EXCEPT ![e] = @ - 1] /\ UNCHANGED dropped /\ mounts[e] > 0
        \/ dropped' = [dropped EXCEPT ![e] = Disk!Min({MaxMounts, @ + 1})] /\ UNCHANGED mounts
    BY <1>5 DEF Disk!Umount
  <2>3. Disk!Min({MaxMounts, dropped[e] + 1}) = IF dropped[e] + 1 <= MaxMounts THEN dropped[e] + 1 ELSE MaxMounts
    BY <1>n, Capped
  <2>4. Disk!TypeOK'
    <3>1. /\ exists' \in [Disk!Dir -> BOOLEAN] /\ diskAt' \in [Managers -> Disk!Places]
          /\ mounted' \in [Managers -> [Disk!Dir -> BOOLEAN]]
      BY <2>1, <1>t, <1>p
    <3>2. dropped' \in [Disk!Dir -> 0..MaxMounts]
      BY <2>2, <2>3, <1>n
    <3>3. mounts' \in [Disk!Dir -> 0..MaxMounts] /\ \A d \in Disk!Dir : mounts'[d] > 0 => exists'[d]
      BY <2>1, <2>2, <1>n
    <3> QED BY <3>1, <3>2, <3>3 DEF Disk!TypeOK
  <2>5. ASSUME NEW d \in Disk!Dir PROVE Balances(d)'
    <3>1. \A n \in Managers \ {m} : mounted'[n][d] = mounted[n][d] /\ diskAt'[n] = diskAt[n]
      BY <2>1, <1>t
    <3>2. d # e => (m \in Owners(d) => m \in Owners(d)')
      <4>1. Disk!After("umount", e) \notin {<<"create", d>>, <<"mount", d>>}
        BY DEF Disk!After, Disk!Rest
      <4>2. d # e => mounted'[m][d] = mounted[m][d]
        BY <2>1, <1>t
      <4> QED BY <4>1, <4>2, <2>1, <1>t DEF Owners
    <3>3. /\ Cardinality(Owners(d)) \in Nat /\ Cardinality(Owners(d)') \in Nat
          /\ Cardinality(Owners(d)) <= Cardinality(Owners(d)') + 1
          /\ m \in Owners(d)' \/ m \notin Owners(d) => Cardinality(Owners(d)) <= Cardinality(Owners(d)')
      BY <3>1, OwnersChange
    <3>4. CASE d # e
      <4>1. mounts'[d] = mounts[d] /\ dropped'[d] = dropped[d]
        BY <3>4, <2>2, <1>n
      <4> QED BY <4>1, <3>2, <3>3, <3>4, <1>n
    <3>5. CASE d = e
      <4>1. CASE UNCHANGED <<mounts, dropped>> /\ ~(mounted[m][e] /\ mounts[e] > 0)
        <5>1. mounts[d] = 0 \/ m \notin Owners(d)
          BY <3>5, <4>1, <1>n DEF Owners
        <5> QED BY <5>1, <4>1, <3>3, <1>n
      <4>2. CASE mounts' = [mounts EXCEPT ![e] = @ - 1] /\ UNCHANGED dropped /\ mounts[e] > 0
        BY <4>2, <3>5, <3>3, <1>n
      <4>3. CASE dropped' = [dropped EXCEPT ![e] = Disk!Min({MaxMounts, @ + 1})] /\ UNCHANGED mounts
        <5>1. dropped'[d] = dropped[d] + 1 \/ dropped'[d] = MaxMounts
          BY <4>3, <3>5, <2>3, <1>n
        <5>2. mounts'[d] = mounts[d] /\ mounts[d] <= MaxMounts
          BY <4>3, <1>n
        <5> QED BY <5>1, <5>2, <3>3, <1>n
      <4> QED BY <2>2, <4>1, <4>2, <4>3
    <3> QED BY <3>4, <3>5
  <2> QED BY <2>4, <2>5 DEF DiskInv
<1>6. ASSUME NEW m \in Managers, Disk!Restart(m) PROVE DiskInv'
  <2>1. /\ UNCHANGED exists
        /\ diskAt' = [diskAt EXCEPT ![m] = Disk!Rest]
        /\ mounted' = [mounted EXCEPT ![m] = [d \in Disk!Dir |-> FALSE]]
    BY <1>6 DEF Disk!Restart
  <2>2. PICK done \in SUBSET {d \in Disk!Dir : diskAt[m] = <<"mount", d>> /\ exists[d] /\ mounts[d] < MaxMounts} :
          /\ mounts' = [d \in Disk!Dir |-> mounts[d] + (IF d \in done THEN 1 ELSE 0)]
          /\ dropped' = [d \in Disk!Dir |->
               IF d \in done \/ (mounted[m][d] /\ mounts[d] > 0)
               THEN Disk!Min({MaxMounts, dropped[d] + 1}) ELSE dropped[d]]
    BY <1>6 DEF Disk!Restart
  <2>3. \A d \in Disk!Dir :
          Disk!Min({MaxMounts, dropped[d] + 1}) = IF dropped[d] + 1 <= MaxMounts THEN dropped[d] + 1 ELSE MaxMounts
    BY <1>n, Capped
  <2>4. Disk!TypeOK'
    <3>1. /\ exists' \in [Disk!Dir -> BOOLEAN] /\ diskAt' \in [Managers -> Disk!Places]
          /\ mounted' \in [Managers -> [Disk!Dir -> BOOLEAN]]
      BY <2>1, <1>t, <1>p
    <3>2. dropped' \in [Disk!Dir -> 0..MaxMounts]
      BY <2>2, <2>3, <1>n
    <3>3. mounts' \in [Disk!Dir -> 0..MaxMounts] /\ \A d \in Disk!Dir : mounts'[d] > 0 => exists'[d]
      BY <2>1, <2>2, <1>n
    <3> QED BY <3>1, <3>2, <3>3 DEF Disk!TypeOK
  <2>5. ASSUME NEW d \in Disk!Dir PROVE Balances(d)'
    <3>1. \A n \in Managers \ {m} : mounted'[n][d] = mounted[n][d] /\ diskAt'[n] = diskAt[n]
      BY <2>1, <1>t
    <3>2. /\ Cardinality(Owners(d)) \in Nat /\ Cardinality(Owners(d)') \in Nat
          /\ Cardinality(Owners(d)) <= Cardinality(Owners(d)') + 1
          /\ m \notin Owners(d) => Cardinality(Owners(d)) <= Cardinality(Owners(d)')
      BY <3>1, OwnersChange
    <3>3. d \in done => m \notin Owners(d) /\ mounts[d] < MaxMounts
      BY <2>2 DEF Owners
    <3>4. /\ mounts'[d] = mounts[d] + (IF d \in done THEN 1 ELSE 0)
          /\ dropped'[d] = IF d \in done \/ (mounted[m][d] /\ mounts[d] > 0)
                           THEN IF dropped[d] + 1 <= MaxMounts THEN dropped[d] + 1 ELSE MaxMounts
                           ELSE dropped[d]
      BY <2>2, <2>3
    <3>5. mounts[d] \in Nat /\ dropped[d] \in Nat /\ mounts[d] <= MaxMounts /\ MaxMounts \in Nat
          /\ Balances(d)
      BY <1>n
    <3>6. CASE d \in done
      BY <3>2, <3>3, <3>4, <3>5, <3>6
    <3>7. CASE d \notin done /\ mounted[m][d] /\ mounts[d] > 0
      BY <3>2, <3>4, <3>5, <3>7
    <3>8. CASE d \notin done /\ ~(mounted[m][d] /\ mounts[d] > 0)
      <4>1. mounts[d] = 0 \/ m \notin Owners(d)
        BY <3>8, <3>5 DEF Owners
      <4> QED BY <4>1, <3>2, <3>4, <3>5, <3>8
    <3> QED BY <3>6, <3>7, <3>8
  <2> QED BY <2>4, <2>5 DEF DiskInv
<1>7. ASSUME NEW e \in Disk!Dir, Disk!TmpCleaned(e) PROVE DiskInv'
  <2>1. UNCHANGED <<mounts, mounted, diskAt, dropped>> /\ exists' = [exists EXCEPT ![e] = FALSE] /\ mounts[e] = 0
    BY <1>7 DEF Disk!TmpCleaned
  <2>2. Disk!TypeOK'
    BY <2>1, <1>t, <1>n DEF Disk!TypeOK
  <2>3. \A d : Owners(d)' = Owners(d)
    BY <2>1 DEF Owners
  <2> QED BY <2>1, <2>2, <2>3, <1>n DEF DiskInv
<1> QED
  BY <1>0, <1>1, <1>2, <1>3, <1>4, <1>5, <1>6, <1>7 DEF Disk!Next

LEMMA DiskInvHolds == Spec => []DiskInv
<1>1. ASSUME Init PROVE DiskInv
  <2>1. \A d \in Disk!Dir : Cardinality(Owners(d)) \in Nat
    BY OwnersFinite
  <2>2. /\ exists \in [Disk!Dir -> BOOLEAN] /\ mounts = [d \in Disk!Dir |-> 0]
        /\ mounted = [m \in Managers |-> [d \in Disk!Dir |-> FALSE]]
        /\ diskAt = [m \in Managers |-> Disk!Rest] /\ dropped = [d \in Disk!Dir |-> 0]
    BY <1>1 DEF Init, Disk!Init
  <2>3. Disk!TypeOK
    BY <2>2, DiskAssumption DEF Disk!TypeOK, Disk!Places
  <2> QED BY <2>1, <2>2, <2>3 DEF DiskInv
<1> QED BY <1>1, DiskKeeps, PartSteps, PTL DEF Spec

\* Of what is mounted nothing is forgotten, for any number of managers and any bound on
\* what is mounted: each tmpfs on a directory has a manager that will unmount it, but for
\* those whose manager died or whose unmounting was refused.
THEOREM DisksAreOwned == Spec => []TmpfsOwned
<1>1. ASSUME DiskInv, NEW d \in Disk!Dir
      PROVE  mounts[d] <= Cardinality({m \in Managers : mounted[m][d]}) + dropped[d]
  <2> DEFINE Flagged == {m \in Managers : mounted[m][d]}
  <2>1. Owners(d) \subseteq Flagged /\ Flagged \subseteq Managers
    BY DEF Owners
  <2>2. Cardinality(Owners(d)) <= Cardinality(Flagged)
        /\ Cardinality(Owners(d)) \in Nat /\ Cardinality(Flagged) \in Nat
    BY <2>1, FS_Subset, FS_CardinalityType, DiskAssumption
  <2>3. mounts[d] <= Cardinality(Owners(d)) + dropped[d] /\ mounts[d] \in Nat /\ dropped[d] \in Nat
    BY <1>1, DiskAssumption DEF DiskInv, Disk!TypeOK
  <2> HIDE DEF Flagged
  <2>4. mounts[d] <= Cardinality(Flagged) + dropped[d]
    BY <2>2, <2>3
  <2> QED BY <2>4 DEF Flagged
<1>2. \A S : Disk!Cardinality(S) = Cardinality(S)
  BY DEF Disk!Cardinality, Cardinality
<1>3. DiskInv => TmpfsOwned
  BY <1>1, <1>2 DEF TmpfsOwned, Disk!TmpfsOwned
<1> QED BY <1>3, DiskInvHolds, PTL

-----------------------------------------------------------------------------
(* PyPool.                                                                 *)

\* The list grows and shrinks at its end only.
LEMMA EndOfList ==
  ASSUME NEW s \in Seq(Blocks), Pool!IsInjective(s)
  PROVE  /\ \A b \in Blocks \ Pool!Range(s) :
              /\ Append(s, b) \in Seq(Blocks) /\ Len(Append(s, b)) = Len(s) + 1
              /\ Pool!IsInjective(Append(s, b)) /\ Pool!Range(Append(s, b)) = Pool!Range(s) \cup {b}
         /\ s # <<>> =>
              LET f == SubSeq(s, 1, Len(s) - 1) IN
              /\ f \in Seq(Blocks) /\ Len(f) = Len(s) - 1 /\ Pool!IsInjective(f)
              /\ s[Len(s)] \in Pool!Range(s) /\ Pool!Range(f) = Pool!Range(s) \ {s[Len(s)]}
<1>1. ASSUME NEW b \in Blocks \ Pool!Range(s)
      PROVE  /\ Append(s, b) \in Seq(Blocks) /\ Len(Append(s, b)) = Len(s) + 1
             /\ Pool!IsInjective(Append(s, b)) /\ Pool!Range(Append(s, b)) = Pool!Range(s) \cup {b}
  <2>1. /\ Append(s, b) \in Seq(Blocks) /\ Len(Append(s, b)) = Len(s) + 1
        /\ DOMAIN Append(s, b) = 1..Len(s) + 1 /\ DOMAIN s = 1..Len(s) /\ Len(s) \in Nat
        /\ \A i \in 1..Len(s) : Append(s, b)[i] = s[i]
        /\ Append(s, b)[Len(s) + 1] = b
    OBVIOUS
  <2>2. Pool!IsInjective(Append(s, b))
    BY <2>1 DEF Pool!IsInjective, Pool!Range
  <2>3. Pool!Range(Append(s, b)) = Pool!Range(s) \cup {b}
    BY <2>1 DEF Pool!Range
  <2> QED BY <2>1, <2>2, <2>3
<1>2. ASSUME s # <<>>, NEW f, f = SubSeq(s, 1, Len(s) - 1)
      PROVE  /\ f \in Seq(Blocks) /\ Len(f) = Len(s) - 1 /\ Pool!IsInjective(f)
             /\ s[Len(s)] \in Pool!Range(s) /\ Pool!Range(f) = Pool!Range(s) \ {s[Len(s)]}
  <2>0. Len(s) \in Nat \ {0} /\ DOMAIN s = 1..Len(s)
    BY <1>2
  <2>1. /\ f \in Seq(Blocks) /\ Len(f) = Len(s) - 1 /\ DOMAIN f = 1..Len(s) - 1
        /\ \A i \in 1..Len(s) - 1 : f[i] = s[i]
    BY <1>2, <2>0
  <2>2. Pool!IsInjective(f)
    BY <2>0, <2>1 DEF Pool!IsInjective
  <2>3. s[Len(s)] \in Pool!Range(s)
    BY <2>0, <2>1 DEF Pool!Range
  <2>4. \A i \in 1..Len(s) - 1 : s[i] # s[Len(s)]
    BY <2>0, <2>1 DEF Pool!IsInjective
  <2>5. Pool!Range(f) = Pool!Range(s) \ {s[Len(s)]}
    BY <2>0, <2>1, <2>4 DEF Pool!Range
  <2> QED BY <2>1, <2>2, <2>3, <2>5
<1> QED BY <1>1, <1>2

\* The calls that have found room in the list and not yet used it.
Appending == {t \in Threads : poolCall[t].at = "append"}

Freeing == UNION {poolCall[t].block : t \in Threads}

Apart ==
  /\ heap = Pool!Range(free_blocks) \cup held \cup Freeing
  /\ Pool!Range(free_blocks) \cap held = {}
  /\ \A t \in Threads : /\ poolCall[t].block \cap (Pool!Range(free_blocks) \cup held) = {}
                        /\ \A u \in Threads \ {t} : poolCall[t].block \cap poolCall[u].block = {}

PoolInv ==
  /\ Pool!TypeOK /\ Pool!IsInjective(free_blocks) /\ Apart
  /\ Len(free_blocks) + Cardinality(Appending) < Count + Cardinality(Threads)

\* What a step of one thread changes in poolCall, and what that does to Appending.
Moved(t, from, to, b) ==
  /\ poolCall[t].at = from
  /\ poolCall'[t].at = to /\ poolCall'[t].block = b
  /\ \A u \in Threads \ {t} : poolCall'[u] = poolCall[u]
  /\ poolCall' \in [Threads -> Pool!Calls]
  /\ from \notin {"append", "cfree"} => poolCall[t].block = {}

Counted(to, from) ==
  /\ Cardinality(Appending) \in Nat /\ Cardinality(Appending') \in Nat
  /\ Cardinality(Threads) \in Nat /\ Cardinality(Appending') <= Cardinality(Threads)
  /\ to # "append" => Cardinality(Appending') <= Cardinality(Appending)
  /\ to # "append" /\ from = "append" => Cardinality(Appending) = Cardinality(Appending') + 1

LEMMA PoolMoves ==
  ASSUME NEW t \in Threads, NEW from, NEW to, NEW b, Pool!TypeOK,
         [at |-> to, block |-> b] \in Pool!Calls, Pool!Moves(t, from, to, b)
  PROVE  Moved(t, from, to, b) /\ Counted(to, from)
<1>1. /\ poolCall \in [Threads -> Pool!Calls] /\ poolCall[t].at = from
      /\ poolCall' = [poolCall EXCEPT ![t] = [at |-> to, block |-> b]]
  BY DEF Pool!TypeOK, Pool!Moves
<1>2. /\ poolCall'[t] = [at |-> to, block |-> b] /\ poolCall' \in [Threads -> Pool!Calls]
      /\ \A u \in Threads \ {t} : poolCall'[u] = poolCall[u]
  BY <1>1
<1>3. from \notin {"append", "cfree"} => poolCall[t].block = {}
  <2>1. poolCall[t] \in Pool!Calls
    BY <1>1
  <2> QED BY <1>1, <2>1 DEF Pool!Calls
<1>4. Moved(t, from, to, b)
  BY <1>1, <1>2, <1>3 DEF Moved
<1>5. Appending \subseteq Threads /\ Appending' \subseteq Threads
  BY DEF Appending
<1>6. /\ IsFiniteSet(Appending) /\ IsFiniteSet(Appending')
      /\ Cardinality(Appending') <= Cardinality(Threads) /\ Cardinality(Threads) \in Nat
  BY <1>5, FS_Subset, FS_CardinalityType, PoolAssumption
<1>7. Appending \ {t} = Appending' \ {t}
  BY <1>2 DEF Appending
<1>8. (t \in Appending <=> from = "append") /\ (t \in Appending' <=> to = "append")
  BY <1>1, <1>2 DEF Appending
<1>9. /\ Cardinality(Appending) \in Nat /\ Cardinality(Appending') \in Nat
      /\ t \notin Appending' => Cardinality(Appending') <= Cardinality(Appending)
      /\ t \notin Appending' /\ t \in Appending => Cardinality(Appending) = Cardinality(Appending') + 1
  BY <1>6, <1>7, OneElement
<1>10. Counted(to, from)
  BY <1>6, <1>8, <1>9 DEF Counted
<1> QED BY <1>4, <1>10

\* The blocks of the other threads stand still.
Elsewhere(t) == UNION {poolCall[u].block : u \in Threads \ {t}}

LEMMA FreeingParts ==
  ASSUME NEW t \in Threads, NEW from, NEW to, NEW b, Moved(t, from, to, b)
  PROVE  Freeing = poolCall[t].block \cup Elsewhere(t) /\ Freeing' = b \cup Elsewhere(t)
  BY DEF Moved, Freeing, Elsewhere

\* The threads' blocks are apart if the one thread's is from all else.
LEMMA ApartAgain ==
  ASSUME NEW t \in Threads, NEW from, NEW to, NEW b, Moved(t, from, to, b), Apart,
         heap' = Pool!Range(free_blocks') \cup held' \cup b \cup Elsewhere(t),
         Pool!Range(free_blocks') \cap held' = {},
         b \cap (Pool!Range(free_blocks') \cup held' \cup Elsewhere(t)) = {},
         Elsewhere(t) \cap (Pool!Range(free_blocks') \cup held') = {}
  PROVE  Apart'
<1>1. Pool!Range(free_blocks)' = Pool!Range(free_blocks')
  BY DEF Pool!Range
<1>2. Freeing' = b \cup Elsewhere(t)
  BY FreeingParts
<1>3. ASSUME NEW u \in Threads \ {t}
      PROVE  poolCall'[u].block \subseteq Elsewhere(t) /\ poolCall'[u] = poolCall[u]
  BY DEF Moved, Elsewhere
<1>4. poolCall'[t].block = b
  BY DEF Moved
<1>5. ASSUME NEW u \in Threads, NEW v \in Threads \ {u} PROVE poolCall'[u].block \cap poolCall'[v].block = {}
  <2>1. poolCall[u].block \cap poolCall[v].block = {}
    BY DEF Apart
  <2>2. CASE u = t
    BY <1>3, <1>4, <2>2
  <2>3. CASE v = t
    BY <1>3, <1>4, <2>3
  <2>4. CASE u # t /\ v # t
    BY <1>3, <2>1, <2>4
  <2> QED BY <2>2, <2>3, <2>4
<1>6. ASSUME NEW u \in Threads PROVE poolCall'[u].block \cap (Pool!Range(free_blocks') \cup held') = {}
  BY <1>3, <1>4
<1> QED BY <1>1, <1>2, <1>5, <1>6 DEF Apart

LEMMA ElsewhereApart ==
  ASSUME NEW t \in Threads, Apart
  PROVE  /\ Elsewhere(t) \cap (Pool!Range(free_blocks) \cup held \cup poolCall[t].block) = {}
         /\ heap = Pool!Range(free_blocks) \cup held \cup poolCall[t].block \cup Elsewhere(t)
         /\ poolCall[t].block \cap (Pool!Range(free_blocks) \cup held) = {}
<1>1. Freeing = poolCall[t].block \cup Elsewhere(t)
  BY DEF Freeing, Elsewhere
<1>2. \A u \in Threads \ {t} :
        poolCall[u].block \cap (Pool!Range(free_blocks) \cup held \cup poolCall[t].block) = {}
  BY DEF Apart
<1>3. Elsewhere(t) \cap (Pool!Range(free_blocks) \cup held \cup poolCall[t].block) = {}
  BY <1>2 DEF Elsewhere
<1> QED BY <1>1, <1>3 DEF Apart

LEMMA PoolKeeps == PoolInv /\ [Pool!Next]_Pool!vars => PoolInv'
<1> SUFFICES ASSUME PoolInv, [Pool!Next]_Pool!vars PROVE PoolInv'
  OBVIOUS
<1>t. /\ Pool!TypeOK /\ free_blocks \in Seq(Blocks) /\ heap \in SUBSET Blocks /\ held \in SUBSET Blocks
  BY DEF PoolInv, Pool!TypeOK
<1>i. /\ Pool!IsInjective(free_blocks) /\ Apart /\ Pool!Range(free_blocks) \cap held = {}
      /\ Len(free_blocks) + Cardinality(Appending) < Count + Cardinality(Threads)
  BY DEF PoolInv, Apart
<1>c. Count \in Nat /\ Len(free_blocks) \in Nat
  BY <1>t, PoolAssumption
<1>k. /\ \A to \in {"idle", "pop", "malloc"} : [at |-> to, block |-> {}] \in Pool!Calls
      /\ \A to \in {"append", "cfree"}, b \in Blocks : [at |-> to, block |-> {b}] \in Pool!Calls
  BY DEF Pool!Calls
<1>0. CASE UNCHANGED Pool!vars
  BY <1>0 DEF Pool!vars, PoolInv, Pool!TypeOK, Apart, Freeing, Appending
<1>s. ASSUME NEW t \in Threads, Pool!ThreadStep(t) PROVE PoolInv'
  <2>e. /\ Elsewhere(t) \cap (Pool!Range(free_blocks) \cup held \cup poolCall[t].block) = {}
        /\ heap = Pool!Range(free_blocks) \cup held \cup poolCall[t].block \cup Elsewhere(t)
        /\ poolCall[t].block \cap (Pool!Range(free_blocks) \cup held) = {}
    BY <1>i, ElsewhereApart
  <2>1. CASE Pool!Allocate(t)
    <3>1. PICK to \in {"pop", "malloc"} : Pool!Moves(t, "idle", to, {})
      BY <2>1 DEF Pool!Allocate
    <3>2. UNCHANGED <<free_blocks, heap, held>>
      BY <2>1 DEF Pool!Allocate
    <3>3. Moved(t, "idle", to, {}) /\ Counted(to, "idle") /\ to # "append"
      BY <3>1, <1>k, <1>t, PoolMoves
    <3>4. Pool!TypeOK'
      BY <3>2, <3>3, <1>t DEF Pool!TypeOK, Moved
    <3>5. Apart'
      <4>1. poolCall[t].block = {}
        BY <3>3 DEF Moved
      <4> QED BY <3>2, <3>3, <4>1, <2>e, <1>i, ApartAgain
    <3> QED BY <3>2, <3>3, <3>4, <3>5, <1>i, <1>c DEF PoolInv, Counted
  <2>2. CASE Pool!Pop(t)
    <3>1. Pool!Moves(t, "pop", "idle", {}) /\ UNCHANGED heap
      BY <2>2 DEF Pool!Pop
    <3>2. Moved(t, "pop", "idle", {}) /\ Counted("idle", "pop")
      BY <3>1, <1>k, <1>t, PoolMoves
    <3>3. poolCall[t].block = {}
      BY <3>2 DEF Moved
    <3>4. CASE free_blocks = <<>>
      <4>1. UNCHANGED <<free_blocks, held>>
        BY <2>2, <3>4 DEF Pool!Pop
      <4>2. Pool!TypeOK'
        BY <3>1, <3>2, <4>1, <1>t DEF Pool!TypeOK, Moved
      <4>3. Apart'
        BY <3>1, <3>2, <3>3, <4>1, <2>e, <1>i, ApartAgain
      <4> QED BY <3>2, <4>1, <4>2, <4>3, <1>i, <1>c DEF PoolInv, Counted
    <3>5. CASE free_blocks # <<>>
      <4>1. PICK b : b = free_blocks[Len(free_blocks)]
        OBVIOUS
      <4>2. held' = held \cup {b} /\ free_blocks' = SubSeq(free_blocks, 1, Len(free_blocks) - 1)
        BY <2>2, <3>5, <4>1 DEF Pool!Pop
      <4>3. /\ free_blocks' \in Seq(Blocks) /\ Len(free_blocks') = Len(free_blocks) - 1
            /\ Pool!IsInjective(free_blocks') /\ b \in Pool!Range(free_blocks)
            /\ Pool!Range(free_blocks') = Pool!Range(free_blocks) \ {b}
        BY <3>5, <4>1, <4>2, <1>t, <1>i, EndOfList
      <4>4. b \in Blocks
        BY <3>5, <4>1, <1>t
      <4>5. Pool!TypeOK'
        BY <3>1, <3>2, <4>2, <4>3, <4>4, <1>t DEF Pool!TypeOK, Moved
      <4>6. Apart'
        BY <3>1, <3>2, <3>3, <4>2, <4>3, <2>e, <1>i, ApartAgain
      <4>7. Pool!IsInjective(free_blocks)'
        BY <4>3 DEF Pool!IsInjective
      <4> QED BY <3>2, <4>3, <4>5, <4>6, <4>7, <1>i, <1>c DEF PoolInv, Counted
    <3> QED BY <3>4, <3>5
  <2>3. CASE Pool!Malloc(t)
    <3>1. Pool!Moves(t, "malloc", "idle", {}) /\ UNCHANGED free_blocks
      BY <2>3 DEF Pool!Malloc
    <3>2. Moved(t, "malloc", "idle", {}) /\ Counted("idle", "malloc")
      BY <3>1, <1>k, <1>t, PoolMoves
    <3>3. poolCall[t].block = {}
      BY <3>2 DEF Moved
    <3>4. \/ \E b \in Blocks \ heap : heap' = heap \cup {b} /\ held' = held \cup {b}
          \/ UNCHANGED <<heap, held>>
      BY <2>3 DEF Pool!Malloc
    <3>5. Pool!TypeOK'
      BY <3>1, <3>2, <3>4, <1>t DEF Pool!TypeOK, Moved
    <3>6. Apart'
      BY <3>1, <3>2, <3>3, <3>4, <2>e, <1>i, ApartAgain
    <3> QED BY <3>1, <3>2, <3>5, <3>6, <1>i, <1>c DEF PoolInv, Counted
  <2>4. ASSUME NEW b \in held, Pool!Free(t, b) PROVE PoolInv'
    <3>1. PICK to \in {"append", "cfree"} :
            /\ Pool!Moves(t, "idle", to, {b})
            /\ to = "append" => Len(free_blocks) < Count
      BY <2>4 DEF Pool!Free
    <3>2. held' = held \ {b} /\ UNCHANGED <<free_blocks, heap>> /\ b \in Blocks
      BY <2>4, <1>t DEF Pool!Free
    <3>3. Moved(t, "idle", to, {b}) /\ Counted(to, "idle")
      BY <3>1, <3>2, <1>k, <1>t, PoolMoves
    <3>4. poolCall[t].block = {}
      BY <3>3 DEF Moved
    <3>5. Pool!TypeOK'
      BY <3>2, <3>3, <1>t DEF Pool!TypeOK, Moved
    <3>6. Apart'
      BY <2>4, <3>2, <3>3, <3>4, <2>e, <1>i, ApartAgain
    <3>7. Len(free_blocks) + Cardinality(Appending') < Count + Cardinality(Threads)
      BY <3>1, <3>3, <1>i, <1>c DEF Counted
    <3> QED BY <3>2, <3>5, <3>6, <3>7, <1>i DEF PoolInv
  <2>5. CASE Pool!Give(t)
    <3>1. Pool!Moves(t, "append", "idle", {}) /\ UNCHANGED <<heap, held>>
      BY <2>5 DEF Pool!Give
    <3>2. Moved(t, "append", "idle", {}) /\ Counted("idle", "append")
      BY <3>1, <1>k, <1>t, PoolMoves
    <3>3. PICK b \in Blocks : poolCall[t].block = {b} /\ free_blocks' = Append(free_blocks, b)
      <4>1. PICK b \in poolCall[t].block : free_blocks' = Append(free_blocks, b)
        BY <2>5 DEF Pool!Give
      <4>2. poolCall[t] \in Pool!Calls /\ poolCall[t].at = "append"
        BY <3>2, <1>t DEF Pool!TypeOK, Moved
      <4> QED BY <4>1, <4>2 DEF Pool!Calls
    <3>4. /\ free_blocks' \in Seq(Blocks) /\ Len(free_blocks') = Len(free_blocks) + 1
          /\ Pool!IsInjective(free_blocks') /\ Pool!Range(free_blocks') = Pool!Range(free_blocks) \cup {b}
      <4>1. b \in Blocks \ Pool!Range(free_blocks)
        BY <3>3, <2>e
      <4> QED BY <3>3, <4>1, <1>t, <1>i, EndOfList
    <3>5. Pool!TypeOK'
      BY <3>1, <3>2, <3>4, <1>t DEF Pool!TypeOK, Moved
    <3>6. Apart'
      BY <3>1, <3>2, <3>3, <3>4, <2>e, <1>i, ApartAgain
    <3>7. Pool!IsInjective(free_blocks)'
      BY <3>4 DEF Pool!IsInjective
    <3> QED BY <3>2, <3>4, <3>5, <3>6, <3>7, <1>i, <1>c DEF PoolInv, Counted
  <2>6. CASE Pool!CFree(t)
    <3>1. /\ Pool!Moves(t, "cfree", "idle", {}) /\ UNCHANGED <<free_blocks, held>>
          /\ heap' = heap \ poolCall[t].block
      BY <2>6 DEF Pool!CFree
    <3>2. Moved(t, "cfree", "idle", {}) /\ Counted("idle", "cfree")
      BY <3>1, <1>k, <1>t, PoolMoves
    <3>3. Pool!TypeOK'
      BY <3>1, <3>2, <1>t DEF Pool!TypeOK, Moved
    <3>4. Apart'
      BY <3>1, <3>2, <2>e, <1>i, ApartAgain
    <3> QED BY <3>1, <3>2, <3>3, <3>4, <1>i, <1>c DEF PoolInv, Counted
  <2> QED BY <1>s, <2>1, <2>2, <2>3, <2>4, <2>5, <2>6 DEF Pool!ThreadStep
<1> QED BY <1>0, <1>s DEF Pool!Next

LEMMA PoolInvHolds == Spec => []PoolInv
<1>1. ASSUME Init PROVE PoolInv
  <2>1. PICK n \in 0..Count : \E s \in [1..n -> Blocks] :
          /\ Pool!IsInjective(s)
          /\ free_blocks = s /\ heap = Pool!Range(s) /\ held = {}
          /\ poolCall = [t \in Threads |-> Pool!Idle]
    BY <1>1 DEF Init, Pool!Init
  <2>2. free_blocks \in Seq(Blocks) /\ Len(free_blocks) = n
    BY <2>1, PoolAssumption
  <2>3. heap \in SUBSET Blocks
    BY <2>1 DEF Pool!Range
  <2>4. Pool!TypeOK
    BY <2>1, <2>2, <2>3 DEF Pool!TypeOK, Pool!Idle, Pool!Calls
  <2>5. \A t \in Threads : poolCall[t].block = {} /\ poolCall[t].at = "idle"
    BY <2>1 DEF Pool!Idle
  <2>6. Apart
    BY <2>1, <2>5 DEF Apart, Freeing
  <2>7. Appending = {}
    BY <2>5 DEF Appending
  <2>8. Cardinality(Appending) = 0 /\ Cardinality(Threads) \in Nat \ {0}
    BY <2>7, PoolAssumption, FS_EmptySet, FS_CardinalityType
  <2> QED BY <2>1, <2>2, <2>4, <2>6, <2>8, PoolAssumption DEF PoolInv
<1> QED BY <1>1, PoolKeeps, PartSteps, PTL DEF Spec

\* Without a lock, still every block is in one place, none is lost, and the list outgrows
\* its limit by no more than the other threads that found room: for any number of threads
\* and blocks and any limit.
THEOREM BlocksStayOnce == Spec => []BlocksOnce
<1>1. \A S : Pool!Cardinality(S) = Cardinality(S)
  BY DEF Pool!Cardinality, Cardinality
<1>2. ASSUME PoolInv PROVE Len(free_blocks) < Count + Cardinality(Threads)
  <2>1. Appending \subseteq Threads
    BY DEF Appending
  <2>2. Cardinality(Appending) \in Nat /\ Cardinality(Threads) \in Nat
    BY <2>1, FS_Subset, FS_CardinalityType, PoolAssumption
  <2>3. Len(free_blocks) \in Nat /\ Len(free_blocks) + Cardinality(Appending) < Count + Cardinality(Threads)
    BY <1>2 DEF PoolInv, Pool!TypeOK
  <2> QED BY <2>2, <2>3, PoolAssumption
<1>3. PoolInv => BlocksOnce
  BY <1>1, <1>2 DEF BlocksOnce, Pool!BlocksOnce, PoolInv, Apart, Freeing
<1> QED BY <1>3, PoolInvHolds, PTL

-----------------------------------------------------------------------------
(* PyContexts.                                                             *)

\* Settings are told apart by their two attributes.
LEMMA ConfigsAre ==
  /\ Contexts!Default \in Contexts!Configs
  /\ \A k \in Kinds : Contexts!Setting(k) \in Contexts!Configs
  /\ \A s \in Settings : s \in Contexts!Configs
  /\ \A c, d \in Contexts!Configs :
       /\ c.workload = d.workload /\ c.priority = d.priority => c = d
       /\ LET e == [c EXCEPT !.workload = d.workload] IN
            e \in Contexts!Configs /\ e.workload = d.workload /\ e.priority = c.priority
       /\ LET e == [c EXCEPT !.priority = d.priority] IN
            e \in Contexts!Configs /\ e.priority = d.priority /\ e.workload = c.workload
<1> DEFINE S == Settings \cup {Contexts!Default} \cup {Contexts!Setting(k) : k \in Kinds}
           W == {s.workload : s \in S}
           P == {s.priority : s \in S}
<1>1. Contexts!Configs = [workload : W, priority : P]
  BY DEF Contexts!Configs
<1>2. \A s \in S : s = [workload |-> s.workload, priority |-> s.priority]
  <2>1. \A k \in Kinds : Contexts!Setting(k) =
          [workload |-> Contexts!Setting(k).workload, priority |-> Contexts!Setting(k).priority]
    BY ContextsAssumption DEF Contexts!Setting
  <2>2. Contexts!Default = [workload |-> Contexts!Default.workload, priority |-> Contexts!Default.priority]
    BY DEF Contexts!Default
  <2> QED BY <2>1, <2>2, ContextsAssumption
<1>3. \A s \in S : s.workload \in W /\ s.priority \in P
  OBVIOUS
<1> HIDE DEF W, P
<1>4. \A s \in S : s \in [workload : W, priority : P]
  BY <1>2, <1>3
<1>5. \A c, d \in [workload : W, priority : P] :
       /\ c.workload = d.workload /\ c.priority = d.priority => c = d
       /\ LET e == [c EXCEPT !.workload = d.workload] IN
            e \in [workload : W, priority : P] /\ e.workload = d.workload /\ e.priority = c.priority
       /\ LET e == [c EXCEPT !.priority = d.priority] IN
            e \in [workload : W, priority : P] /\ e.priority = d.priority /\ e.workload = c.workload
  OBVIOUS
<1> QED BY <1>1, <1>4, <1>5

\* Where thread t is in its innermost context, and what its contexts have saved.
InContext(t) ==
  /\ ctx[t][1].saved = base
  /\ ~touched => \A i \in 2..Len(ctx[t]) : ctx[t][i].saved = Contexts!Setting(ctx[t][i - 1].kind)
  /\ at[t] \in {"read", "set"} => config = Contexts!Top(t).saved
  /\ at[t] = "raise" => config.workload = Contexts!Setting(Contexts!Top(t).kind).workload
  /\ at[t] = "body" /\ ~touched => config = Contexts!Setting(Contexts!Top(t).kind)
  /\ at[t] = "restore" => config.workload = Contexts!Top(t).saved.workload

ContextsInv ==
  /\ Contexts!TypeOK
  /\ ~mixed => /\ (\A t \in Threads : ctx[t] = <<>>) => config = base
               /\ \A t \in Threads : ctx[t] # <<>> => Contexts!Alone(t) /\ InContext(t)

\* What the invariant says of one thread's contexts, s the sequence of them.
LEMMA TopOf ==
  ASSUME NEW s \in Seq(Contexts!Entered), s # <<>>
  PROVE  /\ Len(s) \in Nat \ {0} /\ 1 \in DOMAIN s /\ Len(s) \in DOMAIN s
         /\ s[1].saved \in Contexts!Configs
         /\ s[Len(s)].kind \in Kinds /\ s[Len(s)].saved \in Contexts!Configs
         /\ \A e \in Contexts!Entered : e.kind \in Kinds /\ e.saved \in Contexts!Configs
<1>1. /\ Len(s) \in Nat \ {0} /\ 1 \in DOMAIN s /\ Len(s) \in DOMAIN s
      /\ s[1] \in Contexts!Entered /\ s[Len(s)] \in Contexts!Entered
  OBVIOUS
<1> QED BY <1>1 DEF Contexts!Entered

LEMMA ContextsTypes ==
  ASSUME ContextsInv, NEW t \in Threads
  PROVE  /\ config \in Contexts!Configs /\ base \in Contexts!Configs
         /\ ctx \in [Threads -> Seq(Contexts!Entered)] /\ ctx[t] \in Seq(Contexts!Entered)
         /\ at \in [Threads -> {"body", "read", "set", "raise", "restore"}]
         /\ at[t] # "body" => ctx[t] # <<>>
         /\ mixed \in BOOLEAN /\ touched \in BOOLEAN
  BY DEF ContextsInv, Contexts!TypeOK

\* While t alone is in contexts, only t has to be looked at.
LEMMA OnlyOne ==
  ASSUME Contexts!TypeOK', NEW t \in Threads, \A u \in Threads \ {t} : ctx'[u] = ctx[u],
         ~mixed' => Contexts!Alone(t) /\ ctx'[t] # <<>> /\ InContext(t)'
  PROVE  ContextsInv'
<1>1. ASSUME ~mixed', NEW u \in Threads, ctx'[u] # <<>> PROVE u = t
  BY <1>1 DEF Contexts!Alone
<1>2. ASSUME ~mixed' PROVE Contexts!Alone(t)'
  BY <1>2 DEF Contexts!Alone
<1> QED BY <1>1, <1>2 DEF ContextsInv

LEMMA EnterKeeps ==
  ASSUME ContextsInv, NEW t \in Threads, NEW k \in Kinds, Contexts!Enter(t, k)
  PROVE  ContextsInv'
<1> DEFINE e == [kind |-> k, saved |-> config]
<1>0. PICK s \in Seq(Contexts!Entered) : s = ctx[t]
  BY ContextsTypes
<1>1. /\ at[t] = "body" /\ at' = [at EXCEPT ![t] = "read"]
      /\ ctx' = [ctx EXCEPT ![t] = Append(@, e)]
      /\ mixed' = (mixed \/ ~Contexts!Alone(t))
      /\ UNCHANGED <<config, sets, base, touched>>
  BY DEF Contexts!Enter, Contexts!Moves
<1>2. e \in Contexts!Entered /\ e.kind = k /\ e.saved = config
  BY ContextsTypes DEF Contexts!Entered
<1> HIDE DEF e
<1>3. /\ Append(s, e) \in Seq(Contexts!Entered) /\ Append(s, e) # <<>>
      /\ Len(Append(s, e)) = Len(s) + 1 /\ Append(s, e)[Len(s) + 1] = e
      /\ \A i \in 1..Len(s) : Append(s, e)[i] = s[i]
      /\ Len(s) \in Nat
  BY <1>2
<1>4. /\ ctx' \in [Threads -> Seq(Contexts!Entered)] /\ ctx'[t] = Append(s, e)
      /\ \A u \in Threads \ {t} : ctx'[u] = ctx[u]
      /\ at' \in [Threads -> {"body", "read", "set", "raise", "restore"}]
      /\ at'[t] = "read" /\ \A u \in Threads \ {t} : at'[u] = at[u]
  BY <1>0, <1>1, <1>3, ContextsTypes
<1>5. Contexts!TypeOK'
  <2>1. \A u \in Threads : at'[u] # "body" => ctx'[u] # <<>>
    BY <1>3, <1>4 DEF ContextsInv, Contexts!TypeOK
  <2>2. mixed' \in BOOLEAN
    BY <1>1
  <2> QED BY <1>1, <1>4, <2>1, <2>2 DEF ContextsInv, Contexts!TypeOK
<1>6. ASSUME ~mixed' PROVE Contexts!Alone(t) /\ ctx'[t] # <<>> /\ InContext(t)'
  <2>1. ~mixed /\ Contexts!Alone(t)
    BY <1>1, <1>6
  <2>2. Contexts!Top(t)' = e
    BY <1>3, <1>4 DEF Contexts!Top
  <2>3. CASE s = <<>>
    <3>1. \A u \in Threads : ctx[u] = <<>>
      BY <1>0, <2>1, <2>3 DEF Contexts!Alone
    <3>2. config = base
      BY <2>1, <3>1 DEF ContextsInv
    <3>3. Len(s) = 0 /\ ctx'[t][1] = e /\ Len(ctx'[t]) = 1
      BY <1>3, <1>4, <2>3
    <3> QED BY <1>1, <1>2, <1>3, <1>4, <2>1, <2>2, <3>2, <3>3 DEF InContext
  <2>4. CASE s # <<>>
    <3>1. InContext(t)
      BY <1>0, <2>1, <2>4 DEF ContextsInv
    <3>2. /\ s[1].saved = base
          /\ ~touched => \A i \in 2..Len(s) : s[i].saved = Contexts!Setting(s[i - 1].kind)
          /\ ~touched => config = Contexts!Setting(s[Len(s)].kind)
      BY <1>0, <1>1, <3>1 DEF InContext, Contexts!Top
    <3>3. Len(s) >= 1 /\ ctx'[t][1] = s[1] /\ Len(ctx'[t]) = Len(s) + 1
      BY <1>3, <1>4, <2>4
    <3>4. ASSUME ~touched, NEW i \in 2..Len(s) + 1
          PROVE  ctx'[t][i].saved = Contexts!Setting(ctx'[t][i - 1].kind)
      <4>1. CASE i = Len(s) + 1
        <5>1. ctx'[t][i] = e /\ ctx'[t][i - 1] = s[Len(s)]
          BY <1>3, <1>4, <3>3, <4>1
        <5> QED BY <5>1, <1>2, <3>2, <3>4
      <4>2. CASE i \in 2..Len(s)
        <5>1. ctx'[t][i] = s[i] /\ ctx'[t][i - 1] = s[i - 1]
          BY <1>3, <1>4, <4>2
        <5> QED BY <5>1, <3>2, <3>4, <4>2
      <4> QED BY <1>3, <4>1, <4>2
    <3> QED BY <1>1, <1>2, <1>3, <1>4, <2>1, <2>2, <3>2, <3>3, <3>4 DEF InContext
  <2> QED BY <2>3, <2>4
<1> QED BY <1>4, <1>5, <1>6, OnlyOne

LEMMA ReadKeeps ==
  ASSUME ContextsInv, NEW t \in Threads, Contexts!ReadPriority(t)
  PROVE  ContextsInv'
<1>0. PICK s \in Seq(Contexts!Entered) : s = ctx[t]
  BY ContextsTypes
<1>1. /\ at[t] = "read" /\ at' = [at EXCEPT ![t] = "set"]
      /\ ctx' = [ctx EXCEPT ![t][Len(ctx[t])].saved.priority = config.priority]
      /\ UNCHANGED <<config, sets, base, mixed, touched>>
  BY DEF Contexts!ReadPriority, Contexts!Moves
<1>2. s # <<>>
  BY <1>0, <1>1, ContextsTypes
<1>3. PICK c : c = [s[Len(s)].saved EXCEPT !.priority = config.priority]
  OBVIOUS
<1>4. PICK e : e = [s[Len(s)] EXCEPT !.saved = c]
  OBVIOUS
<1>5. c \in Contexts!Configs /\ (config = s[Len(s)].saved => c = config)
  <2>1. s[Len(s)].saved \in Contexts!Configs /\ config \in Contexts!Configs
    BY <1>2, TopOf, ContextsTypes
  <2>2. c \in Contexts!Configs /\ c.priority = config.priority /\ c.workload = s[Len(s)].saved.workload
    BY <1>3, <2>1, ConfigsAre
  <2>3. config = s[Len(s)].saved => c.workload = config.workload
    BY <2>2
  <2>4. c.workload = config.workload /\ c.priority = config.priority => c = config
    BY <2>1, <2>2, ConfigsAre
  <2> QED BY <2>2, <2>3, <2>4
<1>6. e \in Contexts!Entered /\ e.saved = c /\ e.kind = s[Len(s)].kind
  <2>1. s[Len(s)] \in Contexts!Entered
    BY <1>2, TopOf
  <2> QED BY <1>4, <1>5, <2>1 DEF Contexts!Entered
<1>7. ctx' = [ctx EXCEPT ![t] = [s EXCEPT ![Len(s)] = e]]
  BY <1>0, <1>1, <1>3, <1>4
<1>8. PICK r : r = [s EXCEPT ![Len(s)] = e]
  OBVIOUS
<1>9. /\ r \in Seq(Contexts!Entered) /\ r # <<>> /\ Len(r) = Len(s) /\ r[Len(s)] = e
      /\ \A i \in 1..Len(s) - 1 : r[i] = s[i]
      /\ Len(s) \in Nat \ {0}
  BY <1>2, <1>6, <1>8, TopOf
<1>10. /\ ctx' \in [Threads -> Seq(Contexts!Entered)] /\ ctx'[t] = r
       /\ \A u \in Threads \ {t} : ctx'[u] = ctx[u]
       /\ at' \in [Threads -> {"body", "read", "set", "raise", "restore"}]
       /\ at'[t] = "set" /\ \A u \in Threads \ {t} : at'[u] = at[u]
  BY <1>0, <1>1, <1>7, <1>8, <1>9, ContextsTypes
<1>11. Contexts!TypeOK'
  <2>1. \A u \in Threads : at'[u] # "body" => ctx'[u] # <<>>
    BY <1>9, <1>10 DEF ContextsInv, Contexts!TypeOK
  <2> QED BY <1>1, <1>10, <2>1 DEF ContextsInv, Contexts!TypeOK
<1>12. ASSUME ~mixed' PROVE Contexts!Alone(t) /\ ctx'[t] # <<>> /\ InContext(t)'
  <2>1. Contexts!Alone(t) /\ InContext(t)
    BY <1>0, <1>1, <1>2, <1>12 DEF ContextsInv
  <2>2. config = s[Len(s)].saved
    BY <1>0, <1>1, <2>1 DEF InContext, Contexts!Top
  <2>3. \A i \in 1..Len(s) : r[i].saved = s[i].saved /\ r[i].kind = s[i].kind
    BY <1>5, <1>6, <1>9, <2>2
  <2>4. /\ s[1].saved = base
        /\ ~touched => \A i \in 2..Len(s) : s[i].saved = Contexts!Setting(s[i - 1].kind)
    BY <1>0, <2>1 DEF InContext
  <2>5. /\ r[1].saved = base
        /\ ~touched => \A i \in 2..Len(s) : r[i].saved = Contexts!Setting(r[i - 1].kind)
    BY <1>9, <2>3, <2>4
  <2>6. Contexts!Top(t)' = e /\ e.saved = config
    BY <1>5, <1>6, <1>9, <1>10, <2>2 DEF Contexts!Top
  <2>7. UNCHANGED <<config, base, touched>> /\ Contexts!Alone(t)
    BY <1>1, <2>1
  <2> HIDE <2>1
  <2> QED BY <1>9, <1>10, <2>5, <2>6, <2>7 DEF InContext
<1> QED BY <1>10, <1>11, <1>12, OnlyOne

\* A step that leaves the contexts alone and moves one thread.
LEMMA AtMoves ==
  ASSUME ContextsInv, NEW t \in Threads, NEW to \in {"set", "raise", "body", "restore"},
         ctx[t] # <<>>, at' = [at EXCEPT ![t] = to], config' \in Contexts!Configs,
         UNCHANGED <<ctx, sets, base, mixed, touched>>,
         ~mixed => InContext(t)'
  PROVE  ContextsInv'
<1>1. /\ at' \in [Threads -> {"body", "read", "set", "raise", "restore"}]
      /\ at'[t] = to /\ \A u \in Threads \ {t} : at'[u] = at[u]
  BY ContextsTypes
<1>2. Contexts!TypeOK'
  <2>1. \A u \in Threads : at'[u] # "body" => ctx'[u] # <<>>
    BY <1>1 DEF ContextsInv, Contexts!TypeOK
  <2> QED BY <1>1, <2>1 DEF ContextsInv, Contexts!TypeOK
<1>3. ~mixed' => Contexts!Alone(t) /\ ctx'[t] # <<>> /\ InContext(t)'
  BY DEF ContextsInv
<1> QED BY <1>2, <1>3, OnlyOne

LEMMA SetKeeps ==
  ASSUME ContextsInv, NEW t \in Threads, Contexts!SetWorkload(t) \/ Contexts!SetPriority(t)
  PROVE  ContextsInv'
<1>1. ctx[t] # <<>> /\ UNCHANGED <<ctx, sets, base, mixed, touched>>
  BY ContextsTypes DEF Contexts!SetWorkload, Contexts!SetPriority, Contexts!Moves
<1>2. PICK g : g = Contexts!Setting(Contexts!Top(t).kind)
  OBVIOUS
<1>3. g \in Contexts!Configs /\ config \in Contexts!Configs
  BY <1>1, <1>2, ContextsTypes, TopOf, ConfigsAre DEF Contexts!Top
<1>4. ~mixed => InContext(t)
  BY <1>1 DEF ContextsInv
<1>5. Contexts!Top(t)' = Contexts!Top(t)
  BY <1>1 DEF Contexts!Top
<1>6. CASE Contexts!SetWorkload(t)
  <2>1. at' = [at EXCEPT ![t] = "raise"] /\ config' = [config EXCEPT !.workload = g.workload]
    BY <1>2, <1>6 DEF Contexts!SetWorkload, Contexts!Moves
  <2>2. config' \in Contexts!Configs /\ config'.workload = g.workload
    BY <1>3, <2>1, ConfigsAre
  <2>3. at'[t] = "raise"
    BY <2>1, ContextsTypes
  <2>4. ~mixed => InContext(t)'
    BY <1>1, <1>2, <1>4, <1>5, <2>2, <2>3 DEF InContext
  <2> QED BY <1>1, <2>1, <2>2, <2>4, AtMoves
<1>7. CASE Contexts!SetPriority(t)
  <2>1. /\ at' = [at EXCEPT ![t] = "body"] /\ config' = [config EXCEPT !.priority = g.priority]
        /\ at[t] = "raise"
    BY <1>2, <1>7 DEF Contexts!SetPriority, Contexts!Moves
  <2>2. config' \in Contexts!Configs /\ config'.workload = config.workload /\ config'.priority = g.priority
    BY <1>3, <2>1, ConfigsAre
  <2>3. at'[t] = "body"
    BY <2>1, ContextsTypes
  <2>4. ~mixed => config' = g
    <3>1. ~mixed => config.workload = g.workload
      BY <1>2, <1>4, <2>1 DEF InContext
    <3>2. config'.workload = g.workload /\ config'.priority = g.priority => config' = g
      BY <1>3, <2>2, ConfigsAre
    <3> QED BY <2>2, <3>1, <3>2
  <2>5. ~mixed => InContext(t)'
    BY <1>1, <1>2, <1>4, <1>5, <2>3, <2>4 DEF InContext
  <2> QED BY <1>1, <2>1, <2>2, <2>5, AtMoves
<1> QED BY <1>6, <1>7

LEMMA LeaveKeeps ==
  ASSUME ContextsInv, NEW t \in Threads, Contexts!RestoreWorkload(t)
  PROVE  ContextsInv'
<1>1. /\ ctx[t] # <<>> /\ UNCHANGED <<ctx, sets, base, mixed, touched>>
      /\ at' = [at EXCEPT ![t] = "restore"]
      /\ config' = [config EXCEPT !.workload = Contexts!Top(t).saved.workload]
  BY DEF Contexts!RestoreWorkload, Contexts!Moves
<1>2. Contexts!Top(t).saved \in Contexts!Configs /\ config \in Contexts!Configs
  BY <1>1, ContextsTypes, TopOf DEF Contexts!Top
<1>3. config' \in Contexts!Configs /\ config'.workload = Contexts!Top(t).saved.workload
  BY <1>1, <1>2, ConfigsAre
<1>4. Contexts!Top(t)' = Contexts!Top(t) /\ at'[t] = "restore"
  BY <1>1, ContextsTypes DEF Contexts!Top
<1>5. ~mixed => InContext(t)
  BY <1>1 DEF ContextsInv
<1>6. ~mixed => InContext(t)'
  BY <1>1, <1>3, <1>4, <1>5 DEF InContext
<1> QED BY <1>1, <1>3, <1>6, AtMoves

LEMMA RestoreKeeps ==
  ASSUME ContextsInv, NEW t \in Threads, Contexts!RestorePriority(t)
  PROVE  ContextsInv'
<1>0. PICK s \in Seq(Contexts!Entered) : s = ctx[t]
  BY ContextsTypes
<1>1. /\ at[t] = "restore" /\ at' = [at EXCEPT ![t] = "body"] /\ UNCHANGED sets
      /\ config' = [config EXCEPT !.priority = Contexts!Top(t).saved.priority]
      /\ ctx' = [ctx EXCEPT ![t] = SubSeq(@, 1, Len(@) - 1)]
      /\ Contexts!Settle(t)
  BY DEF Contexts!RestorePriority, Contexts!Moves
<1>2. s # <<>>
  BY <1>0, <1>1, ContextsTypes
<1>3. PICK r : r = SubSeq(s, 1, Len(s) - 1)
  OBVIOUS
<1>4. /\ Len(s) \in Nat \ {0} /\ s[Len(s)].saved \in Contexts!Configs /\ config \in Contexts!Configs
      /\ Contexts!Top(t) = s[Len(s)]
  BY <1>0, <1>2, TopOf, ContextsTypes DEF Contexts!Top
<1>5. /\ r \in Seq(Contexts!Entered) /\ Len(r) = Len(s) - 1 /\ (r = <<>> <=> Len(s) = 1)
      /\ \A i \in 1..Len(s) - 1 : r[i] = s[i]
  <2>1. Len(s) \in Nat \ {0} /\ DOMAIN s = 1..Len(s)
    BY <1>2
  <2>2. r \in Seq(Contexts!Entered) /\ Len(r) = Len(s) - 1
    BY <1>3, <2>1
  <2>3. \A i \in 1..Len(s) - 1 : r[i] = s[i]
    BY <1>3, <2>1
  <2>4. r = <<>> <=> Len(r) = 0
    BY <2>2, EmptySeq
  <2>5. Len(r) = 0 <=> Len(s) = 1
    BY <2>1, <2>2
  <2> QED BY <2>2, <2>3, <2>4, <2>5
<1>6. /\ ctx' \in [Threads -> Seq(Contexts!Entered)] /\ ctx'[t] = r
      /\ \A u \in Threads \ {t} : ctx'[u] = ctx[u]
      /\ at' \in [Threads -> {"body", "read", "set", "raise", "restore"}]
      /\ at'[t] = "body" /\ \A u \in Threads \ {t} : at'[u] = at[u]
  BY <1>0, <1>1, <1>3, <1>5, ContextsTypes
<1>7. /\ config' \in Contexts!Configs /\ config'.workload = config.workload
      /\ config'.priority = s[Len(s)].saved.priority
  <2>1. config' = [config EXCEPT !.priority = s[Len(s)].saved.priority]
    BY <1>1, <1>4
  <2> QED BY <2>1, <1>4, ConfigsAre
<1>8. base \in Contexts!Configs /\ mixed \in BOOLEAN /\ touched \in BOOLEAN
  BY ContextsTypes
<1>9. ~mixed => Contexts!Alone(t) /\ InContext(t)
  BY <1>0, <1>2 DEF ContextsInv
<1>10. ~mixed => config' = s[Len(s)].saved
  <2>1. ~mixed => config.workload = s[Len(s)].saved.workload
    BY <1>1, <1>4, <1>9 DEF InContext
  <2>2. config'.workload = s[Len(s)].saved.workload /\ config'.priority = s[Len(s)].saved.priority
          => config' = s[Len(s)].saved
    BY <1>4, <1>7, ConfigsAre
  <2> QED BY <1>7, <2>1, <2>2
<1>t. ASSUME base' \in Contexts!Configs, mixed' \in BOOLEAN, touched' \in BOOLEAN PROVE Contexts!TypeOK'
  <2>1. \A u \in Threads : at'[u] # "body" => ctx'[u] # <<>>
    BY <1>6 DEF ContextsInv, Contexts!TypeOK
  <2> QED BY <1>1, <1>t, <1>6, <1>7, <2>1 DEF ContextsInv, Contexts!TypeOK
<1>11. CASE Contexts!Alone(t) /\ r = <<>>
  <2>1. base' = (IF mixed THEN config' ELSE base) /\ mixed' = FALSE /\ touched' = FALSE
    BY <1>1, <1>6, <1>11 DEF Contexts!Settle
  <2>2. \A u \in Threads : ctx'[u] = <<>>
    BY <1>6, <1>11 DEF Contexts!Alone
  <2>3. config' = base'
    <3>1. ~mixed => s[1].saved = base
      BY <1>0, <1>9 DEF InContext
    <3>2. Len(s) = 1
      BY <1>5, <1>11
    <3> QED BY <1>10, <2>1, <3>1, <3>2
  <2>4. Contexts!TypeOK'
    BY <1>7, <1>8, <1>t, <2>1
  <2> QED BY <2>2, <2>3, <2>4 DEF ContextsInv
<1>12. CASE ~(Contexts!Alone(t) /\ r = <<>>)
  <2>1. UNCHANGED <<base, mixed, touched>>
    BY <1>1, <1>6, <1>12 DEF Contexts!Settle
  <2>2. Contexts!TypeOK'
    BY <1>8, <1>t, <2>1
  <2>3. ASSUME ~mixed' PROVE Contexts!Alone(t) /\ ctx'[t] # <<>> /\ InContext(t)'
    <3>1. ~mixed /\ Contexts!Alone(t) /\ InContext(t) /\ r # <<>>
      BY <1>9, <1>12, <2>1, <2>3
    <3>2. /\ s[1].saved = base
          /\ ~touched => \A i \in 2..Len(s) : s[i].saved = Contexts!Setting(s[i - 1].kind)
      BY <1>0, <3>1 DEF InContext
    <3>3. Len(s) >= 2 /\ 1 \in 1..Len(s) - 1
      BY <1>4, <1>5, <3>1
    <3>4. r[1].saved = base
      BY <1>5, <3>2, <3>3
    <3>5. ASSUME ~touched, NEW i \in 2..Len(r) PROVE r[i].saved = Contexts!Setting(r[i - 1].kind)
      <4>1. i \in 2..Len(s) /\ i \in 1..Len(s) - 1 /\ i - 1 \in 1..Len(s) - 1
        BY <1>4, <1>5
      <4> QED BY <1>5, <3>2, <3>5, <4>1
    <3>6. Contexts!Top(t)' = s[Len(s) - 1]
      <4>1. Len(s) - 1 \in 1..Len(s) - 1
        BY <1>4, <3>3
      <4> QED BY <1>5, <1>6, <4>1 DEF Contexts!Top
    <3>7. ~touched => config' = Contexts!Setting(s[Len(s) - 1].kind)
      <4>1. Len(s) \in 2..Len(s)
        BY <1>4, <3>3
      <4> QED BY <1>10, <3>1, <3>2, <4>1
    <3> HIDE <3>1
    <3>8. Contexts!Alone(t) /\ ctx'[t] # <<>>
      BY <1>6, <3>1
    <3> QED BY <1>6, <2>1, <3>4, <3>5, <3>6, <3>7, <3>8 DEF InContext
  <2> QED BY <1>6, <2>2, <2>3, OnlyOne
<1> QED BY <1>11, <1>12

LEMMA UserKeeps ==
  ASSUME ContextsInv, NEW t \in Threads, NEW g \in Settings, Contexts!UserSets(t, g)
  PROVE  ContextsInv'
<1>1. /\ at[t] = "body" /\ sets' = sets + 1 /\ UNCHANGED <<ctx, at>>
      /\ config' \in {g, [config EXCEPT !.workload = g.workload], [config EXCEPT !.priority = g.priority]}
      /\ mixed' = (mixed \/ ~Contexts!Alone(t))
      /\ touched' = (touched \/ ctx[t] # <<>>)
      /\ base' = IF Contexts!Alone(t) /\ ctx[t] = <<>> THEN config' ELSE base
  BY DEF Contexts!UserSets
<1>2. config \in Contexts!Configs /\ g \in Contexts!Configs
  BY ContextsTypes, ConfigsAre
<1>3. config' \in Contexts!Configs
  BY <1>1, <1>2, ConfigsAre
<1>4. Contexts!TypeOK'
  <2>1. base' \in Contexts!Configs /\ mixed' \in BOOLEAN /\ touched' \in BOOLEAN
    BY <1>1, <1>3, ContextsTypes
  <2> QED BY <1>1, <1>3, <2>1 DEF ContextsInv, Contexts!TypeOK
<1>5. CASE ctx[t] = <<>>
  <2>1. ASSUME ~mixed' PROVE (\A u \in Threads : ctx'[u] = <<>>) /\ config' = base'
    <3>1. Contexts!Alone(t)
      BY <1>1, <2>1
    <3>2. \A u \in Threads : ctx'[u] = <<>>
      BY <1>1, <1>5, <3>1 DEF Contexts!Alone
    <3>3. config' = base'
      BY <1>1, <1>5, <3>1
    <3> QED BY <3>2, <3>3
  <2> QED BY <1>4, <2>1 DEF ContextsInv
<1>6. CASE ctx[t] # <<>>
  <2>1. ASSUME ~mixed' PROVE Contexts!Alone(t) /\ ctx'[t] # <<>> /\ InContext(t)'
    <3>1. ~mixed /\ Contexts!Alone(t) /\ touched' = TRUE /\ UNCHANGED <<base, ctx, at>>
      BY <1>1, <1>6, <2>1
    <3>2. InContext(t)
      BY <1>6, <3>1 DEF ContextsInv
    <3>3. ctx[t][1].saved = base
      BY <3>2 DEF InContext
    <3>4. InContext(t)'
      BY <1>1, <3>1, <3>3 DEF InContext
    <3> QED BY <1>6, <3>1, <3>4
  <2> QED BY <1>1, <1>4, <2>1, OnlyOne
<1> QED BY <1>5, <1>6

LEMMA ContextsInvHolds == Spec => []ContextsInv
<1>1. ASSUME Init PROVE ContextsInv
  <2>1. /\ config = Contexts!Default /\ base = Contexts!Default
        /\ ctx = [t \in Threads |-> <<>>] /\ at = [t \in Threads |-> "body"]
        /\ sets = 0 /\ mixed = FALSE /\ touched = FALSE
    BY <1>1 DEF Init, Contexts!Init
  <2>2. Contexts!TypeOK
    <3>1. config \in Contexts!Configs /\ base \in Contexts!Configs
      BY <2>1, ConfigsAre
    <3>2. <<>> \in Seq(Contexts!Entered)
      OBVIOUS
    <3> QED BY <2>1, <3>1, <3>2 DEF Contexts!TypeOK
  <2> QED BY <2>1, <2>2 DEF ContextsInv
<1>2. ASSUME ContextsInv, [Contexts!Next]_Contexts!vars PROVE ContextsInv'
  <2>1. CASE UNCHANGED Contexts!vars
    BY <1>2, <2>1 DEF Contexts!vars, ContextsInv, Contexts!TypeOK, Contexts!Alone, InContext, Contexts!Top
  <2>2. ASSUME NEW t \in Threads, Contexts!ThreadStep(t) PROVE ContextsInv'
    BY <1>2, <2>2, EnterKeeps, ReadKeeps, SetKeeps, LeaveKeeps, RestoreKeeps, UserKeeps
       DEF Contexts!ThreadStep
  <2> QED BY <1>2, <2>1, <2>2 DEF Contexts!Next
<1> QED BY <1>1, <1>2, PartSteps, PTL DEF Spec

\* As long as only one thread at a time is in contexts, however deep and whatever they
\* are: a body runs with the settings of its innermost context, and when the last one has
\* been left the settings are those from before, whatever was set inside.
THEOREM ContextsPutBack == Spec => []ContextsRestore
<1>1. ContextsInv => ContextsRestore
  BY DEF ContextsInv, ContextsRestore, Contexts!ContextsRestore, InContext
<1> QED BY <1>1, ContextsInvHolds, PTL

-----------------------------------------------------------------------------
(* PyTracker.                                                              *)

\* A sum of weights is the number of pairs of an element and a unit of its weight.
Units(w, S) == UNION {{x} \X (1..w[x]) : x \in S}

LEMMA UnitsOf ==
  ASSUME NEW w, NEW S, IsFiniteSet(S), \A x \in S : w[x] \in Nat
  PROVE  /\ IsFiniteSet(Units(w, S)) /\ Cardinality(Units(w, S)) \in Nat
         /\ \A x \in S : Cardinality(Units(w, S)) = Cardinality(Units(w, S \ {x})) + w[x]
<1>1. ASSUME NEW x \in S
      PROVE  IsFiniteSet({x} \X (1..w[x])) /\ Cardinality({x} \X (1..w[x])) = w[x]
  <2>1. IsFiniteSet(1..w[x]) /\ Cardinality(1..w[x]) = w[x]
    BY FS_Interval
  <2>2. IsFiniteSet({x}) /\ Cardinality({x}) = 1
    BY FS_Singleton
  <2>3. /\ IsFiniteSet({x} \X (1..w[x]))
        /\ Cardinality({x} \X (1..w[x])) = Cardinality({x}) * Cardinality(1..w[x])
    BY <2>1, <2>2, FS_Product
  <2>4. w[x] \in Nat
    OBVIOUS
  <2>5. 1 * w[x] = w[x]
    BY <2>4
  <2> QED BY <2>1, <2>2, <2>3, <2>5
<1>2. \A T, x : Units(w, T \cup {x}) = Units(w, T) \cup ({x} \X (1..w[x]))
  BY DEF Units
<1>3. IsFiniteSet(Units(w, S))
  <2> DEFINE Q == {T \in SUBSET S : IsFiniteSet(Units(w, T))}
  <2>1. {} \in Q
    <3>1. Units(w, {}) = {}
      BY DEF Units
    <3> QED BY <3>1, FS_EmptySet
  <2>2. ASSUME NEW T \in SUBSET S, NEW x \in S, T \in Q PROVE T \cup {x} \in Q
    <3>1. IsFiniteSet(Units(w, T)) /\ IsFiniteSet({x} \X (1..w[x]))
      BY <1>1, <2>2
    <3>2. IsFiniteSet(Units(w, T) \cup ({x} \X (1..w[x])))
      BY <3>1, FS_Union
    <3> QED BY <1>2, <3>2
  <2>3. S \in Q
    <3> HIDE DEF Q
    <3> QED BY <2>1, <2>2, FiniteInduction
  <2> QED BY <2>3
<1>4. ASSUME NEW x \in S
      PROVE  Cardinality(Units(w, S)) = Cardinality(Units(w, S \ {x})) + w[x]
  <2>1. S = (S \ {x}) \cup {x}
    OBVIOUS
  <2>2. Units(w, S) = Units(w, S \ {x}) \cup ({x} \X (1..w[x]))
    BY <1>2, <2>1
  <2>3. Units(w, S \ {x}) \cap ({x} \X (1..w[x])) = {}
    BY DEF Units
  <2>4. IsFiniteSet(Units(w, S \ {x}))
    BY <1>3, <2>2, FS_Subset
  <2>5. Cardinality(Units(w, S)) = Cardinality(Units(w, S \ {x})) + Cardinality({x} \X (1..w[x]))
    <3>1. PICK A, B : A = Units(w, S \ {x}) /\ B = {x} \X (1..w[x])
      OBVIOUS
    <3>2. IsFiniteSet(A) /\ IsFiniteSet(B) /\ Cardinality(A \cap B) = 0
      BY <1>1, <2>3, <2>4, <3>1, FS_EmptySet
    <3>3. Cardinality(A) \in Nat /\ Cardinality(B) \in Nat
      BY <3>2, FS_CardinalityType
    <3>4. Cardinality(A \cup B) = Cardinality(A) + Cardinality(B) - Cardinality(A \cap B)
      BY <3>2, FS_Union
    <3>5. Cardinality(A \cup B) = Cardinality(A) + Cardinality(B)
      BY <3>2, <3>3, <3>4
    <3> QED BY <2>2, <3>1, <3>5
  <2> QED BY <1>1, <2>5
<1> QED BY <1>3, <1>4, FS_CardinalityType

\* The recursive function behind a sum.
Adds(g, w, S) ==
  g = [s \in SUBSET S |-> IF s = {} THEN 0 ELSE LET x == CHOOSE x \in s : TRUE IN w[x] + g[s \ {x}]]

LEMMA TotalIs ==
  ASSUME NEW w, NEW S, IsFiniteSet(S), \A x \in S : w[x] \in Nat
  PROVE  Tracker!Total(w, S) = Cardinality(Units(w, S))
<1>1. PICK f : f = CHOOSE g : Adds(g, w, S)
  OBVIOUS
<1>2. Tracker!Total(w, S) = f[S]
  BY <1>1, Zenon DEF Adds, Tracker!Total, Tracker!MapThenSumSet, Tracker!MapThenFoldSet
<1>3. \E g : Adds(g, w, S)
  <2>1. PICK g : g = [s \in SUBSET S |-> Cardinality(Units(w, s))]
    OBVIOUS
  <2>2. ASSUME NEW s \in SUBSET S
        PROVE  g[s] = IF s = {} THEN 0 ELSE LET x == CHOOSE x \in s : TRUE IN w[x] + g[s \ {x}]
    <3>1. CASE s = {}
      <4>1. Units(w, {}) = {}
        BY DEF Units
      <4> QED BY <2>1, <3>1, <4>1, FS_EmptySet
    <3>2. CASE s # {}
      <4>1. PICK x \in s : x = CHOOSE y \in s : TRUE
        BY <3>2
      <4>2. IsFiniteSet(s) /\ IsFiniteSet(s \ {x}) /\ s \ {x} \in SUBSET S
        BY FS_Subset
      <4>3. Cardinality(Units(w, s)) = Cardinality(Units(w, s \ {x})) + w[x]
        BY <4>2, UnitsOf
      <4>4. Cardinality(Units(w, s \ {x})) \in Nat /\ w[x] \in Nat
        BY <4>2, UnitsOf
      <4>5. g[s] = Cardinality(Units(w, s)) /\ g[s \ {x}] = Cardinality(Units(w, s \ {x}))
        BY <2>1, <4>2
      <4>6. g[s] = w[x] + g[s \ {x}]
        BY <4>3, <4>4, <4>5
      <4> QED BY <3>2, <4>1, <4>6
    <3> QED BY <3>1, <3>2
  <2>3. g = [s \in SUBSET S |-> IF s = {} THEN 0 ELSE LET x == CHOOSE x \in s : TRUE IN w[x] + g[s \ {x}]]
    <3>1. PICK h : h = [s \in SUBSET S |-> IF s = {} THEN 0 ELSE LET x == CHOOSE x \in s : TRUE IN w[x] + g[s \ {x}]]
      OBVIOUS
    <3>2. \A s \in SUBSET S : h[s] = g[s]
      BY <2>2, <3>1
    <3>3. g = [s \in SUBSET S |-> g[s]] /\ h = [s \in SUBSET S |-> h[s]]
      BY <2>1, <3>1
    <3> QED BY <3>1, <3>2, <3>3
  <2> QED BY <2>3 DEF Adds
<1>4. Adds(f, w, S)
  <2> HIDE DEF Adds
  <2> QED BY <1>1, <1>3
<1>5. ASSUME NEW s \in SUBSET S
      PROVE  f[s] = IF s = {} THEN 0 ELSE LET x == CHOOSE x \in s : TRUE IN w[x] + f[s \ {x}]
  BY <1>4 DEF Adds
<1>6. \A s \in SUBSET S : f[s] = Cardinality(Units(w, s))
  <2> DEFINE Bad == {s \in SUBSET S : f[s] # Cardinality(Units(w, s))}
  <2> SUFFICES ASSUME Bad # {} PROVE FALSE
    OBVIOUS
  <2>1. Bad \subseteq FiniteSubsetsOf(S)
    BY FS_Subset DEF FiniteSubsetsOf
  <2>2. PICK B \in Bad : \A C \in Bad : <<C, B>> \notin StrictSubsetOrdering(S)
    <3> HIDE DEF Bad
    <3> QED BY <2>1, FS_StrictSubsetOrderingWellFounded, WFMin, Zenon
  <2>3. CASE B = {}
    <3>1. Units(w, {}) = {}
      BY DEF Units
    <3> QED BY <1>5, <2>3, <3>1, FS_EmptySet
  <2>4. CASE B # {}
    <3>1. PICK x \in B : x = CHOOSE y \in B : TRUE
      BY <2>4
    <3>2. f[B] = w[x] + f[B \ {x}]
      BY <1>5, <2>4, <3>1
    <3>3. B \ {x} \notin Bad
      <4>1. <<B \ {x}, B>> \in StrictSubsetOrdering(S)
        BY DEF StrictSubsetOrdering
      <4> QED BY <2>2, <4>1
    <3>4. IsFiniteSet(B) /\ IsFiniteSet(B \ {x})
      BY FS_Subset
    <3>5. /\ Cardinality(Units(w, B)) = Cardinality(Units(w, B \ {x})) + w[x]
          /\ Cardinality(Units(w, B \ {x})) \in Nat /\ w[x] \in Nat
      BY <3>4, UnitsOf
    <3>6. f[B \ {x}] = Cardinality(Units(w, B \ {x}))
      BY <3>3
    <3>7. f[B] = Cardinality(Units(w, B))
      BY <3>2, <3>5, <3>6
    <3> QED BY <3>7
  <2> QED BY <2>3, <2>4
<1> QED BY <1>2, <1>6

\* One element more adds its weight, and weights elsewhere do not matter.
LEMMA TotalOf ==
  ASSUME NEW w, NEW S, IsFiniteSet(S), \A x \in S : w[x] \in Nat
  PROVE  /\ Tracker!Total(w, S) \in Nat
         /\ S = {} => Tracker!Total(w, S) = 0
         /\ \A x \in S : Tracker!Total(w, S) = Tracker!Total(w, S \ {x}) + w[x]
         /\ \A v : (\A x \in S : v[x] = w[x]) => Tracker!Total(v, S) = Tracker!Total(w, S)
<1>1. Tracker!Total(w, S) = Cardinality(Units(w, S)) /\ Cardinality(Units(w, S)) \in Nat
  BY TotalIs, UnitsOf
<1>2. S = {} => Tracker!Total(w, S) = 0
  <2>1. Units(w, {}) = {}
    BY DEF Units
  <2> QED BY <1>1, <2>1, FS_EmptySet
<1>3. ASSUME NEW x \in S PROVE Tracker!Total(w, S) = Tracker!Total(w, S \ {x}) + w[x]
  <2>1. IsFiniteSet(S \ {x})
    BY FS_Subset
  <2>2. Tracker!Total(w, S \ {x}) = Cardinality(Units(w, S \ {x}))
    BY <2>1, TotalIs
  <2>3. Cardinality(Units(w, S)) = Cardinality(Units(w, S \ {x})) + w[x]
    BY UnitsOf
  <2> QED BY <1>1, <2>2, <2>3
<1>4. ASSUME NEW v, \A x \in S : v[x] = w[x] PROVE Tracker!Total(v, S) = Tracker!Total(w, S)
  <2>1. Units(v, S) = Units(w, S)
    BY <1>4 DEF Units
  <2>2. \A x \in S : v[x] \in Nat
    BY <1>4
  <2> QED BY <1>1, <2>1, <2>2, TotalIs
<1> QED BY <1>1, <1>2, <1>3, <1>4

LEMMA SumOf ==
  ASSUME NEW S \in SUBSET Object, IsFiniteSet(S)
  PROVE  /\ Tracker!Sum(S) \in Nat
         /\ S = {} => Tracker!Sum(S) = 0
         /\ \A o \in S : Tracker!Sum(S) = Tracker!Sum(S \ {o}) + o.size
<1>1. PICK w : w = [o \in S |-> o.size]
  OBVIOUS
<1>2. \A o \in S : w[o] = o.size /\ w[o] \in Nat
  BY <1>1, TrackerAssumption
<1>3. Tracker!Sum(S) = Tracker!Total(w, S)
  BY <1>1 DEF Tracker!Sum
<1>4. ASSUME NEW o \in S PROVE Tracker!Sum(S \ {o}) = Tracker!Total(w, S \ {o})
  <2>1. PICK v : v = [p \in S \ {o} |-> p.size]
    OBVIOUS
  <2>2. \A p \in S \ {o} : v[p] = w[p]
    BY <1>2, <2>1
  <2>3. IsFiniteSet(S \ {o})
    BY FS_Subset
  <2>4. Tracker!Total(v, S \ {o}) = Tracker!Total(w, S \ {o})
    BY <1>2, <2>2, <2>3, TotalOf
  <2> QED BY <2>1, <2>4 DEF Tracker!Sum
<1>5. S = {} => Tracker!Total(w, S) = 0
  BY <1>2, TotalOf
<1>6. \A o \in S : Tracker!Total(w, S) = Tracker!Total(w, S \ {o}) + w[o]
  BY <1>2, TotalOf
<1>7. Tracker!Total(w, S) \in Nat
  BY <1>2, TotalOf
<1> QED BY <1>2, <1>3, <1>4, <1>5, <1>6, <1>7

\* The figures of one tag change and the sum over the tags with it.
LEMMA TagChanges ==
  ASSUME allocations \in [Tags -> Nat], NEW g \in Tags, NEW v \in Nat,
         allocations' = [allocations EXCEPT ![g] = v]
  PROVE  /\ Tracker!SumTags \in Nat /\ Tracker!SumTags' \in Nat
         /\ Tracker!SumTags' + allocations[g] = Tracker!SumTags + v
         /\ allocations[g] <= Tracker!SumTags
<1>1. PICK a, b : a = allocations /\ b = allocations'
  OBVIOUS
<1>2. /\ \A x \in Tags : a[x] \in Nat /\ b[x] \in Nat
      /\ b[g] = v /\ \A x \in Tags \ {g} : b[x] = a[x]
  BY <1>1
<1>3. IsFiniteSet(Tags) /\ IsFiniteSet(Tags \ {g})
  BY TrackerAssumption, FS_Subset
<1>4. /\ Tracker!Total(a, Tags) \in Nat
      /\ Tracker!Total(a, Tags) = Tracker!Total(a, Tags \ {g}) + a[g]
  BY <1>2, <1>3, TotalOf
<1>5. /\ Tracker!Total(b, Tags) \in Nat
      /\ Tracker!Total(b, Tags) = Tracker!Total(b, Tags \ {g}) + b[g]
  BY <1>2, <1>3, TotalOf
<1>6. /\ Tracker!Total(a, Tags \ {g}) \in Nat
      /\ Tracker!Total(b, Tags \ {g}) = Tracker!Total(a, Tags \ {g})
  BY <1>2, <1>3, TotalOf
<1>7. Tracker!SumTags = Tracker!Total(a, Tags) /\ Tracker!SumTags' = Tracker!Total(b, Tags)
  BY <1>1 DEF Tracker!SumTags, Tracker!Total, Tracker!MapThenSumSet, Tracker!MapThenFoldSet
<1>8. a[g] \in Nat /\ b[g] \in Nat
  BY <1>2
<1> QED BY <1>1, <1>2, <1>4, <1>5, <1>6, <1>7, <1>8

OfTag(g) == {o \in Tracker!Recorded : o.tag = g}

TrackerInv ==
  /\ Tracker!TypeOK /\ IsFiniteSet(live \cup Tracker!Pending)
  /\ \A t \in Threads : /\ trackerCall[t].at = "add" => trackerCall[t].of \subseteq live
                        /\ trackerCall[t].at = "subtract" => trackerCall[t].of \cap live = {}
  /\ \A t, u \in Threads : t # u => trackerCall[t].of \cap trackerCall[u].of = {}
  /\ total_allocated - total_freed <= Tracker!SumTags
  /\ ~missed => /\ total_allocated - total_freed = Tracker!SumTags
                /\ \A g \in Tags : allocations[g] = Tracker!Sum(OfTag(g))

\* A call is idle with nothing in hand or has one object.
LEMMA TrackerCalls ==
  ASSUME Tracker!TypeOK, NEW t \in Threads
  PROVE  \/ trackerCall[t].at = "idle" /\ trackerCall[t].of = {}
         \/ /\ trackerCall[t].at \in {"add", "subtract"}
            /\ \E o \in Object : trackerCall[t].of = {o}
BY DEF Tracker!TypeOK, Tracker!Calls, Tracker!Idle

LEMMA OfTagIs ==
  ASSUME TrackerInv, NEW g
  PROVE  OfTag(g) \in SUBSET Object /\ IsFiniteSet(OfTag(g))
<1>1. Tracker!Recorded \subseteq live \cup Tracker!Pending
  BY DEF Tracker!Recorded, Tracker!Pending
<1>2. IsFiniteSet(live \cup Tracker!Pending)
  BY DEF TrackerInv
<1>3. live \cup Tracker!Pending \subseteq Object
  <2>1. \A t \in Threads : trackerCall[t].of \subseteq Object
    BY TrackerCalls DEF TrackerInv
  <2> QED BY <2>1 DEF Tracker!Pending, TrackerInv, Tracker!TypeOK
<1>4. OfTag(g) \subseteq live \cup Tracker!Pending
  BY <1>1 DEF OfTag
<1>5. IsFiniteSet(OfTag(g))
  BY <1>2, <1>4, FS_Subset
<1> QED BY <1>3, <1>4, <1>5

LEMMA SwitchKeeps ==
  ASSUME TrackerInv, NEW on \in BOOLEAN, Tracker!Switch(on) \/ UNCHANGED Tracker!vars
  PROVE  TrackerInv'
<1>1. /\ allocations' = allocations /\ total_allocated' = total_allocated /\ total_freed' = total_freed
      /\ live' = live /\ trackerCall' = trackerCall /\ missed' = missed
  BY DEF Tracker!Switch, Tracker!vars
<1>2. enabled' \in BOOLEAN
  BY DEF Tracker!Switch, Tracker!vars, TrackerInv, Tracker!TypeOK
<1>3. Tracker!SumTags' = Tracker!SumTags /\ Tracker!Pending' = Tracker!Pending
      /\ \A g : OfTag(g)' = OfTag(g)
  BY <1>1 DEF Tracker!SumTags, Tracker!Total, Tracker!MapThenSumSet, Tracker!MapThenFoldSet,
              Tracker!Pending, OfTag, Tracker!Recorded
<1>4. Tracker!TypeOK'
  BY <1>1, <1>2 DEF TrackerInv, Tracker!TypeOK
<1> QED BY <1>1, <1>3, <1>4 DEF TrackerInv

\* A call that finds the tracker on takes its object in hand and leaves what counts as
\* there; one that finds it off is missed.
LEMMA BeginKeeps ==
  ASSUME TrackerInv, NEW t \in Threads, NEW o \in Object, Tracker!Allocates(t, o) \/ Tracker!Frees(t, o)
  PROVE  TrackerInv'
<1>1. PICK a \in {"add", "subtract"} :
        /\ Tracker!Begins(t, a, o)
        /\ a = "add" => o \notin live \cup Tracker!Pending /\ live' = live \cup {o}
        /\ a = "subtract" => o \in live \ Tracker!Pending /\ live' = live \ {o}
  BY DEF Tracker!Allocates, Tracker!Frees
<1>2. /\ enabled' = enabled /\ allocations' = allocations
      /\ total_allocated' = total_allocated /\ total_freed' = total_freed
      /\ missed' = (missed \/ ~enabled) /\ trackerCall[t] = Tracker!Idle
  BY <1>1 DEF Tracker!Begins
<1>3. trackerCall \in [Threads -> Tracker!Calls]
  BY DEF TrackerInv, Tracker!TypeOK
<1>4. PICK d : d = IF enabled THEN [at |-> a, of |-> {o}] ELSE Tracker!Idle
  OBVIOUS
<1>5. d \in Tracker!Calls /\ (enabled => d.at = a /\ d.of = {o}) /\ (~enabled => d = Tracker!Idle)
  BY <1>4 DEF Tracker!Calls
<1>6. trackerCall' = [trackerCall EXCEPT ![t] = d]
  BY <1>1, <1>4 DEF Tracker!Begins
<1>7. /\ trackerCall' \in [Threads -> Tracker!Calls] /\ trackerCall'[t] = d
      /\ \A u \in Threads \ {t} : trackerCall'[u] = trackerCall[u]
  BY <1>3, <1>5, <1>6
<1>8. trackerCall[t].of = {} /\ trackerCall[t].at = "idle"
  BY <1>2 DEF Tracker!Idle
<1>9. d.of \subseteq {o} /\ (d.at # "idle" => d.at = a)
  BY <1>5 DEF Tracker!Idle
<1>10. \A u \in Threads : o \notin trackerCall[u].of
  BY <1>1 DEF Tracker!Pending
<1>11. Tracker!TypeOK'
  BY <1>1, <1>2, <1>7 DEF TrackerInv, Tracker!TypeOK
<1>12. IsFiniteSet((live \cup Tracker!Pending)')
  <2>1. Tracker!Pending' \subseteq Tracker!Pending \cup {o}
    BY <1>7, <1>9 DEF Tracker!Pending
  <2>2. (live \cup Tracker!Pending)' \subseteq (live \cup Tracker!Pending) \cup {o}
    BY <1>1, <2>1
  <2>3. IsFiniteSet((live \cup Tracker!Pending) \cup {o})
    BY FS_AddElement DEF TrackerInv
  <2> QED BY <2>2, <2>3, FS_Subset
<1>13. \A u \in Threads : /\ trackerCall'[u].at = "add" => trackerCall'[u].of \subseteq live'
                          /\ trackerCall'[u].at = "subtract" => trackerCall'[u].of \cap live' = {}
  <2>1. ASSUME NEW u \in Threads \ {t}
        PROVE  /\ trackerCall'[u].at = "add" => trackerCall'[u].of \subseteq live'
               /\ trackerCall'[u].at = "subtract" => trackerCall'[u].of \cap live' = {}
    <3>1. /\ trackerCall[u].at = "add" => trackerCall[u].of \subseteq live
          /\ trackerCall[u].at = "subtract" => trackerCall[u].of \cap live = {}
      BY DEF TrackerInv
    <3> QED BY <1>1, <1>7, <1>10, <3>1
  <2>2. /\ d.at = "add" => d.of \subseteq live'
        /\ d.at = "subtract" => d.of \cap live' = {}
    BY <1>1, <1>9
  <2> QED BY <1>7, <2>1, <2>2
<1>14. \A u, v \in Threads : u # v => trackerCall'[u].of \cap trackerCall'[v].of = {}
  <2>1. \A u, v \in Threads : u # v => trackerCall[u].of \cap trackerCall[v].of = {}
    BY DEF TrackerInv
  <2> QED BY <1>7, <1>9, <1>10, <2>1
<1>15. Tracker!SumTags' = Tracker!SumTags
  BY <1>2 DEF Tracker!SumTags, Tracker!Total, Tracker!MapThenSumSet, Tracker!MapThenFoldSet
<1>16. ASSUME ~missed' PROVE \A g \in Tags : allocations'[g] = Tracker!Sum(OfTag(g))'
  <2>1. enabled /\ ~missed /\ d.at = a /\ d.of = {o}
    BY <1>2, <1>5, <1>16
  <2>2. \A x : x \in Tracker!Recorded' <=> x \in Tracker!Recorded
    <3>1. \A x : x \in Tracker!Recorded
                   <=> \/ x \in live /\ \A u \in Threads : x \notin trackerCall[u].of
                       \/ \E u \in Threads : trackerCall[u].at = "subtract" /\ x \in trackerCall[u].of
      BY DEF Tracker!Recorded, Tracker!Pending
    <3>2. \A x : x \in Tracker!Recorded'
                   <=> \/ x \in live' /\ \A u \in Threads : x \notin trackerCall'[u].of
                       \/ \E u \in Threads : trackerCall'[u].at = "subtract" /\ x \in trackerCall'[u].of
      BY DEF Tracker!Recorded, Tracker!Pending
    <3>3. ASSUME NEW x, x # o PROVE x \in Tracker!Recorded' <=> x \in Tracker!Recorded
      <4>1. \A u \in Threads : x \in trackerCall'[u].of <=> x \in trackerCall[u].of
        BY <1>7, <1>8, <1>9, <3>3
      <4>2. \A u \in Threads : x \in trackerCall[u].of => trackerCall'[u] = trackerCall[u]
        BY <1>7, <1>8
      <4>3. x \in live' <=> x \in live
        BY <1>1, <3>3
      <4> QED BY <3>1, <3>2, <4>1, <4>2, <4>3
    <3>4. CASE a = "add"
      <4>1. o \notin Tracker!Recorded
        BY <1>1, <1>10, <3>1, <3>4
      <4>2. o \notin Tracker!Recorded'
        <5>1. o \in trackerCall'[t].of /\ trackerCall'[t].at # "subtract"
          BY <1>7, <2>1, <3>4
        <5>2. \A u \in Threads \ {t} : o \notin trackerCall'[u].of
          BY <1>7, <1>10
        <5> QED BY <3>2, <5>1, <5>2
      <4> QED BY <3>3, <4>1, <4>2
    <3>5. CASE a = "subtract"
      <4>1. o \in Tracker!Recorded
        BY <1>1, <1>10, <3>1, <3>5
      <4>2. o \in Tracker!Recorded'
        BY <1>7, <2>1, <3>2, <3>5
      <4> QED BY <3>3, <4>1, <4>2
    <3> QED BY <3>4, <3>5
  <2>3. \A g : OfTag(g)' = OfTag(g)
    BY <2>2 DEF OfTag
  <2>4. \A g \in Tags : allocations[g] = Tracker!Sum(OfTag(g))
    BY <2>1 DEF TrackerInv
  <2> QED BY <1>2, <2>3, <2>4
<1>17. /\ total_allocated - total_freed <= Tracker!SumTags
       /\ ~missed => total_allocated - total_freed = Tracker!SumTags
  BY DEF TrackerInv
<1> QED BY <1>2, <1>11, <1>12, <1>13, <1>14, <1>15, <1>16, <1>17 DEF TrackerInv

\* The object in hand is counted, or is counted no more, and nothing else changes place.
LEMMA RecordParts ==
  ASSUME TrackerInv, NEW t \in Threads, trackerCall[t].at \in {"add", "subtract"},
         trackerCall' = [trackerCall EXCEPT ![t] = Tracker!Idle], live' = live
  PROVE  \E o \in Object :
           /\ trackerCall[t].of = {o}
           /\ trackerCall[t].at = "add"
                => o \notin Tracker!Recorded /\ Tracker!Recorded' = Tracker!Recorded \cup {o}
           /\ trackerCall[t].at = "subtract"
                => o \in Tracker!Recorded /\ Tracker!Recorded' = Tracker!Recorded \ {o}
<1>1. PICK o \in Object : trackerCall[t].of = {o}
  BY TrackerCalls DEF TrackerInv
<1>2. trackerCall \in [Threads -> Tracker!Calls]
  BY DEF TrackerInv, Tracker!TypeOK
<1>3. /\ trackerCall'[t].of = {} /\ trackerCall'[t].at = "idle"
      /\ \A u \in Threads \ {t} : trackerCall'[u] = trackerCall[u]
  BY <1>2 DEF Tracker!Idle
<1>4. \A u \in Threads \ {t} : o \notin trackerCall[u].of
  BY <1>1 DEF TrackerInv
<1>5. \A x : x \in Tracker!Recorded
               <=> \/ x \in live /\ \A u \in Threads : x \notin trackerCall[u].of
                   \/ \E u \in Threads : trackerCall[u].at = "subtract" /\ x \in trackerCall[u].of
  BY DEF Tracker!Recorded, Tracker!Pending
<1>6. \A x : x \in Tracker!Recorded'
               <=> \/ x \in live /\ \A u \in Threads : x \notin trackerCall'[u].of
                   \/ \E u \in Threads : trackerCall'[u].at = "subtract" /\ x \in trackerCall'[u].of
  BY DEF Tracker!Recorded, Tracker!Pending
<1>7. ASSUME NEW x, x # o PROVE x \in Tracker!Recorded' <=> x \in Tracker!Recorded
  <2>1. \A u \in Threads : x \in trackerCall'[u].of <=> x \in trackerCall[u].of
    BY <1>1, <1>3, <1>7
  <2>2. \A u \in Threads : x \in trackerCall[u].of => trackerCall'[u] = trackerCall[u]
    BY <1>1, <1>3, <1>7
  <2> QED BY <1>5, <1>6, <2>1, <2>2
<1>8. \A u \in Threads : o \notin trackerCall'[u].of
  BY <1>3, <1>4
<1>9. o \in Tracker!Recorded' <=> o \in live
  BY <1>6, <1>8
<1>10. CASE trackerCall[t].at = "add"
  <2>1. o \in live
    BY <1>1, <1>10 DEF TrackerInv
  <2>2. o \notin Tracker!Recorded
    BY <1>1, <1>4, <1>5, <1>10
  <2>3. Tracker!Recorded' = Tracker!Recorded \cup {o}
    BY <1>7, <1>9, <2>1
  <2> QED BY <1>1, <1>10, <2>2, <2>3
<1>11. CASE trackerCall[t].at = "subtract"
  <2>1. o \notin live
    BY <1>1, <1>11 DEF TrackerInv
  <2>2. o \in Tracker!Recorded
    BY <1>1, <1>5, <1>11
  <2>3. Tracker!Recorded' = Tracker!Recorded \ {o}
    BY <1>7, <1>9, <2>1
  <2> QED BY <1>1, <1>11, <2>2, <2>3
<1> QED BY <1>10, <1>11

LEMMA RecordTypes ==
  ASSUME TrackerInv, NEW t \in Threads,
         trackerCall' = [trackerCall EXCEPT ![t] = Tracker!Idle], live' = live,
         enabled' = enabled, missed' = missed, allocations' \in [Tags -> Nat],
         total_allocated' \in Nat, total_freed' \in Nat
  PROVE  /\ Tracker!TypeOK' /\ IsFiniteSet((live \cup Tracker!Pending)')
         /\ \A u \in Threads : /\ trackerCall'[u].at = "add" => trackerCall'[u].of \subseteq live'
                               /\ trackerCall'[u].at = "subtract" => trackerCall'[u].of \cap live' = {}
         /\ \A u, v \in Threads : u # v => trackerCall'[u].of \cap trackerCall'[v].of = {}
<1>1. trackerCall \in [Threads -> Tracker!Calls]
  BY DEF TrackerInv, Tracker!TypeOK
<1>2. trackerCall' \in [Threads -> Tracker!Calls]
  BY <1>1 DEF Tracker!Calls
<1>3. /\ trackerCall'[t].of = {} /\ trackerCall'[t].at = "idle"
      /\ \A u \in Threads \ {t} : trackerCall'[u] = trackerCall[u]
  BY <1>1 DEF Tracker!Idle
<1>4. Tracker!TypeOK'
  BY <1>2 DEF TrackerInv, Tracker!TypeOK
<1>5. IsFiniteSet((live \cup Tracker!Pending)')
  <2>1. Tracker!Pending' \subseteq Tracker!Pending
    BY <1>3 DEF Tracker!Pending
  <2>2. (live \cup Tracker!Pending)' \subseteq live \cup Tracker!Pending
    BY <2>1
  <2> QED BY <2>2, FS_Subset DEF TrackerInv
<1>6. \A u \in Threads : /\ trackerCall[u].at = "add" => trackerCall[u].of \subseteq live
                         /\ trackerCall[u].at = "subtract" => trackerCall[u].of \cap live = {}
  BY DEF TrackerInv
<1>7. \A u, v \in Threads : u # v => trackerCall[u].of \cap trackerCall[v].of = {}
  BY DEF TrackerInv
<1> QED BY <1>3, <1>4, <1>5, <1>6, <1>7

LEMMA AllocationKeeps ==
  ASSUME TrackerInv, NEW t \in Threads, Tracker!record_allocation(t)
  PROVE  TrackerInv'
<1>1. /\ trackerCall[t].at = "add" /\ trackerCall' = [trackerCall EXCEPT ![t] = Tracker!Idle]
      /\ live' = live /\ enabled' = enabled /\ missed' = missed /\ total_freed' = total_freed
  BY DEF Tracker!record_allocation
<1>2. PICK o \in Object :
        /\ trackerCall[t].of = {o} /\ o \notin Tracker!Recorded
        /\ Tracker!Recorded' = Tracker!Recorded \cup {o}
  BY <1>1, RecordParts
<1>3. o.size \in Nat /\ o.tag \in Tags
  BY TrackerAssumption
<1>4. /\ allocations \in [Tags -> Nat] /\ total_allocated \in Nat /\ total_freed \in Nat
  BY DEF TrackerInv, Tracker!TypeOK
<1>5. PICK v : v = allocations[o.tag] + o.size
  OBVIOUS
<1>6. v \in Nat /\ allocations[o.tag] \in Nat
  BY <1>3, <1>4, <1>5
<1>7. /\ total_allocated' = total_allocated + o.size
      /\ allocations' = [allocations EXCEPT ![o.tag] = v]
  BY <1>2, <1>5 DEF Tracker!record_allocation
<1>8. allocations' \in [Tags -> Nat] /\ total_allocated' \in Nat /\ total_freed' \in Nat
  BY <1>1, <1>3, <1>4, <1>6, <1>7
<1>9. /\ Tracker!SumTags \in Nat /\ Tracker!SumTags' \in Nat
      /\ Tracker!SumTags' + allocations[o.tag] = Tracker!SumTags + v
  BY <1>3, <1>4, <1>6, <1>7, TagChanges
<1>10. Tracker!SumTags' = Tracker!SumTags + o.size
  BY <1>3, <1>5, <1>6, <1>9
<1>11. /\ total_allocated - total_freed <= Tracker!SumTags
       /\ ~missed => total_allocated - total_freed = Tracker!SumTags
  BY DEF TrackerInv
<1>12. /\ (total_allocated - total_freed <= Tracker!SumTags)'
       /\ ~missed => (total_allocated - total_freed = Tracker!SumTags)'
  BY <1>1, <1>3, <1>4, <1>7, <1>9, <1>10, <1>11
<1>13. ASSUME ~missed, NEW g \in Tags PROVE allocations'[g] = Tracker!Sum(OfTag(g)')
  <2>1. allocations[g] = Tracker!Sum(OfTag(g))
    BY <1>13 DEF TrackerInv
  <2>2. CASE g = o.tag
    <3>1. PICK S : S = OfTag(g) \cup {o}
      OBVIOUS
    <3>2. OfTag(g)' = S
      BY <1>2, <2>2, <3>1 DEF OfTag
    <3>3. S \in SUBSET Object /\ IsFiniteSet(S) /\ o \in S /\ S \ {o} = OfTag(g)
      <4>1. OfTag(g) \in SUBSET Object /\ IsFiniteSet(OfTag(g))
        BY OfTagIs
      <4>2. o \notin OfTag(g)
        BY <1>2 DEF OfTag
      <4> QED BY <3>1, <4>1, <4>2, FS_AddElement
    <3>4. Tracker!Sum(S) = Tracker!Sum(OfTag(g)) + o.size
      BY <3>3, SumOf
    <3>5. allocations'[g] = v
      BY <1>3, <1>4, <1>7, <2>2
    <3> QED BY <1>5, <2>1, <2>2, <3>2, <3>4, <3>5
  <2>3. CASE g # o.tag
    <3>1. OfTag(g)' = OfTag(g)
      BY <1>2, <2>3 DEF OfTag
    <3>2. allocations'[g] = allocations[g]
      BY <1>4, <1>7, <2>3
    <3> QED BY <2>1, <3>1, <3>2
  <2> QED BY <2>2, <2>3
<1>14. /\ Tracker!TypeOK' /\ IsFiniteSet((live \cup Tracker!Pending)')
       /\ \A u \in Threads : /\ trackerCall'[u].at = "add" => trackerCall'[u].of \subseteq live'
                             /\ trackerCall'[u].at = "subtract" => trackerCall'[u].of \cap live' = {}
       /\ \A u, w \in Threads : u # w => trackerCall'[u].of \cap trackerCall'[w].of = {}
  BY <1>1, <1>8, RecordTypes
<1> QED BY <1>1, <1>12, <1>13, <1>14 DEF TrackerInv

\* A tag's figure stops at zero, where the totals do not: only then they come apart.
LEMMA FreeKeeps ==
  ASSUME TrackerInv, NEW t \in Threads, Tracker!record_free(t)
  PROVE  TrackerInv'
<1>1. /\ trackerCall[t].at = "subtract" /\ trackerCall' = [trackerCall EXCEPT ![t] = Tracker!Idle]
      /\ live' = live /\ enabled' = enabled /\ missed' = missed /\ total_allocated' = total_allocated
  BY DEF Tracker!record_free
<1>2. PICK o \in Object :
        /\ trackerCall[t].of = {o} /\ o \in Tracker!Recorded
        /\ Tracker!Recorded' = Tracker!Recorded \ {o}
  BY <1>1, RecordParts
<1>3. o.size \in Nat /\ o.tag \in Tags
  BY TrackerAssumption
<1>4. /\ allocations \in [Tags -> Nat] /\ total_allocated \in Nat /\ total_freed \in Nat
  BY DEF TrackerInv, Tracker!TypeOK
<1>5. PICK v : v = Tracker!Max0(allocations[o.tag] - o.size)
  OBVIOUS
<1>6. v \in Nat /\ allocations[o.tag] \in Nat /\ allocations[o.tag] - o.size <= v
      /\ (o.size <= allocations[o.tag] => v = allocations[o.tag] - o.size)
  BY <1>3, <1>4, <1>5 DEF Tracker!Max0
<1>7. /\ total_freed' = total_freed + o.size
      /\ allocations' = [allocations EXCEPT ![o.tag] = v]
  BY <1>2, <1>5 DEF Tracker!record_free
<1>8. allocations' \in [Tags -> Nat] /\ total_allocated' \in Nat /\ total_freed' \in Nat
  BY <1>1, <1>3, <1>4, <1>6, <1>7
<1>9. /\ Tracker!SumTags \in Nat /\ Tracker!SumTags' \in Nat
      /\ Tracker!SumTags' + allocations[o.tag] = Tracker!SumTags + v
  BY <1>3, <1>4, <1>6, <1>7, TagChanges
<1>10. Tracker!SumTags - o.size <= Tracker!SumTags'
  BY <1>3, <1>6, <1>9
<1>11. /\ total_allocated - total_freed <= Tracker!SumTags
       /\ ~missed => total_allocated - total_freed = Tracker!SumTags
  BY DEF TrackerInv
<1>12. (total_allocated - total_freed <= Tracker!SumTags)'
  BY <1>1, <1>3, <1>4, <1>7, <1>9, <1>10, <1>11
<1>13. ASSUME ~missed
       PROVE  o.size <= allocations[o.tag] /\ \A g \in Tags : allocations'[g] = Tracker!Sum(OfTag(g)')
  <2>1. \A g \in Tags : allocations[g] = Tracker!Sum(OfTag(g))
    BY <1>13 DEF TrackerInv
  <2>2. PICK S : S = OfTag(o.tag)
    OBVIOUS
  <2>3. S \in SUBSET Object /\ IsFiniteSet(S) /\ o \in S
    BY <1>2, <2>2, OfTagIs DEF OfTag
  <2>4. S \ {o} \in SUBSET Object /\ IsFiniteSet(S \ {o})
    BY <2>3, FS_Subset
  <2>5. Tracker!Sum(S) = Tracker!Sum(S \ {o}) + o.size /\ Tracker!Sum(S \ {o}) \in Nat
    BY <2>3, <2>4, SumOf
  <2>6. allocations[o.tag] = Tracker!Sum(S)
    BY <1>3, <2>1, <2>2
  <2>7. o.size <= allocations[o.tag] /\ v = Tracker!Sum(S \ {o})
    BY <1>3, <1>6, <2>5, <2>6
  <2>8. OfTag(o.tag)' = S \ {o}
    BY <1>2, <2>2 DEF OfTag
  <2>9. allocations'[o.tag] = v /\ \A g \in Tags \ {o.tag} : allocations'[g] = allocations[g]
    BY <1>3, <1>4, <1>7
  <2>10. \A g \in Tags \ {o.tag} : OfTag(g)' = OfTag(g)
    BY <1>2 DEF OfTag
  <2>11. ASSUME NEW g \in Tags PROVE allocations'[g] = Tracker!Sum(OfTag(g)')
    BY <2>1, <2>7, <2>8, <2>9, <2>10
  <2> QED BY <2>7, <2>11
<1>14. ~missed => (total_allocated - total_freed = Tracker!SumTags)'
  BY <1>1, <1>3, <1>4, <1>6, <1>7, <1>9, <1>11, <1>13
<1>15. /\ Tracker!TypeOK' /\ IsFiniteSet((live \cup Tracker!Pending)')
       /\ \A u \in Threads : /\ trackerCall'[u].at = "add" => trackerCall'[u].of \subseteq live'
                             /\ trackerCall'[u].at = "subtract" => trackerCall'[u].of \cap live' = {}
       /\ \A u, w \in Threads : u # w => trackerCall'[u].of \cap trackerCall'[w].of = {}
  BY <1>1, <1>8, RecordTypes
<1> QED BY <1>1, <1>12, <1>13, <1>14, <1>15 DEF TrackerInv

LEMMA TrackerKeeps == TrackerInv /\ [Tracker!Next]_Tracker!vars => TrackerInv'
<1> SUFFICES ASSUME TrackerInv, [Tracker!Next]_Tracker!vars PROVE TrackerInv'
  OBVIOUS
<1>1. CASE UNCHANGED Tracker!vars
  BY <1>1, SwitchKeeps, TRUE \in BOOLEAN
<1>2. CASE \E on \in BOOLEAN : Tracker!Switch(on)
  BY <1>2, SwitchKeeps
<1>3. CASE \E t \in Threads : \E o \in Object : Tracker!Allocates(t, o) \/ Tracker!Frees(t, o)
  BY <1>3, BeginKeeps
<1>4. CASE \E t \in Threads : Tracker!record_allocation(t) \/ Tracker!record_free(t)
  BY <1>4, AllocationKeeps, FreeKeeps
<1> QED BY <1>1, <1>2, <1>3, <1>4 DEF Tracker!Next

LEMMA TrackerInvHolds == Spec => []TrackerInv
<1>1. Init => TrackerInv
  <2> SUFFICES ASSUME Tracker!Init PROVE TrackerInv
    BY DEF Init
  <2>1. /\ enabled = FALSE /\ missed = FALSE /\ live = {} /\ total_allocated = 0 /\ total_freed = 0
        /\ allocations = [g \in Tags |-> 0] /\ trackerCall = [t \in Threads |-> Tracker!Idle]
    BY DEF Tracker!Init
  <2>2. Tracker!Idle.of = {} /\ Tracker!Idle.at = "idle" /\ Tracker!Idle \in Tracker!Calls
    BY DEF Tracker!Idle, Tracker!Calls
  <2>3. trackerCall \in [Threads -> Tracker!Calls] /\ allocations \in [Tags -> Nat]
    BY <2>1, <2>2
  <2>4. \A t \in Threads : trackerCall[t].of = {} /\ trackerCall[t].at = "idle"
    BY <2>1, <2>2
  <2>5. Tracker!Pending = {} /\ \A g : OfTag(g) = {}
    BY <2>1, <2>4 DEF Tracker!Pending, OfTag, Tracker!Recorded
  <2>6. Tracker!TypeOK
    BY <2>1, <2>3 DEF Tracker!TypeOK
  <2>7. IsFiniteSet(live \cup Tracker!Pending)
    BY <2>1, <2>5, FS_EmptySet
  <2>8. Tracker!Sum({}) = 0
    BY SumOf, FS_EmptySet
  <2>9. Tracker!SumTags = 0
    <3>1. PICK z : z = [g \in Tags |-> 0]
      OBVIOUS
    <3>2. \A g \in Tags : z[g] = 0
      BY <3>1
    <3> DEFINE Q == {T \in SUBSET Tags : Tracker!Total(z, T) = 0}
    <3>3. {} \in Q
      BY <3>2, TotalOf, FS_EmptySet
    <3>4. ASSUME NEW T \in SUBSET Tags, NEW g \in Tags, T \in Q PROVE T \cup {g} \in Q
      <4>1. CASE g \in T
        <5>1. T \cup {g} = T
          BY <4>1
        <5> QED BY <3>4, <5>1
      <4>2. CASE g \notin T
        <5>1. (T \cup {g}) \ {g} = T /\ IsFiniteSet(T \cup {g})
          BY <4>2, TrackerAssumption, FS_Subset
        <5>2. Tracker!Total(z, T \cup {g}) = Tracker!Total(z, T) + z[g]
          BY <3>2, <5>1, TotalOf
        <5> QED BY <3>2, <3>4, <5>2
      <4> QED BY <4>1, <4>2
    <3>5. Tags \in Q
      <4> HIDE DEF Q
      <4> QED BY <3>3, <3>4, TrackerAssumption, FiniteInduction
    <3> QED BY <2>1, <3>1, <3>5 DEF Tracker!SumTags
  <2>10. \A g \in Tags : allocations[g] = Tracker!Sum(OfTag(g))
    BY <2>1, <2>5, <2>8
  <2> QED BY <2>1, <2>4, <2>6, <2>7, <2>9, <2>10 DEF TrackerInv
<1>2. TrackerInv /\ [Next]_vars => TrackerInv'
  BY PartSteps, TrackerKeeps
<1> QED BY <1>1, <1>2, PTL DEF Spec

\* However often the tracker is switched off over live allocations and in whatever order the
\* threads get its lock, "current" does not exceed the sum over the tags, and until a call has
\* found it off both are what is allocated: for any number of threads, tags and objects.
THEOREM TagsCover == Spec => []TagsCoverCurrent
<1>1. TrackerInv => TagsCoverCurrent
  <2>1. \A g : OfTag(g) = {o \in Tracker!Recorded : o.tag = g}
    BY DEF OfTag
  <2> QED BY <2>1 DEF TrackerInv, TagsCoverCurrent, Tracker!TagsCoverCurrent
<1> QED BY <1>1, TrackerInvHolds, PTL

-----------------------------------------------------------------------------
(* Aal.                                                                    *)

\* The levels of what the machine has, the highest of which is its level.
LevelsOf(has) ==
  {0} \cup {i \in DOMAIN Arch!Ladder : Arch!Ladder[i] \in has}
      \cup {Arch!OtherSimd[f] : f \in has \cap DOMAIN Arch!OtherSimd}

LEMMA LevelsAre ==
  ASSUME NEW has
  PROVE  /\ Arch!LevelOf(has) \in LevelsOf(has) /\ Arch!LevelOf(has) \in Nat
         /\ \A l \in LevelsOf(has) : l \in Nat /\ l <= Arch!LevelOf(has)
<1>1. LevelsOf(has) \subseteq 0..11
  <2>1. DOMAIN Arch!Ladder = 1..9
    BY DEF Arch!Ladder
  <2>2. \A f \in DOMAIN Arch!OtherSimd : Arch!OtherSimd[f] \in 0..11
    BY DEF Arch!OtherSimd
  <2> QED BY <2>1, <2>2 DEF LevelsOf
<1>2. PICK m \in LevelsOf(has) : \A l \in LevelsOf(has) : l <= m
  <2> DEFINE Below == {11 - l : l \in LevelsOf(has)}
  <2>1. Below \in SUBSET Nat /\ 0 \in LevelsOf(has)
    BY <1>1 DEF LevelsOf
  <2>2. 11 \in Below
    BY <2>1
  <2>3. PICK n \in Below : \A b \in Below : n <= b
    <3> HIDE DEF Below
    <3> QED BY <2>1, <2>2, LeastOf
  <2>4. PICK m \in LevelsOf(has) : n = 11 - m
    BY <2>3
  <2>5. ASSUME NEW l \in LevelsOf(has) PROVE l <= m
    <3>1. n <= 11 - l
      BY <2>3
    <3>2. l \in 0..11 /\ m \in 0..11
      BY <1>1
    <3> QED BY <2>4, <3>1, <3>2
  <2> QED BY <2>5
<1>3. \A x \in LevelsOf(has) : (\A y \in LevelsOf(has) : y <= x) => x = m
  BY <1>1, <1>2
<1>4. Arch!LevelOf(has) = Arch!Max(LevelsOf(has))
  BY DEF Arch!LevelOf, LevelsOf
<1>5. Arch!Max(LevelsOf(has)) = m
  BY <1>2, <1>3, <1>1 DEF Arch!Max
<1> QED BY <1>1, <1>2, <1>4, <1>5

LEMMA LevelGrows ==
  ASSUME NEW a, NEW b, a \subseteq b PROVE Arch!LevelOf(a) <= Arch!LevelOf(b)
<1>1. LevelsOf(a) \subseteq LevelsOf(b)
  BY DEF LevelsOf
<1> QED BY <1>1, LevelsAre

-----------------------------------------------------------------------------
(* The order of aal_init, and until when a thread in it has still to store a field. *)
Rank ==
  [total_ram |-> 1, cpu |-> 2, features |-> 3, leaf7 |-> 4, ladder |-> 5, level |-> 6,
   page |-> 7, memory |-> 8, base |-> 9, base_store |-> 10, numa |-> 11, node |-> 12,
   endian |-> 13, online |-> 14, threads |-> 15, threads_store |-> 16,
   limit |-> 17, one_cpu |-> 18, done |-> 19]

Until ==
  [total_ram |-> 1, arch |-> 2, simd |-> 4, simd_level |-> 6, page_size |-> 8, mem_model |-> 8,
   base_page_size |-> 10, cache |-> 10, node_count |-> 11, node_mem |-> 12, little |-> 13,
   cpu_count |-> 18, online |-> 18, threads |-> 16]

Awaits(place, f) == place \in DOMAIN Rank /\ Rank[place] <= Until[f]
Right(f)         == info[f] = Arch!Detected(machine)[f]

LEMMA FieldsAre ==
  /\ Arch!Field = {"arch", "simd", "simd_level", "page_size", "base_page_size", "mem_model", "cache",
                   "node_count", "node_mem", "little", "cpu_count", "online", "threads", "total_ram"}
  /\ DOMAIN Until = Arch!Field
  /\ \A f \in Arch!Field : Until[f] \in 1..18
  /\ \A p \in DOMAIN Rank : Rank[p] \in 1..19
<1>1. Arch!Field = {"arch", "simd", "simd_level", "page_size", "base_page_size", "mem_model", "cache",
                    "node_count", "node_mem", "little", "cpu_count", "online", "threads", "total_ram"}
  BY DEF Arch!Field, Arch!Cleared
<1>2. DOMAIN Until = Arch!Field
  BY <1>1 DEF Until
<1>3. \A f \in Arch!Field : Until[f] \in 1..18
  BY <1>1 DEF Until
<1>4. \A p \in DOMAIN Rank : Rank[p] \in 1..19
  BY DEF Rank
<1> QED BY <1>1, <1>2, <1>3, <1>4

LEMMA PlacesAre ==
  /\ \A t : Arch!Initializing(t) <=> run[t].at \notin {"idle", "check", "clear", "copy", "copy_rest"}
  /\ \A p \in Arch!Places : p \in DOMAIN Rank <=> p \notin {"idle", "check", "clear", "copy", "copy_rest"}
  /\ DOMAIN Rank \subseteq Arch!Places
<1>1. \A p \in Arch!Places : p \in DOMAIN Rank <=> p \notin {"idle", "check", "clear", "copy", "copy_rest"}
  BY DEF Arch!Places, Rank
<1>2. DOMAIN Rank \subseteq Arch!Places
  BY DEF Arch!Places, Rank
<1> QED BY <1>1, <1>2 DEF Arch!Initializing

ArchCalls == [at : Arch!Places, lazy : BOOLEAN, read : Nat]

\* Thread t goes from one place to another and the fields T may change.
Steps(t, p, q, T) ==
  /\ run[t].at = p /\ run'[t].at = q /\ run'[t].lazy = run[t].lazy
  /\ run' \in [Threads -> ArchCalls]
  /\ \A u \in Threads \ {t} : run'[u] = run[u]
  /\ info' = [f \in Arch!Field |-> info'[f]]
  /\ \A f \in Arch!Field \ T : info'[f] = info[f]

\* What one store does to one field: it still has a store to come, or is right, or is
\* as it was and no store of this thread has become the last.
Settling(t, f) ==
  \/ Awaits(run'[t].at, f)
  \/ Right(f)'
  \/ info'[f] = info[f] /\ machine' = machine /\ ~Awaits(run[t].at, f)

LEMMA SettlingIs ==
  ASSUME NEW t \in Threads, NEW p, NEW q \in DOMAIN Rank, NEW T, Steps(t, p, q, T), machine' = machine,
         NEW f \in Arch!Field,
         IF f \in T THEN Right(f)' \/ Until[f] >= Rank[q]
                    ELSE p \notin DOMAIN Rank \/ Until[f] < Rank[p] \/ Until[f] >= Rank[q]
  PROVE  Settling(t, f)
<1>1. Until[f] \in 1..18 /\ Rank[q] \in 1..19 /\ (p \in DOMAIN Rank => Rank[p] \in 1..19)
  BY FieldsAre
<1>2. run[t].at = p /\ run'[t].at = q /\ (f \notin T => info'[f] = info[f])
  BY DEF Steps
<1>3. CASE Until[f] >= Rank[q]
  BY <1>1, <1>2, <1>3 DEF Settling, Awaits
<1>4. CASE f \in T
  BY <1>3, <1>4 DEF Settling
<1>5. CASE f \notin T
  BY <1>1, <1>2, <1>3, <1>5 DEF Settling, Awaits
<1> QED BY <1>4, <1>5

\* Arch!TypeOK but for the observers.
ArchTypes ==
  /\ machine \in Machines
  /\ info = [f \in Arch!Field |-> info[f]]
  /\ info.simd \subseteq machine.simd /\ info.simd_level \in 0..Arch!LevelOf(machine.simd)
  /\ info.page_size \in Nat /\ info.total_ram \in Nat /\ info.online \in Nat
  /\ info.mem_model \in {"FLAT", Arch!MemModel(machine)} /\ info.cpu_count \in {0, 1, machine.cpus}
  /\ initialized \in BOOLEAN
  /\ run \in [Threads -> ArchCalls]
  /\ \A t \in Threads : run[t].at = "level" => run[t].read <= Arch!LevelOf(machine.simd)

\* The fields that a type is needed of.
LEMMA TypedFields ==
  /\ {"simd", "simd_level", "page_size", "total_ram", "online", "mem_model", "cpu_count"} \subseteq Arch!Field
  /\ {"arch", "base_page_size", "cache", "node_count", "node_mem", "little"} \subseteq Arch!Field
  BY FieldsAre

\* What a thread that nobody disturbs knows at each place.
Late(t) ==
  /\ run[t].at = "leaf7" => machine.simd \ Arch!Leaf7 \subseteq info.simd
  /\ run[t].at = "level" => run[t].read = Arch!LevelOf(machine.simd)
  /\ run[t].at = "base_store" => run[t].read = machine.page_size
  /\ run[t].at = "node" => run[t].read = machine.ram
  /\ run[t].at \in {"online", "threads", "threads_store", "limit", "one_cpu"}
       => info.cpu_count = machine.cpus
  /\ run[t].at \in {"threads", "threads_store", "limit", "one_cpu"} => info.online = machine.online
  /\ run[t].at = "threads_store" => run[t].read = machine.online
  /\ run[t].at = "one_cpu" => Arch!CpuCount(machine.cpus) # machine.cpus

Undisturbed(t) == (\A f \in Arch!Field : Awaits(run[t].at, f) \/ Right(f)) /\ Late(t)

\* Of the flags, those of leaf 1 are stored a statement before those of leaf 7.
Before(place, n) == place \in DOMAIN Rank /\ Rank[place] <= n

FlagsSettle(t, flags, n) ==
  \/ flags \subseteq info'.simd
  \/ Before(run'[t].at, n)
  \/ info.simd \subseteq info'.simd /\ ~Before(run[t].at, n)

CpusSettle(t) ==
  /\ \/ info'.cpu_count \in {1, machine.cpus}
     \/ Before(run'[t].at, 13)
     \/ info'.cpu_count = info.cpu_count /\ ~Before(run[t].at, 13)
  /\ \/ info'.cpu_count \in {1, Arch!CpuCount(machine.cpus)}
     \/ Before(run'[t].at, 18)
     \/ /\ info'.cpu_count = info.cpu_count
        /\ \/ ~Before(run[t].at, 18)
           \/ ~Before(run[t].at, 13) /\ info.cpu_count \notin {1, machine.cpus}

GoodStep(t) ==
  /\ ArchTypes' /\ run[t].at \in DOMAIN Rank /\ run'[t].at \in DOMAIN Rank
  /\ \A u \in Threads \ {t} : run'[u] = run[u]
  /\ \A f \in Arch!Field \ (Arch!Derived \cup {"simd"}) : Settling(t, f)
  /\ Undisturbed(t) => (\A f \in Arch!Field : Settling(t, f)) /\ Late(t)'
  /\ FlagsSettle(t, machine.simd \ Arch!Leaf7, 3) /\ FlagsSettle(t, machine.simd \cap Arch!Leaf7, 4)
  /\ CpusSettle(t)

Passed(f, p, q, T) ==
  IF f \in T THEN Right(f)' \/ Until[f] >= Rank[q]
             ELSE p \notin DOMAIN Rank \/ Until[f] < Rank[p] \/ Until[f] >= Rank[q]

LEMMA GoodStepIs ==
  ASSUME NEW t \in Threads, NEW p \in DOMAIN Rank, NEW q \in DOMAIN Rank, NEW T, Steps(t, p, q, T),
         machine' = machine, ArchTypes',
         \A f \in Arch!Field \ (Arch!Derived \cup {"simd"}) : Passed(f, p, q, T),
         Undisturbed(t) => (\A f \in Arch!Field : Passed(f, p, q, T)) /\ Late(t)',
         machine.simd \ Arch!Leaf7 \subseteq info'.simd \/ Rank[q] <= 3
           \/ (info.simd \subseteq info'.simd /\ Rank[p] > 3),
         machine.simd \cap Arch!Leaf7 \subseteq info'.simd \/ Rank[q] <= 4
           \/ (info.simd \subseteq info'.simd /\ Rank[p] > 4),
         info'.cpu_count \in {1, machine.cpus} \/ Rank[q] <= 13
           \/ (info'.cpu_count = info.cpu_count /\ Rank[p] > 13),
         info'.cpu_count \in {1, Arch!CpuCount(machine.cpus)} \/ Rank[q] <= 18
           \/ (info'.cpu_count = info.cpu_count /\ Rank[p] > 13 /\ info.cpu_count \notin {1, machine.cpus})
  PROVE  GoodStep(t)
<1>1. run[t].at = p /\ run'[t].at = q /\ \A u \in Threads \ {t} : run'[u] = run[u]
  BY DEF Steps
<1>2. \A f \in Arch!Field : Passed(f, p, q, T) => Settling(t, f)
  BY SettlingIs DEF Passed
<1>3. Rank[p] \in 1..19 /\ Rank[q] \in 1..19
  BY FieldsAre
<1>4. FlagsSettle(t, machine.simd \ Arch!Leaf7, 3) /\ FlagsSettle(t, machine.simd \cap Arch!Leaf7, 4)
  BY <1>1, <1>3 DEF FlagsSettle, Before
<1>5. CpusSettle(t)
  BY <1>1, <1>3 DEF CpusSettle, Before
<1> QED BY <1>1, <1>2, <1>4, <1>5 DEF GoodStep

LEMMA GoesIs ==
  ASSUME ArchTypes, NEW t \in Threads, NEW p, NEW q \in Arch!Places, NEW T, Arch!Goes(t, p, q),
         info' = [f \in Arch!Field |-> info'[f]], \A f \in Arch!Field \ T : info'[f] = info[f]
  PROVE  Steps(t, p, q, T) /\ run'[t].read = run[t].read
<1>1. PICK c \in ArchCalls : c = run[t]
  BY DEF ArchTypes
<1>2. PICK d : d = [c EXCEPT !.at = q]
  OBVIOUS
<1>3. d \in ArchCalls /\ d.at = q /\ d.lazy = c.lazy /\ d.read = c.read
  BY <1>2 DEF ArchCalls
<1>4. run[t].at = p /\ run' = [run EXCEPT ![t] = d] /\ run \in [Threads -> ArchCalls]
  BY <1>1, <1>2 DEF Arch!Goes, ArchTypes
<1>5. run' \in [Threads -> ArchCalls] /\ run'[t] = d /\ \A u \in Threads \ {t} : run'[u] = run[u]
  BY <1>3, <1>4
<1> QED BY <1>1, <1>3, <1>4, <1>5 DEF Steps

LEMMA ReadsGo ==
  ASSUME ArchTypes, NEW t \in Threads, NEW p, NEW q \in Arch!Places, NEW V \in SUBSET Nat, NEW T,
         Arch!Reads(t, p, q, V),
         info' = [f \in Arch!Field |-> info'[f]], \A f \in Arch!Field \ T : info'[f] = info[f]
  PROVE  Steps(t, p, q, T) /\ run'[t].read \in V
<1>1. PICK c \in ArchCalls : c = run[t]
  BY DEF ArchTypes
<1>2. PICK v \in V : run' = [run EXCEPT ![t].at = q, ![t].read = v]
  BY DEF Arch!Reads
<1>3. PICK d : d = [c EXCEPT !.at = q, !.read = v]
  OBVIOUS
<1>4. d \in ArchCalls /\ d.at = q /\ d.lazy = c.lazy /\ d.read = v
  BY <1>3 DEF ArchCalls
<1>5. run[t].at = p /\ run' = [run EXCEPT ![t] = d] /\ run \in [Threads -> ArchCalls]
  BY <1>1, <1>2, <1>3 DEF Arch!Reads, ArchTypes
<1>6. run' \in [Threads -> ArchCalls] /\ run'[t] = d /\ \A u \in Threads \ {t} : run'[u] = run[u]
  BY <1>4, <1>5
<1> QED BY <1>1, <1>4, <1>5, <1>6 DEF Steps

LEMMA ReadsIs ==
  ASSUME ArchTypes, NEW t \in Threads, NEW p, NEW q \in Arch!Places, NEW V \in SUBSET Nat,
         Arch!Reads(t, p, q, V), info' = info
  PROVE  Steps(t, p, q, {}) /\ run'[t].read \in V
<1>1. info' = [f \in Arch!Field |-> info'[f]] /\ \A f \in Arch!Field \ {} : info'[f] = info[f]
  BY DEF ArchTypes
<1> QED BY <1>1, ReadsGo

\* The statements that read and store nothing but their own fields.
LEMMA TotalRamStep ==
  ASSUME ArchTypes, NEW t \in Threads, Arch!aal_detect_total_ram(t), machine' = machine
  PROVE  GoodStep(t)
<1>1. /\ Arch!Goes(t, "total_ram", "cpu")
      /\ info' = [info EXCEPT !.total_ram = machine.ram] /\ initialized' = initialized
  BY DEF Arch!aal_detect_total_ram
<1>2. /\ info' = [f \in Arch!Field |-> info'[f]] /\ info'.total_ram = machine.ram
      /\ \A f \in Arch!Field \ {"total_ram"} : info'[f] = info[f]
  BY <1>1, FieldsAre DEF ArchTypes
<1>3. "total_ram" \in DOMAIN Rank /\ "cpu" \in DOMAIN Rank /\ "cpu" \in Arch!Places
  BY PlacesAre DEF Rank
<1>4. Steps(t, "total_ram", "cpu", {"total_ram"}) /\ run'[t].read = run[t].read
  BY <1>1, <1>2, <1>3, GoesIs
<1>5. ArchTypes'
  BY <1>1, <1>2, <1>4, TypedFields, ArchAssumption DEF ArchTypes, Steps
<1>6. \A f \in Arch!Field : Passed(f, "total_ram", "cpu", {"total_ram"})
  <2>1. Right("total_ram")'
    BY <1>2 DEF Right, Arch!Detected
  <2> QED BY <2>1, FieldsAre DEF Passed, Until, Rank
<1>7. Late(t)'
  BY <1>4 DEF Late, Steps
<1> QED BY <1>2, <1>3, <1>4, <1>5, <1>6, <1>7, FieldsAre, GoodStepIs DEF Rank

LEMMA ClearCpuStep ==
  ASSUME ArchTypes, NEW t \in Threads, Arch!ClearCpu(t), machine' = machine
  PROVE  GoodStep(t)
<1>1. /\ Arch!Goes(t, "cpu", "features") /\ initialized' = initialized
      /\ info' = [info EXCEPT !.arch = machine.arch, !.simd = {}, !.simd_level = 0]
  BY DEF Arch!ClearCpu
<1> DEFINE T == {"arch", "simd", "simd_level"}
<1>2. /\ info' = [f \in Arch!Field |-> info'[f]]
      /\ info'.arch = machine.arch /\ info'.simd = {} /\ info'.simd_level = 0
      /\ \A f \in Arch!Field \ T : info'[f] = info[f]
  <2>1. "arch" \in Arch!Field /\ "simd" \in Arch!Field /\ "simd_level" \in Arch!Field
    BY TypedFields
  <2>2. PICK i : i = [info EXCEPT !.arch = machine.arch]
    OBVIOUS
  <2>3. /\ i = [f \in Arch!Field |-> i[f]] /\ i.arch = machine.arch
        /\ \A f \in Arch!Field \ {"arch"} : i[f] = info[f]
    BY <2>1, <2>2 DEF ArchTypes
  <2>4. PICK k : k = [i EXCEPT !.simd = {}]
    OBVIOUS
  <2>5. /\ k = [f \in Arch!Field |-> k[f]] /\ k.simd = {}
        /\ \A f \in Arch!Field \ {"simd"} : k[f] = i[f]
    BY <2>1, <2>3, <2>4
  <2>6. info' = [k EXCEPT !.simd_level = 0]
    BY <1>1, <2>2, <2>4
  <2>7. /\ info' = [f \in Arch!Field |-> info'[f]] /\ info'.simd_level = 0
        /\ \A f \in Arch!Field \ {"simd_level"} : info'[f] = k[f]
    BY <2>1, <2>5, <2>6
  <2> QED BY <2>1, <2>3, <2>5, <2>7
<1>3. "cpu" \in DOMAIN Rank /\ "features" \in DOMAIN Rank /\ "features" \in Arch!Places
  BY PlacesAre DEF Rank
<1>4. Steps(t, "cpu", "features", T)
  BY <1>1, <1>2, <1>3, GoesIs
<1>5. ArchTypes'
  <2>1. initialized' = initialized
    BY <1>1
  <2>2. /\ info'.page_size = info.page_size /\ info'.total_ram = info.total_ram /\ info'.online = info.online
        /\ info'.mem_model = info.mem_model /\ info'.cpu_count = info.cpu_count
    BY <1>2, TypedFields
  <2>3. info'.simd_level \in 0..Arch!LevelOf(machine.simd)
    BY <1>2, LevelsAre
  <2> QED BY <1>2, <1>4, <2>1, <2>2, <2>3 DEF ArchTypes, Steps
<1>6. \A f \in Arch!Field : Passed(f, "cpu", "features", T)
  <2>1. Right("arch")'
    BY <1>2 DEF Right, Arch!Detected
  <2> QED BY <2>1, FieldsAre DEF Passed, Until, Rank
<1>7. Late(t)'
  BY <1>4 DEF Late, Steps
<1>8. Rank["features"] = 3
  BY DEF Rank
<1> QED BY <1>2, <1>3, <1>4, <1>5, <1>6, <1>7, <1>8, FieldsAre, GoodStepIs

LEMMA FeaturesStep ==
  ASSUME ArchTypes, NEW t \in Threads, Arch!Features(t), machine' = machine
  PROVE  GoodStep(t)
<1>1. "features" \in DOMAIN Rank /\ "leaf7" \in DOMAIN Rank /\ "page" \in DOMAIN Rank
      /\ "leaf7" \in Arch!Places /\ "page" \in Arch!Places
  BY PlacesAre DEF Rank
<1>2. Rank["features"] = 3 /\ Rank["leaf7"] = 4 /\ Rank["page"] = 7
  BY DEF Rank
<1>3. CASE machine.arch = "x86_64"
  <2>1. /\ Arch!Goes(t, "features", "leaf7") /\ initialized' = initialized
        /\ info' = [info EXCEPT !.simd = @ \cup (machine.simd \ Arch!Leaf7)]
    BY <1>3 DEF Arch!Features
  <2>2. /\ info' = [f \in Arch!Field |-> info'[f]]
        /\ info'.simd = info.simd \cup (machine.simd \ Arch!Leaf7)
        /\ \A f \in Arch!Field \ {"simd"} : info'[f] = info[f]
    BY <2>1, FieldsAre DEF ArchTypes
  <2>3. Steps(t, "features", "leaf7", {"simd"})
    BY <2>1, <2>2, <1>1, GoesIs
  <2>4. ArchTypes'
    BY <2>1, <2>2, <2>3, TypedFields DEF ArchTypes, Steps
  <2>5. \A f \in Arch!Field : Passed(f, "features", "leaf7", {"simd"})
    BY FieldsAre DEF Passed, Until, Rank
  <2>6. Late(t)'
    BY <2>2, <2>3 DEF Late, Steps
  <2> QED BY <1>1, <1>2, <2>2, <2>3, <2>4, <2>5, <2>6, GoodStepIs
<1>4. CASE machine.arch # "x86_64"
  <2> DEFINE T == {"simd", "simd_level"}
  <2>1. /\ Arch!Goes(t, "features", "page") /\ initialized' = initialized
        /\ info' = [info EXCEPT !.simd = machine.simd, !.simd_level = Arch!LevelOf(machine.simd)]
    BY <1>4 DEF Arch!Features
  <2>2. /\ info' = [f \in Arch!Field |-> info'[f]]
        /\ info'.simd = machine.simd /\ info'.simd_level = Arch!LevelOf(machine.simd)
        /\ \A f \in Arch!Field \ T : info'[f] = info[f]
    <3>1. "simd" \in Arch!Field /\ "simd_level" \in Arch!Field
      BY TypedFields
    <3>2. PICK i : i = [info EXCEPT !.simd = machine.simd]
      OBVIOUS
    <3>3. /\ i = [f \in Arch!Field |-> i[f]] /\ i.simd = machine.simd
          /\ \A f \in Arch!Field \ {"simd"} : i[f] = info[f]
      BY <3>1, <3>2 DEF ArchTypes
    <3>4. info' = [i EXCEPT !.simd_level = Arch!LevelOf(machine.simd)]
      BY <2>1, <3>2
    <3>5. /\ info' = [f \in Arch!Field |-> info'[f]] /\ info'.simd_level = Arch!LevelOf(machine.simd)
          /\ \A f \in Arch!Field \ {"simd_level"} : info'[f] = i[f]
      BY <3>1, <3>3, <3>4
    <3> QED BY <3>1, <3>3, <3>5
  <2>3. Steps(t, "features", "page", T)
    BY <2>1, <2>2, <1>1, GoesIs
  <2>4. ArchTypes'
    <3>1. initialized' = initialized
      BY <2>1
    <3>2. /\ info'.page_size = info.page_size /\ info'.total_ram = info.total_ram /\ info'.online = info.online
          /\ info'.mem_model = info.mem_model /\ info'.cpu_count = info.cpu_count
      BY <2>2, TypedFields
    <3>3. info'.simd_level \in 0..Arch!LevelOf(machine.simd)
      BY <2>2, LevelsAre
    <3> QED BY <2>2, <2>3, <3>1, <3>2, <3>3 DEF ArchTypes, Steps
  <2>5. \A f \in Arch!Field : Passed(f, "features", "page", T)
    <3>1. Right("simd")' /\ Right("simd_level")'
      BY <2>2 DEF Right, Arch!Detected
    <3> QED BY <3>1, FieldsAre DEF Passed, Until, Rank
  <2>6. Late(t)'
    BY <2>3 DEF Late, Steps
  <2> QED BY <1>1, <1>2, <2>2, <2>3, <2>4, <2>5, <2>6, GoodStepIs
<1> QED BY <1>3, <1>4

LEMMA FeaturesLeaf7Step ==
  ASSUME ArchTypes, NEW t \in Threads, Arch!FeaturesLeaf7(t), machine' = machine
  PROVE  GoodStep(t)
<1>1. "leaf7" \in DOMAIN Rank /\ "ladder" \in DOMAIN Rank /\ "ladder" \in Arch!Places
  BY PlacesAre DEF Rank
<1>2. Rank["leaf7"] = 4 /\ Rank["ladder"] = 5
  BY DEF Rank
<1>3. /\ Arch!Goes(t, "leaf7", "ladder") /\ initialized' = initialized
      /\ info' = [info EXCEPT !.simd = @ \cup (machine.simd \cap Arch!Leaf7)]
  BY DEF Arch!FeaturesLeaf7
<1>4. /\ info' = [f \in Arch!Field |-> info'[f]]
      /\ info'.simd = info.simd \cup (machine.simd \cap Arch!Leaf7)
      /\ \A f \in Arch!Field \ {"simd"} : info'[f] = info[f]
  BY <1>3, FieldsAre DEF ArchTypes
<1>5. Steps(t, "leaf7", "ladder", {"simd"})
  BY <1>1, <1>3, <1>4, GoesIs
<1>6. ArchTypes'
  BY <1>3, <1>4, <1>5, TypedFields DEF ArchTypes, Steps
<1>7. \A f \in Arch!Field \ {"simd"} : Passed(f, "leaf7", "ladder", {"simd"})
  BY FieldsAre DEF Passed, Until, Rank
<1>8. Undisturbed(t) => Right("simd")'
  <2>1. Undisturbed(t) => machine.simd \ Arch!Leaf7 \subseteq info.simd
    BY <1>5 DEF Undisturbed, Late, Steps
  <2>2. info.simd \subseteq machine.simd
    BY DEF ArchTypes
  <2>3. Undisturbed(t) => info'.simd = machine.simd
    BY <2>1, <2>2, <1>4
  <2> QED BY <2>3 DEF Right, Arch!Detected
<1>9. Undisturbed(t) => \A f \in Arch!Field : Passed(f, "leaf7", "ladder", {"simd"})
  BY <1>7, <1>8 DEF Passed
<1>10. Late(t)'
  BY <1>5 DEF Late, Steps
<1> QED BY <1>1, <1>2, <1>4, <1>5, <1>6, <1>7, <1>9, <1>10, GoodStepIs

LEMMA ReadFlagsStep ==
  ASSUME ArchTypes, NEW t \in Threads, Arch!ReadFlags(t), machine' = machine
  PROVE  GoodStep(t)
<1>1. "ladder" \in DOMAIN Rank /\ "level" \in DOMAIN Rank /\ "level" \in Arch!Places
  BY PlacesAre DEF Rank
<1>2. Rank["ladder"] = 5 /\ Rank["level"] = 6
  BY DEF Rank
<1> DEFINE V == Arch!Seen(Arch!LevelOf(info.simd), Arch!LevelOf(machine.simd))
<1>3. Arch!Reads(t, "ladder", "level", V) /\ info' = info /\ initialized' = initialized
  BY DEF Arch!ReadFlags
<1>4. V \in SUBSET Nat /\ \A v \in V : v <= Arch!LevelOf(machine.simd)
  <2>1. Arch!LevelOf(info.simd) <= Arch!LevelOf(machine.simd)
    BY LevelGrows DEF ArchTypes
  <2> QED BY <2>1, LevelsAre DEF Arch!Seen
<1>5. Steps(t, "ladder", "level", {}) /\ run'[t].read \in V
  <2> HIDE DEF V
  <2> QED BY <1>1, <1>3, <1>4, ReadsIs
<1>6. ArchTypes'
  <2>1. run'[t].read <= Arch!LevelOf(machine.simd)
    BY <1>4, <1>5
  <2> QED BY <1>3, <2>1, <1>5 DEF ArchTypes, Steps
<1>7. \A f \in Arch!Field : Passed(f, "ladder", "level", {})
  BY FieldsAre DEF Passed, Until, Rank
<1>8. Undisturbed(t) => Late(t)'
  <2>1. ~Awaits("ladder", "simd") /\ "simd" \in Arch!Field
    BY <1>2, FieldsAre DEF Awaits, Until
  <2>2. Undisturbed(t) => Right("simd")
    BY <2>1, <1>5 DEF Undisturbed, Steps
  <2>3. Undisturbed(t) => info.simd = machine.simd
    BY <2>2 DEF Right, Arch!Detected
  <2>4. Undisturbed(t) => run'[t].read = Arch!LevelOf(machine.simd)
    BY <2>3, <1>5 DEF Arch!Seen
  <2> QED BY <2>4, <1>5 DEF Late, Steps
<1> QED BY <1>1, <1>2, <1>3, <1>5, <1>6, <1>7, <1>8, GoodStepIs

LEMMA StoreLevelStep ==
  ASSUME ArchTypes, NEW t \in Threads, Arch!StoreLevel(t), machine' = machine
  PROVE  GoodStep(t)
<1>1. "level" \in DOMAIN Rank /\ "page" \in DOMAIN Rank /\ "page" \in Arch!Places
  BY PlacesAre DEF Rank
<1>2. Rank["level"] = 6 /\ Rank["page"] = 7
  BY DEF Rank
<1>3. /\ Arch!Goes(t, "level", "page") /\ initialized' = initialized
      /\ info' = [info EXCEPT !.simd_level = run[t].read]
  BY DEF Arch!StoreLevel
<1>4. /\ info' = [f \in Arch!Field |-> info'[f]] /\ info'.simd_level = run[t].read
      /\ \A f \in Arch!Field \ {"simd_level"} : info'[f] = info[f]
  BY <1>3, FieldsAre DEF ArchTypes
<1>5. Steps(t, "level", "page", {"simd_level"})
  BY <1>1, <1>3, <1>4, GoesIs
<1>6. ArchTypes'
  <2>1. run[t].read \in Nat /\ run[t].read <= Arch!LevelOf(machine.simd)
    BY <1>5 DEF ArchTypes, ArchCalls, Steps
  <2>2. info'.simd_level \in 0..Arch!LevelOf(machine.simd)
    BY <1>4, <2>1, LevelsAre
  <2> QED BY <1>3, <1>4, <1>5, <2>2, TypedFields DEF ArchTypes, Steps
<1>7. \A f \in Arch!Field \ {"simd_level"} : Passed(f, "level", "page", {"simd_level"})
  BY FieldsAre DEF Passed, Until, Rank
<1>8. Undisturbed(t) => Right("simd_level")'
  <2>1. Undisturbed(t) => run[t].read = Arch!LevelOf(machine.simd)
    BY <1>5 DEF Undisturbed, Late, Steps
  <2> QED BY <2>1, <1>4 DEF Right, Arch!Detected
<1>9. Undisturbed(t) => \A f \in Arch!Field : Passed(f, "level", "page", {"simd_level"})
  BY <1>7, <1>8 DEF Passed
<1>10. Late(t)'
  BY <1>5 DEF Late, Steps
<1>11. \A f \in Arch!Field \ (Arch!Derived \cup {"simd"}) : f # "simd_level"
  BY DEF Arch!Derived
<1> QED BY <1>1, <1>2, <1>4, <1>5, <1>6, <1>7, <1>9, <1>10, <1>11, FieldsAre, GoodStepIs

LEMMA DefaultPageStep ==
  ASSUME ArchTypes, NEW t \in Threads, Arch!DefaultPage(t), machine' = machine
  PROVE  GoodStep(t)
<1> DEFINE T == {"page_size"}
<1>1. "page" \in DOMAIN Rank /\ "memory" \in DOMAIN Rank /\ "memory" \in Arch!Places
  BY PlacesAre DEF Rank
<1>2. Rank["page"] = 7 /\ Rank["memory"] = 8
  BY DEF Rank
<1>3. /\ Arch!Goes(t, "page", "memory") /\ initialized' = initialized
      /\ info' = [info EXCEPT !.page_size = 4096]
  BY DEF Arch!DefaultPage
<1>4. /\ info' = [f \in Arch!Field |-> info'[f]]
      /\ info'.page_size = 4096
      /\ \A f \in Arch!Field \ T : info'[f] = info[f]
  BY <1>3, FieldsAre DEF ArchTypes
<1>5. Steps(t, "page", "memory", T)
  BY <1>1, <1>3, <1>4, GoesIs
<1>6. ArchTypes'
  BY <1>3, <1>4, <1>5, TypedFields, ArchAssumption DEF ArchTypes, Steps
<1>7. \A f \in Arch!Field \ (Arch!Derived \cup {"simd"}) : Passed(f, "page", "memory", T)
  BY FieldsAre DEF Passed, Until, Rank
<1>8. Undisturbed(t) => \A f \in Arch!Field : Passed(f, "page", "memory", T)
  BY FieldsAre DEF Passed, Until, Rank
<1>9. Undisturbed(t) => Late(t)'
  BY <1>5 DEF Late, Steps
<1> QED BY <1>1, <1>2, <1>4, <1>5, <1>6, <1>7, <1>8, <1>9, FieldsAre, GoodStepIs

LEMMA MemoryStep ==
  ASSUME ArchTypes, NEW t \in Threads, Arch!aal_detect_memory(t), machine' = machine
  PROVE  GoodStep(t)
<1> DEFINE T == {"page_size", "mem_model"}
<1>1. "memory" \in DOMAIN Rank /\ "base" \in DOMAIN Rank /\ "base" \in Arch!Places
  BY PlacesAre DEF Rank
<1>2. Rank["memory"] = 8 /\ Rank["base"] = 9
  BY DEF Rank
<1>3. /\ Arch!Goes(t, "memory", "base") /\ initialized' = initialized
      /\ info' = [info EXCEPT !.page_size = machine.page_size,
                            !.mem_model = IF machine.numa_maps THEN "NUMA" ELSE @]
  BY DEF Arch!aal_detect_memory
<1>4. /\ info' = [f \in Arch!Field |-> info'[f]]
      /\ info'.page_size = machine.page_size
      /\ info'.mem_model = Arch!MemModel(machine)
      /\ \A f \in Arch!Field \ T : info'[f] = info[f]
  <2>1. "page_size" \in Arch!Field /\ "mem_model" \in Arch!Field
    BY TypedFields
  <2>2. PICK i : i = [info EXCEPT !.page_size = machine.page_size]
    OBVIOUS
  <2>3. /\ i = [f \in Arch!Field |-> i[f]] /\ i.page_size = machine.page_size
        /\ \A f \in Arch!Field \ {"page_size"} : i[f] = info[f]
    BY <2>1, <2>2 DEF ArchTypes
  <2>4. (IF machine.numa_maps THEN "NUMA" ELSE info.mem_model) = Arch!MemModel(machine)
    BY DEF ArchTypes, Arch!MemModel
  <2>5. info' = [i EXCEPT !.mem_model = Arch!MemModel(machine)]
    BY <1>3, <2>2, <2>4
  <2>6. /\ info' = [f \in Arch!Field |-> info'[f]] /\ info'.mem_model = Arch!MemModel(machine)
        /\ \A f \in Arch!Field \ {"mem_model"} : info'[f] = i[f]
    BY <2>1, <2>3, <2>5
  <2> QED BY <2>1, <2>3, <2>6
<1>5. Steps(t, "memory", "base", T)
  BY <1>1, <1>3, <1>4, GoesIs
<1>6. ArchTypes'
  <2>1. initialized' = initialized
    BY <1>3
  <2>2. /\ info'.simd = info.simd /\ info'.simd_level = info.simd_level /\ info'.total_ram = info.total_ram
        /\ info'.online = info.online /\ info'.cpu_count = info.cpu_count
    BY <1>4, TypedFields
  <2> QED BY <1>4, <1>5, <2>1, <2>2, ArchAssumption DEF ArchTypes, Steps
<1>7. \A f \in Arch!Field \ (Arch!Derived \cup {"simd"}) : Passed(f, "memory", "base", T)
  <2>1. Right("page_size")' /\ Right("mem_model")'
    BY <1>4 DEF Right, Arch!Detected, Arch!MemModel, ArchTypes
  <2> QED BY <2>1, FieldsAre DEF Passed, Until, Rank
<1>8. Undisturbed(t) => \A f \in Arch!Field : Passed(f, "memory", "base", T)
  <2>1. Right("page_size")' /\ Right("mem_model")'
    BY <1>4 DEF Right, Arch!Detected, Arch!MemModel, ArchTypes
  <2> QED BY <2>1, FieldsAre DEF Passed, Until, Rank
<1>9. Undisturbed(t) => Late(t)'
  BY <1>5 DEF Late, Steps
<1> QED BY <1>1, <1>2, <1>4, <1>5, <1>6, <1>7, <1>8, <1>9, FieldsAre, GoodStepIs

LEMMA StoreBasePageStep ==
  ASSUME ArchTypes, NEW t \in Threads, Arch!StoreBasePage(t), machine' = machine
  PROVE  GoodStep(t)
<1> DEFINE T == {"base_page_size", "cache"}
<1>1. "base_store" \in DOMAIN Rank /\ "numa" \in DOMAIN Rank /\ "numa" \in Arch!Places
  BY PlacesAre DEF Rank
<1>2. Rank["base_store"] = 10 /\ Rank["numa"] = 11
  BY DEF Rank
<1>3. /\ Arch!Goes(t, "base_store", "numa") /\ initialized' = initialized
      /\ info' = [info EXCEPT !.base_page_size = run[t].read, !.cache = Arch!CacheLineSize]
  BY DEF Arch!StoreBasePage
<1>4. /\ info' = [f \in Arch!Field |-> info'[f]]
      /\ info'.base_page_size = run[t].read /\ info'.cache = Arch!CacheLineSize
      /\ \A f \in Arch!Field \ T : info'[f] = info[f]
  <2>1. "base_page_size" \in Arch!Field /\ "cache" \in Arch!Field
    BY TypedFields
  <2>2. PICK i : i = [info EXCEPT !.base_page_size = run[t].read]
    OBVIOUS
  <2>3. /\ i = [f \in Arch!Field |-> i[f]] /\ i.base_page_size = run[t].read
        /\ \A f \in Arch!Field \ {"base_page_size"} : i[f] = info[f]
    BY <2>1, <2>2 DEF ArchTypes
  <2>4. info' = [i EXCEPT !.cache = Arch!CacheLineSize]
    BY <1>3, <2>2
  <2>5. /\ info' = [f \in Arch!Field |-> info'[f]] /\ info'.cache = Arch!CacheLineSize
        /\ \A f \in Arch!Field \ {"cache"} : info'[f] = i[f]
    BY <2>1, <2>3, <2>4
  <2> QED BY <2>1, <2>3, <2>5
<1>5. Steps(t, "base_store", "numa", T)
  BY <1>1, <1>3, <1>4, GoesIs
<1>6. ArchTypes'
  <2>1. initialized' = initialized
    BY <1>3
  <2>2. /\ info'.simd = info.simd /\ info'.simd_level = info.simd_level /\ info'.page_size = info.page_size
        /\ info'.total_ram = info.total_ram /\ info'.online = info.online /\ info'.mem_model = info.mem_model
        /\ info'.cpu_count = info.cpu_count
    BY <1>4, TypedFields
  <2> QED BY <1>4, <1>5, <2>1, <2>2, ArchAssumption DEF ArchTypes, Steps
<1>7. \A f \in Arch!Field \ (Arch!Derived \cup {"simd"}) : Passed(f, "base_store", "numa", T)
  <2>1. Right("cache")'
    BY <1>4 DEF Right, Arch!Detected
  <2> QED BY <2>1, FieldsAre DEF Passed, Until, Rank, Arch!Derived
<1>8. Undisturbed(t) => \A f \in Arch!Field : Passed(f, "base_store", "numa", T)
  <2>1. Right("cache")'
    BY <1>4 DEF Right, Arch!Detected
  <2>2. Undisturbed(t) => run[t].read = machine.page_size
    BY <1>5 DEF Undisturbed, Late, Steps
  <2>3. Undisturbed(t) => Right("base_page_size")'
    BY <2>2, <1>4 DEF Right, Arch!Detected
  <2> QED BY <2>1, <2>3, FieldsAre DEF Passed, Until, Rank
<1>9. Undisturbed(t) => Late(t)'
  BY <1>5 DEF Late, Steps
<1> QED BY <1>1, <1>2, <1>4, <1>5, <1>6, <1>7, <1>8, <1>9, FieldsAre, GoodStepIs

LEMMA NumaStep ==
  ASSUME ArchTypes, NEW t \in Threads, Arch!aal_detect_numa(t), machine' = machine
  PROVE  GoodStep(t)
<1> DEFINE T == {"node_mem", "node_count"}
<1>1. "node" \in DOMAIN Rank /\ "endian" \in DOMAIN Rank /\ "endian" \in Arch!Places
  BY PlacesAre DEF Rank
<1>2. Rank["node"] = 12 /\ Rank["endian"] = 13
  BY DEF Rank
<1>3. /\ Arch!Goes(t, "node", "endian") /\ initialized' = initialized
      /\ info' = [info EXCEPT !.node_mem = Arch!NodeZeroMemory(run[t].read), !.node_count = 1]
  BY DEF Arch!aal_detect_numa
<1>4. /\ info' = [f \in Arch!Field |-> info'[f]]
      /\ info'.node_mem = Arch!NodeZeroMemory(run[t].read) /\ info'.node_count = 1
      /\ \A f \in Arch!Field \ T : info'[f] = info[f]
  <2>1. "node_mem" \in Arch!Field /\ "node_count" \in Arch!Field
    BY TypedFields
  <2>2. PICK i : i = [info EXCEPT !.node_mem = Arch!NodeZeroMemory(run[t].read)]
    OBVIOUS
  <2>3. /\ i = [f \in Arch!Field |-> i[f]] /\ i.node_mem = Arch!NodeZeroMemory(run[t].read)
        /\ \A f \in Arch!Field \ {"node_mem"} : i[f] = info[f]
    BY <2>1, <2>2 DEF ArchTypes
  <2>4. info' = [i EXCEPT !.node_count = 1]
    BY <1>3, <2>2
  <2>5. /\ info' = [f \in Arch!Field |-> info'[f]] /\ info'.node_count = 1
        /\ \A f \in Arch!Field \ {"node_count"} : info'[f] = i[f]
    BY <2>1, <2>3, <2>4
  <2> QED BY <2>1, <2>3, <2>5
<1>5. Steps(t, "node", "endian", T)
  BY <1>1, <1>3, <1>4, GoesIs
<1>6. ArchTypes'
  <2>1. initialized' = initialized
    BY <1>3
  <2>2. /\ info'.simd = info.simd /\ info'.simd_level = info.simd_level /\ info'.page_size = info.page_size
        /\ info'.total_ram = info.total_ram /\ info'.online = info.online /\ info'.mem_model = info.mem_model
        /\ info'.cpu_count = info.cpu_count
    BY <1>4, TypedFields
  <2> QED BY <1>4, <1>5, <2>1, <2>2, ArchAssumption DEF ArchTypes, Steps
<1>7. \A f \in Arch!Field \ (Arch!Derived \cup {"simd"}) : Passed(f, "node", "endian", T)
  <2>1. Right("node_count")'
    BY <1>4 DEF Right, Arch!Detected
  <2> QED BY <2>1, FieldsAre DEF Passed, Until, Rank, Arch!Derived
<1>8. Undisturbed(t) => \A f \in Arch!Field : Passed(f, "node", "endian", T)
  <2>1. Right("node_count")'
    BY <1>4 DEF Right, Arch!Detected
  <2>2. Undisturbed(t) => run[t].read = machine.ram
    BY <1>5 DEF Undisturbed, Late, Steps
  <2>3. Undisturbed(t) => Right("node_mem")'
    BY <2>2, <1>4 DEF Right, Arch!Detected
  <2> QED BY <2>1, <2>3, FieldsAre DEF Passed, Until, Rank
<1>9. Undisturbed(t) => Late(t)'
  BY <1>5 DEF Late, Steps
<1> QED BY <1>1, <1>2, <1>4, <1>5, <1>6, <1>7, <1>8, <1>9, FieldsAre, GoodStepIs

LEMMA EndianStep ==
  ASSUME ArchTypes, NEW t \in Threads, Arch!aal_detect_endian(t), machine' = machine
  PROVE  GoodStep(t)
<1> DEFINE T == {"little", "cpu_count"}
<1>1. "endian" \in DOMAIN Rank /\ "online" \in DOMAIN Rank /\ "online" \in Arch!Places
  BY PlacesAre DEF Rank
<1>2. Rank["endian"] = 13 /\ Rank["online"] = 14
  BY DEF Rank
<1>3. /\ Arch!Goes(t, "endian", "online") /\ initialized' = initialized
      /\ info' = [info EXCEPT !.little = machine.little, !.cpu_count = machine.cpus]
  BY DEF Arch!aal_detect_endian
<1>4. /\ info' = [f \in Arch!Field |-> info'[f]]
      /\ info'.little = machine.little /\ info'.cpu_count = machine.cpus
      /\ \A f \in Arch!Field \ T : info'[f] = info[f]
  <2>1. "little" \in Arch!Field /\ "cpu_count" \in Arch!Field
    BY TypedFields
  <2>2. PICK i : i = [info EXCEPT !.little = machine.little]
    OBVIOUS
  <2>3. /\ i = [f \in Arch!Field |-> i[f]] /\ i.little = machine.little
        /\ \A f \in Arch!Field \ {"little"} : i[f] = info[f]
    BY <2>1, <2>2 DEF ArchTypes
  <2>4. info' = [i EXCEPT !.cpu_count = machine.cpus]
    BY <1>3, <2>2
  <2>5. /\ info' = [f \in Arch!Field |-> info'[f]] /\ info'.cpu_count = machine.cpus
        /\ \A f \in Arch!Field \ {"cpu_count"} : info'[f] = i[f]
    BY <2>1, <2>3, <2>4
  <2> QED BY <2>1, <2>3, <2>5
<1>5. Steps(t, "endian", "online", T)
  BY <1>1, <1>3, <1>4, GoesIs
<1>6. ArchTypes'
  <2>1. initialized' = initialized
    BY <1>3
  <2>2. /\ info'.simd = info.simd /\ info'.simd_level = info.simd_level /\ info'.page_size = info.page_size
        /\ info'.total_ram = info.total_ram /\ info'.online = info.online /\ info'.mem_model = info.mem_model
    BY <1>4, TypedFields
  <2> QED BY <1>4, <1>5, <2>1, <2>2, ArchAssumption DEF ArchTypes, Steps
<1>7. \A f \in Arch!Field \ (Arch!Derived \cup {"simd"}) : Passed(f, "endian", "online", T)
  <2>1. Right("little")'
    BY <1>4 DEF Right, Arch!Detected
  <2> QED BY <2>1, FieldsAre DEF Passed, Until, Rank
<1>8. Undisturbed(t) => \A f \in Arch!Field : Passed(f, "endian", "online", T)
  <2>1. Right("little")'
    BY <1>4 DEF Right, Arch!Detected
  <2> QED BY <2>1, FieldsAre DEF Passed, Until, Rank
<1>9. Undisturbed(t) => Late(t)'
  BY <1>4, <1>5 DEF Late, Steps
<1> QED BY <1>1, <1>2, <1>4, <1>5, <1>6, <1>7, <1>8, <1>9, FieldsAre, GoodStepIs

LEMMA StoreOnlineStep ==
  ASSUME ArchTypes, NEW t \in Threads, Arch!StoreOnline(t), machine' = machine
  PROVE  GoodStep(t)
<1> DEFINE T == {"online"}
<1>1. "online" \in DOMAIN Rank /\ "threads" \in DOMAIN Rank /\ "threads" \in Arch!Places
  BY PlacesAre DEF Rank
<1>2. Rank["online"] = 14 /\ Rank["threads"] = 15
  BY DEF Rank
<1>3. /\ Arch!Goes(t, "online", "threads") /\ initialized' = initialized
      /\ info' = [info EXCEPT !.online = machine.online]
  BY DEF Arch!StoreOnline
<1>4. /\ info' = [f \in Arch!Field |-> info'[f]]
      /\ info'.online = machine.online
      /\ \A f \in Arch!Field \ T : info'[f] = info[f]
  BY <1>3, FieldsAre DEF ArchTypes
<1>5. Steps(t, "online", "threads", T)
  BY <1>1, <1>3, <1>4, GoesIs
<1>6. ArchTypes'
  BY <1>3, <1>4, <1>5, TypedFields, ArchAssumption DEF ArchTypes, Steps
<1>7. \A f \in Arch!Field \ (Arch!Derived \cup {"simd"}) : Passed(f, "online", "threads", T)
  BY FieldsAre DEF Passed, Until, Rank
<1>8. Undisturbed(t) => \A f \in Arch!Field : Passed(f, "online", "threads", T)
  BY FieldsAre DEF Passed, Until, Rank
<1>9. Undisturbed(t) => Late(t)'
  BY <1>4, <1>5, FieldsAre DEF Late, Steps, Undisturbed
<1> QED BY <1>1, <1>2, <1>4, <1>5, <1>6, <1>7, <1>8, <1>9, FieldsAre, GoodStepIs

\* thread_count is what was read of the online CPUs.
LEMMA ReadOnlineStep ==
  ASSUME ArchTypes, NEW t \in Threads, Arch!ReadOnline(t), machine' = machine
  PROVE  GoodStep(t)
<1>1. "threads" \in DOMAIN Rank /\ "threads_store" \in DOMAIN Rank /\ "threads_store" \in Arch!Places
  BY PlacesAre DEF Rank
<1>2. Rank["threads"] = 15 /\ Rank["threads_store"] = 16
  BY DEF Rank
<1> DEFINE V == Arch!Seen(info.online, machine.online)
<1>3. Arch!Reads(t, "threads", "threads_store", V) /\ info' = info /\ initialized' = initialized
  BY DEF Arch!ReadOnline
<1>4. V \in SUBSET Nat
  BY ArchAssumption DEF Arch!Seen, ArchTypes
<1>5. Steps(t, "threads", "threads_store", {}) /\ run'[t].read \in V
  <2> HIDE DEF V
  <2> QED BY <1>1, <1>3, <1>4, ReadsIs
<1>6. ArchTypes'
  BY <1>3, <1>5 DEF ArchTypes, Steps
<1>7. \A f \in Arch!Field : Passed(f, "threads", "threads_store", {})
  BY FieldsAre DEF Passed, Until, Rank
<1>8. Undisturbed(t) => Late(t)'
  <2>1. Undisturbed(t) => info.online = machine.online
    BY <1>5 DEF Undisturbed, Late, Steps
  <2>2. Undisturbed(t) => run'[t].read = machine.online
    BY <2>1, <1>5 DEF Arch!Seen
  <2> QED BY <2>1, <2>2, <1>3, <1>5 DEF Undisturbed, Late, Steps
<1> QED BY <1>1, <1>2, <1>3, <1>5, <1>6, <1>7, <1>8, GoodStepIs

LEMMA StoreThreadsStep ==
  ASSUME ArchTypes, NEW t \in Threads, Arch!StoreThreads(t), machine' = machine
  PROVE  GoodStep(t)
<1> DEFINE T == {"threads"}
<1>1. "threads_store" \in DOMAIN Rank /\ "limit" \in DOMAIN Rank /\ "limit" \in Arch!Places
  BY PlacesAre DEF Rank
<1>2. Rank["threads_store"] = 16 /\ Rank["limit"] = 17
  BY DEF Rank
<1>3. /\ Arch!Goes(t, "threads_store", "limit") /\ initialized' = initialized
      /\ info' = [info EXCEPT !.threads = run[t].read]
  BY DEF Arch!StoreThreads
<1>4. /\ info' = [f \in Arch!Field |-> info'[f]]
      /\ info'.threads = run[t].read
      /\ \A f \in Arch!Field \ T : info'[f] = info[f]
  BY <1>3, FieldsAre DEF ArchTypes
<1>5. Steps(t, "threads_store", "limit", T)
  BY <1>1, <1>3, <1>4, GoesIs
<1>6. ArchTypes'
  BY <1>3, <1>4, <1>5, TypedFields, ArchAssumption DEF ArchTypes, Steps
<1>7. \A f \in Arch!Field \ (Arch!Derived \cup {"simd"}) : Passed(f, "threads_store", "limit", T)
  BY FieldsAre DEF Passed, Until, Rank, Arch!Derived
<1>8. Undisturbed(t) => \A f \in Arch!Field : Passed(f, "threads_store", "limit", T)
  <2>1. Undisturbed(t) => run[t].read = machine.online
    BY <1>5 DEF Undisturbed, Late, Steps
  <2>2. Undisturbed(t) => Right("threads")'
    BY <2>1, <1>4 DEF Right, Arch!Detected
  <2> QED BY <2>2, FieldsAre DEF Passed, Until, Rank
<1>9. Undisturbed(t) => Late(t)'
  BY <1>4, <1>5, FieldsAre DEF Late, Steps, Undisturbed
<1> QED BY <1>1, <1>2, <1>4, <1>5, <1>6, <1>7, <1>8, <1>9, FieldsAre, GoodStepIs

LEMMA StoreOneCpuStep ==
  ASSUME ArchTypes, NEW t \in Threads, Arch!StoreOneCpu(t), machine' = machine
  PROVE  GoodStep(t)
<1> DEFINE T == {"cpu_count", "online"}
<1>1. "one_cpu" \in DOMAIN Rank /\ "done" \in DOMAIN Rank /\ "done" \in Arch!Places
  BY PlacesAre DEF Rank
<1>2. Rank["one_cpu"] = 18 /\ Rank["done"] = 19
  BY DEF Rank
<1>3. /\ Arch!Goes(t, "one_cpu", "done") /\ initialized' = initialized
      /\ info' = [info EXCEPT !.cpu_count = 1, !.online = 1]
  BY DEF Arch!StoreOneCpu
<1>4. /\ info' = [f \in Arch!Field |-> info'[f]]
      /\ info'.cpu_count = 1 /\ info'.online = 1
      /\ \A f \in Arch!Field \ T : info'[f] = info[f]
  <2>1. "cpu_count" \in Arch!Field /\ "online" \in Arch!Field
    BY TypedFields
  <2>2. PICK i : i = [info EXCEPT !.cpu_count = 1]
    OBVIOUS
  <2>3. /\ i = [f \in Arch!Field |-> i[f]] /\ i.cpu_count = 1
        /\ \A f \in Arch!Field \ {"cpu_count"} : i[f] = info[f]
    BY <2>1, <2>2 DEF ArchTypes
  <2>4. info' = [i EXCEPT !.online = 1]
    BY <1>3, <2>2
  <2>5. /\ info' = [f \in Arch!Field |-> info'[f]] /\ info'.online = 1
        /\ \A f \in Arch!Field \ {"online"} : info'[f] = i[f]
    BY <2>1, <2>3, <2>4
  <2> QED BY <2>1, <2>3, <2>5
<1>5. Steps(t, "one_cpu", "done", T)
  BY <1>1, <1>3, <1>4, GoesIs
<1>6. ArchTypes'
  <2>1. initialized' = initialized
    BY <1>3
  <2>2. /\ info'.simd = info.simd /\ info'.simd_level = info.simd_level /\ info'.page_size = info.page_size
        /\ info'.total_ram = info.total_ram /\ info'.mem_model = info.mem_model
    BY <1>4, TypedFields
  <2> QED BY <1>4, <1>5, <2>1, <2>2, ArchAssumption DEF ArchTypes, Steps
<1>7. \A f \in Arch!Field \ (Arch!Derived \cup {"simd"}) : Passed(f, "one_cpu", "done", T)
  BY FieldsAre DEF Passed, Until, Rank, Arch!Derived
<1>8. Undisturbed(t) => \A f \in Arch!Field : Passed(f, "one_cpu", "done", T)
  <2>1. Undisturbed(t) => Arch!CpuCount(machine.cpus) # machine.cpus
    BY <1>5 DEF Undisturbed, Late, Steps
  <2>2. Undisturbed(t) => Arch!CpuCount(machine.cpus) = 1
    BY <2>1 DEF Arch!CpuCount
  <2>3. Undisturbed(t) => Right("cpu_count")' /\ Right("online")'
    BY <2>1, <2>2, <1>4 DEF Right, Arch!Detected
  <2> QED BY <2>3, FieldsAre DEF Passed, Until, Rank
<1>9. Undisturbed(t) => Late(t)'
  BY <1>5 DEF Late, Steps
<1> QED BY <1>1, <1>2, <1>4, <1>5, <1>6, <1>7, <1>8, <1>9, FieldsAre, GoodStepIs

LEMMA ReadPageSizeStep ==
  ASSUME ArchTypes, NEW t \in Threads, Arch!ReadPageSize(t), machine' = machine
  PROVE  GoodStep(t)
<1>1. "base" \in DOMAIN Rank /\ "base_store" \in DOMAIN Rank /\ "base_store" \in Arch!Places
  BY PlacesAre DEF Rank
<1>2. Rank["base"] = 9 /\ Rank["base_store"] = 10
  BY DEF Rank
<1> DEFINE V == Arch!Seen(info.page_size, machine.page_size)
<1>3. Arch!Reads(t, "base", "base_store", V) /\ info' = info /\ initialized' = initialized
  BY DEF Arch!ReadPageSize
<1>4. V \in SUBSET Nat
  BY ArchAssumption DEF Arch!Seen, ArchTypes
<1>5. Steps(t, "base", "base_store", {}) /\ run'[t].read \in V
  <2> HIDE DEF V
  <2> QED BY <1>1, <1>3, <1>4, ReadsIs
<1>6. ArchTypes'
  BY <1>3, <1>5 DEF ArchTypes, Steps
<1>7. \A f \in Arch!Field : Passed(f, "base", "base_store", {})
  BY FieldsAre DEF Passed, Until, Rank
<1>8. Undisturbed(t) => Late(t)'
  <2>1. ~Awaits("base", "page_size") /\ "page_size" \in Arch!Field
    BY <1>2, FieldsAre DEF Awaits, Until
  <2>2. Undisturbed(t) => Right("page_size")
    BY <2>1, <1>5 DEF Undisturbed, Steps
  <2>3. Undisturbed(t) => run'[t].read = machine.page_size
    BY <2>2, <1>5 DEF Right, Arch!Detected, Arch!Seen
  <2> QED BY <2>3, <1>5 DEF Late, Steps
<1> QED BY <1>1, <1>2, <1>3, <1>5, <1>6, <1>7, <1>8, GoodStepIs

LEMMA ClearNodesStep ==
  ASSUME ArchTypes, NEW t \in Threads, Arch!ClearNodes(t), machine' = machine
  PROVE  GoodStep(t)
<1> DEFINE T == {"node_count", "node_mem"}
<1>1. "numa" \in DOMAIN Rank /\ "node" \in DOMAIN Rank /\ "node" \in Arch!Places
  BY PlacesAre DEF Rank
<1>2. Rank["numa"] = 11 /\ Rank["node"] = 12
  BY DEF Rank
<1> DEFINE V == Arch!Seen(info.total_ram, machine.ram)
<1>3. /\ Arch!Reads(t, "numa", "node", V) /\ initialized' = initialized
      /\ info' = [info EXCEPT !.node_count = 1, !.node_mem = 0]
  BY DEF Arch!ClearNodes
<1>4. V \in SUBSET Nat
  BY ArchAssumption DEF Arch!Seen, ArchTypes
<1>5. /\ info' = [f \in Arch!Field |-> info'[f]] /\ info'.node_count = 1
      /\ \A f \in Arch!Field \ T : info'[f] = info[f]
  <2>1. "node_count" \in Arch!Field /\ "node_mem" \in Arch!Field
    BY TypedFields
  <2>2. PICK i : i = [info EXCEPT !.node_count = 1]
    OBVIOUS
  <2>3. /\ i = [f \in Arch!Field |-> i[f]] /\ i.node_count = 1
        /\ \A f \in Arch!Field \ {"node_count"} : i[f] = info[f]
    BY <2>1, <2>2 DEF ArchTypes
  <2>4. info' = [i EXCEPT !.node_mem = 0]
    BY <1>3, <2>2
  <2>5. /\ info' = [f \in Arch!Field |-> info'[f]] /\ info'.node_mem = 0
        /\ \A f \in Arch!Field \ {"node_mem"} : info'[f] = i[f]
    BY <2>1, <2>3, <2>4
  <2> QED BY <2>1, <2>3, <2>5
<1>6. Steps(t, "numa", "node", T) /\ run'[t].read \in V
  <2> HIDE DEF V, T
  <2> QED BY <1>1, <1>3, <1>4, <1>5, ReadsGo
<1>7. ArchTypes'
  <2>1. initialized' = initialized
    BY <1>3
  <2>2. /\ info'.simd = info.simd /\ info'.simd_level = info.simd_level /\ info'.page_size = info.page_size
        /\ info'.total_ram = info.total_ram /\ info'.online = info.online /\ info'.mem_model = info.mem_model
        /\ info'.cpu_count = info.cpu_count
    BY <1>5, TypedFields
  <2> QED BY <1>6, <2>1, <2>2, <1>5 DEF ArchTypes, Steps
<1>8. \A f \in Arch!Field : Passed(f, "numa", "node", T)
  <2>1. Right("node_count")'
    BY <1>5 DEF Right, Arch!Detected
  <2> QED BY <2>1, FieldsAre DEF Passed, Until, Rank
<1>9. Undisturbed(t) => Late(t)'
  <2>1. ~Awaits("numa", "total_ram") /\ "total_ram" \in Arch!Field
    BY <1>2, FieldsAre DEF Awaits, Until
  <2>2. Undisturbed(t) => Right("total_ram")
    BY <2>1, <1>6 DEF Undisturbed, Steps
  <2>3. Undisturbed(t) => run'[t].read = machine.ram
    BY <2>2, <1>6 DEF Right, Arch!Detected, Arch!Seen
  <2> QED BY <2>3, <1>6 DEF Late, Steps
<1> QED BY <1>1, <1>2, <1>5, <1>6, <1>7, <1>8, <1>9, FieldsAre, GoodStepIs

\* What the limit makes of the count that it sees.
LEMMA LimitCpusStep ==
  ASSUME ArchTypes, NEW t \in Threads, Arch!LimitCpus(t), machine' = machine
  PROVE  GoodStep(t)
<1>1. /\ "limit" \in DOMAIN Rank /\ "one_cpu" \in DOMAIN Rank /\ "done" \in DOMAIN Rank
      /\ "one_cpu" \in Arch!Places /\ "done" \in Arch!Places
  BY PlacesAre DEF Rank
<1>2. Rank["limit"] = 17 /\ Rank["one_cpu"] = 18 /\ Rank["done"] = 19
  BY DEF Rank
<1>3. PICK n \in {info.cpu_count, machine.cpus} :
        run' = [run EXCEPT ![t].at = IF Arch!CpuCount(n) # n THEN "one_cpu" ELSE "done"]
  BY DEF Arch!LimitCpus, Arch!Seen
<1>4. run[t].at = "limit" /\ info' = info /\ initialized' = initialized
  BY DEF Arch!LimitCpus
<1>5. \A T : /\ info' = [f \in Arch!Field |-> info'[f]]
             /\ \A f \in Arch!Field \ T : info'[f] = info[f]
  BY <1>4 DEF ArchTypes
<1>6. Undisturbed(t) => n = machine.cpus /\ info.cpu_count = machine.cpus /\ info.online = machine.online
  BY <1>3, <1>4 DEF Undisturbed, Late
<1>7. CASE Arch!CpuCount(n) # n
  <2>1. Arch!Goes(t, "limit", "one_cpu")
    BY <1>3, <1>4, <1>7 DEF Arch!Goes
  <2>2. Steps(t, "limit", "one_cpu", {})
    BY <2>1, <1>1, <1>5, GoesIs
  <2>3. ArchTypes'
    BY <1>4, <2>2 DEF ArchTypes, Steps
  <2>4. \A f \in Arch!Field : Passed(f, "limit", "one_cpu", {})
    BY FieldsAre DEF Passed, Until, Rank
  <2>5. Undisturbed(t) => Late(t)'
    BY <1>4, <1>6, <1>7, <2>2 DEF Late, Steps
  <2> QED BY <1>1, <1>2, <1>4, <2>2, <2>3, <2>4, <2>5, GoodStepIs
<1>8. CASE Arch!CpuCount(n) = n
  <2> DEFINE T == {"cpu_count", "online"}
  <2>1. Arch!Goes(t, "limit", "done")
    BY <1>3, <1>4, <1>8 DEF Arch!Goes
  <2>2. Steps(t, "limit", "done", T)
    <3> HIDE DEF T
    <3> QED BY <2>1, <1>1, <1>5, GoesIs
  <2>3. ArchTypes'
    BY <1>4, <2>2 DEF ArchTypes, Steps
  <2>4. \A f \in Arch!Field \ (Arch!Derived \cup {"simd"}) : Passed(f, "limit", "done", T)
    BY FieldsAre DEF Passed, Until, Rank, Arch!Derived
  <2>5. Undisturbed(t) => \A f \in Arch!Field : Passed(f, "limit", "done", T)
    <3>1. Undisturbed(t) => Right("cpu_count")' /\ Right("online")'
      BY <1>4, <1>6, <1>8 DEF Right, Arch!Detected
    <3> QED BY <3>1, FieldsAre DEF Passed, Until, Rank
  <2>6. Late(t)'
    BY <2>2 DEF Late, Steps
  <2>7. \/ info.cpu_count \in {1, Arch!CpuCount(machine.cpus)}
        \/ info.cpu_count \notin {1, machine.cpus}
    BY <1>3, <1>8
  <2> QED BY <1>1, <1>2, <1>4, <2>2, <2>3, <2>4, <2>5, <2>6, <2>7, GoodStepIs
<1> QED BY <1>7, <1>8

-----------------------------------------------------------------------------
\* Nobody has described the machine yet, or nobody since it was shut down.
Fresh == ~initialized /\ \A t \in Threads : ~Arch!Inside(t)

\* What is not as it should be, some thread has still to store, however calls overlap.
Awaited(f)          == \E u \in Threads : Awaits(run[u].at, f)
FlagsCome(flags, n) == flags \subseteq info.simd \/ \E u \in Threads : Before(run[u].at, n)

Settled ==
  /\ \A f \in Arch!Field \ (Arch!Derived \cup {"simd"}) : Right(f) \/ Awaited(f)
  /\ FlagsCome(machine.simd \ Arch!Leaf7, 3) /\ FlagsCome(machine.simd \cap Arch!Leaf7, 4)
  /\ info.cpu_count \in {1, machine.cpus} \/ \E u \in Threads : Before(run[u].at, 13)
  /\ info.cpu_count \in {1, Arch!CpuCount(machine.cpus)} \/ \E u \in Threads : Before(run[u].at, 18)

\* What holds in addition while no two calls have overlapped.
Alone ==
  /\ ~Arch!Overlap
  /\ \A t \in Threads : Arch!Initializing(t) => Undisturbed(t)
  /\ (\A t \in Threads : ~Arch!Initializing(t)) => Fresh \/ \A f \in Arch!Field : Right(f)
  /\ \A t \in Threads : ~misled[t]

ArchInv ==
  /\ ArchTypes /\ overlapped \in BOOLEAN /\ misled \in [Threads -> BOOLEAN]
  /\ Fresh \/ Settled
  /\ overlapped \/ Alone

\* A thread that has a field to store is initializing, and one that is initializing is inside.
LEMMA WhereThreadsAre ==
  /\ \A t : Arch!Initializing(t) => Arch!Inside(t)
  /\ \A t : run[t].at \in DOMAIN Rank => Arch!Initializing(t)
  /\ \A t : run[t].at \in Arch!Places /\ Arch!Initializing(t) => run[t].at \in DOMAIN Rank
  /\ \A p, f : Awaits(p, f) => p \in DOMAIN Rank
  /\ \A p, n : Before(p, n) => p \in DOMAIN Rank
<1>1. \A t : Arch!Initializing(t) => Arch!Inside(t)
  BY DEF Arch!Initializing, Arch!Inside
<1>2. \A t : run[t].at \in DOMAIN Rank => Arch!Initializing(t)
  BY DEF Arch!Initializing, Rank
<1>3. \A t : run[t].at \in Arch!Places /\ Arch!Initializing(t) => run[t].at \in DOMAIN Rank
  BY PlacesAre
<1> QED BY <1>1, <1>2, <1>3 DEF Awaits, Before

LEMMA GoodKeeps ==
  ASSUME ArchInv, NEW t \in Threads, GoodStep(t), machine' = machine, misled' = misled,
         overlapped' = (overlapped \/ Arch!Overlap \/ Arch!Overlap')
  PROVE  ArchInv'
<1>1. Arch!Initializing(t) /\ Arch!Initializing(t)' /\ Arch!Inside(t) /\ Arch!Inside(t)'
  <2>1. run[t].at \in DOMAIN Rank /\ run'[t].at \in DOMAIN Rank
    BY DEF GoodStep
  <2> QED BY <2>1, WhereThreadsAre DEF Arch!Initializing, Arch!Inside, Rank
<1>2. \A u \in Threads \ {t} : run'[u] = run[u]
  BY DEF GoodStep
<1>3. Settled
  BY <1>1 DEF ArchInv, Fresh
<1>4. ASSUME NEW f \in Arch!Field \ (Arch!Derived \cup {"simd"}) PROVE (Right(f) \/ Awaited(f))'
  <2>1. Settling(t, f)
    BY DEF GoodStep
  <2>2. Right(f) \/ \E u \in Threads : Awaits(run[u].at, f)
    BY <1>3 DEF Settled, Awaited
  <2>3. CASE Awaits(run'[t].at, f)
    BY <2>3 DEF Awaited, Awaits
  <2>4. CASE Right(f)'
    BY <2>4
  <2>5. CASE info'[f] = info[f] /\ ~Awaits(run[t].at, f)
    <3>1. CASE Right(f)
      BY <2>5, <3>1 DEF Right, Arch!Detected
    <3>2. CASE \E u \in Threads : Awaits(run[u].at, f)
      <4>1. PICK u \in Threads : Awaits(run[u].at, f)
        BY <3>2
      <4>2. run'[u] = run[u]
        BY <1>2, <2>5, <4>1
      <4> QED BY <4>1, <4>2 DEF Awaited, Awaits
    <3> QED BY <2>2, <3>1, <3>2
  <2> QED BY <2>1, <2>3, <2>4, <2>5 DEF Settling
<1>5. ASSUME NEW n, \E u \in Threads : Before(run[u].at, n), ~Before(run[t].at, n)
      PROVE  \E u \in Threads : Before(run'[u].at, n)
  <2>1. PICK u \in Threads : Before(run[u].at, n)
    BY <1>5
  <2>2. run'[u] = run[u]
    BY <1>2, <1>5, <2>1
  <2> QED BY <2>1, <2>2
<1>6. ASSUME NEW flags, NEW n, FlagsCome(flags, n), FlagsSettle(t, flags, n)
      PROVE  flags \subseteq info'.simd \/ \E u \in Threads : Before(run'[u].at, n)
  BY <1>5, <1>6 DEF FlagsCome, FlagsSettle
<1>7. FlagsCome(machine.simd \ Arch!Leaf7, 3)' /\ FlagsCome(machine.simd \cap Arch!Leaf7, 4)'
  <2>1. FlagsCome(machine.simd \ Arch!Leaf7, 3) /\ FlagsCome(machine.simd \cap Arch!Leaf7, 4)
    BY <1>3 DEF Settled
  <2>2. /\ FlagsSettle(t, machine.simd \ Arch!Leaf7, 3)
        /\ FlagsSettle(t, machine.simd \cap Arch!Leaf7, 4)
    BY DEF GoodStep
  <2>3. /\ machine.simd \ Arch!Leaf7 \subseteq info'.simd \/ \E u \in Threads : Before(run'[u].at, 3)
        /\ machine.simd \cap Arch!Leaf7 \subseteq info'.simd \/ \E u \in Threads : Before(run'[u].at, 4)
    BY <1>6, <2>1, <2>2
  <2> QED BY <2>3 DEF FlagsCome, Before
<1>8. info'.cpu_count \in {1, machine.cpus} \/ \E u \in Threads : Before(run'[u].at, 13)
  <2>1. info.cpu_count \in {1, machine.cpus} \/ \E u \in Threads : Before(run[u].at, 13)
    BY <1>3 DEF Settled
  <2> QED BY <1>5, <2>1 DEF GoodStep, CpusSettle
<1>9. info'.cpu_count \in {1, Arch!CpuCount(machine.cpus)} \/ \E u \in Threads : Before(run'[u].at, 18)
  <2>1. /\ info.cpu_count \in {1, machine.cpus} \/ \E u \in Threads : Before(run[u].at, 13)
        /\ info.cpu_count \in {1, Arch!CpuCount(machine.cpus)} \/ \E u \in Threads : Before(run[u].at, 18)
    BY <1>3 DEF Settled
  <2>2. \A p : Before(p, 13) => Before(p, 18)
    BY FieldsAre DEF Before
  <2>3. CASE ~Before(run[t].at, 13) /\ info.cpu_count \notin {1, machine.cpus}
    <3>1. \E u \in Threads : Before(run'[u].at, 13)
      BY <1>5, <2>1, <2>3
    <3> QED BY <2>2, <3>1
  <2>4. CASE info'.cpu_count = info.cpu_count /\ ~Before(run[t].at, 18)
    BY <1>5, <2>1, <2>4
  <2> QED BY <2>3, <2>4 DEF GoodStep, CpusSettle
<1>10. Settled'
  <2>1. \A f \in Arch!Field \ (Arch!Derived \cup {"simd"}) : (Right(f) \/ Awaited(f))'
    BY <1>4
  <2> QED BY <2>1, <1>7, <1>8, <1>9 DEF Settled, Before
<1>11. ASSUME ~overlapped' PROVE Alone'
  <2>1. ~overlapped /\ ~Arch!Overlap /\ ~Arch!Overlap'
    BY <1>11 DEF ArchInv
  <2>2. Undisturbed(t) /\ \A u \in Threads : ~misled[u]
    BY <1>1, <2>1 DEF ArchInv, Alone
  <2>3. \A u \in Threads : Arch!Initializing(u)' => u = t
    <3>1. \A u \in Threads \ {t} : ~Arch!Inside(u)'
      BY <1>1, <2>1 DEF Arch!Overlap
    <3> QED BY <3>1 DEF Arch!Inside, Arch!Initializing
  <2>4. ASSUME NEW f \in Arch!Field PROVE Awaits(run'[t].at, f) \/ Right(f)'
    <3>1. Settling(t, f) /\ (Awaits(run[t].at, f) \/ Right(f))
      BY <2>2 DEF GoodStep, Undisturbed
    <3>2. CASE info'[f] = info[f] /\ ~Awaits(run[t].at, f)
      BY <3>1, <3>2 DEF Right, Arch!Detected
    <3> QED BY <3>1, <3>2 DEF Settling
  <2>5. Undisturbed(t)'
    <3>1. Late(t)'
      BY <2>2 DEF GoodStep
    <3> QED BY <2>4, <3>1 DEF Undisturbed, Awaits
  <2> QED BY <1>1, <2>1, <2>2, <2>3, <2>5 DEF Alone
<1>12. ArchTypes' /\ overlapped' \in BOOLEAN /\ misled' \in [Threads -> BOOLEAN]
  BY DEF GoodStep, ArchInv
<1> QED BY <1>10, <1>11, <1>12 DEF ArchInv

\* A thread that is not initializing does something that leaves the description alone.
LEMMA BystanderKeeps ==
  ASSUME ArchInv, NEW t \in Threads, run[t].at \notin DOMAIN Rank, run'[t].at \notin DOMAIN Rank,
         \A u \in Threads \ {t} : run'[u] = run[u], run' \in [Threads -> ArchCalls],
         info' = info, machine' = machine, initialized' \in BOOLEAN, Fresh => Fresh',
         misled' \in [Threads -> BOOLEAN],
         ~overlapped' => \A u \in Threads : ~misled'[u],
         overlapped' = (overlapped \/ Arch!Overlap \/ Arch!Overlap')
  PROVE  ArchInv'
<1>1. ArchTypes'
  <2>1. \A u \in Threads : run'[u].at = "level" => run'[u].read <= Arch!LevelOf(machine.simd)
    BY DEF ArchInv, ArchTypes, Rank
  <2> QED BY <2>1 DEF ArchInv, ArchTypes
<1>2. \A u \in Threads : run[u].at \in DOMAIN Rank \/ run'[u].at \in DOMAIN Rank => run'[u] = run[u]
  OBVIOUS
<1>3. \A f \in Arch!Field : Right(f) => Right(f)'
  BY DEF Right, Arch!Detected
<1>4. \A f : Awaited(f) => Awaited(f)'
  BY <1>2 DEF Awaited, Awaits
<1>5. \A n : (\E u \in Threads : Before(run[u].at, n)) => \E u \in Threads : Before(run'[u].at, n)
  BY <1>2, WhereThreadsAre
<1>6. Settled => Settled'
  <2>1. ASSUME Settled PROVE Settled'
    <3>1. \A f \in Arch!Field \ (Arch!Derived \cup {"simd"}) : Right(f)' \/ Awaited(f)'
      BY <1>3, <1>4, <2>1 DEF Settled
    <3>2. FlagsCome(machine.simd \ Arch!Leaf7, 3)' /\ FlagsCome(machine.simd \cap Arch!Leaf7, 4)'
      BY <1>5, <2>1 DEF Settled, FlagsCome, Before
    <3>3. /\ info'.cpu_count \in {1, machine.cpus} \/ \E u \in Threads : Before(run'[u].at, 13)
          /\ info'.cpu_count \in {1, Arch!CpuCount(machine.cpus)} \/ \E u \in Threads : Before(run'[u].at, 18)
      BY <1>5, <2>1 DEF Settled
    <3> QED BY <3>1, <3>2, <3>3 DEF Settled, Before
  <2> QED BY <2>1
<1>7. ASSUME ~overlapped' PROVE Alone'
  <2>1. ~overlapped /\ ~Arch!Overlap' /\ Alone
    BY <1>7 DEF ArchInv
  <2>2. \A u \in Threads : Arch!Initializing(u) \/ Arch!Initializing(u)' => run'[u] = run[u]
    BY <1>2, PlacesAre DEF ArchInv, ArchTypes, ArchCalls, Arch!Initializing
  <2>3. \A u \in Threads : Arch!Initializing(u)' <=> Arch!Initializing(u)
    BY <2>2 DEF Arch!Initializing
  <2>4. ASSUME NEW u \in Threads, Arch!Initializing(u)' PROVE Undisturbed(u)'
    <3>1. Undisturbed(u) /\ run'[u] = run[u]
      BY <2>1, <2>2, <2>3, <2>4 DEF Alone
    <3>2. \A f \in Arch!Field : Awaits(run'[u].at, f) \/ Right(f)'
      BY <3>1, <1>3 DEF Undisturbed
    <3>3. Late(u)'
      BY <3>1 DEF Undisturbed, Late
    <3> QED BY <3>2, <3>3 DEF Undisturbed, Awaits
  <2>5. (\A u \in Threads : ~Arch!Initializing(u)') => Fresh' \/ \A f \in Arch!Field : Right(f)'
    BY <2>1, <2>3, <1>3 DEF Alone
  <2> QED BY <1>7, <2>1, <2>4, <2>5 DEF Alone
<1> QED BY <1>1, <1>6, <1>7 DEF ArchInv

LEMMA ClearKeeps ==
  ASSUME ArchInv, NEW t \in Threads, Arch!Clear(t), machine' = machine,
         overlapped' = (overlapped \/ Arch!Overlap \/ Arch!Overlap')
  PROVE  ArchInv'
<1>1. Arch!Goes(t, "clear", "total_ram") /\ info' = Arch!Cleared /\ initialized' = initialized /\ misled' = misled
  BY DEF Arch!Clear
<1>2. info' = [f \in Arch!Field |-> info'[f]]
  BY <1>1 DEF Arch!Field, Arch!Cleared
<1>3. Steps(t, "clear", "total_ram", Arch!Field)
  BY <1>1, <1>2, PlacesAre, GoesIs DEF ArchInv, Rank
<1>4. "total_ram" \in DOMAIN Rank /\ Rank["total_ram"] = 1
  BY DEF Rank
<1>5. \A f \in Arch!Field : Awaits(run'[t].at, f)
  BY <1>3, <1>4, FieldsAre DEF Awaits, Steps
<1>6. \A n \in 1..18 : Before(run'[t].at, n)
  BY <1>3, <1>4 DEF Before, Steps
<1>7. ArchTypes'
  BY <1>1, <1>2, <1>3, LevelsAre DEF ArchInv, ArchTypes, Steps, Arch!Cleared
<1>8. Settled'
  <2>1. \A f \in Arch!Field : Awaited(f)'
    BY <1>5 DEF Awaited, Awaits
  <2>2. FlagsCome(machine.simd \ Arch!Leaf7, 3)' /\ FlagsCome(machine.simd \cap Arch!Leaf7, 4)'
    BY <1>6 DEF FlagsCome, Before
  <2> QED BY <2>1, <2>2, <1>6 DEF Settled, Before
<1>9. ASSUME ~overlapped' PROVE Alone'
  <2>1. ~Arch!Overlap' /\ \A u \in Threads : ~misled[u]
    BY <1>9 DEF ArchInv, Alone
  <2>2. Arch!Initializing(t)'
    BY <1>3 DEF Steps, Arch!Initializing
  <2>3. \A u \in Threads : Arch!Initializing(u)' => u = t
    <3>1. \A u \in Threads \ {t} : ~Arch!Inside(u)'
      BY <2>1, <2>2 DEF Arch!Overlap
    <3> QED BY <3>1 DEF Arch!Inside, Arch!Initializing
  <2>4. Undisturbed(t)'
    <3>1. Late(t)'
      BY <1>3 DEF Late, Steps
    <3> QED BY <3>1, <1>5 DEF Undisturbed, Awaits
  <2> QED BY <1>1, <2>1, <2>2, <2>3, <2>4 DEF Alone
<1> QED BY <1>1, <1>7, <1>8, <1>9 DEF ArchInv

LEMMA SetInitializedKeeps ==
  ASSUME ArchInv, NEW t \in Threads, Arch!SetInitialized(t), machine' = machine,
         overlapped' = (overlapped \/ Arch!Overlap \/ Arch!Overlap')
  PROVE  ArchInv'
<1>1. Arch!Goes(t, "done", Arch!After(t)) /\ initialized' = TRUE /\ info' = info /\ misled' = misled
  BY DEF Arch!SetInitialized
<1>2. Arch!After(t) \in Arch!Places \ DOMAIN Rank
  BY DEF Arch!After, Arch!Places, Rank
<1>3. Steps(t, "done", Arch!After(t), {})
  BY <1>1, <1>2, GoesIs DEF ArchInv, ArchTypes
<1>4. "done" \in DOMAIN Rank /\ Rank["done"] = 19
  BY DEF Rank
<1>5. run[t].at = "done" /\ run'[t].at \notin DOMAIN Rank /\ \A u \in Threads \ {t} : run'[u] = run[u]
  BY <1>2, <1>3 DEF Steps
<1>6. \A f \in Arch!Field : ~Awaits(run[t].at, f)
  BY <1>4, <1>5, FieldsAre DEF Awaits
<1>7. \A n \in 1..18 : ~Before(run[t].at, n)
  BY <1>4, <1>5 DEF Before
<1>8. Arch!Initializing(t) /\ Arch!Inside(t)
  BY <1>5 DEF Arch!Initializing, Arch!Inside
<1>9. Settled
  BY <1>8 DEF ArchInv, Fresh
<1>10. ArchTypes'
  BY <1>1, <1>2, <1>3 DEF ArchInv, ArchTypes, Steps, Rank
<1>11. \A f \in Arch!Field : /\ Right(f) => Right(f)'
                             /\ Awaited(f) => Awaited(f)'
  BY <1>1, <1>5, <1>6 DEF Right, Arch!Detected, Awaited, Awaits
<1>12. \A n \in 1..18 : (\E u \in Threads : Before(run[u].at, n)) => \E u \in Threads : Before(run'[u].at, n)
  BY <1>5, <1>7
<1>13. Settled'
  <2>1. \A f \in Arch!Field \ (Arch!Derived \cup {"simd"}) : Right(f)' \/ Awaited(f)'
    BY <1>9, <1>11 DEF Settled
  <2>2. FlagsCome(machine.simd \ Arch!Leaf7, 3)' /\ FlagsCome(machine.simd \cap Arch!Leaf7, 4)'
    BY <1>1, <1>9, <1>12 DEF Settled, FlagsCome, Before
  <2>3. /\ info'.cpu_count \in {1, machine.cpus} \/ \E u \in Threads : Before(run'[u].at, 13)
        /\ info'.cpu_count \in {1, Arch!CpuCount(machine.cpus)} \/ \E u \in Threads : Before(run'[u].at, 18)
    BY <1>1, <1>9, <1>12 DEF Settled
  <2> QED BY <2>1, <2>2, <2>3 DEF Settled, Before
<1>14. ASSUME ~overlapped' PROVE Alone'
  <2>1. ~Arch!Overlap /\ ~Arch!Overlap' /\ Alone
    BY <1>14 DEF ArchInv
  <2>2. \A f \in Arch!Field : Right(f)'
    BY <2>1, <1>6, <1>8, <1>11 DEF Alone, Undisturbed
  <2>3. \A u \in Threads : ~Arch!Initializing(u)'
    <3>1. ~Arch!Initializing(t)'
      BY <1>3 DEF Steps, Arch!After, Arch!Initializing
    <3>2. \A u \in Threads \ {t} : ~Arch!Inside(u)
      BY <1>8, <2>1 DEF Arch!Overlap
    <3> QED BY <3>1, <3>2, <1>5 DEF Arch!Initializing, Arch!Inside
  <2> QED BY <1>1, <2>1, <2>2, <2>3 DEF Alone
<1> QED BY <1>1, <1>10, <1>13, <1>14 DEF ArchInv

\* A call begins, or is found to be at its end: one thread moves and nothing is stored.
LEMMA MovesAside ==
  ASSUME ArchInv, NEW t \in Threads, NEW d \in ArchCalls, run' = [run EXCEPT ![t] = d],
         run[t].at \notin DOMAIN Rank, d.at \notin DOMAIN Rank,
         Fresh => d.at \in {"idle", "check", "clear"},
         info' = info, machine' = machine, initialized' = initialized, misled' \in [Threads -> BOOLEAN],
         ~overlapped' => \A u \in Threads : ~misled'[u],
         overlapped' = (overlapped \/ Arch!Overlap \/ Arch!Overlap')
  PROVE  ArchInv'
<1>1. run \in [Threads -> ArchCalls] /\ initialized \in BOOLEAN
  BY DEF ArchInv, ArchTypes
<1>2. run' \in [Threads -> ArchCalls] /\ run'[t] = d /\ \A u \in Threads \ {t} : run'[u] = run[u]
  BY <1>1
<1>3. Fresh => Fresh'
  BY <1>2 DEF Fresh, Arch!Inside
<1> QED BY <1>1, <1>2, <1>3, BystanderKeeps

LEMMA NoneMisled ==
  ASSUME ArchInv, overlapped' = (overlapped \/ Arch!Overlap \/ Arch!Overlap'), ~overlapped'
  PROVE  Alone /\ \A u \in Threads : ~misled[u]
BY DEF ArchInv, Alone

LEMMA CallKeeps ==
  ASSUME ArchInv, NEW t \in Threads, machine' = machine,
         overlapped' = (overlapped \/ Arch!Overlap \/ Arch!Overlap'),
         Arch!aal_init(t) \/ Arch!aal_get_system_info(t) \/ Arch!CheckInitialized(t)
  PROVE  ArchInv'
<1>1. PICK c \in ArchCalls : c = run[t]
  BY DEF ArchInv, ArchTypes
<1>2. PICK d : /\ run' = [run EXCEPT ![t] = d] /\ d \in ArchCalls
               /\ d.at \in {"idle", "check", "clear", "copy"}
               /\ d.at = "copy" => initialized \/ Arch!Inside(t)
  <2>1. CASE Arch!aal_init(t)
    <3>1. PICK d : d = [at |-> "check", lazy |-> FALSE, read |-> 0]
      OBVIOUS
    <3>2. d \in ArchCalls /\ d.at = "check"
      BY <3>1 DEF ArchCalls, Arch!Places
    <3> QED BY <2>1, <3>1, <3>2 DEF Arch!aal_init
  <2>2. CASE Arch!aal_get_system_info(t)
    <3>1. PICK d : d = [at |-> IF initialized THEN "copy" ELSE "check", lazy |-> TRUE, read |-> 0]
      OBVIOUS
    <3>2. d \in ArchCalls /\ d.at \in {"copy", "check"} /\ (d.at = "copy" => initialized)
      BY <3>1 DEF ArchCalls, Arch!Places
    <3> QED BY <2>2, <3>1, <3>2 DEF Arch!aal_get_system_info
  <2>3. CASE Arch!CheckInitialized(t)
    <3>1. PICK q : q = IF initialized THEN Arch!After(t) ELSE "clear"
      OBVIOUS
    <3>2. q \in {"idle", "clear", "copy"} /\ (q = "copy" => initialized) /\ q \in Arch!Places
      BY <3>1 DEF Arch!After, Arch!Places
    <3>3. PICK d : d = [c EXCEPT !.at = q]
      OBVIOUS
    <3>4. d \in ArchCalls /\ d.at = q
      BY <3>2, <3>3 DEF ArchCalls
    <3>5. run' = [run EXCEPT ![t] = d]
      BY <1>1, <2>3, <3>1, <3>3 DEF Arch!CheckInitialized, Arch!Goes
    <3> QED BY <3>2, <3>4, <3>5
  <2> QED BY <2>1, <2>2, <2>3
<1>3. run[t].at \in {"idle", "check"} /\ info' = info /\ initialized' = initialized /\ misled' = misled
  BY DEF Arch!aal_init, Arch!aal_get_system_info, Arch!CheckInitialized, Arch!Goes
<1>4. run[t].at \notin DOMAIN Rank /\ d.at \notin DOMAIN Rank
  BY <1>2, <1>3 DEF Rank
<1>5. Fresh => d.at \in {"idle", "check", "clear"}
  BY <1>2 DEF Fresh
<1>6. misled' \in [Threads -> BOOLEAN] /\ (~overlapped' => \A u \in Threads : ~misled'[u])
  BY <1>3, NoneMisled DEF ArchInv
<1> QED BY <1>2, <1>3, <1>4, <1>5, <1>6, MovesAside

\* Whoever copies while nobody initializes finds every field right, unless calls have overlapped.
LEMMA CopyKeeps ==
  ASSUME ArchInv, NEW t \in Threads, machine' = machine,
         overlapped' = (overlapped \/ Arch!Overlap \/ Arch!Overlap'),
         Arch!CopyFirst(t) \/ Arch!CopyRest(t)
  PROVE  ArchInv'
<1>1. PICK c \in ArchCalls : c = run[t]
  BY DEF ArchInv, ArchTypes
<1>2. PICK q \in {"copy_rest", "idle"} : run' = [run EXCEPT ![t].at = q]
  BY DEF Arch!CopyFirst, Arch!CopyRest, Arch!Goes
<1>3. PICK d : d = [c EXCEPT !.at = q]
  OBVIOUS
<1>4. d \in ArchCalls /\ d.at = q
  BY <1>3 DEF ArchCalls, Arch!Places
<1>5. run' = [run EXCEPT ![t] = d]
  BY <1>1, <1>2, <1>3
<1>6. run[t].at \in {"copy", "copy_rest"} /\ info' = info /\ initialized' = initialized
  BY DEF Arch!CopyFirst, Arch!CopyRest, Arch!Goes
<1>7. run[t].at \notin DOMAIN Rank /\ d.at \notin DOMAIN Rank /\ ~Fresh
  BY <1>4, <1>6 DEF Rank, Fresh, Arch!Inside
<1>8. misled \in [Threads -> BOOLEAN]
  BY DEF ArchInv
<1>9. misled' \in [Threads -> BOOLEAN]
  BY <1>8 DEF Arch!CopyFirst, Arch!CopyRest
<1>10. ASSUME ~overlapped' PROVE \A u \in Threads : ~misled'[u]
  <2>1. Alone /\ ~Arch!Overlap /\ \A u \in Threads : ~misled[u]
    BY <1>10, NoneMisled
  <2>2. \A u \in Threads : ~Arch!Initializing(u)
    BY <1>6, <2>1 DEF Arch!Overlap, Arch!Initializing, Arch!Inside
  <2>3. \A f \in Arch!Field : Right(f)
    BY <1>7, <2>1, <2>2 DEF Alone
  <2>4. Arch!CopiedLast \subseteq Arch!Field
    BY FieldsAre DEF Arch!CopiedLast
  <2>5. Arch!Wrong(Arch!Field \ Arch!CopiedLast) = {} /\ Arch!Wrong(Arch!CopiedLast) = {}
    BY <2>3, <2>4 DEF Arch!Wrong, Right
  <2>6. ~misled'[t] /\ \A u \in Threads \ {t} : misled'[u] = misled[u]
    BY <1>8, <2>1, <2>5 DEF Arch!CopyFirst, Arch!CopyRest
  <2> QED BY <2>1, <2>6
<1> QED BY <1>4, <1>5, <1>6, <1>7, <1>9, <1>10, MovesAside

LEMMA OneFieldKeeps ==
  ASSUME ArchInv, NEW t \in Threads, machine' = machine,
         overlapped' = (overlapped \/ Arch!Overlap \/ Arch!Overlap'),
         NEW f \in Arch!Field, Arch!Getter(t, f)
  PROVE  ArchInv'
<1>1. run[t].at = "idle" /\ info' = info /\ initialized' = initialized /\ run' = run
  BY DEF Arch!Getter
<1>2. misled \in [Threads -> BOOLEAN] /\ run \in [Threads -> ArchCalls] /\ initialized \in BOOLEAN
  BY DEF ArchInv, ArchTypes
<1>3. misled' \in [Threads -> BOOLEAN]
  BY <1>2 DEF Arch!Getter
<1>4. ASSUME ~overlapped' PROVE \A u \in Threads : ~misled'[u]
  <2>1. Alone /\ \A u \in Threads : ~misled[u]
    BY <1>4, NoneMisled
  <2>2. initialized /\ (\A u \in Threads : ~Arch!Initializing(u)) => Arch!Wrong({f}) = {}
    BY <2>1 DEF Alone, Fresh, Arch!Wrong, Right
  <2>3. ~misled'[t] /\ \A u \in Threads \ {t} : misled'[u] = misled[u]
    BY <1>2, <2>2 DEF Arch!Getter
  <2> QED BY <2>1, <2>3
<1>5. run[t].at \notin DOMAIN Rank
  BY <1>1 DEF Rank
<1>6. Fresh => Fresh'
  BY <1>1 DEF Fresh, Arch!Inside
<1> QED BY <1>1, <1>2, <1>3, <1>4, <1>5, <1>6, BystanderKeeps

LEMMA ShutdownKeeps ==
  ASSUME ArchInv, NEW t \in Threads, machine' = machine,
         overlapped' = (overlapped \/ Arch!Overlap \/ Arch!Overlap'), Arch!aal_shutdown(t)
  PROVE  ArchInv'
<1>1. run[t].at = "idle" /\ info' = info /\ initialized' = FALSE /\ run' = run /\ misled' = misled
  BY DEF Arch!aal_shutdown
<1>2. misled \in [Threads -> BOOLEAN] /\ run \in [Threads -> ArchCalls]
  BY DEF ArchInv, ArchTypes
<1>3. ~overlapped' => \A u \in Threads : ~misled'[u]
  BY <1>1, NoneMisled
<1>4. run[t].at \notin DOMAIN Rank
  BY <1>1 DEF Rank
<1>5. Fresh => Fresh'
  BY <1>1 DEF Fresh, Arch!Inside
<1> QED BY <1>1, <1>2, <1>3, <1>4, <1>5, BystanderKeeps

LEMMA ArchStays ==
  ASSUME ArchInv, UNCHANGED Arch!vars PROVE ArchInv'
<1>1. /\ machine' = machine /\ info' = info /\ initialized' = initialized /\ run' = run
      /\ misled' = misled /\ overlapped' = overlapped
  BY DEF Arch!vars
<1>2. ArchTypes'
  BY <1>1 DEF ArchInv, ArchTypes
<1>3. Fresh' = Fresh /\ Settled' = Settled
  BY <1>1 DEF Fresh, Arch!Inside, Settled, Right, Arch!Detected, Awaited, Awaits, FlagsCome, Before
<1>4. Alone' = Alone
  BY <1>1, <1>3 DEF Alone, Arch!Overlap, Arch!Inside, Arch!Initializing, Undisturbed, Late, Right, Arch!Detected, Awaits
<1> QED BY <1>1, <1>2, <1>3, <1>4 DEF ArchInv

LEMMA ArchKeeps == ArchInv /\ [Arch!Next]_Arch!vars => ArchInv'
<1> SUFFICES ASSUME ArchInv, [Arch!Next]_Arch!vars PROVE ArchInv'
  OBVIOUS
<1>1. CASE UNCHANGED Arch!vars
  BY <1>1, ArchStays
<1>2. CASE Arch!Next
  <2>1. machine' = machine /\ overlapped' = (overlapped \/ Arch!Overlap \/ Arch!Overlap')
    BY <1>2 DEF Arch!Next
  <2>2. PICK t \in Threads : Arch!Step(t)
    BY <1>2 DEF Arch!Next
  <2>3. ArchTypes
    BY DEF ArchInv
  <2>4. GoodStep(t) /\ misled' = misled => ArchInv'
    BY <2>1, GoodKeeps
  <2>5. CASE Arch!aal_detect_total_ram(t) \/ Arch!ClearCpu(t) \/ Arch!Features(t) \/ Arch!FeaturesLeaf7(t)
    <3>1. misled' = misled
      BY <2>5 DEF Arch!aal_detect_total_ram, Arch!ClearCpu, Arch!Features, Arch!FeaturesLeaf7
    <3> QED BY <2>1, <2>3, <2>4, <2>5, <3>1, TotalRamStep, ClearCpuStep, FeaturesStep, FeaturesLeaf7Step
  <2>6. CASE Arch!ReadFlags(t) \/ Arch!StoreLevel(t) \/ Arch!DefaultPage(t) \/ Arch!aal_detect_memory(t)
    <3>1. misled' = misled
      BY <2>6 DEF Arch!ReadFlags, Arch!StoreLevel, Arch!DefaultPage, Arch!aal_detect_memory
    <3> QED BY <2>1, <2>3, <2>4, <2>6, <3>1, ReadFlagsStep, StoreLevelStep, DefaultPageStep, MemoryStep
  <2>7. CASE Arch!ReadPageSize(t) \/ Arch!StoreBasePage(t) \/ Arch!ClearNodes(t) \/ Arch!aal_detect_numa(t)
    <3>1. misled' = misled
      BY <2>7 DEF Arch!ReadPageSize, Arch!StoreBasePage, Arch!ClearNodes, Arch!aal_detect_numa
    <3> QED BY <2>1, <2>3, <2>4, <2>7, <3>1, ReadPageSizeStep, StoreBasePageStep, ClearNodesStep, NumaStep
  <2>8. CASE \/ Arch!aal_detect_endian(t) \/ Arch!StoreOnline(t) \/ Arch!ReadOnline(t)
             \/ Arch!StoreThreads(t) \/ Arch!LimitCpus(t) \/ Arch!StoreOneCpu(t)
    <3>1. misled' = misled
      BY <2>8 DEF Arch!aal_detect_endian, Arch!StoreOnline, Arch!ReadOnline, Arch!StoreThreads,
                  Arch!LimitCpus, Arch!StoreOneCpu
    <3> QED BY <2>1, <2>3, <2>4, <2>8, <3>1, EndianStep, StoreOnlineStep, ReadOnlineStep,
               StoreThreadsStep, LimitCpusStep, StoreOneCpuStep
  <2>9. CASE Arch!aal_init(t) \/ Arch!aal_get_system_info(t) \/ Arch!CheckInitialized(t)
    BY <2>1, <2>9, CallKeeps
  <2>10. CASE Arch!Clear(t)
    BY <2>1, <2>10, ClearKeeps
  <2>11. CASE Arch!SetInitialized(t)
    BY <2>1, <2>11, SetInitializedKeeps
  <2>12. CASE Arch!aal_shutdown(t)
    BY <2>1, <2>12, ShutdownKeeps
  <2>13. CASE Arch!CopyFirst(t) \/ Arch!CopyRest(t)
    BY <2>1, <2>13, CopyKeeps
  <2>14. CASE \E f \in Arch!Field : Arch!Getter(t, f)
    BY <2>1, <2>14, OneFieldKeeps
  <2> QED BY <2>2, <2>5, <2>6, <2>7, <2>8, <2>9, <2>10, <2>11, <2>12, <2>13, <2>14 DEF Arch!Step
<1> QED BY <1>1, <1>2

LEMMA ArchInvHolds == Spec => []ArchInv
<1>1. Init => ArchInv
  <2> SUFFICES ASSUME Arch!Init PROVE ArchInv
    BY DEF Init
  <2>1. PICK c : c = [at |-> "idle", lazy |-> FALSE, read |-> 0]
    OBVIOUS
  <2>2. c \in ArchCalls /\ c.at = "idle"
    BY <2>1 DEF ArchCalls, Arch!Places
  <2>3. run = [t \in Threads |-> c] /\ misled = [t \in Threads |-> FALSE]
    BY <2>1 DEF Arch!Init
  <2>4. \A t \in Threads : run[t] = c /\ ~misled[t]
    BY <2>3
  <2>5. Fresh
    BY <2>2, <2>4 DEF Fresh, Arch!Inside, Arch!Init
  <2>6. ArchTypes
    <3>1. info = [f \in Arch!Field |-> info[f]]
      BY DEF Arch!Init, Arch!Cleared, Arch!Field
    <3>2. run \in [Threads -> ArchCalls] /\ \A t \in Threads : run[t].at # "level"
      BY <2>2, <2>3
    <3>3. info.simd_level \in 0..Arch!LevelOf(machine.simd)
      BY LevelsAre DEF Arch!Init, Arch!Cleared
    <3> QED BY <3>1, <3>2, <3>3 DEF ArchTypes, Arch!Init, Arch!Cleared
  <2>7. Alone
    BY <2>2, <2>4, <2>5 DEF Alone, Arch!Overlap, Arch!Initializing
  <2>8. misled \in [Threads -> BOOLEAN] /\ overlapped \in BOOLEAN
    BY <2>3 DEF Arch!Init
  <2> QED BY <2>5, <2>6, <2>7, <2>8 DEF ArchInv
<1>2. ArchInv /\ [Next]_vars => ArchInv'
  BY PartSteps, ArchKeeps
<1> QED BY <1>1, <1>2, PTL DEF Spec

\* When nobody is inside the library any more, the fields that are not computed from others
\* are the machine's, of the others at most a level is too low, a count one and the figures
\* of a half filled structure are left, and that only where calls have overlapped: for any
\* number of threads in any order and whatever machine.
THEOREM DetectionEnds == Spec => []DetectionSettles
<1>1. ASSUME ArchInv, initialized, \A t \in Threads : ~Arch!Inside(t)
      PROVE  /\ Arch!Wrong(Arch!Field) \subseteq Arch!Derived
             /\ Arch!Wrong(Arch!Field) # {} => overlapped
             /\ info.simd_level <= Arch!LevelOf(machine.simd)
             /\ info.cpu_count \in {1, Arch!CpuCount(machine.cpus)}
  <2>1. \A t \in Threads : run[t].at \notin DOMAIN Rank /\ ~Arch!Initializing(t)
    BY <1>1, WhereThreadsAre
  <2>2. Settled
    BY <1>1 DEF ArchInv, Fresh
  <2>3. \A f \in Arch!Field \ (Arch!Derived \cup {"simd"}) : Right(f)
    BY <2>1, <2>2 DEF Settled, Awaited, Awaits
  <2>4. Right("simd")
    <3>1. machine.simd \ Arch!Leaf7 \subseteq info.simd /\ machine.simd \cap Arch!Leaf7 \subseteq info.simd
      BY <2>1, <2>2 DEF Settled, FlagsCome, Before
    <3>2. info.simd \subseteq machine.simd
      BY <1>1 DEF ArchInv, ArchTypes
    <3>3. info.simd = machine.simd
      BY <3>1, <3>2
    <3> QED BY <3>3 DEF Right, Arch!Detected
  <2>5. info.cpu_count \in {1, Arch!CpuCount(machine.cpus)}
    BY <2>1, <2>2 DEF Settled, Before
  <2>6. ~overlapped => \A f \in Arch!Field : Right(f)
    BY <1>1, <2>1 DEF ArchInv, Alone, Fresh
  <2>7. info.simd_level <= Arch!LevelOf(machine.simd)
    BY <1>1, LevelsAre DEF ArchInv, ArchTypes
  <2> QED BY <2>3, <2>4, <2>5, <2>6, <2>7 DEF Arch!Wrong, Right
<1>2. ArchInv => DetectionSettles
  BY <1>1 DEF DetectionSettles, Arch!DetectionSettles
<1> QED BY <1>2, ArchInvHolds, PTL

\* A thread that asks for the description while no two calls overlap gets the machine's, the
\* first caller as well as the later ones, before and after any number of shutdowns.
THEOREM AnswersAreWhole == Spec => []SnapshotWhole
<1>1. ArchInv => SnapshotWhole
  BY DEF ArchInv, Alone, SnapshotWhole, Arch!SnapshotWhole
<1> QED BY <1>1, ArchInvHolds, PTL

-----------------------------------------------------------------------------
(* ByteOrder.                                                              *)

\* What is visited is whole elements, so a byte's mirror is visited with it and
\* its mirror is the byte itself.
LEMMA MirrorInside ==
  ASSUME NEW w \in Width, NEW len \in Nat, NEW j \in Nat, j < Span(w, len)
  PROVE  /\ Mirror(w, j) \in Nat /\ Mirror(w, j) < Span(w, len)
         /\ Mirror(w, Mirror(w, j)) = j
<1>1. CASE w = 2
  BY <1>1 DEF Span, Mirror
<1>2. CASE w = 4
  BY <1>2 DEF Span, Mirror
<1>3. CASE w = 8
  BY <1>3 DEF Span, Mirror
<1>4. CASE w = 16
  BY <1>4 DEF Span, Mirror
<1> QED BY <1>1, <1>2, <1>3, <1>4 DEF Width

\* aal_byte_swap16, 32 and 64 stay inside the bytes they are given; the 128-bit
\* version goes one word beyond them when they are an odd number of words.
THEOREM SwapReach ==
  ASSUME NEW w \in Width, NEW len \in Nat
  PROVE  IF w = 16 /\ (len \div 8) % 2 = 1
         THEN Span(w, len) = 8 * (len \div 8) + 8
         ELSE Span(w, len) <= len /\ len - Span(w, len) < w
<1>1. CASE w = 2
  BY <1>1 DEF Span
<1>2. CASE w = 4
  BY <1>2 DEF Span
<1>3. CASE w = 8
  BY <1>3 DEF Span
<1>4. CASE w = 16
  BY <1>4 DEF Span
<1> QED BY <1>1, <1>2, <1>3, <1>4 DEF Width

\* Swapping the same bytes twice gives the buffer back, for every width, length and
\* content, if the buffer holds what is visited.
THEOREM SwapTwice ==
  ASSUME NEW w \in Width, NEW len \in Nat, NEW n \in Nat, NEW Byte,
         NEW data \in [0..n - 1 -> Byte], Span(w, len) <= n
  PROVE  ByteSwap(w, len, ByteSwap(w, len, data)) = data
<1> DEFINE once == ByteSwap(w, len, data)
<1>0. Span(w, len) \in Nat
  BY SwapReach DEF Span, Width
<1>1. DOMAIN once = 0..n - 1
  BY DEF ByteSwap
<1>2. ASSUME NEW j \in 0..n - 1 PROVE ByteSwap(w, len, once)[j] = data[j]
  <2>1. CASE j < Span(w, len)
    <3>1. /\ Mirror(w, j) \in Nat /\ Mirror(w, j) < Span(w, len)
          /\ Mirror(w, Mirror(w, j)) = j
      BY <1>2, <2>1, MirrorInside
    <3>2. Mirror(w, j) \in 0..n - 1
      BY <1>0, <3>1
    <3>3. once[Mirror(w, j)] = data[j]
      BY <3>1, <3>2 DEF ByteSwap
    <3>4. ByteSwap(w, len, once)[j] = once[Mirror(w, j)]
      BY <1>1, <1>2, <2>1 DEF ByteSwap
    <3> QED BY <3>3, <3>4
  <2>2. CASE ~(j < Span(w, len))
    BY <1>1, <1>2, <2>2 DEF ByteSwap
  <2> QED BY <2>1, <2>2
<1>3. ByteSwap(w, len, once) = [j \in 0..n - 1 |-> ByteSwap(w, len, once)[j]]
  BY <1>1 DEF ByteSwap
<1>4. data = [j \in 0..n - 1 |-> data[j]]
  OBVIOUS
<1>5. ByteSwap(w, len, once) = data
  <2> HIDE DEF once
  <2> QED BY <1>2, <1>3, <1>4
<1> QED BY <1>5

-----------------------------------------------------------------------------
(* The types.                                                              *)

\* Every variable of every part stays in the set that the code can put it in.
THEOREM TypesHold == Spec => []TypeOK
<1>1. ArchInv => Arch!TypeOK
  BY DEF ArchInv, ArchTypes, ArchCalls, Arch!TypeOK
<1>2. LoaderInv => Loader!TypeOK
  BY DEF LoaderInv
<1>3. NumaInv => Nodes!TypeOK
  BY DEF NumaInv
<1>4. DiskInv => Disk!TypeOK
  BY DEF DiskInv
<1>5. PoolInv => Pool!TypeOK
  BY DEF PoolInv
<1>6. ContextsInv => Contexts!TypeOK
  BY DEF ContextsInv
<1>7. TrackerInv => Tracker!TypeOK
  BY DEF TrackerInv
<1>8. ASSUME Contexts!TypeOK, Pool!TypeOK, Tracker!TypeOK, Disk!TypeOK,
             Optimizers!TypeOK, Arch!TypeOK, Nodes!TypeOK, Loader!TypeOK
      PROVE  TypeOK
  BY <1>8 DEF TypeOK
<1> QED
  BY <1>1, <1>2, <1>3, <1>4, <1>5, <1>6, <1>7, <1>8, ArchInvHolds, LoaderInvHolds, NumaInvHolds,
     OptimizersTypes, DiskInvHolds, PoolInvHolds, ContextsInvHolds, TrackerInvHolds, PTL
=============================================================================
