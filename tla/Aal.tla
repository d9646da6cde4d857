--------------------------------- MODULE Aal ---------------------------------
(***************************************************************************)
(* The architecture abstraction layer (aal/aal.c): aal_init fills one      *)
(* global description of the machine, g_aal_info, without a lock, and      *)
(* aal_get_system_info calls it for whoever comes first.  Some fields are  *)
(* computed from others that are read back from the shared structure.      *)
(***************************************************************************)
EXTENDS Integers, FiniteSetsExt

CONSTANTS
  Threads,
  Machines   \* machines the library may run on, see Machine

VARIABLES
  machine,      \* the one it runs on
  info,         \* g_aal_info
  initialized,  \* g_aal_initialized
  run,          \* run[t]: where thread t is in a call, and what it has read back
  misled,       \* misled[t]: its last answer was not the machine's
  overlapped    \* somebody has been inside the library during an initialization

vars == <<machine, info, initialized, run, misled, overlapped>>

-----------------------------------------------------------------------------
(* Detection: what the machine shows and what becomes of it.                *)

\* The ladder of x86_64; a flag's place is its AAL_SIMD_ level.
Ladder == <<"sse", "sse2", "sse3", "ssse3", "sse4_1", "sse4_2", "avx", "avx2", "avx512f">>
Leaf7  == {"avx2", "avx512f"}

\* One level above those of x86_64 each.
OtherSimd == [neon |-> 10, rvv |-> 11]

\* Highest flag first; nothing found is AAL_SIMD_NONE.
LevelOf(has) ==
  Max({0} \cup {i \in DOMAIN Ladder : Ladder[i] \in has}
          \cup {OtherSimd[f] : f \in has \cap DOMAIN OtherSimd})

\* /proc/cpuinfo names no level in its "cache size" lines: the default stays.
CacheLineSize == 64

\* node_mem_size[0]: reading "MemTotal: n kB" the digits are behind the pointer
\* before the number is parsed, so that every node has 0 and total RAM is used.
NodeZeroMemory(total_ram_kb) == total_ram_kb

AAL_MAX_CPUS == 256

CpuCount(n) == IF n = 0 \/ n > AAL_MAX_CPUS THEN 1 ELSE n

MemModel(m) == IF m.numa_maps THEN "NUMA" ELSE "FLAT"

\* The fields of aal_system_info_t that others are computed from, that are computed
\* from others, or whose value or moment of storing differs.  A field stored beside one
\* of these, with a value that depends on nothing else, goes with it: family, model and
\* vendor with arch, the other AVX-512 flags with those of leaf 7, the huge pages with
\* page_size, the cache sizes with cache, is_big_endian with little.
Cleared ==
  [arch |-> "x86_64", simd |-> {}, simd_level |-> 0, page_size |-> 0, base_page_size |-> 0,
   mem_model |-> "FLAT", cache |-> 0, node_count |-> 0, node_mem |-> 0,
   little |-> FALSE, cpu_count |-> 0, online |-> 0, threads |-> 0, total_ram |-> 0]

\* What one initialization leaves that nobody disturbs.  thread_count keeps the
\* number of online CPUs also where there are too many for the two counts.
Detected(m) ==
  [arch |-> m.arch, simd |-> m.simd, simd_level |-> LevelOf(m.simd),
   page_size |-> m.page_size, base_page_size |-> m.page_size,
   mem_model |-> MemModel(m), cache |-> CacheLineSize,
   node_count |-> 1, node_mem |-> NodeZeroMemory(m.ram), little |-> m.little,
   cpu_count |-> CpuCount(m.cpus),
   online |-> IF CpuCount(m.cpus) = m.cpus THEN m.online ELSE 1, threads |-> m.online,
   total_ram |-> m.ram]

Field == DOMAIN Cleared

\* Fields computed from others that are read back from g_aal_info.
Derived == {"simd_level", "base_page_size", "node_mem", "cpu_count", "online", "threads"}

-----------------------------------------------------------------------------
Places == {"idle", "check", "clear", "total_ram", "cpu", "features", "leaf7", "ladder",
           "level", "page", "memory", "base", "base_store", "numa", "node", "endian",
           "online", "threads", "threads_store", "limit", "one_cpu", "done", "copy", "copy_rest"}

Initializing(t) == run[t].at \notin {"idle", "check", "clear", "copy", "copy_rest"}
Inside(t)       == run[t].at \notin {"idle", "check", "clear"}

Overlap == \E t \in Threads, u \in Threads : t # u /\ Initializing(t) /\ Inside(u)

TypeOK ==
  /\ machine \in Machines
  /\ info = [f \in Field |-> info[f]]  \* a record of these fields
  /\ info.simd \subseteq machine.simd /\ info.simd_level \in 0..LevelOf(machine.simd)
  /\ info.page_size \in Nat /\ info.total_ram \in Nat /\ info.online \in Nat
  /\ info.mem_model \in {"FLAT", MemModel(machine)} /\ info.cpu_count \in {0, 1, machine.cpus}
  /\ initialized \in BOOLEAN /\ overlapped \in BOOLEAN
  /\ run \in [Threads -> [at : Places, lazy : BOOLEAN, read : Nat]]
  /\ \A t \in Threads : run[t].at = "level" => run[t].read <= LevelOf(machine.simd)
  /\ misled \in [Threads -> BOOLEAN]

Init ==
  /\ machine \in Machines
  /\ info = Cleared /\ initialized = FALSE /\ overlapped = FALSE
  /\ run = [t \in Threads |-> [at |-> "idle", lazy |-> FALSE, read |-> 0]]
  /\ misled = [t \in Threads |-> FALSE]

Goes(t, from, to)      == run[t].at = from /\ run' = [run EXCEPT ![t].at = to]
Reads(t, from, to, vs) == run[t].at = from
                          /\ \E v \in vs : run' = [run EXCEPT ![t].at = to, ![t].read = v]

\* A field is read back that another thread may be storing: the program uses what
\* is there, or what it has stored itself and kept in a register.
Seen(shared, own) == {shared, own}

-----------------------------------------------------------------------------
(* aal_init.                                                               *)

After(t) == IF run[t].lazy THEN "copy" ELSE "idle"

aal_init(t) ==
  /\ run[t].at = "idle"
  /\ run' = [run EXCEPT ![t] = [at |-> "check", lazy |-> FALSE, read |-> 0]]
  /\ UNCHANGED <<info, initialized, misled>>

CheckInitialized(t) ==
  /\ Goes(t, "check", IF initialized THEN After(t) ELSE "clear")
  /\ UNCHANGED <<info, initialized, misled>>

Clear(t) ==
  /\ Goes(t, "clear", "total_ram")
  /\ info' = Cleared
  /\ UNCHANGED <<initialized, misled>>

aal_detect_total_ram(t) ==
  /\ Goes(t, "total_ram", "cpu")
  /\ info' = [info EXCEPT !.total_ram = machine.ram]
  /\ UNCHANGED <<initialized, misled>>

\* cpu and simd are cleared again before they are filled.
ClearCpu(t) ==
  /\ Goes(t, "cpu", "features")
  /\ info' = [info EXCEPT !.arch = machine.arch, !.simd = {}, !.simd_level = 0]
  /\ UNCHANGED <<initialized, misled>>

\* On x86_64 CPUID leaf 1, then leaf 7; elsewhere what the compiler was told.
Features(t) ==
  /\ Goes(t, "features", IF machine.arch = "x86_64" THEN "leaf7" ELSE "page")
  /\ info' = IF machine.arch = "x86_64"
             THEN [info EXCEPT !.simd = @ \cup (machine.simd \ Leaf7)]
             ELSE [info EXCEPT !.simd = machine.simd, !.simd_level = LevelOf(machine.simd)]
  /\ UNCHANGED <<initialized, misled>>

\* The test for leaf 7 looks at the signature of leaf 1, so it is always read.
FeaturesLeaf7(t) ==
  /\ Goes(t, "leaf7", "ladder")
  /\ info' = [info EXCEPT !.simd = @ \cup (machine.simd \cap Leaf7)]
  /\ UNCHANGED <<initialized, misled>>

ReadFlags(t) ==
  /\ Reads(t, "ladder", "level", Seen(LevelOf(info.simd), LevelOf(machine.simd)))
  /\ UNCHANGED <<info, initialized, misled>>

StoreLevel(t) ==
  /\ Goes(t, "level", "page")
  /\ info' = [info EXCEPT !.simd_level = run[t].read]
  /\ UNCHANGED <<initialized, misled>>

DefaultPage(t) ==
  /\ Goes(t, "page", "memory")
  /\ info' = [info EXCEPT !.page_size = 4096]
  /\ UNCHANGED <<initialized, misled>>

aal_detect_memory(t) ==
  /\ Goes(t, "memory", "base")
  /\ info' = [info EXCEPT !.page_size = machine.page_size,
                          !.mem_model = IF machine.numa_maps THEN "NUMA" ELSE @]
  /\ UNCHANGED <<initialized, misled>>

ReadPageSize(t) ==
  /\ Reads(t, "base", "base_store", Seen(info.page_size, machine.page_size))
  /\ UNCHANGED <<info, initialized, misled>>

\* base_page_size, and the cache sizes after it.
StoreBasePage(t) ==
  /\ Goes(t, "base_store", "numa")
  /\ info' = [info EXCEPT !.base_page_size = run[t].read, !.cache = CacheLineSize]
  /\ UNCHANGED <<initialized, misled>>

ClearNodes(t) ==
  /\ Reads(t, "numa", "node", Seen(info.total_ram, machine.ram))
  /\ info' = [info EXCEPT !.node_count = 1, !.node_mem = 0]
  /\ UNCHANGED <<initialized, misled>>

aal_detect_numa(t) ==
  /\ Goes(t, "node", "endian")
  /\ info' = [info EXCEPT !.node_mem = NodeZeroMemory(run[t].read), !.node_count = 1]
  /\ UNCHANGED <<initialized, misled>>

\* The endianness, and the first store of aal_detect_cpu_count.
aal_detect_endian(t) ==
  /\ Goes(t, "endian", "online")
  /\ info' = [info EXCEPT !.little = machine.little, !.cpu_count = machine.cpus]
  /\ UNCHANGED <<initialized, misled>>

StoreOnline(t) ==
  /\ Goes(t, "online", "threads")
  /\ info' = [info EXCEPT !.online = machine.online]
  /\ UNCHANGED <<initialized, misled>>

ReadOnline(t) ==
  /\ Reads(t, "threads", "threads_store", Seen(info.online, machine.online))
  /\ UNCHANGED <<info, initialized, misled>>

\* thread_count, which the limit does not look at.
StoreThreads(t) ==
  /\ Goes(t, "threads_store", "limit")
  /\ info' = [info EXCEPT !.threads = run[t].read]
  /\ UNCHANGED <<initialized, misled>>

\* Defect: a count at the limit is taken for one beyond it.
LimitOffByOne(t) ==
  /\ run[t].at = "limit"
  /\ \E n \in Seen(info.cpu_count, machine.cpus) :
       run' = [run EXCEPT ![t].at = IF n = 0 \/ n >= AAL_MAX_CPUS THEN "one_cpu" ELSE "done"]
  /\ UNCHANGED <<info, initialized, misled>>

\* No CPU, or more than there is room for, counts as one.
LimitCpus(t) ==
  /\ run[t].at = "limit"
  /\ \E n \in Seen(info.cpu_count, machine.cpus) :
       run' = [run EXCEPT ![t].at = IF CpuCount(n) # n THEN "one_cpu" ELSE "done"]
  /\ UNCHANGED <<info, initialized, misled>>

StoreOneCpu(t) ==
  /\ Goes(t, "one_cpu", "done")
  /\ info' = [info EXCEPT !.cpu_count = 1, !.online = 1]
  /\ UNCHANGED <<initialized, misled>>

SetInitialized(t) ==
  /\ Goes(t, "done", After(t))
  /\ initialized' = TRUE
  /\ UNCHANGED <<info, misled>>

aal_shutdown(t) ==
  /\ run[t].at = "idle"
  /\ initialized' = FALSE
  /\ UNCHANGED <<info, run, misled>>

-----------------------------------------------------------------------------
(* The answers.                                                            *)

Wrong(fields) == {f \in fields : info[f] # Detected(machine)[f]}

\* Behind endian and the counts in the structure; memcpy gets there later.
CopiedLast ==
  {"little", "mem_model", "cpu_count", "online", "threads", "total_ram", "base_page_size"}

\* Defect: the description is copied without a look at whether it is there.
GetUnchecked(t) ==
  /\ run[t].at = "idle"
  /\ run' = [run EXCEPT ![t] = [at |-> "copy", lazy |-> TRUE, read |-> 0]]
  /\ UNCHANGED <<info, initialized, misled>>

aal_get_system_info(t) ==
  /\ run[t].at = "idle"
  /\ run' = [run EXCEPT ![t] = [at |-> IF initialized THEN "copy" ELSE "check",
                                lazy |-> TRUE, read |-> 0]]
  /\ UNCHANGED <<info, initialized, misled>>

CopyFirst(t) ==
  /\ Goes(t, "copy", "copy_rest")
  /\ misled' = [misled EXCEPT ![t] = Wrong(Field \ CopiedLast) # {}]
  /\ UNCHANGED <<info, initialized>>

CopyRest(t) ==
  /\ Goes(t, "copy_rest", "idle")
  /\ misled' = [misled EXCEPT ![t] = @ \/ Wrong(CopiedLast) # {}]
  /\ UNCHANGED <<info, initialized>>

\* aal_get_page_size, aal_cpu_has_avx2 and the others read one field as it is,
\* which is zero before any initialization; only then may they be asked too early.
Getter(t, f) ==
  /\ run[t].at = "idle"
  /\ misled' = [misled EXCEPT ![t] = Wrong({f}) # {} /\ initialized
                                      /\ \A u \in Threads : ~Initializing(u)]
  /\ UNCHANGED <<info, initialized, run>>

Step(t) ==
  \/ aal_init(t) \/ CheckInitialized(t) \/ Clear(t) \/ aal_detect_total_ram(t)
  \/ ClearCpu(t) \/ Features(t) \/ FeaturesLeaf7(t) \/ ReadFlags(t) \/ StoreLevel(t)
  \/ DefaultPage(t) \/ aal_detect_memory(t) \/ ReadPageSize(t) \/ StoreBasePage(t)
  \/ ClearNodes(t) \/ aal_detect_numa(t) \/ aal_detect_endian(t) \/ StoreOnline(t)
  \/ ReadOnline(t) \/ StoreThreads(t) \/ LimitCpus(t) \/ StoreOneCpu(t)
  \/ SetInitialized(t) \/ aal_shutdown(t)
  \/ aal_get_system_info(t) \/ CopyFirst(t) \/ CopyRest(t)
  \/ \E f \in Field : Getter(t, f)

Next ==
  /\ \E t \in Threads : Step(t)
  /\ overlapped' = (overlapped \/ Overlap \/ Overlap')
  /\ UNCHANGED machine

Spec == Init /\ [][Next]_vars

-----------------------------------------------------------------------------
\* Once initialization is over the description is the machine's.  If calls have
\* overlapped, a field computed from another one may for ever be what a cleared or
\* half filled structure gave: a level too low, one CPU or thread, a default page, no memory.
DetectionSettles ==
  initialized /\ (\A t \in Threads : ~Inside(t))
    => /\ Wrong(Field) \subseteq Derived
       /\ Wrong(Field) # {} => overlapped
       /\ info.simd_level <= LevelOf(machine.simd)
       /\ info.cpu_count \in {1, CpuCount(machine.cpus)}

\* Whoever asks for the whole description gets the machine's, first caller or not,
\* and so does a getter between initializations, unless calls overlap.
SnapshotWhole ==
  \A t \in Threads : misled[t] => overlapped

=============================================================================
