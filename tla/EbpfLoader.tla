----------------------------- MODULE EbpfLoader ------------------------------
(***************************************************************************)
(* The eBPF loader (ebpf/ebpf_loader.c) used by one process, and the       *)
(* counter of its program (ebpf/uroam.bpf.c).  The loader keeps one        *)
(* object; the links that bpf_program__attach returns are thrown away, so  *)
(* that a probe stays attached, and keeps its maps alive, until the        *)
(* process ends.  Every probe also emits an event, which is lost because   *)
(* nobody opens the perf buffer; only the page allocation probe counts.    *)
(***************************************************************************)
EXTENDS Integers

CONSTANTS
  Objects,      \* identities of loaded objects
  Probes,       \* the programs of an object
  Counting,     \* the one of them that counts, uroam_alloc_pages
  MaxLinks,     \* cap on how often one program is attached
  MaxAllocated  \* cap on what the machine allocates

VARIABLES
  obj,        \* g_ebpf_ctx.obj, as a set
  open,       \* objects that have been loaded and not closed
  fresh,      \* identities not used yet
  links,      \* links[o][p]: how often program p of object o is attached
  total,      \* total[o]: the value in its uroam_stats
  todo,       \* the programs ebpf_attach has still to try
  running,    \* g_ebpf_running
  allocated,  \* pages the machine has allocated
  before,     \* before[o]: how many when its counting program was first attached
  misused     \* ebpf_init over a loaded object, or a program attached again

vars == <<obj, open, fresh, links, total, todo, running, allocated, before, misused>>

TypeOK ==
  /\ fresh \in SUBSET Objects /\ open \in SUBSET (Objects \ fresh) /\ obj \in SUBSET open
  /\ links \in [Objects -> [Probes -> 0..MaxLinks]]
  /\ total \in [Objects -> Nat]
  /\ before \in [Objects -> 0..MaxAllocated] /\ allocated \in 0..MaxAllocated
  /\ todo \in SUBSET Probes /\ (todo # {} => obj # {})
  /\ running \in BOOLEAN /\ misused \in BOOLEAN

Init ==
  /\ obj = {} /\ open = {} /\ fresh = Objects
  /\ links = [o \in Objects |-> [p \in Probes |-> 0]]
  /\ total = [o \in Objects |-> 0] /\ before = [o \in Objects |-> 0]
  /\ todo = {} /\ running = FALSE /\ allocated = 0 /\ misused = FALSE

\* No call of the process is in progress.
Quiet == todo = {}

-----------------------------------------------------------------------------
\* The context is cleared first: an object loaded earlier is forgotten, not closed.
\* Opening or loading the new one may fail.
ebpf_init ==
  /\ Quiet
  /\ misused' = (misused \/ obj # {})
  /\ \/ obj' = {} /\ UNCHANGED <<open, fresh>>
     \/ \E o \in fresh : /\ obj' = {o} /\ open' = open \cup {o}
                         /\ fresh' = fresh \ {o}
  /\ UNCHANGED <<links, total, todo, running, allocated, before>>

ebpf_attach ==
  /\ Quiet /\ obj # {}
  /\ todo' = Probes
  /\ UNCHANGED <<obj, open, fresh, links, total, running, allocated, before, misused>>

\* One program is attached, or cannot be: then the next is tried, and in the end
\* the loader is running whatever came of it.
AttachProgram(p) ==
  /\ p \in todo
  /\ \/ UNCHANGED <<links, before>>
     \/ \E o \in obj :
          /\ links[o][p] < MaxLinks
          /\ links' = [links EXCEPT ![o][p] = @ + 1]
          /\ before' = IF p = Counting /\ links[o][p] = 0
                        THEN [before EXCEPT ![o] = allocated] ELSE before
  /\ misused' = (misused \/ \E o \in obj : links[o][p] > 0)
  /\ todo' = todo \ {p}
  /\ running' = IF todo' = {} THEN TRUE ELSE running
  /\ UNCHANGED <<obj, open, fresh, total, allocated>>

ebpf_start_monitoring ==
  /\ Quiet /\ obj # {}
  /\ running' = TRUE
  /\ UNCHANGED <<obj, open, fresh, links, total, todo, allocated, before, misused>>

ebpf_stop_monitoring ==
  /\ Quiet
  /\ running' = FALSE
  /\ UNCHANGED <<obj, open, fresh, links, total, todo, allocated, before, misused>>

\* Defect: the object is closed but not forgotten.
ShutdownKeepsObject ==
  /\ Quiet
  /\ running' = FALSE
  /\ open' = open \ obj
  /\ UNCHANGED <<obj, fresh, links, total, todo, allocated, before, misused>>

ebpf_shutdown ==
  /\ Quiet
  /\ running' = FALSE
  /\ open' = open \ obj
  /\ obj' = {}
  /\ UNCHANGED <<fresh, links, total, todo, allocated, before, misused>>

\* Every probe attached adds, whether its object is still known or not.
uroam_alloc_pages(size) ==
  /\ allocated + size <= MaxAllocated
  /\ allocated' = allocated + size
  /\ total' = [o \in Objects |-> total[o] + links[o][Counting] * size]
  /\ UNCHANGED <<obj, open, fresh, links, todo, running, before, misused>>

\* The kernel lets go of everything the process held; identities are used again.
ProcessEnds ==
  /\ obj' = {} /\ open' = {} /\ fresh' = Objects
  /\ links' = [o \in Objects |-> [p \in Probes |-> 0]]
  /\ total' = [o \in Objects |-> 0] /\ before' = [o \in Objects |-> 0]
  /\ todo' = {} /\ running' = FALSE /\ misused' = FALSE
  /\ UNCHANGED allocated

Next ==
  \/ ebpf_init \/ ebpf_attach \/ (\E p \in Probes : AttachProgram(p))
  \/ ebpf_start_monitoring \/ ebpf_stop_monitoring \/ ebpf_shutdown
  \/ \E size \in {1, 2} : uroam_alloc_pages(size)
  \/ ProcessEnds

Spec == Init /\ [][Next]_vars

-----------------------------------------------------------------------------
\* total_free is not filled in by anything.
ebpf_get_stats(o) == total[o]

\* What an object's statistics show is what was allocated since its counting program
\* was attached, or nothing without it, unless it is attached twice: then more.
ReadsExactly(o) ==
  LET k == links[o][Counting]
      since == IF k = 0 THEN 0 ELSE allocated - before[o]
  IN  ebpf_get_stats(o) >= since /\ (k <= 1 => ebpf_get_stats(o) = since)

\* However the loader is used, an object in use is open and its statistics miss no
\* allocation.  Used as it must be, which nothing in it enforces, no object is out
\* of reach and monitoring never runs without one.
LoaderSound ==
  /\ obj \subseteq open
  /\ \A o \in obj : ReadsExactly(o)
  /\ ~misused => open = obj /\ (running => obj # {})
=============================================================================
