------------------------------- MODULE Memopt -------------------------------
(***************************************************************************)
(* The allocator library memopt (src/shared/memopt.c): blocks that are     *)
(* mapped one by one and counted under g_lock, and a pool that is cut up   *)
(* from its start.  Threads of one process call it.                        *)
(*                                                                         *)
(* Sizes and offsets are in units of which PageSize make a page; a size_t  *)
(* wraps at SizeMod, the uint64_t counters at CountMod.  Addresses are     *)
(* pages of a small address space.  Callers keep to the rules of C: a      *)
(* block is freed or reallocated once, by whoever; the pool is destroyed   *)
(* when nobody uses it.                                                    *)
(***************************************************************************)
EXTENDS Integers, FiniteSets

CONSTANTS
  Threads,
  NPages,        \* pages of the address space
  PageSize,      \* MEMOPT_PAGE_SIZE
  HugePages,     \* pages in a huge page
  SizeMod,       \* 2^64
  CountMod,      \* 2^64
  Sizes,         \* sizes asked for, and products nmemb * size of memopt_calloc
  PoolSizes,     \* sizes of pools
  PoolRequests   \* sizes asked of a pool

\* The address space fits into a size_t; a request to a pool is any size_t.
ASSUME MemoptLibAssumption ==
  /\ {NPages, PageSize, HugePages, SizeMod, CountMod} \subseteq Nat \ {0}
  /\ NPages * PageSize < SizeMod
  /\ Sizes \subseteq Nat
  /\ PoolSizes \subseteq 1..SizeMod - 1 /\ PoolRequests \subseteq 0..SizeMod - 1

VARIABLES
  mapped,      \* pages that are mapped
  live,        \* blocks in the hands of callers
  thread,      \* thread[t]: where a call is, the block it makes and the one it takes back
  initialized, \* g_initialized
  counts,      \* g_allocation_count, g_free_count, g_pool_used
  pool,        \* the pool, if there is one: its mapping, size and used
  handed,      \* what the pool has handed out
  atReset,     \* counted blocks when the counters were last reset
  odd,         \* a size other than a page was counted, or g_pool_used cleared under blocks
  bigFreed     \* a huge block or one of several pages was freed

libVars   == <<initialized, counts, atReset, odd>>
blockVars == <<live, thread, initialized, counts, atReset, odd, bigFreed>>
poolVars  == <<pool, handed>>
vars      == <<mapped, live, thread, initialized, counts, pool, handed, atReset, odd, bigFreed>>

Page   == 0..NPages - 1
Block  == [base : Page, pages : 1..NPages, size : 0..SizeMod - 1, huge : BOOLEAN]
Extent(b) == b.base .. b.base + b.pages - 1

Few(S) == {{}} \cup {{x} : x \in S}      \* none or one of S

ThreadType == [at : {"idle", "count", "copy", "uncount", "unmap"},
               new : Few(Block), old : Few(Block)]
PoolType == [base : Page, pages : 1..NPages, size : PoolSizes, used : 0..SizeMod - 1]

Idle == [at |-> "idle", new |-> {}, old |-> {}]

TypeOK ==
  /\ mapped \in SUBSET Page
  /\ live \in SUBSET Block
  /\ thread \in [Threads -> ThreadType]
  /\ initialized \in BOOLEAN /\ odd \in BOOLEAN /\ bigFreed \in BOOLEAN
  /\ counts \in [alloc : 0..CountMod - 1, free : 0..CountMod - 1, used : 0..SizeMod - 1]
  /\ pool \in Few(PoolType)
  /\ handed \in SUBSET [off : Nat, len : PoolRequests]

Init ==
  /\ mapped = {} /\ live = {}
  /\ thread = [t \in Threads |-> Idle]
  /\ initialized = FALSE
  /\ counts = [alloc |-> 0, free |-> 0, used |-> 0]
  /\ pool = {} /\ handed = {}
  /\ atReset = 0 /\ odd = FALSE /\ bigFreed = FALSE

\* Blocks counted in g_allocation_count and not yet in g_free_count.
Counted == live \cup UNION ({thread[t].new : t \in {u \in Threads : thread[u].at # "count"}}
                        \cup {thread[t].old : t \in {u \in Threads : thread[u].at # "unmap"}})

-----------------------------------------------------------------------------
(* memopt_init, memopt_shutdown                                             *)

memopt_init ==
  /\ ~initialized
  /\ initialized' = TRUE
  /\ counts' = [alloc |-> 0, free |-> 0, used |-> 0]
  /\ atReset' = Cardinality(Counted)
  /\ odd' = (Counted # {})
  /\ UNCHANGED <<mapped, live, thread, bigFreed, pool, handed>>

memopt_shutdown ==
  /\ initialized' = FALSE
  /\ counts' = [counts EXCEPT !.used = 0]
  /\ odd' = (odd \/ Counted # {})
  /\ UNCHANGED <<mapped, live, thread, bigFreed, atReset, pool, handed>>

-----------------------------------------------------------------------------
(* memopt_alloc_flags: map, then count under the lock.                      *)

\* mmap: some run of free pages, or whole huge pages, aligned.  A length of 0 is
\* an error.
Mappings(size, huge) ==
  LET small == (size + PageSize - 1) \div PageSize
      n     == IF huge THEN ((small + HugePages - 1) \div HugePages) * HugePages ELSE small
  IN {b \in [base : Page, pages : {n}, size : {size}, huge : {huge}] :
        /\ n > 0 /\ b.base + n <= NPages /\ Extent(b) \cap mapped = {}
        /\ huge => b.base % HugePages = 0}

\* The block that thread t is to have, in place of old for memopt_realloc.  When
\* no mapping is to be had the call returns NULL and leaves old alone.
Allocate(t, old, size, huge) ==
  \E b \in Mappings(size, huge) :
    /\ mapped' = mapped \cup Extent(b)
    /\ thread' = [thread EXCEPT ![t] = [at |-> "count", new |-> {b}, old |-> old]]

\* memopt_alloc and memopt_calloc, whose product wraps.  MEMOPT_ALLOC_HUGEPAGE
\* falls back to ordinary pages.
Alloc(t, n) ==
  /\ thread[t].at = "idle"
  /\ \E huge \in BOOLEAN : Allocate(t, {}, n % SizeMod, huge)
  /\ UNCHANGED <<live, bigFreed, libVars, poolVars>>

memopt_realloc(t, b, n) ==
  /\ thread[t].at = "idle"
  /\ Allocate(t, {b}, n % SizeMod, FALSE)
  /\ live' = live \ {b}
  /\ UNCHANGED <<bigFreed, libVars, poolVars>>

\* Defect: a realloc does not count its new block.
CountUnlessRealloc(t) ==
  /\ thread[t].at = "count"
  /\ \E b \in thread[t].new :
       /\ counts' = [counts EXCEPT !.alloc = IF thread[t].old = {} THEN (@ + 1) % CountMod ELSE @,
                                   !.used = (@ + b.size) % SizeMod]
       /\ odd' = (odd \/ b.size # PageSize)
       /\ IF thread[t].old = {}
          THEN live' = live \cup {b} /\ thread' = [thread EXCEPT ![t] = Idle]
          ELSE thread' = [thread EXCEPT ![t].at = "copy"] /\ UNCHANGED live
  /\ UNCHANGED <<mapped, initialized, bigFreed, atReset, poolVars>>

Count(t) ==
  /\ thread[t].at = "count"
  /\ \E b \in thread[t].new :
       /\ counts' = [counts EXCEPT !.alloc = (@ + 1) % CountMod, !.used = (@ + b.size) % SizeMod]
       /\ odd' = (odd \/ b.size # PageSize)
       /\ IF thread[t].old = {}
          THEN live' = live \cup {b} /\ thread' = [thread EXCEPT ![t] = Idle]
          ELSE thread' = [thread EXCEPT ![t].at = "copy"] /\ UNCHANGED live
  /\ UNCHANGED <<mapped, initialized, bigFreed, atReset, poolVars>>

\* memcpy of one page, whatever the sizes.
Copy(t) ==
  /\ thread[t].at = "copy"
  /\ thread' = [thread EXCEPT ![t].at = "uncount"]
  /\ UNCHANGED <<mapped, live, bigFreed, libVars, poolVars>>

-----------------------------------------------------------------------------
(* memopt_free: count under the lock, then unmap.                           *)

Free(t, b) ==
  /\ thread[t].at = "idle"
  /\ live' = live \ {b}
  /\ thread' = [thread EXCEPT ![t] = [at |-> "uncount", new |-> {}, old |-> {b}]]
  /\ UNCHANGED <<mapped, bigFreed, libVars, poolVars>>

Uncount(t) ==
  /\ thread[t].at = "uncount"
  /\ counts' = [counts EXCEPT !.free = (@ + 1) % CountMod,
                              !.used = IF @ > PageSize THEN @ - PageSize ELSE 0]
  /\ thread' = [thread EXCEPT ![t].at = "unmap"]
  /\ UNCHANGED <<mapped, live, initialized, bigFreed, atReset, odd, poolVars>>

\* munmap(ptr, 4096): one page, whatever the size; of a huge page it refuses.
Unmapped(b) == IF b.huge THEN {} ELSE {b.base}

\* Defect: as many pages are unmapped as the biggest block may have.
UnmapTooMuch(t) ==
  /\ thread[t].at = "unmap"
  /\ \E b \in thread[t].old :
       /\ mapped' = mapped \ (b.base .. b.base + 1)
       /\ bigFreed' = (bigFreed \/ b.huge \/ b.pages > 1)
  /\ live' = live \cup thread[t].new
  /\ thread' = [thread EXCEPT ![t] = Idle]
  /\ UNCHANGED <<libVars, poolVars>>

Unmap(t) ==
  /\ thread[t].at = "unmap"
  /\ \E b \in thread[t].old :
       /\ mapped' = mapped \ Unmapped(b)
       /\ bigFreed' = (bigFreed \/ b.huge \/ b.pages > 1)
  /\ live' = live \cup thread[t].new
  /\ thread' = [thread EXCEPT ![t] = Idle]
  /\ UNCHANGED <<libVars, poolVars>>

-----------------------------------------------------------------------------
(* The pool                                                                 *)

PoolOf(b) == [base |-> b.base, pages |-> b.pages, size |-> b.size, used |-> 0]

memopt_pool_create(size) ==
  /\ pool = {}
  /\ \E b \in Mappings(size, FALSE) : mapped' = mapped \cup Extent(b) /\ pool' = {PoolOf(b)}
  /\ handed' = {}
  /\ UNCHANGED blockVars

\* Defect: one page is unmapped, as in memopt_free.
PoolDestroyPage ==
  /\ pool # {}
  /\ mapped' = mapped \ {p.base : p \in pool}
  /\ pool' = {} /\ handed' = {}
  /\ UNCHANGED blockVars

memopt_pool_destroy ==
  /\ pool # {}
  /\ mapped' = mapped \ UNION {Extent(p) : p \in pool}
  /\ pool' = {} /\ handed' = {}
  /\ UNCHANGED blockVars

\* Defect: only the first unit of a request has to fit.
PoolAllocStart(n) ==
  /\ \E p \in pool :
       /\ (p.used + 1) % SizeMod <= p.size
       /\ handed' = handed \cup {[off |-> p.used, len |-> n]}
       /\ pool' = {[p EXCEPT !.used = (@ + n) % SizeMod]}
  /\ UNCHANGED <<mapped, blockVars>>

\* Under pool->lock; nothing changes when the request does not fit.  The sum is a
\* size_t: one that wraps passes the test, and takes "used" back.
memopt_pool_alloc(n) ==
  /\ \E p \in pool :
       /\ (p.used + n) % SizeMod <= p.size
       /\ handed' = handed \cup {[off |-> p.used, len |-> n]}
       /\ pool' = {[p EXCEPT !.used = (@ + n) % SizeMod]}
  /\ UNCHANGED <<mapped, blockVars>>

-----------------------------------------------------------------------------
ThreadStep(t) ==
  \/ \E n \in Sizes : Alloc(t, n)
  \/ \E n \in Sizes, b \in live : memopt_realloc(t, b, n)
  \/ \E b \in live : Free(t, b)
  \/ Count(t) \/ Copy(t) \/ Uncount(t) \/ Unmap(t)

PoolStep ==
  \/ \E n \in PoolSizes : memopt_pool_create(n)
  \/ \E n \in PoolRequests : memopt_pool_alloc(n)
  \/ memopt_pool_destroy

Next == memopt_init \/ memopt_shutdown \/ PoolStep \/ \E t \in Threads : ThreadStep(t)

Spec == Init /\ [][Next]_vars

-----------------------------------------------------------------------------
(* Properties                                                               *)

Held(t) == thread[t].new \cup thread[t].old
Owned   == live \cup UNION {Held(t) : t \in Threads}
Pages(S) == UNION {Extent(b) : b \in S}

\* A block is mapped as long as somebody has it, through every call under way, and
\* no two share a page: no free of another block, and no destroyed pool, ever takes
\* a page of it away.
BlocksMapped ==
  /\ Pages(Owned \cup pool) \subseteq mapped
  /\ \A b, c \in Owned : b = c \/ Extent(b) \cap Extent(c) = {}
  /\ \A b \in Owned, p \in pool : Extent(b) \cap Extent(p) = {}

\* What is mapped and belongs to nobody is left of a huge block, or of one of
\* several pages: blocks of a page and pools go back whole.
OnlyBigStranded == ~bigFreed => mapped = Pages(Owned \cup pool)

\* The two counters differ by the blocks there are, whatever calls are under way
\* and however often the library is shut down and initialized over live blocks; and
\* as long as every block is one page g_pool_used is their number, to the last one.
CountsBalance ==
  /\ (counts.alloc - counts.free) % CountMod = (Cardinality(Counted) - atReset) % CountMod
  /\ ~odd => counts.used = PageSize * Cardinality(Counted)

\* A request for which "used + size" wrapped was granted.
SumWrapped == \E h \in handed : h.off + h.len >= SizeMod

\* What a pool hands out lies inside the pool and overlaps nothing it handed out
\* before, up to its last unit, until it grants a request whose size makes the sum
\* of memopt_pool_alloc wrap; even after that every part begins inside the pool.
PoolDisjoint ==
  /\ \A h \in handed, p \in pool : h.off <= p.size
  /\ ~SumWrapped =>
       /\ \A h \in handed, p \in pool : h.off + h.len <= p.size
       /\ \A h, k \in handed : h = k \/ h.off + h.len <= k.off \/ k.off + k.len <= h.off
=============================================================================
