---------------------------- MODULE MemoptProofs ----------------------------
(***************************************************************************)
(* Proofs about the allocator library: for any threads, page and pool      *)
(* sizes, blocks stay mapped and apart, and so do the parts of a pool      *)
(* until a request makes the sum of sizes wrap.                            *)
(***************************************************************************)
EXTENDS Memopt, FiniteSetTheorems, TLAPS

\* A call has the blocks its place calls for.
PlaceInv ==
  \A t \in Threads :
    /\ thread[t].at = "idle" => Held(t) = {}
    /\ thread[t].at = "count" => thread[t].new # {}
    /\ thread[t].at \in {"copy", "uncount", "unmap"} => thread[t].old # {}

\* Nobody has a block that another has too.
SoleHolder ==
  /\ \A t \in Threads : Held(t) \cap live = {} /\ thread[t].new \cap thread[t].old = {}
  /\ \A t, u \in Threads : t # u => Held(t) \cap Held(u) = {}

\* The pool's mark stays inside it; until a sum wraps, all that is handed out lies
\* below the mark.
MarkInv ==
  /\ \A p \in pool : p.used <= p.size
  /\ ~SumWrapped => \A p \in pool, h \in handed : h.off + h.len <= p.used
  /\ pool = {} => handed = {}

IndInv ==
  /\ TypeOK /\ PlaceInv /\ SoleHolder /\ MarkInv
  /\ BlocksMapped /\ OnlyBigStranded /\ PoolDisjoint

USE MemoptLibAssumption

-----------------------------------------------------------------------------
\* The remainders the counters and sizes are reduced to.
LEMMA Remainder ==
  ASSUME NEW n \in Nat, NEW m \in Nat \ {0} PROVE n % m \in 0..m - 1
  OBVIOUS

\* mmap gives well-formed blocks of free pages.
LEMMA MappingsFree ==
  ASSUME NEW size \in 0..SizeMod - 1, NEW huge \in BOOLEAN, NEW b \in Mappings(size, huge)
  PROVE  b \in Block /\ Extent(b) \cap mapped = {} /\ b.huge = huge
<1> DEFINE small == (size + PageSize - 1) \div PageSize
           n     == IF huge THEN ((small + HugePages - 1) \div HugePages) * HugePages ELSE small
<1>1. small \in Int
  OBVIOUS
<1>2. n \in Int
  <2>1. (small + HugePages - 1) \div HugePages \in Int
    BY <1>1
  <2> QED BY <1>1, <2>1
<1>3. /\ b \in [base : Page, pages : {n}, size : {size}, huge : {huge}]
      /\ n > 0 /\ b.base + n <= NPages /\ Extent(b) \cap mapped = {}
  BY DEF Mappings
<1> HIDE DEF n
<1>4. n \in 1..NPages
  BY <1>2, <1>3 DEF Page
<1> QED BY <1>3, <1>4 DEF Block

\* A block has a first page.
LEMMA FirstPage == ASSUME NEW b \in Block PROVE b.base \in Extent(b) /\ Extent(b) \subseteq Page \cup Nat
  BY DEF Block, Extent, Page

LEMMA OneOf == ASSUME NEW S, NEW f \in Few(S), NEW x \in f PROVE f = {x} /\ x \in S
  BY DEF Few

\* What a library starts with satisfies the invariant.
LEMMA InitIndInv == Init => IndInv
<1> SUFFICES ASSUME Init PROVE IndInv
  OBVIOUS
<1>1. Idle \in ThreadType
  BY DEF Idle, ThreadType, Few
<1>2. counts \in [alloc : 0..CountMod - 1, free : 0..CountMod - 1, used : 0..SizeMod - 1]
  BY DEF Init
<1>3. pool \in Few(PoolType)
  BY DEF Init, Few
<1>4. TypeOK
  BY <1>1, <1>2, <1>3 DEF Init, TypeOK
<1>5. \A t \in Threads : Held(t) = {} /\ thread[t].new = {} /\ thread[t].old = {}
  BY DEF Init, Held, Idle
<1>6. PlaceInv /\ SoleHolder /\ MarkInv
  BY <1>5 DEF Init, PlaceInv, SoleHolder, MarkInv, Idle
<1>7. Owned = {} /\ pool = {} /\ mapped = {} /\ handed = {}
  BY <1>5 DEF Init, Owned
<1>8. BlocksMapped /\ OnlyBigStranded /\ PoolDisjoint
  BY <1>7 DEF BlocksMapped, OnlyBigStranded, PoolDisjoint, Pages
<1> QED BY <1>4, <1>6, <1>8 DEF IndInv

-----------------------------------------------------------------------------
(* Ownership: what the steps do to the set of owned blocks and to the pool. *)

Ownership == BlocksMapped /\ OnlyBigStranded

\* A fresh block joins the owned ones: memopt_alloc, memopt_realloc.
LEMMA FreshBlock ==
  ASSUME Ownership, NEW b,
         Extent(b) \cap mapped = {}, mapped' = mapped \cup Extent(b),
         Owned' = Owned \cup {b}, UNCHANGED <<pool, bigFreed>>
  PROVE  Ownership'
<1>1. Pages(Owned' \cup pool) = Pages(Owned \cup pool) \cup Extent(b)
  BY DEF Pages
<1>2. \A c \in Owned \cup pool : Extent(c) \subseteq mapped
  BY DEF Ownership, BlocksMapped, Pages
<1>3. \A c, d \in Owned' : c = d \/ Extent(c) \cap Extent(d) = {}
  BY <1>2 DEF Ownership, BlocksMapped
<1>4. \A c \in Owned', p \in pool : Extent(c) \cap Extent(p) = {}
  BY <1>2 DEF Ownership, BlocksMapped
<1>5. Pages(Owned' \cup pool') = Pages(Owned' \cup pool)
  OBVIOUS
<1> QED BY <1>1, <1>3, <1>4, <1>5 DEF Ownership, BlocksMapped, OnlyBigStranded, Pages

\* A fresh pool: memopt_pool_create.
LEMMA FreshPool ==
  ASSUME Ownership, NEW q, pool = {}, pool' = {q},
         Extent(q) \cap mapped = {}, mapped' = mapped \cup Extent(q),
         Owned' = Owned, UNCHANGED bigFreed
  PROVE  Ownership'
<1>1. Pages(Owned' \cup pool') = Pages(Owned \cup pool) \cup Extent(q)
  BY DEF Pages
<1>2. \A c \in Owned : Extent(c) \subseteq mapped
  BY DEF Ownership, BlocksMapped, Pages
<1>3. \A c \in Owned', p \in pool' : Extent(c) \cap Extent(p) = {}
  BY <1>2
<1>4. \A c, d \in Owned' : c = d \/ Extent(c) \cap Extent(d) = {}
  BY DEF Ownership, BlocksMapped
<1> QED BY <1>1, <1>3, <1>4 DEF Ownership, BlocksMapped, OnlyBigStranded, Pages

\* The pool goes with all its pages: memopt_pool_destroy.
LEMMA PoolGone ==
  ASSUME Ownership, pool' = {}, mapped' = mapped \ UNION {Extent(p) : p \in pool},
         Owned' = Owned, UNCHANGED bigFreed
  PROVE  Ownership'
<1>1. \A c \in Owned, p \in pool : Extent(c) \cap Extent(p) = {}
  BY DEF Ownership, BlocksMapped
<1>2. Pages(Owned' \cup pool') = Pages(Owned)
  BY DEF Pages
<1>3. Pages(Owned) \subseteq mapped'
  BY <1>1 DEF Ownership, BlocksMapped, Pages
<1>4. mapped = Pages(Owned \cup pool) => mapped' \subseteq Pages(Owned)
  BY DEF Pages
<1> QED BY <1>1, <1>2, <1>3, <1>4 DEF Ownership, BlocksMapped, OnlyBigStranded

\* memopt_free: the first page goes, unless it is a huge one.
LEMMA BlockGone ==
  ASSUME Ownership, NEW b \in Block, b \in Owned,
         Owned' = Owned \ {b}, UNCHANGED pool,
         mapped' = mapped \ Unmapped(b), bigFreed' = (bigFreed \/ b.huge \/ b.pages > 1)
  PROVE  Ownership'
<1>1. Unmapped(b) \subseteq Extent(b)
  BY FirstPage DEF Unmapped
<1>2. \A c \in Owned' \cup pool : Extent(c) \cap Extent(b) = {} /\ Extent(c) \subseteq mapped
  BY DEF Ownership, BlocksMapped, Pages
<1>3. Pages(Owned' \cup pool') \subseteq mapped'
  BY <1>1, <1>2 DEF Pages
<1>4. ASSUME ~bigFreed' PROVE mapped' = Pages(Owned' \cup pool')
  <2>1. ~bigFreed /\ ~b.huge /\ b.pages = 1
    <3>1. ~(bigFreed \/ b.huge \/ b.pages > 1)
      BY <1>4, Zenon
    <3>2. b.pages \in 1..NPages
      BY DEF Block
    <3> QED BY <3>1, <3>2
  <2>2. Unmapped(b) = Extent(b)
    BY <2>1 DEF Unmapped, Extent, Block, Page
  <2>3. mapped = Pages(Owned \cup pool)
    BY <2>1 DEF Ownership, OnlyBigStranded
  <2>4. Pages(Owned \cup pool) \subseteq Pages(Owned' \cup pool) \cup Extent(b)
    BY DEF Pages
  <2> QED BY <1>3, <2>2, <2>3, <2>4
<1>5. /\ \A c, d \in Owned' : c = d \/ Extent(c) \cap Extent(d) = {}
      /\ \A c \in Owned', p \in pool' : Extent(c) \cap Extent(p) = {}
  BY DEF Ownership, BlocksMapped
<1> QED BY <1>3, <1>4, <1>5 DEF Ownership, BlocksMapped, OnlyBigStranded

\* Steps that hand blocks around, or cut the pool, leave all pages where they are.
LEMMA SamePages ==
  ASSUME Ownership, Owned' = Owned, UNCHANGED <<mapped, bigFreed>>,
         {Extent(p) : p \in pool'} = {Extent(p) : p \in pool}
  PROVE  Ownership'
<1>1. Pages(Owned' \cup pool') = Pages(Owned \cup pool)
  <2>1. UNION {Extent(p) : p \in pool'} = UNION {Extent(p) : p \in pool}
    OBVIOUS
  <2>2. Pages(Owned' \cup pool') = Pages(Owned) \cup UNION {Extent(p) : p \in pool'}
    BY DEF Pages
  <2>3. Pages(Owned \cup pool) = Pages(Owned) \cup UNION {Extent(p) : p \in pool}
    BY DEF Pages
  <2> QED BY <2>1, <2>2, <2>3
<1>2. \A c \in Owned', p \in pool' : Extent(c) \cap Extent(p) = {}
  <2> TAKE c \in Owned', p \in pool'
  <2>1. PICK q \in pool : Extent(q) = Extent(p)
    OBVIOUS
  <2> QED BY <2>1 DEF Ownership, BlocksMapped
<1> QED BY <1>1, <1>2 DEF Ownership, BlocksMapped, OnlyBigStranded

-----------------------------------------------------------------------------
(* The steps of a thread.                                                   *)

Others(t) == UNION {Held(u) : u \in Threads \ {t}}

\* What a thread has, what the others have and what callers have are apart.
LEMMA Apart ==
  ASSUME SoleHolder, NEW t \in Threads
  PROVE  /\ Owned = live \cup Held(t) \cup Others(t)
         /\ Held(t) \cap live = {} /\ Others(t) \cap live = {}
         /\ Held(t) \cap Others(t) = {}
  BY DEF SoleHolder, Owned, Others

\* A thread goes on to place s, and callers have L: whoever has nothing in common
\* before has nothing in common after.
LEMMA Handover ==
  ASSUME TypeOK, PlaceInv, SoleHolder, NEW t \in Threads, NEW s \in ThreadType, NEW L,
         thread' = [thread EXCEPT ![t] = s], live' = L,
         s.at = "idle" => s.new = {} /\ s.old = {},
         s.at = "count" => s.new # {},
         s.at \in {"copy", "uncount", "unmap"} => s.old # {},
         s.new \cap s.old = {}, (s.new \cup s.old) \cap L = {},
         Others(t) \cap (s.new \cup s.old \cup L) = {}
  PROVE  PlaceInv' /\ SoleHolder' /\ Owned' = L \cup s.new \cup s.old \cup Others(t)
<1>1. thread \in [Threads -> ThreadType]
  BY DEF TypeOK
<1>2. thread'[t] = s /\ \A u \in Threads \ {t} : thread'[u] = thread[u]
  BY <1>1
<1>3. Held(t)' = s.new \cup s.old /\ \A u \in Threads \ {t} : Held(u)' = Held(u)
  BY <1>2 DEF Held
<1>4. PlaceInv'
  <2> SUFFICES ASSUME NEW u \in Threads
               PROVE  /\ thread'[u].at = "idle" => Held(u)' = {}
                      /\ thread'[u].at = "count" => thread'[u].new # {}
                      /\ thread'[u].at \in {"copy", "uncount", "unmap"} => thread'[u].old # {}
    BY DEF PlaceInv
  <2>1. CASE u = t
    BY <2>1, <1>2, <1>3
  <2>2. CASE u # t
    BY <2>2, <1>2, <1>3 DEF PlaceInv
  <2> QED BY <2>1, <2>2
<1>5. \A u \in Threads \ {t} : Held(u) \subseteq Others(t)
  BY DEF Others
<1>6. SoleHolder'
  <2>1. ASSUME NEW u \in Threads
        PROVE  Held(u)' \cap live' = {} /\ thread'[u].new \cap thread'[u].old = {}
    <3>1. CASE u = t
      BY <3>1, <1>2, <1>3
    <3>2. CASE u # t
      <4>1. Held(u)' \cap live' = {}
        BY <3>2, <1>3, <1>5
      <4>2. thread'[u].new \cap thread'[u].old = {}
        BY <3>2, <1>2 DEF SoleHolder
      <4> QED BY <4>1, <4>2
    <3> QED BY <3>1, <3>2
  <2>2. ASSUME NEW u \in Threads, NEW v \in Threads, u # v PROVE Held(u)' \cap Held(v)' = {}
    <3>1. CASE u = t
      BY <3>1, <2>2, <1>3, <1>5
    <3>2. CASE v = t
      BY <3>2, <2>2, <1>3, <1>5
    <3>3. CASE u # t /\ v # t
      BY <3>3, <2>2, <1>3 DEF SoleHolder
    <3> QED BY <3>1, <3>2, <3>3
  <2> QED BY <2>1, <2>2 DEF SoleHolder
<1>7. Owned' = L \cup s.new \cup s.old \cup Others(t)
  <2>1. UNION {Held(u)' : u \in Threads} = Held(t)' \cup UNION {Held(u)' : u \in Threads \ {t}}
    OBVIOUS
  <2>2. UNION {Held(u)' : u \in Threads \ {t}} = Others(t)
    BY <1>3 DEF Others
  <2> QED BY <1>3, <2>1, <2>2 DEF Owned
<1> QED BY <1>4, <1>6, <1>7

\* A call's place is a well-formed one.
LEMMA PlaceType ==
  ASSUME NEW at \in {"idle", "count", "copy", "uncount", "unmap"},
         NEW new \in Few(Block), NEW old \in Few(Block)
  PROVE  [at |-> at, new |-> new, old |-> old] \in ThreadType
  BY DEF ThreadType

LEMMA FewBlocks == {} \in Few(Block) /\ \A b \in Block : {b} \in Few(Block)
  BY DEF Few

\* Whoever leaves the pool alone keeps what was proved of it.
LEMMA PoolFrame ==
  ASSUME MarkInv, PoolDisjoint, UNCHANGED poolVars PROVE MarkInv' /\ PoolDisjoint'
  BY DEF poolVars, MarkInv, PoolDisjoint, SumWrapped

\* memopt_alloc and the first half of memopt_realloc: idle threads map a new block,
\* and take old from the callers.
LEMMA MapStep ==
  ASSUME IndInv, NEW t \in Threads, NEW old, NEW size \in 0..SizeMod - 1, NEW huge \in BOOLEAN,
         thread[t].at = "idle", old \in Few(Block), old \subseteq live,
         Allocate(t, old, size, huge), live' = live \ old,
         UNCHANGED <<bigFreed, initialized, counts, atReset, odd, pool, handed>>
  PROVE  IndInv'
<1>1. PICK b \in Mappings(size, huge) :
        /\ mapped' = mapped \cup Extent(b)
        /\ thread' = [thread EXCEPT ![t] = [at |-> "count", new |-> {b}, old |-> old]]
  BY DEF Allocate
<1>2. b \in Block /\ Extent(b) \cap mapped = {}
  BY <1>1, MappingsFree
<1>3. Held(t) = {}
  BY DEF IndInv, PlaceInv
<1>4. b \notin Owned
  <2>1. b.base \in Extent(b)
    BY <1>2, FirstPage
  <2> QED BY <1>2, <2>1 DEF IndInv, BlocksMapped, Pages
<1>5. [at |-> "count", new |-> {b}, old |-> old] \in ThreadType
  BY <1>2, PlaceType, FewBlocks
<1>6. /\ Owned = live \cup Others(t) /\ Others(t) \cap live = {}
  BY <1>3, Apart DEF IndInv
<1>7. PlaceInv' /\ SoleHolder' /\ Owned' = (live \ old) \cup {b} \cup old \cup Others(t)
  <2> DEFINE s == [at |-> "count", new |-> {b}, old |-> old]
  <2>1. s.at = "count" /\ s.new = {b} /\ s.old = old /\ s \in ThreadType
    BY <1>5
  <2> HIDE DEF s
  <2>2. thread' = [thread EXCEPT ![t] = s]
    BY <1>1 DEF s
  <2>3. s.new \cap s.old = {} /\ (s.new \cup s.old) \cap (live \ old) = {}
    BY <2>1, <1>4, <1>6
  <2>4. Others(t) \cap (s.new \cup s.old \cup (live \ old)) = {}
    BY <2>1, <1>4, <1>6
  <2> QED BY <2>1, <2>2, <2>3, <2>4, Handover DEF IndInv
<1>8. Owned' = Owned \cup {b}
  BY <1>6, <1>7
<1>9. BlocksMapped' /\ OnlyBigStranded'
  BY <1>1, <1>2, <1>8, FreshBlock DEF IndInv, Ownership
<1>10. TypeOK'
  <2>1. thread' \in [Threads -> ThreadType]
    BY <1>1, <1>5 DEF IndInv, TypeOK
  <2>2. mapped' \in SUBSET Page
    <3>1. Extent(b) \subseteq Page
      <4>1. b.base \in Nat /\ b.pages \in Nat /\ b.base + b.pages <= NPages
        BY <1>1, <1>2 DEF Mappings, Block, Page
      <4> QED BY <4>1 DEF Extent, Page
    <3> QED BY <3>1, <1>1 DEF IndInv, TypeOK
  <2> QED BY <2>1, <2>2 DEF IndInv, TypeOK
<1>11. MarkInv' /\ PoolDisjoint'
  BY PoolFrame DEF IndInv, poolVars
<1> QED BY <1>7, <1>9, <1>10, <1>11 DEF IndInv

LibType == /\ initialized \in BOOLEAN /\ odd \in BOOLEAN
           /\ counts \in [alloc : 0..CountMod - 1, free : 0..CountMod - 1,
                          used : 0..SizeMod - 1]

\* Steps that pass blocks between a thread and the callers and touch no page.
LEMMA PassStep ==
  ASSUME IndInv, NEW t \in Threads, NEW s \in ThreadType, NEW L,
         thread' = [thread EXCEPT ![t] = s], live' = L,
         s.at = "idle" => s.new = {} /\ s.old = {},
         s.at = "count" => s.new # {},
         s.at \in {"copy", "uncount", "unmap"} => s.old # {},
         s.new \cap s.old = {}, (s.new \cup s.old) \cap L = {},
         L \cup s.new \cup s.old = live \cup Held(t),
         LibType', UNCHANGED <<mapped, bigFreed, pool, handed>>
  PROVE  IndInv'
<1>1. /\ Owned = live \cup Held(t) \cup Others(t)
      /\ Others(t) \cap (live \cup Held(t)) = {}
  BY Apart DEF IndInv
<1>2. Others(t) \cap (s.new \cup s.old \cup L) = {}
  BY <1>1
<1>3. PlaceInv' /\ SoleHolder' /\ Owned' = L \cup s.new \cup s.old \cup Others(t)
  BY <1>2, Handover DEF IndInv
<1>4. Owned' = Owned
  BY <1>1, <1>3
<1>5. BlocksMapped' /\ OnlyBigStranded'
  BY <1>4, SamePages DEF IndInv, Ownership
<1>6. TypeOK'
  <2>1. thread' \in [Threads -> ThreadType]
    BY DEF IndInv, TypeOK
  <2>2. live' \in SUBSET Block
    <3>1. Held(t) \subseteq Block
      BY DEF IndInv, TypeOK, ThreadType, Held, Few
    <3> QED BY <3>1 DEF IndInv, TypeOK
  <2> QED BY <2>1, <2>2 DEF IndInv, TypeOK, LibType
<1>7. MarkInv' /\ PoolDisjoint'
  BY PoolFrame DEF IndInv, poolVars
<1> QED BY <1>3, <1>5, <1>6, <1>7 DEF IndInv

\* Counting keeps the counters in their width.
LEMMA CountersType ==
  ASSUME LibType, NEW n \in Nat
  PROVE  /\ (counts.alloc + 1) % CountMod \in 0..CountMod - 1
         /\ (counts.free + 1) % CountMod \in 0..CountMod - 1
         /\ (counts.used + n) % SizeMod \in 0..SizeMod - 1
         /\ (IF counts.used > PageSize THEN counts.used - PageSize ELSE 0) \in 0..SizeMod - 1
<1>1. counts.alloc \in Nat /\ counts.free \in Nat /\ counts.used \in 0..SizeMod - 1
  BY DEF LibType
<1>2. \A k \in Nat, m \in Nat \ {0} : k % m \in 0..m - 1
  BY Remainder
<1>3. counts.alloc + 1 \in Nat /\ counts.free + 1 \in Nat /\ counts.used + n \in Nat
  BY <1>1
<1>4. CountMod \in Nat \ {0} /\ SizeMod \in Nat \ {0}
  OBVIOUS
<1>5. (IF counts.used > PageSize THEN counts.used - PageSize ELSE 0) \in 0..SizeMod - 1
  BY <1>1
<1> QED BY <1>2, <1>3, <1>4, <1>5

LEMMA CountStep == ASSUME IndInv, NEW t \in Threads, Count(t) PROVE IndInv'
<1>1. LibType
  BY DEF IndInv, TypeOK, LibType
<1>2. thread[t] \in ThreadType /\ thread[t].at = "count"
  BY DEF Count, IndInv, TypeOK
<1>3. PICK b \in thread[t].new :
        /\ counts' = [counts EXCEPT !.alloc = (@ + 1) % CountMod, !.used = (@ + b.size) % SizeMod]
        /\ odd' = (odd \/ b.size # PageSize)
        /\ IF thread[t].old = {}
           THEN live' = live \cup {b} /\ thread' = [thread EXCEPT ![t] = Idle]
           ELSE thread' = [thread EXCEPT ![t].at = "copy"] /\ UNCHANGED live
  BY DEF Count
<1>4. thread[t].new \in Few(Block) /\ thread[t].old \in Few(Block)
  BY <1>2 DEF ThreadType
<1>5. thread[t].new = {b} /\ b \in Block
  BY <1>3, <1>4, OneOf
<1>6. LibType'
  <2>1. b.size \in Nat
    BY <1>5 DEF Block
  <2>2. (counts.alloc + 1) % CountMod \in 0..CountMod - 1
        /\ (counts.used + b.size) % SizeMod \in 0..SizeMod - 1
    BY <1>1, <2>1, CountersType
  <2>3. counts' \in [alloc : 0..CountMod - 1, free : 0..CountMod - 1, used : 0..SizeMod - 1]
    BY <1>1, <1>3, <2>2 DEF LibType
  <2>4. odd' \in BOOLEAN
    BY <1>3
  <2> QED BY <1>1, <2>3, <2>4 DEF LibType, Count
<1>7. Held(t) = {b} \cup thread[t].old /\ b \notin live /\ b \notin thread[t].old
      /\ thread[t].old \cap live = {}
  BY <1>5 DEF Held, IndInv, SoleHolder
<1>8. CASE thread[t].old = {}
  <2>1. Idle \in ThreadType /\ Idle.at = "idle" /\ Idle.new = {} /\ Idle.old = {}
    BY FewBlocks, PlaceType DEF Idle
  <2>2. live' = live \cup {b} /\ thread' = [thread EXCEPT ![t] = Idle]
    BY <1>3, <1>8
  <2>3. /\ Idle.at = "idle" => Idle.new = {} /\ Idle.old = {}
        /\ Idle.at = "count" => Idle.new # {}
        /\ Idle.at \in {"copy", "uncount", "unmap"} => Idle.old # {}
        /\ Idle.new \cap Idle.old = {} /\ (Idle.new \cup Idle.old) \cap (live \cup {b}) = {}
        /\ (live \cup {b}) \cup Idle.new \cup Idle.old = live \cup Held(t)
    BY <2>1, <1>7, <1>8
  <2> QED BY <1>6, <2>1, <2>2, <2>3, PassStep DEF Count, poolVars
<1>9. CASE thread[t].old # {}
  <2> DEFINE s == [thread[t] EXCEPT !.at = "copy"]
  <2>1. s \in ThreadType /\ s.at = "copy" /\ s.new = {b} /\ s.old = thread[t].old
    BY <1>2, <1>5 DEF ThreadType
  <2>2. thread' = [thread EXCEPT ![t] = s] /\ live' = live
    BY <1>3, <1>9
  <2> HIDE DEF s
  <2>3. /\ s.at = "idle" => s.new = {} /\ s.old = {}
        /\ s.at = "count" => s.new # {}
        /\ s.at \in {"copy", "uncount", "unmap"} => s.old # {}
        /\ s.new \cap s.old = {} /\ (s.new \cup s.old) \cap live = {}
        /\ live \cup s.new \cup s.old = live \cup Held(t)
    BY <2>1, <1>7, <1>9
  <2> QED BY <1>6, <2>1, <2>2, <2>3, PassStep DEF Count, poolVars
<1> QED BY <1>8, <1>9

LEMMA CopyStep == ASSUME IndInv, NEW t \in Threads, Copy(t) PROVE IndInv'
<1> DEFINE s == [thread[t] EXCEPT !.at = "uncount"]
<1>1. LibType
  BY DEF IndInv, TypeOK, LibType
<1>2. thread[t] \in ThreadType /\ thread[t].at = "copy" /\ thread[t].old # {}
  BY DEF Copy, IndInv, TypeOK, PlaceInv
<1>3. s \in ThreadType /\ s.at = "uncount" /\ s.new = thread[t].new /\ s.old = thread[t].old
  BY <1>2 DEF ThreadType
<1>4. thread' = [thread EXCEPT ![t] = s] /\ live' = live
  BY DEF Copy, poolVars, libVars
<1> HIDE DEF s
<1>5. /\ s.at = "idle" => s.new = {} /\ s.old = {}
      /\ s.at = "count" => s.new # {}
      /\ s.at \in {"copy", "uncount", "unmap"} => s.old # {}
      /\ s.new \cap s.old = {} /\ (s.new \cup s.old) \cap live = {}
      /\ live \cup s.new \cup s.old = live \cup Held(t)
  BY <1>2, <1>3 DEF Held, IndInv, SoleHolder
<1>6. LibType'
  BY <1>1 DEF LibType, Copy, libVars
<1>7. UNCHANGED <<mapped, bigFreed, pool, handed>>
  BY DEF Copy, libVars, poolVars
<1> QED BY <1>3, <1>4, <1>5, <1>6, <1>7, PassStep

LEMMA UncountStep == ASSUME IndInv, NEW t \in Threads, Uncount(t) PROVE IndInv'
<1> DEFINE s == [thread[t] EXCEPT !.at = "unmap"]
<1>1. LibType
  BY DEF IndInv, TypeOK, LibType
<1>2. thread[t] \in ThreadType /\ thread[t].at = "uncount" /\ thread[t].old # {}
  BY DEF Uncount, IndInv, TypeOK, PlaceInv
<1>3. s \in ThreadType /\ s.at = "unmap" /\ s.new = thread[t].new /\ s.old = thread[t].old
  BY <1>2 DEF ThreadType
<1>4. thread' = [thread EXCEPT ![t] = s] /\ live' = live
  BY DEF Uncount, poolVars, libVars
<1> HIDE DEF s
<1>5. /\ s.at = "idle" => s.new = {} /\ s.old = {}
      /\ s.at = "count" => s.new # {}
      /\ s.at \in {"copy", "uncount", "unmap"} => s.old # {}
      /\ s.new \cap s.old = {} /\ (s.new \cup s.old) \cap live = {}
      /\ live \cup s.new \cup s.old = live \cup Held(t)
  BY <1>2, <1>3 DEF Held, IndInv, SoleHolder
<1>6. LibType'
  <2>1. (counts.free + 1) % CountMod \in 0..CountMod - 1
        /\ (IF counts.used > PageSize THEN counts.used - PageSize ELSE 0) \in 0..SizeMod - 1
    BY <1>1, CountersType
  <2>2. counts' \in [alloc : 0..CountMod - 1, free : 0..CountMod - 1, used : 0..SizeMod - 1]
    BY <1>1, <2>1 DEF LibType, Uncount
  <2> QED BY <1>1, <2>2 DEF LibType, Uncount
<1>7. UNCHANGED <<mapped, bigFreed, pool, handed>>
  BY DEF Uncount, poolVars
<1> QED BY <1>3, <1>4, <1>5, <1>6, <1>7, PassStep

LEMMA FreeStep == ASSUME IndInv, NEW t \in Threads, NEW b \in live, Free(t, b) PROVE IndInv'
<1> DEFINE s == [at |-> "uncount", new |-> {}, old |-> {b}]
<1>1. LibType'
  BY DEF IndInv, TypeOK, LibType, Free, libVars
<1>2. b \in Block /\ Held(t) = {}
  BY DEF Free, IndInv, TypeOK, PlaceInv
<1>3. s \in ThreadType /\ s.at = "uncount" /\ s.new = {} /\ s.old = {b}
  BY <1>2, PlaceType, FewBlocks
<1>4. thread' = [thread EXCEPT ![t] = s] /\ live' = live \ {b}
  BY DEF Free
<1> HIDE DEF s
<1>5. /\ s.at = "idle" => s.new = {} /\ s.old = {}
      /\ s.at = "count" => s.new # {}
      /\ s.at \in {"copy", "uncount", "unmap"} => s.old # {}
      /\ s.new \cap s.old = {} /\ (s.new \cup s.old) \cap (live \ {b}) = {}
      /\ (live \ {b}) \cup s.new \cup s.old = live \cup Held(t)
  BY <1>2, <1>3
<1>7. UNCHANGED <<mapped, bigFreed, pool, handed>>
  BY DEF Free, poolVars
<1> QED BY <1>1, <1>3, <1>4, <1>5, <1>7, PassStep

\* memopt_init and memopt_shutdown touch neither blocks nor pool.
LEMMA LibraryStep ==
  ASSUME IndInv, LibType', UNCHANGED <<mapped, live, thread, bigFreed, pool, handed>>
  PROVE  IndInv'
<1>1. Owned' = Owned /\ \A t \in Threads : Held(t)' = Held(t)
  BY DEF Owned, Held
<1>2. PlaceInv' /\ SoleHolder'
  BY <1>1 DEF IndInv, PlaceInv, SoleHolder
<1>3. BlocksMapped' /\ OnlyBigStranded'
  BY <1>1, SamePages DEF IndInv, Ownership
<1>4. MarkInv' /\ PoolDisjoint'
  BY PoolFrame DEF IndInv, poolVars
<1>5. TypeOK'
  BY DEF IndInv, TypeOK, LibType
<1> QED BY <1>2, <1>3, <1>4, <1>5 DEF IndInv

\* memopt_free returns, and with it memopt_realloc: the old block is gone and the
\* caller has the new one.
LEMMA UnmapStep == ASSUME IndInv, NEW t \in Threads, Unmap(t) PROVE IndInv'
<1>1. PICK b \in thread[t].old :
        mapped' = mapped \ Unmapped(b) /\ bigFreed' = (bigFreed \/ b.huge \/ b.pages > 1)
  BY DEF Unmap
<1>2. /\ live' = live \cup thread[t].new /\ thread' = [thread EXCEPT ![t] = Idle]
      /\ UNCHANGED <<initialized, counts, atReset, odd, pool, handed>>
  BY DEF Unmap, libVars, poolVars
<1>3. thread[t].old = {b} /\ b \in Block /\ thread[t].new \in SUBSET Block
  <2>1. thread[t].old \in Few(Block) /\ thread[t].new \in Few(Block)
    BY DEF IndInv, TypeOK, ThreadType
  <2>2. thread[t].new \in SUBSET Block
    BY <2>1 DEF Few
  <2> QED BY <1>1, <2>1, <2>2, OneOf
<1>4. /\ Held(t) = {b} \cup thread[t].new /\ b \notin thread[t].new /\ b \notin live
      /\ Held(t) \cap live = {}
  BY <1>3 DEF Held, IndInv, SoleHolder
<1>5. /\ Owned = live \cup Held(t) \cup Others(t)
      /\ Others(t) \cap (live \cup Held(t)) = {}
  BY Apart DEF IndInv
<1>6. Idle \in ThreadType /\ Idle.at = "idle" /\ Idle.new = {} /\ Idle.old = {}
  BY FewBlocks, PlaceType DEF Idle
<1>7. PlaceInv' /\ SoleHolder'
      /\ Owned' = live \cup thread[t].new \cup Others(t)
  <2>1. Others(t) \cap (Idle.new \cup Idle.old \cup (live \cup thread[t].new)) = {}
    BY <1>4, <1>5, <1>6
  <2>2. /\ Idle.at = "idle" => Idle.new = {} /\ Idle.old = {}
        /\ Idle.at = "count" => Idle.new # {}
        /\ Idle.at \in {"copy", "uncount", "unmap"} => Idle.old # {}
        /\ Idle.new \cap Idle.old = {}
        /\ (Idle.new \cup Idle.old) \cap (live \cup thread[t].new) = {}
    BY <1>6
  <2>3. /\ PlaceInv' /\ SoleHolder'
        /\ Owned' = (live \cup thread[t].new) \cup Idle.new \cup Idle.old \cup Others(t)
    BY <1>2, <1>6, <2>1, <2>2, Handover DEF IndInv
  <2> QED BY <1>6, <2>3
<1>8. Owned' = Owned \ {b} /\ b \in Owned
  BY <1>4, <1>5, <1>7
<1>9. BlocksMapped' /\ OnlyBigStranded'
  BY <1>1, <1>2, <1>3, <1>8, BlockGone DEF IndInv, Ownership
<1>10. TypeOK'
  <2>1. thread' \in [Threads -> ThreadType]
    BY <1>2, <1>6 DEF IndInv, TypeOK
  <2>2. bigFreed' \in BOOLEAN
    BY <1>1
  <2> QED BY <1>1, <1>2, <1>3, <2>1, <2>2 DEF IndInv, TypeOK
<1>11. MarkInv' /\ PoolDisjoint'
  BY <1>2, PoolFrame DEF IndInv, poolVars
<1> QED BY <1>7, <1>9, <1>10, <1>11 DEF IndInv

\* Every step of a thread.
LEMMA ThreadKeeps == ASSUME IndInv, NEW t \in Threads, ThreadStep(t) PROVE IndInv'
<1>1. ASSUME NEW n \in Sizes, Alloc(t, n) PROVE IndInv'
  <2>1. n % SizeMod \in 0..SizeMod - 1
    BY Remainder
  <2>2. PICK huge \in BOOLEAN : Allocate(t, {}, n % SizeMod, huge)
    BY <1>1 DEF Alloc
  <2>3. live' = live \ {} /\ thread[t].at = "idle"
        /\ UNCHANGED <<bigFreed, initialized, counts, atReset, odd, pool, handed>>
    BY <1>1 DEF Alloc, libVars, poolVars
  <2> QED BY <2>1, <2>2, <2>3, FewBlocks, MapStep
<1>2. ASSUME NEW n \in Sizes, NEW b \in live, memopt_realloc(t, b, n) PROVE IndInv'
  <2>1. n % SizeMod \in 0..SizeMod - 1
    BY Remainder
  <2>2. {b} \in Few(Block) /\ {b} \subseteq live
    BY FewBlocks DEF IndInv, TypeOK
  <2>3. /\ Allocate(t, {b}, n % SizeMod, FALSE)
        /\ live' = live \ {b} /\ thread[t].at = "idle"
        /\ UNCHANGED <<bigFreed, initialized, counts, atReset, odd, pool, handed>>
    BY <1>2 DEF memopt_realloc, libVars, poolVars
  <2> QED BY <2>1, <2>2, <2>3, MapStep
<1> QED BY <1>1, <1>2, CountStep, CopyStep, UncountStep, FreeStep, UnmapStep DEF ThreadStep

\* memopt_init and memopt_shutdown.
LEMMA LibraryKeeps == ASSUME IndInv, memopt_init \/ memopt_shutdown PROVE IndInv'
<1>1. LibType
  BY DEF IndInv, TypeOK, LibType
<1>2. 0 \in 0..CountMod - 1 /\ 0 \in 0..SizeMod - 1
  OBVIOUS
<1>3. CASE memopt_shutdown
  BY <1>1, <1>2, <1>3, LibraryStep DEF LibType, memopt_shutdown
<1>4. CASE memopt_init
  BY <1>1, <1>2, <1>4, LibraryStep DEF LibType, memopt_init
<1> QED BY <1>3, <1>4

-----------------------------------------------------------------------------
(* The steps of the pool.                                                   *)

\* Blocks and threads are as before when only the pool moves.
LEMMA BlockFrame ==
  ASSUME PlaceInv, SoleHolder, UNCHANGED blockVars
  PROVE  PlaceInv' /\ SoleHolder' /\ Owned' = Owned
  BY DEF blockVars, PlaceInv, SoleHolder, Owned, Held

LEMMA PoolCreated ==
  ASSUME IndInv, NEW size \in PoolSizes, memopt_pool_create(size) PROVE IndInv'
<1>1. PICK b \in Mappings(size, FALSE) : mapped' = mapped \cup Extent(b) /\ pool' = {PoolOf(b)}
  BY DEF memopt_pool_create
<1>2. b \in Block /\ Extent(b) \cap mapped = {} /\ b.size = size /\ b.base + b.pages <= NPages
  <2>1. size \in 0..SizeMod - 1
    OBVIOUS
  <2>2. b.size = size /\ b.base + b.pages <= NPages
    BY DEF Mappings
  <2> QED BY <2>1, <2>2, MappingsFree
<1>3. /\ PoolOf(b).base = b.base /\ PoolOf(b).pages = b.pages
      /\ PoolOf(b).size = size /\ PoolOf(b).used = 0 /\ PoolOf(b) \in PoolType
  BY <1>2 DEF PoolOf, PoolType, Block
<1>4. Extent(PoolOf(b)) = Extent(b)
  BY <1>3 DEF Extent
<1>5. PlaceInv' /\ SoleHolder' /\ Owned' = Owned
  BY BlockFrame DEF IndInv, memopt_pool_create
<1>6. BlocksMapped' /\ OnlyBigStranded'
  BY <1>1, <1>2, <1>4, <1>5, FreshPool DEF IndInv, Ownership, memopt_pool_create, blockVars
<1>7. TypeOK'
  <2>1. Extent(b) \subseteq Page
    <3>1. b.base \in Nat /\ b.pages \in Nat
      BY <1>2 DEF Block, Page
    <3> QED BY <1>2, <3>1 DEF Extent, Page
  <2>2. pool' \in Few(PoolType)
    BY <1>1, <1>3 DEF Few
  <2> QED BY <1>1, <2>1, <2>2 DEF IndInv, TypeOK, memopt_pool_create, blockVars
<1>8. MarkInv' /\ PoolDisjoint'
  <2>1. handed' = {} /\ \A p \in pool' : p.used = 0 /\ p.size \in Nat
    BY <1>1, <1>3 DEF memopt_pool_create
  <2>2. pool' # {}
    BY <1>1
  <2> QED BY <2>1, <2>2 DEF MarkInv, PoolDisjoint, SumWrapped
<1> QED BY <1>5, <1>6, <1>7, <1>8 DEF IndInv

LEMMA PoolDestroyed == ASSUME IndInv, memopt_pool_destroy PROVE IndInv'
<1>1. PlaceInv' /\ SoleHolder' /\ Owned' = Owned
  BY BlockFrame DEF IndInv, memopt_pool_destroy
<1>2. BlocksMapped' /\ OnlyBigStranded'
  BY <1>1, PoolGone DEF IndInv, Ownership, memopt_pool_destroy, blockVars
<1>3. TypeOK'
  BY DEF IndInv, TypeOK, memopt_pool_destroy, blockVars, Few
<1>4. MarkInv' /\ PoolDisjoint'
  BY DEF memopt_pool_destroy, MarkInv, PoolDisjoint
<1> QED BY <1>1, <1>2, <1>3, <1>4 DEF IndInv

\* A request that passes the test keeps the mark inside the pool; if its sum has not
\* wrapped, it fits, above the mark, and none has wrapped before unless one has now.
LEMMA PoolCut ==
  ASSUME IndInv, NEW n \in PoolRequests, memopt_pool_alloc(n) PROVE IndInv'
<1>1. PICK p \in pool :
        /\ (p.used + n) % SizeMod <= p.size
        /\ handed' = handed \cup {[off |-> p.used, len |-> n]}
        /\ pool' = {[p EXCEPT !.used = (@ + n) % SizeMod]}
  BY DEF memopt_pool_alloc
<1> DEFINE q == [p EXCEPT !.used = (@ + n) % SizeMod]
           h == [off |-> p.used, len |-> n]
<1>2. pool = {p} /\ p \in PoolType
  BY <1>1, OneOf DEF IndInv, TypeOK
<1>3. /\ p.used \in 0..SizeMod - 1 /\ n \in 0..SizeMod - 1 /\ p.size \in PoolSizes
      /\ p.size \in 1..SizeMod - 1 /\ p.used <= p.size
  <2>1. p.used \in 0..SizeMod - 1 /\ p.size \in PoolSizes
    BY <1>2 DEF PoolType
  <2>2. p.used <= p.size
    BY <1>1 DEF IndInv, MarkInv
  <2> QED BY <2>1, <2>2
<1>4. /\ (p.used + n) % SizeMod \in 0..SizeMod - 1
      /\ p.used + n < SizeMod => (p.used + n) % SizeMod = p.used + n
  BY <1>3
<1>5. /\ q \in PoolType /\ q.base = p.base /\ q.pages = p.pages /\ q.size = p.size
      /\ q.used = (p.used + n) % SizeMod
  BY <1>2, <1>3, <1>4 DEF PoolType
<1>6. h.off = p.used /\ h.len = n /\ h \in [off : Nat, len : PoolRequests]
  BY <1>3
<1>7. handed' = handed \cup {h} /\ pool' = {q}
  BY <1>1
<1> HIDE DEF q, h
<1>8. q.used <= q.size
  BY <1>1, <1>4, <1>5
<1>9. PlaceInv' /\ SoleHolder' /\ Owned' = Owned
  BY BlockFrame DEF IndInv, memopt_pool_alloc
<1>10. BlocksMapped' /\ OnlyBigStranded'
  <2>1. Extent(q) = Extent(p)
    BY <1>5 DEF Extent
  <2>2. {Extent(r) : r \in pool'} = {Extent(r) : r \in pool}
    BY <1>2, <1>7, <2>1
  <2> QED BY <1>9, <2>2, SamePages DEF IndInv, Ownership, memopt_pool_alloc, blockVars
<1>11. TypeOK'
  <2>1. pool' \in Few(PoolType)
    BY <1>5, <1>7 DEF Few
  <2> QED BY <1>6, <1>7, <2>1 DEF IndInv, TypeOK, memopt_pool_alloc, blockVars
<1>12. ASSUME ~SumWrapped'
       PROVE  /\ ~SumWrapped /\ q.used = p.used + n
              /\ \A k \in handed : k.off \in Nat /\ k.len \in Nat /\ k.off + k.len <= p.used
  <2>1. ~SumWrapped /\ p.used + n < SizeMod
    BY <1>3, <1>6, <1>7, <1>12 DEF SumWrapped
  <2>2. \A k \in handed : k.off \in Nat /\ k.len \in Nat
    BY DEF IndInv, TypeOK
  <2> QED BY <1>1, <1>4, <1>5, <2>1, <2>2 DEF IndInv, MarkInv
<1>13. MarkInv'
  <2>1. ASSUME ~SumWrapped' PROVE \A k \in handed' : k.off + k.len <= q.used
    BY <1>3, <1>6, <1>7, <1>12, <2>1
  <2> QED BY <1>7, <1>8, <2>1 DEF MarkInv
<1>14. PoolDisjoint'
  <2>1. ASSUME ~SumWrapped'
        PROVE  \A k \in handed', r \in pool' : k.off + k.len <= r.size
    BY <1>3, <1>5, <1>6, <1>7, <1>8, <1>12, <2>1
  <2>2. ASSUME ~SumWrapped'
        PROVE  \A k, m \in handed' : k = m \/ k.off + k.len <= m.off \/ m.off + m.len <= k.off
    BY <1>6, <1>7, <1>12, <2>2 DEF IndInv, PoolDisjoint
  <2>3. \A k \in handed', r \in pool' : k.off <= r.size
    BY <1>1, <1>3, <1>5, <1>6, <1>7 DEF IndInv, PoolDisjoint
  <2> QED BY <2>1, <2>2, <2>3 DEF PoolDisjoint
<1> QED BY <1>9, <1>10, <1>11, <1>13, <1>14 DEF IndInv

-----------------------------------------------------------------------------
LEMMA NextIndInv == IndInv /\ [Next]_vars => IndInv'
<1>1. IndInv /\ UNCHANGED vars => IndInv'
  BY DEF vars, IndInv, TypeOK, PlaceInv, SoleHolder, MarkInv, BlocksMapped, OnlyBigStranded,
         PoolDisjoint, SumWrapped, Owned, Held, Pages
<1>2. ASSUME IndInv, PoolStep PROVE IndInv'
  BY <1>2, PoolCreated, PoolDestroyed, PoolCut DEF PoolStep
<1> QED BY <1>1, <1>2, ThreadKeeps, LibraryKeeps DEF Next

\* The library never leaves the inductive invariant.
THEOREM IndInvHolds == Spec => []IndInv
  BY InitIndInv, NextIndInv, PTL DEF Spec

\* Type correctness of the library's state for every value of the constants.
THEOREM TypeCorrect == Spec => []TypeOK
<1>1. IndInv => TypeOK
  BY DEF IndInv
<1> QED BY <1>1, IndInvHolds, PTL

\* Whatever threads allocate, reallocate and free, and whatever the size of a page,
\* the pages of a block stay mapped and its own until its own memopt_free.
THEOREM BlocksStayMapped == Spec => []BlocksMapped
<1>1. IndInv => BlocksMapped
  BY DEF IndInv
<1> QED BY <1>1, IndInvHolds, PTL

\* Only memopt_free of a huge block or of one of several pages leaves pages mapped
\* that nobody has.
THEOREM OnlyBigBlocksLeak == Spec => []OnlyBigStranded
<1>1. IndInv => OnlyBigStranded
  BY DEF IndInv
<1> QED BY <1>1, IndInvHolds, PTL

\* For any size_t asked of it, memopt_pool_alloc hands out parts that lie in the pool
\* and do not overlap until it grants a request whose sum wraps, and no part ever
\* begins outside the pool.
THEOREM PoolPartsDisjoint == Spec => []PoolDisjoint
<1>1. IndInv => PoolDisjoint
  BY DEF IndInv
<1> QED BY <1>1, IndInvHolds, PTL

-----------------------------------------------------------------------------
(* The counters.  Only memopt_alloc_flags and the first half of memopt_free *)
(* change what is counted, by one block, under g_lock; the counters wrap.   *)

Congruent(x, y) == \E k \in Int : x - y = k * CountMod

\* A remainder in the range is the only one.
LEMMA RemainderUnique ==
  ASSUME NEW m \in Nat \ {0}, NEW q \in Int, NEW r \in 0..m - 1, NEW x \in Int, x = q * m + r
  PROVE  x % m = r
<1>1. PICK p \in Int : x = p * m + (x % m) /\ x % m \in 0..m - 1
  <2>1. x = m * (x \div m) + (x % m) /\ x % m \in 0..m - 1 /\ x \div m \in Int
    OBVIOUS
  <2> QED BY <2>1
<1>2. (p - q) * m = r - (x % m)
  BY <1>1
<1>3. p - q = 0
  <2>1. CASE p - q >= 1
    <3>1. (p - q) * m >= m
      BY <2>1
    <3> QED BY <3>1, <1>1, <1>2
  <2>2. CASE p - q <= -1
    <3>1. (p - q) * m <= -m
      BY <2>2
    <3> QED BY <3>1, <1>1, <1>2
  <2> QED BY <2>1, <2>2
<1> QED BY <1>1, <1>2, <1>3

LEMMA CongruentRemainder ==
  ASSUME NEW x \in Int, NEW y \in Int, Congruent(x, y)
  PROVE  x % CountMod = y % CountMod
<1>1. PICK k \in Int : x - y = k * CountMod
  BY DEF Congruent
<1>2. PICK q \in Int : y = q * CountMod + (y % CountMod) /\ y % CountMod \in 0..CountMod - 1
  <2>1. y = CountMod * (y \div CountMod) + (y % CountMod)
        /\ y % CountMod \in 0..CountMod - 1 /\ y \div CountMod \in Int
    OBVIOUS
  <2> QED BY <2>1
<1>3. x = (q + k) * CountMod + (y % CountMod)
  BY <1>1, <1>2
<1> QED BY <1>2, <1>3, RemainderUnique

\* A counter that wraps has gone up by one, as far as remainders go.
LEMMA WrapCongruent ==
  ASSUME NEW c \in 0..CountMod - 1
  PROVE  (c + 1) % CountMod \in Int /\ \E j \in Int : (c + 1) % CountMod = c + 1 - j * CountMod
<1>1. CASE c + 1 < CountMod
  <2>1. (c + 1) % CountMod = c + 1
    BY <1>1
  <2>2. (c + 1) % CountMod = c + 1 - 0 * CountMod
    BY <2>1
  <2> QED BY <2>1, <2>2
<1>2. CASE c + 1 = CountMod
  <2>1. (c + 1) % CountMod = 0
    BY <1>2, RemainderUnique
  <2>2. (c + 1) % CountMod = c + 1 - 1 * CountMod
    BY <2>1, <1>2
  <2> QED BY <2>1, <2>2
<1> QED BY <1>1, <1>2

\* What of a call's blocks is counted, and what of the other threads'.
CountedOf(s)    == {b \in s.new : s.at # "count"} \cup {b \in s.old : s.at # "unmap"}
OtherCounted(t) == UNION {CountedOf(thread[u]) : u \in Threads \ {t}}

LEMMA CountedSplit ==
  ASSUME SoleHolder, NEW t \in Threads
  PROVE  /\ Counted = live \cup CountedOf(thread[t]) \cup OtherCounted(t)
         /\ OtherCounted(t) \cap (live \cup Held(t)) = {}
<1>1. \A u \in Threads : CountedOf(thread[u]) \subseteq Held(u)
  BY DEF CountedOf, Held
<1>2. Counted = live \cup UNION {CountedOf(thread[u]) : u \in Threads}
  <2>1. ASSUME NEW b \in Counted PROVE b \in live \cup UNION {CountedOf(thread[u]) : u \in Threads}
    BY DEF Counted, CountedOf
  <2>2. ASSUME NEW u \in Threads, NEW b \in CountedOf(thread[u]) PROVE b \in Counted
    BY DEF Counted, CountedOf
  <2> QED BY <2>1, <2>2 DEF Counted
<1>3. UNION {CountedOf(thread[u]) : u \in Threads} = CountedOf(thread[t]) \cup OtherCounted(t)
  BY DEF OtherCounted
<1>4. OtherCounted(t) \subseteq Others(t)
  BY <1>1 DEF OtherCounted, Others
<1> QED BY <1>2, <1>3, <1>4, Apart

\* A thread goes on to place s and callers have L.
LEMMA CountedMoves ==
  ASSUME IndInv, IndInv', NEW t \in Threads, NEW s, thread' = [thread EXCEPT ![t] = s]
  PROVE  Counted' = live' \cup CountedOf(s) \cup OtherCounted(t)
<1>1. thread'[t] = s /\ \A u \in Threads \ {t} : thread'[u] = thread[u]
  BY DEF IndInv, TypeOK
<1>2. OtherCounted(t)' = OtherCounted(t)
  BY <1>1 DEF OtherCounted
<1>3. SoleHolder'
  BY DEF IndInv
<1>4. Counted' = live' \cup CountedOf(thread'[t]) \cup OtherCounted(t)'
  <2>1. UNION {CountedOf(thread'[u]) : u \in Threads} = CountedOf(thread'[t]) \cup OtherCounted(t)'
    BY DEF OtherCounted
  <2>2. ASSUME NEW b \in Counted' PROVE b \in live' \cup UNION {CountedOf(thread'[u]) : u \in Threads}
    BY DEF Counted, CountedOf
  <2>3. ASSUME NEW u \in Threads, NEW b \in CountedOf(thread'[u]) PROVE b \in Counted'
    BY DEF Counted, CountedOf
  <2> QED BY <2>1, <2>2, <2>3 DEF Counted
<1> QED BY <1>1, <1>2, <1>4

\* Blocks are apart and have a page each, so that there are no more than pages.
Bounded == IsFiniteSet(Counted) /\ Cardinality(Counted) \in 0..NPages

LEMMA CountedBounded == IndInv => Bounded
<1> SUFFICES ASSUME IndInv PROVE Bounded
  OBVIOUS
<1>1. Counted \subseteq Owned
  BY DEF Counted, Owned, Held
<1>2. \A b \in Counted : b \in Block /\ b.base \in Page
  <2>1. Owned \subseteq Block
    BY DEF IndInv, TypeOK, ThreadType, Few, Owned, Held
  <2> QED BY <1>1, <2>1 DEF Block
<1> DEFINE f == [b \in Counted |-> b.base]
<1>3. f \in Injection(Counted, Page)
  <2>1. ASSUME NEW b \in Counted, NEW c \in Counted, b.base = c.base PROVE b = c
    <3>1. b.base \in Extent(b) /\ c.base \in Extent(c)
      BY <1>2, FirstPage
    <3> QED BY <1>1, <2>1, <3>1 DEF IndInv, BlocksMapped
  <2> QED BY <1>2, <2>1 DEF Injection, IsInjective
<1>4. IsFiniteSet(Page) /\ Cardinality(Page) = NPages
  <2>1. 0 \in Int /\ NPages - 1 \in Int /\ ~(0 > NPages - 1) /\ (NPages - 1) - 0 + 1 = NPages
    OBVIOUS
  <2>2. IsFiniteSet(0..NPages - 1) /\ Cardinality(0..NPages - 1) = NPages
    BY <2>1, FS_Interval
  <2> QED BY <2>2 DEF Page
<1>5. IsFiniteSet(Counted) /\ Cardinality(Counted) <= Cardinality(Page)
  BY <1>3, <1>4, FS_Injection DEF ExistsInjection
<1> QED BY <1>4, <1>5, FS_CardinalityType DEF Bounded

LEMMA CountedStaysBounded ==
  IndInv' => IsFiniteSet(Counted') /\ Cardinality(Counted') \in 0..NPages
<1>1. IndInv' => Bounded'
  BY CountedBounded, PTL
<1> QED BY <1>1 DEF Bounded

\* The balance as steps preserve it: up to multiples of the counters' range.
BalanceInv ==
  /\ atReset \in Nat
  /\ Congruent(counts.alloc - counts.free, Cardinality(Counted) - atReset)
  /\ ~odd => counts.used = PageSize * Cardinality(Counted)

\* Steps that count nothing.
LEMMA BalanceFrame ==
  ASSUME BalanceInv, Counted' = Counted, UNCHANGED <<counts, atReset, odd>>
  PROVE  BalanceInv'
  BY DEF BalanceInv, Congruent

LEMMA MapBalance ==
  ASSUME IndInv, IndInv', BalanceInv, NEW t \in Threads, NEW old, old \subseteq live,
         NEW size, NEW huge, thread[t].at = "idle", Allocate(t, old, size, huge),
         live' = live \ old, UNCHANGED libVars
  PROVE  BalanceInv'
<1>1. PICK b : thread' = [thread EXCEPT ![t] = [at |-> "count", new |-> {b}, old |-> old]]
  BY DEF Allocate
<1>2. Counted' = (live \ old) \cup old \cup OtherCounted(t)
  <2>1. CountedOf([at |-> "count", new |-> {b}, old |-> old]) = old
    BY DEF CountedOf
  <2> QED BY <1>1, <2>1, CountedMoves
<1>3. Counted = live \cup OtherCounted(t)
  <2>1. CountedOf(thread[t]) = {}
    BY DEF CountedOf, Held, IndInv, PlaceInv
  <2> QED BY <2>1, CountedSplit DEF IndInv
<1> QED BY <1>2, <1>3, BalanceFrame DEF libVars

LEMMA FreeBalance ==
  ASSUME IndInv, IndInv', BalanceInv, NEW t \in Threads, NEW b \in live, Free(t, b)
  PROVE  BalanceInv'
<1>1. Counted' = (live \ {b}) \cup {b} \cup OtherCounted(t)
  <2>1. CountedOf([at |-> "uncount", new |-> {}, old |-> {b}]) = {b}
    BY DEF CountedOf
  <2> QED BY <2>1, CountedMoves DEF Free
<1>2. Counted = live \cup OtherCounted(t)
  <2>1. CountedOf(thread[t]) = {}
    BY DEF CountedOf, Held, IndInv, PlaceInv, Free
  <2> QED BY <2>1, CountedSplit DEF IndInv
<1> QED BY <1>1, <1>2, BalanceFrame DEF Free, libVars

LEMMA CopyBalance ==
  ASSUME IndInv, IndInv', BalanceInv, NEW t \in Threads, Copy(t) PROVE BalanceInv'
<1>1. thread[t] \in ThreadType /\ thread[t].at = "copy"
  BY DEF IndInv, TypeOK, Copy
<1>2. CountedOf([thread[t] EXCEPT !.at = "uncount"]) = CountedOf(thread[t])
  BY <1>1 DEF CountedOf, ThreadType
<1>3. Counted' = Counted
  <2>1. SoleHolder
    BY DEF IndInv
  <2>2. Counted = live \cup CountedOf(thread[t]) \cup OtherCounted(t)
    BY <2>1, CountedSplit
  <2>3. Counted' = live' \cup CountedOf([thread[t] EXCEPT !.at = "uncount"]) \cup OtherCounted(t)
    BY CountedMoves DEF Copy
  <2> QED BY <1>2, <2>2, <2>3 DEF Copy
<1> QED BY <1>3, BalanceFrame DEF Copy, libVars

LEMMA UnmapBalance ==
  ASSUME IndInv, IndInv', BalanceInv, NEW t \in Threads, Unmap(t) PROVE BalanceInv'
<1>1. thread[t].at = "unmap"
  BY DEF Unmap
<1>2. CountedOf(Idle) = {} /\ CountedOf(thread[t]) = thread[t].new
  BY <1>1 DEF CountedOf, Idle
<1>3. Counted' = Counted
  <2>1. SoleHolder
    BY DEF IndInv
  <2>2. Counted = live \cup CountedOf(thread[t]) \cup OtherCounted(t)
    BY <2>1, CountedSplit
  <2>3. Counted' = live' \cup CountedOf(Idle) \cup OtherCounted(t)
    BY CountedMoves DEF Unmap
  <2> QED BY <1>2, <2>2, <2>3 DEF Unmap
<1> QED BY <1>3, BalanceFrame DEF Unmap, libVars

\* memopt_alloc_flags counts the block it has mapped.
LEMMA CountBalance ==
  ASSUME IndInv, IndInv', BalanceInv, NEW t \in Threads, Count(t) PROVE BalanceInv'
<1>1. PICK b \in thread[t].new :
        /\ counts' = [counts EXCEPT !.alloc = (@ + 1) % CountMod, !.used = (@ + b.size) % SizeMod]
        /\ odd' = (odd \/ b.size # PageSize)
        /\ IF thread[t].old = {}
           THEN live' = live \cup {b} /\ thread' = [thread EXCEPT ![t] = Idle]
           ELSE thread' = [thread EXCEPT ![t].at = "copy"] /\ UNCHANGED live
  BY DEF Count
<1>2. thread[t] \in ThreadType /\ thread[t].at = "count" /\ thread[t].new = {b}
  <2>1. thread[t] \in ThreadType /\ thread[t].new \in Few(Block)
    BY DEF IndInv, TypeOK, ThreadType
  <2> QED BY <1>1, <2>1, OneOf DEF Count
<1>3. Counted = live \cup thread[t].old \cup OtherCounted(t)
  <2>1. CountedOf(thread[t]) = thread[t].old
    BY <1>2 DEF CountedOf
  <2> QED BY <2>1, CountedSplit DEF IndInv
<1>4. Counted' = Counted \cup {b}
  <2>1. CASE thread[t].old = {}
    <3>1. CountedOf(Idle) = {}
      BY DEF CountedOf, Idle
    <3> QED BY <1>1, <1>3, <2>1, <3>1, CountedMoves
  <2>2. CASE thread[t].old # {}
    <3>1. CountedOf([thread[t] EXCEPT !.at = "copy"]) = {b} \cup thread[t].old
      BY <1>2 DEF CountedOf, ThreadType
    <3> QED BY <1>1, <1>3, <2>2, <3>1, CountedMoves
  <2> QED BY <2>1, <2>2
<1>5. b \notin Counted
  BY <1>2, <1>3, CountedSplit DEF IndInv, SoleHolder, Held
<1>6. IsFiniteSet(Counted) /\ Cardinality(Counted) \in Nat
      /\ Cardinality(Counted') = Cardinality(Counted) + 1 /\ Cardinality(Counted') <= NPages
  <2>1. IsFiniteSet(Counted) /\ Cardinality(Counted) \in 0..NPages
    BY CountedBounded DEF Bounded
  <2>2. Cardinality(Counted') \in 0..NPages
    BY CountedStaysBounded
  <2>3. Cardinality(Counted \cup {b}) = Cardinality(Counted) + 1
    BY <1>5, <2>1, FS_AddElement
  <2> QED BY <1>4, <2>1, <2>2, <2>3
<1>7. /\ counts.alloc \in 0..CountMod - 1 /\ counts.free \in 0..CountMod - 1
      /\ counts.used \in Nat /\ b.size \in Nat
      /\ counts'.alloc = (counts.alloc + 1) % CountMod /\ counts'.free = counts.free
      /\ counts'.used = (counts.used + b.size) % SizeMod
  <2>1. counts \in [alloc : 0..CountMod - 1, free : 0..CountMod - 1, used : 0..SizeMod - 1]
    BY DEF IndInv, TypeOK
  <2>2. b \in Block
    BY <1>2, OneOf DEF ThreadType
  <2> QED BY <1>1, <2>1, <2>2 DEF Block
<1>8. Congruent(counts'.alloc - counts'.free, Cardinality(Counted') - atReset)
  <2>1. PICK k \in Int : (counts.alloc - counts.free) - (Cardinality(Counted) - atReset) = k * CountMod
    BY DEF BalanceInv, Congruent
  <2>2. PICK j \in Int : (counts.alloc + 1) % CountMod = counts.alloc + 1 - j * CountMod
    BY <1>7, WrapCongruent
  <2>3. (counts'.alloc - counts'.free) - (Cardinality(Counted') - atReset) = (k - j) * CountMod
    BY <1>6, <1>7, <2>1, <2>2 DEF BalanceInv
  <2> QED BY <2>3 DEF Congruent
<1>9. ~odd' => counts'.used = PageSize * Cardinality(Counted')
  <2> SUFFICES ASSUME ~odd' PROVE counts'.used = PageSize * Cardinality(Counted')
    OBVIOUS
  <2>1. ~odd /\ b.size = PageSize
    BY <1>1, Zenon
  <2>2. counts.used + PageSize = PageSize * Cardinality(Counted')
    BY <1>6, <2>1 DEF BalanceInv
  <2>3. PageSize * Cardinality(Counted') <= NPages * PageSize
    BY <1>6
  <2>4. counts.used + PageSize < SizeMod
    BY <2>2, <2>3, <1>6, <1>7
  <2> QED BY <1>7, <2>1, <2>2, <2>4
<1> QED BY <1>8, <1>9 DEF BalanceInv, Count

\* memopt_free counts the block it is going to unmap, before it does.
LEMMA UncountBalance ==
  ASSUME IndInv, IndInv', BalanceInv, NEW t \in Threads, Uncount(t) PROVE BalanceInv'
<1>1. PICK b : thread[t].old = {b}
  <2>1. thread[t] \in ThreadType /\ thread[t].old # {}
    BY DEF IndInv, TypeOK, PlaceInv, Uncount
  <2> QED BY <2>1 DEF ThreadType, Few
<1>2. thread[t] \in ThreadType /\ thread[t].at = "uncount" /\ SoleHolder
  BY DEF IndInv, TypeOK, Uncount
<1>3. Counted = live \cup thread[t].new \cup {b} \cup OtherCounted(t)
  <2>1. CountedOf(thread[t]) = thread[t].new \cup {b}
    BY <1>1, <1>2 DEF CountedOf
  <2> QED BY <1>2, <2>1, CountedSplit
<1>4. Counted' = live \cup thread[t].new \cup OtherCounted(t)
  <2>1. CountedOf([thread[t] EXCEPT !.at = "unmap"]) = thread[t].new
    BY <1>2 DEF CountedOf, ThreadType
  <2> QED BY <2>1, CountedMoves DEF Uncount
<1>5. b \in Counted /\ Counted' = Counted \ {b}
  <2>1. b \notin live \cup thread[t].new \cup OtherCounted(t)
    BY <1>1, <1>2, CountedSplit DEF SoleHolder, Held
  <2> QED BY <1>3, <1>4, <2>1
<1>6. Cardinality(Counted) \in Nat \ {0} /\ Cardinality(Counted') = Cardinality(Counted) - 1
  <2>1. IsFiniteSet(Counted) /\ Cardinality(Counted) \in 0..NPages
    BY CountedBounded DEF Bounded
  <2>2. Cardinality(Counted \ {b}) = Cardinality(Counted) - 1
    BY <1>5, <2>1, FS_RemoveElement
  <2>3. Cardinality(Counted) # 0
    BY <1>5, <2>1, FS_EmptySet
  <2> QED BY <1>5, <2>1, <2>2, <2>3
<1>7. /\ counts.alloc \in 0..CountMod - 1 /\ counts.free \in 0..CountMod - 1 /\ counts.used \in Nat
      /\ counts'.alloc = counts.alloc /\ counts'.free = (counts.free + 1) % CountMod
      /\ counts'.used = IF counts.used > PageSize THEN counts.used - PageSize ELSE 0
  <2>1. counts \in [alloc : 0..CountMod - 1, free : 0..CountMod - 1, used : 0..SizeMod - 1]
    BY DEF IndInv, TypeOK
  <2> QED BY <2>1 DEF Uncount
<1>8. Congruent(counts'.alloc - counts'.free, Cardinality(Counted') - atReset)
  <2>1. PICK k \in Int : (counts.alloc - counts.free) - (Cardinality(Counted) - atReset) = k * CountMod
    BY DEF BalanceInv, Congruent
  <2>2. PICK j \in Int : (counts.free + 1) % CountMod = counts.free + 1 - j * CountMod
    BY <1>7, WrapCongruent
  <2>3. (k + j) * CountMod = k * CountMod + j * CountMod
    OBVIOUS
  <2>4. /\ counts'.free = counts.free + 1 - j * CountMod
        /\ Cardinality(Counted') = Cardinality(Counted) - 1 /\ atReset \in Int
        /\ k * CountMod \in Int /\ j * CountMod \in Int
    BY <1>6, <1>7, <2>2 DEF BalanceInv
  <2>5. (counts'.alloc - counts'.free) - (Cardinality(Counted') - atReset) = (k + j) * CountMod
    BY <1>6, <1>7, <2>1, <2>3, <2>4
  <2> QED BY <2>5 DEF Congruent
<1>9. ~odd => counts'.used = PageSize * Cardinality(Counted')
  <2> SUFFICES ASSUME ~odd PROVE counts'.used = PageSize * Cardinality(Counted')
    OBVIOUS
  <2>1. counts.used = PageSize * Cardinality(Counted)
    BY DEF BalanceInv
  <2>2. counts.used - PageSize = PageSize * Cardinality(Counted')
    BY <1>6, <2>1
  <2>3. counts.used - PageSize >= 0
    BY <1>6, <2>2
  <2> QED BY <1>7, <2>1, <2>2, <2>3
<1> QED BY <1>8, <1>9 DEF BalanceInv, Uncount

\* memopt_init starts the balance anew over the blocks there are; memopt_shutdown
\* clears g_pool_used only.
LEMMA LibraryBalance ==
  ASSUME IndInv, BalanceInv, memopt_init \/ memopt_shutdown PROVE BalanceInv'
<1>1. Counted' = Counted
  BY DEF memopt_init, memopt_shutdown, Counted
<1>2. IsFiniteSet(Counted) /\ Cardinality(Counted) \in Nat
  BY CountedBounded DEF Bounded
<1>3. Counted = {} => Cardinality(Counted) = 0
  BY FS_EmptySet
<1>4. CASE memopt_init
  <2>1. counts'.alloc = 0 /\ counts'.free = 0 /\ counts'.used = 0 /\ atReset' = Cardinality(Counted)
        /\ odd' = (Counted # {})
    BY <1>4 DEF memopt_init
  <2>2. (counts'.alloc - counts'.free) - (Cardinality(Counted') - atReset') = 0 * CountMod
    BY <1>1, <1>2, <2>1
  <2>3. Congruent(counts'.alloc - counts'.free, Cardinality(Counted') - atReset')
    BY <2>2 DEF Congruent
  <2>4. ~odd' => counts'.used = PageSize * Cardinality(Counted')
    <3> SUFFICES ASSUME ~odd' PROVE counts'.used = PageSize * Cardinality(Counted')
      OBVIOUS
    <3>1. Counted = {}
      BY <2>1, Zenon
    <3> QED BY <1>1, <1>3, <2>1, <3>1
  <2> QED BY <1>2, <2>1, <2>3, <2>4 DEF BalanceInv
<1>5. CASE memopt_shutdown
  <2>1. counts \in [alloc : 0..CountMod - 1, free : 0..CountMod - 1, used : 0..SizeMod - 1]
    BY DEF IndInv, TypeOK
  <2>2. counts'.alloc = counts.alloc /\ counts'.free = counts.free /\ counts'.used = 0
        /\ atReset' = atReset /\ odd' = (odd \/ Counted # {})
    BY <1>5, <2>1 DEF memopt_shutdown
  <2>3. ~odd' => counts'.used = PageSize * Cardinality(Counted')
    <3> SUFFICES ASSUME ~odd' PROVE counts'.used = PageSize * Cardinality(Counted')
      OBVIOUS
    <3>1. Counted = {}
      BY <2>2, Zenon
    <3> QED BY <1>1, <1>3, <2>2, <3>1
  <2>4. Congruent(counts'.alloc - counts'.free, Cardinality(Counted') - atReset')
    BY <1>1, <2>2 DEF BalanceInv
  <2> QED BY <2>2, <2>3, <2>4 DEF BalanceInv
<1> QED BY <1>4, <1>5

LEMMA NextBalanceInv == IndInv /\ BalanceInv /\ IndInv' /\ [Next]_vars => BalanceInv'
<1> SUFFICES ASSUME IndInv, BalanceInv, IndInv', [Next]_vars PROVE BalanceInv'
  OBVIOUS
<1>1. ASSUME NEW t \in Threads, ThreadStep(t) PROVE BalanceInv'
  <2>1. ASSUME NEW n \in Sizes, Alloc(t, n) PROVE BalanceInv'
    <3>1. PICK huge \in BOOLEAN : Allocate(t, {}, n % SizeMod, huge)
      BY <2>1 DEF Alloc
    <3>2. thread[t].at = "idle" /\ live' = live \ {} /\ UNCHANGED libVars /\ {} \subseteq live
      BY <2>1 DEF Alloc
    <3> QED BY <3>1, <3>2, MapBalance
  <2>2. ASSUME NEW n \in Sizes, NEW b \in live, memopt_realloc(t, b, n) PROVE BalanceInv'
    <3>1. /\ thread[t].at = "idle" /\ Allocate(t, {b}, n % SizeMod, FALSE)
          /\ live' = live \ {b} /\ UNCHANGED libVars
      BY <2>2 DEF memopt_realloc
    <3> QED BY <3>1, MapBalance
  <2> QED BY <1>1, <2>1, <2>2, FreeBalance, CountBalance, CopyBalance, UncountBalance, UnmapBalance
      DEF ThreadStep
<1>2. CASE PoolStep \/ UNCHANGED vars
  <2>1. UNCHANGED <<live, thread, counts, atReset, odd>>
    BY <1>2 DEF PoolStep, memopt_pool_create, memopt_pool_alloc, memopt_pool_destroy, blockVars, vars
  <2> QED BY <2>1, BalanceFrame DEF Counted
<1> QED BY <1>1, <1>2, LibraryBalance DEF Next

LEMMA InitBalanceInv == Init => BalanceInv
<1> SUFFICES ASSUME Init PROVE BalanceInv
  OBVIOUS
<1>1. Counted = {}
  BY DEF Init, Counted, Idle
<1>2. Cardinality(Counted) = 0
  BY <1>1, FS_EmptySet
<1>3. counts.alloc - counts.free - (Cardinality(Counted) - atReset) = 0 * CountMod
  BY <1>2 DEF Init
<1> QED BY <1>2, <1>3 DEF Init, BalanceInv, Congruent

\* For any number of threads and any width of the counters: g_allocation_count and
\* g_free_count differ by the blocks there are, and g_pool_used is exact as long as
\* every block is a page.
THEOREM CountersBalance == Spec => []CountsBalance
<1>1. IndInv /\ BalanceInv => CountsBalance
  <2> SUFFICES ASSUME IndInv, BalanceInv PROVE CountsBalance
    OBVIOUS
  <2>1. counts.alloc - counts.free \in Int /\ Cardinality(Counted) - atReset \in Int
    <3>1. counts \in [alloc : 0..CountMod - 1, free : 0..CountMod - 1, used : 0..SizeMod - 1]
      BY DEF IndInv, TypeOK
    <3> QED BY <3>1, CountedBounded DEF BalanceInv, Bounded
  <2> QED BY <2>1, CongruentRemainder DEF BalanceInv, CountsBalance
<1> QED BY <1>1, InitBalanceInv, NextBalanceInv, IndInvHolds, PTL DEF Spec
=============================================================================
