------------------------------- MODULE PyPool -------------------------------
(***************************************************************************)
(* MemoryPool of the Python package (integrations/uroam/core.py): a list   *)
(* of free blocks with malloc behind it.  It has no lock: threads may be   *)
(* between any two of its statements.  The figure "allocated" that it adds *)
(* up is left out: nothing depends on it.                                  *)
(***************************************************************************)
EXTENDS Naturals, Sequences, FiniteSets, Functions

CONSTANTS
  Threads,
  Blocks,     \* addresses malloc may return
  Count       \* blocks the pool starts with and keeps at most

VARIABLES
  free_blocks, \* the list, its end last
  heap,        \* blocks that malloc gave out and that were not freed
  held,        \* blocks in the hands of callers
  call         \* call[t]: the statement thread t is at, and the block it frees

vars == <<free_blocks, heap, held, call>>

Idle == [at |-> "idle", block |-> {}]

\* A thread has a block in hand only on its way back.
Calls == [at : {"idle", "pop", "malloc"}, block : {{}}]
           \cup [at : {"append", "cfree"}, block : {{b} : b \in Blocks}]

TypeOK ==
  /\ free_blocks \in Seq(Blocks)
  /\ heap \in SUBSET Blocks /\ held \in SUBSET Blocks
  /\ call \in [Threads -> Calls]

\* Some of the first mallocs may fail.
Init ==
  \E n \in 0..Count :
    \E s \in [1..n -> Blocks] :
      /\ IsInjective(s)
      /\ free_blocks = s /\ heap = Range(s)
      /\ held = {}
      /\ call = [t \in Threads |-> Idle]

Moves(t, from, to, b) ==
  /\ call[t].at = from
  /\ call' = [call EXCEPT ![t] = [at |-> to, block |-> b]]

-----------------------------------------------------------------------------
(* MemoryPool.allocate                                                      *)

Allocate(t) ==
  /\ Moves(t, "idle", IF free_blocks # <<>> THEN "pop" ELSE "malloc", {})
  /\ UNCHANGED <<free_blocks, heap, held>>

\* Defect: the block stays in the list.
PopPeeks(t) ==
  /\ Moves(t, "pop", "idle", {})
  /\ held' = IF free_blocks = <<>> THEN held ELSE held \cup {free_blocks[Len(free_blocks)]}
  /\ UNCHANGED <<free_blocks, heap>>

\* Another thread may have taken the last block: IndexError.
Pop(t) ==
  /\ Moves(t, "pop", "idle", {})
  /\ IF free_blocks = <<>> THEN UNCHANGED <<free_blocks, held>>
     ELSE /\ held' = held \cup {free_blocks[Len(free_blocks)]}
          /\ free_blocks' = SubSeq(free_blocks, 1, Len(free_blocks) - 1)
  /\ UNCHANGED heap

\* The function allocate, without alignment: malloc, whether or not UROAM is
\* enabled.  NULL comes back as None.
Malloc(t) ==
  /\ Moves(t, "malloc", "idle", {})
  /\ \/ \E b \in Blocks \ heap : heap' = heap \cup {b} /\ held' = held \cup {b}
     \/ UNCHANGED <<heap, held>>
  /\ UNCHANGED free_blocks

-----------------------------------------------------------------------------
(* MemoryPool.free, of a block its caller holds                             *)

Free(t, b) ==
  /\ Moves(t, "idle", IF Len(free_blocks) < Count THEN "append" ELSE "cfree", {b})
  /\ held' = held \ {b}
  /\ UNCHANGED <<free_blocks, heap>>

Give(t) ==
  /\ Moves(t, "append", "idle", {})
  /\ \E b \in call[t].block : free_blocks' = Append(free_blocks, b)
  /\ UNCHANGED <<heap, held>>

CFree(t) ==
  /\ Moves(t, "cfree", "idle", {})
  /\ heap' = heap \ call[t].block
  /\ UNCHANGED <<free_blocks, held>>

ThreadStep(t) ==
  \/ Allocate(t) \/ Pop(t) \/ Malloc(t)
  \/ \E b \in held : Free(t, b)
  \/ Give(t) \/ CFree(t)

Next == \E t \in Threads : ThreadStep(t)

Spec == Init /\ [][Next]_vars

-----------------------------------------------------------------------------
\* Without a lock, still every block is in one place: free, held by one caller, or
\* being freed in one call; none is lost; and the list outgrows its limit by no more
\* than the other threads that found room at the same time.
BlocksOnce ==
  /\ IsInjective(free_blocks)
  /\ heap = Range(free_blocks) \cup held \cup UNION {call[t].block : t \in Threads}
  /\ Range(free_blocks) \cap held = {}
  /\ \A t \in Threads : /\ call[t].block \cap (Range(free_blocks) \cup held) = {}
                        /\ \A u \in Threads \ {t} : call[t].block \cap call[u].block = {}
  /\ Len(free_blocks) < Count + Cardinality(Threads)
=============================================================================
