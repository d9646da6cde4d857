----------------------------- MODULE PyTracker ------------------------------
(***************************************************************************)
(* UROAMMemoryTracker of the Python package (integrations/uroam/           *)
(* ai_hooks.py), which the PyTorch, TensorFlow and ONNX optimizers share.  *)
(* Each of them turns the one tracker on and off.  A framework records     *)
(* what it allocates before it hands it out, and what it frees.            *)
(***************************************************************************)
EXTENDS Integers, FiniteSets, FiniteSetsExt

CONSTANTS
  Threads,
  Tags,
  Object,     \* what the frameworks allocate, records [tag, size]
  MaxTotal    \* cap on total_allocated and total_freed

VARIABLES
  enabled,          \* memory_tracker.enabled
  allocations,      \* bytes by tag
  total_allocated,
  total_freed,
  live,             \* what the frameworks have allocated
  call,             \* call[t]: the record thread t is about to make
  missed            \* a call has found the tracker off

vars == <<enabled, allocations, total_allocated, total_freed, live, call, missed>>

Idle  == [at |-> "idle", of |-> {}]

\* A thread has an object in hand between being asked and having counted it.
Calls == {Idle} \cup [at : {"add", "subtract"}, of : {{o} : o \in Object}]

TypeOK ==
  /\ enabled \in BOOLEAN /\ missed \in BOOLEAN
  /\ allocations \in [Tags -> Nat]
  /\ total_allocated \in Nat /\ total_freed \in Nat
  /\ live \in SUBSET Object
  /\ call \in [Threads -> Calls]

Init ==
  /\ enabled = FALSE
  /\ allocations = [g \in Tags |-> 0]
  /\ total_allocated = 0 /\ total_freed = 0
  /\ live = {} /\ missed = FALSE
  /\ call = [t \in Threads |-> Idle]

Total(weight, S) == MapThenSumSet(LAMBDA x : weight[x], S)

Sum(S)  == Total([o \in S |-> o.size], S)
Pending == UNION {call[t].of : t \in Threads}

-----------------------------------------------------------------------------
\* enable and disable of any of the optimizers: disabling one turns the tracker
\* off for all.
Switch(on) ==
  /\ enabled' = on
  /\ UNCHANGED <<allocations, total_allocated, total_freed, live, call, missed>>

\* The tracker is asked without its lock whether it is on; the lock is taken for the
\* figures.
Begins(t, at, o) ==
  /\ call[t] = Idle
  /\ call' = [call EXCEPT ![t] = IF enabled THEN [at |-> at, of |-> {o}] ELSE Idle]
  /\ missed' = (missed \/ ~enabled)
  /\ UNCHANGED <<enabled, allocations, total_allocated, total_freed>>

Allocates(t, o) ==
  /\ o \notin live \cup Pending
  /\ total_allocated + Sum(Pending \cup {o}) <= MaxTotal
  /\ Begins(t, "add", o)
  /\ live' = live \cup {o}

Frees(t, o) ==
  /\ o \in live \ Pending
  /\ total_freed + Sum(Pending \cup {o}) <= MaxTotal
  /\ Begins(t, "subtract", o)
  /\ live' = live \ {o}

record_allocation(t) ==
  /\ call[t].at = "add"
  /\ \E o \in call[t].of :
       /\ total_allocated' = total_allocated + o.size
       /\ allocations' = [allocations EXCEPT ![o.tag] = @ + o.size]
  /\ call' = [call EXCEPT ![t] = Idle]
  /\ UNCHANGED <<enabled, total_freed, live, missed>>

Max0(n) == IF n > 0 THEN n ELSE 0

\* Defect: a tag whose figure a free would bring to zero keeps it.
FreeClamped(t) ==
  /\ call[t].at = "subtract"
  /\ \E o \in call[t].of :
       /\ total_freed' = total_freed + o.size
       /\ allocations' = [allocations EXCEPT ![o.tag] = IF @ > o.size THEN @ - o.size ELSE @]
  /\ call' = [call EXCEPT ![t] = Idle]
  /\ UNCHANGED <<enabled, total_allocated, live, missed>>

\* Defect: nothing stops a tag's figure at zero.
FreeUnclamped(t) ==
  /\ call[t].at = "subtract"
  /\ \E o \in call[t].of :
       /\ total_freed' = total_freed + o.size
       /\ allocations' = [allocations EXCEPT ![o.tag] = @ - o.size]
  /\ call' = [call EXCEPT ![t] = Idle]
  /\ UNCHANGED <<enabled, total_allocated, live, missed>>

record_free(t) ==
  /\ call[t].at = "subtract"
  /\ \E o \in call[t].of :
       /\ total_freed' = total_freed + o.size
       /\ allocations' = [allocations EXCEPT ![o.tag] = Max0(@ - o.size)]
  /\ call' = [call EXCEPT ![t] = Idle]
  /\ UNCHANGED <<enabled, total_allocated, live, missed>>

Next ==
  \/ \E on \in BOOLEAN : Switch(on)
  \/ \E t \in Threads : \/ \E o \in Object : Allocates(t, o) \/ Frees(t, o)
                        \/ record_allocation(t) \/ record_free(t)

Spec == Init /\ [][Next]_vars

-----------------------------------------------------------------------------
SumTags == Total(allocations, Tags)

\* What is counted as there: live and not about to be added, or about to be taken off.
Recorded == (live \ Pending) \cup UNION {call[t].of : t \in {u \in Threads : call[u].at = "subtract"}}

\* "current", the difference of the totals, never exceeds the sum over the tags, each
\* of which stops at zero, however often the tracker is switched off over live
\* allocations; and until a call has found it off, both are what is allocated.
TagsCoverCurrent ==
  /\ total_allocated - total_freed <= SumTags
  /\ ~missed => /\ total_allocated - total_freed = SumTags
                /\ \A g \in Tags : allocations[g] = Sum({o \in Recorded : o.tag = g})
=============================================================================
