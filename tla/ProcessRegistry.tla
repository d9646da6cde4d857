--------------------------- MODULE ProcessRegistry ---------------------------
(***************************************************************************)
(* What the process tracker promises: a register of processes that only    *)
(* grows while it serves.  A pid is entered once, in the next place, with  *)
(* the class its name has at that moment; later only the name changes.     *)
(* User space is told of an entry when it is made or never.  Once closed   *)
(* nothing is entered until the tracker is loaded again.                   *)
(***************************************************************************)
EXTENDS Integers

CONSTANTS
  Pid, Comm,
  MaxTracked,          \* places in the register
  ProcessPriority(_),  \* the priority and the class of a name
  ProcessClass(_)

VARIABLES
  serving,
  count,    \* places taken
  entries,  \* entries[i]: who has place i
  told      \* told[p]: how often user space has been told of pid p

vars == <<serving, count, entries, told>>

NobodyTold == [p \in Pid |-> 0]

Init ==
  /\ serving = FALSE /\ count = 0
  /\ entries = [i \in {} |-> {}]
  /\ told = NobodyTold

Open ==
  /\ ~serving /\ serving' = TRUE
  /\ UNCHANGED <<count, entries, told>>

Known(p) == \E i \in DOMAIN entries : entries[i].pid = p

Entry(p, c) ==
  [pid |-> p, comm |-> c, priority |-> ProcessPriority(c), class |-> ProcessClass(c)]

Enter(p, c) ==
  /\ serving /\ ~Known(p) /\ count < MaxTracked
  /\ count' = count + 1
  /\ entries' = [i \in 0..count |-> IF i = count THEN Entry(p, c) ELSE entries[i]]
  /\ told' = told \/ told' = [told EXCEPT ![p] = @ + 1]
  /\ UNCHANGED serving

Rename(i, c) ==
  /\ serving
  /\ entries' = [entries EXCEPT ![i].comm = c]
  /\ UNCHANGED <<serving, count, told>>

Close ==
  /\ serving' = FALSE
  /\ count' = 0
  /\ entries' = [i \in {} |-> {}]
  /\ UNCHANGED told

Forget ==
  /\ ~serving
  /\ told' = NobodyTold
  /\ UNCHANGED <<serving, count, entries>>

Next ==
  \/ Open \/ Close \/ Forget
  \/ \E c \in Comm : \/ \E p \in Pid : Enter(p, c)
                     \/ \E i \in DOMAIN entries : Rename(i, c)

Spec == Init /\ [][Next]_vars
=============================================================================
