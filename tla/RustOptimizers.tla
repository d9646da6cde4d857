--------------------------- MODULE RustOptimizers ---------------------------
(***************************************************************************)
(* GamingOptimizer and IdleOptimizer of the Rust library (src/gaming,      *)
(* src/idle).  Each is used by one thread at a time; both, and the         *)
(* administrator, write the same kernel files, one write after the other,  *)
(* and any write may fail.  Of the files only swappiness is followed, the  *)
(* one that is ever put back; its value names who wrote it.  When the      *)
(* machine counts as idle, and cancel_pending, decide nothing here.        *)
(***************************************************************************)
EXTENDS Naturals, Sequences

CONSTANT MaxSets  \* how often the administrator sets swappiness

VARIABLES
  thp,           \* the kernel has transparent huge pages
  swappiness,
  critical,      \* GamingOptimizer: critical_pids is not empty
  saved,         \* GamingOptimizer: original_swappiness
  is_optimizing, \* IdleOptimizer
  todo,          \* todo[o]: the files the call of optimizer o has still to write
  sets,
  stranded       \* a process has ended and left the gaming value behind, or
                 \* swappiness could not be read when nothing was saved yet

vars == <<thp, swappiness, critical, saved, is_optimizing, todo, sets, stranded>>

Optimizer == {"gaming", "idle"}
Values    == {"boot", "admin", "gaming", "idle"}

GamingWrites == <<"swappiness", "vm", "ksm", "thp", "oom", "shader_cache">>
Minimal      == <<"ksm", "thp">>
Normal       == Minimal \o <<"swappiness", "vm", "ksm">>
Aggressive   == Normal \o <<"drop_caches", "vm">>

\* What a call may have before it is the end of one of these.
Ends(s) == {SubSeq(s, i, Len(s)) : i \in 1..Len(s) + 1}

TypeOK ==
  /\ thp \in BOOLEAN /\ critical \in BOOLEAN /\ is_optimizing \in BOOLEAN
  /\ swappiness \in Values /\ saved \in Values \cup {"none"}
  /\ todo["gaming"] \in Ends(GamingWrites) \cup {<<"saved">>}
  /\ todo["idle"] \in Ends(Aggressive) \cup Ends(Normal) \cup Ends(Minimal)
  /\ sets \in 0..MaxSets /\ stranded \in BOOLEAN

Init ==
  /\ thp \in BOOLEAN
  /\ swappiness = "boot" /\ saved = "none"
  /\ critical = FALSE /\ is_optimizing = FALSE
  /\ todo = [o \in Optimizer |-> <<>>]
  /\ sets = 0 /\ stranded = FALSE

Calls(o, writes) == todo[o] = <<>> /\ todo' = [todo EXCEPT ![o] = writes]

-----------------------------------------------------------------------------
\* The processes are looked at anew; if /proc cannot be read none is left.
detect_gaming_processes ==
  /\ todo["gaming"] = <<>>
  /\ critical' \in BOOLEAN
  /\ UNCHANGED <<thp, swappiness, saved, is_optimizing, todo, sets, stranded>>

\* Defect: every call saves what it finds.
GamingSavesAgain ==
  /\ critical
  /\ saved' = swappiness
  /\ Calls("gaming", GamingWrites)
  /\ UNCHANGED <<thp, swappiness, critical, is_optimizing, sets, stranded>>

\* apply_gaming_optimizations reads swappiness, saves it the first time, and writes.
\* A reading that fails, or is no number, saves nothing and keeps nothing from being written.
apply_gaming_optimizations ==
  /\ critical
  /\ \/ saved' = (IF saved = "none" THEN swappiness ELSE saved) /\ UNCHANGED stranded
     \/ stranded' = (stranded \/ saved = "none") /\ UNCHANGED saved
  /\ Calls("gaming", GamingWrites)
  /\ UNCHANGED <<thp, swappiness, critical, is_optimizing, sets>>

\* restore_settings, cancel_within_100ms.  What was saved stays saved.
restore_settings ==
  /\ saved # "none"
  /\ Calls("gaming", <<"saved">>)
  /\ UNCHANGED <<thp, swappiness, critical, saved, is_optimizing, sets, stranded>>

\* apply_idle_optimizations, at each level.
apply_idle_optimizations ==
  /\ ~is_optimizing
  /\ is_optimizing' = TRUE
  /\ \E writes \in {Minimal, Normal, Aggressive} : Calls("idle", writes)
  /\ UNCHANGED <<thp, swappiness, critical, saved, sets, stranded>>

\* cancel_within_100ms, reset: nothing is put back.
cancel_idle ==
  /\ todo["idle"] = <<>>
  /\ is_optimizing' = FALSE
  /\ UNCHANGED <<thp, swappiness, critical, saved, todo, sets, stranded>>

\* A write that fails ends the call.  The kernel refuses "[always]" and "[madvise]",
\* with their brackets; without transparent huge pages that write is skipped.
Write(o) ==
  /\ todo[o] # <<>>
  /\ \/ /\ ~(Head(todo[o]) = "thp" /\ thp)
        /\ todo' = [todo EXCEPT ![o] = Tail(@)]
        /\ swappiness' = CASE Head(todo[o]) = "swappiness" -> o
                           [] Head(todo[o]) = "saved" -> saved
                           [] OTHER -> swappiness
     \/ todo' = [todo EXCEPT ![o] = <<>>] /\ UNCHANGED swappiness
  /\ UNCHANGED <<thp, critical, saved, is_optimizing, sets, stranded>>

AdminSets ==
  /\ sets < MaxSets
  /\ swappiness' = "admin" /\ sets' = sets + 1
  /\ UNCHANGED <<thp, critical, saved, is_optimizing, todo, stranded>>

\* The process that uses the library ends, in the middle of a call or not.
Restart ==
  /\ stranded' = (stranded \/ swappiness = "gaming")
  /\ critical' = FALSE /\ saved' = "none" /\ is_optimizing' = FALSE
  /\ todo' = [o \in Optimizer |-> <<>>]
  /\ UNCHANGED <<thp, swappiness, sets>>

Next ==
  \/ detect_gaming_processes \/ apply_gaming_optimizations \/ restore_settings
  \/ apply_idle_optimizations \/ cancel_idle
  \/ \E o \in Optimizer : Write(o)
  \/ AdminSets \/ Restart

Spec == Init /\ [][Next]_vars

-----------------------------------------------------------------------------
\* However often gaming optimizations are applied, fail half way, are restored and
\* applied again, what restore_settings puts back was never set by them, and where they
\* have set swappiness there is something to put back; unless a process ended without
\* restoring, or they wrote although what was there could not be read.
RestoresWhatOthersSet ==
  ~stranded => /\ saved # "gaming"
               /\ swappiness = "gaming" => saved # "none"
=============================================================================
