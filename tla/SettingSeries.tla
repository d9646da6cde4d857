--------------------------- MODULE SettingSeries ----------------------------
(***************************************************************************)
(* What a series of writes, records [file, value], does to a file whoever  *)
(* wrote it before.  MemoptDaemon and UroamEngine write such series.       *)
(***************************************************************************)
EXTENDS Integers, Sequences

\* The writes ws leave v in file f; or they do not touch f.
Decides(ws, f, v) ==
  \E i \in 1..Len(ws) : /\ ws[i].file = f /\ ws[i].value = v
                        /\ \A j \in i + 1..Len(ws) : ws[j].file # f
Spares(ws, f) == \A i \in 1..Len(ws) : ws[i].file # f

\* Once the writes ws are done as well, v is in f, which holds now before them.
Leaves(ws, now, f, v) == IF Spares(ws, f) THEN now = v ELSE Decides(ws, f, v)
=============================================================================
