----------------------------- MODULE PyContexts -----------------------------
(***************************************************************************)
(* The context managers of the Python package (integrations/uroam/core.py):*)
(* each saves the workload type and the priority of the process, sets its  *)
(* own, and puts the saved ones back.  Threads of one process share the    *)
(* settings, and every attribute is read and written by itself.            *)
(***************************************************************************)
EXTENDS Naturals, Sequences, FiniteSetsExt

CONSTANTS
  Threads,
  Kinds,      \* the context managers in use
  Settings,   \* what users set themselves, records [workload, priority]
  MaxOpen,    \* contexts that threads are in, inside one another or not
  MaxSets     \* how often users set something themselves

VARIABLES
  config,     \* _config: workload_type and priority
  ctx,        \* ctx[t]: the contexts thread t is in, with what they saved
  at,         \* at[t]: the statement of a context manager thread t is at
  sets,       \* how often users have set something
  base,       \* the settings when last nobody was in a context
  mixed,      \* since then two threads have been in contexts, or set what a third saved
  touched     \* since then a thread has set something inside its context

vars == <<config, ctx, at, sets, base, mixed, touched>>

Setting(k) ==
  CASE k = "ai"        -> [workload |-> "ai",        priority |-> "P2"]
    [] k = "inference" -> [workload |-> "inference", priority |-> "P0"]
    [] k = "training"  -> [workload |-> "training",  priority |-> "P2"]
    [] k = "gaming"    -> [workload |-> "gaming",    priority |-> "P1"]

Default == [workload |-> "default", priority |-> "P2"]

Configs == LET S == Settings \cup {Default} \cup {Setting(k) : k \in Kinds}
           IN [workload : {s.workload : s \in S}, priority : {s.priority : s \in S}]

Entered == [kind : Kinds, saved : Configs]

TypeOK ==
  /\ config \in Configs /\ base \in Configs
  /\ ctx \in [Threads -> Seq(Entered)]
  /\ at \in [Threads -> {"body", "read", "set", "raise", "restore"}]
  /\ \A t \in Threads : at[t] # "body" => ctx[t] # <<>>
  /\ sets \in Nat /\ mixed \in BOOLEAN /\ touched \in BOOLEAN

Init ==
  /\ config = Default /\ base = Default
  /\ ctx = [t \in Threads |-> <<>>]
  /\ at = [t \in Threads |-> "body"]
  /\ sets = 0 /\ mixed = FALSE /\ touched = FALSE

Top(t)   == ctx[t][Len(ctx[t])]
Alone(t) == \A u \in Threads \ {t} : ctx[u] = <<>>
Moves(t, from, to) == at[t] = from /\ at' = [at EXCEPT ![t] = to]

-----------------------------------------------------------------------------
\* old_workload is read first; the priority saved with it here is read next.
Enter(t, k) ==
  /\ MapThenSumSet(LAMBDA u : Len(ctx[u]), Threads) < MaxOpen
  /\ Moves(t, "body", "read")
  /\ ctx' = [ctx EXCEPT ![t] = Append(@, [kind |-> k, saved |-> config])]
  /\ mixed' = (mixed \/ ~Alone(t))
  /\ UNCHANGED <<config, sets, base, touched>>

ReadPriority(t) ==
  /\ Moves(t, "read", "set")
  /\ ctx' = [ctx EXCEPT ![t][Len(ctx[t])].saved.priority = config.priority]
  /\ UNCHANGED <<config, sets, base, mixed, touched>>

SetWorkload(t) ==
  /\ Moves(t, "set", "raise")
  /\ config' = [config EXCEPT !.workload = Setting(Top(t).kind).workload]
  /\ UNCHANGED <<ctx, sets, base, mixed, touched>>

SetPriority(t) ==
  /\ Moves(t, "raise", "body")
  /\ config' = [config EXCEPT !.priority = Setting(Top(t).kind).priority]
  /\ UNCHANGED <<ctx, sets, base, mixed, touched>>

\* finally: the body has ended, by an exception or not.
RestoreWorkload(t) ==
  /\ ctx[t] # <<>>
  /\ Moves(t, "body", "restore")
  /\ config' = [config EXCEPT !.workload = Top(t).saved.workload]
  /\ UNCHANGED <<ctx, sets, base, mixed, touched>>

\* Nobody is in a context any more: what there is now is what the next ones save.
Settle(t) ==
  IF Alone(t) /\ ctx'[t] = <<>>
  THEN /\ base' = IF mixed THEN config' ELSE base
       /\ mixed' = FALSE /\ touched' = FALSE
  ELSE UNCHANGED <<base, mixed, touched>>

\* Defect: the priority last saved by whatever context is put back.
RestoreOutermost(t) ==
  /\ Moves(t, "restore", "body")
  /\ config' = [config EXCEPT !.priority = ctx[t][1].saved.priority]
  /\ ctx' = [ctx EXCEPT ![t] = SubSeq(@, 1, Len(@) - 1)]
  /\ Settle(t)
  /\ UNCHANGED sets

RestorePriority(t) ==
  /\ Moves(t, "restore", "body")
  /\ config' = [config EXCEPT !.priority = Top(t).saved.priority]
  /\ ctx' = [ctx EXCEPT ![t] = SubSeq(@, 1, Len(@) - 1)]
  /\ Settle(t)
  /\ UNCHANGED sets

\* set_workload_type, set_priority, set_config, and init with a configuration.
UserSets(t, s) ==
  /\ at[t] = "body" /\ sets < MaxSets
  /\ config' \in {s, [config EXCEPT !.workload = s.workload],
                     [config EXCEPT !.priority = s.priority]}
  /\ sets' = sets + 1
  /\ mixed' = (mixed \/ ~Alone(t))
  /\ touched' = (touched \/ ctx[t] # <<>>)
  /\ base' = IF Alone(t) /\ ctx[t] = <<>> THEN config' ELSE base
  /\ UNCHANGED <<ctx, at>>

ThreadStep(t) ==
  \/ \E k \in Kinds : Enter(t, k)
  \/ ReadPriority(t) \/ SetWorkload(t) \/ SetPriority(t)
  \/ RestoreWorkload(t) \/ RestorePriority(t)
  \/ \E s \in Settings : UserSets(t, s)

Next == \E t \in Threads : ThreadStep(t)

Spec == Init /\ [][Next]_vars

-----------------------------------------------------------------------------
\* As long as only one thread at a time is in contexts, however deep: a body runs
\* with the settings of its innermost context, and when the last one has been left
\* the settings are those from before, whatever was set inside.
ContextsRestore ==
  ~mixed =>
    /\ (\A t \in Threads : ctx[t] = <<>>) => config = base
    /\ \A t \in Threads : at[t] = "body" /\ ctx[t] # <<>> /\ ~touched
                            => config = Setting(Top(t).kind)
=============================================================================
