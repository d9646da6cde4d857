---------------------------- MODULE DaemonProofs ----------------------------
(***************************************************************************)
(* Theorems about the two daemons that rewrite kernel settings: the Go     *)
(* daemon (MemoptDaemon) and the engine of uroamd (UroamEngine, here under *)
(* the name Rust).  Their types, what a tick or a pass settles on, and     *)
(* that their own writes end there.                                        *)
(***************************************************************************)
EXTENDS MemoptDaemon, FiniteSetTheorems, SequenceTheorems, TLAPS

-----------------------------------------------------------------------------
(* Series of writes.                                                        *)

LEMMA SeriesSpareBoth ==
  ASSUME NEW S, NEW s \in Seq(S), NEW t \in Seq(S), NEW f, Spares(s, f), Spares(t, f)
  PROVE  Spares(s \o t, f)
BY ConcatProperties DEF Spares

LEMMA SeriesDecideFirst ==
  ASSUME NEW S, NEW s \in Seq(S), NEW t \in Seq(S), NEW f, NEW v, Decides(s, f, v), Spares(t, f)
  PROVE  Decides(s \o t, f, v)
<1>1. PICK i \in 1..Len(s) : /\ s[i].file = f /\ s[i].value = v
                            /\ \A j \in i + 1..Len(s) : s[j].file # f
  BY DEF Decides
<1>2. /\ Len(s) \in Nat /\ Len(t) \in Nat /\ Len(s \o t) = Len(s) + Len(t)
      /\ \A j \in 1..Len(s) + Len(t) :
            (s \o t)[j] = IF j <= Len(s) THEN s[j] ELSE t[j - Len(s)]
  BY ConcatProperties, LenProperties
<1>3. ASSUME NEW j \in i + 1..Len(s) + Len(t) PROVE (s \o t)[j].file # f
  <2>1. CASE j <= Len(s)
    BY <1>1, <1>2, <2>1
  <2>2. CASE j > Len(s)
    BY <1>2, <2>2 DEF Spares
  <2> QED BY <1>2, <2>1, <2>2
<1> QED BY <1>1, <1>2, <1>3 DEF Decides

LEMMA SeriesDecideLast ==
  ASSUME NEW S, NEW s \in Seq(S), NEW t \in Seq(S), NEW f, NEW v, Decides(t, f, v)
  PROVE  Decides(s \o t, f, v)
<1>1. PICK i \in 1..Len(t) : /\ t[i].file = f /\ t[i].value = v
                            /\ \A j \in i + 1..Len(t) : t[j].file # f
  BY DEF Decides
<1>2. /\ Len(s) \in Nat /\ Len(t) \in Nat /\ Len(s \o t) = Len(s) + Len(t)
      /\ \A j \in 1..Len(s) + Len(t) :
            (s \o t)[j] = IF j <= Len(s) THEN s[j] ELSE t[j - Len(s)]
  BY ConcatProperties, LenProperties
<1>3. ASSUME NEW j \in Len(s) + i + 1..Len(s) + Len(t) PROVE (s \o t)[j].file # f
  <2>1. j - Len(s) \in i + 1..Len(t) /\ j > Len(s) /\ j \in 1..Len(s) + Len(t)
    BY <1>2
  <2> QED BY <1>1, <1>2, <2>1
<1>4. (s \o t)[Len(s) + i] = t[i] /\ Len(s) + i \in 1..Len(s \o t)
  BY <1>2
<1> QED BY <1>1, <1>2, <1>3, <1>4 DEF Decides

\* Nothing decides and spares at once.
LEMMA DecidesTouches ==
  ASSUME NEW ws, NEW f, NEW v, Decides(ws, f, v)
  PROVE  ~Spares(ws, f)
BY DEF Decides, Spares

\* The first of a series that is not empty, and the rest.
LEMMA SeriesFirst ==
  ASSUME NEW S, NEW ws \in Seq(S), ws # <<>>
  PROVE  /\ Head(ws) = ws[1] /\ Head(ws) \in S
         /\ Tail(ws) \in Seq(S) /\ Len(ws) \in Nat \ {0} /\ Len(Tail(ws)) = Len(ws) - 1
         /\ Len(ws) = 1 <=> Tail(ws) = <<>>
         /\ \A i \in 1..Len(ws) - 1 : Tail(ws)[i] = ws[i + 1]
<1>1. /\ Head(ws) \in S /\ Tail(ws) \in Seq(S) /\ Len(Tail(ws)) = Len(ws) - 1
      /\ \A i \in 1..Len(Tail(ws)) : Tail(ws)[i] = ws[i + 1]
  BY HeadTailProperties
<1>2. Len(ws) \in Nat \ {0}
  BY EmptySeq
<1>3. Tail(ws) = <<>> <=> Len(Tail(ws)) = 0
  BY <1>1, EmptySeq
<1>4. Head(ws) = ws[1]
  OBVIOUS
<1> QED BY <1>1, <1>2, <1>3, <1>4

\* Of a series of more than one, what follows the first decides what the series does.
LEMMA SeriesRest ==
  ASSUME NEW S, NEW ws \in Seq(S), ws # <<>>, NEW f, NEW v
  PROVE  /\ Decides(ws, f, v) => \/ Decides(Tail(ws), f, v)
                                 \/ /\ Spares(Tail(ws), f)
                                    /\ Head(ws).file = f /\ Head(ws).value = v
         /\ Spares(ws, f) => Spares(Tail(ws), f) /\ Head(ws).file # f
<1>1. /\ Head(ws) = ws[1] /\ Len(ws) \in Nat \ {0} /\ Len(Tail(ws)) = Len(ws) - 1
      /\ \A i \in 1..Len(ws) - 1 : Tail(ws)[i] = ws[i + 1]
  BY SeriesFirst
<1>2. ASSUME Decides(ws, f, v)
      PROVE  \/ Decides(Tail(ws), f, v)
             \/ Spares(Tail(ws), f) /\ Head(ws).file = f /\ Head(ws).value = v
  <2>1. PICK i \in 1..Len(ws) : /\ ws[i].file = f /\ ws[i].value = v
                               /\ \A j \in i + 1..Len(ws) : ws[j].file # f
    BY <1>2 DEF Decides
  <2>2. CASE i = 1
    <3>1. \A j \in 1..Len(Tail(ws)) : Tail(ws)[j].file # f
      BY <1>1, <2>1, <2>2
    <3> QED BY <1>1, <2>1, <2>2, <3>1 DEF Spares
  <2>3. CASE i > 1
    <3>1. i - 1 \in 1..Len(Tail(ws)) /\ Tail(ws)[i - 1] = ws[i]
      BY <1>1, <2>3
    <3>2. ASSUME NEW j \in i - 1 + 1..Len(Tail(ws)) PROVE Tail(ws)[j].file # f
      <4>1. j + 1 \in i + 1..Len(ws) /\ Tail(ws)[j] = ws[j + 1]
        BY <1>1
      <4> QED BY <2>1, <4>1
    <3> QED BY <2>1, <3>1, <3>2 DEF Decides
  <2> QED BY <1>1, <2>1, <2>2, <2>3
<1>3. ASSUME Spares(ws, f) PROVE Spares(Tail(ws), f) /\ Head(ws).file # f
  BY <1>1, <1>3 DEF Spares
<1> QED BY <1>2, <1>3

-----------------------------------------------------------------------------
(* MemoptDaemon.                                                            *)

Write  == [file : Files, value : Content]
Writes == Seq(Write)

\* The command writes to no process.
Order  == [file : Knobs, value : Content]
Orders == Seq(Order)

DaemonType == [at : {"off", "wait", "busy"}, sig : BOOLEAN, todo : Writes]

\* The inductive invariant: types, and that a file looks like that of a process that
\* is gone just when it is.
DaemonsInv ==
  /\ daemon \in [Daemons -> DaemonType]
  /\ \A d \in Daemons : daemon[d].at # "busy" <=> daemon[d].todo = <<>>
FilesInv ==
  /\ procs \in [Pid -> Kinds \cup {"none"}]
  /\ file \in [Files -> Content \cup {"boot", "gone"}]
  /\ \A f \in Knobs : file[f] # "gone"
  /\ \A p \in Pid : file[p] = "gone" <=> procs[p] = "none"
OthersInv ==
  gauge \in Gauges /\ cli \in Orders /\ moves \in 0..MaxMoves /\ told \in BOOLEAN
IndInv == DaemonsInv /\ FilesInv /\ OthersInv

-----------------------------------------------------------------------------
(* The writes of a tick are a series of Write, with what follows from it.  *)

LEMMA Knobsets == Knobs \cap Pid = {} /\ Knobs \subseteq Files /\ Pid \subseteq Files
BY MemoptAssumption DEF Files

LEMMA OneWrite ==
  ASSUME NEW f, NEW v \in Content
  PROVE  W(f, v) \in Writes
<1>1. CASE f \in Files
  <2>1. [file |-> f, value |-> v] \in Write
    BY <1>1 DEF Write
  <2> QED BY <1>1, <2>1 DEF W, When, Writes
<1>2. CASE f \notin Files
  BY <1>2 DEF W, When, Writes
<1> QED BY <1>1, <1>2

LEMMA NoWrite == <<>> \in Writes
BY DEF Writes

LEMMA Both ==
  ASSUME NEW s \in Writes, NEW t \in Writes
  PROVE  s \o t \in Writes
BY DEF Writes

LEMMA Conditional ==
  ASSUME NEW c \in BOOLEAN, NEW s \in Writes
  PROVE  When(c, s) \in Writes
BY NoWrite DEF When

\* SetToSeq lists a finite set.
LEMMA ListOf ==
  ASSUME NEW S, IsFiniteSet(S)
  PROVE  /\ Cardinality(S) \in Nat
         /\ SetToSeq(S) \in [1..Cardinality(S) -> S]
         /\ \A x \in S : \E i \in 1..Cardinality(S) : SetToSeq(S)[i] = x
         /\ \A i, j \in 1..Cardinality(S) : SetToSeq(S)[i] = SetToSeq(S)[j] => i = j
<1> DEFINE n == Cardinality(S)
<1>1. n \in Nat /\ ExistsBijection(1..n, S)
  BY FS_CardinalityType
<1>2. PICK f \in [1..n -> S] : IsInjective(f)
  BY <1>1 DEF ExistsBijection, Bijection, Injection
<1>3. SetToSeq(S) \in [1..n -> S] /\ IsInjective(SetToSeq(S))
  BY <1>2 DEF SetToSeq
<1>4. IsFiniteSet(1..n) /\ Cardinality(1..n) = n
  BY <1>1, FS_Interval
<1>5. SetToSeq(S) \in Surjection(1..n, S)
  BY <1>3, <1>4, FS_Injection DEF Injection
<1>6. \A x \in S : \E i \in 1..n : SetToSeq(S)[i] = x
  BY <1>5 DEF Surjection
<1> QED BY <1>1, <1>3, <1>6 DEF IsInjective

\* The routines of a tick, each a series of writes.
LEMMA Routines ==
  ASSUME NEW g \in Gauges, NEW ps \in [Pid -> Kinds \cup {"none"}], NEW idle \in BOOLEAN
  PROVE  /\ PressureWrites(g, idle) \in Writes /\ PoolWrites(ps, idle) \in Writes
         /\ GamingWrites \in Writes /\ AIWrites \in Writes
         /\ CacheWrites(g, idle) \in Writes /\ SwapWrites(g, ps) \in Writes
         /\ ProtectWrites(ps) \in Writes /\ IdleWrites(g, ps, idle) \in Writes
<1>0. /\ Has(ps, "AI") \in BOOLEAN /\ Has(ps, "Gaming") \in BOOLEAN
      /\ (g.used < 50 /\ idle) \in BOOLEAN /\ LowSwapped(g, ps) \in BOOLEAN
      /\ (~idle) \in BOOLEAN
  BY DEF Has, LowSwapped
<1>1. PressureWrites(g, idle) \in Writes
  BY <1>0, OneWrite, Both, Conditional DEF PressureWrites, Content
<1>2. PoolWrites(ps, idle) \in Writes
  BY <1>0, OneWrite, Both, Conditional DEF PoolWrites, Content
<1>3. GamingWrites \in Writes
  BY OneWrite, Both DEF GamingWrites, Content
<1>4. AIWrites \in Writes
  BY OneWrite, Both DEF AIWrites, Content
<1>5. CacheWrites(g, idle) \in Writes
  BY <1>0, OneWrite, Both, Conditional DEF CacheWrites, Content
<1>6. SwapWrites(g, ps) \in Writes
  BY OneWrite, Both DEF SwapWrites, Content
<1>7. ProtectWrites(ps) \in Writes
  <2>1. Running(ps) \subseteq Pid /\ IsFiniteSet(Running(ps))
    BY FS_Subset, MemoptAssumption DEF Running
  <2> DEFINE order == SetToSeq(Running(ps))
             n     == Cardinality(Running(ps))
  <2>2. n \in Nat /\ order \in [1..n -> Running(ps)]
    BY <2>1, ListOf
  <2>3. Len(order) = n
    BY <2>2
  <2>4. ASSUME NEW i \in 1..n
        PROVE  [file |-> order[i], value |-> OomScore(ps[order[i]])] \in Write
    <3>1. order[i] \in Files
      BY <2>1, <2>2, Knobsets
    <3>2. OomScore(ps[order[i]]) \in Content
      BY DEF OomScore, Content
    <3> QED BY <3>1, <3>2 DEF Write
  <2>5. ProtectWrites(ps) \in [1..n -> Write]
    BY <2>3, <2>4 DEF ProtectWrites
  <2> QED BY <2>2, <2>5 DEF Writes
<1>8. IdleWrites(g, ps, idle) \in Writes
  BY <1>0, OneWrite, Both, Conditional DEF IdleWrites, Content
<1> QED BY <1>1, <1>2, <1>3, <1>4, <1>5, <1>6, <1>7, <1>8

\* What a daemon does between two ticks.
LEMMA PlanType ==
  ASSUME NEW g \in Gauges, NEW ps \in [Pid -> Kinds \cup {"none"}]
  PROVE  Plan[g][ps] \in Writes /\ Plan[g][ps] = applyOptimizations(g, ps)
<1> DEFINE idle == detectIdle(g, ps)
<1>1. idle \in BOOLEAN /\ Has(ps, "AI") \in BOOLEAN /\ Has(ps, "Gaming") \in BOOLEAN
  BY DEF detectIdle, Has
<1>2. applyOptimizations(g, ps) \in Writes
  <2> HIDE DEF idle
  <2>1. PressureWrites(g, idle) \o PoolWrites(ps, idle)
          \o When(Has(ps, "Gaming"), GamingWrites) \o When(Has(ps, "AI"), AIWrites)
          \o CacheWrites(g, idle) \o SwapWrites(g, ps) \o ProtectWrites(ps)
          \o IdleWrites(g, ps, idle) \in Writes
    BY <1>1, Routines, Both, Conditional
  <2> QED BY <2>1 DEF applyOptimizations, idle
<1> QED BY <1>2 DEF Plan

-----------------------------------------------------------------------------
(* Types.                                                                   *)

LEMMA FirstAndRest ==
  ASSUME NEW ws \in Writes, ws # <<>>
  PROVE  /\ Head(ws) = ws[1] /\ Head(ws) \in Write
         /\ Tail(ws) \in Writes /\ Len(ws) \in Nat \ {0} /\ Len(Tail(ws)) = Len(ws) - 1
         /\ Len(ws) = 1 <=> Tail(ws) = <<>>
         /\ \A i \in 1..Len(ws) - 1 : Tail(ws)[i] = ws[i + 1]
BY SeriesFirst DEF Writes

\* Writing is typed, and never touches the file of a process that is gone.
LEMMA WriteType ==
  ASSUME FilesInv, NEW w \in Write, writeSysfs(w)
  PROVE  /\ file' \in [Files -> Content \cup {"boot", "gone"}]
         /\ \A f \in Files : file'[f] = "gone" <=> file[f] = "gone"
<1>1. "gone" \notin Content
  BY DEF Content
<1>2. w.file \in Files /\ w.value \in Content
  BY DEF Write
<1> QED BY <1>1, <1>2 DEF writeSysfs, FilesInv

\* What a daemon begins with and what it plans.
LEMMA BeginType ==
  ASSUME DaemonsInv, NEW d \in Daemons, NEW ws \in Writes, Begin(d, ws)
  PROVE  /\ daemon' \in [Daemons -> DaemonType]
         /\ \A e \in Daemons \ {d} : daemon'[e] = daemon[e]
         /\ daemon'[d].todo = ws /\ daemon'[d].sig = daemon[d].sig
         /\ daemon'[d].at = IF ws = <<>> THEN "wait" ELSE "busy"
         /\ DaemonsInv'
<1>1. daemon \in [Daemons -> DaemonType]
  BY DEF DaemonsInv
<1>2. PICK r \in DaemonType : daemon[d] = r
  BY <1>1
<1>3. daemon' = [daemon EXCEPT ![d] = [r EXCEPT !.todo = ws,
                                               !.at = IF ws = <<>> THEN "wait" ELSE "busy"]]
  BY <1>1, <1>2 DEF Begin, DaemonType
<1>4. /\ daemon' \in [Daemons -> DaemonType]
      /\ \A e \in Daemons \ {d} : daemon'[e] = daemon[e]
      /\ daemon'[d].todo = ws /\ daemon'[d].sig = daemon[d].sig
      /\ daemon'[d].at = IF ws = <<>> THEN "wait" ELSE "busy"
  BY <1>1, <1>2, <1>3 DEF DaemonType
<1> QED BY <1>4 DEF DaemonsInv

\* Every command is a series of orders.
LEMMA CommandType == CommandWrites \subseteq Orders
<1>1. ASSUME NEW f \in Knob, NEW v \in Content PROVE W(f, v) \in Orders
  <2>1. f \in Files <=> f \in Knobs
    BY MemoptAssumption DEF Files
  <2>2. CASE f \in Knobs
    <3>1. [file |-> f, value |-> v] \in Order
      BY <2>2 DEF Order
    <3> QED BY <2>1, <2>2, <3>1 DEF W, When, Orders
  <2>3. CASE f \notin Knobs
    BY <2>1, <2>3 DEF W, When, Orders
  <2> QED BY <2>2, <2>3
<1>2. ASSUME NEW s \in Orders, NEW t \in Orders PROVE s \o t \in Orders
  BY DEF Orders
<1>3. /\ {"ksm_run", "zswap_enabled", "thp", "swappiness", "pages_to_scan", "defrag"}
           \subseteq Knob
      /\ {"0", "1", "5", "10", "20", "60", "500", "1000", "2000", "always", "madvise",
          "defer+madvise", "Y", "N"} \subseteq Content
  BY DEF Knob, Content
<1>4. ASSUME NEW c \in Command PROVE c \in Orders
  <2>1. /\ W("ksm_run", "1") \o W("zswap_enabled", "Y") \o W("thp", "always")
             \o W("swappiness", "10") \in Orders
        /\ W("ksm_run", "0") \o W("zswap_enabled", "N") \o W("thp", "madvise")
             \o W("swappiness", "60") \in Orders
    BY <1>1, <1>2, <1>3
  <2>2. /\ W("swappiness", "5") \o W("pages_to_scan", "500") \o W("defrag", "always")
             \in Orders
        /\ W("swappiness", "20") \o W("pages_to_scan", "2000")
             \o W("defrag", "defer+madvise") \in Orders
        /\ W("swappiness", "1") \o W("ksm_run", "0") \o W("defrag", "always") \in Orders
        /\ W("swappiness", "60") \o W("pages_to_scan", "1000") \in Orders
    BY <1>1, <1>2, <1>3
  <2> QED BY <2>1, <2>2 DEF Command
<1> QED BY <1>4 DEF CommandWrites

\* The first order, as a write, and the rest.
LEMMA FirstOrder ==
  ASSUME NEW ws \in Orders, ws # <<>>
  PROVE  /\ Head(ws) \in Write /\ Head(ws).file \in Knobs
         /\ Tail(ws) \in Orders
<1>1. /\ Head(ws) \in Order
      /\ Tail(ws) \in Orders
  BY HeadTailProperties DEF Orders
<1> QED BY <1>1, Knobsets DEF Write, Order

\* The invariant holds the types.
LEMMA TypesFrom == IndInv => TypeOK
<1> SUFFICES ASSUME IndInv PROVE TypeOK
  OBVIOUS
<1>1. ASSUME NEW d \in Daemons
      PROVE  /\ daemon[d].at \in {"off", "wait", "busy"} /\ daemon[d].sig \in BOOLEAN
             /\ \A i \in DOMAIN daemon[d].todo : daemon[d].todo[i].file \in Files
  <2>1. daemon[d] \in DaemonType
    BY DEF IndInv, DaemonsInv
  <2>2. daemon[d].todo \in Writes
    BY <2>1 DEF DaemonType
  <2>3. \A i \in DOMAIN daemon[d].todo : daemon[d].todo[i] \in Write
    BY <2>2 DEF Writes
  <2> QED BY <2>1, <2>3 DEF DaemonType, Write
<1>2. \A i \in DOMAIN cli : cli[i].file \in Knobs
  <2>1. cli \in Orders
    BY DEF IndInv, OthersInv
  <2>2. \A i \in DOMAIN cli : cli[i] \in Order
    BY <2>1 DEF Orders
  <2> QED BY <2>2 DEF Order
<1> QED BY <1>1, <1>2 DEF TypeOK, IndInv, DaemonsInv, FilesInv, OthersInv

\* The invariant holds at first.
LEMMA InitInv == Init => IndInv
<1> SUFFICES ASSUME Init PROVE IndInv
  OBVIOUS
<1>1. file \in [Files -> Content \cup {"boot", "gone"}]
  BY DEF Init, Content
<1>2. \A f \in Knobs : file[f] # "gone"
  BY Knobsets DEF Init
<1>3. \A p \in Pid : file[p] = "gone" <=> procs[p] = "none"
  BY Knobsets DEF Init
<1>4. Off \in DaemonType
  BY NoWrite DEF Off, DaemonType
<1>5. daemon \in [Daemons -> DaemonType]
  BY <1>4 DEF Init
<1>6. \A d \in Daemons : daemon[d].at # "busy" <=> daemon[d].todo = <<>>
  BY DEF Init, Off
<1>7. cli \in Orders
  BY DEF Init, Orders
<1>8. moves \in 0..MaxMoves
  BY MemoptAssumption DEF Init
<1>9. DaemonsInv
  BY <1>5, <1>6 DEF DaemonsInv
<1>10. FilesInv
  BY <1>1, <1>2, <1>3 DEF Init, FilesInv
<1>11. OthersInv
  BY <1>7, <1>8 DEF Init, OthersInv
<1> QED BY <1>9, <1>10, <1>11 DEF IndInv

\* What a step leaves alone keeps its part.
LEMMA Kept ==
  ASSUME IndInv
  PROVE  /\ UNCHANGED daemon => DaemonsInv'
         /\ UNCHANGED <<procs, file>> => FilesInv'
         /\ UNCHANGED moves \/ Move => moves' \in 0..MaxMoves
<1>1. UNCHANGED daemon => DaemonsInv'
  BY DEF IndInv, DaemonsInv
<1>2. UNCHANGED <<procs, file>> => FilesInv'
  BY DEF IndInv, FilesInv
<1>3. UNCHANGED moves \/ Move => moves' \in 0..MaxMoves
  BY MemoptAssumption DEF IndInv, OthersInv, Move
<1> QED BY <1>1, <1>2, <1>3

\* Every step of a daemon keeps the invariant ...
LEMMA DaemonSteps ==
  ASSUME IndInv, NEW d \in Daemons,
         startDaemon(d) \/ DaemonStep(d) \/ Signal(d) \/ Shutdown(d)
  PROVE  IndInv'
<1>0. DaemonsInv /\ FilesInv /\ OthersInv
  BY DEF IndInv
<1>1. CASE startDaemon(d)
  <2>1. W("thp", "always") \o W("sleep_millisecs", "10") \in Writes
    BY OneWrite, Both DEF Content
  <2>2. DaemonsInv'
    BY <1>0, <1>1, <2>1, BeginType DEF startDaemon
  <2>3. FilesInv' /\ OthersInv'
    BY <1>0, <1>1, Kept DEF startDaemon, OthersInv
  <2> QED BY <2>2, <2>3 DEF IndInv
<1>2. CASE Tick(d)
  <2>1. Plan[gauge][procs] \in Writes
    BY <1>0, PlanType DEF OthersInv, FilesInv
  <2>2. DaemonsInv'
    BY <1>0, <1>2, <2>1, BeginType DEF Tick
  <2>3. FilesInv' /\ OthersInv'
    BY <1>0, <1>2, Kept DEF Tick, OthersInv
  <2> QED BY <2>2, <2>3 DEF IndInv
<1>3. CASE WriteNext(d)
  <2>1. PICK r \in DaemonType : daemon[d] = r
    BY <1>0 DEF DaemonsInv
  <2>2. r.todo \in Writes /\ r.todo # <<>> /\ r.at = "busy"
    BY <1>0, <1>3, <2>1 DEF WriteNext, DaemonsInv, DaemonType
  <2>3. /\ Head(r.todo) \in Write /\ Tail(r.todo) \in Writes
        /\ Len(r.todo) = 1 <=> Tail(r.todo) = <<>>
    BY <2>2, FirstAndRest
  <2>4. DaemonsInv'
    <3> DEFINE s == [r EXCEPT !.todo = Tail(r.todo),
                              !.at = IF Len(r.todo) = 1 THEN "wait" ELSE "busy"]
    <3>1. s \in DaemonType /\ (s.at # "busy" <=> s.todo = <<>>)
      BY <2>3 DEF DaemonType
    <3>2. daemon' = [daemon EXCEPT ![d] = s]
      BY <1>0, <1>3, <2>1 DEF WriteNext, DaemonsInv, DaemonType
    <3> HIDE DEF s
    <3> QED BY <1>0, <3>1, <3>2 DEF DaemonsInv
  <2>5. FilesInv'
    <3>1. writeSysfs(Head(r.todo)) /\ procs' = procs
      BY <1>3, <2>1 DEF WriteNext
    <3> QED BY <1>0, <2>3, <3>1, WriteType, Knobsets DEF FilesInv
  <2>6. OthersInv'
    BY <1>0, <1>3, Kept DEF WriteNext, OthersInv
  <2> QED BY <2>4, <2>5, <2>6 DEF IndInv
<1>4. CASE Signal(d)
  <2>1. DaemonsInv'
    <3>1. PICK r \in DaemonType : daemon[d] = r
      BY <1>0 DEF DaemonsInv
    <3>2. daemon' = [daemon EXCEPT ![d] = [r EXCEPT !.sig = TRUE]]
      BY <1>0, <1>4, <3>1 DEF Signal, DaemonsInv, DaemonType
    <3> QED BY <1>0, <3>1, <3>2 DEF DaemonsInv, DaemonType
  <2>2. FilesInv' /\ OthersInv'
    BY <1>0, <1>4, Kept DEF Signal, OthersInv
  <2> QED BY <2>1, <2>2 DEF IndInv
<1>5. CASE Shutdown(d)
  <2>1. DaemonsInv'
    BY <1>0, <1>5, NoWrite DEF Shutdown, DaemonsInv, Off, DaemonType
  <2>2. FilesInv' /\ OthersInv'
    BY <1>0, <1>5, Kept DEF Shutdown, OthersInv
  <2> QED BY <2>1, <2>2 DEF IndInv
<1> QED BY <1>1, <1>2, <1>3, <1>4, <1>5 DEF DaemonStep

\* ... and so does every step of the command and of the machine.
LEMMA OtherSteps ==
  ASSUME IndInv,
         \/ \E c \in CommandWrites : RunCommand(c)
         \/ CommandStep \/ stopDaemon
         \/ Environment
  PROVE  IndInv'
<1>0. DaemonsInv /\ FilesInv /\ OthersInv
  BY DEF IndInv
<1>1. ASSUME NEW c \in CommandWrites, RunCommand(c) PROVE IndInv'
  <2>1. OthersInv'
    BY <1>0, <1>1, CommandType, Kept DEF RunCommand, OthersInv
  <2>2. FilesInv' /\ DaemonsInv'
    BY <1>0, <1>1, Kept DEF RunCommand
  <2> QED BY <2>1, <2>2 DEF IndInv
<1>2. CASE CommandStep
  <2>1. Head(cli) \in Write /\ Tail(cli) \in Orders
    BY <1>0, <1>2, FirstOrder DEF CommandStep, OthersInv
  <2>2. FilesInv'
    <3>1. writeSysfs(Head(cli)) /\ procs' = procs
      BY <1>2 DEF CommandStep
    <3> QED BY <1>0, <2>1, <3>1, WriteType, Knobsets DEF FilesInv
  <2>3. DaemonsInv' /\ OthersInv'
    BY <1>0, <1>2, <2>1, Kept DEF CommandStep, OthersInv
  <2> QED BY <2>2, <2>3 DEF IndInv
<1>3. CASE stopDaemon
  <2>1. DaemonsInv'
    BY <1>0, <1>3, NoWrite DEF stopDaemon, DaemonsInv, Off, DaemonType
  <2>2. FilesInv' /\ OthersInv'
    BY <1>0, <1>3, Kept DEF stopDaemon, OthersInv
  <2> QED BY <2>1, <2>2 DEF IndInv
<1>4. ASSUME NEW g \in Gauges, GaugeMoves(g) PROVE IndInv'
  <2>1. DaemonsInv' /\ FilesInv' /\ OthersInv'
    BY <1>0, <1>4, Kept DEF GaugeMoves, OthersInv
  <2> QED BY <2>1 DEF IndInv
<1>5. ASSUME NEW p \in Pid, ProcEnds(p) PROVE IndInv'
  <2>1. FilesInv'
    BY <1>0, <1>5, Knobsets DEF ProcEnds, FilesInv
  <2>2. DaemonsInv' /\ OthersInv'
    BY <1>0, <1>5, Kept DEF ProcEnds, OthersInv
  <2> QED BY <2>1, <2>2 DEF IndInv
<1>6. ASSUME NEW p \in Pid, NEW k \in Kinds, ProcStarts(p, k) PROVE IndInv'
  <2>1. FilesInv'
    <3>1. "0" \in Content /\ k # "none" /\ "0" # "gone"
      BY MemoptAssumption DEF Content, Kind
    <3> QED BY <1>0, <1>6, <3>1, Knobsets DEF ProcStarts, FilesInv
  <2>2. DaemonsInv' /\ OthersInv'
    BY <1>0, <1>6, Kept DEF ProcStarts, OthersInv
  <2> QED BY <2>1, <2>2 DEF IndInv
<1> QED BY <1>1, <1>2, <1>3, <1>4, <1>5, <1>6 DEF Environment

LEMMA InvStep == IndInv /\ [Next]_vars => IndInv'
<1> SUFFICES ASSUME IndInv, [Next]_vars PROVE IndInv'
  OBVIOUS
<1>1. CASE Next
  BY <1>1, DaemonSteps, OtherSteps DEF Next
<1>2. CASE UNCHANGED vars
  BY <1>2 DEF vars, IndInv, DaemonsInv, FilesInv, OthersInv
<1> QED BY <1>1, <1>2

LEMMA InvHolds == Spec => []IndInv
BY InitInv, InvStep, PTL DEF Spec

\* Through any ticks, kills, commands, births and deaths, every write the daemons and the
\* command have left goes to a file there is or was, a daemon is busy just while it has
\* writes left, and no write brings back the file of a process that is gone.
THEOREM TypeCorrect == Spec => []TypeOK
BY InvHolds, TypesFrom, PTL

-----------------------------------------------------------------------------
(* What a tick settles on.                                                  *)

LEMMA OneDecides ==
  ASSUME NEW f \in Files, NEW v
  PROVE  Decides(W(f, v), f, v)
BY DEF W, When, Decides

LEMMA OneSpares ==
  ASSUME NEW f, NEW g, NEW v, f # g
  PROVE  Spares(W(g, v), f)
BY DEF W, When, Spares

LEMMA NoneSpares ==
  ASSUME NEW f
  PROVE  Spares(<<>>, f)
BY DEF Spares

LEMMA SpareBoth ==
  ASSUME NEW s \in Writes, NEW t \in Writes, NEW f, Spares(s, f), Spares(t, f)
  PROVE  Spares(s \o t, f)
BY SeriesSpareBoth DEF Writes

LEMMA DecideFirst ==
  ASSUME NEW s \in Writes, NEW t \in Writes, NEW f, NEW v, Decides(s, f, v), Spares(t, f)
  PROVE  Decides(s \o t, f, v)
BY SeriesDecideFirst DEF Writes

LEMMA DecideLast ==
  ASSUME NEW s \in Writes, NEW t \in Writes, NEW f, NEW v, Decides(t, f, v)
  PROVE  Decides(s \o t, f, v)
BY SeriesDecideLast DEF Writes

\* One more write, to another file.
LEMMA OneMore ==
  ASSUME NEW s \in Writes, NEW f, NEW u, NEW g, NEW v, W(g, v) \in Writes, f # g
  PROVE  /\ s \o W(g, v) \in Writes
         /\ Spares(s, f) => Spares(s \o W(g, v), f)
         /\ Decides(s, f, u) => Decides(s \o W(g, v), f, u)
BY Both, OneSpares, SpareBoth, DecideFirst

\* The pieces of a tick that leave KSM, or the zswap pool, or the scores alone.
LEMMA RoutinesSpare ==
  ASSUME NEW g \in Gauges, NEW ps \in [Pid -> Kinds \cup {"none"}], NEW idle \in BOOLEAN
  PROVE  /\ \A f \in {"ksm_run", "max_pool_percent"} :
                Spares(CacheWrites(g, idle), f) /\ Spares(SwapWrites(g, ps), f)
         /\ Spares(PoolWrites(ps, idle), "ksm_run")
         /\ Spares(AIWrites, "max_pool_percent")
         /\ ~idle => \A f \in {"ksm_run", "max_pool_percent"} \cup Pid :
                       Spares(IdleWrites(g, ps, idle), f)
         /\ \A p \in Pid : Spares(IdleWrites(g, ps, idle), p)
<1>0. \A f, v : v \in {"0", "1", "2", "3", "5", "10", "20", "25", "30", "40", "50", "80", "90",
                       "100", "3000", "5000", "always", "defer+madvise", "Y", "zstd", "lz4"}
                 => W(f, v) \in Writes
  BY OneWrite DEF Content
<1>1. ASSUME NEW f \in {"ksm_run", "max_pool_percent"}
      PROVE  Spares(CacheWrites(g, idle), f) /\ Spares(SwapWrites(g, ps), f)
  <2>1. Spares(CacheWrites(g, idle), f)
    BY OneSpares, NoneSpares DEF CacheWrites, When
  <2>2. /\ Spares(W("swappiness", "5") \o W("page-cluster", "0"), f)
        /\ Spares(W("swappiness", "80") \o W("page-cluster", "3"), f)
        /\ Spares(W("swappiness", "20") \o W("page-cluster", "1"), f)
        /\ Spares(W("swappiness", "40") \o W("page-cluster", "2"), f)
    BY <1>0, OneSpares, SpareBoth
  <2> QED BY <2>1, <2>2 DEF SwapWrites
<1>2. Spares(PoolWrites(ps, idle), "ksm_run")
  BY OneSpares, NoneSpares DEF PoolWrites, When
<1>3. Spares(AIWrites, "max_pool_percent")
  <2> DEFINE a == W("thp", "always") \o W("defrag", "defer+madvise") \o W("ksm_run", "1")
                    \o W("pages_to_scan", "3000") \o W("sleep_millisecs", "10")
  <2>1. a \in Writes /\ Spares(a, "max_pool_percent")
    BY <1>0, Both, OneSpares, SpareBoth
  <2>2. Spares(a \o W("page-cluster", "3") \o W("dirty_ratio", "30")
                 \o W("dirty_background_ratio", "10") \o W("vfs_cache_pressure", "100"),
               "max_pool_percent")
    <3> HIDE DEF a
    <3> QED BY <1>0, <2>1, Both, OneMore
  <2> QED BY <2>2 DEF AIWrites
<1>4. ASSUME NEW f \in {"ksm_run", "max_pool_percent"} \cup Pid, ~idle
      PROVE  Spares(IdleWrites(g, ps, idle), f)
  <2>1. f # "vfs_cache_pressure" /\ f # "compressor"
    BY MemoptAssumption DEF Knob
  <2> QED BY <1>0, <1>4, <2>1, OneSpares, SpareBoth DEF IdleWrites
<1>5. ASSUME NEW p \in Pid, idle PROVE Spares(IdleWrites(g, ps, idle), p)
  <2>1. \A f \in Knob : p # f
    BY MemoptAssumption
  <2>2. LowSwapped(g, ps) \in BOOLEAN
    BY DEF LowSwapped
  <2>3. {"swappiness", "vfs_cache_pressure", "ksm_run", "pages_to_scan", "sleep_millisecs",
         "max_pool_percent", "zswap_enabled", "compressor", "drop_caches", "defrag"}
          \subseteq Knob
    BY DEF Knob
  <2>4. Spares(When(LowSwapped(g, ps), W("drop_caches", "3")), p)
    BY <2>1, <2>3, OneSpares, NoneSpares DEF When
  <2> DEFINE a == W("swappiness", "90") \o W("vfs_cache_pressure", "50") \o W("ksm_run", "1")
                    \o W("pages_to_scan", "5000") \o W("sleep_millisecs", "5")
             b == a \o W("max_pool_percent", "40") \o W("zswap_enabled", "Y")
                    \o W("compressor", "zstd")
  <2>5. a \in Writes /\ Spares(a, p)
    BY <1>0, <2>1, <2>3, Both, OneSpares, SpareBoth
  <2>6. b \in Writes /\ Spares(b, p)
    <3> HIDE DEF a
    <3> QED BY <1>0, <2>1, <2>3, <2>5, Both, OneSpares, SpareBoth
  <2>7. Spares(b \o When(LowSwapped(g, ps), W("drop_caches", "3")) \o W("defrag", "always"), p)
    <3> HIDE DEF b
    <3> QED BY <1>0, <2>1, <2>2, <2>3, <2>4, <2>6, Both, Conditional, OneSpares, SpareBoth
  <2> QED BY <1>5, <2>7 DEF IdleWrites
<1> QED BY <1>1, <1>2, <1>3, <1>4, <1>5

\* The pieces of a tick that decide KSM, the zswap pool, and the scores.
LEMMA RoutinesDecide ==
  ASSUME NEW g \in Gauges, NEW ps \in [Pid -> Kinds \cup {"none"}], NEW idle \in BOOLEAN
  PROVE  /\ "ksm_run" \in Knobs =>
              /\ Decides(PressureWrites(g, idle), "ksm_run",
                         IF g.full > 10 \/ g.some > 5 \/ g.used > 70 THEN "1" ELSE "0")
              /\ Decides(GamingWrites, "ksm_run", "0")
              /\ Decides(AIWrites, "ksm_run", "1")
              /\ idle => Decides(IdleWrites(g, ps, idle), "ksm_run", "1")
         /\ "max_pool_percent" \in Knobs =>
              /\ Has(ps, "AI") \/ Has(ps, "Gaming") =>
                   Decides(PoolWrites(ps, idle), "max_pool_percent", "30")
              /\ ~(Has(ps, "AI") \/ Has(ps, "Gaming")) /\ ~idle =>
                   Decides(PoolWrites(ps, idle), "max_pool_percent", "20")
              /\ idle => Decides(IdleWrites(g, ps, idle), "max_pool_percent", "40")
         /\ Spares(GamingWrites, "max_pool_percent")
<1>0. \A f, v : v \in {"0", "1", "2", "3", "5", "10", "20", "30", "40", "50", "60", "90", "100",
                       "3000", "5000", "65536", "always", "defer+madvise", "Y", "zstd"}
                 => W(f, v) \in Writes
  BY OneWrite DEF Content
<1>1. ASSUME "ksm_run" \in Knobs
      PROVE  Decides(PressureWrites(g, idle), "ksm_run",
                     IF g.full > 10 \/ g.some > 5 \/ g.used > 70 THEN "1" ELSE "0")
  <2>0. "ksm_run" \in Files /\ {g.used, g.full, g.some} \subseteq Nat
    BY <1>1, MemoptAssumption DEF Files
  <2>1. /\ W("swappiness", "5") \o W("ksm_run", "1") \in Writes
        /\ Decides(W("swappiness", "5") \o W("ksm_run", "1"), "ksm_run", "1")
        /\ Decides(W("swappiness", "20") \o W("ksm_run", "1"), "ksm_run", "1")
    BY <1>0, <2>0, Both, OneDecides, DecideLast
  <2>2. Decides(W("swappiness", "5") \o W("ksm_run", "1") \o W("pages_to_scan", "3000"),
                "ksm_run", "1")
    BY <1>0, <2>1, OneSpares, DecideFirst
  <2>3. Decides(When(~idle, W("swappiness", "60")) \o W("ksm_run", "0"), "ksm_run", "0")
    BY <1>0, <2>0, NoWrite, OneDecides, DecideLast DEF When
  <2> QED BY <2>0, <2>1, <2>2, <2>3 DEF PressureWrites
<1>2. /\ Spares(GamingWrites, "max_pool_percent")
      /\ "ksm_run" \in Knobs => Decides(GamingWrites, "ksm_run", "0")
  <2> DEFINE a == W("swappiness", "10") \o W("dirty_ratio", "5")
                    \o W("dirty_background_ratio", "2") \o W("vfs_cache_pressure", "50")
                    \o W("thp", "always")
             b == a \o W("defrag", "always") \o W("ksm_run", "0")
  <2>1. a \in Writes /\ Spares(a, "max_pool_percent")
    BY <1>0, Both, OneSpares, SpareBoth
  <2>2. b \in Writes /\ Spares(b, "max_pool_percent")
    <3> HIDE DEF a
    <3> QED BY <1>0, <2>1, Both, OneMore
  <2>3. "ksm_run" \in Knobs => Decides(b, "ksm_run", "0")
    <3> HIDE DEF a
    <3> QED BY <1>0, <2>1, Both, OneDecides, DecideLast DEF Files
  <2>4. /\ Spares(b \o W("page-cluster", "0") \o W("min_free_kbytes", "65536"),
                  "max_pool_percent")
        /\ "ksm_run" \in Knobs =>
             Decides(b \o W("page-cluster", "0") \o W("min_free_kbytes", "65536"),
                     "ksm_run", "0")
    <3> HIDE DEF b
    <3> QED BY <1>0, <2>2, <2>3, Both, OneMore
  <2> QED BY <2>4 DEF GamingWrites
<1>3. "ksm_run" \in Knobs => Decides(AIWrites, "ksm_run", "1")
  <2> DEFINE a == W("thp", "always") \o W("defrag", "defer+madvise")
             b == a \o W("ksm_run", "1")
             c == b \o W("pages_to_scan", "3000") \o W("sleep_millisecs", "10")
  <2> SUFFICES ASSUME "ksm_run" \in Knobs PROVE Decides(AIWrites, "ksm_run", "1")
    OBVIOUS
  <2>1. a \in Writes /\ b \in Writes
    BY <1>0, Both
  <2>2. Decides(b, "ksm_run", "1")
    <3> HIDE DEF a
    <3> QED BY <1>0, <2>1, OneDecides, DecideLast DEF Files
  <2>3. c \in Writes /\ Decides(c, "ksm_run", "1")
    <3> HIDE DEF b
    <3> QED BY <1>0, <2>1, <2>2, Both, OneMore
  <2>4. Decides(c \o W("page-cluster", "3") \o W("dirty_ratio", "30")
                  \o W("dirty_background_ratio", "10") \o W("vfs_cache_pressure", "100"),
                "ksm_run", "1")
    <3> HIDE DEF c
    <3> QED BY <1>0, <2>3, Both, OneMore
  <2> QED BY <2>4 DEF AIWrites
<1>4. ASSUME idle
      PROVE  /\ "ksm_run" \in Knobs => Decides(IdleWrites(g, ps, idle), "ksm_run", "1")
             /\ "max_pool_percent" \in Knobs =>
                  Decides(IdleWrites(g, ps, idle), "max_pool_percent", "40")
  <2> DEFINE a == W("swappiness", "90") \o W("vfs_cache_pressure", "50")
             b == a \o W("ksm_run", "1")
             c == b \o W("pages_to_scan", "5000") \o W("sleep_millisecs", "5")
             e == c \o W("max_pool_percent", "40")
             h == e \o W("zswap_enabled", "Y") \o W("compressor", "zstd")
             drop == When(LowSwapped(g, ps), W("drop_caches", "3"))
  <2>1. a \in Writes /\ b \in Writes
    BY <1>0, Both
  <2>2. "ksm_run" \in Knobs => Decides(b, "ksm_run", "1")
    <3> HIDE DEF a
    <3> QED BY <1>0, <2>1, OneDecides, DecideLast DEF Files
  <2>3. c \in Writes /\ ("ksm_run" \in Knobs => Decides(c, "ksm_run", "1"))
    <3> HIDE DEF b
    <3> QED BY <1>0, <2>1, <2>2, Both, OneMore
  <2>4. /\ e \in Writes
        /\ "ksm_run" \in Knobs => Decides(e, "ksm_run", "1")
        /\ "max_pool_percent" \in Knobs => Decides(e, "max_pool_percent", "40")
    <3> HIDE DEF c
    <3> QED BY <1>0, <2>3, Both, OneSpares, OneDecides, DecideFirst, DecideLast DEF Files
  <2>5. /\ h \in Writes
        /\ "ksm_run" \in Knobs => Decides(h, "ksm_run", "1")
        /\ "max_pool_percent" \in Knobs => Decides(h, "max_pool_percent", "40")
    <3> HIDE DEF e
    <3> QED BY <1>0, <2>4, Both, OneMore
  <2>6. drop \in Writes /\ Spares(drop, "ksm_run") /\ Spares(drop, "max_pool_percent")
    BY <1>0, NoWrite, OneSpares, NoneSpares DEF When
  <2>7. /\ "ksm_run" \in Knobs => Decides(h \o drop \o W("defrag", "always"), "ksm_run", "1")
        /\ "max_pool_percent" \in Knobs =>
             Decides(h \o drop \o W("defrag", "always"), "max_pool_percent", "40")
    <3> HIDE DEF h, drop
    <3> QED BY <1>0, <2>5, <2>6, Both, SpareBoth, DecideFirst, OneMore
  <2> QED BY <1>4, <2>7 DEF IdleWrites
<1>5. "max_pool_percent" \in Knobs =>
        /\ Has(ps, "AI") \/ Has(ps, "Gaming") =>
             Decides(PoolWrites(ps, idle), "max_pool_percent", "30")
        /\ ~(Has(ps, "AI") \/ Has(ps, "Gaming")) /\ ~idle =>
             Decides(PoolWrites(ps, idle), "max_pool_percent", "20")
  BY OneDecides DEF PoolWrites, When, Files
<1> QED BY <1>1, <1>2, <1>3, <1>4, <1>5

\* The scores go to the running processes and to nothing else, each its own.
LEMMA ScoresDecide ==
  ASSUME NEW ps \in [Pid -> Kinds \cup {"none"}]
  PROVE  /\ \A f \in Knobs : Spares(ProtectWrites(ps), f)
         /\ \A p \in Running(ps) : Decides(ProtectWrites(ps), p, OomScore(ps[p]))
<1>1. Running(ps) \subseteq Pid /\ IsFiniteSet(Running(ps))
  BY FS_Subset, MemoptAssumption DEF Running
<1> DEFINE order == SetToSeq(Running(ps))
           n     == Cardinality(Running(ps))
<1>2. /\ n \in Nat /\ order \in [1..n -> Running(ps)]
      /\ \A x \in Running(ps) : \E i \in 1..n : order[i] = x
      /\ \A i, j \in 1..n : order[i] = order[j] => i = j
  BY <1>1, ListOf
<1>3. Len(order) = n
  BY <1>2
<1>4. ProtectWrites(ps) = [i \in 1..n |-> [file |-> order[i], value |-> OomScore(ps[order[i]])]]
  BY <1>3 DEF ProtectWrites
<1>5. Len(ProtectWrites(ps)) = n
  BY <1>2, <1>4
<1> HIDE DEF order, n
<1>6. ASSUME NEW f \in Knobs PROVE Spares(ProtectWrites(ps), f)
  BY <1>1, <1>2, <1>4, <1>5, Knobsets DEF Spares
<1>7. ASSUME NEW p \in Running(ps) PROVE Decides(ProtectWrites(ps), p, OomScore(ps[p]))
  <2>1. PICK i \in 1..n : order[i] = p
    BY <1>2
  <2>2. ASSUME NEW j \in i + 1..n PROVE ProtectWrites(ps)[j].file # p
    BY <1>2, <1>4, <2>1
  <2> QED BY <1>2, <1>4, <1>5, <2>1, <2>2 DEF Decides
<1> QED BY <1>6, <1>7

\* What a whole tick decides.
LEMMA PlanDecides ==
  ASSUME NEW g \in Gauges, NEW ps \in [Pid -> Kinds \cup {"none"}],
         NEW idle, idle = detectIdle(g, ps), NEW ai, ai = Has(ps, "AI"),
         NEW game, game = Has(ps, "Gaming")
  PROVE  /\ "ksm_run" \in Knobs =>
              Decides(Plan[g][ps], "ksm_run",
                      IF \/ idle \/ ai
                         \/ ~game /\ (g.full > 10 \/ g.some > 5 \/ g.used > 70)
                      THEN "1" ELSE "0")
         /\ "max_pool_percent" \in Knobs =>
              Decides(Plan[g][ps], "max_pool_percent",
                      IF idle THEN "40" ELSE IF ai \/ game THEN "30" ELSE "20")
         /\ \A p \in Running(ps) : Decides(Plan[g][ps], p, OomScore(ps[p]))
<1> DEFINE a == PressureWrites(g, idle) \o PoolWrites(ps, idle)
           b == a \o When(game, GamingWrites)
           c == b \o When(ai, AIWrites)
           d == c \o CacheWrites(g, idle) \o SwapWrites(g, ps)
           e == d \o ProtectWrites(ps)
           ksm == IF ai THEN "1" ELSE IF game THEN "0"
                  ELSE IF g.full > 10 \/ g.some > 5 \/ g.used > 70 THEN "1" ELSE "0"
           pressed == IF g.full > 10 \/ g.some > 5 \/ g.used > 70 THEN "1" ELSE "0"
           pool == IF ai \/ game THEN "30" ELSE "20"
<1>0. idle \in BOOLEAN /\ ai \in BOOLEAN /\ game \in BOOLEAN
  BY DEF detectIdle, Has
<1>1. Plan[g][ps] = e \o IdleWrites(g, ps, idle)
  BY PlanType DEF applyOptimizations
<1>2. /\ a \in Writes /\ b \in Writes /\ c \in Writes /\ d \in Writes /\ e \in Writes
      /\ When(game, GamingWrites) \in Writes /\ When(ai, AIWrites) \in Writes
  <2>1. When(game, GamingWrites) \in Writes /\ When(ai, AIWrites) \in Writes
    BY <1>0, Routines, Conditional
  <2> QED BY <1>0, <2>1, Routines, Both
<1>3. ASSUME "ksm_run" \in Knobs
      PROVE  /\ Decides(e, "ksm_run", ksm)
             /\ idle => Decides(IdleWrites(g, ps, idle), "ksm_run", "1")
             /\ ~idle => Spares(IdleWrites(g, ps, idle), "ksm_run")
  <2>1. Decides(a, "ksm_run", pressed)
    BY <1>0, <1>3, Routines, RoutinesDecide, RoutinesSpare, DecideFirst
  <2>2. Decides(b, "ksm_run", IF game THEN "0" ELSE pressed)
    <3>1. CASE game
      <4> HIDE DEF a
      <4> QED BY <1>0, <1>2, <1>3, <3>1, RoutinesDecide, DecideLast DEF When
    <3>2. CASE ~game
      <4> HIDE DEF a, pressed
      <4> QED BY <1>2, <2>1, <3>2, NoWrite, NoneSpares, DecideFirst DEF When
    <3> QED BY <3>1, <3>2
  <2>3. Decides(c, "ksm_run", ksm)
    <3>1. CASE ai
      <4> HIDE DEF b
      <4> QED BY <1>0, <1>2, <1>3, <3>1, RoutinesDecide, DecideLast DEF When
    <3>2. CASE ~ai
      <4>1. ksm = IF game THEN "0" ELSE pressed
        BY <1>0, <3>2
      <4> HIDE DEF b, ksm, pressed
      <4> QED BY <1>2, <2>2, <3>2, <4>1, NoWrite, NoneSpares, DecideFirst DEF When
    <3> QED BY <3>1, <3>2
  <2>4. Decides(d, "ksm_run", ksm)
    <3> HIDE DEF c, ksm
    <3> QED BY <1>0, <1>2, <2>3, Routines, RoutinesSpare, Both, DecideFirst
  <2>5. Decides(e, "ksm_run", ksm)
    <3> HIDE DEF d, ksm
    <3> QED BY <1>0, <1>2, <1>3, <2>4, Routines, ScoresDecide, DecideFirst
  <2> QED BY <1>0, <1>3, <2>5, RoutinesDecide, RoutinesSpare
<1>4. ASSUME "max_pool_percent" \in Knobs
      PROVE  /\ ~idle => Decides(e, "max_pool_percent", pool)
             /\ idle => Decides(IdleWrites(g, ps, idle), "max_pool_percent", "40")
             /\ ~idle => Spares(IdleWrites(g, ps, idle), "max_pool_percent")
  <2>1. ~idle => Decides(a, "max_pool_percent", pool)
    BY <1>0, <1>4, Routines, RoutinesDecide, DecideLast
  <2>2. ~idle => Decides(b, "max_pool_percent", pool)
    <3>1. Spares(When(game, GamingWrites), "max_pool_percent")
      BY <1>0, RoutinesDecide, NoneSpares DEF When
    <3> HIDE DEF a, pool
    <3> QED BY <1>2, <2>1, <3>1, DecideFirst
  <2>3. ~idle => Decides(c, "max_pool_percent", pool)
    <3>1. Spares(When(ai, AIWrites), "max_pool_percent")
      BY <1>0, RoutinesSpare, NoneSpares DEF When
    <3> HIDE DEF b, pool
    <3> QED BY <1>2, <2>2, <3>1, DecideFirst
  <2>4. ~idle => Decides(d, "max_pool_percent", pool)
    <3> HIDE DEF c, pool
    <3> QED BY <1>0, <1>2, <2>3, Routines, RoutinesSpare, Both, DecideFirst
  <2>5. ~idle => Decides(e, "max_pool_percent", pool)
    <3> HIDE DEF d, pool
    <3> QED BY <1>0, <1>2, <1>4, <2>4, Routines, ScoresDecide, DecideFirst
  <2> QED BY <1>0, <1>4, <2>5, RoutinesDecide, RoutinesSpare
<1>5. ASSUME NEW p \in Running(ps) PROVE Decides(Plan[g][ps], p, OomScore(ps[p]))
  <2>1. Decides(e, p, OomScore(ps[p]))
    <3> HIDE DEF d
    <3> QED BY <1>0, <1>2, Routines, ScoresDecide, DecideLast
  <2>2. Spares(IdleWrites(g, ps, idle), p)
    BY <1>0, RoutinesSpare DEF Running
  <2> HIDE DEF e
  <2> QED BY <1>0, <1>1, <1>2, <2>1, <2>2, Routines, DecideFirst
<1>6. "ksm_run" \in Knobs =>
        Decides(Plan[g][ps], "ksm_run", IF idle THEN "1" ELSE ksm)
  <2> HIDE DEF e, ksm
  <2> QED BY <1>0, <1>1, <1>2, <1>3, Routines, DecideFirst, DecideLast
<1>7. "max_pool_percent" \in Knobs =>
        Decides(Plan[g][ps], "max_pool_percent", IF idle THEN "40" ELSE pool)
  <2> HIDE DEF e, pool
  <2> QED BY <1>0, <1>1, <1>2, <1>4, Routines, DecideFirst, DecideLast
<1>8. (IF idle THEN "1" ELSE ksm)
        = IF idle \/ ai \/ (~game /\ (g.full > 10 \/ g.some > 5 \/ g.used > 70))
          THEN "1" ELSE "0"
  <2> DEFINE high == g.full > 10 \/ g.some > 5 \/ g.used > 70
  <2>1. (IF idle THEN "1" ELSE IF ai THEN "1" ELSE IF game THEN "0"
         ELSE IF high THEN "1" ELSE "0")
          = IF idle \/ ai \/ (~game /\ high) THEN "1" ELSE "0"
    <3> HIDE DEF high
    <3> DEFINE want == idle \/ ai \/ (~game /\ high)
    <3>1. /\ idle => want
          /\ ~idle /\ ai => want
          /\ ~idle /\ ~ai /\ game => ~want
          /\ ~idle /\ ~ai /\ ~game => (want <=> high)
      BY <1>0
    <3> HIDE DEF want
    <3>2. (IF idle THEN "1" ELSE IF ai THEN "1" ELSE IF game THEN "0"
           ELSE IF high THEN "1" ELSE "0") = IF want THEN "1" ELSE "0"
      BY <3>1
    <3> QED BY <3>2 DEF want
  <2> QED BY <2>1, Zenon
<1>9. (IF idle THEN "40" ELSE pool) = IF idle THEN "40" ELSE IF ai \/ game THEN "30" ELSE "20"
  BY <1>0
<1> QED BY <1>5, <1>6, <1>7, <1>8, <1>9

-----------------------------------------------------------------------------
(* The daemon's own writes end at what the machine's state calls for.      *)

LEMMA RestDecides ==
  ASSUME NEW ws \in Writes, ws # <<>>, NEW f, NEW v
  PROVE  /\ Decides(ws, f, v) => \/ Decides(Tail(ws), f, v)
                                 \/ /\ Spares(Tail(ws), f)
                                    /\ Head(ws).file = f /\ Head(ws).value = v
         /\ Spares(ws, f) => Spares(Tail(ws), f) /\ Head(ws).file # f
BY SeriesRest DEF Writes

\* A tick binds.
LEMMA TickStep ==
  ASSUME IndInv, NEW d \in Daemons, Tick(d)
  PROVE  TickBinds(d)'
<1>0. /\ gauge \in Gauges /\ procs \in [Pid -> Kinds \cup {"none"}]
      /\ gauge' = gauge /\ procs' = procs
  BY DEF IndInv, FilesInv, OthersInv, Tick
<1>1. Plan[gauge][procs] \in Writes
  BY <1>0, PlanType
<1>2. daemon'[d].todo = Plan[gauge][procs]
  BY <1>1, BeginType DEF Tick, IndInv
<1>3. /\ "ksm_run" \in Knobs =>
           Decides(Plan[gauge][procs], "ksm_run", IF WantsKsm THEN "1" ELSE "0")
      /\ "max_pool_percent" \in Knobs =>
           Decides(Plan[gauge][procs], "max_pool_percent", PoolShare)
      /\ \A p \in Running(procs) : Decides(Plan[gauge][procs], p, OomScore(procs[p]))
  BY <1>0, PlanDecides DEF WantsKsm, PoolShare
<1>4. \A f, v : Decides(Plan[gauge][procs], f, v) =>
                 Leaves(daemon'[d].todo, file'[f], f, v)
  BY <1>2, DecidesTouches DEF Leaves
<1>5. /\ (IF WantsKsm THEN "1" ELSE "0")' = IF WantsKsm THEN "1" ELSE "0"
      /\ PoolShare' = PoolShare
  BY <1>0 DEF WantsKsm, PoolShare
<1> QED BY <1>0, <1>3, <1>4, <1>5 DEF TickBinds, Bound, Leaves

\* The writes that follow keep what the tick has bound, as long as the file is there.
LEMMA WriteStep ==
  ASSUME IndInv, NEW d \in Daemons, WriteNext(d),
         NEW f \in Files, NEW v, file[f] # "gone", Bound(d, f, v)
  PROVE  Leaves(daemon'[d].todo, file'[f], f, v)
<1>1. PICK r \in DaemonType : daemon[d] = r
  BY DEF IndInv, DaemonsInv
<1>2. r.todo \in Writes /\ r.todo # <<>> /\ r.at = "busy"
  BY <1>1 DEF IndInv, WriteNext, DaemonsInv, DaemonType
<1>3. daemon'[d].todo = Tail(r.todo)
  BY <1>1 DEF IndInv, WriteNext, DaemonsInv, DaemonType
<1>4. /\ Head(r.todo) \in Write /\ writeSysfs(Head(r.todo))
      /\ file \in [Files -> Content \cup {"boot", "gone"}]
  BY <1>1, <1>2, FirstAndRest DEF WriteNext, IndInv, FilesInv
<1>5. /\ Head(r.todo).file = f => file'[f] = Head(r.todo).value
      /\ Head(r.todo).file # f => file'[f] = file[f]
  BY <1>4 DEF writeSysfs, Write
<1>6. CASE Spares(r.todo, f)
  BY <1>1, <1>2, <1>3, <1>5, <1>6, RestDecides DEF Bound, Leaves
<1>7. CASE ~Spares(r.todo, f)
  <2>1. Decides(r.todo, f, v)
    BY <1>1, <1>7 DEF Bound, Leaves
  <2> QED BY <1>2, <1>3, <1>5, <2>1, RestDecides, DecidesTouches DEF Leaves
<1> QED BY <1>6, <1>7

\* The steps of one daemon alone lead to what KnobsConverge and OomScoresConverge ask for,
\* for any set of files followed, processes and figures of the machine.
THEOREM TicksEndRight == Spec => TicksConverge
<1> DEFINE Step == \A d \in Daemons :
             /\ Tick(d) => TickBinds(d)'
             /\ WriteNext(d) =>
                  \A f \in Files, v \in Content :
                    file[f] # "gone" /\ Bound(d, f, v) => Bound(d, f, v)'
<1>1. IndInv /\ [Next]_vars => [Step]_vars
  <2> SUFFICES ASSUME IndInv, NEW d \in Daemons
               PROVE  /\ Tick(d) => TickBinds(d)'
                      /\ WriteNext(d) =>
                           \A f \in Files, v \in Content :
                             file[f] # "gone" /\ Bound(d, f, v) => Bound(d, f, v)'
    OBVIOUS
  <2>1. Tick(d) => TickBinds(d)'
    BY TickStep
  <2>2. ASSUME WriteNext(d), NEW f \in Files, NEW v \in Content,
               file[f] # "gone", Bound(d, f, v)
        PROVE  Bound(d, f, v)'
    BY <2>2, WriteStep DEF Bound
  <2> QED BY <2>1, <2>2
<1> HIDE DEF Step
<1>2. Spec => [][Step]_vars
  BY <1>1, InvHolds, PTL DEF Spec
<1> QED BY <1>2 DEF TicksConverge, Step

-----------------------------------------------------------------------------
(* UroamEngine.                                                             *)

CONSTANTS Machines, AiKsm, BalancedKsm
VARIABLES up, machine, rustMoves, broken, setting, engine

Rust == INSTANCE UroamEngine WITH moves <- rustMoves, file <- setting

RustWrite  == [file : Rust!File, value : Rust!Setting]
RustWrites == Seq(RustWrite)

LEMMA RustSeries ==
  /\ \A ws, f, v : Rust!Decides(ws, f, v) <=> Decides(ws, f, v)
  /\ \A ws, f : Rust!Spares(ws, f) <=> Spares(ws, f)
  /\ \A ws, now, f, v : Rust!Leaves(ws, now, f, v) <=> Leaves(ws, now, f, v)
BY DEF Rust!Decides, Decides, Rust!Spares, Spares, Rust!Leaves, Leaves

\* One write, and one more.
LEMMA RustOne ==
  ASSUME NEW g \in Rust!File, NEW v \in Rust!Setting
  PROVE  /\ Rust!W(g, v) \in RustWrites /\ Decides(Rust!W(g, v), g, v)
         /\ \A f : f # g => Spares(Rust!W(g, v), f)
<1>1. [file |-> g, value |-> v] \in RustWrite
  BY DEF RustWrite
<1> QED BY <1>1 DEF Rust!W, RustWrites, Decides, Spares

LEMMA RustMore ==
  ASSUME NEW s \in RustWrites, NEW t \in RustWrites
  PROVE  /\ s \o t \in RustWrites
         /\ \A f, v : Decides(s, f, v) /\ Spares(t, f) => Decides(s \o t, f, v)
         /\ \A f, v : Decides(t, f, v) => Decides(s \o t, f, v)
<1>1. s \o t \in RustWrites
  BY DEF RustWrites
<1>2. ASSUME NEW f, NEW v, Decides(s, f, v), Spares(t, f) PROVE Decides(s \o t, f, v)
  BY <1>2, SeriesDecideFirst DEF RustWrites
<1>3. ASSUME NEW f, NEW v, Decides(t, f, v) PROVE Decides(s \o t, f, v)
  BY <1>3, SeriesDecideLast DEF RustWrites
<1> QED BY <1>1, <1>2, <1>3

LEMMA RustStep ==
  ASSUME NEW s \in RustWrites, NEW g \in Rust!File, NEW v \in Rust!Setting
  PROVE  /\ s \o Rust!W(g, v) \in RustWrites /\ Decides(s \o Rust!W(g, v), g, v)
         /\ \A f, u : f # g /\ Decides(s, f, u) => Decides(s \o Rust!W(g, v), f, u)
<1> DEFINE t == Rust!W(g, v)
<1>1. t \in RustWrites /\ Decides(t, g, v) /\ \A f : f # g => Spares(t, f)
  BY RustOne
<1> HIDE DEF t
<1>2. /\ s \o t \in RustWrites /\ Decides(s \o t, g, v)
      /\ \A f, u : f # g /\ Decides(s, f, u) => Decides(s \o t, f, u)
  BY <1>1, RustMore
<1> QED BY <1>2 DEF t

\* What the writes of a profile bind: vm and thp to the profile, KSM as it says.
RustDecides(ws, p) ==
  /\ Decides(ws, "vm", p) /\ Decides(ws, "thp", p)
  /\ p = "gaming" => Decides(ws, "latency", p) /\ Decides(ws, "ksm", "off")
  /\ p = "balanced" => Decides(ws, "ksm", Rust!OnOff(BalancedKsm))
  /\ p \in {"compilation", "idle"} \/ (p = "ai" /\ AiKsm) => Decides(ws, "ksm", "on")

RustProfile == {"ai", "gaming", "compilation", "balanced", "idle"}

LEMMA RustPlans ==
  ASSUME NEW m, NEW p \in RustProfile
  PROVE  Rust!Writes(m, p) \in RustWrites /\ RustDecides(Rust!Writes(m, p), p)
<1>0. /\ "vm" \in Rust!File /\ "latency" \in Rust!File /\ "ksm" \in Rust!File
      /\ "thp" \in Rust!File /\ "oom" \in Rust!File /\ "drop_caches" \in Rust!File
      /\ "ai" \in Rust!Setting /\ "gaming" \in Rust!Setting
      /\ "compilation" \in Rust!Setting /\ "balanced" \in Rust!Setting
      /\ "idle" \in Rust!Setting /\ "on" \in Rust!Setting /\ "off" \in Rust!Setting
  BY DEF Rust!File, Rust!Setting
<1>1. /\ Rust!OnOff(BalancedKsm) \in Rust!Setting
      /\ \A c : Rust!When(c, Rust!W("ksm", "on")) \in RustWrites
      /\ \A c : Rust!When(c, Rust!W("drop_caches", "idle")) \in RustWrites
      /\ \A c, f : f # "ksm" => Spares(Rust!When(c, Rust!W("ksm", "on")), f)
      /\ \A c, f : f # "drop_caches" => Spares(Rust!When(c, Rust!W("drop_caches", "idle")), f)
      /\ \A c : c => Decides(Rust!When(c, Rust!W("ksm", "on")), "ksm", "on")
  <2>1. <<>> \in RustWrites /\ \A f : Spares(<<>>, f)
    BY DEF RustWrites, Spares
  <2>2. /\ Rust!W("ksm", "on") \in RustWrites /\ Rust!W("drop_caches", "idle") \in RustWrites
        /\ Decides(Rust!W("ksm", "on"), "ksm", "on")
        /\ \A f : f # "ksm" => Spares(Rust!W("ksm", "on"), f)
        /\ \A f : f # "drop_caches" => Spares(Rust!W("drop_caches", "idle"), f)
    BY <1>0, RustOne
  <2> QED BY <1>0, <2>1, <2>2 DEF Rust!OnOff, Rust!When
<1>2. CASE p = "ai"
  <2> DEFINE a == Rust!W("vm", "ai") \o Rust!When(AiKsm, Rust!W("ksm", "on"))
             b == a \o Rust!W("thp", "ai")
  <2>1. a \in RustWrites /\ Decides(a, "vm", "ai") /\ (AiKsm => Decides(a, "ksm", "on"))
    <3> DEFINE k == Rust!When(AiKsm, Rust!W("ksm", "on"))
               w == Rust!W("vm", "ai")
    <3>1. /\ k \in RustWrites /\ Spares(k, "vm") /\ (AiKsm => Decides(k, "ksm", "on"))
          /\ w \in RustWrites /\ Decides(w, "vm", "ai")
      BY <1>0, <1>1, RustOne
    <3> HIDE DEF k, w
    <3>2. /\ w \o k \in RustWrites /\ Decides(w \o k, "vm", "ai")
          /\ AiKsm => Decides(w \o k, "ksm", "on")
      BY <3>1, RustMore
    <3> QED BY <3>2 DEF k, w
  <2>2. /\ b \in RustWrites /\ Decides(b, "vm", "ai") /\ Decides(b, "thp", "ai")
        /\ AiKsm => Decides(b, "ksm", "on")
    <3> HIDE DEF a
    <3> QED BY <1>0, <2>1, RustOne, RustStep
  <2>3. /\ b \o Rust!W("oom", "ai") \in RustWrites
        /\ Decides(b \o Rust!W("oom", "ai"), "vm", "ai")
        /\ Decides(b \o Rust!W("oom", "ai"), "thp", "ai")
        /\ AiKsm => Decides(b \o Rust!W("oom", "ai"), "ksm", "on")
    <3> HIDE DEF b
    <3> QED BY <1>0, <2>2, RustOne, RustStep
  <2> QED BY <1>2, <2>3 DEF RustDecides, Rust!Writes, Rust!ai_writes
<1>3. CASE p = "gaming"
  <2> DEFINE a == Rust!W("vm", "gaming") \o Rust!W("latency", "gaming")
             b == a \o Rust!W("ksm", "off")
             c == b \o Rust!W("thp", "gaming")
             e == c \o Rust!W("oom", "gaming")
  <2>1. a \in RustWrites /\ Decides(a, "vm", "gaming") /\ Decides(a, "latency", "gaming")
    BY <1>0, RustOne, RustStep
  <2>2. /\ b \in RustWrites /\ Decides(b, "vm", "gaming") /\ Decides(b, "latency", "gaming")
        /\ Decides(b, "ksm", "off")
    <3> HIDE DEF a
    <3> QED BY <1>0, <2>1, RustOne, RustStep
  <2>3. /\ c \in RustWrites /\ Decides(c, "vm", "gaming") /\ Decides(c, "latency", "gaming")
        /\ Decides(c, "ksm", "off") /\ Decides(c, "thp", "gaming")
    <3> HIDE DEF b
    <3> QED BY <1>0, <2>2, RustOne, RustStep
  <2>4. /\ e \in RustWrites /\ Decides(e, "vm", "gaming") /\ Decides(e, "latency", "gaming")
        /\ Decides(e, "ksm", "off") /\ Decides(e, "thp", "gaming")
    <3> HIDE DEF c
    <3> QED BY <1>0, <2>3, RustOne, RustStep
  <2> QED BY <1>3, <2>4 DEF RustDecides, Rust!Writes, Rust!gaming_writes
<1>4. CASE p = "compilation"
  <2> DEFINE a == Rust!W("vm", "compilation") \o Rust!W("ksm", "on")
             b == a \o Rust!W("thp", "compilation")
  <2>1. a \in RustWrites /\ Decides(a, "vm", "compilation") /\ Decides(a, "ksm", "on")
    BY <1>0, RustOne, RustStep
  <2>2. /\ b \in RustWrites /\ Decides(b, "vm", "compilation") /\ Decides(b, "ksm", "on")
        /\ Decides(b, "thp", "compilation")
    <3> HIDE DEF a
    <3> QED BY <1>0, <2>1, RustOne, RustStep
  <2> QED BY <1>4, <2>2 DEF RustDecides, Rust!Writes, Rust!compilation_writes
<1>5. CASE p = "balanced"
  <2> DEFINE onOff == Rust!OnOff(BalancedKsm)
             a == Rust!W("vm", "balanced") \o Rust!W("ksm", onOff)
             b == a \o Rust!W("thp", "balanced")
  <2>0. onOff \in Rust!Setting
    BY <1>1
  <2>1. a \in RustWrites /\ Decides(a, "vm", "balanced") /\ Decides(a, "ksm", onOff)
    <3> HIDE DEF onOff
    <3> QED BY <1>0, <2>0, RustOne, RustStep
  <2>2. /\ b \in RustWrites /\ Decides(b, "vm", "balanced") /\ Decides(b, "ksm", onOff)
        /\ Decides(b, "thp", "balanced")
    <3> HIDE DEF a, onOff
    <3> QED BY <1>0, <2>1, RustOne, RustStep
  <2> QED BY <1>5, <2>2 DEF RustDecides, Rust!Writes, Rust!balanced_writes
<1>6. CASE p = "idle"
  <2> DEFINE a == Rust!W("vm", "idle") \o Rust!W("ksm", "on")
             b == a \o Rust!When(m.swapped, Rust!W("drop_caches", "idle"))
             c == b \o Rust!W("thp", "idle")
  <2>1. a \in RustWrites /\ Decides(a, "vm", "idle") /\ Decides(a, "ksm", "on")
    BY <1>0, RustOne, RustStep
  <2>2. b \in RustWrites /\ Decides(b, "vm", "idle") /\ Decides(b, "ksm", "on")
    <3> HIDE DEF a
    <3> QED BY <1>0, <1>1, <2>1, RustMore
  <2>3. /\ c \in RustWrites /\ Decides(c, "vm", "idle") /\ Decides(c, "ksm", "on")
        /\ Decides(c, "thp", "idle")
    <3> HIDE DEF b
    <3> QED BY <1>0, <2>2, RustOne, RustStep
  <2> QED BY <1>6, <2>3 DEF RustDecides, Rust!Writes, Rust!idle_writes
<1> QED BY <1>2, <1>3, <1>4, <1>5, <1>6 DEF RustProfile

\* The machine always calls for a profile, and for nothing else than one.
LEMMA RustProfiles ==
  ASSUME NEW m
  PROVE  Rust!Profiles(m) \subseteq RustProfile
BY DEF Rust!Profiles, Rust!ProfileOf, RustProfile

\* What a pass begins with.
LEMMA RustPassStep ==
  ASSUME Rust!run_optimization_pass
  PROVE  /\ \E p \in Rust!Profiles(machine) : Rust!PassBinds(p)'
         /\ engine'.todo \in RustWrites /\ engine'.todo # <<>> /\ engine'.at = "write"
         /\ engine' = [at |-> "write", todo |-> engine'.todo]
<1>1. PICK p \in Rust!Profiles(machine) :
           engine' = [at |-> "write", todo |-> Rust!Writes(machine, p)]
  BY DEF Rust!run_optimization_pass
<1>2. Rust!Writes(machine, p) \in RustWrites /\ RustDecides(Rust!Writes(machine, p), p)
  BY RustProfiles, RustPlans
<1> DEFINE ws == Rust!Writes(machine, p)
<1>3. engine'.todo = ws /\ engine'.at = "write"
  BY <1>1
<1> HIDE DEF ws
<1>4. ws # <<>>
  BY <1>2 DEF RustDecides, Decides, RustWrites, ws
<1>5. \A f, v : Decides(ws, f, v) => Rust!Leaves(engine'.todo, setting'[f], f, v)
  BY <1>3, RustSeries, DecidesTouches DEF Leaves
<1>6. Rust!PassBinds(p)'
  BY <1>2, <1>5 DEF RustDecides, Rust!PassBinds, Rust!Bound, ws
<1> QED BY <1>1, <1>2, <1>3, <1>4, <1>6 DEF ws

\* A write that does not end the thread keeps what is bound, and the types.
LEMMA RustWriteStep ==
  ASSUME Rust!TypeOK, Rust!EngineWrite
  PROVE  /\ Rust!TypeOK'
         /\ engine'.at # "ended" =>
              \A f \in Rust!Stored : \A v : Rust!Bound(f, v) =>
                Rust!Leaves(engine'.todo, setting'[f], f, v)
<1> DEFINE ws == engine.todo
           w  == Head(ws)
<1>0. /\ engine \in [at : {"sleep", "write", "ended"}, todo : RustWrites] /\ ws \in RustWrites
      /\ ws # <<>> /\ setting \in [Rust!Stored -> Rust!Setting \cup {"boot"}]
  BY DEF Rust!TypeOK, Rust!EngineWrite, RustWrites, RustWrite
<1>1. /\ w \in RustWrite /\ Tail(ws) \in RustWrites /\ (Len(ws) = 1 <=> Tail(ws) = <<>>)
  BY <1>0, SeriesFirst DEF RustWrites
<1> HIDE DEF ws
<1>2. \/ /\ setting' = IF w.file \in Rust!Stored THEN [setting EXCEPT ![w.file] = w.value]
                       ELSE setting
         /\ engine' = [at |-> IF Len(ws) = 1 THEN "sleep" ELSE "write", todo |-> Tail(ws)]
      \/ /\ w.file = "oom" /\ setting' = setting
         /\ engine' = [at |-> IF Len(ws) = 1 THEN "sleep" ELSE "write", todo |-> Tail(ws)]
      \/ setting' = setting /\ engine' = [at |-> "ended", todo |-> <<>>]
  BY DEF Rust!EngineWrite, ws
<1>3. Rust!TypeOK'
  <2>1. setting' \in [Rust!Stored -> Rust!Setting \cup {"boot"}]
    <3>1. w.value \in Rust!Setting
      BY <1>1 DEF RustWrite
    <3> HIDE DEF w
    <3> QED BY <1>0, <1>2, <3>1
  <2>2. /\ engine' \in [at : {"sleep", "write", "ended"}, todo : RustWrites]
        /\ engine'.at = "write" <=> engine'.todo # <<>>
    <3>1. <<>> \in RustWrites
      BY DEF RustWrites
    <3>2. CASE engine' = [at |-> IF Len(ws) = 1 THEN "sleep" ELSE "write", todo |-> Tail(ws)]
      BY <1>1, <3>2
    <3>3. CASE engine' = [at |-> "ended", todo |-> <<>>]
      BY <3>1, <3>3
    <3> QED BY <1>2, <3>2, <3>3
  <2>3. UNCHANGED <<up, machine, rustMoves, broken>>
    BY DEF Rust!EngineWrite
  <2> QED BY <2>1, <2>2, <2>3 DEF Rust!TypeOK, RustWrites, RustWrite
<1>4. ASSUME engine'.at # "ended", NEW f \in Rust!Stored, NEW v, Rust!Bound(f, v)
      PROVE  Rust!Leaves(engine'.todo, setting'[f], f, v)
  <2>1. engine'.todo = Tail(ws)
    BY <1>2, <1>4
  <2>2. /\ w.file = f => setting'[f] = w.value
        /\ w.file # f => setting'[f] = setting[f]
    BY <1>0, <1>2, <1>4 DEF Rust!Stored
  <2>3. Leaves(ws, setting[f], f, v)
    BY <1>4, RustSeries DEF Rust!Bound, ws
  <2>4. /\ Decides(ws, f, v) => \/ Decides(Tail(ws), f, v)
                                \/ Spares(Tail(ws), f) /\ w.file = f /\ w.value = v
        /\ Spares(ws, f) => Spares(Tail(ws), f) /\ w.file # f
    BY <1>0, SeriesRest DEF RustWrites
  <2> HIDE DEF w
  <2>5. Leaves(Tail(ws), setting'[f], f, v)
    BY <2>2, <2>3, <2>4, DecidesTouches DEF Leaves
  <2> QED BY <2>1, <2>5, RustSeries
<1> QED BY <1>3, <1>4

\* Every step keeps the types.
LEMMA RustTypeStep == Rust!TypeOK /\ [Rust!Next]_(Rust!vars) => Rust!TypeOK'
<1> SUFFICES ASSUME Rust!TypeOK, [Rust!Next]_(Rust!vars) PROVE Rust!TypeOK'
  OBVIOUS
<1>1. CASE Rust!run_optimization_pass
  <2>1. /\ engine' \in [at : {"sleep", "write", "ended"}, todo : RustWrites]
        /\ engine'.at = "write" <=> engine'.todo # <<>>
    BY <1>1, RustPassStep
  <2>2. UNCHANGED <<up, machine, rustMoves, broken, setting>>
    BY <1>1 DEF Rust!run_optimization_pass
  <2> QED BY <2>1, <2>2 DEF Rust!TypeOK, RustWrites, RustWrite
<1>2. CASE Rust!EngineWrite
  BY <1>2, RustWriteStep
<1>3. CASE Rust!MainReturns \/ Rust!ShutdownByIpc
  BY <1>3 DEF Rust!MainReturns, Rust!ShutdownByIpc, Rust!TypeOK
<1>4. ASSUME NEW m \in Machines, Rust!MachineMoves(m) PROVE Rust!TypeOK'
  <2>1. rustMoves' \in 0..MaxMoves
    BY <1>4, MemoptAssumption DEF Rust!MachineMoves, Rust!TypeOK
  <2> QED BY <1>4, <2>1 DEF Rust!MachineMoves, Rust!TypeOK
<1>5. CASE UNCHANGED Rust!vars
  BY <1>5 DEF Rust!vars, Rust!TypeOK
<1> QED BY <1>1, <1>2, <1>3, <1>4, <1>5 DEF Rust!Next, Rust!Engine

LEMMA RustTypes == Rust!Spec => []Rust!TypeOK
<1>1. Rust!Init => Rust!TypeOK
  <2> SUFFICES ASSUME Rust!Init PROVE Rust!TypeOK
    OBVIOUS
  <2>1. <<>> \in Seq([file : Rust!File, value : Rust!Setting])
    OBVIOUS
  <2>2. /\ engine = [at |-> "sleep", todo |-> <<>>]
        /\ setting \in [Rust!Stored -> Rust!Setting \cup {"boot"}]
    BY DEF Rust!Init
  <2>3. rustMoves \in 0..MaxMoves
    BY MemoptAssumption DEF Rust!Init
  <2> QED BY <2>1, <2>2, <2>3 DEF Rust!Init, Rust!TypeOK
<1> QED BY <1>1, RustTypeStep, PTL DEF Rust!Spec

\* The engine's thread is in a pass just while it has writes left, and every file holds what
\* some profile wrote or what it held at boot, whichever files cannot be written.
THEOREM EngineTypeCorrect == Rust!Spec => []Rust!TypeOK
BY RustTypes

\* For any machines, any set of files that cannot be written and any configuration, a pass of
\* the engine ends with the settings of one profile the machine called for, or with the
\* thread.
THEOREM PassesEndRight == Rust!Spec => Rust!PassesConverge
<1> DEFINE Step ==
      /\ Rust!run_optimization_pass => \E p \in Rust!Profiles(machine) : Rust!PassBinds(p)'
      /\ Rust!EngineWrite /\ engine'.at # "ended" =>
           \A f \in Rust!Stored, v \in Rust!Setting : Rust!Bound(f, v) => Rust!Bound(f, v)'
<1>1. Rust!TypeOK => [Step]_(Rust!vars)
  <2> SUFFICES ASSUME Rust!TypeOK PROVE Step
    OBVIOUS
  <2>1. Rust!run_optimization_pass => \E p \in Rust!Profiles(machine) : Rust!PassBinds(p)'
    BY RustPassStep
  <2>2. ASSUME Rust!EngineWrite, engine'.at # "ended", NEW f \in Rust!Stored,
               NEW v \in Rust!Setting, Rust!Bound(f, v)
        PROVE  Rust!Bound(f, v)'
    BY <2>2, RustWriteStep DEF Rust!Bound
  <2> QED BY <2>1, <2>2
<1> HIDE DEF Step
<1>2. Rust!Spec => [][Step]_(Rust!vars)
  BY <1>1, RustTypes, PTL DEF Rust!Spec
<1> QED BY <1>2 DEF Rust!PassesConverge, Step

=============================================================================
