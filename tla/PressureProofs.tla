--------------------------- MODULE PressureProofs ---------------------------
(***************************************************************************)
(* The published level, its count and the messages agree for every set of  *)
(* contexts the PSI callback may run in and every width of the counter.    *)
(***************************************************************************)
EXTENDS Pressure, TLAPS

\* A notifier holds the lock exactly while it is inside uroam_notify_pressure; it
\* has then stored its own level and, once it sends, has counted it.
InsideInv ==
  \A s \in Notifier :
    /\ lock = s <=> task[s].at \in {"count", "send"}
    /\ lock = s => level = task[s].level
    /\ task[s].at = "send" => counted = level

IndInv == TypeOK /\ InsideInv /\ QuiescentConsistent

-----------------------------------------------------------------------------
\* Counting up wraps within the width of pressure_count.
LEMMA CounterType == ASSUME NEW n \in Counter PROVE Next1(n) \in Counter
  BY PressureAssumption DEF Counter, Next1

\* The free lock is no notifier's.
LEMMA FreeIsNobody == \A s \in Notifier : s # "free"
  BY PressureAssumption DEF Notifier

\* The initial state satisfies the invariant.
LEMMA InitIndInv == Init => IndInv
<1> SUFFICES ASSUME Init PROVE IndInv
  OBVIOUS
<1>1. 0 \in Counter
  BY PressureAssumption DEF Counter
<1>2. TypeOK
  BY <1>1 DEF Init, TypeOK, Level
<1>3. InsideInv /\ QuiescentConsistent
  BY FreeIsNobody DEF Init, InsideInv, QuiescentConsistent
<1> QED BY <1>2, <1>3 DEF IndInv

\* The steps of a notifier: only its own entry of task and the shared level,
\* count and lock change, and the lock keeps the others out.
LEMMA NotifyStep ==
  ASSUME IndInv, NEW s \in Notifier, Notify(s)
  PROVE  IndInv'
<1> USE DEF IndInv, TypeOK, Set
<1>1. CASE NotifyEnter(s)
  <2> USE <1>1 DEF NotifyEnter
  <2>1. TypeOK'
    OBVIOUS
  <2>2. task'[s] = [at |-> "count", level |-> task[s].level]
        /\ \A t \in Notifier \ {s} : task'[t] = task[t]
    OBVIOUS
  <2>4. InsideInv'
    BY <2>2, FreeIsNobody DEF InsideInv
  <2>5. QuiescentConsistent'
    BY FreeIsNobody DEF QuiescentConsistent
  <2> QED BY <2>1, <2>4, <2>5
<1>2. CASE NotifyCount(s)
  <2> USE <1>2 DEF NotifyCount
  <2>1. TypeOK'
    BY CounterType
  <2>2. task'[s] = [at |-> "send", level |-> task[s].level]
        /\ \A t \in Notifier \ {s} : task'[t] = task[t]
    OBVIOUS
  <2>3. InsideInv'
    BY <2>2 DEF InsideInv
  <2>4. QuiescentConsistent'
    BY DEF QuiescentConsistent
  <2> QED BY <2>1, <2>3, <2>4
<1>3. CASE NotifySend(s)
  <2> USE <1>3 DEF NotifySend
  <2>1. TypeOK'
    BY DEF Send, Level
  <2>2. task'[s].at = "idle" /\ \A t \in Notifier \ {s} : task'[t] = task[t]
    OBVIOUS
  <2>3. lock = s /\ counted = level
    BY DEF InsideInv
  <2>4. InsideInv'
    BY <2>2, <2>3, FreeIsNobody DEF InsideInv
  <2>5. QuiescentConsistent'
    BY <2>3 DEF QuiescentConsistent
  <2> QED BY <2>1, <2>4, <2>5
<1> QED BY <1>1, <1>2, <1>3 DEF Notify

\* A check or a callback begins: its task was idle, so it is outside the lock.
LEMMA BeginStep ==
  ASSUME IndInv, PressureCheck \/ \E c \in Contexts, l \in Level : PsiUpdate(c, l)
  PROVE  IndInv'
<1>1. PICK s \in Notifier, v \in Level :
        /\ task[s].at = "idle"
        /\ task' = [task EXCEPT ![s] = [at |-> "enter", level |-> v]]
        /\ psi' \in Level
        /\ UNCHANGED <<enabled, lock, level, count, counted, query, msg>>
  <2>1. CASE PressureCheck
    BY <2>1 DEF PressureCheck, Set, Notifier, IndInv, TypeOK
  <2>2. ASSUME NEW c \in Contexts, NEW l \in Level, PsiUpdate(c, l)
        PROVE  \E s \in Notifier, v \in Level :
                 /\ task[s].at = "idle"
                 /\ task' = [task EXCEPT ![s] = [at |-> "enter", level |-> v]]
                 /\ psi' \in Level
                 /\ UNCHANGED <<enabled, lock, level, count, counted, query, msg>>
    BY <2>2 DEF PsiUpdate, Set, Notifier, Level
  <2> QED BY <2>1, <2>2
<1>2. task'[s].at = "enter" /\ \A t \in Notifier \ {s} : task'[t] = task[t]
  BY <1>1 DEF IndInv, TypeOK
<1>3. TypeOK'
  BY <1>1 DEF IndInv, TypeOK
<1>4. InsideInv' /\ QuiescentConsistent'
  BY <1>1, <1>2 DEF IndInv, InsideInv, QuiescentConsistent
<1> QED BY <1>3, <1>4 DEF IndInv

\* Queries and the sysfs switch change neither the level nor a notifier.
LEMMA OtherStep ==
  ASSUME IndInv,
         PressureQuery \/ PressureReply \/ StatsQuery \/ ProcStatusShow
         \/ \E v \in BOOLEAN : EnabledStore(v)
  PROVE  IndInv'
<1>1. UNCHANGED <<psi, lock, level, count, counted, task>>
  BY DEF PressureQuery, PressureReply, StatsQuery, ProcStatusShow, EnabledStore
<1>2. TypeOK'
  <2>1. CASE PressureQuery
    BY <1>1, <2>1 DEF IndInv, TypeOK, PressureQuery
  <2>2. CASE PressureReply
    BY <1>1, <2>2 DEF IndInv, TypeOK, PressureReply, Send, Level
  <2>3. CASE StatsQuery \/ ProcStatusShow
    BY <1>1, <2>3 DEF IndInv, TypeOK, StatsQuery, ProcStatusShow, Send
  <2>4. CASE \E v \in BOOLEAN : EnabledStore(v)
    BY <1>1, <2>4 DEF IndInv, TypeOK, EnabledStore
  <2> QED BY <2>1, <2>2, <2>3, <2>4
<1>3. InsideInv' /\ QuiescentConsistent'
  BY <1>1 DEF IndInv, InsideInv, QuiescentConsistent
<1> QED BY <1>2, <1>3 DEF IndInv

\* The invariant is inductive.
LEMMA NextIndInv == IndInv /\ [Next]_vars => IndInv'
<1>1. IndInv /\ UNCHANGED vars => IndInv'
  BY DEF vars, IndInv, TypeOK, InsideInv, QuiescentConsistent
<1> QED BY <1>1, NotifyStep, BeginStep, OtherStep DEF Next

\* Publication never leaves the inductive invariant.
THEOREM IndInvHolds == Spec => []IndInv
  BY InitIndInv, NextIndInv, PTL DEF Spec

-----------------------------------------------------------------------------
\* Type correctness of publication for every value of the constants.
THEOREM TypeCorrect == Spec => []TypeOK
<1>1. IndInv => TypeOK
  BY DEF IndInv
<1> QED BY <1>1, IndInvHolds, PTL

\* Under uroam_state_lock the level and the count of kernel/main.c always
\* belong to the same notification.
THEOREM LevelMatchesCount == Spec => []QuiescentConsistent
<1>1. IndInv => QuiescentConsistent
  BY DEF IndInv
<1> QED BY <1>1, IndInvHolds, PTL

-----------------------------------------------------------------------------
\* The refinement: what LevelRegister sees of a state.
Writing == {task[s].level : s \in {t \in Notifier : task[t].at = "count"}}
Asked   == IF query.at = "read" THEN query.level ELSE "nothing"

\* There is a write in progress exactly while a notifier is about to count.
WritingIs ==
  /\ \A s \in Notifier : task[s].at = "count" => Writing = {level}
  /\ (\A s \in Notifier : task[s].at # "count") => Writing = {}

LEMMA WritingOf == IndInv => WritingIs
<1> SUFFICES ASSUME IndInv PROVE WritingIs
  OBVIOUS
<1>1. ASSUME NEW s \in Notifier, task[s].at = "count" PROVE Writing = {level}
  <2>1. \A t \in Notifier : task[t].at = "count" => t = s
    BY <1>1 DEF IndInv, InsideInv
  <2>2. task[s].level = level
    BY <1>1 DEF IndInv, InsideInv
  <2> QED BY <1>1, <2>1, <2>2 DEF Writing
<1>2. ASSUME \A s \in Notifier : task[s].at # "count" PROVE Writing = {}
  BY <1>2 DEF Writing
<1> QED BY <1>1, <1>2 DEF WritingIs

\* The first state is one of the register's.
LEMMA InitRegister == Init => Register!Init
<1> SUFFICES ASSUME Init PROVE Register!Init
  OBVIOUS
<1>1. Writing = {}
  BY DEF Init, Writing
<1> QED BY <1>1 DEF Init, Register!Init, Register!Nothing, Writing, Level

\* Storing the level begins a write, counting it ends the write, and the
\* message sent under the lock is an atomic read.
LEMMA NotifyRegister ==
  ASSUME IndInv, IndInv', NEW s \in Notifier, Notify(s)
  PROVE  [Register!Next]_(Register!vars)
<1> USE DEF Register!Next, Register!vars
<1>0. s # "free" /\ task[s] \in [at : {"idle", "enter", "count", "send"}, level : Level]
  BY PressureAssumption DEF Notifier, IndInv, TypeOK
<1>a. WritingIs /\ WritingIs'
  BY WritingOf, PTL
<1>1. CASE NotifyEnter(s)
  <2>1. \A t \in Notifier : task[t].at # "count"
    BY <1>1, PressureAssumption DEF NotifyEnter, IndInv, InsideInv, Notifier
  <2>2. Writing = {}
    BY <2>1, <1>a DEF WritingIs
  <2>3. task'[s] = [at |-> "count", level |-> task[s].level] /\ level' = task[s].level
    BY <1>1 DEF NotifyEnter, Set, IndInv, TypeOK
  <2>4. Writing' = {level'}
    BY <2>3, <1>a DEF WritingIs
  <2>5. level' \in Level /\ Asked' = Asked
    BY <1>0, <1>1, <2>3 DEF NotifyEnter, Asked
  <2>6. Register!BeginWrite
    BY <1>1, <2>2, <2>4, <2>5 DEF NotifyEnter, Register!BeginWrite, Writing, Asked
  <2> QED BY <2>6
<1>2. CASE NotifyCount(s)
  <2>1. Writing = {level}
    BY <1>2, <1>a DEF WritingIs, NotifyCount
  <2>2. task'[s].at = "send" /\ \A t \in Notifier \ {s} : task'[t] = task[t]
    BY <1>2 DEF NotifyCount, Set, IndInv, TypeOK
  <2>3. \A t \in Notifier : task'[t].at # "count"
    BY <1>2, <2>2 DEF NotifyCount, IndInv, InsideInv
  <2>4. Writing' = {}
    BY <2>3, <1>a DEF WritingIs
  <2>5. Register!EndWrite
    BY <1>2, <2>1, <2>4 DEF NotifyCount, Next1, Register!EndWrite, Writing, Asked
  <2> QED BY <2>5
<1>3. CASE NotifySend(s)
  <2>1. task'[s].at = "idle" /\ \A t \in Notifier \ {s} : task'[t] = task[t]
    BY <1>3 DEF NotifySend, Set, IndInv, TypeOK
  <2>2. \A t \in Notifier : task[t].at # "count" /\ task'[t].at # "count"
    BY <1>3, <2>1 DEF NotifySend, IndInv, InsideInv
  <2>3. Writing = {} /\ Writing' = {}
    BY <2>2, <1>a DEF WritingIs
  <2>4. task[s].level = counted
    BY <1>3 DEF NotifySend, IndInv, InsideInv
  <2>5. Register!Report
    BY <1>3, <2>3, <2>4
       DEF NotifySend, Send, Register!Report, Register!Message, Writing, Asked
  <2> QED BY <2>5
<1> QED BY <1>1, <1>2, <1>3 DEF Notify

\* A check or a callback that begins is no step of the register.
LEMMA BeginRegister ==
  ASSUME IndInv, PressureCheck \/ \E c \in Contexts, l \in Level : PsiUpdate(c, l)
  PROVE  UNCHANGED Register!vars
<1>1. PICK s \in Notifier :
        /\ task[s].at = "idle"
        /\ task'[s].at = "enter"
        /\ \A t \in Notifier \ {s} : task'[t] = task[t]
        /\ UNCHANGED <<counted, count, query, msg>>
  <2>1. CASE PressureCheck
    BY <2>1 DEF PressureCheck, Set, Notifier, IndInv, TypeOK
  <2>2. CASE \E c \in Contexts, l \in Level : PsiUpdate(c, l)
    BY <2>2 DEF PsiUpdate, Set, Notifier, IndInv, TypeOK
  <2> QED BY <2>1, <2>2
<1>2. {t \in Notifier : task'[t].at = "count"} = {t \in Notifier : task[t].at = "count"}
  BY <1>1
<1>3. Writing' = Writing
  BY <1>1, <1>2 DEF Writing
<1> QED BY <1>1, <1>3 DEF Register!vars, Writing

\* User space's reads are the register's, a query being a regular one.
LEMMA ReadRegister ==
  ASSUME IndInv,
         PressureQuery \/ PressureReply \/ StatsQuery \/ ProcStatusShow
         \/ \E v \in BOOLEAN : EnabledStore(v)
  PROVE  [Register!Next]_(Register!vars)
<1> USE DEF Register!Next, Register!vars
<1>1. UNCHANGED <<counted, count, task>>
  BY DEF PressureQuery, PressureReply, StatsQuery, ProcStatusShow, EnabledStore
<1>2. Writing' = Writing
  BY <1>1 DEF Writing
<1>3. CASE PressureQuery
  <2>1. level = counted \/ Writing = {level}
    <3>1. CASE lock = "free"
      BY <3>1 DEF IndInv, QuiescentConsistent
    <3>2. CASE lock \in Notifier
      BY <3>2, WritingOf DEF WritingIs, IndInv, InsideInv
    <3> QED BY <3>1, <3>2 DEF IndInv, TypeOK
  <2>2. Asked = "nothing" /\ Asked' = level
    BY <1>3 DEF PressureQuery, Asked
  <2>3. Register!Ask
    BY <1>1, <1>2, <1>3, <2>1, <2>2
       DEF PressureQuery, Register!Ask, Register!Nothing, Writing, Asked
  <2> QED BY <2>3
<1>4. CASE PressureReply
  <2>1. query.level # "nothing"
    BY DEF IndInv, TypeOK, Level
  <2>2. Register!Answer
    BY <1>1, <1>2, <1>4, <2>1
       DEF PressureReply, Send, Register!Answer, Register!Message, Register!Nothing, Writing
  <2> QED BY <2>2
<1>5. CASE StatsQuery \/ ProcStatusShow
  <2>1. level = counted
    BY <1>5 DEF StatsQuery, ProcStatusShow, IndInv, QuiescentConsistent
  <2>2. UNCHANGED query /\ \E k \in {"stats", "status"} : Register!Message(k, counted)
    BY <1>5, <2>1 DEF StatsQuery, ProcStatusShow, Send, Register!Message
  <2>3. Register!Report
    BY <1>1, <1>2, <2>2 DEF Register!Report, Writing
  <2> QED BY <2>3
<1>6. CASE \E v \in BOOLEAN : EnabledStore(v)
  BY <1>1, <1>2, <1>6 DEF EnabledStore, Writing
<1> QED BY <1>3, <1>4, <1>5, <1>6

\* What kernel/main.c and kernel/ipc.c do with the level is, step by step, what
\* LevelRegister promises: every message an atomic read, a query a regular one.
THEOREM RegisterImplemented == Spec => ImplementsRegister
<1>1. IndInv /\ IndInv' /\ [Next]_vars => [Register!Next]_(Register!vars)
  <2>1. IndInv /\ UNCHANGED vars => UNCHANGED Register!vars
    BY DEF vars, Register!vars
  <2> QED BY <2>1, NotifyRegister, BeginRegister, ReadRegister DEF Next
<1> QED BY <1>1, InitRegister, IndInvHolds, PTL DEF Spec, ImplementsRegister, Register!Spec
=============================================================================
