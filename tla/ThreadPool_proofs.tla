------------------------- MODULE ThreadPool_proofs -------------------------
(***************************************************************************)
(* Theorems about the thread pool, for any number of threads and tasks.    *)
(***************************************************************************)
EXTENDS ThreadPool, TLAPS

(* Threads before the one poolJoin is at are gone, and it is past the last *)
(* one exactly when it ends.                                               *)
Gone ==
  /\ \A w \in Worker : w < joining => pc[w] = "exited"
  /\ joining = PoolSize + 1 <=> owner = "joined"

PInv == TypeOK /\ Gone

LEMMA PoolNext ==
  ASSUME PInv, [Next]_vars
  PROVE  PInv'
<1> USE PoolAssumption DEF PInv, Worker
<1>1. ASSUME NEW t \in Task, AddTask(t) PROVE PInv'
  <2>1. tasks' \in Seq(Task)
    <3>1. tasks \in Seq(Task) /\ <<t>> \in Seq(Task)
      BY DEF TypeOK
    <3>2. Append(tasks, t) \in Seq(Task) /\ <<t>> \o tasks \in Seq(Task)
      BY <3>1
    <3> QED BY <3>2, <1>1 DEF AddTask
  <2>2. pc' \in [Worker -> {"check", "lock", "asleep", "woken", "task", "exited"}]
    BY <1>1 DEF AddTask, NotifyOne, Asleep, TypeOK
  <2>3. \A w \in Worker : pc[w] = "exited" => pc'[w] = "exited"
    BY <1>1 DEF AddTask, NotifyOne, Asleep, TypeOK
  <2> QED BY <1>1, <2>1, <2>2, <2>3 DEF AddTask, TypeOK, Gone
<1>2. CASE Stop
  BY <1>2 DEF Stop, TypeOK, Gone
<1>3. CASE StopNotifies \/ JoinNotifies
  BY <1>3 DEF StopNotifies, JoinNotifies, NotifyAll, Asleep, TypeOK, Gone
<1>4. CASE Join
  BY <1>4 DEF Join, LastJoined, TypeOK, Gone
<1>5. ASSUME NEW w \in Worker, ThreadFunc(w) \/ WakesUnasked(w) PROVE PInv'
  <2>1. tasks' \in Seq(Task)
    BY <1>5 DEF ThreadFunc, Check, Wait, Take, RunTask, WakesUnasked, TypeOK
  <2>2. /\ pc' \in [Worker -> {"check", "lock", "asleep", "woken", "task", "exited"}]
        /\ \A v \in Worker : pc[v] = "exited" => pc'[v] = "exited"
    BY <1>5 DEF ThreadFunc, Check, Wait, Take, RunTask, AfterTask, WakesUnasked, TypeOK
  <2>3. UNCHANGED <<running, added, owner, joining>>
    BY <1>5 DEF ThreadFunc, Check, Wait, Take, RunTask, WakesUnasked
  <2> QED BY <2>1, <2>2, <2>3 DEF TypeOK, Gone
<1>6. CASE UNCHANGED vars
  BY <1>6 DEF vars, TypeOK, Gone
<1> QED BY <1>1, <1>2, <1>3, <1>4, <1>5, <1>6 DEF Next, Destroys

LEMMA PoolInv == Spec => []PInv
<1>1. Init => PInv
  BY PoolAssumption DEF Init, PInv, TypeOK, Gone, Worker
<1> QED BY <1>1, PoolNext, PTL DEF Spec

(* When the destructor is done no thread touches the pool any more. *)
THEOREM PoolThreadsGone == Spec => []ThreadsGone
<1>1. PInv => ThreadsGone
  BY PoolAssumption DEF PInv, TypeOK, Gone, ThreadsGone, Worker
<1> QED BY <1>1, PoolInv, PTL
-----------------------------------------------------------------------------
(* The join *)

(* What a thread may do, on its own or woken. *)
LEMMA ThreadMoves ==
  ASSUME PInv, NEW w \in Worker, ThreadFunc(w) \/ WakesUnasked(w)
  PROVE  /\ \A v \in Worker \ {w} : pc'[v] = pc[v]
         /\ \/ pc[w] = "check" /\ pc'[w] = (IF running THEN "lock" ELSE "exited")
            \/ pc[w] = "lock" /\ pc'[w] = "asleep"
            \/ pc[w] = "asleep" /\ pc'[w] = "woken"
            \/ pc[w] = "woken" /\ pc'[w] = (IF tasks = <<>> THEN "check" ELSE "task")
            \/ pc[w] = "task" /\ pc'[w] = "woken"
         /\ tasks' = tasks \/ (pc[w] = "woken" /\ pc'[w] = "task")
         /\ UNCHANGED <<running, owner>>
  BY DEF PInv, TypeOK, ThreadFunc, Check, Wait, WakesUnasked, Take, RunTask, AfterTask

(* Once the destructor has caught no thread between its test and its wait, *)
(* it never does: every thread it joins is awake or on its way out.        *)
THEOREM PoolJoinNeverHangs == Spec => JoinNeverHangs
<1>1. ASSUME PInv, NoneCaught, [Next]_vars PROVE NoneCaught'
  <2>1. ASSUME NEW t \in Task, AddTask(t) PROVE FALSE
    BY <1>1, <2>1 DEF AddTask, NoneCaught
  <2>2. CASE Stop
    BY <1>1, <2>2 DEF Stop, NoneCaught
  <2>3. CASE StopNotifies \/ JoinNotifies
    <3>1. NotifyAll /\ UNCHANGED running
      BY <2>3 DEF StopNotifies, JoinNotifies
    <3>2. \A w \in Worker : pc'[w] = (IF pc[w] = "asleep" THEN "woken" ELSE pc[w])
      BY <3>1 DEF NotifyAll, Asleep
    <3> QED BY <1>1, <3>1, <3>2 DEF NoneCaught, Asleep
  <2>4. CASE Join
    BY <1>1, <2>4 DEF Join, NoneCaught, Asleep
  <2>5. ASSUME NEW w \in Worker, ThreadFunc(w) \/ WakesUnasked(w) PROVE NoneCaught'
    BY <1>1, <2>5, ThreadMoves DEF NoneCaught, Asleep
  <2>6. CASE UNCHANGED vars
    BY <1>1, <2>6 DEF vars, NoneCaught, Asleep
  <2> QED BY <1>1, <2>1, <2>2, <2>3, <2>4, <2>5, <2>6 DEF Next, Destroys
<1>2. PInv /\ [Next]_vars => [NoneCaught => NoneCaught']_vars
  BY <1>1
<1> QED BY <1>2, PoolInv, PTL DEF Spec, JoinNeverHangs
=============================================================================
