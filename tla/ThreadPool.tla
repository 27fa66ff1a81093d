----------------------------- MODULE ThreadPool -----------------------------
(***************************************************************************)
(* The pool of threads every event loop owns (netlib/ThreadPool.cpp).  The *)
(* mutex is held within a step only: a worker that waits has given it up,  *)
(* and between two tasks the worker takes it, looks for a task and gives   *)
(* it up.  running_ is read and written without it.  One thread, the       *)
(* owner, adds the tasks and destroys the pool.                            *)
(***************************************************************************)
EXTENDS Naturals, Sequences

CONSTANTS Task, PoolSize

ASSUME PoolAssumption == PoolSize \in Nat \ {0}

Worker == 1..PoolSize

VARIABLES
  running,   \* running_
  tasks,     \* tasks_
  pc,        \* where each threadFunc is
  added,     \* tasks given to the pool
  owner,     \* "using" the pool, or how far its destructor is
  joining    \* the thread poolJoin is at

vars == <<running, tasks, pc, added, owner, joining>>

(* Values of every variable. *)
TypeOK ==
  /\ running \in BOOLEAN
  /\ tasks \in Seq(Task)
  /\ pc \in [Worker -> {"check", "lock", "asleep", "woken", "task", "exited"}]
  /\ added \subseteq Task
  /\ owner \in {"using", "stopped", "notified", "joining", "joined"}
  /\ joining \in 1..PoolSize + 1

Init ==
  /\ running = TRUE /\ tasks = <<>> /\ pc = [w \in Worker |-> "check"]
  /\ added = {} /\ owner = "using" /\ joining = 1

Asleep == {w \in Worker : pc[w] = "asleep"}

(* notify_one wakes any thread that waits; notify_all wakes them all. *)
NotifyOne ==
  \/ Asleep = {} /\ UNCHANGED pc
  \/ \E w \in Asleep : pc' = [pc EXCEPT ![w] = "woken"]

NotifyAll == pc' = [w \in Worker |-> IF w \in Asleep THEN "woken" ELSE pc[w]]
-----------------------------------------------------------------------------
(* addTask and addUrgentTask. *)
AddTask(t) ==
  /\ owner = "using" /\ running /\ t \notin added
  /\ added' = added \cup {t}
  /\ tasks' \in {Append(tasks, t), <<t>> \o tasks}
  /\ NotifyOne
  /\ UNCHANGED <<running, owner, joining>>

(* The destructor, with poolJoin. *)
Stop ==
  /\ owner = "using"
  /\ running' = FALSE /\ owner' = "stopped"
  /\ UNCHANGED <<tasks, pc, added, joining>>

(* A slip: one thread is told. *)
StopNotifiesSlip ==
  /\ owner = "stopped"
  /\ NotifyOne /\ owner' = "notified"
  /\ UNCHANGED <<running, tasks, added, joining>>

StopNotifies ==
  /\ owner = "stopped"
  /\ NotifyAll /\ owner' = "notified"
  /\ UNCHANGED <<running, tasks, added, joining>>

JoinNotifies ==
  /\ owner = "notified" /\ joining <= PoolSize
  /\ NotifyAll /\ owner' = "joining"
  /\ UNCHANGED <<running, tasks, added, joining>>

(* A slip: the last thread is left out. *)
LastJoinedSlip == joining + 1 = PoolSize

LastJoined == joining = PoolSize

Join ==
  /\ owner = "joining" /\ pc[joining] = "exited"
  /\ joining' = joining + 1
  /\ owner' = IF LastJoined THEN "joined" ELSE "notified"
  /\ UNCHANGED <<running, tasks, pc, added>>
-----------------------------------------------------------------------------
(* threadFunc: the loop's condition, *)
Check(w) ==
  /\ pc[w] = "check"
  /\ pc' = [pc EXCEPT ![w] = IF running THEN "lock" ELSE "exited"]
  /\ UNCHANGED <<running, tasks, added, owner, joining>>

(* the lock and the wait, which tests nothing, *)
Wait(w) ==
  /\ pc[w] = "lock"
  /\ pc' = [pc EXCEPT ![w] = "asleep"]
  /\ UNCHANGED <<running, tasks, added, owner, joining>>

(* a wakeup nobody asked for, *)
WakesUnasked(w) ==
  /\ pc[w] = "asleep"
  /\ pc' = [pc EXCEPT ![w] = "woken"]
  /\ UNCHANGED <<running, tasks, added, owner, joining>>

(* the next task, or the end of the inner loop.  Slips to compare with:    *)
(* the wait goes on until there is a task; one task is taken per wakeup.   *)
TakeSlip(w) ==
  /\ pc[w] = "woken"
  /\ IF tasks = <<>>
     THEN pc' = [pc EXCEPT ![w] = "asleep"] /\ UNCHANGED tasks
     ELSE pc' = [pc EXCEPT ![w] = "task"] /\ tasks' = Tail(tasks)
  /\ UNCHANGED <<running, added, owner, joining>>

Take(w) ==
  /\ pc[w] = "woken"
  /\ IF tasks = <<>>
     THEN pc' = [pc EXCEPT ![w] = "check"] /\ UNCHANGED tasks
     ELSE pc' = [pc EXCEPT ![w] = "task"] /\ tasks' = Tail(tasks)
  /\ UNCHANGED <<running, added, owner, joining>>

AfterTaskSlip == "check"

AfterTask == "woken"

(* and the task itself, which ends. *)
RunTask(w) ==
  /\ pc[w] = "task"
  /\ pc' = [pc EXCEPT ![w] = AfterTask]
  /\ UNCHANGED <<running, tasks, added, owner, joining>>

Destroys == Stop \/ StopNotifies \/ JoinNotifies \/ Join
ThreadFunc(w) == Check(w) \/ Wait(w) \/ Take(w) \/ RunTask(w)

Next ==
  \/ \E t \in Task : AddTask(t)
  \/ Destroys
  \/ \E w \in Worker : ThreadFunc(w) \/ WakesUnasked(w)

(* Threads are scheduled and tasks end; nothing makes the owner give up    *)
(* the pool, but once it does it goes on.                                  *)
Spec ==
  /\ Init /\ [][Next]_vars
  /\ WF_vars(StopNotifies \/ JoinNotifies \/ Join)
  /\ \A w \in Worker : WF_vars(ThreadFunc(w))
-----------------------------------------------------------------------------
(* A destructor that does not catch a thread between its test of running_  *)
(* and its wait comes to an end, whatever the threads do: nobody waits for *)
(* a thread that waits.  (One that does may join a thread that never       *)
(* wakes: running_ is changed without the mutex.)                          *)
JoinEnds ==
  owner = "stopped" /\ (\A w \in Worker : pc[w] # "lock") ~> owner = "joined"

(* What JoinEnds rests on: once running_ is FALSE and no thread is between *)
(* its test and its wait, and the destructor has notified, no step of any  *)
(* thread, no wakeup and no task left in the queue brings one back to the  *)
(* wait.                                                                   *)
NoneCaught ==
  /\ ~running /\ \A w \in Worker : pc[w] # "lock"
  /\ owner # "stopped" => Asleep = {}

JoinNeverHangs == [][NoneCaught => NoneCaught']_vars

(* The pool's tasks, mutex and condition outlive its threads: when the     *)
(* destructor is done none of them touches the pool any more.              *)
ThreadsGone == owner = "joined" => \A w \in Worker : pc[w] = "exited"

(* Threads that will look at the queue again. *)
Awake == \E w \in Worker : pc[w] \in {"woken", "task"}

(* A task is not left behind while a thread is awake that had waited: when *)
(* it was added while one slept or ran another task, it runs.  (One added  *)
(* while every thread is on its way to wait is left until the next.)       *)
AwakeDrain ==
  \A t \in Task :
    (\E i \in DOMAIN tasks : tasks[i] = t) /\ Awake
      ~> \A i \in DOMAIN tasks : tasks[i] # t
=============================================================================
