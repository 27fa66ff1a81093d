----------------------------- MODULE TimerQueue -----------------------------
(***************************************************************************)
(* The repeating timers of an event loop (netlib/TimerQueue.cpp, Timer.h,  *)
(* TimerId.h).  A tick is the resolution of Timestamp.  Instead of points  *)
(* in time the variables hold distances from now; a member of Timer is one *)
(* Timer object, named again once nothing refers to it any more.           *)
(*                                                                         *)
(* handleRead is cut where time may pass: it takes `now' and the expired   *)
(* entries, runs one callback after the other, and restarts them.  What    *)
(* aborts ends the behaviour, with its cause in fault.                     *)
(***************************************************************************)
EXTENDS Integers

CONSTANTS
  Timer,
  Interval,   \* of each timer, in ticks
  MinDelay,   \* the least delay howMuchTimeFromNow gives (100 us)
  MaxLate     \* ticks the loop may be late, or a batch of callbacks take

ASSUME TimerAssumption ==
  /\ Interval \in [Timer -> Nat \ {0}]
  /\ MinDelay \in Nat \ {0} /\ MaxLate \in Nat \ {0}

Off == -1

VARIABLES
  alive,      \* timers whose TimerId is held: the entries only have weak_ptrs
  entries,    \* timers_
  exp,        \* ticks from now to the expiration an entry is ordered by
  armed,      \* ticks until the timerfd is readable, or Off
  handling,   \* within handleRead
  todo,       \* expired and still to run
  done,       \* expired and run
  since,      \* ticks since handleRead took `now'
  fault

vars == <<alive, entries, exp, armed, handling, todo, done, since, fault>>

(* Values of every variable; the timerfd is never set to a time gone by.   *)
TypeOK ==
  /\ alive \subseteq Timer /\ entries \subseteq Timer
  /\ exp \in [Timer -> Int]
  /\ armed \in Nat \cup {Off}
  /\ handling \in BOOLEAN
  /\ todo \subseteq Timer /\ done \subseteq Timer
  /\ since \in Nat
  /\ fault \in {"none", "added at a taken time", "due right now",
                "restarted at a taken time", "restarted together"}

Init ==
  /\ alive = {} /\ entries = {} /\ exp = [t \in Timer |-> 0] /\ armed = Off
  /\ handling = FALSE /\ todo = {} /\ done = {} /\ since = 0
  /\ fault = "none"

Aborts(why) == fault' = why /\ UNCHANGED <<alive, entries, exp, armed, handling, todo, done, since>>

(* resetTimerfd(howMuchTimeFromNow): setting the timerfd and waking up     *)
(* take a tick.  A slip to compare with: there is no least delay.          *)
DelayTillSlip(e) == e + 1

DelayTill(e) == (IF e < MinDelay THEN MinDelay ELSE e) + 1

Free(t) == t \notin alive \cup entries \cup todo \cup done
-----------------------------------------------------------------------------
(* A slip: only the first timer arms the timerfd. *)
EarliestChangedSlip(e) == entries = {}

EarliestChanged(e) == \A u \in entries : e < exp[u]

(* runEvery: addTimer, addTimerInLoop, insert. *)
AddTimer(t) ==
  /\ fault = "none" /\ ~handling /\ Free(t)
  /\ LET e == Interval[t] IN
       IF \E u \in entries : exp[u] = e
       THEN Aborts("added at a taken time")
       ELSE /\ alive' = alive \cup {t} /\ entries' = entries \cup {t}
            /\ exp' = [exp EXCEPT ![t] = e]
            /\ armed' = IF EarliestChanged(e) THEN DelayTill(e) ELSE armed
            /\ UNCHANGED <<handling, todo, done, since, fault>>

(* The owner drops its TimerId; the entry stays. *)
Cancel(t) ==
  /\ fault = "none" /\ ~handling /\ t \in alive
  /\ alive' = alive \ {t}
  /\ UNCHANGED <<entries, exp, armed, handling, todo, done, since, fault>>

(* Time passes, while the loop sleeps or is late. *)
Tick ==
  /\ fault = "none"
  /\ IF handling THEN since < MaxLate
     ELSE armed > 0 \/ (entries # {} /\ \A u \in entries : exp[u] > -MaxLate)
  /\ exp' = [t \in Timer |-> IF t \in entries THEN exp[t] - 1 ELSE exp[t]]
  /\ armed' = IF armed > 0 THEN armed - 1 ELSE armed
  /\ since' = IF handling THEN since + 1 ELSE since
  /\ UNCHANGED <<alive, entries, handling, todo, done, fault>>
-----------------------------------------------------------------------------
(* getExpired: what lies before `now'.  A slip: what is due soon, too. *)
ExpiredSlip == {t \in entries : exp[t] <= MinDelay}

Expired == {t \in entries : exp[t] < 0}

(* handleRead as far as getExpired, whose assertion wants the first entry  *)
(* that stays to be later than now.                                        *)
HandleRead ==
  /\ fault = "none" /\ ~handling /\ armed = 0
  /\ IF \E t \in entries : exp[t] = 0
     THEN Aborts("due right now")
     ELSE /\ handling' = TRUE /\ since' = 0 /\ armed' = Off
          /\ todo' = Expired /\ entries' = entries \ Expired
          /\ UNCHANGED <<alive, exp, done, fault>>

(* The next callback, in the order of expiration, unless the TimerId has   *)
(* been dropped.  A callback may drop TimerIds, its own included: the      *)
(* heartbeat that ends a session drops both timers of the connection.      *)
RunCallback(t) ==
  /\ fault = "none" /\ handling
  /\ t \in todo /\ \A u \in todo : exp[t] <= exp[u]
  /\ todo' = todo \ {t}
  /\ IF t \in alive
     THEN /\ done' = done \cup {t}
          /\ \E dropped \in SUBSET alive : alive' = alive \ dropped
     ELSE UNCHANGED <<alive, done>>
  /\ UNCHANGED <<entries, exp, armed, handling, since, fault>>

(***************************************************************************)
(* reset: the timers that ran and still have an owner are restarted from   *)
(* `now', dead entries at the front are dropped, and the timerfd is armed  *)
(* for the first that lives.                                               *)
(***************************************************************************)
Restarted == done \cap alive

NewExp == [t \in Timer |-> IF t \in Restarted THEN Interval[t] - since ELSE exp[t]]

(* A slip: dead entries are passed over, not dropped. *)
StayingSlip == entries \cup Restarted

Staying ==
  {u \in entries \cup Restarted :
     \E t \in (entries \cup Restarted) \cap alive : NewExp[t] <= NewExp[u]}

(* A slip: the timerfd is armed only if something was restarted. *)
RearmSlip ==
  IF Restarted \cap Staying = {} THEN armed' = Off
  ELSE \E t \in Staying :
         (\A u \in Staying : NewExp[t] <= NewExp[u]) /\ armed' = DelayTill(NewExp[t])

Rearm ==
  IF Staying \cap alive = {} THEN armed' = Off
  ELSE \E t \in Staying \cap alive :
         /\ \A u \in Staying \cap alive : NewExp[t] <= NewExp[u]
         /\ armed' = DelayTill(NewExp[t])

Together == \E s, t \in Restarted : s # t /\ NewExp[s] = NewExp[t]
Taken == \E s \in Restarted, u \in entries : NewExp[s] = exp[u]

Reset ==
  /\ fault = "none" /\ handling /\ todo = {}
  /\ IF Together THEN Aborts("restarted together")
     ELSE IF Taken THEN Aborts("restarted at a taken time")
     ELSE /\ entries' = Staying
          /\ exp' = [t \in Timer |-> IF t \in Staying THEN NewExp[t] ELSE 0]
          /\ Rearm
          /\ handling' = FALSE /\ done' = {} /\ since' = 0
          /\ UNCHANGED <<alive, todo, fault>>

LoopStep == HandleRead \/ (\E t \in Timer : RunCallback(t)) \/ Reset

Next ==
  \/ \E t \in Timer : AddTimer(t) \/ Cancel(t)
  \/ Tick
  \/ LoopStep

Spec == Init /\ [][Next]_vars

(* The loop comes back to its poller, and time goes on. *)
FairSpec == Spec /\ WF_vars(LoopStep) /\ WF_vars(Tick)
-----------------------------------------------------------------------------
(* Whatever was added, dropped and restarted in which order: between two   *)
(* calls of handleRead every timer with an owner has its entry, and the    *)
(* timerfd wakes the loop in time for it (for dead entries, too); during   *)
(* one no such timer is mislaid.                                           *)
ArmedInTime ==
  fault = "none" =>
    IF handling THEN alive \subseteq entries \cup todo \cup done
    ELSE /\ alive \subseteq entries
         /\ \A t \in entries : armed # Off /\ armed <= DelayTill(exp[t])

(* A callback runs only for an owner and after its time has come, also     *)
(* when callbacks before it in the batch have dropped TimerIds.            *)
RunsWhenDue ==
  [][\A t \in done' \ done : t \in alive /\ exp[t] < 0]_vars

(* "TimerId must keep live when u want it work" (EventLoop.h:39): as long  *)
(* as its owner keeps it, a timer runs again and again.                    *)
FiresAgain ==
  \A t \in Timer : t \in alive ~> t \in done \/ t \notin alive \/ fault # "none"

(* "If u want cancel, just destroy TimerId" (EventLoop.h:40): the entry    *)
(* that is left behind goes away, although nothing looks for it.           *)
DeadEntriesGo ==
  \A t \in Timer :
    t \in entries \ alive ~> t \notin entries \ alive \/ fault # "none"

(* The assertion of insert (TimerQueue.cpp:178): timers that expire in     *)
(* one batch are entered again without meeting each other.                 *)
NotTogether == fault # "restarted together"
=============================================================================
