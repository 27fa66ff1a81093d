------------------------- MODULE TimerQueue_proofs -------------------------
(***************************************************************************)
(* Theorems about the timer queue, for any timers and intervals.           *)
(***************************************************************************)
EXTENDS TimerQueue, TLAPS

(* The timerfd covers every entry, dead ones included, except while        *)
(* handleRead runs: then what lives is in the batch or still entered, and  *)
(* what has still to run had expired.                                      *)
Covered ==
  IF handling
  THEN /\ alive \subseteq entries \cup todo \cup done
       /\ \A t \in todo : exp[t] < 0
  ELSE /\ todo = {} /\ done = {} /\ alive \subseteq entries
       /\ \A t \in entries : armed # Off /\ armed <= DelayTill(exp[t])

TInv == TypeOK /\ (fault = "none" => Covered)

LEMMA DelayMonotone ==
  /\ \A e \in Int : DelayTill(e) \in Nat /\ DelayTill(e) <= DelayTill(e - 1) + 1
  /\ \A d, e \in Int : d <= e => DelayTill(d) <= DelayTill(e)
  BY TimerAssumption DEF DelayTill

LEMMA AddTimerKeeps ==
  ASSUME TInv, NEW t \in Timer, AddTimer(t)
  PROVE  TInv'
<1> DEFINE e == Interval[t]
<1>1. e \in Int
  BY TimerAssumption
<1>2. CASE \E u \in entries : exp[u] = e
  <2>1. /\ fault' = "added at a taken time"
        /\ UNCHANGED <<alive, entries, exp, armed, handling, todo, done, since>>
    BY <1>2 DEF AddTimer, Aborts
  <2> QED BY <2>1 DEF TInv, TypeOK
<1>3. CASE ~\E u \in entries : exp[u] = e
  <2>1. /\ fault = "none" /\ ~handling /\ t \notin entries
        /\ alive' = alive \cup {t} /\ entries' = entries \cup {t}
        /\ exp' = [exp EXCEPT ![t] = e]
        /\ armed' = IF EarliestChanged(e) THEN DelayTill(e) ELSE armed
        /\ UNCHANGED <<handling, todo, done, since, fault>>
    BY <1>3 DEF AddTimer, Free
  <2>2. TypeOK'
    BY <1>1, <2>1, DelayMonotone DEF TInv, TypeOK
  <2>3. \A u \in Timer : exp'[u] \in Int /\ exp'[u] = IF u = t THEN e ELSE exp[u]
    BY <1>1, <2>1 DEF TInv, TypeOK
  <2>4. \A u \in entries : armed # Off /\ armed <= DelayTill(exp[u]) /\ exp[u] \in Int /\ u \in Timer
    BY <2>1 DEF TInv, Covered, TypeOK
  <2>5. armed \in Int /\ armed' \in Int /\ DelayTill(e) \in Nat
    <3>1. armed \in Nat \cup {Off} /\ DelayTill(e) \in Nat
      BY <1>1, DelayMonotone DEF TInv, TypeOK
    <3>2. armed' = armed \/ armed' = DelayTill(e)
      BY <2>1
    <3> HIDE DEF e
    <3> QED BY <3>1, <3>2 DEF Off
  <2> HIDE DEF e
  <2>6. CASE EarliestChanged(e)
    <3>1. armed' = DelayTill(e)
      BY <2>1, <2>6
    <3>2. \A u \in entries : e < exp[u]
      BY <2>6 DEF EarliestChanged
    <3>3. ASSUME NEW u \in entries' PROVE DelayTill(e) <= DelayTill(exp'[u])
      <4>1. CASE u = t
        BY <1>1, <2>3, <2>5, <4>1
      <4>2. CASE u # t
        <5>1. u \in entries
          BY <2>1, <4>2
        <5>2. exp'[u] = exp[u] /\ exp[u] \in Int /\ e < exp[u] /\ e \in Int
          BY <1>1, <2>3, <2>4, <3>2, <4>2, <5>1
        <5>3. PICK x \in Int : x = exp[u]
          BY <5>2
        <5>4. e \in Int /\ e <= x
          BY <5>2, <5>3
        <5>5. DelayTill(e) <= DelayTill(x)
          BY <5>4, DelayMonotone
        <5> QED BY <5>2, <5>3, <5>5
      <4> QED BY <4>1, <4>2
    <3>4. \A u \in entries' : armed' # Off /\ armed' <= DelayTill(exp'[u])
      BY <2>5, <3>1, <3>3 DEF Off
    <3> QED BY <2>1, <2>2, <3>4 DEF TInv, Covered, DelayTill
  <2>7. CASE ~EarliestChanged(e)
    <3>1. PICK v \in entries : ~(e < exp[v])
      BY <2>7 DEF EarliestChanged
    <3>2. DelayTill(exp[v]) <= DelayTill(e) /\ DelayTill(exp[v]) \in Nat
      <4>1. PICK x \in Int : x = exp[v]
        BY <2>4
      <4>2. x <= e
        BY <1>1, <3>1, <4>1
      <4> QED BY <1>1, <4>1, <4>2, DelayMonotone
    <3>3. armed' = armed
      BY <2>1, <2>7
    <3>4. armed <= DelayTill(e) /\ armed # Off
      BY <2>4, <2>5, <3>1, <3>2
    <3>5. \A u \in entries' : armed' # Off /\ armed' <= DelayTill(exp'[u])
      BY <2>1, <2>3, <2>4, <3>3, <3>4
    <3> QED BY <2>1, <2>2, <3>5 DEF TInv, Covered, DelayTill
  <2> QED BY <2>6, <2>7
<1> QED BY <1>2, <1>3

LEMMA TickKeeps ==
  ASSUME TInv, Tick
  PROVE  TInv'
<1>1. /\ fault = "none" /\ Covered
      /\ exp' = [t \in Timer |-> IF t \in entries THEN exp[t] - 1 ELSE exp[t]]
      /\ armed' = IF armed > 0 THEN armed - 1 ELSE armed
      /\ UNCHANGED <<alive, entries, handling, todo, done, fault>>
  BY DEF Tick, TInv
<1>2. since' \in Nat
  BY DEF Tick, TInv, TypeOK
<1>3. armed \in Int /\ armed' \in Nat \cup {Off} /\ (armed # Off => armed' # Off)
  BY <1>1 DEF TInv, TypeOK, Off
<1>4. TypeOK'
  BY <1>1, <1>2, <1>3 DEF TInv, TypeOK
<1>5. ASSUME ~handling, NEW t \in entries
      PROVE  armed' # Off /\ armed' <= DelayTill(exp'[t])
  <2>1. exp[t] \in Int /\ exp'[t] = exp[t] - 1
    BY <1>1 DEF TInv, TypeOK
  <2>2. /\ DelayTill(exp[t]) \in Nat /\ DelayTill(exp[t] - 1) \in Nat
        /\ DelayTill(exp[t]) <= DelayTill(exp[t] - 1) + 1
    <3>1. PICK x \in Int : x = exp[t]
      BY <2>1
    <3>2. x - 1 \in Int
      OBVIOUS
    <3> QED BY <3>1, <3>2, DelayMonotone
  <2>3. armed # Off /\ armed <= DelayTill(exp[t])
    BY <1>1, <1>5 DEF Covered
  <2> QED BY <1>1, <1>3, <2>1, <2>2, <2>3 DEF TInv, TypeOK, Off
<1>6. ASSUME handling, NEW t \in todo
      PROVE  exp'[t] < 0
  BY <1>1, <1>6 DEF Covered, TInv, TypeOK
<1> QED BY <1>1, <1>4, <1>5, <1>6 DEF TInv, Covered, DelayTill

LEMMA ResetKeeps ==
  ASSUME TInv, Reset
  PROVE  TInv'
<1>1. CASE Together \/ Taken
  BY <1>1 DEF Reset, Aborts, TInv, TypeOK
<1>2. CASE ~(Together \/ Taken)
  <2>1. /\ fault = "none" /\ handling /\ todo = {}
        /\ entries' = Staying
        /\ exp' = [t \in Timer |-> IF t \in Staying THEN NewExp[t] ELSE 0]
        /\ Rearm
        /\ handling' = FALSE /\ done' = {} /\ since' = 0
        /\ UNCHANGED <<alive, todo, fault>>
    BY <1>2 DEF Reset
  <2>2. NewExp \in [Timer -> Int]
    <3>1. since \in Nat /\ exp \in [Timer -> Int]
      BY DEF TInv, TypeOK
    <3>2. \A t \in Timer : Interval[t] - since \in Int /\ exp[t] \in Int
      BY <3>1, TimerAssumption
    <3> QED BY <3>2 DEF NewExp
  <2>3. Staying \subseteq Timer
    BY DEF Staying, Restarted, TInv, TypeOK
  <2>4. \A t \in Staying : exp'[t] = NewExp[t] /\ NewExp[t] \in Int
    BY <2>1, <2>2, <2>3
  <2>5. alive \subseteq Staying
    <3>1. alive \subseteq (entries \cup Restarted)
      BY <2>1 DEF TInv, Covered, Restarted
    <3>2. \A t \in alive : NewExp[t] \in Int
      BY <2>2 DEF TInv, TypeOK
    <3> QED BY <3>1, <3>2 DEF Staying
  <2>6. \A u \in Staying : \E t \in Staying \cap alive : NewExp[t] <= NewExp[u]
    BY <2>5 DEF Staying
  <2>7. armed' \in Nat \cup {Off}
    BY <2>1, <2>4, DelayMonotone DEF Rearm
  <2>8. \A t \in entries' : armed' # Off /\ armed' <= DelayTill(exp'[t])
    <3>1. CASE Staying \cap alive = {}
      BY <2>1, <2>6, <3>1
    <3>2. CASE Staying \cap alive # {}
      <4>1. PICK s \in Staying \cap alive :
              /\ \A u \in Staying \cap alive : NewExp[s] <= NewExp[u]
              /\ armed' = DelayTill(NewExp[s])
        BY <2>1, <3>2 DEF Rearm
      <4>2. \A u \in Staying : NewExp[s] <= NewExp[u]
        BY <2>4, <2>6, <4>1
      <4>3. \A u \in Staying : DelayTill(NewExp[s]) <= DelayTill(NewExp[u])
        BY <2>4, <4>2, DelayMonotone
      <4>4. DelayTill(NewExp[s]) \in Nat
        BY <2>4, DelayMonotone
      <4> QED BY <2>1, <2>4, <4>1, <4>3, <4>4 DEF Off
    <3> QED BY <3>1, <3>2
  <2>9. TypeOK'
    <3>1. exp' \in [Timer -> Int]
      BY <2>1, <2>2
    <3> QED BY <2>1, <2>3, <2>7, <3>1 DEF TInv, TypeOK
  <2> QED BY <2>1, <2>5, <2>8, <2>9 DEF TInv, Covered, DelayTill
<1> QED BY <1>1, <1>2

LEMMA TimerNext ==
  ASSUME TInv, [Next]_vars
  PROVE  TInv'
<1>1. ASSUME NEW t \in Timer, Cancel(t) PROVE TInv'
  BY <1>1 DEF Cancel, TInv, TypeOK, Covered, DelayTill
<1>2. CASE HandleRead
  <2>1. CASE \E t \in entries : exp[t] = 0
    BY <1>2, <2>1 DEF HandleRead, Aborts, TInv, TypeOK
  <2>2. CASE ~\E t \in entries : exp[t] = 0
    BY <1>2, <2>2 DEF HandleRead, Expired, TInv, TypeOK, Covered
  <2> QED BY <2>1, <2>2
<1>3. ASSUME NEW t \in Timer, RunCallback(t) PROVE TInv'
  BY <1>3 DEF RunCallback, TInv, TypeOK, Covered
<1>4. CASE UNCHANGED vars
  BY <1>4 DEF vars, TInv, TypeOK, Covered, DelayTill
<1> QED BY <1>1, <1>2, <1>3, <1>4, AddTimerKeeps, TickKeeps, ResetKeeps DEF Next, LoopStep

LEMMA TimerInv == Spec => []TInv
<1>1. Init => TInv
  <2> SUFFICES ASSUME Init PROVE TInv
    OBVIOUS
  <2>1. exp \in [Timer -> Int]
    BY DEF Init
  <2> QED BY <2>1 DEF Init, TInv, TypeOK, Covered, Off
<1> QED BY <1>1, TimerNext, PTL DEF Spec

(* The timerfd is never set to a time gone by, and values have their type. *)
THEOREM TimerTypes == Spec => []TypeOK
<1>1. TInv => TypeOK
  BY DEF TInv
<1> QED BY <1>1, TimerInv, PTL

(* Every timer with an owner has an entry the timerfd wakes for in time.   *)
THEOREM TimersArmed == Spec => []ArmedInTime
<1>1. TInv => ArmedInTime
  BY DEF TInv, Covered, ArmedInTime
<1> QED BY <1>1, TimerInv, PTL

(* A callback runs only for an owner and after its time has come.          *)
THEOREM TimersRunWhenDue == Spec => RunsWhenDue
<1> DEFINE Due == \A t \in done' \ done : t \in alive /\ exp[t] < 0
<1>1. TInv /\ [Next]_vars => [Due]_vars
  <2> SUFFICES ASSUME TInv, [Next]_vars, vars' # vars PROVE Due
    OBVIOUS
  <2>1. ASSUME NEW t \in Timer, RunCallback(t) PROVE Due
    BY <2>1 DEF RunCallback, TInv, Covered
  <2>2. CASE Reset
    BY <2>2 DEF Reset, Aborts
  <2>3. CASE HandleRead
    BY <2>3 DEF HandleRead, Aborts
  <2>4. ASSUME NEW t \in Timer, AddTimer(t) \/ Cancel(t) PROVE Due
    BY <2>4 DEF AddTimer, Cancel, Aborts
  <2>5. CASE Tick
    BY <2>5 DEF Tick
  <2> QED BY <2>1, <2>2, <2>3, <2>4, <2>5 DEF Next, LoopStep
<1> QED BY <1>1, TimerInv, PTL DEF Spec, RunsWhenDue
-----------------------------------------------------------------------------
(***************************************************************************)
(* timers_ is ordered by time alone, so a timer that meets another of the  *)
(* same time is lost (or the assertion fails).  The entries that are in it *)
(* never meet: those of a batch that is restarted keep clear of each other *)
(* and of the rest, or the step aborts.                                    *)
(***************************************************************************)
Apart == \A s, t \in entries : exp[s] = exp[t] => s = t

LEMMA ResetApart ==
  ASSUME TInv, Apart, Reset
  PROVE  Apart'
<1>1. CASE Together \/ Taken
  BY <1>1 DEF Reset, Aborts, Apart
<1>2. CASE ~(Together \/ Taken)
  <2>1. entries' = Staying /\ exp' = [t \in Timer |-> IF t \in Staying THEN NewExp[t] ELSE 0]
    BY <1>2 DEF Reset
  <2>2. Staying \subseteq entries \cup Restarted /\ entries \cup Restarted \subseteq Timer
    BY DEF Staying, Restarted, TInv, TypeOK
  <2>3. \A t \in entries \ Restarted : NewExp[t] = exp[t]
    BY <2>2 DEF NewExp
  <2>4. ASSUME NEW s \in Staying, NEW t \in Staying, NewExp[s] = NewExp[t] PROVE s = t
    <3>1. CASE s \in Restarted /\ t \in Restarted
      BY <1>2, <2>4, <3>1 DEF Together
    <3>2. CASE s \in Restarted /\ t \notin Restarted
      BY <1>2, <2>2, <2>3, <2>4, <3>2 DEF Taken
    <3>3. CASE s \notin Restarted /\ t \in Restarted
      BY <1>2, <2>2, <2>3, <2>4, <3>3 DEF Taken
    <3>4. CASE s \notin Restarted /\ t \notin Restarted
      BY <2>2, <2>3, <2>4, <3>4 DEF Apart
    <3> QED BY <3>1, <3>2, <3>3, <3>4
  <2> QED BY <2>1, <2>2, <2>4 DEF Apart
<1> QED BY <1>1, <1>2

(* Two entries of the set never have the same time, whatever was added,    *)
(* dropped and restarted: the order of timers_ tells all of them apart.    *)
THEOREM EntriesApart == Spec => []Apart
<1>1. Init => Apart
  BY DEF Init, Apart
<1>2. ASSUME TInv, Apart, [Next]_vars PROVE Apart'
  <2>1. exp \in [Timer -> Int] /\ entries \subseteq Timer
    BY <1>2 DEF TInv, TypeOK
  <2>2. ASSUME NEW t \in Timer, AddTimer(t) PROVE Apart'
    <3>1. CASE UNCHANGED <<entries, exp>>
      BY <1>2, <3>1 DEF Apart
    <3>2. CASE /\ \A u \in entries : exp[u] # Interval[t]
               /\ entries' = entries \cup {t} /\ exp' = [exp EXCEPT ![t] = Interval[t]]
               /\ t \notin entries
      BY <1>2, <2>1, <3>2 DEF Apart
    <3> QED BY <2>2, <3>1, <3>2 DEF AddTimer, Aborts, Free
  <2>3. CASE Tick
    <3>1. entries' = entries /\ \A t \in entries : exp'[t] = exp[t] - 1 /\ exp[t] \in Int
      BY <2>1, <2>3 DEF Tick
    <3> QED BY <1>2, <3>1 DEF Apart
  <2>4. CASE HandleRead
    BY <1>2, <2>4 DEF HandleRead, Aborts, Apart
  <2>5. CASE Reset
    BY <1>2, <2>5, ResetApart
  <2>6. ASSUME UNCHANGED <<entries, exp>> PROVE Apart'
    BY <1>2, <2>6 DEF Apart
  <2> QED
    BY <1>2, <2>2, <2>3, <2>4, <2>5, <2>6 DEF Next, LoopStep, Cancel, RunCallback, vars
<1> QED BY <1>1, <1>2, TimerInv, PTL DEF Spec

(* The assertion of insert that TimerCollision shows failing holds as long *)
(* as no two timers have the same interval: those of a batch are restarted *)
(* from one `now'.                                                         *)
THEOREM DistinctNeverTogether ==
  (\A s, t \in Timer : Interval[s] = Interval[t] => s = t) /\ Spec => []NotTogether
<1> SUFFICES ASSUME \A s, t \in Timer : Interval[s] = Interval[t] => s = t
             PROVE  Spec => []NotTogether
  OBVIOUS
<1>1. Init => NotTogether
  BY DEF Init, NotTogether
<1>2. TInv => ~Together
  <2> SUFFICES ASSUME TInv, NEW s \in Restarted, NEW t \in Restarted, NewExp[s] = NewExp[t]
               PROVE  s = t
    BY DEF Together
  <2>1. s \in Timer /\ t \in Timer /\ since \in Int
    <3>1. since \in Nat /\ done \subseteq Timer
      BY DEF TInv, TypeOK
    <3> QED BY <3>1 DEF Restarted
  <2>2. Interval[s] - since = Interval[t] - since
    BY <2>1 DEF NewExp
  <2>3. Interval[s] \in Int /\ Interval[t] \in Int
    BY <2>1, TimerAssumption
  <2>4. Interval[s] = Interval[t]
    BY <2>1, <2>2, <2>3
  <2> QED BY <2>1, <2>4
<1>3. TInv /\ NotTogether /\ [Next]_vars => NotTogether'
  BY <1>2 DEF NotTogether, Next, LoopStep, AddTimer, Cancel, Tick, HandleRead, RunCallback, Reset,
              Aborts, vars
<1> QED BY <1>1, <1>3, TimerInv, PTL DEF Spec
=============================================================================
