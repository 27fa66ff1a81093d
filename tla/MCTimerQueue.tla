---------------------------- MODULE MCTimerQueue ----------------------------
(***************************************************************************)
(* Timers with intervals for model-checking TimerQueue.                    *)
(***************************************************************************)
EXTENDS TimerQueue, TLC

CONSTANTS t1, t2, t3

TwoTimers == {t1, t2}
ThreeTimers == {t1, t2, t3}

EqualIntervals == t1 :> 3 @@ t2 :> 3
MixedIntervals == t1 :> 1 @@ t2 :> 3 @@ t3 :> 3
=============================================================================
