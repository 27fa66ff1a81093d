---------------------------- MODULE FunctorQueue ----------------------------
(***************************************************************************)
(* What EventLoop::queueInLoop promises, however the loop moves what is    *)
(* queued between its handlers and its batches: functors run in the order  *)
(* of queueing, and none is dropped.                                       *)
(*                                                                         *)
(* DiretransClient implements this module (see FunctorsInOrder there).     *)
(***************************************************************************)
EXTENDS SequencesExt

CONSTANT Call

VARIABLE queue

Init == queue = <<>>

(* A handler or a timer queues some. *)
Enqueue == IsPrefix(queue, queue')

(* The first one runs, and may queue some itself. *)
Run == queue # <<>> /\ IsPrefix(Tail(queue), queue')

Next == queue' \in Seq(Call) /\ (Enqueue \/ Run)

Spec == Init /\ [][Next]_queue
=============================================================================
