------------------------------- MODULE MCUsema -------------------------------
(***************************************************************************)
(* The instance of Usema that TLC checks: three waiters, so that a woken   *)
(* one, a queued one and a newcomer meet, and two signallers, so that two  *)
(* signal() or a signal() and kill_broadcast() race for the queue.         *)
(***************************************************************************)
EXTENDS Usema
==============================================================================
