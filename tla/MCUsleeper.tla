------------------------------ MODULE MCUsleeper -----------------------------
(***************************************************************************)
(* The instances of Usleeper that TLC checks: two coroutines with two      *)
(* usleepers share the one timeout request of the thread, or compete for a *)
(* usleeper; a wake() from outside; a submission queue of two entries, so  *)
(* that it can be full.                                                    *)
(***************************************************************************)
EXTENDS Usleeper
==============================================================================
