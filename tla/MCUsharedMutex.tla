--------------------------- MODULE MCUsharedMutex ----------------------------
(***************************************************************************)
(* The instances of UsharedMutex that TLC checks: two writers, so that one *)
(* registers while readers released by the other are still on their way    *)
(* in, and two or three readers.                                           *)
(***************************************************************************)
EXTENDS UsharedMutex
==============================================================================
