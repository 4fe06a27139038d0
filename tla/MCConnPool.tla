------------------------------ MODULE MCConnPool -----------------------------
(***************************************************************************)
(* The instances of ConnPool that TLC checks: three clients for two slots, *)
(* so that one waits; three addresses, since a connection being closed no  *)
(* longer counts.                                                          *)
(***************************************************************************)
EXTENDS ConnPool
==============================================================================
