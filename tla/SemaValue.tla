------------------------------ MODULE SemaValue ------------------------------
(***************************************************************************)
(* A usema as a value: the permits it holds and whether it was killed.     *)
(* The components below are written over this value, one step for a wait() *)
(* that passes and one for a signal(); that usema behaves like it, with    *)
(* waiters that are woken but may be overtaken, is what the run of Usema   *)
(* shows (ImplementsSemaphore).                                            *)
(***************************************************************************)
EXTENDS Naturals

Sema(n) == [permits |-> n, killed |-> FALSE]

\* wait() returns with a permit, or without one once the semaphore is killed.
Passes(s) == s.permits > 0 \/ s.killed
AfterWait(s) == IF s.permits > 0 THEN [s EXCEPT !.permits = @ - 1] ELSE s

AfterSignal(s) == [s EXCEPT !.permits = @ + 1]

AfterKill(s) == [s EXCEPT !.killed = TRUE]
==============================================================================
