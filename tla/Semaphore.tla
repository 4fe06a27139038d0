------------------------------ MODULE Semaphore ------------------------------
(***************************************************************************)
(* What core/usync.h promises of usema: a counting semaphore for           *)
(* coroutines.  A pending wait() returns by taking one permit, in no       *)
(* particular order (a newcomer may overtake a parked coroutine), or,      *)
(* after kill_broadcast, without a permit.  No queue, no lock: those       *)
(* belong to Usema, which implements this specification, and the locks     *)
(* built on usema (Umutex, UsharedMutex) are composed with this one.       *)
(***************************************************************************)
EXTENDS Naturals

CONSTANTS Waiter,     \* the coroutines that call wait() and try_wait()
          Permits     \* the count the semaphore is constructed with

VARIABLES permits, pending, killed

semaVars == <<permits, pending, killed>>

SemaTypeOK == /\ permits \in Nat
              /\ pending \subseteq Waiter
              /\ killed \in BOOLEAN

Init == /\ permits = Permits
        /\ pending = {}
        /\ killed = FALSE

\* A coroutine calls wait().
Request(w) == /\ w \in Waiter \ pending
              /\ pending' = pending \cup {w}
              /\ UNCHANGED <<permits, killed>>

\* A pending wait() takes a permit and returns.
Take(w) == /\ w \in pending
           /\ permits > 0
           /\ permits' = permits - 1
           /\ pending' = pending \ {w}
           /\ UNCHANGED killed

\* try_wait() succeeds.
TryTake == /\ permits > 0
           /\ permits' = permits - 1
           /\ UNCHANGED <<pending, killed>>

\* signal() publishes a permit.
Release == /\ permits' = permits + 1
           /\ UNCHANGED <<pending, killed>>

\* kill_broadcast(): from now on wait() no longer needs a permit.
Kill == /\ ~killed
        /\ killed' = TRUE
        /\ UNCHANGED <<permits, pending>>

\* A pending wait() of a killed semaphore returns empty-handed.
Abandon(w) == /\ killed
              /\ w \in pending
              /\ pending' = pending \ {w}
              /\ UNCHANGED <<permits, killed>>

Serve == \E w \in Waiter : Take(w) \/ Abandon(w)

Next == \/ \E w \in Waiter : Request(w)
        \/ Serve
        \/ TryTake
        \/ Release
        \/ Kill

(***************************************************************************)
(* While a permit is there and somebody waits, somebody is served: the     *)
(* promise that no wakeup is lost.  Nobody in particular is, because       *)
(* usema lets newcomers overtake.                                          *)
(***************************************************************************)
Spec == Init /\ [][Next]_semaVars /\ WF_semaVars(Serve)
==============================================================================
