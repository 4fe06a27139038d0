-------------------------------- MODULE Umutex -------------------------------
(***************************************************************************)
(* core/usync.cpp, umutex: one atomic word iState (locked, woken, starving *)
(* bits and a count of waiters) over a usema.  A step of the model is one  *)
(* atomic operation on iState with the local computation before it.  The   *)
(* semaphore is the Take and Release of Semaphore, which Usema implements: *)
(* a permit goes to any waiting coroutine, so also to one the unlocker did *)
(* not mean.                                                               *)
(*                                                                         *)
(* A wait longer than 1 ms makes a coroutine starving: whether it lasted   *)
(* that long is a free choice at the moment it wakes up.                   *)
(***************************************************************************)
EXTENDS Naturals, FiniteSets

CONSTANTS Co,        \* coroutines that use the mutex
          MaxSpin    \* MAX_SPIN: rounds of spinning before lock() queues

VARIABLES
  st,         \* iState
  sema,       \* permits of *pSema
  pc,
  loc         \* the locals of lock() and unlock()

vars == <<st, sema, pc, loc>>

\* iState, its bits by name.
State == [locked : BOOLEAN, woken : BOOLEAN, starving : BOOLEAN, waiters : Nat]
Zero == [locked |-> FALSE, woken |-> FALSE, starving |-> FALSE, waiters |-> 0]
JustLocked == [Zero EXCEPT !.locked = TRUE]

Waiting == {c \in Co : pc[c] = "sema"}

Locals == [old : State, starving : BOOLEAN, awoke : BOOLEAN, iter : Nat]
Fresh == [old |-> Zero, starving |-> FALSE, awoke |-> FALSE, iter |-> 0]

Goes(c, l) == pc' = [pc EXCEPT ![c] = l]

\* Locals that are no longer read are forgotten.
Forgets(c) == loc' = [loc EXCEPT ![c] = Fresh]

Init == /\ st = Zero
        /\ sema = 0
        /\ pc = [c \in Co |-> "idle"]
        /\ loc = [c \in Co |-> Fresh]

----------------------------------------------------------------------------
(* lock *)

\* The first compare-and-swap of lock(), and the whole of a successful
\* try_lock(), which has the same compare-and-swap.
LockFast(c) == /\ pc[c] = "idle"
               /\ st = Zero
               /\ st' = JustLocked
               /\ Goes(c, "cs")
               /\ UNCHANGED <<sema, loc>>

\* It fails: the slow path begins (a failed try_lock() changes nothing).
LockSlow(c) == /\ pc[c] = "idle"
               /\ st # Zero
               /\ Goes(c, "load")
               /\ UNCHANGED <<st, sema, loc>>

Load(c) == /\ pc[c] = "load"
           /\ loc' = [loc EXCEPT ![c].old = st]
           /\ Goes(c, "loop")
           /\ UNCHANGED <<st, sema>>

CanSpin(c) == LET l == loc[c]
              IN  l.old.locked /\ ~l.old.starving /\ l.iter < MaxSpin

\* A spinning coroutine with waiters behind it sets the woken bit, so that
\* unlock() does not wake another one.
SetsWoken(c) == LET l == loc[c]
                IN  ~l.awoke /\ ~l.old.woken /\ l.old.waiters # 0 /\ st = l.old

\* Bug: the woken bit is set and awoke is not remembered.
SpinForgetsAwoke(c) ==
  /\ pc[c] = "loop"
  /\ CanSpin(c)
  /\ st' = IF SetsWoken(c) THEN [st EXCEPT !.woken = TRUE] ELSE st
  /\ loc' = [loc EXCEPT ![c].iter = @ + 1]
  /\ Goes(c, "load")
  /\ UNCHANGED sema

Spin(c) ==
  /\ pc[c] = "loop"
  /\ CanSpin(c)
  /\ st' = IF SetsWoken(c) THEN [st EXCEPT !.woken = TRUE] ELSE st
  /\ loc' = [loc EXCEPT ![c].iter = @ + 1, ![c].awoke = @ \/ SetsWoken(c)]
  /\ Goes(c, "load")
  /\ UNCHANGED sema

\* Bug: starving mode does not count as busy.
BusyUnlessHandedOver(s) == s.locked

Busy(s) == s.locked \/ s.starving

\* The word lock() proposes to replace o by; hungry and wake are its locals
\* starving and awoke.
NewState(o, hungry, wake) ==
  [locked   |-> o.locked \/ ~o.starving,
   starving |-> o.starving \/ (hungry /\ o.locked),
   woken    |-> o.woken /\ ~wake,
   waiters  |-> IF Busy(o) THEN o.waiters + 1 ELSE o.waiters]

\* SYSFTL("sync: inconsistent mutex state"): awoke without the woken bit.
Inconsistent(c) == /\ pc[c] = "loop"
                   /\ ~CanSpin(c)
                   /\ loc[c].awoke /\ ~loc[c].old.woken

Proposes(c) == /\ pc[c] = "loop"
               /\ ~CanSpin(c)
               /\ ~Inconsistent(c)

\* The compare-and-swap fails: reload and go round.
CasFail(c) == /\ Proposes(c)
              /\ st # loc[c].old
              /\ Goes(c, "load")
              /\ UNCHANGED <<st, sema, loc>>

\* It succeeds on a free mutex: lock() returns.
CasAcquire(c) == /\ Proposes(c)
                 /\ st = loc[c].old /\ ~Busy(st)
                 /\ st' = NewState(st, loc[c].starving, loc[c].awoke)
                 /\ Goes(c, "cs")
                 /\ Forgets(c)
                 /\ UNCHANGED sema

\* It succeeds on a busy one: the coroutine is counted and waits.  Of its
\* locals only starving is read again before it is written.
CasQueue(c) == /\ Proposes(c)
               /\ st = loc[c].old /\ Busy(st)
               /\ st' = NewState(st, loc[c].starving, loc[c].awoke)
               /\ Goes(c, "sema")
               /\ loc' = [loc EXCEPT ![c] = [Fresh EXCEPT !.starving = loc[c].starving]]
               /\ UNCHANGED sema

\* wait() returns with a permit; the wait may have lasted more than 1 ms.
Wake(c) == /\ pc[c] = "sema"
           /\ sema > 0
           /\ sema' = sema - 1
           /\ Goes(c, "woke")
           /\ \E long \in BOOLEAN :
                loc' = [loc EXCEPT ![c].starving = @ \/ long]
           /\ UNCHANGED st

\* Normal mode: compete again, with the woken bit on this coroutine's account.
WokeNormal(c) == /\ pc[c] = "woke"
                 /\ ~st.starving
                 /\ loc' = [loc EXCEPT ![c].old = st, ![c].iter = 0,
                                       ![c].awoke = TRUE]
                 /\ Goes(c, "loop")
                 /\ UNCHANGED <<st, sema>>

\* SYSFTL("sync: inconsistent mutex state"): a permit in starving mode is a
\* handover, and iState disagrees.
NotHandedOver(c) == /\ pc[c] = "woke"
                    /\ st.starving
                    /\ st.locked \/ st.woken \/ st.waiters = 0

\* Starving mode: the mutex has been handed over.
WokeStarving(c) == /\ pc[c] = "woke"
                   /\ st.starving
                   /\ ~NotHandedOver(c)
                   /\ loc' = [loc EXCEPT ![c].old = st]
                   /\ Goes(c, "grab")
                   /\ UNCHANGED <<st, sema>>

\* This coroutine leaves starving mode when its wait was short or it was the
\* last waiter at the time of the load.
Leaves(c) == ~loc[c].starving \/ loc[c].old.waiters = 1

\* iState += delta, added blindly: not a compare-and-swap.
Grab(c) == /\ pc[c] = "grab"
           /\ st' = [st EXCEPT !.locked = TRUE,
                               !.waiters = @ - 1,
                               !.starving = @ /\ ~Leaves(c)]
           /\ Goes(c, "cs")
           /\ Forgets(c)
           /\ UNCHANGED sema

----------------------------------------------------------------------------
(* unlock *)

\* SYSFTL("sync: unlock of unlocked mutex").
UnlockUnlocked(c) == /\ pc[c] = "cs"
                     /\ ~st.locked

\* fetch_sub(mutexLocked), and where unlock() goes with the result.
Unlock(c) ==
  /\ pc[c] = "cs"
  /\ ~UnlockUnlocked(c)
  /\ st' = [st EXCEPT !.locked = FALSE]
  /\ \/ st = JustLocked /\ Goes(c, "idle") /\ UNCHANGED loc
     \/ st.starving /\ Goes(c, "signal") /\ UNCHANGED loc
     \/ st # JustLocked /\ ~st.starving /\ Goes(c, "uloop")
          /\ loc' = [loc EXCEPT ![c].old = st']
  /\ UNCHANGED sema

\* Nobody to wake, or somebody else sees to it.
SomebodyElse(s) == s.waiters = 0 \/ s.locked \/ s.woken \/ s.starving

UnlockDone(c) == /\ pc[c] = "uloop"
                 /\ SomebodyElse(loc[c].old)
                 /\ Goes(c, "idle")
                 /\ Forgets(c)
                 /\ UNCHANGED <<st, sema>>

\* Take one waiter off the count, set woken, and then signal.
UnlockPass(c) == /\ pc[c] = "uloop"
                 /\ ~SomebodyElse(loc[c].old)
                 /\ st = loc[c].old
                 /\ st' = [st EXCEPT !.waiters = @ - 1, !.woken = TRUE]
                 /\ Goes(c, "signal")
                 /\ Forgets(c)
                 /\ UNCHANGED sema

\* The compare-and-swap fails: reload and go round.
UnlockRetry(c) == /\ pc[c] = "uloop"
                  /\ ~SomebodyElse(loc[c].old)
                  /\ st # loc[c].old
                  /\ loc' = [loc EXCEPT ![c].old = st]
                  /\ UNCHANGED <<st, sema, pc>>

Signal(c) == /\ pc[c] = "signal"
             /\ sema' = sema + 1
             /\ Goes(c, "idle")
             /\ UNCHANGED <<st, loc>>

----------------------------------------------------------------------------
Contend(c) == \/ Load(c) \/ Spin(c)
              \/ CasFail(c) \/ CasAcquire(c) \/ CasQueue(c)
              \/ WokeNormal(c) \/ WokeStarving(c) \/ Grab(c)

Leave(c) == \/ Unlock(c) \/ UnlockDone(c)
            \/ UnlockPass(c) \/ UnlockRetry(c) \/ Signal(c)

Next == \E c \in Co : LockFast(c) \/ LockSlow(c) \/ Contend(c) \/ Wake(c) \/ Leave(c)

(***************************************************************************)
(* A coroutine that is not suspended runs on its thread, a holder unlocks, *)
(* and the semaphore serves somebody (Semaphore's own fairness).  Nobody   *)
(* has to call lock().                                                     *)
(***************************************************************************)
Fairness == /\ \A c \in Co : WF_vars(Contend(c)) /\ WF_vars(Leave(c))
            /\ WF_vars(\E c \in Co : Wake(c))

Spec == Init /\ [][Next]_vars /\ Fairness

----------------------------------------------------------------------------
Labels == {"idle", "load", "loop", "sema", "woke", "grab", "cs",
           "uloop", "signal"}

TypeOK == /\ st \in State
          /\ sema \in Nat
          /\ pc \in [Co -> Labels]
          /\ loc \in [Co -> Locals]

(***************************************************************************)
(* At most one coroutine is between lock() and unlock(), whatever mix of   *)
(* fast path, spinning, normal wakeup and starving handover got it there.  *)
(***************************************************************************)
Exclusion == \A c, d \in Co : pc[c] = "cs" /\ pc[d] = "cs" => c = d

(***************************************************************************)
(* The three SYSFTL of umutex are unreachable as long as only holders call *)
(* unlock().                                                               *)
(***************************************************************************)
NeverFatal ==
  \A c \in Co : ~Inconsistent(c) /\ ~NotHandedOver(c) /\ ~UnlockUnlocked(c)

(***************************************************************************)
(* lock() adds delta to iState blindly after a handover.  Whatever others  *)
(* did since it loaded iState, the sum carries from no bit into another:   *)
(* the locked bit is clear, a waiter is counted, and the starving bit is   *)
(* set when delta clears it.                                               *)
(***************************************************************************)
HandoverFits == \A c \in Co : pc[c] = "grab" =>
                  ~st.locked /\ st.waiters > 0 /\ st.starving

(***************************************************************************)
(* The coroutines suspended in the semaphore, or back from it and not yet  *)
(* taken off the count, are the waiters of iState plus the permits already *)
(* released for them: nobody waits uncounted, no permit is surplus.        *)
(***************************************************************************)
WaitersCounted ==
  LET released == sema + Cardinality({c \in Co : pc[c] \in {"signal", "woke"}})
      back == Cardinality({c \in Co : pc[c] \in {"woke", "grab"}})
      waiting == Cardinality(Waiting)
  IN  IF st.starving THEN waiting + back = st.waiters
                     ELSE waiting + back = st.waiters + released

Holding == {c \in Co : pc[c] = "cs"}
Wanting == {c \in Co : pc[c] \in {"load", "loop", "sema", "woke", "grab"}}

Abs == INSTANCE Mutex WITH wanting <- Wanting, holders <- Holding

(***************************************************************************)
(* umutex implements Mutex, its progress included: when the mutex is free  *)
(* and somebody is inside lock(), somebody gets it.                        *)
(***************************************************************************)
ImplementsMutex == Abs!Spec
==============================================================================
