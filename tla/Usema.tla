-------------------------------- MODULE Usema --------------------------------
(***************************************************************************)
(* core/usync.cpp, usema: the counting semaphore every other primitive of  *)
(* uco is built on.  One step of the model is one atomic operation of the  *)
(* code, or one critical section of the spin lock:                         *)
(*                                                                         *)
(*   wait()    spin: CAS on count, or give up -> lock: killed? ++nwait     *)
(*             -> recheck: CAS on count, or -> enqueue: push, unlock,      *)
(*             suspend (parked) -> resumed by its thread: spin again       *)
(*   signal()  ++count -> check: nwait == 0? -> lock: pop, --nwait         *)
(*             -> push: hand the coroutine to its thread                   *)
(*   kill_broadcast()  lock: killed, take_all -> push each of them         *)
(*                                                                         *)
(* The spin lock is held exactly while a waiter is between lock and        *)
(* unlock (recheck, enqueue); the critical sections of signal() and        *)
(* kill_broadcast() are single steps.  A coroutine handed to its thread    *)
(* is resumed there only after it has suspended, since a thread drains its *)
(* own list only from its scheduling loop, so being parked and the         *)
(* suspension are one step.                                                *)
(***************************************************************************)
EXTENDS Naturals, Sequences, FiniteSets, Functions

CONSTANTS Waiter,      \* coroutines that call wait() and try_wait()
          Signaller,   \* actors that call signal() and kill_broadcast()
          Permits,     \* initial count
          MaxCount     \* bound: signal() is not called at this count

ASSUME FiniteActors == IsFiniteSet(Waiter) /\ IsFiniteSet(Signaller)
ASSUME PermitsNat == Permits \in Nat /\ MaxCount \in Nat

VARIABLES
  count,    \* usema_impl::count
  nwait,    \* usema_impl::nwait
  queue,    \* usema_impl::waiter_list
  killed,   \* usema_impl::killed
  wpc,      \* where each waiter is
  spc,      \* where each signaller is
  hand      \* coroutines a signaller has popped and not yet pushed

vars == <<count, nwait, queue, killed, wpc, spc, hand>>

Holders == {w \in Waiter : wpc[w] \in {"recheck", "enqueue"}}
LockFree == Holders = {}

\* Goes(w, l): waiter w moves to l and no signaller moves.
Goes(w, l) == /\ wpc' = [wpc EXCEPT ![w] = l]
              /\ UNCHANGED <<spc, hand>>

Init == /\ count = Permits
        /\ nwait = 0
        /\ queue = <<>>
        /\ killed = FALSE
        /\ wpc = [w \in Waiter |-> "idle"]
        /\ spc = [s \in Signaller |-> "idle"]
        /\ hand = [s \in Signaller |-> {}]

----------------------------------------------------------------------------
(* wait *)

WaitCall(w) == /\ wpc[w] = "idle"
               /\ Goes(w, "spin")
               /\ UNCHANGED <<count, nwait, queue, killed>>

\* One of the MAX_SPIN calls of try_wait() succeeds and wait() returns.
SpinTake(w) == /\ wpc[w] = "spin"
               /\ count > 0
               /\ count' = count - 1
               /\ Goes(w, "idle")
               /\ UNCHANGED <<nwait, queue, killed>>

\* The last of them finds no permit (the earlier ones change nothing).
SpinFail(w) == /\ wpc[w] = "spin"
               /\ count = 0
               /\ Goes(w, "lock")
               /\ UNCHANGED <<count, nwait, queue, killed>>

\* Under the lock: a killed semaphore lets wait() return.
WaitKilled(w) == /\ wpc[w] = "lock"
                 /\ LockFree
                 /\ killed
                 /\ Goes(w, "idle")
                 /\ UNCHANGED <<count, nwait, queue, killed>>

\* Bug: the killed flag is not looked at.
WaitRegisterKilled(w) == /\ wpc[w] = "lock"
                         /\ LockFree
                         /\ nwait' = nwait + 1
                         /\ Goes(w, "recheck")
                         /\ UNCHANGED <<count, queue, killed>>

\* Under the lock: announce the wait, so that a signal() from now on comes
\* for the lock.
WaitRegister(w) == /\ wpc[w] = "lock"
                   /\ LockFree
                   /\ ~killed
                   /\ nwait' = nwait + 1
                   /\ Goes(w, "recheck")
                   /\ UNCHANGED <<count, queue, killed>>

\* The second look at count finds a permit: withdraw and return.
RecheckTake(w) == /\ wpc[w] = "recheck"
                  /\ count > 0
                  /\ count' = count - 1
                  /\ nwait' = nwait - 1
                  /\ Goes(w, "idle")
                  /\ UNCHANGED <<queue, killed>>

\* Bug: the second look at count is left out.
RecheckFailBlind(w) == /\ wpc[w] = "recheck"
                       /\ Goes(w, "enqueue")
                       /\ UNCHANGED <<count, nwait, queue, killed>>

RecheckFail(w) == /\ wpc[w] = "recheck"
                  /\ count = 0
                  /\ Goes(w, "enqueue")
                  /\ UNCHANGED <<count, nwait, queue, killed>>

\* Push at the head (lifo, umutex's second wait) or at the tail, unlock and
\* suspend.
Enqueue(w, lifo) == /\ wpc[w] = "enqueue"
                    /\ queue' = IF lifo THEN <<w>> \o queue ELSE Append(queue, w)
                    /\ Goes(w, "parked")
                    /\ UNCHANGED <<count, nwait, killed>>

\* usema::try_wait by a coroutine that is not waiting.
TryWait(w) == /\ wpc[w] = "idle"
              /\ count > 0
              /\ count' = count - 1
              /\ UNCHANGED <<nwait, queue, killed, wpc, spc, hand>>

----------------------------------------------------------------------------
(* signal *)

SigPublish(s) == /\ spc[s] = "idle"
                 /\ count < MaxCount
                 /\ count' = count + 1
                 /\ spc' = [spc EXCEPT ![s] = "check"]
                 /\ UNCHANGED <<nwait, queue, killed, wpc, hand>>

\* Bug: the fast path looks at the queue instead of nwait.
SigCheckQueue(s) == /\ spc[s] = "check"
                    /\ spc' = [spc EXCEPT ![s] = IF queue = <<>> THEN "idle" ELSE "lock"]
                    /\ UNCHANGED <<count, nwait, queue, killed, wpc, hand>>

\* The unlocked read of nwait: nobody waits, done; else come for the lock.
SigCheck(s) == /\ spc[s] = "check"
               /\ spc' = [spc EXCEPT ![s] = IF nwait = 0 THEN "idle" ELSE "lock"]
               /\ UNCHANGED <<count, nwait, queue, killed, wpc, hand>>

\* Under the lock nobody waits any more, or nobody is queued yet.
SigNobody(s) == /\ spc[s] = "lock"
                /\ LockFree
                /\ nwait = 0 \/ queue = <<>>
                /\ spc' = [spc EXCEPT ![s] = "idle"]
                /\ UNCHANGED <<count, nwait, queue, killed, wpc, hand>>

\* Bug: --nwait is left out.
SigPopKeepsNwait(s) == /\ spc[s] = "lock"
                       /\ LockFree
                       /\ nwait > 0 /\ queue # <<>>
                       /\ hand' = [hand EXCEPT ![s] = {Head(queue)}]
                       /\ queue' = Tail(queue)
                       /\ spc' = [spc EXCEPT ![s] = "push"]
                       /\ UNCHANGED <<count, nwait, killed, wpc>>

\* Bug: the head is read and stays queued.
SigPopPeeks(s) == /\ spc[s] = "lock"
                  /\ LockFree
                  /\ nwait > 0 /\ queue # <<>>
                  /\ hand' = [hand EXCEPT ![s] = {Head(queue)}]
                  /\ nwait' = nwait - 1
                  /\ spc' = [spc EXCEPT ![s] = "push"]
                  /\ UNCHANGED <<count, queue, killed, wpc>>

SigPop(s) == /\ spc[s] = "lock"
             /\ LockFree
             /\ nwait > 0 /\ queue # <<>>
             /\ hand' = [hand EXCEPT ![s] = {Head(queue)}]
             /\ queue' = Tail(queue)
             /\ nwait' = nwait - 1
             /\ spc' = [spc EXCEPT ![s] = "push"]
             /\ UNCHANGED <<count, killed, wpc>>

\* push_sync_node_to_thread: the coroutine resumes at its retry label.
Push(s, w) == /\ spc[s] = "push"
              /\ w \in hand[s]
              /\ hand' = [hand EXCEPT ![s] = @ \ {w}]
              /\ wpc' = [wpc EXCEPT ![w] = "spin"]
              /\ UNCHANGED <<count, nwait, queue, killed, spc>>

PushDone(s) == /\ spc[s] = "push"
               /\ hand[s] = {}
               /\ spc' = [spc EXCEPT ![s] = "idle"]
               /\ UNCHANGED <<count, nwait, queue, killed, wpc, hand>>

----------------------------------------------------------------------------
(* kill_broadcast: its caller calls it once, the code terminates otherwise *)

Kill(s) == /\ spc[s] = "idle"
           /\ LockFree
           /\ ~killed
           /\ killed' = TRUE
           /\ nwait' = 0
           /\ hand' = [hand EXCEPT ![s] = Range(queue)]
           /\ queue' = <<>>
           /\ spc' = [spc EXCEPT ![s] = "push"]
           /\ UNCHANGED <<count, wpc>>

----------------------------------------------------------------------------
WaitStep(w) == \/ SpinTake(w) \/ SpinFail(w)
               \/ WaitKilled(w) \/ WaitRegister(w)
               \/ RecheckTake(w) \/ RecheckFail(w)
               \/ \E lifo \in BOOLEAN : Enqueue(w, lifo)

SignalStep(s) == \/ SigCheck(s) \/ SigNobody(s) \/ SigPop(s)
                 \/ \E w \in Waiter : Push(s, w)
                 \/ PushDone(s)

Next == \/ \E w \in Waiter : WaitCall(w) \/ WaitStep(w) \/ TryWait(w)
        \/ \E s \in Signaller : SigPublish(s) \/ SignalStep(s) \/ Kill(s)

(***************************************************************************)
(* A coroutine inside wait() that is not parked runs on a thread of the    *)
(* operating system, and so does an actor inside signal(): each takes its  *)
(* next step eventually.  Nothing makes anybody call wait() or signal().   *)
(***************************************************************************)
Fairness == /\ \A w \in Waiter : WF_vars(WaitStep(w))
            /\ \A s \in Signaller : WF_vars(SignalStep(s))

Spec == Init /\ [][Next]_vars /\ Fairness

----------------------------------------------------------------------------
TypeOK == /\ count \in Nat
          /\ nwait \in Nat
          /\ queue \in Seq(Waiter)
          /\ killed \in BOOLEAN
          /\ wpc \in [Waiter -> {"idle", "spin", "lock", "recheck", "enqueue", "parked"}]
          /\ spc \in [Signaller -> {"idle", "check", "lock", "push"}]
          /\ hand \in [Signaller -> SUBSET Waiter]

(***************************************************************************)
(* Every suspended coroutine is in exactly one place: once in the queue,   *)
(* or in the hand of one signaller.  A coroutine in two places would be    *)
(* resumed twice, one in none never again; push_sync_node_to_thread        *)
(* relies on owning the node's next pointer.                               *)
(***************************************************************************)
OneOwner ==
  /\ \A i, j \in 1..Len(queue) : queue[i] = queue[j] => i = j
  /\ \A s \in Signaller : hand[s] \cap Range(queue) = {}
  /\ \A s, t \in Signaller : s # t => hand[s] \cap hand[t] = {}
  /\ \A w \in Waiter : wpc[w] = "parked" <=>
        w \in Range(queue) \/ \E s \in Signaller : w \in hand[s]

(***************************************************************************)
(* nwait, which signal() reads without the lock, is the number of          *)
(* coroutines queued or about to be: signal() never skips the lock while   *)
(* somebody is parked, and the unsigned counter never wraps below zero.    *)
(***************************************************************************)
NwaitCounts == nwait = Len(queue) + Cardinality(Holders)

\* Nobody parks on a killed semaphore: kill_broadcast is the last waker.
KilledQueueEmpty == killed => queue = <<>> /\ Holders = {}

InFlight == {s \in Signaller : spc[s] \in {"check", "lock"}}
Contenders == {w \in Waiter : \/ wpc[w] \in {"spin", "lock", "recheck"}
                              \/ \E s \in Signaller : w \in hand[s]}

(***************************************************************************)
(* No lost wakeup: while a coroutine is queued (or committed to queueing), *)
(* every permit is covered by a signal() that will still come for the      *)
(* queue or by a coroutine that will look at count again.                  *)
(***************************************************************************)
NoLostWakeup ==
  queue # <<>> \/ (\E w \in Waiter : wpc[w] = "enqueue")
    => count <= Cardinality(InFlight) + Cardinality(Contenders)

(***************************************************************************)
(* After kill_broadcast every wait() that has begun returns.               *)
(***************************************************************************)
KilledWaitsReturn ==
  \A w \in Waiter : killed /\ wpc[w] # "idle" ~> wpc[w] = "idle"

\* wait() is pending from its call to its return.
Pending == {w \in Waiter : wpc[w] # "idle"}

Abs == INSTANCE Semaphore WITH permits <- count, pending <- Pending

(***************************************************************************)
(* usema is a counting semaphore: it implements Semaphore, its progress    *)
(* included (a permit and a pending wait() never stay side by side).       *)
(***************************************************************************)
ImplementsSemaphore == Abs!Spec
==============================================================================
