----------------------------- MODULE UsemaProofs -----------------------------
(***************************************************************************)
(* Proofs about Usema for any finite sets of waiters and signallers, any   *)
(* initial count and any bound.                                            *)
(***************************************************************************)
EXTENDS Usema, Counting

----------------------------------------------------------------------------
(* The inductive invariant *)

\* A signaller holds popped coroutines only until it has pushed them.
HandInPush == \A s \in Signaller : hand[s] # {} => spc[s] = "push"

\* The spin lock excludes: one waiter at most is between lock and unlock.
OneHolder == \A v, w \in Waiter : v \in Holders /\ w \in Holders => v = w

IInv == /\ TypeOK
        /\ OneOwner
        /\ HandInPush
        /\ OneHolder
        /\ NwaitCounts
        /\ KilledQueueEmpty
        /\ NoLostWakeup

\* The sets the invariants count are finite.
LEMMA Finite ==
  /\ IsFiniteSet(Holders) /\ Cardinality(Holders) \in Nat
  /\ IsFiniteSet(InFlight) /\ Cardinality(InFlight) \in Nat
  /\ IsFiniteSet(Contenders) /\ Cardinality(Contenders) \in Nat
<1>1. Holders \in SUBSET Waiter /\ Contenders \in SUBSET Waiter /\ InFlight \in SUBSET Signaller
  BY DEF Holders, Contenders, InFlight
<1>2. IsFiniteSet(Holders) /\ IsFiniteSet(InFlight) /\ IsFiniteSet(Contenders)
  BY <1>1, FiniteActors, FS_Subset
<1> QED  BY <1>2, FS_CardinalityType

\* A waiter between ++nwait and --nwait is counted.
LEMMA RecheckCounted ==
  ASSUME TypeOK, NwaitCounts, NEW w \in Waiter, wpc[w] = "recheck"
  PROVE  nwait > 0
<1>1. Holders # {}
  BY DEF Holders
<1>2. Cardinality(Holders) # 0
  BY <1>1, Finite, FS_EmptySet
<1>3. Len(queue) \in Nat
  BY RangeEmpty DEF TypeOK
<1> QED  BY <1>2, <1>3, Finite DEF NwaitCounts, TypeOK

\* An initial state satisfies the invariant: nobody waits, nobody is in a hand.
LEMMA InvInit == Init => IInv
<1> SUFFICES ASSUME Init PROVE IInv
  OBVIOUS
<1>1. TypeOK
  <2>1. <<>> \in Seq(Waiter)
    OBVIOUS
  <2>2. count \in Nat /\ nwait \in Nat
    BY PermitsNat DEF Init
  <2> QED  BY <2>1, <2>2 DEF Init, TypeOK
<1>2. Holders = {} /\ queue = <<>> /\ Range(queue) = {} /\ Len(queue) = 0
  BY <1>1, RangeEmpty DEF Init, Holders, TypeOK
<1>3. OneOwner
  BY <1>2 DEF Init, OneOwner
<1>4. HandInPush
  BY DEF Init, HandInPush
<1>5. OneHolder /\ KilledQueueEmpty
  BY <1>2 DEF OneHolder, KilledQueueEmpty
<1>6. NwaitCounts
  BY <1>2, FS_EmptySet DEF Init, NwaitCounts
<1>7. NoLostWakeup
  BY <1>2 DEF Init, NoLostWakeup
<1> QED  BY <1>1, <1>3, <1>4, <1>5, <1>6, <1>7 DEF IInv

----------------------------------------------------------------------------
(* Type correctness *)

\* Every step of usema keeps the types; the lower bounds on count and nwait
\* come from the guards and, in RecheckTake, from NwaitCounts.
LEMMA TypeStep ==
  ASSUME IInv, [Next]_vars
  PROVE  TypeOK'
<1>0. TypeOK /\ \A w \in Waiter : wpc[w] = "recheck" => nwait > 0
  BY RecheckCounted DEF IInv
<1> USE <1>0 DEF TypeOK, Goes
<1>1. ASSUME NEW w \in Waiter, WaitCall(w) PROVE TypeOK'
  BY <1>1 DEF WaitCall
<1>2. ASSUME NEW w \in Waiter, SpinTake(w) PROVE TypeOK'
  BY <1>2 DEF SpinTake
<1>3. ASSUME NEW w \in Waiter, SpinFail(w) PROVE TypeOK'
  BY <1>3 DEF SpinFail
<1>4. ASSUME NEW w \in Waiter, WaitKilled(w) PROVE TypeOK'
  BY <1>4 DEF WaitKilled
<1>5. ASSUME NEW w \in Waiter, WaitRegister(w) PROVE TypeOK'
  BY <1>5 DEF WaitRegister
<1>6. ASSUME NEW w \in Waiter, RecheckTake(w) PROVE TypeOK'
  BY <1>6 DEF RecheckTake
<1>7. ASSUME NEW w \in Waiter, RecheckFail(w) PROVE TypeOK'
  BY <1>7 DEF RecheckFail
<1>8. ASSUME NEW w \in Waiter, NEW lifo \in BOOLEAN, Enqueue(w, lifo) PROVE TypeOK'
  <2>1. queue' \in Seq(Waiter)
    BY <1>8, RangeAppend, RangeCons DEF Enqueue
  <2> QED  BY <1>8, <2>1 DEF Enqueue
<1>9. ASSUME NEW w \in Waiter, TryWait(w) PROVE TypeOK'
  BY <1>9 DEF TryWait
<1>10. ASSUME NEW s \in Signaller, SigPublish(s) PROVE TypeOK'
  BY <1>10 DEF SigPublish
<1>11. ASSUME NEW s \in Signaller, SigCheck(s) PROVE TypeOK'
  BY <1>11 DEF SigCheck
<1>12. ASSUME NEW s \in Signaller, SigNobody(s) PROVE TypeOK'
  BY <1>12 DEF SigNobody
<1>13. ASSUME NEW s \in Signaller, SigPop(s) PROVE TypeOK'
  BY <1>13 DEF SigPop
<1>14. ASSUME NEW s \in Signaller, NEW w \in Waiter, Push(s, w) PROVE TypeOK'
  BY <1>14 DEF Push
<1>15. ASSUME NEW s \in Signaller, PushDone(s) PROVE TypeOK'
  BY <1>15 DEF PushDone
<1>16. ASSUME NEW s \in Signaller, Kill(s) PROVE TypeOK'
  <2>1. Range(queue) \subseteq Waiter
    BY RangeEmpty
  <2>2. queue' \in Seq(Waiter)
    BY <1>16 DEF Kill
  <2> QED  BY <1>16, <2>1, <2>2 DEF Kill
<1>17. CASE UNCHANGED vars
  BY <1>17 DEF vars
<1> HIDE DEF TypeOK, Goes
<1> QED
  BY <1>1, <1>2, <1>3, <1>4, <1>5, <1>6, <1>7, <1>8, <1>9, <1>10, <1>11, <1>12,
     <1>13, <1>14, <1>15, <1>16, <1>17 DEF Next, WaitStep, SignalStep

----------------------------------------------------------------------------
(* Ownership of suspended coroutines *)

\* A step that moves nobody in or out of "parked" and leaves the queue and
\* the hands alone keeps OneOwner and HandInPush.
LEMMA OwnerFrame ==
  ASSUME IInv, UNCHANGED <<queue, hand>>,
         \A w \in Waiter : wpc'[w] = "parked" <=> wpc[w] = "parked",
         \A s \in Signaller : spc[s] = "push" => spc'[s] = "push"
  PROVE  OneOwner' /\ HandInPush'
BY DEF IInv, OneOwner, HandInPush

\* No step of usema leaves a coroutine in two places or in none.
LEMMA OwnerStep ==
  ASSUME IInv, [Next]_vars
  PROVE  OneOwner' /\ HandInPush'
<1>0. TypeOK /\ OneOwner /\ HandInPush
  BY DEF IInv
<1>a. /\ queue \in Seq(Waiter) /\ NoDup(queue)
      /\ wpc \in [Waiter -> {"idle", "spin", "lock", "recheck", "enqueue", "parked"}]
      /\ spc \in [Signaller -> {"idle", "check", "lock", "push"}]
      /\ hand \in [Signaller -> SUBSET Waiter]
  BY <1>0 DEF TypeOK, OneOwner, NoDup
<1>1. ASSUME NEW w \in Waiter,
             WaitCall(w) \/ SpinTake(w) \/ SpinFail(w) \/ WaitKilled(w)
               \/ WaitRegister(w) \/ RecheckTake(w) \/ RecheckFail(w) \/ TryWait(w)
      PROVE  OneOwner' /\ HandInPush'
  <2>1. /\ UNCHANGED <<queue, hand, spc>>
        /\ \A v \in Waiter : wpc'[v] = "parked" <=> wpc[v] = "parked"
    BY <1>1, <1>a DEF WaitCall, SpinTake, SpinFail, WaitKilled, WaitRegister,
                      RecheckTake, RecheckFail, TryWait, Goes
  <2> QED  BY <2>1, OwnerFrame
<1>2. ASSUME NEW w \in Waiter, NEW lifo \in BOOLEAN, Enqueue(w, lifo)
      PROVE  OneOwner' /\ HandInPush'
  <2>1. w \notin Range(queue) /\ \A s \in Signaller : w \notin hand[s]
    BY <1>0, <1>2 DEF OneOwner, Enqueue
  <2>2. NoDup(queue') /\ Range(queue') = Range(queue) \cup {w}
    BY <1>a, <1>2, <2>1, RangeAppend, RangeCons DEF Enqueue
  <2>3. /\ UNCHANGED <<hand, spc>>
        /\ \A v \in Waiter : wpc'[v] = "parked" <=> wpc[v] = "parked" \/ v = w
    BY <1>a, <1>2 DEF Enqueue, Goes
  <2>4. HandInPush'
    BY <1>0, <2>3 DEF HandInPush
  <2>5. OneOwner'
    BY <1>0, <2>1, <2>2, <2>3 DEF OneOwner, NoDup
  <2> QED  BY <2>4, <2>5
<1>3. ASSUME NEW s \in Signaller,
             SigPublish(s) \/ SigCheck(s) \/ SigNobody(s)
      PROVE  OneOwner' /\ HandInPush'
  <2>1. /\ UNCHANGED <<queue, hand, wpc>>
        /\ \A t \in Signaller : spc[t] = "push" => spc'[t] = "push"
    BY <1>3, <1>a DEF SigPublish, SigCheck, SigNobody
  <2> QED  BY <2>1, OwnerFrame
<1>4. ASSUME NEW s \in Signaller, SigPop(s)
      PROVE  OneOwner' /\ HandInPush'
  <2>1. /\ NoDup(queue') /\ Range(queue') = Range(queue) \ {Head(queue)}
        /\ Head(queue) \in Range(queue)
    BY <1>a, <1>4, RangeTail DEF SigPop
  <2>2. hand[s] = {}
    BY <1>0, <1>4 DEF SigPop, HandInPush
  <2>3. /\ UNCHANGED wpc
        /\ hand'[s] = {Head(queue)} /\ spc'[s] = "push"
        /\ \A t \in Signaller : t # s => hand'[t] = hand[t] /\ spc'[t] = spc[t]
    BY <1>a, <1>4 DEF SigPop
  <2>4. HandInPush'
    BY <1>0, <2>3 DEF HandInPush
  <2>5. OneOwner'
    <3>1. \A t \in Signaller : Head(queue) \notin hand[t]
      BY <1>0, <2>1 DEF OneOwner
    <3>2. \A v \in Waiter : \/ v \in Range(queue)
                            \/ \E t \in Signaller : v \in hand[t]
                        <=> \/ v \in Range(queue')
                            \/ \E t \in Signaller : v \in hand'[t]
      BY <2>1, <2>2, <2>3
    <3>3. \A t \in Signaller : hand'[t] \cap Range(queue') = {}
      BY <1>0, <2>1, <2>3 DEF OneOwner
    <3>4. \A t, u \in Signaller : t # u => hand'[t] \cap hand'[u] = {}
      BY <1>0, <2>3, <3>1 DEF OneOwner
    <3> QED  BY <1>0, <2>1, <2>3, <3>2, <3>3, <3>4 DEF OneOwner, NoDup
  <2> QED  BY <2>4, <2>5
<1>5. ASSUME NEW s \in Signaller, NEW w \in Waiter, Push(s, w)
      PROVE  OneOwner' /\ HandInPush'
  <2>1. /\ UNCHANGED <<queue, spc>>
        /\ w \in hand[s]
        /\ hand'[s] = hand[s] \ {w}
        /\ \A t \in Signaller : t # s => hand'[t] = hand[t]
        /\ \A v \in Waiter : wpc'[v] = "parked" <=> wpc[v] = "parked" /\ v # w
    BY <1>a, <1>5 DEF Push
  <2>2. w \notin Range(queue) /\ \A t \in Signaller : t # s => w \notin hand[t]
    BY <1>0, <2>1 DEF OneOwner
  <2>3. HandInPush'
    BY <1>0, <2>1 DEF HandInPush
  <2>4. OneOwner'
    BY <1>0, <2>1, <2>2 DEF OneOwner
  <2> QED  BY <2>3, <2>4
<1>6. ASSUME NEW s \in Signaller, PushDone(s)
      PROVE  OneOwner' /\ HandInPush'
  <2>1. UNCHANGED <<queue, hand, wpc>>
    BY <1>6 DEF PushDone
  <2>2. HandInPush'
    BY <1>0, <1>a, <1>6 DEF HandInPush, PushDone
  <2> QED  BY <1>0, <2>1, <2>2 DEF OneOwner
<1>7. ASSUME NEW s \in Signaller, Kill(s)
      PROVE  OneOwner' /\ HandInPush'
  <2>1. hand[s] = {}
    BY <1>0, <1>7 DEF Kill, HandInPush
  <2>2. /\ queue' = <<>> /\ UNCHANGED wpc
        /\ hand'[s] = Range(queue) /\ spc'[s] = "push"
        /\ \A t \in Signaller : t # s => hand'[t] = hand[t] /\ spc'[t] = spc[t]
    BY <1>a, <1>7 DEF Kill
  <2>3. Range(queue') = {} /\ Len(queue') = 0
    <3>1. queue' \in Seq(Waiter)
      BY <2>2
    <3> QED  BY <2>2, <3>1, RangeEmpty
  <2>4. HandInPush'
    BY <1>0, <2>2 DEF HandInPush
  <2>5. OneOwner'
    BY <1>0, <2>1, <2>2, <2>3 DEF OneOwner
  <2> QED  BY <2>4, <2>5
<1>8. CASE UNCHANGED vars
  BY <1>0, <1>8 DEF vars, OneOwner, HandInPush
<1> QED
  BY <1>1, <1>2, <1>3, <1>4, <1>5, <1>6, <1>7, <1>8 DEF Next, WaitStep, SignalStep

----------------------------------------------------------------------------
(* The spin lock and nwait *)

\* A step that leaves the lock's holder, the queue and the flag alone.
LEMMA LockFrame ==
  ASSUME IInv, UNCHANGED <<queue, nwait, killed>>, Holders' = Holders
  PROVE  OneHolder' /\ NwaitCounts' /\ KilledQueueEmpty'
BY DEF IInv, OneHolder, NwaitCounts, KilledQueueEmpty

\* nwait keeps step with the queue, and nobody registers once killed.
LEMMA LockStep ==
  ASSUME IInv, [Next]_vars
  PROVE  OneHolder' /\ NwaitCounts' /\ KilledQueueEmpty'
<1>0. TypeOK /\ OneOwner /\ OneHolder /\ NwaitCounts /\ KilledQueueEmpty
  BY DEF IInv
<1>a. /\ queue \in Seq(Waiter) /\ NoDup(queue)
      /\ Len(queue) \in Nat /\ nwait \in Nat
      /\ wpc \in [Waiter -> {"idle", "spin", "lock", "recheck", "enqueue", "parked"}]
      /\ spc \in [Signaller -> {"idle", "check", "lock", "push"}]
      /\ hand \in [Signaller -> SUBSET Waiter]
  BY <1>0 DEF TypeOK, OneOwner, NoDup
<1>1. ASSUME NEW w \in Waiter,
             WaitCall(w) \/ SpinTake(w) \/ SpinFail(w) \/ WaitKilled(w)
               \/ RecheckFail(w) \/ TryWait(w)
      PROVE  OneHolder' /\ NwaitCounts' /\ KilledQueueEmpty'
  <2>1. UNCHANGED <<queue, nwait, killed>> /\ Holders' = Holders
    BY <1>1, <1>a DEF WaitCall, SpinTake, SpinFail, WaitKilled, RecheckFail,
                      TryWait, Goes, Holders
  <2> QED  BY <2>1, LockFrame
<1>2. ASSUME NEW w \in Waiter, WaitRegister(w)
      PROVE  OneHolder' /\ NwaitCounts' /\ KilledQueueEmpty'
  <2>1. /\ Holders = {} /\ Holders' = {w} /\ ~killed
        /\ UNCHANGED <<queue, killed>> /\ nwait' = nwait + 1
    BY <1>2, <1>a DEF WaitRegister, Goes, Holders, LockFree
  <2>2. Cardinality(Holders) = 0 /\ Cardinality(Holders') = 1
    BY <2>1, FS_EmptySet, FS_Singleton
  <2>3. NwaitCounts'
    <3>1. nwait' = nwait + 1 /\ queue' = queue
      BY <2>1
    <3> QED  BY <1>0, <1>a, <2>2, <3>1 DEF NwaitCounts
  <2>4. OneHolder' /\ KilledQueueEmpty'
    BY <2>1 DEF OneHolder, KilledQueueEmpty
  <2> QED  BY <2>3, <2>4
<1>3. ASSUME NEW w \in Waiter, RecheckTake(w)
      PROVE  OneHolder' /\ NwaitCounts' /\ KilledQueueEmpty'
  <2>1. /\ Holders = {w} /\ Holders' = {}
        /\ UNCHANGED <<queue, killed>> /\ nwait' = nwait - 1
    BY <1>3, <1>0, <1>a DEF RecheckTake, Goes, Holders, OneHolder
  <2>2. Cardinality(Holders) = 1 /\ Cardinality(Holders') = 0
    BY <2>1, FS_EmptySet, FS_Singleton
  <2>3. NwaitCounts'
    <3>1. nwait' = nwait - 1 /\ queue' = queue
      BY <2>1
    <3> QED  BY <1>0, <1>a, <2>2, <3>1 DEF NwaitCounts
  <2>4. OneHolder' /\ KilledQueueEmpty'
    BY <1>0, <2>1 DEF OneHolder, KilledQueueEmpty
  <2> QED  BY <2>3, <2>4
<1>4. ASSUME NEW w \in Waiter, NEW lifo \in BOOLEAN, Enqueue(w, lifo)
      PROVE  OneHolder' /\ NwaitCounts' /\ KilledQueueEmpty'
  <2>1. /\ Holders = {w} /\ Holders' = {}
        /\ UNCHANGED <<nwait, killed>>
    BY <1>4, <1>0, <1>a DEF Enqueue, Goes, Holders, OneHolder
  <2>2. Cardinality(Holders) = 1 /\ Cardinality(Holders') = 0
    BY <2>1, FS_EmptySet, FS_Singleton
  <2>3. Len(queue') = Len(queue) + 1
    BY <1>4, <1>a, RangeAppend, RangeCons DEF Enqueue
  <2>4. NwaitCounts'
    <3>1. nwait' = nwait
      BY <2>1
    <3> QED  BY <1>0, <1>a, <2>2, <2>3, <3>1 DEF NwaitCounts
  <2>5. OneHolder' /\ KilledQueueEmpty'
    BY <1>0, <2>1 DEF OneHolder, KilledQueueEmpty
  <2> QED  BY <2>4, <2>5
<1>5. ASSUME NEW s \in Signaller, SigPublish(s) \/ SigCheck(s) \/ SigNobody(s) \/ PushDone(s)
      PROVE  OneHolder' /\ NwaitCounts' /\ KilledQueueEmpty'
  <2>1. UNCHANGED <<queue, nwait, killed>> /\ Holders' = Holders
    BY <1>5 DEF SigPublish, SigCheck, SigNobody, PushDone, Holders
  <2> QED  BY <2>1, LockFrame
<1>6. ASSUME NEW s \in Signaller, SigPop(s)
      PROVE  OneHolder' /\ NwaitCounts' /\ KilledQueueEmpty'
  <2>1. /\ Holders' = Holders /\ UNCHANGED killed /\ nwait' = nwait - 1
        /\ queue # <<>>
    BY <1>6 DEF SigPop, Holders
  <2>2. Len(queue') = Len(queue) - 1
    BY <1>6, <1>a, RangeTail DEF SigPop
  <2>3. NwaitCounts'
    BY <1>0, <1>a, <2>1, <2>2, Finite DEF NwaitCounts
  <2>4. OneHolder' /\ KilledQueueEmpty'
    BY <1>0, <2>1 DEF OneHolder, KilledQueueEmpty
  <2> QED  BY <2>3, <2>4
<1>7. ASSUME NEW s \in Signaller, NEW w \in Waiter, Push(s, w)
      PROVE  OneHolder' /\ NwaitCounts' /\ KilledQueueEmpty'
  <2>1. wpc[w] = "parked"
    BY <1>7, <1>0 DEF Push, OneOwner
  <2>2. UNCHANGED <<queue, nwait, killed>> /\ Holders' = Holders
    BY <1>7, <1>a, <2>1 DEF Push, Holders
  <2> QED  BY <2>2, LockFrame
<1>8. ASSUME NEW s \in Signaller, Kill(s)
      PROVE  OneHolder' /\ NwaitCounts' /\ KilledQueueEmpty'
  <2>1. Holders = {} /\ Holders' = {} /\ queue' = <<>> /\ nwait' = 0
    BY <1>8 DEF Kill, LockFree, Holders
  <2>2. Cardinality(Holders') = 0 /\ Len(queue') = 0
    BY <2>1, FS_EmptySet
  <2>3. NwaitCounts'
    BY <2>1, <2>2 DEF NwaitCounts
  <2>4. OneHolder' /\ KilledQueueEmpty'
    BY <2>1 DEF OneHolder, KilledQueueEmpty
  <2> QED  BY <2>3, <2>4
<1>9. CASE UNCHANGED vars
  <2>1. UNCHANGED <<queue, nwait, killed>> /\ Holders' = Holders
    BY <1>9 DEF vars, Holders
  <2> QED  BY <2>1, LockFrame
<1> QED
  BY <1>1, <1>2, <1>3, <1>4, <1>5, <1>6, <1>7, <1>8, <1>9 DEF Next, WaitStep, SignalStep

----------------------------------------------------------------------------
(* No lost wakeup *)

\* What NoLostWakeup asks while somebody is queued or committed to queueing.
Waiting == queue # <<>> \/ \E w \in Waiter : wpc[w] = "enqueue"
Covered == count <= Cardinality(InFlight) + Cardinality(Contenders)

\* A set with one more element.
LEMMA AddOne ==
  ASSUME NEW S, NEW x, IsFiniteSet(S), Cardinality(S) \in Nat
  PROVE  /\ Cardinality(S \cup {x}) \in Nat
         /\ Cardinality(S \cup {x}) >= Cardinality(S)
         /\ x \notin S => Cardinality(S \cup {x}) = Cardinality(S) + 1
BY FS_AddElement

\* A set with one element less.
LEMMA RemoveOne ==
  ASSUME NEW S, NEW x, IsFiniteSet(S), Cardinality(S) \in Nat
  PROVE  /\ Cardinality(S \ {x}) \in Nat
         /\ Cardinality(S \ {x}) >= Cardinality(S) - 1
<1>1. x \in S => Cardinality(S) # 0
  BY FS_EmptySet
<1> QED  BY <1>1, FS_RemoveElement

\* Every permit stays covered, or nobody is left to cover it for.
LEMMA LostStep ==
  ASSUME IInv, [Next]_vars
  PROVE  NoLostWakeup'
<1>0. TypeOK /\ OneOwner /\ HandInPush /\ OneHolder /\ NwaitCounts
        /\ KilledQueueEmpty /\ (Waiting => Covered)
  BY DEF IInv, NoLostWakeup, Waiting, Covered
<1>a. /\ queue \in Seq(Waiter) /\ NoDup(queue)
      /\ Len(queue) \in Nat /\ nwait \in Nat /\ count \in Nat
      /\ wpc \in [Waiter -> {"idle", "spin", "lock", "recheck", "enqueue", "parked"}]
      /\ spc \in [Signaller -> {"idle", "check", "lock", "push"}]
      /\ hand \in [Signaller -> SUBSET Waiter]
  BY <1>0 DEF TypeOK, OneOwner, NoDup
<1>f. /\ IsFiniteSet(InFlight) /\ Cardinality(InFlight) \in Nat
      /\ IsFiniteSet(Contenders) /\ Cardinality(Contenders) \in Nat
  BY Finite
<1> SUFFICES ASSUME Waiting' PROVE Covered'
  BY DEF NoLostWakeup, Waiting, Covered
<1>1. ASSUME NEW w \in Waiter, WaitCall(w) PROVE Covered'
  <2>1. /\ Waiting /\ count' = count /\ InFlight' = InFlight
        /\ Contenders' = Contenders \cup {w}
    BY <1>1, <1>a DEF WaitCall, Goes, Waiting, InFlight, Contenders
  <2>2. /\ Cardinality(Contenders') \in Nat
        /\ Cardinality(Contenders') >= Cardinality(Contenders)
    BY <1>f, <2>1, AddOne
  <2>3. Waiting /\ count' = count /\ InFlight' = InFlight
    BY <2>1
  <2> QED  BY <1>0, <1>a, <1>f, <2>2, <2>3 DEF Covered
<1>2. ASSUME NEW w \in Waiter, SpinTake(w) PROVE Covered'
  <2>1. /\ Waiting /\ count' = count - 1 /\ InFlight' = InFlight
        /\ Contenders' = Contenders \ {w}
    <3>1. \A s \in Signaller : w \notin hand[s]
      BY <1>0, <1>2 DEF SpinTake, OneOwner
    <3> QED  BY <1>2, <1>a, <3>1 DEF SpinTake, Goes, Waiting, InFlight, Contenders
  <2>2. /\ Cardinality(Contenders') \in Nat
        /\ Cardinality(Contenders') >= Cardinality(Contenders) - 1
    BY <1>f, <2>1, RemoveOne
  <2>3. Waiting /\ count' = count - 1 /\ InFlight' = InFlight
    BY <2>1
  <2> QED  BY <1>0, <1>a, <1>f, <2>2, <2>3 DEF Covered
<1>3. ASSUME NEW w \in Waiter, SpinFail(w) PROVE Covered'
  <2>1. Waiting /\ count' = count /\ InFlight' = InFlight /\ Contenders' = Contenders
    BY <1>3, <1>a DEF SpinFail, Goes, Waiting, InFlight, Contenders
  <2> QED  BY <1>0, <2>1 DEF Covered
<1>4. ASSUME NEW w \in Waiter, WaitKilled(w) PROVE Covered'
  <2>1. queue' = <<>> /\ \A v \in Waiter : wpc'[v] # "enqueue"
    BY <1>4, <1>0, <1>a DEF WaitKilled, Goes, KilledQueueEmpty, Holders
  <2> QED  BY <2>1 DEF Waiting
<1>5. ASSUME NEW w \in Waiter, WaitRegister(w) PROVE Covered'
  <2>1. Waiting /\ count' = count /\ InFlight' = InFlight /\ Contenders' = Contenders
    BY <1>5, <1>a DEF WaitRegister, Goes, Waiting, InFlight, Contenders
  <2> QED  BY <1>0, <2>1 DEF Covered
<1>6. ASSUME NEW w \in Waiter, RecheckTake(w) PROVE Covered'
  <2>1. /\ Waiting /\ count' = count - 1 /\ InFlight' = InFlight
        /\ Contenders' = Contenders \ {w}
    <3>1. \A s \in Signaller : w \notin hand[s]
      BY <1>0, <1>6 DEF RecheckTake, OneOwner
    <3> QED  BY <1>6, <1>a, <3>1 DEF RecheckTake, Goes, Waiting, InFlight, Contenders
  <2>2. /\ Cardinality(Contenders') \in Nat
        /\ Cardinality(Contenders') >= Cardinality(Contenders) - 1
    BY <1>f, <2>1, RemoveOne
  <2>3. Waiting /\ count' = count - 1 /\ InFlight' = InFlight
    BY <2>1
  <2> QED  BY <1>0, <1>a, <1>f, <2>2, <2>3 DEF Covered
<1>7. ASSUME NEW w \in Waiter, RecheckFail(w) PROVE Covered'
  <2>1. /\ count' = 0 /\ InFlight' = InFlight
        /\ Contenders' = Contenders \ {w}
    <3>1. \A s \in Signaller : w \notin hand[s]
      BY <1>0, <1>7 DEF RecheckFail, OneOwner
    <3> QED  BY <1>7, <1>a, <3>1 DEF RecheckFail, Goes, InFlight, Contenders
  <2>2. Cardinality(Contenders') \in Nat
    BY <1>f, <2>1, RemoveOne
  <2> QED  BY <1>f, <2>1, <2>2 DEF Covered
<1>8. ASSUME NEW w \in Waiter, NEW lifo \in BOOLEAN, Enqueue(w, lifo) PROVE Covered'
  <2>1. Waiting /\ count' = count /\ InFlight' = InFlight /\ Contenders' = Contenders
    BY <1>8, <1>a DEF Enqueue, Goes, Waiting, InFlight, Contenders
  <2> QED  BY <1>0, <2>1 DEF Covered
<1>9. ASSUME NEW w \in Waiter, TryWait(w) PROVE Covered'
  <2>1. Waiting /\ count' = count - 1 /\ InFlight' = InFlight /\ Contenders' = Contenders
    BY <1>9 DEF TryWait, Waiting, InFlight, Contenders
  <2> QED  BY <1>0, <1>a, <1>f, <2>1 DEF Covered
<1>10. ASSUME NEW s \in Signaller, SigPublish(s) PROVE Covered'
  <2>1. /\ Waiting /\ count' = count + 1 /\ Contenders' = Contenders
        /\ InFlight' = InFlight \cup {s} /\ s \notin InFlight
    BY <1>10, <1>a DEF SigPublish, Waiting, InFlight, Contenders
  <2>2. Cardinality(InFlight') = Cardinality(InFlight) + 1
    BY <1>f, <2>1, AddOne
  <2>3. Waiting /\ count' = count + 1 /\ Contenders' = Contenders
    BY <2>1
  <2> QED  BY <1>0, <1>a, <1>f, <2>2, <2>3 DEF Covered
<1>11. ASSUME NEW s \in Signaller, SigCheck(s) PROVE Covered'
  <2>1. Waiting /\ count' = count /\ Contenders' = Contenders
    BY <1>11 DEF SigCheck, Waiting, Contenders
  <2>2. Len(queue) # 0 \/ Holders # {}
    BY <1>a, <2>1 DEF Waiting, Holders
  <2>3. nwait # 0
    BY <1>0, <1>a, <2>2, Finite, FS_EmptySet DEF NwaitCounts
  <2>4. InFlight' = InFlight
    BY <1>11, <1>a, <2>3 DEF SigCheck, InFlight
  <2> QED  BY <1>0, <2>1, <2>4 DEF Covered
<1>12. ASSUME NEW s \in Signaller, SigNobody(s) PROVE Covered'
  <2>1. Waiting /\ Holders = {}
    BY <1>12 DEF SigNobody, Waiting, LockFree
  <2>2. queue # <<>>
    BY <2>1 DEF Waiting, Holders
  <2>3. Len(queue) # 0
    BY <1>a, <2>2
  <2>4. nwait # 0
    BY <1>0, <1>a, <2>3, Finite DEF NwaitCounts
  <2> QED  BY <1>12, <2>2, <2>4 DEF SigNobody
<1>13. ASSUME NEW s \in Signaller, SigPop(s) PROVE Covered'
  <2> DEFINE h == Head(queue)
  <2>1. h \in Waiter /\ h \in Range(queue) /\ queue # <<>>
    BY <1>a, <1>13, RangeTail DEF SigPop
  <2>2. hand[s] = {} /\ h \notin Contenders
    BY <1>0, <1>13, <2>1 DEF SigPop, OneOwner, HandInPush, Contenders
  <2> HIDE DEF h
  <2>3. /\ hand'[s] = {h} /\ \A t \in Signaller : t # s => hand'[t] = hand[t]
        /\ wpc' = wpc
    BY <1>a, <1>13 DEF SigPop, h
  <2>4. Contenders' = Contenders \cup {h}
    BY <2>1, <2>2, <2>3 DEF Contenders
  <2>5. InFlight' = InFlight \ {s} /\ count' = count /\ Waiting
    BY <1>a, <1>13, <2>1 DEF SigPop, InFlight, Waiting
  <2>6. Cardinality(Contenders') = Cardinality(Contenders) + 1
    BY <1>f, <2>2, <2>4, AddOne
  <2>7. /\ Cardinality(InFlight') \in Nat
        /\ Cardinality(InFlight') >= Cardinality(InFlight) - 1
    BY <1>f, <2>5, RemoveOne
  <2> QED  BY <1>0, <1>a, <1>f, <2>5, <2>6, <2>7 DEF Covered
<1>14. ASSUME NEW s \in Signaller, NEW w \in Waiter, Push(s, w) PROVE Covered'
  <2>1. /\ w \in hand[s] /\ hand'[s] = hand[s] \ {w}
        /\ \A t \in Signaller : t # s => hand'[t] = hand[t]
        /\ wpc[w] = "parked" /\ wpc'[w] = "spin"
        /\ \A v \in Waiter : v # w => wpc'[v] = wpc[v]
    BY <1>0, <1>a, <1>14 DEF Push, OneOwner
  <2>2. Contenders' = Contenders
    BY <2>1 DEF Contenders
  <2>3. InFlight' = InFlight /\ count' = count /\ Waiting
    BY <1>14, <2>1 DEF Push, InFlight, Waiting
  <2> QED  BY <1>0, <2>2, <2>3 DEF Covered
<1>15. ASSUME NEW s \in Signaller, PushDone(s) PROVE Covered'
  <2>1. Waiting /\ count' = count /\ InFlight' = InFlight /\ Contenders' = Contenders
    BY <1>15, <1>a DEF PushDone, Waiting, InFlight, Contenders
  <2> QED  BY <1>0, <2>1 DEF Covered
<1>16. ASSUME NEW s \in Signaller, Kill(s) PROVE Covered'
  <2>1. queue' = <<>> /\ \A v \in Waiter : wpc'[v] # "enqueue"
    BY <1>16 DEF Kill, LockFree, Holders
  <2> QED  BY <2>1 DEF Waiting
<1>17. CASE UNCHANGED vars
  <2>1. Waiting /\ count' = count /\ InFlight' = InFlight /\ Contenders' = Contenders
    BY <1>17 DEF vars, Waiting, InFlight, Contenders
  <2> QED  BY <1>0, <2>1 DEF Covered
<1> QED
  BY <1>1, <1>2, <1>3, <1>4, <1>5, <1>6, <1>7, <1>8, <1>9, <1>10, <1>11, <1>12,
     <1>13, <1>14, <1>15, <1>16, <1>17 DEF Next, WaitStep, SignalStep

----------------------------------------------------------------------------
(* Theorems *)

\* IInv holds in every state of usema.
THEOREM Invariance == Spec => []IInv
<1>1. Init => IInv
  BY InvInit
<1>2. IInv /\ [Next]_vars => IInv'
  <2> SUFFICES ASSUME IInv, [Next]_vars PROVE IInv'
    OBVIOUS
  <2>1. TypeOK'
    BY TypeStep
  <2>2. OneOwner' /\ HandInPush'
    BY OwnerStep
  <2>3. OneHolder' /\ NwaitCounts' /\ KilledQueueEmpty'
    BY LockStep
  <2>4. NoLostWakeup'
    BY LostStep
  <2> QED  BY <2>1, <2>2, <2>3, <2>4 DEF IInv
<1> QED  BY <1>1, <1>2, PTL DEF Spec

\* The unsigned counters count and nwait of usema_impl never go below zero,
\* and queue, flag and program counters keep their types.
THEOREM TypeCorrect == Spec => []TypeOK
<1>1. IInv => TypeOK
  BY DEF IInv
<1> QED  BY <1>1, Invariance, PTL

\* A suspended coroutine is always in exactly one place: signal() and
\* kill_broadcast() between them resume it once.
THEOREM SingleOwnership == Spec => []OneOwner
<1>1. IInv => OneOwner
  BY DEF IInv
<1> QED  BY <1>1, Invariance, PTL

\* The nwait that signal() reads without the lock is exact between the
\* critical sections of the spin lock.
THEOREM NwaitExact == Spec => []NwaitCounts
<1>1. IInv => NwaitCounts
  BY DEF IInv
<1> QED  BY <1>1, Invariance, PTL

\* No permit is ever left beside a parked coroutine with nobody on the way:
\* the store-then-load handshake of ++count / nwait in signal() and
\* ++nwait / count in wait() loses no wakeup, however many take part.
THEOREM WakeupsKept == Spec => []NoLostWakeup
<1>1. IInv => NoLostWakeup
  BY DEF IInv
<1> QED  BY <1>1, Invariance, PTL

----------------------------------------------------------------------------
(* The safety part of ImplementsSemaphore *)

\* Every step of usema is a step of the counting semaphore or invisible.
LEMMA RefinementStep ==
  ASSUME IInv, [Next]_vars
  PROVE  [Abs!Next]_(Abs!semaVars)
<1>0. /\ count \in Nat
      /\ wpc \in [Waiter -> {"idle", "spin", "lock", "recheck", "enqueue", "parked"}]
      /\ OneOwner
  BY DEF IInv, TypeOK
<1> DEFINE Invisible == count' = count /\ Pending' = Pending /\ killed' = killed
<1>a. Invisible => UNCHANGED Abs!semaVars
  BY DEF Abs!semaVars
<1>1. ASSUME NEW w \in Waiter, WaitCall(w) PROVE Abs!Next
  <2>1. Abs!Request(w)
    BY <1>0, <1>1 DEF WaitCall, Goes, Pending, Abs!Request
  <2> QED  BY <2>1 DEF Abs!Next
<1>2. ASSUME NEW w \in Waiter, SpinTake(w) \/ RecheckTake(w) PROVE Abs!Next
  <2>1. Abs!Take(w)
    BY <1>0, <1>2 DEF SpinTake, RecheckTake, Goes, Pending, Abs!Take
  <2> QED  BY <2>1 DEF Abs!Next, Abs!Serve
<1>3. ASSUME NEW w \in Waiter, WaitKilled(w) PROVE Abs!Next
  <2>1. Abs!Abandon(w)
    BY <1>0, <1>3 DEF WaitKilled, Goes, Pending, Abs!Abandon
  <2> QED  BY <2>1 DEF Abs!Next, Abs!Serve
<1>4. ASSUME NEW w \in Waiter,
             \/ SpinFail(w) \/ WaitRegister(w) \/ RecheckFail(w)
             \/ \E lifo \in BOOLEAN : Enqueue(w, lifo)
      PROVE  Invisible
  BY <1>0, <1>4 DEF SpinFail, WaitRegister, RecheckFail, Enqueue, Goes, Pending
<1>5. ASSUME NEW w \in Waiter, TryWait(w) PROVE Abs!Next
  <2>1. Abs!TryTake
    BY <1>5 DEF TryWait, Pending, Abs!TryTake
  <2> QED  BY <2>1 DEF Abs!Next
<1>6. ASSUME NEW s \in Signaller, SigPublish(s) PROVE Abs!Next
  <2>1. Abs!Release
    BY <1>6 DEF SigPublish, Pending, Abs!Release
  <2> QED  BY <2>1 DEF Abs!Next
<1>7. ASSUME NEW s \in Signaller, Kill(s) PROVE Abs!Next
  <2>1. Abs!Kill
    BY <1>7 DEF Kill, Pending, Abs!Kill
  <2> QED  BY <2>1 DEF Abs!Next
<1>8. ASSUME NEW s \in Signaller,
             SigCheck(s) \/ SigNobody(s) \/ SigPop(s) \/ PushDone(s)
      PROVE  Invisible
  BY <1>8 DEF SigCheck, SigNobody, SigPop, PushDone, Pending
<1>9. ASSUME NEW s \in Signaller, NEW w \in Waiter, Push(s, w) PROVE Invisible
  <2>1. wpc[w] = "parked"
    BY <1>0, <1>9 DEF Push, OneOwner
  <2> QED  BY <1>0, <1>9, <2>1 DEF Push, Pending
<1>10. CASE UNCHANGED vars
  <2>1. Invisible
    BY <1>10 DEF vars, Pending
  <2> QED  BY <1>a, <2>1
<1> HIDE DEF Invisible
<1> QED
  BY <1>a, <1>1, <1>2, <1>3, <1>4, <1>5, <1>6, <1>7, <1>8, <1>9, <1>10
  DEF Next, WaitStep, SignalStep

\* usema implements the counting semaphore of Semaphore, its fairness left
\* to the model checker: wait() returns only with a permit of its own or
\* after kill_broadcast, and no permit appears or vanishes.
THEOREM SemaphoreSafety == Spec => Abs!Init /\ [][Abs!Next]_(Abs!semaVars)
<1>1. Init => Abs!Init
  BY DEF Init, Abs!Init, Pending
<1>2. IInv /\ [Next]_vars => [Abs!Next]_(Abs!semaVars)
  BY RefinementStep
<1> QED  BY <1>1, <1>2, Invariance, PTL DEF Spec
==============================================================================
