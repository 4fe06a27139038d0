--------------------------- MODULE UsleeperProofs ----------------------------
(***************************************************************************)
(* usleeper and the loop of its thread, for any number of usleepers,       *)
(* coroutines and waking threads and any size of the submission queue: a   *)
(* suspended coroutine has exactly one waker, and the counters and the     *)
(* timeout request of the loop are what it takes them for.                 *)
(***************************************************************************)
EXTENDS Usleeper, Counting

----------------------------------------------------------------------------
(* One wakeup for every sleep *)

Holds == {"register", "parked", "resumed"}

Times == 0..MaxNow

WakeTypes ==
  /\ now \in Times
  /\ node \in [Sleeper -> [st : {"IDLE", "REGISTERING", "PARKED", "WOKEN", "EXPIRED"},
                           dl : Times, prom : Co \cup {None}]]
  /\ "heap" \in DOMAIN env /\ env.heap \subseteq Sleeper
  /\ sync \subseteq Co /\ yield \subseteq Co /\ cur \in Co \cup {None}
  /\ pc \in [Co -> Holds \cup {"ready", "run", "claim", "done"}]
  /\ on \in [Co -> Sleeper \cup {None}]
  /\ waker \in [Waker -> [pc : {"idle", "push", "write", "done"}, co : Co \cup {None}]]

\* Only the coroutine that runs is inside a call; one that sleeps is woken by the
\* timer, or is on its way through a waker to the sync list.
CoInv(c) ==
  /\ on[c] # None <=> pc[c] \in Holds \cup {"claim"}
  /\ pc[c] \in {"run", "claim", "register", "resumed"} => cur = c
  /\ pc[c] = "ready" <=> c \in yield
  /\ pc[c] = "register" => node[on[c]].st = "REGISTERING"
  /\ pc[c] = "resumed" => node[on[c]].st \in {"WOKEN", "EXPIRED"}
  /\ pc[c] = "parked" => node[on[c]].prom = c /\ node[on[c]].st \in {"PARKED", "WOKEN"}
  /\ pc[c] = "parked" /\ node[on[c]].st = "WOKEN" => c \in sync \/ InTransit(c)
  /\ c \in sync => pc[c] = "parked" /\ node[on[c]].st = "WOKEN"

\* A slot to be won names its sleeper and is in the heap.
SlotInv(s) ==
  /\ node[s].st = "PARKED" => /\ node[s].prom \in Co
                              /\ pc[node[s].prom] = "parked"
                              /\ on[node[s].prom] = s
                              /\ s \in env.heap
  /\ s \in env.heap => node[s].st \in {"PARKED", "WOKEN"}

\* A waker that has won hands over a coroutine that still sleeps.
WakerInv(w) ==
  IF waker[w].pc = "push"
  THEN /\ waker[w].co \in Co \ sync
       /\ pc[waker[w].co] = "parked"
       /\ node[on[waker[w].co]].st = "WOKEN"
  ELSE waker[w].co = None

OneHolder == \A c, d \in Co :
               on[c] = on[d] /\ pc[c] \in Holds /\ pc[d] \in Holds => c = d
OneWinner == \A w, v \in Waker :
               waker[w].co = waker[v].co /\ waker[w].co # None => w = v

WakeInv == /\ WakeTypes
           /\ \A c \in Co : CoInv(c)
           /\ \A s \in Sleeper : SlotInv(s)
           /\ \A w \in Waker : WakerInv(w)
           /\ OneHolder /\ OneWinner

\* get_sqe and a preparation leave the heap alone.
LEMMA PrepHeap ==
  ASSUME NEW e, "heap" \in DOMAIN e, NEW op, NEW id
  PROVE  Prep(e, op, id).heap = e.heap /\ "heap" \in DOMAIN Prep(e, op, id)
BY DEF Prep

\* So does timer_refresh.
LEMMA RefreshHeap ==
  ASSUME NEW e, "heap" \in DOMAIN e, NEW dl
  PROVE  Refresh(e, dl).heap = e.heap /\ "heap" \in DOMAIN Refresh(e, dl)
<1> DEFINE Same(f) == f.heap = e.heap /\ "heap" \in DOMAIN f
<1>1. Same(CancelArmed(e))
  BY PrepHeap DEF CancelArmed
<1>2. ASSUME NEW f, Same(f), NEW top PROVE Same(Arm(f, top))
  <2>1. CASE Full(f)
    BY <1>2, <2>1 DEF Arm
  <2>2. CASE ~Full(f)
    <3> DEFINE p == Prep(f, "timeout", FreshId(f))
    <3>1. Same(p)
      BY <1>2, PrepHeap
    <3>2. PICK a, b, d : Arm(f, top) = [p EXCEPT !.armed = a, !.armedDl = top, !.ts = b,
                                                 !.inflight = d, !.armPending = FALSE]
      BY <2>2 DEF Arm
    <3> HIDE DEF p
    <3> QED  BY <3>1, <3>2
  <2> QED  BY <2>1, <2>2
<1>3. Same([e EXCEPT !.armPending = TRUE])
  OBVIOUS
<1>4. Same([CancelArmed(e) EXCEPT !.armPending = FALSE])
  BY <1>1
<1>5. Same(e)
  OBVIOUS
<1>6. \A top : Same(Arm(CancelArmed(e), top))
  BY <1>1, <1>2
<1> HIDE DEF Same
<1>7. Same(Refresh(e, dl))
  BY <1>3, <1>4, <1>5, <1>6 DEF Refresh
<1> QED  BY <1>7 DEF Same

\* And the read of the eventfd.
LEMMA RegisterHeap ==
  ASSUME NEW e, "heap" \in DOMAIN e
  PROVE  RegisterRead(e).heap = e.heap /\ "heap" \in DOMAIN RegisterRead(e)
BY PrepHeap DEF RegisterRead

LEMMA WakeInit == Init => WakeInv
<1> SUFFICES ASSUME Init PROVE WakeInv
  OBVIOUS
<1> USE DEF Init
<1>1. WakeTypes
  BY ClockAssumption DEF WakeTypes, Holds, Times
<1>2. \A c \in Co : CoInv(c)
  BY DEF CoInv, Holds
<1>3. \A s \in Sleeper : SlotInv(s)
  BY DEF SlotInv
<1>4. \A w \in Waker : WakerInv(w)
  BY DEF WakerInv
<1>5. OneHolder /\ OneWinner
  BY DEF OneHolder, OneWinner, Holds
<1> QED  BY <1>1, <1>2, <1>3, <1>4, <1>5 DEF WakeInv

\* A step that moves no coroutine and no slot.
LEMMA WakeFrame ==
  ASSUME WakeInv, now' \in Times,
         UNCHANGED <<node, sync, yield, cur, pc, on, waker>>,
         env'.heap = env.heap, "heap" \in DOMAIN env'
  PROVE  WakeInv'
<1>1. WakeTypes'
  BY DEF WakeInv, WakeTypes
<1>2. \A c \in Co : CoInv(c)'
  BY DEF WakeInv, CoInv, InTransit
<1>3. \A s \in Sleeper : SlotInv(s)'
  BY DEF WakeInv, SlotInv
<1>4. \A w \in Waker : WakerInv(w)'
  BY DEF WakeInv, WakerInv
<1>5. (OneHolder /\ OneWinner)'
  BY DEF WakeInv, OneHolder, OneWinner
<1> QED  BY <1>1, <1>2, <1>3, <1>4, <1>5 DEF WakeInv
\* sleep_for.
LEMMA WakeSleepFor ==
  ASSUME NEW c \in Co, NEW s \in Sleeper, NEW positive, WakeInv, SleepFor(c, s, positive)
  PROVE  WakeInv'
<1> USE NoneIsNobody DEF SleepFor, Goes, Runs
<1>1. WakeTypes'
  BY DEF WakeInv, WakeTypes, Holds
<1>2. \A a \in Co : CoInv(a)'
  BY <1>1 DEF WakeInv, CoInv, SlotInv, WakerInv, WakeTypes, Holds, InTransit
<1>3. \A u \in Sleeper : SlotInv(u)'
  BY <1>1 DEF WakeInv, CoInv, SlotInv, WakeTypes, Holds
<1>4. \A w \in Waker : WakerInv(w)'
  BY <1>1 DEF WakeInv, CoInv, SlotInv, WakerInv, WakeTypes, Holds
<1>5. (OneHolder /\ OneWinner)'
  BY <1>1 DEF WakeInv, CoInv, SlotInv, WakerInv, WakeTypes, OneHolder, OneWinner, Holds
<1> QED  BY <1>1, <1>2, <1>3, <1>4, <1>5 DEF WakeInv

\* The slot is busy, or it is taken.
LEMMA WakeClaim ==
  ASSUME NEW c \in Co, WakeInv, ClaimBusy(c) \/ Claim(c)
  PROVE  WakeInv'
<1> USE NoneIsNobody
<1>1. WakeTypes'
  <2>1. CASE ClaimBusy(c)
    BY <2>1 DEF WakeInv, WakeTypes, Holds, ClaimBusy, Goes, slots
  <2>2. CASE Claim(c)
    <3>1. on[c] \in Sleeper
      BY <2>2 DEF WakeInv, WakeTypes, CoInv, Claim
    <3> QED  BY <2>2, <3>1 DEF WakeInv, WakeTypes, Holds, Claim, Goes
  <2> QED  BY <2>1, <2>2
<1>2. CASE ClaimBusy(c)
  <2> USE <1>2 DEF ClaimBusy, Goes, Runs, slots
  <2>1. \A a \in Co : CoInv(a)'
    BY <1>1 DEF WakeInv, CoInv, WakeTypes, Holds, InTransit
  <2>2. \A u \in Sleeper : SlotInv(u)'
    BY <1>1 DEF WakeInv, CoInv, SlotInv, WakeTypes, Holds
  <2>3. \A w \in Waker : WakerInv(w)'
    BY <1>1 DEF WakeInv, CoInv, SlotInv, WakerInv, WakeTypes, Holds
  <2>4. (OneHolder /\ OneWinner)'
    BY <1>1 DEF WakeInv, CoInv, WakeTypes, OneHolder, OneWinner, Holds
  <2> QED  BY <1>1, <2>1, <2>2, <2>3, <2>4 DEF WakeInv
<1>3. CASE Claim(c)
  <2> USE <1>3
  <2>1. PICK s \in Sleeper : s = on[c] /\ node[s].st = "IDLE"
    BY DEF WakeInv, WakeTypes, CoInv, Claim
  <2>2. /\ pc' = [pc EXCEPT ![c] = "register"]
        /\ pc[c] = "claim" /\ cur = c
        /\ UNCHANGED <<env, sync, yield, cur, on, waker>>
    BY DEF Claim, Goes, Runs
  <2>3. /\ node'[s].st = "REGISTERING"
        /\ \A u \in Sleeper \ {s} : node'[u] = node[u]
    BY <2>1 DEF Claim, WakeInv, WakeTypes
  <2>4. ASSUME NEW a \in Co, a # c, on[a] = s PROVE pc[a] \notin Holds
    BY <2>1, <2>4 DEF WakeInv, CoInv, Holds
  <2>5. \A a \in Co : CoInv(a)'
    <3> TAKE a \in Co
    <3>1. CASE a = c
      BY <1>1, <2>1, <2>2, <2>3, <3>1 DEF WakeInv, CoInv, WakeTypes, Holds
    <3>2. CASE a # c /\ on[a] = s
      BY <1>1, <2>2, <2>4, <3>2 DEF WakeInv, CoInv, WakeTypes, Holds, InTransit
    <3>3. CASE a # c /\ on[a] # s
      BY <1>1, <2>2, <2>3, <3>3 DEF WakeInv, CoInv, WakeTypes, Holds, InTransit
    <3> QED  BY <3>1, <3>2, <3>3
  <2>6. \A u \in Sleeper : SlotInv(u)'
    BY <1>1, <2>1, <2>2, <2>3 DEF WakeInv, CoInv, SlotInv, WakeTypes, Holds
  <2>7. \A w \in Waker : WakerInv(w)'
    BY <1>1, <2>1, <2>2, <2>3 DEF WakeInv, CoInv, SlotInv, WakerInv, WakeTypes, Holds
  <2>8. OneHolder'
    BY <1>1, <2>1, <2>2, <2>4 DEF WakeInv, WakeTypes, OneHolder, Holds
  <2>9. OneWinner'
    BY <2>2 DEF WakeInv, OneWinner
  <2> QED  BY <1>1, <2>5, <2>6, <2>7, <2>8, <2>9 DEF WakeInv
<1> QED  BY <1>2, <1>3

\* wake() by a coroutine of the thread.
LEMMA WakeCoWake ==
  ASSUME NEW c \in Co, NEW s \in Sleeper, WakeInv, CoWake(c, s)
  PROVE  WakeInv'
<1> USE NoneIsNobody DEF CoWake, Goes, Runs
<1>1. WakeTypes'
  BY DEF WakeInv, WakeTypes, SlotInv, Holds
<1>2. \A a \in Co : CoInv(a)'
  BY <1>1 DEF WakeInv, CoInv, SlotInv, WakerInv, WakeTypes, Holds, InTransit
<1>3. \A u \in Sleeper : SlotInv(u)'
  BY <1>1 DEF WakeInv, CoInv, SlotInv, WakeTypes, Holds
<1>4. \A w \in Waker : WakerInv(w)'
  BY <1>1 DEF WakeInv, CoInv, SlotInv, WakerInv, WakeTypes, Holds
<1>5. (OneHolder /\ OneWinner)'
  BY <1>1 DEF WakeInv, CoInv, SlotInv, WakerInv, WakeTypes, OneHolder, OneWinner, Holds
<1> QED  BY <1>1, <1>2, <1>3, <1>4, <1>5 DEF WakeInv

\* A coroutine returns.
LEMMA WakeFinish ==
  ASSUME NEW c \in Co, WakeInv, Finish(c)
  PROVE  WakeInv'
<1> USE NoneIsNobody DEF Finish, Goes, Runs, Suspends, slots
<1>1. WakeTypes'
  BY DEF WakeInv, WakeTypes, Holds
<1>2. \A a \in Co : CoInv(a)'
  BY <1>1 DEF WakeInv, CoInv, SlotInv, WakerInv, WakeTypes, Holds, InTransit
<1>3. \A u \in Sleeper : SlotInv(u)'
  BY <1>1 DEF WakeInv, CoInv, SlotInv, WakeTypes, Holds
<1>4. \A w \in Waker : WakerInv(w)'
  BY <1>1 DEF WakeInv, CoInv, SlotInv, WakerInv, WakeTypes, Holds
<1>5. (OneHolder /\ OneWinner)'
  BY <1>1 DEF WakeInv, CoInv, SlotInv, WakerInv, WakeTypes, OneHolder, OneWinner, Holds
<1> QED  BY <1>1, <1>2, <1>3, <1>4, <1>5 DEF WakeInv

\* A coroutine of the sync list or of the yield list goes on.
LEMMA WakeResume ==
  ASSUME NEW c \in Co, WakeInv, ResumeSync(c) \/ ResumeYield(c)
  PROVE  WakeInv'
<1> USE NoneIsNobody DEF ResumeSync, ResumeYield, At, Goes, slots
<1>1. WakeTypes'
  BY DEF WakeInv, WakeTypes, Holds
<1>2. \A a \in Co : CoInv(a)'
  BY <1>1 DEF WakeInv, CoInv, SlotInv, WakerInv, WakeTypes, Holds, InTransit
<1>3. \A u \in Sleeper : SlotInv(u)'
  BY <1>1 DEF WakeInv, CoInv, SlotInv, WakeTypes, Holds
<1>4. \A w \in Waker : WakerInv(w)'
  BY <1>1 DEF WakeInv, CoInv, SlotInv, WakerInv, WakeTypes, Holds
<1>5. (OneHolder /\ OneWinner)'
  BY <1>1 DEF WakeInv, CoInv, SlotInv, WakerInv, WakeTypes, OneHolder, OneWinner, Holds
<1> QED  BY <1>1, <1>2, <1>3, <1>4, <1>5 DEF WakeInv

\* wake() by another thread.
LEMMA WakeWake ==
  ASSUME NEW w \in Waker, NEW s \in Sleeper, WakeInv, Wake(w, s)
  PROVE  WakeInv'
<1> USE NoneIsNobody
<1>1. WakeTypes'
  <2>1. UNCHANGED <<now, env, sync, yield, cur, pc, on>>
    BY DEF Wake, coros
  <2>2. CASE node[s].st = "PARKED"
    <3>1. node' = [node EXCEPT ![s].st = "WOKEN"] /\ node[s].prom \in Co
      BY <2>2 DEF Wake, WakeInv, SlotInv
    <3>2. waker' = [waker EXCEPT ![w] = [pc |-> "push", co |-> node[s].prom]]
      BY <2>2 DEF Wake
    <3> QED  BY <2>1, <3>1, <3>2 DEF WakeInv, WakeTypes
  <2>3. CASE node[s].st # "PARKED"
    <3>1. node' = node /\ waker' = [waker EXCEPT ![w].pc = "done"]
      BY <2>3 DEF Wake
    <3> QED  BY <2>1, <3>1 DEF WakeInv, WakeTypes
  <2> QED  BY <2>2, <2>3
<1>2. CASE node[s].st = "PARKED"
  <2> USE <1>2
  <2>1. PICK p \in Co : p = node[s].prom /\ pc[p] = "parked" /\ on[p] = s
    BY DEF WakeInv, SlotInv
  <2>2. /\ waker[w].pc = "idle" /\ waker[w].co = None
        /\ waker'[w].pc = "push" /\ waker'[w].co = p
        /\ \A v \in Waker \ {w} : waker'[v] = waker[v]
        /\ UNCHANGED <<env, sync, yield, cur, pc, on>>
    BY <2>1 DEF Wake, coros, WakeInv, WakerInv, WakeTypes
  <2>3. /\ node'[s].st = "WOKEN" /\ node'[s].prom = p
        /\ \A u \in Sleeper \ {s} : node'[u] = node[u]
    BY <2>1 DEF Wake, WakeInv, WakeTypes
  <2>4. p \notin sync /\ \A v \in Waker : waker[v].co # p
    BY <2>1 DEF WakeInv, CoInv, WakerInv
  <2>5. ASSUME NEW a \in Co, a # p, on[a] = s PROVE pc[a] \notin Holds
    BY <2>1, <2>5 DEF WakeInv, OneHolder, Holds
  <2>6. \A a \in Co : CoInv(a)'
    <3> TAKE a \in Co
    <3>1. CASE a = p
      BY <1>1, <2>1, <2>2, <2>3, <3>1 DEF WakeInv, CoInv, WakeTypes, Holds, InTransit
    <3>2. InTransit(a) => InTransit(a)'
      BY <2>2 DEF InTransit
    <3>3. CASE a # p /\ on[a] = s
      BY <2>2, <2>5, <3>3 DEF WakeInv, CoInv, Holds
    <3>4. CASE a # p /\ on[a] # s
      BY <2>2, <2>3, <3>2, <3>4 DEF WakeInv, CoInv, WakeTypes, Holds
    <3> QED  BY <3>1, <3>3, <3>4
  <2>7. \A u \in Sleeper : SlotInv(u)'
    BY <1>1, <2>1, <2>2, <2>3 DEF WakeInv, CoInv, SlotInv, WakeTypes, Holds
  <2>8. \A v \in Waker : WakerInv(v)'
    <3> TAKE v \in Waker
    <3>1. CASE v = w
      BY <2>1, <2>2, <2>3, <2>4, <3>1 DEF WakerInv
    <3>2. CASE v # w /\ waker[v].pc # "push"
      BY <2>2, <3>2 DEF WakeInv, WakerInv
    <3>3. CASE v # w /\ waker[v].pc = "push"
      <4>1. PICK a \in Co : a = waker[v].co /\ pc[a] = "parked" /\ a \notin sync
                             /\ node[on[a]].st = "WOKEN"
        BY <3>3 DEF WakeInv, WakerInv
      <4>2. on[a] \in Sleeper /\ on[a] # s
        BY <4>1 DEF WakeInv, CoInv, WakeTypes, Holds
      <4> QED  BY <2>2, <2>3, <3>3, <4>1, <4>2 DEF WakerInv
    <3> QED  BY <3>1, <3>2, <3>3
  <2>9. OneHolder' /\ OneWinner'
    BY <2>2, <2>4 DEF WakeInv, OneHolder, OneWinner
  <2> QED  BY <1>1, <2>6, <2>7, <2>8, <2>9 DEF WakeInv
<1>3. CASE node[s].st # "PARKED"
  <2> USE <1>3
  <2>1. /\ waker[w].pc = "idle" /\ waker'[w].pc = "done" /\ waker'[w].co = waker[w].co
        /\ \A v \in Waker \ {w} : waker'[v] = waker[v]
        /\ UNCHANGED <<node, env, sync, yield, cur, pc, on>>
    BY DEF Wake, coros, WakeInv, WakeTypes
  <2>2. \A a \in Co : CoInv(a)'
    BY <2>1 DEF WakeInv, CoInv, InTransit
  <2>3. \A u \in Sleeper : SlotInv(u)'
    BY <2>1 DEF WakeInv, SlotInv
  <2>4. \A v \in Waker : WakerInv(v)'
    BY <2>1 DEF WakeInv, WakerInv
  <2>5. OneHolder' /\ OneWinner'
    BY <2>1 DEF WakeInv, OneHolder, OneWinner
  <2> QED  BY <1>1, <2>2, <2>3, <2>4, <2>5 DEF WakeInv
<1> QED  BY <1>2, <1>3

\* It puts the sleeper into the sync list, and writes the eventfd.
LEMMA WakeWakePush ==
  ASSUME NEW w \in Waker, WakeInv, WakePush(w) \/ WakeWrite(w)
  PROVE  WakeInv'
<1> USE NoneIsNobody
<1>1. WakeTypes'
  BY DEF WakeInv, WakeTypes, WakerInv, Holds, WakePush, WakeWrite, coros, slots
<1>2. /\ UNCHANGED <<node, env, yield, cur, pc, on>>
      /\ \A v \in Waker \ {w} : waker'[v] = waker[v]
      /\ waker'[w].pc # "push" /\ waker'[w].co = None
  BY DEF WakePush, WakeWrite, coros, slots, WakeInv, WakeTypes, WakerInv
<1>3. sync' = (sync \cup {waker[w].co}) \ {None}
  BY DEF WakePush, WakeWrite, WakeInv, WakeTypes, WakerInv
<1>4. \A a \in Co : CoInv(a)'
  <2> TAKE a \in Co
  <2>1. CASE a = waker[w].co
    <3>1. pc[a] = "parked" /\ node[on[a]].st = "WOKEN" /\ a \in sync'
      BY <1>3, <2>1 DEF WakeInv, WakerInv
    <3> QED  BY <1>2, <3>1 DEF WakeInv, CoInv
  <2>2. CASE a # waker[w].co
    <3>1. a \in sync' <=> a \in sync
      BY <1>3, <2>2
    <3>2. InTransit(a) => InTransit(a)'
      BY <1>2, <2>2 DEF InTransit
    <3> QED  BY <1>2, <3>1, <3>2 DEF WakeInv, CoInv
  <2> QED  BY <2>1, <2>2
<1>5. \A u \in Sleeper : SlotInv(u)'
  BY <1>2 DEF WakeInv, SlotInv
<1>6. \A v \in Waker : WakerInv(v)'
  BY <1>2, <1>3 DEF WakeInv, WakerInv, OneWinner
<1>7. OneHolder' /\ OneWinner'
  BY <1>2 DEF WakeInv, OneHolder, OneWinner
<1> QED  BY <1>1, <1>4, <1>5, <1>6, <1>7 DEF WakeInv

\* timer_on_fire pops the front of the heap.
LEMMA WakeFire ==
  ASSUME NEW s \in Sleeper, WakeInv, Fire(s)
  PROVE  WakeInv'
<1> USE NoneIsNobody
<1>1. /\ cur = None /\ s \in env.heap
      /\ env'.heap = env.heap \ {s} /\ "heap" \in DOMAIN env'
      /\ UNCHANGED <<now, sync, yield, on, waker>>
  BY DEF Fire, At, Front, WakeInv, WakeTypes
<1>2. CASE node[s].st = "PARKED"
  <2> USE <1>2
  <2>1. PICK p \in Co : p = node[s].prom /\ pc[p] = "parked" /\ on[p] = s
    BY DEF WakeInv, SlotInv
  <2>2. cur' = p /\ pc' = [pc EXCEPT ![p] = "resumed"]
    BY <2>1 DEF Fire, Goes
  <2>3. /\ node'[s].st = "EXPIRED"
        /\ \A u \in Sleeper \ {s} : node'[u] = node[u]
    BY DEF Fire, WakeInv, WakeTypes
  <2>4. p \notin sync /\ \A v \in Waker : waker[v].co # p
    BY <2>1 DEF WakeInv, CoInv, WakerInv
  <2>5. ASSUME NEW a \in Co, a # p, on[a] = s PROVE pc[a] \notin Holds
    BY <2>1, <2>5 DEF WakeInv, OneHolder, Holds
  <2>6. WakeTypes'
    <3>1. node' = [node EXCEPT ![s].st = "EXPIRED"]
      BY DEF Fire
    <3> QED  BY <1>1, <2>2, <3>1 DEF WakeInv, WakeTypes, Holds
  <2>7. \A a \in Co : CoInv(a)'
    <3> TAKE a \in Co
    <3>1. CASE a = p
      BY <1>1, <2>1, <2>2, <2>3, <2>4, <2>6, <3>1 DEF WakeInv, CoInv, WakeTypes, Holds
    <3>2. CASE a # p /\ on[a] = s
      BY <1>1, <2>2, <2>5, <3>2 DEF WakeInv, CoInv, WakeTypes, Holds
    <3>3. CASE a # p /\ on[a] # s
      BY <1>1, <2>2, <2>3, <3>3 DEF WakeInv, CoInv, WakeTypes, Holds, InTransit
    <3> QED  BY <3>1, <3>2, <3>3
  <2>8. \A u \in Sleeper : SlotInv(u)'
    BY <1>1, <2>1, <2>2, <2>3, <2>6 DEF WakeInv, CoInv, SlotInv, WakeTypes, Holds
  <2>9. \A v \in Waker : WakerInv(v)'
    <3> TAKE v \in Waker
    <3>1. CASE waker[v].pc # "push"
      BY <1>1, <3>1 DEF WakeInv, WakerInv
    <3>2. CASE waker[v].pc = "push"
      <4>1. PICK a \in Co : a = waker[v].co /\ pc[a] = "parked" /\ a # p /\ a \notin sync
                             /\ node[on[a]].st = "WOKEN"
        BY <2>4, <3>2 DEF WakeInv, WakerInv
      <4>2. on[a] \in Sleeper /\ on[a] # s
        BY <2>5, <4>1 DEF WakeInv, CoInv, WakeTypes, Holds
      <4> QED  BY <1>1, <2>2, <2>3, <3>2, <4>1, <4>2 DEF WakeInv, WakeTypes, WakerInv
    <3> QED  BY <3>1, <3>2
  <2>10. OneHolder' /\ OneWinner'
    BY <1>1, <2>1, <2>2, <2>5 DEF WakeInv, WakeTypes, OneHolder, OneWinner, Holds
  <2> QED  BY <2>6, <2>7, <2>8, <2>9, <2>10 DEF WakeInv
<1>3. CASE node[s].st # "PARKED"
  <2> USE <1>3
  <2>1. UNCHANGED <<node, cur, pc>>
    BY DEF Fire
  <2>2. WakeTypes'
    BY <1>1, <2>1 DEF WakeInv, WakeTypes
  <2>3. \A a \in Co : CoInv(a)'
    BY <1>1, <2>1 DEF WakeInv, CoInv, InTransit
  <2>4. \A u \in Sleeper : SlotInv(u)'
    BY <1>1, <2>1 DEF WakeInv, SlotInv
  <2>5. \A v \in Waker : WakerInv(v)'
    BY <1>1, <2>1 DEF WakeInv, WakerInv
  <2>6. OneHolder' /\ OneWinner'
    BY <1>1, <2>1 DEF WakeInv, OneHolder, OneWinner
  <2> QED  BY <2>2, <2>3, <2>4, <2>5, <2>6 DEF WakeInv
<1> QED  BY <1>2, <1>3

\* The earlier of two times.
LEMMA MinPair ==
  ASSUME NEW a \in Nat, NEW b \in Nat
  PROVE  Min({a, b}) \in Nat /\ Min({a, b}) <= a /\ Min({a, b}) <= b
<1>1. \E x \in {a, b} : \A y \in {a, b} : x <= y
  OBVIOUS
<1> QED  BY <1>1 DEF Min

\* A coroutine goes to sleep.
LEMMA WakePark ==
  ASSUME NEW c \in Co, NEW d \in 1..MaxDur, WakeInv, Park(c, d)
  PROVE  WakeInv'
<1> USE NoneIsNobody
<1>1. PICK s \in Sleeper : s = on[c]
  BY DEF Park, WakeInv, CoInv, WakeTypes, Holds
<1>2. /\ pc[c] = "register" /\ cur = c /\ node[s].st = "REGISTERING"
      /\ pc' = [pc EXCEPT ![c] = "parked"] /\ cur' = None
      /\ UNCHANGED <<now, sync, yield, on, waker>>
  BY <1>1 DEF Park, Runs, Goes, Suspends, WakeInv, CoInv
<1>3. PICK dl \in Times : node' = [node EXCEPT ![s] = [st |-> "PARKED", dl |-> dl, prom |-> c]]
  <2>1. now + d \in Nat
    BY ClockAssumption DEF WakeInv, WakeTypes, Times
  <2>2. Min({now + d, MaxNow}) \in Times
    BY <2>1, MinPair, ClockAssumption DEF Times
  <2> QED  BY <1>1, <2>2 DEF Park
<1>4. env'.heap = env.heap \cup {s} /\ "heap" \in DOMAIN env'
  <2> DEFINE push == [env EXCEPT !.heap = @ \cup {s}]
  <2>1. push.heap = env.heap \cup {s} /\ "heap" \in DOMAIN push
    BY DEF WakeInv, WakeTypes
  <2>2. PICK t : env' = Refresh(push, t)
    BY <1>1 DEF Park
  <2> HIDE DEF push
  <2> QED  BY <2>1, <2>2, RefreshHeap
<1>5. /\ node'[s].st = "PARKED" /\ node'[s].prom = c
      /\ \A u \in Sleeper \ {s} : node'[u] = node[u]
  BY <1>3 DEF WakeInv, WakeTypes
<1>6. WakeTypes'
  BY <1>2, <1>3, <1>4 DEF WakeInv, WakeTypes, Holds
<1>7. ASSUME NEW a \in Co, a # c, on[a] = s PROVE pc[a] \notin Holds
  BY <1>1, <1>2, <1>7 DEF WakeInv, OneHolder, Holds
<1>8. \A a \in Co : CoInv(a)'
  <2> TAKE a \in Co
  <2>1. CASE a = c
    BY <1>1, <1>2, <1>5, <1>6, <2>1 DEF WakeInv, CoInv, WakeTypes, Holds
  <2>2. CASE a # c /\ on[a] = s
    BY <1>2, <1>7, <2>2 DEF WakeInv, CoInv, WakeTypes, Holds
  <2>3. CASE a # c /\ on[a] # s
    BY <1>2, <1>5, <2>3 DEF WakeInv, CoInv, WakeTypes, Holds, InTransit
  <2> QED  BY <2>1, <2>2, <2>3
<1>9. \A u \in Sleeper : SlotInv(u)'
  BY <1>1, <1>2, <1>4, <1>5, <1>6 DEF WakeInv, CoInv, SlotInv, WakeTypes, Holds
<1>10. \A w \in Waker : WakerInv(w)'
  BY <1>1, <1>2, <1>5, <1>7 DEF WakeInv, CoInv, WakerInv, WakeTypes, Holds
<1>11. OneHolder' /\ OneWinner'
  BY <1>1, <1>2, <1>7 DEF WakeInv, WakeTypes, OneHolder, OneWinner, Holds
<1> QED  BY <1>6, <1>8, <1>9, <1>10, <1>11 DEF WakeInv

\* It goes on, and frees its slot.
LEMMA WakeAwaitResume ==
  ASSUME NEW c \in Co, WakeInv, AwaitResume(c)
  PROVE  WakeInv'
<1> USE NoneIsNobody
<1>1. PICK s \in Sleeper : s = on[c]
  BY DEF AwaitResume, WakeInv, CoInv, WakeTypes, Holds
<1>2. /\ pc[c] = "resumed" /\ cur = c /\ node[s].st \in {"WOKEN", "EXPIRED"}
      /\ pc' = [pc EXCEPT ![c] = "run"] /\ on' = [on EXCEPT ![c] = None]
      /\ UNCHANGED <<now, sync, yield, cur, waker>>
  BY <1>1 DEF AwaitResume, Runs, Goes, WakeInv, CoInv
<1>3. env'.heap = env.heap \ {s} /\ "heap" \in DOMAIN env'
  <2> DEFINE rest == [env EXCEPT !.heap = @ \ {s}]
  <2>1. rest.heap = env.heap \ {s} /\ "heap" \in DOMAIN rest
    BY DEF WakeInv, WakeTypes
  <2>2. env' = IF s \in env.heap THEN Refresh(rest, Deadlines) ELSE env
    BY <1>1 DEF AwaitResume
  <2> HIDE DEF rest
  <2>3. CASE s \in env.heap
    BY <2>1, <2>2, <2>3, RefreshHeap
  <2>4. CASE s \notin env.heap
    BY <2>2, <2>4 DEF WakeInv, WakeTypes
  <2> QED  BY <2>3, <2>4
<1>4. node' = [node EXCEPT ![s].st = "IDLE", ![s].prom = None]
  BY <1>1 DEF AwaitResume
<1>5. /\ node'[s].st = "IDLE"
      /\ \A u \in Sleeper \ {s} : node'[u] = node[u]
  BY <1>4 DEF WakeInv, WakeTypes
<1>6. WakeTypes'
  <2> DEFINE Node == [st : {"IDLE", "REGISTERING", "PARKED", "WOKEN", "EXPIRED"},
                      dl : Times, prom : Co \cup {None}]
  <2>1. node \in [Sleeper -> Node]
    BY DEF WakeInv, WakeTypes
  <2>2. [node[s] EXCEPT !.st = "IDLE", !.prom = None] \in Node
    BY <2>1
  <2>3. node' = [node EXCEPT ![s] = [node[s] EXCEPT !.st = "IDLE", !.prom = None]]
    BY <1>4, <2>1
  <2> HIDE DEF Node
  <2>4. node' \in [Sleeper -> Node]
    BY <2>1, <2>2, <2>3
  <2> QED  BY <1>2, <1>3, <2>4 DEF WakeInv, WakeTypes, Holds, Node
<1>7. ASSUME NEW a \in Co, a # c, on[a] = s PROVE pc[a] \notin Holds
  BY <1>1, <1>2, <1>7 DEF WakeInv, OneHolder, Holds
<1>8. \A a \in Co : CoInv(a)'
  <2> TAKE a \in Co
  <2>1. CASE a = c
    BY <1>1, <1>2, <1>6, <2>1 DEF WakeInv, CoInv, WakeTypes, Holds
  <2>2. CASE a # c /\ on[a] = s
    BY <1>2, <1>7, <2>2 DEF WakeInv, CoInv, WakeTypes, Holds
  <2>3. CASE a # c /\ on[a] # s
    BY <1>2, <1>5, <2>3 DEF WakeInv, CoInv, WakeTypes, Holds, InTransit
  <2> QED  BY <2>1, <2>2, <2>3
<1>9. \A u \in Sleeper : SlotInv(u)'
  BY <1>1, <1>2, <1>3, <1>5, <1>6 DEF WakeInv, CoInv, SlotInv, WakeTypes, Holds
<1>10. \A w \in Waker : WakerInv(w)'
  BY <1>1, <1>2, <1>5, <1>7 DEF WakeInv, CoInv, WakerInv, WakeTypes, Holds
<1>11. OneHolder' /\ OneWinner'
  BY <1>1, <1>2, <1>7 DEF WakeInv, WakeTypes, OneHolder, OneWinner, Holds
<1> QED  BY <1>6, <1>8, <1>9, <1>10, <1>11 DEF WakeInv

\* The steps of schedule() that resume nobody, of the clock and of the kernel.
LEMMA WakeLoop ==
  ASSUME WakeInv,
         \/ Top \/ SyncEmpty \/ Retry \/ Submit \/ SkipIo \/ Waited \/ CqeOther \/ CqeSync \/ CqeTimer
         \/ FireDone \/ CqeDone \/ Tick \/ \E q \in kernel.req : Expire(q)
  PROVE  WakeInv'
<1>1. "heap" \in DOMAIN env /\ now \in Times
  BY DEF WakeInv, WakeTypes
<1> DEFINE Same(e) == e.heap = env.heap /\ "heap" \in DOMAIN e
<1>2. /\ UNCHANGED <<node, sync, yield, cur, pc, on, waker>>
      /\ now' \in Times
  <2>1. CASE Top \/ SyncEmpty \/ Retry \/ SkipIo \/ Waited \/ FireDone \/ CqeDone
    BY <1>1, <2>1 DEF Top, SyncEmpty, Retry, SkipIo, Waited, FireDone, CqeDone, Idle, slots, coros
  <2>2. CASE Submit \/ CqeOther \/ CqeSync \/ CqeTimer
    BY <1>1, <2>2 DEF Submit, CqeOther, CqeSync, CqeTimer, slots, coros
  <2>3. CASE \E q \in kernel.req : Expire(q)
    BY <1>1, <2>3 DEF Expire, slots, coros
  <2>4. CASE Tick
    <3>1. now' \in Times
      BY <1>1, <2>4, ClockAssumption DEF Tick, Times
    <3> QED  BY <2>4, <3>1 DEF Tick, slots, coros
  <2> QED  BY <2>1, <2>2, <2>3, <2>4
<1>3. Same(env')
  <2>1. Same(Refresh(env, Deadlines)) /\ Same(env)
    BY <1>1, RefreshHeap
  <2>2. \A e : Same(e) => Same(RegisterRead(e))
    BY RegisterHeap
  <2>3. CASE Submit \/ CqeOther \/ CqeTimer
    BY <1>1, <2>3 DEF Submit, CqeOther, CqeTimer
  <2> HIDE DEF Same
  <2>4. CASE \/ Top \/ SyncEmpty \/ SkipIo \/ Waited \/ FireDone
             \/ CqeDone \/ Tick \/ \E q \in kernel.req : Expire(q)
    BY <2>1, <2>4 DEF Top, SyncEmpty, SkipIo, Waited, FireDone, CqeDone, Tick, Expire
  <2>5. CASE Retry \/ CqeSync
    BY <2>1, <2>2, <2>5 DEF Retry, CqeSync
  <2> QED  BY <2>3, <2>4, <2>5
<1> QED  BY <1>2, <1>3, WakeFrame

LEMMA WakeStep == WakeInv /\ [Next]_vars => WakeInv'
<1> SUFFICES ASSUME WakeInv, [Next]_vars PROVE WakeInv'
  OBVIOUS
<1>1. CASE UNCHANGED vars
  BY <1>1, WakeFrame DEF vars, WakeInv, WakeTypes
<1>2. CASE Schedule
  BY <1>2, WakeLoop, WakeResume, WakeFire DEF Schedule
<1>3. CASE \E c \in Co : CoStep(c)
  BY <1>3, WakeSleepFor, WakeClaim, WakePark, WakeAwaitResume, WakeCoWake, WakeFinish
     DEF CoStep
<1>4. CASE \E w \in Waker : WakerStep(w) \/ \E s \in Sleeper : Wake(w, s)
  BY <1>4, WakeWake, WakeWakePush DEF WakerStep
<1>5. CASE Tick \/ \E q \in kernel.req : Expire(q)
  BY <1>5, WakeLoop
<1> QED  BY <1>1, <1>2, <1>3, <1>4, <1>5 DEF Next, Thread

\* What the invariant says of one sleeper, counted.
LEMMA WakeOne ==
  ASSUME WakeInv, NEW c \in Co, pc[c] = "parked"
  PROVE  LET s == on[c]
             handing == Cardinality({w \in Waker : waker[w].co = c})
         IN  /\ node[s].prom = c
             /\ \/ node[s].st = "PARKED" /\ s \in env.heap /\ handing = 0 /\ c \notin sync
                \/ node[s].st = "WOKEN" /\ handing + (IF c \in sync THEN 1 ELSE 0) = 1
<1> DEFINE H == {w \in Waker : waker[w].co = c}
<1>1. PICK s \in Sleeper : s = on[c] /\ node[s].prom = c /\ node[s].st \in {"PARKED", "WOKEN"}
  BY NoneIsNobody DEF WakeInv, WakeTypes, CoInv, Holds
<1>2. \A w \in H : waker[w].pc = "push" /\ c \notin sync /\ node[s].st = "WOKEN"
  BY <1>1, NoneIsNobody DEF WakeInv, WakerInv
<1>3. CASE H = {}
  <2>1. Cardinality(H) = 0
    BY <1>3, FS_EmptySet
  <2>2. node[s].st = "WOKEN" => c \in sync
    BY <1>1, <1>3 DEF WakeInv, CoInv, InTransit
  <2>3. node[s].st = "PARKED" => s \in env.heap /\ c \notin sync
    BY <1>1 DEF WakeInv, CoInv, SlotInv
  <2> HIDE DEF H
  <2>4. /\ node[s].st = "PARKED" => s \in env.heap /\ Cardinality(H) = 0 /\ c \notin sync
        /\ node[s].st = "WOKEN" => Cardinality(H) + (IF c \in sync THEN 1 ELSE 0) = 1
    BY <2>1, <2>2, <2>3
  <2> QED  BY <1>1, <2>4 DEF H
<1>4. CASE H # {}
  <2>1. PICK w \in H : TRUE
    BY <1>4
  <2>2. H = {w}
    BY <2>1, NoneIsNobody DEF WakeInv, OneWinner
  <2>3. Cardinality(H) = 1
    BY <2>2, FS_Singleton
  <2>4. c \notin sync /\ node[s].st = "WOKEN"
    BY <1>2, <2>1
  <2> HIDE DEF H
  <2>5. Cardinality(H) + (IF c \in sync THEN 1 ELSE 0) = 1
    BY <2>3, <2>4
  <2> QED  BY <1>1, <2>4, <2>5 DEF H
<1> QED  BY <1>3, <1>4

LEMMA WakeAlways == Spec => []WakeInv
BY WakeInit, WakeStep, PTL DEF Spec

(***************************************************************************)
(* At most one sleep per usleeper, and every suspended coroutine has       *)
(* exactly one waker: the timer while its slot is PARKED, afterwards the   *)
(* winner of the arbitration or the sync list (wake(), timer_on_fire,      *)
(* push_sync_node_to_thread).                                              *)
(***************************************************************************)
THEOREM WakeupOnce == Spec => []OneWakeup
<1>1. ASSUME WakeInv PROVE OneWakeup
  <2>1. \A c \in sync : c \in Co /\ pc[c] = "parked"
    BY <1>1 DEF WakeInv, WakeTypes, CoInv
  <2>2. \A s \in env.heap : node[s].st \in {"PARKED", "WOKEN"}
    BY <1>1 DEF WakeInv, WakeTypes, SlotInv
  <2>3. \A c, d \in Co : on[c] = on[d] /\ pc[c] \in {"register", "parked", "resumed"}
                                     /\ pc[d] \in {"register", "parked", "resumed"} => c = d
    BY <1>1 DEF WakeInv, OneHolder, Holds
  <2> QED  BY <1>1, <2>1, <2>2, <2>3, WakeOne DEF OneWakeup
<1> QED  BY <1>1, WakeAlways, PTL

----------------------------------------------------------------------------
(* The books of the loop *)

Entry == [op : {"timeout", "cancel", "read"}, id : Ids \cup {0}]
CountOf(q, op) == Cardinality({j \in 1..Len(q) : q[j].op = op})

\* timer_inflight and io_event_count count what is prepared, in the kernel or completed.
Books(e) ==
  /\ e.inflight = CountOf(e.sq, "timeout") + Cardinality(kernel.req) + kernel.timer
  /\ e.io = e.inflight + CountOf(e.sq, "cancel") + kernel.other

Cancelled(e, id) == \E j \in 1..Len(e.sq) : e.sq[j].op = "cancel" /\ e.sq[j].id = id

\* Timeouts have different numbers, and one that is not the armed one is being
\* cancelled: the kernel never holds more than one over a submission.
Named(e) ==
  /\ \A i \in 1..Len(e.sq) : e.sq[i].op = "timeout" =>
       /\ e.sq[i].id \in Ids
       /\ e.sq[i].id = e.armed \/ Cancelled(e, e.sq[i].id)
       /\ \A q \in kernel.req : q.id # e.sq[i].id
       /\ \A j \in 1..Len(e.sq) : e.sq[j].op = "timeout" /\ e.sq[j].id = e.sq[i].id => i = j
  /\ \A q \in kernel.req : q.id = e.armed \/ Cancelled(e, q.id)
  /\ \A p, q \in kernel.req : p = q

EnvOK(e) == e \in Env /\ Len(e.sq) <= SqSize /\ Books(e) /\ Named(e)

\* What timer_refresh is for: the request in flight is made for the first deadline
\* of the heap or an earlier one.
Served(e, dl) == ~e.armPending /\ e.heap # {} =>
                   e.inflight > 0 /\ \A s \in e.heap : e.armedDl <= dl[s]

LEMMA CountFacts ==
  ASSUME NEW q \in Seq(Entry), NEW op
  PROVE  /\ IsFiniteSet({j \in 1..Len(q) : q[j].op = op}) /\ CountOf(q, op) \in Nat
         /\ CountOf(q, op) = 0 <=> \A j \in 1..Len(q) : q[j].op # op
<1> DEFINE J == {j \in 1..Len(q) : q[j].op = op}
<1>1. Len(q) \in Nat
  OBVIOUS
<1>2. IsFiniteSet(1..Len(q))
  BY <1>1, FS_Interval
<1>3. IsFiniteSet(J)
  BY <1>2, FS_Subset
<1>4. Cardinality(J) \in Nat /\ (Cardinality(J) = 0 <=> J = {})
  BY <1>3, FS_CardinalityType, FS_EmptySet
<1>5. J = {} <=> \A j \in 1..Len(q) : q[j].op # op
  OBVIOUS
<1>6. CountOf(q, op) = Cardinality(J)
  BY DEF CountOf
<1> HIDE DEF J
<1>7. /\ CountOf(q, op) \in Nat
      /\ CountOf(q, op) = 0 <=> \A j \in 1..Len(q) : q[j].op # op
  BY <1>4, <1>5, <1>6
<1> QED  BY <1>3, <1>7 DEF J

LEMMA CountEmpty == \A op : CountOf(<<>>, op) = 0
<1> TAKE op
<1>1. {j \in 1..Len(<<>>) : <<>>[j].op = op} = {}
  OBVIOUS
<1> QED  BY <1>1, FS_EmptySet DEF CountOf

LEMMA CountAppend ==
  ASSUME NEW q \in Seq(Entry), NEW x \in Entry, NEW op
  PROVE  CountOf(Append(q, x), op) = CountOf(q, op) + Is(x.op, op)
<1> DEFINE p == Append(q, x)
           J == {j \in 1..Len(q) : q[j].op = op}
           K == {j \in 1..Len(p) : p[j].op = op}
           n == Len(q) + 1
<1>1. /\ Len(p) = n /\ n \in Nat /\ p[n] = x
      /\ \A j \in 1..Len(q) : p[j] = q[j]
  OBVIOUS
<1>2. 1..Len(p) = (1..Len(q)) \cup {n} /\ n \notin 1..Len(q)
  BY <1>1
<1>3. IsFiniteSet(J) /\ Cardinality(J) \in Nat
  BY CountFacts DEF CountOf
<1> HIDE DEF p, n
<1>4. n \notin J /\ K = IF x.op = op THEN J \cup {n} ELSE J
  BY <1>1, <1>2
<1>5. CountOf(p, op) = Cardinality(K) /\ CountOf(q, op) = Cardinality(J)
  BY DEF CountOf
<1> HIDE DEF J, K
<1>6. Cardinality(K) = Cardinality(J) + Is(x.op, op)
  BY <1>3, <1>4, OneMore DEF Is
<1> QED  BY <1>5, <1>6 DEF p

\* A set of natural numbers has a least element.
LEMMA LeastNat ==
  ASSUME NEW S, S \subseteq Nat, S # {}
  PROVE  Min(S) \in S /\ \A y \in S : Min(S) <= y
<1> DEFINE R == {ss \in Nat \X Nat : ss[1] < ss[2]}
<1>1. IsWellFoundedOn(R, Nat)
  BY NatLessThanWellFounded DEF OpToRel
<1>2. \A x, y \in Nat : <<y, x>> \in R <=> y < x
  OBVIOUS
<1> HIDE DEF R
<1>3. PICK x \in S : \A y \in S : ~(<<y, x>> \in R)
  BY <1>1, WFMin
<1>4. \A y \in S : x <= y
  <2> TAKE y \in S
  <2>1. x \in Nat /\ y \in Nat
    OBVIOUS
  <2>2. ~(y < x)
    BY <1>2, <1>3, <2>1
  <2> QED  BY <2>1, <2>2
<1> QED  BY <1>4 DEF Min

\* The number ++timer_gen stands for exists, and nothing around carries it.
LEMMA Fresh ==
  ASSUME kernel \in Kernel, NEW e, EnvOK(e)
  PROVE  /\ FreshId(e) \in Ids
         /\ \A i \in 1..Len(e.sq) : e.sq[i].id # FreshId(e)
         /\ \A q \in kernel.req : q.id # FreshId(e)
<1> DEFINE A == {e.sq[i].id : i \in 1..Len(e.sq)}
           B == {q.id : q \in kernel.req}
           f == [i \in 1..Len(e.sq) |-> e.sq[i].id]
<1>1. Len(e.sq) \in Nat /\ Len(e.sq) <= SqSize
  BY DEF EnvOK, Env
<1>2. IsFiniteSet(1..Len(e.sq)) /\ Cardinality(1..Len(e.sq)) = Len(e.sq)
  BY <1>1, FS_Interval
<1>3. IsFiniteSet(A) /\ Cardinality(A) <= Len(e.sq)
  <2>1. f \in Surjection(1..Len(e.sq), A)
    BY DEF Surjection
  <2> QED  BY <1>2, <2>1, FS_Surjection
<1>4. IsFiniteSet(B) /\ Cardinality(B) <= 1
  <2>1. \A x, y \in B : x = y
    BY DEF EnvOK, Named
  <2> QED  BY <2>1, AtMostOne
<1>5. IsFiniteSet(Ids) /\ Cardinality(Ids) = 2 * SqSize + 2
  BY SqSizeAssumption, FS_Interval DEF Ids
<1> HIDE DEF A, B
<1>6. Ids \ (A \cup B) # {}
  <2> SUFFICES ASSUME Ids \subseteq A \cup B PROVE FALSE
    OBVIOUS
  <2>1. /\ IsFiniteSet(A \cup B)
        /\ Cardinality(A \cup B) = Cardinality(A) + Cardinality(B) - Cardinality(A \cap B)
    BY <1>3, <1>4, FS_Union
  <2>2. Cardinality(A) \in Nat /\ Cardinality(B) \in Nat /\ Cardinality(A \cap B) \in Nat
    BY <1>3, <1>4, FS_CardinalityType, FS_Intersection
  <2>3. Cardinality(Ids) <= Cardinality(A \cup B)
    BY <2>1, FS_Subset
  <2> QED  BY <1>1, <1>3, <1>4, <1>5, <2>1, <2>2, <2>3, SqSizeAssumption
<1>7. Ids \ (A \cup B) \subseteq Nat
  BY SqSizeAssumption DEF Ids
<1>8. FreshId(e) \in Ids \ (A \cup B)
  <2>1. FreshId(e) = Min(Ids \ (A \cup B))
    BY DEF FreshId, A, B
  <2> QED  BY <1>6, <1>7, <2>1, LeastNat
<1> QED  BY <1>8 DEF A, B

\* get_sqe and a preparation, field by field.
LEMMA PrepFields ==
  ASSUME NEW e \in Env, NEW op \in {"timeout", "cancel", "read"}, NEW id \in Ids \cup {0},
         NEW p, p = Prep(e, op, id)
  PROVE  /\ p \in Env
         /\ p.sq = Append(e.sq, [op |-> op, id |-> id]) /\ p.io = e.io + 1
         /\ p.heap = e.heap /\ p.inflight = e.inflight /\ p.armed = e.armed
         /\ p.armedDl = e.armedDl /\ p.armPending = e.armPending
         /\ p.retry = e.retry
<1> DEFINE x == [op |-> op, id |-> id]
           sq == Append(e.sq, x)
<1>1. sq \in Seq([op : {"timeout", "cancel", "read"}, id : Ids \cup {0}])
  BY DEF Env
<1>2. p = [e EXCEPT !.sq = sq, !.io = e.io + 1]
  BY DEF Prep, Env
<1>3. e.io + 1 \in Int
  BY DEF Env
<1> HIDE DEF sq
<1>4. /\ p \in Env
      /\ p.sq = sq /\ p.io = e.io + 1
      /\ p.heap = e.heap /\ p.inflight = e.inflight /\ p.armed = e.armed
      /\ p.armedDl = e.armedDl /\ p.armPending = e.armPending
      /\ p.retry = e.retry
  BY <1>1, <1>2, <1>3 DEF Env
<1> QED  BY <1>4 DEF sq

\* The books do not depend on the other fields.
LEMMA EnvSame ==
  ASSUME NEW e, EnvOK(e), NEW f \in Env,
         f.sq = e.sq, f.io = e.io, f.inflight = e.inflight, f.armed = e.armed
  PROVE  EnvOK(f)
BY DEF EnvOK, Books, Named, Cancelled

\* What a prepared cancellation leaves: the books in order, the request cancelled.
LEMMA CancelKeeps ==
  ASSUME kernel \in Kernel, NEW e, EnvOK(e), ~Full(e), NEW p, p = Prep(e, "cancel", e.armed)
  PROVE  /\ EnvOK(p)
         /\ p.heap = e.heap /\ p.inflight = e.inflight /\ p.armPending = e.armPending
         /\ \A i \in 1..Len(p.sq) : p.sq[i].op = "timeout" => Cancelled(p, p.sq[i].id)
         /\ \A q \in kernel.req : Cancelled(p, q.id)
<1> DEFINE x == [op |-> "cancel", id |-> e.armed]
           n == Len(e.sq) + 1
<1>1. e \in Env /\ e.sq \in Seq(Entry) /\ e.armed \in Ids \cup {0}
  BY DEF EnvOK, Env, Entry
<1>2. /\ p \in Env /\ p.sq = Append(e.sq, x) /\ p.io = e.io + 1
      /\ p.heap = e.heap /\ p.inflight = e.inflight /\ p.armed = e.armed
      /\ p.armPending = e.armPending
  BY <1>1, PrepFields
<1>3. x \in Entry /\ x.op = "cancel" /\ x.id = e.armed
  BY <1>1 DEF Entry
<1> HIDE DEF x
<1>4. /\ Len(p.sq) = n /\ p.sq[n] = x /\ n \in 1..n
      /\ \A i \in 1..Len(e.sq) : p.sq[i] = e.sq[i] /\ i \in 1..n
      /\ \A i \in 1..n : i = n \/ i \in 1..Len(e.sq)
  BY <1>1, <1>2, <1>3
<1>5. Len(p.sq) <= SqSize
  BY <1>1, <1>4, SqSizeAssumption DEF Full
<1>6. /\ CountOf(p.sq, "timeout") = CountOf(e.sq, "timeout") + 0
      /\ CountOf(p.sq, "cancel") = CountOf(e.sq, "cancel") + 1
  <2>1. \A op : CountOf(p.sq, op) = CountOf(e.sq, op) + Is(x.op, op)
    BY <1>1, <1>2, <1>3, CountAppend
  <2> QED  BY <1>3, <2>1 DEF Is
<1> HIDE DEF n
<1>7. Books(p)
  <2>1. /\ CountOf(e.sq, "timeout") \in Nat /\ CountOf(e.sq, "cancel") \in Nat
        /\ kernel.other \in Nat /\ e.inflight \in Int
    BY <1>1, CountFacts DEF Kernel, Env
  <2>2. p.inflight = CountOf(p.sq, "timeout") + Cardinality(kernel.req) + kernel.timer
    BY <1>2, <1>6, <2>1 DEF EnvOK, Books
  <2>3. p.io = p.inflight + CountOf(p.sq, "cancel") + kernel.other
    BY <1>2, <1>6, <2>1 DEF EnvOK, Books
  <2> QED  BY <2>2, <2>3 DEF Books
<1>8. Cancelled(p, e.armed) /\ \A id : Cancelled(e, id) => Cancelled(p, id)
  BY <1>4, <1>3 DEF Cancelled
<1>9. Named(p)
  <2>1. ASSUME NEW i \in 1..Len(p.sq), p.sq[i].op = "timeout"
        PROVE  /\ p.sq[i].id \in Ids
               /\ p.sq[i].id = p.armed \/ Cancelled(p, p.sq[i].id)
               /\ \A q \in kernel.req : q.id # p.sq[i].id
               /\ \A j \in 1..Len(p.sq) : p.sq[j].op = "timeout" /\ p.sq[j].id = p.sq[i].id => i = j
    <3>1. \A j \in 1..Len(p.sq) : p.sq[j].op = "timeout" =>
                                    j \in 1..Len(e.sq) /\ p.sq[j] = e.sq[j]
      BY <1>3, <1>4
    <3>2. Named(e)
      BY DEF EnvOK
    <3>3. i \in 1..Len(e.sq) /\ p.sq[i] = e.sq[i]
      BY <2>1, <3>1
    <3>4. /\ p.sq[i].id \in Ids
          /\ p.sq[i].id = p.armed \/ Cancelled(p, p.sq[i].id)
          /\ \A q \in kernel.req : q.id # p.sq[i].id
      BY <1>2, <1>8, <2>1, <3>2, <3>3 DEF Named
    <3>5. ASSUME NEW j \in 1..Len(p.sq), p.sq[j].op = "timeout", p.sq[j].id = p.sq[i].id
          PROVE  i = j
      BY <2>1, <3>1, <3>2, <3>3, <3>5 DEF Named
    <3> QED  BY <3>4, <3>5
  <2>2. \A q \in kernel.req : q.id = p.armed \/ Cancelled(p, q.id)
    BY <1>2, <1>8 DEF EnvOK, Named
  <2> QED  BY <2>1, <2>2 DEF EnvOK, Named
<1>10. /\ \A i \in 1..Len(p.sq) : p.sq[i].op = "timeout" => Cancelled(p, p.sq[i].id)
       /\ \A q \in kernel.req : Cancelled(p, q.id)
  BY <1>2, <1>8, <1>9 DEF Named
<1> QED  BY <1>2, <1>5, <1>7, <1>9, <1>10 DEF EnvOK

\* timer_refresh arms a request once every other one is cancelled.
LEMMA ArmKeeps ==
  ASSUME kernel \in Kernel, now \in Times, NEW f, EnvOK(f), NEW top \in Times,
         ~Full(f) =>
           /\ \A i \in 1..Len(f.sq) : f.sq[i].op = "timeout" => Cancelled(f, f.sq[i].id)
           /\ \A q \in kernel.req : Cancelled(f, q.id)
  PROVE  /\ EnvOK(Arm(f, top))
         /\ Arm(f, top).heap = f.heap
         /\ ~Arm(f, top).armPending => Arm(f, top).inflight > 0 /\ Arm(f, top).armedDl = top
<1>1. f \in Env /\ f.sq \in Seq(Entry)
  BY DEF EnvOK, Env, Entry
<1>2. CASE Full(f)
  <2>1. Arm(f, top) = [f EXCEPT !.armPending = TRUE]
    BY <1>2 DEF Arm
  <2>2. /\ Arm(f, top) \in Env /\ Arm(f, top).armPending /\ Arm(f, top).heap = f.heap
        /\ Arm(f, top).sq = f.sq /\ Arm(f, top).io = f.io
        /\ Arm(f, top).inflight = f.inflight /\ Arm(f, top).armed = f.armed
    BY <1>1, <2>1 DEF Env
  <2> QED  BY <2>2, EnvSame
<1>3. CASE ~Full(f)
  <2>1. PICK id \in Ids : /\ id = FreshId(f)
                          /\ \A i \in 1..Len(f.sq) : f.sq[i].id # id
                          /\ \A q \in kernel.req : q.id # id
    BY Fresh
  <2>2. PICK p : p = Prep(f, "timeout", id)
    OBVIOUS
  <2> DEFINE x == [op |-> "timeout", id |-> id]
             n == Len(f.sq) + 1
             a == Arm(f, top)
  <2>3. /\ p \in Env /\ p.sq = Append(f.sq, x) /\ p.io = f.io + 1
        /\ p.heap = f.heap /\ p.inflight = f.inflight
    BY <1>1, <2>2, PrepFields
  <2>4. PICK ts \in Times, k \in Int :
           /\ k = f.inflight + 1
           /\ a = [p EXCEPT !.armed = id, !.armedDl = top, !.ts = ts,
                            !.inflight = k, !.armPending = FALSE]
    <3>1. f.inflight + 1 \in Int /\ p.inflight + 1 = f.inflight + 1
      BY <1>1, <2>3 DEF Env
    <3>2. (IF top > now THEN top - now ELSE 0) \in Times
      BY ClockAssumption DEF Times
    <3>3. a = [p EXCEPT !.armed = id, !.armedDl = top,
                        !.ts = IF top > now THEN top - now ELSE 0,
                        !.inflight = p.inflight + 1, !.armPending = FALSE]
      BY <1>3, <2>1, <2>2, <2>3 DEF Arm, Env
    <3> QED  BY <3>1, <3>2, <3>3
  <2>5. /\ a \in Env /\ a.sq = Append(f.sq, x) /\ a.io = f.io + 1 /\ a.inflight = f.inflight + 1
        /\ a.heap = f.heap /\ a.armed = id /\ a.armedDl = top
    <3> HIDE DEF a
    <3> QED  BY <2>3, <2>4 DEF Env, Times
  <2>6. x \in Entry /\ x.op = "timeout" /\ x.id = id
    BY DEF Entry
  <2>7. /\ Len(a.sq) = n /\ a.sq[n] = x /\ n \in 1..n
        /\ \A i \in 1..Len(f.sq) : a.sq[i] = f.sq[i] /\ i \in 1..n
        /\ \A i \in 1..n : i = n \/ i \in 1..Len(f.sq)
    BY <1>1, <2>5
  <2>8. Len(a.sq) <= SqSize
    BY <1>1, <1>3, <2>7, SqSizeAssumption DEF Full
  <2>9. /\ CountOf(a.sq, "timeout") = CountOf(f.sq, "timeout") + 1
        /\ CountOf(a.sq, "cancel") = CountOf(f.sq, "cancel") + 0
    BY <1>1, <2>5, <2>6, CountAppend DEF Is
  <2> HIDE DEF a, x, n
  <2>10. /\ CountOf(f.sq, "timeout") \in Nat /\ CountOf(f.sq, "cancel") \in Nat
         /\ kernel.timer \in Nat /\ kernel.other \in Nat /\ f.inflight \in Int
    BY <1>1, CountFacts DEF Kernel, Env
  <2>11. IsFiniteSet(kernel.req) /\ Cardinality(kernel.req) \in Nat
    <3>1. IsFiniteSet(kernel.req)
      BY AtMostOne DEF EnvOK, Named
    <3> QED  BY <3>1, FS_CardinalityType
  <2>12. Books(a) /\ a.inflight > 0
    <3>1. /\ f.inflight = CountOf(f.sq, "timeout") + Cardinality(kernel.req) + kernel.timer
          /\ f.io = f.inflight + CountOf(f.sq, "cancel") + kernel.other
      BY DEF EnvOK, Books
    <3>2. PICK t \in Nat, c \in Nat, r \in Nat, m \in Nat, o \in Nat :
            /\ t = CountOf(f.sq, "timeout") /\ c = CountOf(f.sq, "cancel")
            /\ r = Cardinality(kernel.req) /\ m = kernel.timer /\ o = kernel.other
      BY <2>10, <2>11
    <3>3. /\ t + r + m + 1 = (t + 1) + r + m /\ t + r + m + 1 > 0
          /\ t + r + m + c + o + 1 = t + r + m + 1 + (c + 0) + o
      OBVIOUS
    <3>4. /\ a.inflight = t + r + m + 1 /\ a.io = t + r + m + c + o + 1
          /\ CountOf(a.sq, "timeout") = t + 1 /\ CountOf(a.sq, "cancel") = c + 0
      BY <2>5, <2>9, <3>1, <3>2
    <3> QED  BY <3>2, <3>3, <3>4 DEF Books
  <2>13. \A j : Cancelled(f, j) => Cancelled(a, j)
    BY <2>7 DEF Cancelled
  <2>14. Named(a)
    <3>1. ASSUME NEW i \in 1..Len(a.sq), a.sq[i].op = "timeout"
          PROVE  /\ a.sq[i].id \in Ids
                 /\ a.sq[i].id = a.armed \/ Cancelled(a, a.sq[i].id)
                 /\ \A q \in kernel.req : q.id # a.sq[i].id
                 /\ \A j \in 1..Len(a.sq) :
                      a.sq[j].op = "timeout" /\ a.sq[j].id = a.sq[i].id => i = j
      <4>1. CASE i = n
        BY <2>1, <2>5, <2>6, <2>7, <4>1
      <4>2. CASE i \in 1..Len(f.sq)
        BY <1>3, <2>1, <2>5, <2>6, <2>7, <2>13, <3>1, <4>2 DEF EnvOK, Named
      <4> QED  BY <2>7, <4>1, <4>2
    <3>2. \A q \in kernel.req : Cancelled(a, q.id)
      BY <1>3, <2>13
    <3> QED  BY <3>1, <3>2 DEF Named, EnvOK
  <2> QED  BY <2>5, <2>8, <2>12, <2>14 DEF EnvOK, a
<1> QED  BY <1>2, <1>3

\* timer_refresh keeps the books, and afterwards the front of the heap is served.
LEMMA RefreshKeeps ==
  ASSUME kernel \in Kernel, now \in Times, NEW e, EnvOK(e),
         NEW dl, \A s \in e.heap : dl[s] \in Times
  PROVE  EnvOK(Refresh(e, dl)) /\ Served(Refresh(e, dl), dl)
<1>1. e \in Env /\ e.sq \in Seq(Entry) /\ e.inflight \in Int
  BY DEF EnvOK, Env, Entry
<1>2. PICK g : g = CancelArmed(e)
  OBVIOUS
<1>3. /\ EnvOK(g) /\ g.heap = e.heap
      /\ ~Full(g) =>
           /\ \A i \in 1..Len(g.sq) : g.sq[i].op = "timeout" => Cancelled(g, g.sq[i].id)
           /\ \A q \in kernel.req : Cancelled(g, q.id)
  <2>1. CASE e.inflight > 0 /\ ~Full(e)
    <3>1. g = Prep(e, "cancel", e.armed)
      BY <1>2, <2>1 DEF CancelArmed
    <3> QED  BY <2>1, <3>1, CancelKeeps
  <2>2. CASE Full(e)
    BY <1>2, <2>2 DEF CancelArmed
  <2>3. CASE ~(e.inflight > 0)
    <3>1. g = e
      BY <1>2, <2>3 DEF CancelArmed
    <3>2. PICK n \in Nat, r \in Nat, m \in Nat :
            /\ n = CountOf(e.sq, "timeout") /\ r = Cardinality(kernel.req) /\ m = kernel.timer
      <4>1. CountOf(e.sq, "timeout") \in Nat /\ kernel.timer \in Nat
        BY <1>1, CountFacts DEF Kernel
      <4>2. IsFiniteSet(kernel.req)
        BY AtMostOne DEF EnvOK, Named
      <4> QED  BY <4>1, <4>2, FS_CardinalityType
    <3>3. n = 0 /\ r = 0
      <4>1. e.inflight = n + r + m
        BY <3>2 DEF EnvOK, Books
      <4> QED  BY <2>3, <4>1
    <3>4. \A i \in 1..Len(e.sq) : e.sq[i].op # "timeout"
      BY <1>1, <3>2, <3>3, CountFacts
    <3>5. kernel.req = {}
      <4>1. IsFiniteSet(kernel.req)
        BY AtMostOne DEF EnvOK, Named
      <4> QED  BY <3>2, <3>3, <4>1, FS_EmptySet
    <3> QED  BY <3>1, <3>4, <3>5
  <2> QED  BY <2>1, <2>2, <2>3
<1>4. CASE e.heap = {}
  <2>1. PICK b : /\ b \in BOOLEAN
                 /\ Refresh(e, dl) \in {[e EXCEPT !.armPending = b], [g EXCEPT !.armPending = b]}
    <3>1. TRUE \in BOOLEAN /\ FALSE \in BOOLEAN
      OBVIOUS
    <3>2. CASE e.inflight > 0 /\ Full(e)
      BY <1>4, <3>1, <3>2 DEF Refresh
    <3>3. CASE ~(e.inflight > 0 /\ Full(e))
      BY <1>2, <1>4, <3>1, <3>3 DEF Refresh
    <3> QED  BY <3>2, <3>3
  <2>2. ASSUME NEW h, EnvOK(h), h.heap = {}
        PROVE  EnvOK([h EXCEPT !.armPending = b]) /\ [h EXCEPT !.armPending = b].heap = {}
    <3>1. PICK k : k = [h EXCEPT !.armPending = b]
      OBVIOUS
    <3>2. h \in Env
      BY <2>2 DEF EnvOK
    <3>3. /\ k \in Env /\ k.sq = h.sq /\ k.io = h.io /\ k.inflight = h.inflight
          /\ k.armed = h.armed /\ k.heap = h.heap
      BY <2>1, <3>1, <3>2 DEF Env
    <3> QED  BY <2>2, <3>1, <3>3, EnvSame
  <2>3. EnvOK(Refresh(e, dl)) /\ Refresh(e, dl).heap = {}
    BY <1>3, <1>4, <2>1, <2>2
  <2> QED  BY <2>3 DEF Served
<1>5. CASE e.heap # {}
  <2>1. PICK top : top = Min({dl[s] : s \in e.heap})
    OBVIOUS
  <2>2. top \in Times /\ \A s \in e.heap : top <= dl[s]
    <3> DEFINE D == {dl[s] : s \in e.heap}
    <3>1. D \subseteq Times /\ D # {}
      BY <1>5
    <3>2. Times \subseteq Nat
      BY ClockAssumption DEF Times
    <3>3. \A s \in e.heap : dl[s] \in D
      OBVIOUS
    <3>4. top = Min(D)
      BY <2>1
    <3> HIDE DEF D
    <3>5. Min(D) \in D /\ \A y \in D : Min(D) <= y
      BY <3>1, <3>2, LeastNat
    <3> QED  BY <3>1, <3>3, <3>4, <3>5
  <2>3. CASE e.inflight > 0 /\ top >= e.armedDl /\ ~e.armPending
    <3>1. Refresh(e, dl) = e
      BY <1>5, <2>1, <2>3 DEF Refresh
    <3>2. \A s \in e.heap : e.armedDl <= dl[s]
      <4>1. e.armedDl \in Times
        BY <1>1 DEF Env, Times
      <4> QED  BY <2>2, <2>3, <4>1, ClockAssumption DEF Times
    <3> QED  BY <2>3, <3>1, <3>2 DEF Served
  <2>4. CASE ~(e.inflight > 0 /\ top >= e.armedDl /\ ~e.armPending)
    <3>1. PICK a : a = Arm(g, top)
      OBVIOUS
    <3>2. Refresh(e, dl) = a
      BY <1>2, <1>5, <2>1, <2>4, <3>1 DEF Refresh
    <3>3. /\ EnvOK(a) /\ a.heap = e.heap
          /\ ~a.armPending => a.inflight > 0 /\ a.armedDl = top
      BY <1>3, <2>2, <3>1, ArmKeeps
    <3> QED  BY <2>2, <3>2, <3>3 DEF Served
  <2> QED  BY <2>3, <2>4
<1> QED  BY <1>4, <1>5

\* The read of the eventfd is in no book.
LEMMA RegisterKeeps ==
  ASSUME kernel \in Kernel, NEW e, EnvOK(e)
  PROVE  /\ EnvOK(RegisterRead(e))
         /\ \A dl : Served(e, dl) => Served(RegisterRead(e), dl)
<1> DEFINE R == RegisterRead(e)
<1>1. e \in Env /\ e.sq \in Seq(Entry)
  BY DEF EnvOK, Env, Entry
<1>2. CASE Full(e)
  <2>1. R = [e EXCEPT !.retry = TRUE]
    BY <1>2 DEF RegisterRead
  <2>2. /\ R \in Env /\ R.sq = e.sq /\ R.io = e.io /\ R.inflight = e.inflight
        /\ R.armed = e.armed /\ R.heap = e.heap /\ R.armPending = e.armPending
        /\ R.armedDl = e.armedDl
    <3> HIDE DEF R
    <3> QED  BY <1>1, <2>1 DEF Env
  <2> QED  BY <2>2, EnvSame DEF Served
<1>3. CASE ~Full(e)
  <2> DEFINE x == [op |-> "read", id |-> 0]
             n == Len(e.sq) + 1
  <2>1. PICK p : p = Prep(e, "read", 0)
    OBVIOUS
  <2>2. /\ p \in Env /\ p.sq = Append(e.sq, x)
        /\ p.heap = e.heap /\ p.inflight = e.inflight /\ p.armed = e.armed
        /\ p.armedDl = e.armedDl /\ p.armPending = e.armPending
    BY <1>1, <2>1, PrepFields
  <2>3. R = [p EXCEPT !.io = e.io, !.retry = FALSE]
    BY <1>3, <2>1 DEF RegisterRead
  <2>4. x \in Entry /\ x.op = "read"
    BY DEF Entry
  <2> HIDE DEF R, x
  <2>5. /\ R \in Env /\ R.sq = Append(e.sq, x) /\ R.io = e.io /\ R.inflight = e.inflight
        /\ R.armed = e.armed /\ R.heap = e.heap /\ R.armPending = e.armPending
        /\ R.armedDl = e.armedDl
    BY <1>1, <2>2, <2>3 DEF Env
  <2>6. /\ Len(R.sq) = n /\ R.sq[n] = x /\ n \in 1..n
        /\ \A i \in 1..Len(e.sq) : R.sq[i] = e.sq[i] /\ i \in 1..n
        /\ \A i \in 1..n : i = n \/ i \in 1..Len(e.sq)
    BY <1>1, <2>4, <2>5
  <2>7. Len(R.sq) <= SqSize
    BY <1>1, <1>3, <2>6, SqSizeAssumption DEF Full
  <2> HIDE DEF n
  <2>8. /\ CountOf(R.sq, "timeout") = CountOf(e.sq, "timeout")
        /\ CountOf(R.sq, "cancel") = CountOf(e.sq, "cancel")
    <3>1. \A op : CountOf(R.sq, op) = CountOf(e.sq, op) + Is(x.op, op) /\ CountOf(e.sq, op) \in Nat
      BY <1>1, <2>4, <2>5, CountAppend, CountFacts
    <3> QED  BY <2>4, <3>1 DEF Is
  <2>9. Books(R)
    BY <2>5, <2>8 DEF EnvOK, Books
  <2>10. \A id : Cancelled(e, id) => Cancelled(R, id)
    BY <2>6 DEF Cancelled
  <2>11. Named(R)
    <3>1. ASSUME NEW i \in 1..Len(R.sq), R.sq[i].op = "timeout"
          PROVE  /\ R.sq[i].id \in Ids
                 /\ R.sq[i].id = R.armed \/ Cancelled(R, R.sq[i].id)
                 /\ \A q \in kernel.req : q.id # R.sq[i].id
                 /\ \A j \in 1..Len(R.sq) :
                      R.sq[j].op = "timeout" /\ R.sq[j].id = R.sq[i].id => i = j
      <4>1. i \in 1..Len(e.sq) /\ R.sq[i] = e.sq[i]
        BY <2>4, <2>6, <3>1
      <4> QED  BY <2>4, <2>5, <2>6, <2>10, <3>1, <4>1 DEF EnvOK, Named
    <3>2. \A q \in kernel.req : q.id = R.armed \/ Cancelled(R, q.id)
      BY <2>5, <2>10 DEF EnvOK, Named
    <3> QED  BY <3>1, <3>2 DEF EnvOK, Named
  <2>12. \A dl : Served(e, dl) => Served(R, dl)
    BY <2>5 DEF Served
  <2> QED  BY <2>5, <2>7, <2>9, <2>11, <2>12 DEF EnvOK, R
<1> QED  BY <1>2, <1>3

\* What the loop knows in its phases: it blocks with an empty submission queue, and
\* leaves with nothing to run and an empty heap.
Phases == /\ cur # None => ph \in {"sync", "yield", "fire"}
          /\ ph = "wait" => env.sq = <<>>
          /\ ph = "exit" => yield = {} /\ env.heap = {}

\* timer_on_fire serves the front only when it is done.
LoopInv == /\ kernel \in Kernel /\ EnvOK(env)
           /\ ph # "fire" => Served(env, Deadlines)
           /\ Phases

SameRing == /\ kernel' \in Kernel /\ kernel'.req = kernel.req
            /\ kernel'.timer = kernel.timer /\ kernel'.other = kernel.other

LEMMA LoopInit == Init => LoopInv
<1> SUFFICES ASSUME Init PROVE LoopInv
  OBVIOUS
<1>1. kernel \in Kernel
  BY DEF Init, Kernel
<1>2. env \in Env
  BY ClockAssumption DEF Init, Env, Ids
<1>3. /\ env.sq = <<>> /\ env.heap = {} /\ env.inflight = 0 /\ env.io = 0
      /\ kernel.req = {} /\ kernel.timer = 0 /\ kernel.other = 0
      /\ cur = None /\ ph = "top"
  BY DEF Init
<1>4. Books(env)
  <2>1. Cardinality(kernel.req) = 0
    BY <1>3, FS_EmptySet
  <2> QED  BY <1>3, <2>1, CountEmpty DEF Books
<1>5. Len(env.sq) <= SqSize
  BY <1>3, SqSizeAssumption
<1>6. Named(env)
  BY <1>3 DEF Named
<1>7. Served(env, Deadlines) /\ Phases
  BY <1>3 DEF Served, Phases
<1> QED  BY <1>1, <1>2, <1>4, <1>5, <1>6, <1>7 DEF LoopInv, EnvOK

\* A step of the thread on its own state: x is that state afterwards.
LEMMA EnvNext ==
  ASSUME NEW CONSTANT x, EnvOK(x), env' = x, SameRing
  PROVE  EnvOK(env)'
BY DEF SameRing, EnvOK, Books, Named, Cancelled

\* The deadlines of the slots change only when a coroutine goes to sleep.
LEMMA DeadlinesStay ==
  ASSUME \A s \in Sleeper : node'[s].dl = node[s].dl
  PROVE  Deadlines' = Deadlines
BY DEF Deadlines, Deadline

LEMMA DeadlinesTyped ==
  ASSUME WakeInv
  PROVE  Deadlines \in [Sleeper -> Times] /\ env.heap \subseteq Sleeper
BY DEF WakeInv, WakeTypes, Deadlines, Deadline

\* A step that does not touch the loop.
LEMMA LoopFrame ==
  ASSUME LoopInv, SameRing, env' = env, ph' = ph, yield' \subseteq yield,
         cur' # None => ph \in {"sync", "yield", "fire"}, Deadlines' = Deadlines
  PROVE  LoopInv'
<1>1. EnvOK(env)'
  BY EnvNext DEF LoopInv
<1>2. ph' # "fire" => Served(env, Deadlines)'
  BY DEF LoopInv, Served
<1>3. Phases'
  BY DEF LoopInv, Phases
<1> QED  BY <1>1, <1>2, <1>3 DEF LoopInv, SameRing

\* The coroutine that runs, without the heap, and other threads.
LEMMA LoopCo ==
  ASSUME WakeInv, LoopInv, NEW c \in Co,
         \/ \E s \in Sleeper : CoWake(c, s) \/ \E positive \in BOOLEAN : SleepFor(c, s, positive)
         \/ ClaimBusy(c) \/ Claim(c) \/ Finish(c) \/ ResumeSync(c) \/ ResumeYield(c)
  PROVE  LoopInv'
<1>1. /\ env' = env /\ ph' = ph /\ kernel' = kernel /\ yield' \subseteq yield
      /\ cur' # None => ph \in {"sync", "yield", "fire"}
  BY DEF SleepFor, ClaimBusy, Claim, CoWake, Finish, ResumeSync, ResumeYield, Runs, At,
         Suspends, LoopInv, Phases
<1>2. \A u \in Sleeper : node'[u].dl = node[u].dl
  BY DEF SleepFor, ClaimBusy, Claim, CoWake, Finish, ResumeSync, ResumeYield, slots,
         WakeInv, WakeTypes
<1>3. SameRing
  BY <1>1 DEF SameRing, LoopInv
<1> QED  BY <1>1, <1>2, <1>3, LoopFrame, DeadlinesStay

LEMMA LoopWaker ==
  ASSUME WakeInv, LoopInv, NEW w \in Waker,
         WakerStep(w) \/ \E s \in Sleeper : Wake(w, s)
  PROVE  LoopInv'
<1>1. UNCHANGED <<env, ph, yield, cur>>
  BY DEF WakerStep, WakePush, WakeWrite, Wake
<1>2. \A u \in Sleeper : node'[u].dl = node[u].dl
  BY DEF WakerStep, WakePush, WakeWrite, Wake, slots, WakeInv, WakeTypes
<1>3. SameRing
  <2>1. CASE kernel' = kernel
    BY <2>1 DEF SameRing, LoopInv
  <2>2. CASE WakeWrite(w)
    <3>1. PICK b : b = TRUE
      OBVIOUS
    <3>2. b \in BOOLEAN
      BY <3>1, Zenon
    <3>3. kernel' = [kernel EXCEPT !.efd = b]
      BY <2>2, <3>1 DEF WakeWrite
    <3> QED  BY <3>2, <3>3 DEF SameRing, LoopInv, Kernel
  <2> QED  BY <2>1, <2>2 DEF WakerStep, WakePush, Wake
<1>4. cur' # None => ph \in {"sync", "yield", "fire"}
  BY <1>1 DEF LoopInv, Phases
<1> QED  BY <1>1, <1>2, <1>3, <1>4, LoopFrame, DeadlinesStay

LEMMA LoopTick ==
  ASSUME WakeInv, LoopInv, Tick \/ UNCHANGED vars
  PROVE  LoopInv'
<1>1. UNCHANGED <<env, ph, yield, cur, node, kernel>>
  BY DEF Tick, vars, slots
<1>2. SameRing
  BY <1>1 DEF SameRing, LoopInv
<1>3. cur' # None => ph \in {"sync", "yield", "fire"}
  BY <1>1 DEF LoopInv, Phases
<1> QED  BY <1>1, <1>2, <1>3, LoopFrame, DeadlinesStay

\* Park and await_resume change the heap and call timer_refresh.
LEMMA LoopPark ==
  ASSUME WakeInv, LoopInv, NEW c \in Co, NEW d \in 1..MaxDur, Park(c, d)
  PROVE  LoopInv'
<1>1. /\ cur \in Co /\ pc[c] = "register" /\ cur' = None
      /\ UNCHANGED <<now, kernel, ph, yield>>
  BY DEF Park, Runs, Suspends
<1>2. PICK s \in Sleeper : s = on[c]
  BY NoneIsNobody DEF Park, WakeInv, CoInv, WakeTypes, Holds
<1>3. PICK dl \in Times : dl = Min({now + d, MaxNow})
  <2>1. now + d \in Nat
    BY ClockAssumption DEF WakeInv, WakeTypes, Times
  <2> QED  BY <2>1, MinPair, ClockAssumption DEF Times
<1>4. PICK g : g = [env EXCEPT !.heap = @ \cup {s}]
  OBVIOUS
<1>5. PICK h : h = [Deadlines EXCEPT ![s] = dl]
  OBVIOUS
<1>6. env' = Refresh(g, h)
  BY <1>2, <1>3, <1>4, <1>5 DEF Park
<1>7. Deadlines' = h
  <2>1. node' = [node EXCEPT ![s] = [st |-> "PARKED", dl |-> dl, prom |-> c]]
    BY <1>2, <1>3 DEF Park
  <2>2. \A u \in Sleeper : node'[u].dl = IF u = s THEN dl ELSE node[u].dl
    BY <2>1 DEF WakeInv, WakeTypes
  <2> QED  BY <1>5, <2>2 DEF Deadlines, Deadline
<1>8. h \in [Sleeper -> Times]
  BY <1>5, DeadlinesTyped
<1>9. EnvOK(g) /\ g.heap \subseteq Sleeper
  <2>1. env \in Env /\ EnvOK(env)
    BY DEF LoopInv, EnvOK
  <2>2. /\ g \in Env /\ g.sq = env.sq /\ g.io = env.io /\ g.inflight = env.inflight
        /\ g.armed = env.armed
    BY <1>4, <2>1 DEF Env
  <2>3. g.heap \subseteq Sleeper
    BY <2>2 DEF Env
  <2> QED  BY <2>1, <2>2, <2>3, EnvSame
<1>10. PICK x : x = Refresh(g, h)
  OBVIOUS
<1>11. EnvOK(x) /\ Served(x, h)
  <2>1. \A u \in g.heap : h[u] \in Times
    BY <1>8, <1>9
  <2> QED  BY <1>9, <1>10, <2>1, RefreshKeeps DEF LoopInv, WakeInv, WakeTypes
<1>12. EnvOK(env)'
  <2>1. SameRing
    BY <1>1 DEF SameRing, LoopInv
  <2> QED  BY <1>6, <1>10, <1>11, <2>1, EnvNext
<1>13. Served(env, Deadlines)'
  BY <1>6, <1>7, <1>10, <1>11 DEF Served
<1>14. Phases'
  BY <1>1, NoneIsNobody DEF LoopInv, Phases
<1> QED  BY <1>1, <1>12, <1>13, <1>14 DEF LoopInv

LEMMA LoopAwaitResume ==
  ASSUME WakeInv, LoopInv, NEW c \in Co, AwaitResume(c)
  PROVE  LoopInv'
<1>1. /\ cur \in Co /\ UNCHANGED <<now, kernel, ph, yield, cur>>
      /\ ph \in {"sync", "yield", "fire"}
  BY NoneIsNobody DEF AwaitResume, Runs, LoopInv, Phases
<1>2. PICK s \in Sleeper : s = on[c]
  BY NoneIsNobody DEF AwaitResume, WakeInv, CoInv, WakeTypes, Holds
<1>3. Deadlines' = Deadlines
  <2>1. node' = [node EXCEPT ![s].st = "IDLE", ![s].prom = None]
    BY <1>2 DEF AwaitResume
  <2>2. \A u \in Sleeper : node'[u].dl = node[u].dl
    BY <2>1 DEF WakeInv, WakeTypes
  <2> QED  BY <2>2, DeadlinesStay
<1>4. SameRing
  BY <1>1 DEF SameRing, LoopInv
<1>5. CASE s \notin env.heap
  <2>1. env' = env
    BY <1>2, <1>5 DEF AwaitResume
  <2> QED  BY <1>1, <1>3, <1>4, <2>1, LoopFrame
<1>6. CASE s \in env.heap
  <2>1. PICK g : g = [env EXCEPT !.heap = @ \ {s}]
    OBVIOUS
  <2>2. PICK x : x = Refresh(g, Deadlines)
    OBVIOUS
  <2>3. env' = x
    BY <1>2, <1>6, <2>1, <2>2 DEF AwaitResume
  <2>4. EnvOK(g) /\ g.heap \subseteq Sleeper
    <3>1. env \in Env /\ EnvOK(env)
      BY DEF LoopInv, EnvOK
    <3>2. /\ g \in Env /\ g.sq = env.sq /\ g.io = env.io /\ g.inflight = env.inflight
          /\ g.armed = env.armed
      BY <2>1, <3>1 DEF Env
    <3>3. g.heap \subseteq Sleeper
      BY <3>2 DEF Env
    <3> QED  BY <3>1, <3>2, <3>3, EnvSame
  <2>5. EnvOK(x) /\ Served(x, Deadlines)
    <3>1. \A u \in g.heap : Deadlines[u] \in Times
      BY <2>4, DeadlinesTyped
    <3> QED  BY <2>2, <2>4, <3>1, RefreshKeeps DEF LoopInv, WakeInv, WakeTypes
  <2>6. EnvOK(env)'
    BY <1>4, <2>3, <2>5, EnvNext
  <2>7. Served(env, Deadlines)'
    BY <1>3, <2>3, <2>5 DEF Served
  <2>8. Phases'
    BY <1>1 DEF Phases
  <2> QED  BY <1>4, <2>6, <2>7, <2>8 DEF LoopInv, SameRing
<1> QED  BY <1>5, <1>6

\* timer_on_fire pops the heap.
LEMMA LoopFire ==
  ASSUME WakeInv, LoopInv, NEW s \in Sleeper, Fire(s)
  PROVE  LoopInv'
<1>1. ph = "fire" /\ UNCHANGED <<kernel, ph, yield>>
  BY DEF Fire, At
<1>2. PICK x : x = [env EXCEPT !.heap = @ \ {s}]
  OBVIOUS
<1>3. env' = x
  BY <1>2 DEF Fire
<1>4. EnvOK(x)
  <2>1. env \in Env /\ EnvOK(env)
    BY DEF LoopInv, EnvOK
  <2>2. /\ x \in Env /\ x.sq = env.sq /\ x.io = env.io /\ x.inflight = env.inflight
        /\ x.armed = env.armed
    BY <1>2, <2>1 DEF Env
  <2> QED  BY <2>1, <2>2, EnvSame
<1>5. EnvOK(env)'
  BY <1>1, <1>3, <1>4, EnvNext DEF SameRing, LoopInv
<1>6. Phases'
  BY <1>1 DEF Phases
<1> QED  BY <1>1, <1>5, <1>6 DEF LoopInv

\* A step of schedule() that leaves the ring alone and runs no coroutine.
LEMMA LoopOwn ==
  ASSUME LoopInv, SameRing, NEW CONSTANT x, env' = x, EnvOK(x), Served(x, Deadlines),
         cur' = None, Deadlines' = Deadlines, ph' # "wait",
         ph' = "exit" => yield' = {} /\ x.heap = {}
  PROVE  LoopInv'
<1>1. EnvOK(env)'
  BY EnvNext
<1>2. Served(env, Deadlines)'
  BY DEF Served
<1>3. Phases'
  BY DEF Phases
<1> QED  BY <1>1, <1>2, <1>3 DEF LoopInv, SameRing

LEMMA LoopTop ==
  ASSUME WakeInv, LoopInv, Top \/ SyncEmpty \/ Retry \/ SkipIo \/ Waited \/ FireDone \/ CqeDone
  PROVE  LoopInv'
<1>1. UNCHANGED <<kernel, yield, node, cur>> /\ cur = None
  BY DEF Top, SyncEmpty, Retry, SkipIo, Waited, FireDone, CqeDone, Idle, slots, At
<1>2. SameRing /\ Deadlines' = Deadlines /\ kernel \in Kernel
  BY <1>1, DeadlinesStay DEF SameRing, LoopInv
<1>3. PICK r : r = Refresh(env, Deadlines)
  OBVIOUS
<1>4. EnvOK(r) /\ Served(r, Deadlines) /\ EnvOK(env)
  <2>1. \A u \in env.heap : Deadlines[u] \in Times
    BY DeadlinesTyped
  <2> QED  BY <1>3, <2>1, RefreshKeeps DEF LoopInv, WakeInv, WakeTypes
<1>5. CASE Top
  <2>1. PICK x : x = env'
    OBVIOUS
  <2>2. x = r \/ (x = env /\ Served(env, Deadlines))
    BY <1>3, <1>5, <2>1 DEF Top, At, LoopInv
  <2>3. ph' = "exit" => yield' = {} /\ x.heap = {}
    BY <1>1, <1>5, <2>1 DEF Top, NothingToDo, TimerActive
  <2>4. ph' # "wait"
    BY <1>5 DEF Top
  <2> QED  BY <1>1, <1>2, <1>4, <2>1, <2>2, <2>3, <2>4, LoopOwn
<1>6. CASE Retry
  <2>1. PICK y : y = IF env.armPending THEN r ELSE env
    OBVIOUS
  <2>2. EnvOK(y) /\ Served(y, Deadlines)
    BY <1>4, <1>6, <2>1 DEF Retry, At, LoopInv
  <2>3. PICK x : x = IF y.retry THEN RegisterRead(y) ELSE y
    OBVIOUS
  <2>4. EnvOK(x) /\ Served(x, Deadlines)
    BY <1>2, <2>2, <2>3, RegisterKeeps
  <2>5. env' = x /\ ph' = "io"
    BY <1>3, <1>6, <2>1, <2>3 DEF Retry
  <2> QED  BY <1>1, <1>2, <2>4, <2>5, LoopOwn
<1>7. CASE SyncEmpty \/ SkipIo \/ Waited \/ CqeDone
  <2>1. PICK x : x = env
    OBVIOUS
  <2>2. env' = x /\ ph' \in {"yield", "top", "cqe"} /\ ph # "fire"
    BY <1>7, <2>1 DEF SyncEmpty, SkipIo, Waited, CqeDone, At
  <2>3. EnvOK(x) /\ Served(x, Deadlines)
    BY <2>1, <2>2 DEF LoopInv
  <2> QED  BY <1>1, <1>2, <2>2, <2>3, LoopOwn
<1>8. CASE FireDone
  <2>1. env' = r /\ ph' = "cqe"
    BY <1>3, <1>8 DEF FireDone
  <2> QED  BY <1>1, <1>2, <1>4, <2>1, LoopOwn
<1> QED  BY <1>5, <1>6, <1>7, <1>8

\* The eventfd was read.
LEMMA LoopSync ==
  ASSUME WakeInv, LoopInv, CqeSync
  PROVE  LoopInv'
<1>1. UNCHANGED <<yield, node, cur, ph>> /\ cur = None /\ ph = "cqe"
  BY DEF CqeSync, slots, At
<1>2. Deadlines' = Deadlines
  BY <1>1, DeadlinesStay
<1>3. SameRing
  <2>1. PICK b : b = FALSE
    OBVIOUS
  <2>2. b \in BOOLEAN
    BY <2>1, Zenon
  <2>3. kernel' = [kernel EXCEPT !.efd = b, !.reading = b]
    BY <2>1 DEF CqeSync
  <2> QED  BY <2>2, <2>3 DEF SameRing, LoopInv, Kernel
<1>4. PICK x : x = RegisterRead(env)
  OBVIOUS
<1>5. EnvOK(x) /\ Served(x, Deadlines)
  BY <1>1, <1>4, RegisterKeeps DEF LoopInv
<1>6. env' = x
  BY <1>4 DEF CqeSync
<1> QED  BY <1>1, <1>2, <1>3, <1>5, <1>6, LoopOwn

\* What the ring owes, as numbers: t and c prepared, q ticking, m and o completed.
LEMMA BookNumbers ==
  ASSUME LoopInv
  PROVE  \E t, c, q, m, o \in Nat :
           /\ t = CountOf(env.sq, "timeout") /\ c = CountOf(env.sq, "cancel")
           /\ q = Cardinality(kernel.req) /\ m = kernel.timer /\ o = kernel.other
           /\ env.inflight = t + q + m /\ env.io = env.inflight + c + o
           /\ IsFiniteSet(kernel.req)
<1>1. env \in Env /\ env.sq \in Seq(Entry)
  BY DEF LoopInv, EnvOK, Env, Entry
<1>2. /\ CountOf(env.sq, "timeout") \in Nat /\ CountOf(env.sq, "cancel") \in Nat
      /\ kernel.timer \in Nat /\ kernel.other \in Nat
  BY <1>1, CountFacts DEF LoopInv, Kernel
<1>3. IsFiniteSet(kernel.req)
  BY AtMostOne DEF LoopInv, EnvOK, Named
<1>4. Cardinality(kernel.req) \in Nat
  BY <1>3, FS_CardinalityType
<1>5. Books(env)
  BY DEF LoopInv, EnvOK
<1> QED  BY <1>2, <1>3, <1>4, <1>5 DEF Books

\* Completions.
LEMMA LoopCqe ==
  ASSUME WakeInv, LoopInv, CqeOther \/ CqeTimer
  PROVE  LoopInv'
<1>1. /\ UNCHANGED <<yield, node, cur>> /\ cur = None /\ ph = "cqe"
      /\ ph' \in {"cqe", "fire"}
  BY DEF CqeOther, CqeTimer, slots, At
<1>2. Deadlines' = Deadlines
  BY <1>1, DeadlinesStay
<1>3. PICK t, c, q, m, o \in Nat :
           /\ t = CountOf(env.sq, "timeout") /\ c = CountOf(env.sq, "cancel")
           /\ q = Cardinality(kernel.req) /\ m = kernel.timer /\ o = kernel.other
           /\ env.inflight = t + q + m /\ env.io = env.inflight + c + o
  BY BookNumbers
<1>4. env \in Env /\ kernel \in Kernel
  BY DEF LoopInv, EnvOK
<1>5. PICK i \in Int, f \in Int, n \in Nat, k \in Nat :
         /\ i = t + q + n + c + k /\ f = t + q + n
         /\ env' = [env EXCEPT !.io = i, !.inflight = f]
         /\ kernel' = [kernel EXCEPT !.timer = n, !.other = k]
         /\ ph' # "fire" => n = m
  <2>1. CASE CqeOther
    <3>1. o > 0 /\ ph' = "cqe"
      BY <1>1, <1>3, <2>1 DEF CqeOther
    <3>2. PICK k \in Nat : k = o - 1 /\ t + q + m + c + k = (t + q + m + c + o) - 1
      BY <3>1
    <3>3. env.io - 1 = t + q + m + c + k /\ env.inflight = t + q + m
      BY <1>3, <3>2
    <3>4. env' = [env EXCEPT !.io = t + q + m + c + k, !.inflight = t + q + m]
      BY <1>4, <2>1, <3>3 DEF CqeOther, Env
    <3>5. kernel' = [kernel EXCEPT !.timer = m, !.other = k]
      BY <1>3, <1>4, <2>1, <3>2 DEF CqeOther, Kernel
    <3>6. t + q + m + c + k \in Int /\ t + q + m \in Int
      OBVIOUS
    <3> QED  BY <3>4, <3>5, <3>6
  <2>2. CASE CqeTimer
    <3>1. m > 0 /\ ph' = "fire"
      BY <1>1, <1>3, <2>2 DEF CqeTimer
    <3>2. PICK n \in Nat : /\ n = m - 1
                           /\ t + q + n + c + o = (t + q + m + c + o) - 1
                           /\ t + q + n = (t + q + m) - 1
      BY <3>1
    <3>3. env.io - 1 = t + q + n + c + o /\ env.inflight - 1 = t + q + n
      BY <1>3, <3>2
    <3>4. env' = [env EXCEPT !.io = t + q + n + c + o, !.inflight = t + q + n]
      BY <1>4, <2>2, <3>3 DEF CqeTimer, Env
    <3>5. kernel' = [kernel EXCEPT !.timer = n, !.other = o]
      BY <1>3, <1>4, <2>2, <3>2 DEF CqeTimer, Kernel
    <3>6. t + q + n + c + o \in Int /\ t + q + n \in Int
      OBVIOUS
    <3> QED  BY <3>1, <3>4, <3>5, <3>6
  <2> QED  BY <2>1, <2>2
<1>6. /\ env' \in Env /\ env'.io = i /\ env'.inflight = f /\ env'.sq = env.sq
      /\ env'.armed = env.armed /\ env'.armPending = env.armPending
      /\ env'.armedDl = env.armedDl /\ env'.heap = env.heap
  BY <1>4, <1>5 DEF Env
<1>7. kernel' \in Kernel /\ kernel'.req = kernel.req /\ kernel'.timer = n /\ kernel'.other = k
  BY <1>4, <1>5 DEF Kernel
<1>8. Books(env)'
  <2>1. t + q + n + c + k = (t + q + n) + c + k
    OBVIOUS
  <2>2. /\ CountOf(env.sq, "timeout")' = t /\ CountOf(env.sq, "cancel")' = c
        /\ Cardinality(kernel.req)' = q
    BY <1>3, <1>6, <1>7 DEF CountOf
  <2> QED  BY <1>5, <1>6, <1>7, <2>1, <2>2 DEF Books
<1>9. Named(env)' /\ (Len(env.sq) <= SqSize)'
  BY <1>6, <1>7 DEF LoopInv, EnvOK, Named, Cancelled
<1>10. ph' # "fire" => Served(env, Deadlines)'
  <2>1. ph' # "fire" => f = env.inflight
    BY <1>3, <1>5
  <2> QED  BY <1>1, <1>2, <1>6, <2>1 DEF LoopInv, Served
<1>11. Phases'
  BY <1>1 DEF Phases
<1> QED  BY <1>6, <1>7, <1>8, <1>9, <1>10, <1>11 DEF LoopInv, EnvOK

\* A timeout expires: it is no longer ticking, and completed.
LEMMA LoopExpire ==
  ASSUME WakeInv, LoopInv, NEW r \in kernel.req, Expire(r)
  PROVE  LoopInv'
<1>1. UNCHANGED <<env, ph, cur, yield, node>>
  BY DEF Expire, slots
<1>2. Deadlines' = Deadlines
  BY <1>1, DeadlinesStay
<1>3. PICK t, c, q, m, o \in Nat :
           /\ t = CountOf(env.sq, "timeout") /\ c = CountOf(env.sq, "cancel")
           /\ q = Cardinality(kernel.req) /\ m = kernel.timer /\ o = kernel.other
           /\ env.inflight = t + q + m /\ env.io = env.inflight + c + o
           /\ IsFiniteSet(kernel.req)
  BY BookNumbers
<1>4. /\ kernel' \in Kernel /\ kernel'.req = kernel.req \ {r}
      /\ kernel'.timer = m + 1 /\ kernel'.other = o
  <2>1. PICK n \in Nat : n = m + 1
    OBVIOUS
  <2>2. kernel \in Kernel /\ kernel' = [kernel EXCEPT !.req = kernel.req \ {r}, !.timer = n]
    BY <1>3, <2>1 DEF Expire, LoopInv, Kernel
  <2> QED  BY <1>3, <2>1, <2>2 DEF Kernel
<1>5. Cardinality(kernel.req)' = q - 1
  <2>1. Cardinality(kernel.req \ {r}) = q - 1
    BY <1>3, OneLess
  <2> QED  BY <1>4, <2>1
<1>6. Books(env)'
  <2>1. t + q + m = t + (q - 1) + (m + 1)
    OBVIOUS
  <2>2. CountOf(env.sq, "timeout")' = t /\ CountOf(env.sq, "cancel")' = c
    BY <1>1, <1>3 DEF CountOf
  <2>3. env.inflight' = t + q + m /\ env.io' = env.inflight' + c + o
    BY <1>1, <1>3
  <2> QED  BY <1>4, <1>5, <2>1, <2>2, <2>3 DEF Books
<1>7. Named(env)'
  BY <1>1, <1>4 DEF LoopInv, EnvOK, Named, Cancelled
<1>8. (ph # "fire" => Served(env, Deadlines))' /\ Phases'
  BY <1>1, <1>2 DEF LoopInv, Served, Phases
<1> QED  BY <1>1, <1>4, <1>6, <1>7, <1>8 DEF LoopInv, EnvOK

\* The prepared timeouts become as many requests in the kernel.
LEMMA SubmitCounts ==
  ASSUME LoopInv, NEW due
  PROVE  LET T == {[id |-> i, due |-> due] : i \in Entries("timeout")}
         IN  IsFiniteSet(T) /\ Cardinality(T) = CountOf(env.sq, "timeout")
<1> DEFINE J == {j \in 1..Len(env.sq) : env.sq[j].op = "timeout"}
           T == {[id |-> i, due |-> due] : i \in Entries("timeout")}
           f == [j \in J |-> [id |-> env.sq[j].id, due |-> due]]
<1>1. env.sq \in Seq(Entry)
  BY DEF LoopInv, EnvOK, Env, Entry
<1>2. IsFiniteSet(J) /\ Cardinality(J) = CountOf(env.sq, "timeout")
  BY <1>1, CountFacts DEF CountOf
<1>3. T = {[id |-> env.sq[j].id, due |-> due] : j \in J}
  BY DEF Entries
<1>4. \A i, j \in J : env.sq[i].id = env.sq[j].id => i = j
  BY DEF LoopInv, EnvOK, Named
<1>5. f \in [J -> T]
  BY <1>3
<1>6. \A x \in T : \E j \in J : f[j] = x
  BY <1>3
<1>7. \A i, j \in J : f[i] = f[j] => i = j
  <2> TAKE i, j \in J
  <2> HAVE f[i] = f[j]
  <2>1. f[i].id = env.sq[i].id /\ f[j].id = env.sq[j].id
    OBVIOUS
  <2> QED  BY <1>4, <2>1
<1> HIDE DEF f, J, T
<1>8. f \in Bijection(J, T)
  BY <1>5, <1>6, <1>7 DEF Bijection, Injection, Surjection, IsInjective
<1>9. IsFiniteSet(T) /\ Cardinality(T) = Cardinality(J)
  BY <1>2, <1>8, FS_Bijection DEF ExistsBijection
<1> QED  BY <1>2, <1>9 DEF T

\* The kernel takes the entries.
LEMMA LoopSubmit ==
  ASSUME WakeInv, LoopInv, Submit
  PROVE  LoopInv'
<1>1. /\ UNCHANGED <<cur, yield, node>> /\ cur = None /\ ph = "io" /\ ph' = "wait"
  BY DEF Submit, slots, At
<1>2. Deadlines' = Deadlines
  BY <1>1, DeadlinesStay
<1>3. PICK t, c, q, m, o \in Nat :
           /\ t = CountOf(env.sq, "timeout") /\ c = CountOf(env.sq, "cancel")
           /\ q = Cardinality(kernel.req) /\ m = kernel.timer /\ o = kernel.other
           /\ env.inflight = t + q + m /\ env.io = env.inflight + c + o
           /\ IsFiniteSet(kernel.req)
  BY BookNumbers
<1>4. env \in Env /\ kernel \in Kernel
  BY DEF LoopInv, EnvOK
<1>5. PICK due \in Times : due = Min({now + env.ts, MaxNow})
  <2>1. now + env.ts \in Nat
    BY <1>4, ClockAssumption DEF WakeInv, WakeTypes, Times, Env
  <2> QED  BY <2>1, MinPair, ClockAssumption DEF Times
<1> DEFINE T == {[id |-> i, due |-> due] : i \in Entries("timeout")}
           all == kernel.req \cup T
           hit == {x \in all : x.id \in Entries("cancel")}
<1>6. IsFiniteSet(T) /\ Cardinality(T) = t
  BY <1>3, SubmitCounts
<1>7. /\ \A x \in T : x.id \in Ids /\ (x.id = env.armed \/ x.id \in Entries("cancel"))
      /\ \A x \in T : \A y \in kernel.req : x.id # y.id
      /\ \A x \in kernel.req : x.id = env.armed \/ x.id \in Entries("cancel")
      /\ \A x, y \in T : x.id = y.id => x = y
      /\ \A x, y \in kernel.req : x = y
      /\ T \subseteq [id : Ids, due : Times]
  <2>1. \A id : Cancelled(env, id) => id \in Entries("cancel")
    BY DEF Cancelled, Entries
  <2>2. ASSUME NEW i \in Entries("timeout")
        PROVE  /\ i \in Ids /\ (i = env.armed \/ i \in Entries("cancel"))
               /\ \A y \in kernel.req : i # y.id
    BY <2>1 DEF Entries, LoopInv, EnvOK, Named
  <2>3. \A x \in T : x.id \in Entries("timeout") /\ x = [id |-> x.id, due |-> due]
    OBVIOUS
  <2>4. /\ \A x \in kernel.req : x.id = env.armed \/ x.id \in Entries("cancel")
        /\ \A x, y \in kernel.req : x = y
    BY <2>1 DEF LoopInv, EnvOK, Named
  <2>5. T \subseteq [id : Ids, due : Times]
    BY <2>2
  <2> HIDE DEF T
  <2>6. \A x, y \in T : x.id = y.id => x = y
    BY <2>3
  <2> QED  BY <2>2, <2>3, <2>4, <2>5, <2>6
<1> HIDE DEF T
<1>8. IsFiniteSet(all) /\ Cardinality(all) = q + t
  <2>1. kernel.req \cap T = {}
    BY <1>7
  <2>2. Cardinality(kernel.req \cap T) = 0
    BY <2>1, FS_EmptySet
  <2> QED  BY <1>3, <1>6, <2>2, FS_Union
<1>9. PICK h \in Nat, l \in Nat : /\ h = Cardinality(hit) /\ l = Cardinality(all \ hit)
                                  /\ l + h = q + t
  <2>1. all \cap hit = hit
    OBVIOUS
  <2> HIDE DEF all, hit
  <2>2. IsFiniteSet(hit) /\ IsFiniteSet(all \ hit)
    BY <1>8, <2>1, FS_Intersection, FS_Difference
  <2>3. Cardinality(hit) \in Nat /\ Cardinality(all \ hit) \in Nat
    BY <2>2, FS_CardinalityType
  <2>4. Cardinality(all \ hit) = Cardinality(all) - Cardinality(hit)
    <3>1. Cardinality(all \ hit) = Cardinality(all) - Cardinality(all \cap hit)
      BY <1>8, FS_Difference
    <3> QED  BY <2>1, <3>1
  <2> QED  BY <1>8, <2>3, <2>4
<1>10. all \ hit \subseteq [id : Ids, due : Times]
  <2>1. kernel.req \subseteq [id : Ids, due : Times]
    BY <1>4 DEF Kernel, Times
  <2> QED  BY <1>7, <2>1
<1>11. \A x \in all \ hit : x.id = env.armed
  BY <1>7
<1>12. \A x, y \in all \ hit : x = y
  BY <1>7, <1>11
<1>13. /\ kernel' \in Kernel /\ kernel'.req = all \ hit
       /\ kernel'.timer = m + h /\ kernel'.other = o + c
  <2>1. Count("cancel") = c
    BY <1>3 DEF Count, CountOf
  <2>2. PICK b : b = (kernel.reading \/ Count("read") > 0)
    OBVIOUS
  <2>3. b \in BOOLEAN
    BY <2>2, Zenon
  <2>4. PICK R \in SUBSET [id : Ids, due : 0..MaxNow] : R = all \ hit
    BY <1>10 DEF Times
  <2>5. PICK n \in Nat, k \in Nat : n = m + h /\ k = o + c
    OBVIOUS
  <2>6. kernel' = [kernel EXCEPT !.req = R, !.timer = n, !.other = k, !.reading = b]
    <3>1. kernel' = [kernel EXCEPT !.req = all \ hit,
                                   !.timer = kernel.timer + Cardinality(hit),
                                   !.other = kernel.other + Count("cancel"),
                                   !.reading = kernel.reading \/ Count("read") > 0]
      BY <1>4, <1>5 DEF Submit, Kernel, T
    <3> HIDE DEF all, hit
    <3> QED  BY <1>3, <1>9, <2>1, <2>2, <2>4, <2>5, <3>1
  <2> HIDE DEF all, hit
  <2>7. /\ kernel' \in Kernel /\ kernel'.req = R /\ kernel'.timer = n /\ kernel'.other = k
    BY <1>4, <2>3, <2>6 DEF Kernel
  <2> QED  BY <2>4, <2>5, <2>7
<1> HIDE DEF all, hit
<1>14. /\ env' \in Env /\ env'.sq = <<>> /\ env'.io = env.io /\ env'.inflight = env.inflight
       /\ env'.armed = env.armed /\ env'.armPending = env.armPending
       /\ env'.armedDl = env.armedDl /\ env'.heap = env.heap
  <2>1. PICK z \in Seq([op : {"timeout", "cancel", "read"}, id : Ids \cup {0}]) : z = <<>>
    <3>1. \A S : <<>> \in Seq(S)
      OBVIOUS
    <3> QED  BY <3>1, Zenon
  <2>2. env' = [env EXCEPT !.sq = z]
    BY <2>1 DEF Submit
  <2>3. /\ env' \in Env /\ env'.sq = z /\ env'.io = env.io /\ env'.inflight = env.inflight
        /\ env'.armed = env.armed /\ env'.armPending = env.armPending
        /\ env'.armedDl = env.armedDl /\ env'.heap = env.heap
    BY <1>4, <2>2 DEF Env
  <2> QED  BY <2>1, <2>3
<1>15. Books(env)'
  <2>1. CountOf(env.sq, "timeout")' = 0 /\ CountOf(env.sq, "cancel")' = 0
    <3>1. CountOf(<<>>, "timeout") = 0 /\ CountOf(<<>>, "cancel") = 0
      BY CountEmpty
    <3> QED  BY <1>14, <3>1 DEF CountOf
  <2>2. Cardinality(kernel.req)' = l
    BY <1>9, <1>13
  <2>3. t + q + m = 0 + l + (m + h) /\ t + q + m + c + o = t + q + m + 0 + (o + c)
    BY <1>9
  <2> QED  BY <1>3, <1>13, <1>14, <2>1, <2>2, <2>3 DEF Books
<1>16. Named(env)' /\ (Len(env.sq) <= SqSize)'
  <2>1. Len(<<>>) = 0 /\ 1..0 = {}
    OBVIOUS
  <2>2. \A x \in kernel'.req : x.id = env'.armed
    BY <1>11, <1>13, <1>14
  <2>3. \A x, y \in kernel'.req : x = y
    BY <1>12, <1>13
  <2> QED  BY <1>14, <2>1, <2>2, <2>3, SqSizeAssumption DEF Named
<1>17. Served(env, Deadlines)'
  BY <1>1, <1>2, <1>14 DEF LoopInv, Served
<1>18. Phases'
  BY <1>1, <1>14 DEF Phases
<1> QED  BY <1>13, <1>14, <1>15, <1>16, <1>17, <1>18 DEF LoopInv, EnvOK

LEMMA LoopStep == WakeInv /\ LoopInv /\ [Next]_vars => LoopInv'
<1> SUFFICES ASSUME WakeInv, LoopInv, [Next]_vars PROVE LoopInv'
  OBVIOUS
<1>1. CASE UNCHANGED vars
  BY <1>1, LoopTick
<1>2. CASE Schedule
  BY <1>2, LoopTop, LoopCo, LoopSync, LoopCqe, LoopSubmit, LoopFire DEF Schedule
<1>3. CASE \E c \in Co : CoStep(c)
  BY <1>3, LoopCo, LoopPark, LoopAwaitResume DEF CoStep
<1>4. CASE \E w \in Waker : WakerStep(w) \/ \E s \in Sleeper : Wake(w, s)
  BY <1>4, LoopWaker
<1>5. CASE Tick \/ \E q \in kernel.req : Expire(q)
  BY <1>5, LoopTick, LoopExpire
<1> QED  BY <1>1, <1>2, <1>3, <1>4, <1>5 DEF Next, Thread

\* Blocked with a sleeper in the heap, the thread waits for the armed request.
LEMMA ServedInWait ==
  ASSUME LoopInv
  PROVE  NoOversleep
<1> SUFFICES ASSUME At("wait"), ~Ready, ~env.armPending, env.heap # {}
             PROVE  /\ \E q \in kernel.req : q.id = env.armed
                    /\ \A s \in env.heap : env.armedDl <= Deadline(s)
  BY DEF NoOversleep, Blocked
<1>1. PICK t, c, q, m, o \in Nat :
           /\ t = CountOf(env.sq, "timeout") /\ c = CountOf(env.sq, "cancel")
           /\ q = Cardinality(kernel.req) /\ m = kernel.timer /\ o = kernel.other
           /\ env.inflight = t + q + m /\ env.io = env.inflight + c + o
           /\ IsFiniteSet(kernel.req)
  BY BookNumbers
<1>2. env.sq = <<>> /\ m = 0
  BY <1>1 DEF LoopInv, Phases, At, Ready
<1>3. t = 0
  BY <1>1, <1>2, CountEmpty
<1>4. Served(env, Deadlines)
  BY DEF LoopInv, At
<1>5. q > 0
  <2>1. t + q + m > 0
    BY <1>1, <1>4 DEF Served
  <2> QED  BY <1>2, <1>3, <2>1
<1>6. kernel.req # {}
  BY <1>1, <1>5, FS_EmptySet
<1>7. \A id : ~Cancelled(env, id)
  BY <1>2 DEF Cancelled
<1>8. \A r \in kernel.req : r.id = env.armed
  BY <1>7 DEF LoopInv, EnvOK, Named
<1>9. \A s \in env.heap : env.armedDl <= Deadline(s)
  <2>1. env.heap \subseteq Sleeper
    BY DEF LoopInv, EnvOK, Env
  <2> QED  BY <1>4, <2>1 DEF Served, Deadlines
<1> QED  BY <1>6, <1>8, <1>9

----------------------------------------------------------------------------
(* What is left in the sync list when the thread blocks *)

\* The read of the eventfd is prepared, or schedule() knows that it is not.
Reads(e) == e.retry \/ \E i \in 1..Len(e.sq) : e.sq[i].op = "read"

Settled == {"yield", "io", "wait"}

\* Once the sync list was empty, what comes into it is announced on the eventfd, or its
\* sleep is still in the heap; no coroutine wakes up before the completions are seen.
LeftInv ==
  /\ kernel.reading \/ Reads(env)
  /\ ph \in Settled => \A c \in sync : Writing \/ kernel.efd \/ on[c] \in env.heap
  /\ ph \in Settled /\ cur # None => pc[cur] # "resumed"
  /\ ph \in {"io", "wait"} => cur = None

LEMMA PrepReads ==
  ASSUME NEW e \in Env, NEW op \in {"timeout", "cancel", "read"}, NEW id \in Ids \cup {0},
         Reads(e) \/ op = "read", NEW p, p = Prep(e, op, id)
  PROVE  p \in Env /\ Reads(p)
<1> DEFINE x == [op |-> op, id |-> id]
<1>1. p \in Env /\ p.sq = Append(e.sq, x) /\ p.retry = e.retry
  BY PrepFields
<1>2. e.sq \in Seq(Entry) /\ x \in Entry /\ x.op = op
  BY DEF Env, Entry
<1> HIDE DEF x
<1>3. /\ Len(p.sq) = Len(e.sq) + 1 /\ p.sq[Len(e.sq) + 1] = x /\ Len(e.sq) \in Nat
      /\ \A i \in 1..Len(e.sq) : p.sq[i] = e.sq[i] /\ i \in 1..Len(p.sq)
  BY <1>1, <1>2
<1> QED  BY <1>1, <1>2, <1>3 DEF Reads

LEMMA RefreshReads ==
  ASSUME kernel \in Kernel, NEW e, EnvOK(e), Reads(e), NEW dl
  PROVE  Reads(Refresh(e, dl))
<1>1. e \in Env
  BY DEF EnvOK
<1>2. PICK k : k = CancelArmed(e)
  OBVIOUS
<1>3. EnvOK(k) /\ k \in Env /\ Reads(k)
  <2>1. CASE e.inflight > 0 /\ ~Full(e)
    <3>1. k = Prep(e, "cancel", e.armed) /\ e.armed \in Ids \cup {0}
      BY <1>1, <1>2, <2>1 DEF CancelArmed, Env
    <3>2. EnvOK(k)
      BY <2>1, <3>1, CancelKeeps
    <3> QED  BY <1>1, <3>1, <3>2, PrepReads
  <2>2. CASE ~(e.inflight > 0 /\ ~Full(e))
    BY <1>1, <1>2, <2>2 DEF CancelArmed
  <2> QED  BY <2>1, <2>2
<1>4. \A f \in Env, b \in BOOLEAN : Reads(f) => Reads([f EXCEPT !.armPending = b])
  BY DEF Reads, Env
<1>5. TRUE \in BOOLEAN /\ FALSE \in BOOLEAN
  BY Zenon
<1>6. ASSUME NEW top PROVE Reads(Arm(k, top))
  <2>1. CASE Full(k)
    BY <1>3, <1>4, <1>5, <2>1 DEF Arm
  <2>2. CASE ~Full(k)
    <3>1. PICK id \in Ids : id = FreshId(k)
      BY <1>3, Fresh
    <3>2. PICK p : p = Prep(k, "timeout", id)
      OBVIOUS
    <3>3. p \in Env /\ Reads(p)
      BY <1>3, <3>2, PrepReads
    <3>4. PICK a, t, n : Arm(k, top) = [p EXCEPT !.armed = a, !.armedDl = top, !.ts = t,
                                                 !.inflight = n, !.armPending = FALSE]
      BY <2>2, <3>1, <3>2 DEF Arm
    <3> QED  BY <3>3, <3>4 DEF Reads, Env
  <2> QED  BY <2>1, <2>2
<1>7. Reads([k EXCEPT !.armPending = FALSE]) /\ Reads([e EXCEPT !.armPending = TRUE])
  BY <1>1, <1>3, <1>4, <1>5
<1> QED  BY <1>2, <1>6, <1>7 DEF Refresh

LEMMA RegisterReads ==
  ASSUME NEW e \in Env
  PROVE  Reads(RegisterRead(e))
<1>1. CASE Full(e)
  <2>1. RegisterRead(e) = [e EXCEPT !.retry = TRUE]
    BY <1>1 DEF RegisterRead
  <2> QED  BY <2>1 DEF Reads, Env
<1>2. CASE ~Full(e)
  <2>1. PICK p : p = Prep(e, "read", 0)
    OBVIOUS
  <2>2. p \in Env /\ p.sq = Append(e.sq, [op |-> "read", id |-> 0]) /\ e.sq \in Seq(Entry)
    BY <2>1, PrepFields DEF Env, Entry
  <2>3. \E i \in 1..Len(p.sq) : p.sq[i].op = "read"
    <3>1. Len(p.sq) = Len(e.sq) + 1 /\ p.sq[Len(e.sq) + 1].op = "read" /\ Len(e.sq) \in Nat
      BY <2>2
    <3> QED  BY <3>1
  <2>4. RegisterRead(e) = [p EXCEPT !.io = e.io, !.retry = FALSE]
    BY <1>2, <2>1 DEF RegisterRead
  <2> QED  BY <2>2, <2>3, <2>4 DEF Reads, Env
<1> QED  BY <1>1, <1>2

LEMMA LeftInit == Init => LeftInv
BY DEF Init, LeftInv, Settled

\* A step that announces no coroutine and takes none out of the heap.
LEMMA LeftFrame ==
  ASSUME LeftInv, sync' \subseteq sync, kernel' = kernel, Writing => Writing',
         ph' = ph, UNCHANGED <<env, cur, pc>>, \A c \in sync : on'[c] = on[c]
  PROVE  LeftInv'
BY DEF LeftInv, Reads, Settled

\* The coroutine that runs.
LEMMA LeftCo ==
  ASSUME WakeInv, LoopInv, LeftInv, NEW c \in Co, CoStep(c)
  PROVE  LeftInv'
<1>1. cur = c /\ c \notin sync /\ kernel' = kernel /\ ph' = ph /\ waker' = waker
  <2>1. cur = c /\ kernel' = kernel /\ ph' = ph /\ waker' = waker /\ pc[c] # "parked"
    BY DEF CoStep, CoWake, SleepFor, ClaimBusy, Claim, Park, AwaitResume, Finish, Runs
  <2> QED  BY <2>1 DEF WakeInv, CoInv
<1>2. ph \in {"sync", "yield", "fire"}
  BY <1>1, NoneIsNobody DEF LoopInv, Phases
<1>3. cur' # None /\ ph = "yield" => pc'[cur'] # "resumed"
  BY <1>1 DEF CoStep, CoWake, SleepFor, ClaimBusy, Claim, Park, AwaitResume, Finish, Runs,
     Goes, Suspends, LeftInv, Settled, WakeInv, WakeTypes
<1>4. ph = "yield" => \A a \in sync' : (a \in sync /\ on'[a] = on[a]) \/ on'[a] \in env.heap
  <2>1. CASE \E s \in Sleeper : CoWake(c, s)
    <3>1. PICK s \in Sleeper : CoWake(c, s)
      BY <2>1
    <3>2. sync' = sync \/ (node[s].st = "PARKED" /\ sync' = sync \cup {node[s].prom})
      BY <3>1 DEF CoWake
    <3>3. on' = on
      BY <3>1 DEF CoWake
    <3> QED  BY <3>2, <3>3 DEF WakeInv, SlotInv
  <2>2. CASE ~\E s \in Sleeper : CoWake(c, s)
    <3>1. sync' = sync /\ \A a \in Co \ {c} : on'[a] = on[a]
      BY <2>2 DEF CoStep, SleepFor, ClaimBusy, Claim, Park, AwaitResume, Finish,
         WakeInv, WakeTypes
    <3> QED  BY <1>1, <3>1 DEF WakeInv, WakeTypes
  <2> QED  BY <2>1, <2>2
<1>5. ph = "yield" => env.heap \subseteq env'.heap
  <2>1. ASSUME NEW d \in 1..MaxDur, Park(c, d) PROVE env.heap \subseteq env'.heap
    <3>1. PICK g : g = [env EXCEPT !.heap = @ \cup {on[c]}]
      OBVIOUS
    <3>2. g.heap = env.heap \cup {on[c]} /\ "heap" \in DOMAIN g
      BY <3>1 DEF WakeInv, WakeTypes
    <3>3. PICK h : env' = Refresh(g, h)
      BY <2>1, <3>1 DEF Park
    <3> QED  BY <3>2, <3>3, RefreshHeap
  <2>2. ph = "yield" => ~AwaitResume(c)
    BY <1>1, NoneIsNobody DEF LeftInv, Settled, AwaitResume
  <2> QED  BY <2>1, <2>2 DEF CoStep, CoWake, SleepFor, ClaimBusy, Claim, Finish
<1>6. Reads(env) => Reads(env')
  <2>0. SUFFICES ASSUME Reads(env) PROVE Reads(env')
    OBVIOUS
  <2>1. \A s \in SUBSET Sleeper : EnvOK([env EXCEPT !.heap = s]) /\ Reads([env EXCEPT !.heap = s])
    <3> TAKE s \in SUBSET Sleeper
    <3>1. PICK g : g = [env EXCEPT !.heap = s]
      OBVIOUS
    <3>2. env \in Env /\ EnvOK(env)
      BY DEF LoopInv, EnvOK
    <3>3. /\ g \in Env /\ g.sq = env.sq /\ g.io = env.io /\ g.inflight = env.inflight
          /\ g.armed = env.armed /\ g.retry = env.retry
      BY <3>1, <3>2 DEF Env
    <3> QED  BY <2>0, <3>1, <3>2, <3>3, EnvSame DEF Reads
  <2>2. ASSUME NEW d \in 1..MaxDur, Park(c, d) PROVE Reads(env')
    <3>1. on[c] \in Sleeper
      BY <2>2 DEF Park, WakeInv, WakeTypes, CoInv, Holds
    <3>2. PICK s \in SUBSET Sleeper : s = env.heap \cup {on[c]}
      BY <3>1 DEF WakeInv, WakeTypes
    <3>3. PICK h : env' = Refresh([env EXCEPT !.heap = s], h)
      BY <2>2, <3>2 DEF Park
    <3> QED  BY <2>1, <3>3, RefreshReads DEF LoopInv
  <2>3. CASE AwaitResume(c)
    <3>1. PICK s \in SUBSET Sleeper : s = env.heap \ {on[c]}
      BY DEF WakeInv, WakeTypes
    <3>2. env' = env \/ env' = Refresh([env EXCEPT !.heap = s], Deadlines)
      BY <2>3, <3>1 DEF AwaitResume
    <3> QED  BY <2>0, <2>1, <3>2, RefreshReads DEF LoopInv
  <2> QED  BY <2>0, <2>2, <2>3 DEF CoStep, CoWake, SleepFor, ClaimBusy, Claim, Finish
<1>7. (ph \in Settled => \A a \in sync : Writing \/ kernel.efd \/ on[a] \in env.heap)'
  BY <1>1, <1>2, <1>4, <1>5 DEF LeftInv, Settled, Writing
<1> QED  BY <1>1, <1>2, <1>3, <1>6, <1>7 DEF LeftInv, Settled

\* Other threads.
LEMMA LeftWaker ==
  ASSUME WakeInv, LoopInv, LeftInv, NEW w \in Waker,
         WakerStep(w) \/ \E s \in Sleeper : Wake(w, s)
  PROVE  LeftInv'
<1>1. UNCHANGED <<env, ph, cur, pc, on>>
  BY DEF WakerStep, WakePush, WakeWrite, Wake, coros
<1>2. CASE \E s \in Sleeper : Wake(w, s)
  <2>1. UNCHANGED <<kernel, sync>> /\ waker[w].pc = "idle"
        /\ \A v \in Waker \ {w} : waker'[v] = waker[v]
    BY <1>2 DEF Wake, WakeInv, WakeTypes
  <2> QED  BY <1>1, <2>1, LeftFrame DEF Writing
<1>3. CASE WakePush(w)
  <2>1. kernel' = kernel /\ waker'[w].pc = "write"
    BY <1>3 DEF WakePush, WakeInv, WakeTypes
  <2> QED  BY <1>1, <2>1 DEF LeftInv, Settled, Writing
<1>4. CASE WakeWrite(w)
  <2>1. sync' = sync
    BY <1>4 DEF WakeWrite
  <2>2. kernel'.efd /\ kernel'.reading = kernel.reading
    BY <1>4 DEF WakeWrite, LoopInv, Kernel
  <2> QED  BY <1>1, <2>1, <2>2 DEF LeftInv
<1> QED  BY <1>2, <1>3, <1>4 DEF WakerStep

\* The steps of schedule(), of the clock and of the kernel.
LEMMA LeftLoop ==
  ASSUME WakeInv, LoopInv, LeftInv,
         Schedule \/ Tick \/ (\E q \in kernel.req : Expire(q)) \/ UNCHANGED vars
  PROVE  LeftInv'
<1>1. PICK r : r = Refresh(env, Deadlines)
  OBVIOUS
<1>2. /\ r.heap = env.heap /\ EnvOK(r) /\ r \in Env /\ env \in Env /\ EnvOK(env)
      /\ Reads(env) => Reads(r)
  <2>1. r.heap = env.heap
    BY <1>1, RefreshHeap DEF WakeInv, WakeTypes
  <2>2. \A u \in env.heap : Deadlines[u] \in Times
    BY DeadlinesTyped
  <2>3. EnvOK(r)
    BY <1>1, <2>2, RefreshKeeps DEF LoopInv, WakeInv, WakeTypes
  <2> QED  BY <1>1, <2>1, <2>3, RefreshReads DEF LoopInv, EnvOK
<1>3. \A e \in Env : Reads(RegisterRead(e)) /\ RegisterRead(e).heap = e.heap
  BY RegisterReads, RegisterHeap DEF Env
<1>4. CASE UNCHANGED vars \/ Tick
  BY <1>4, LeftFrame DEF vars, Tick, coros, Writing
<1>5. CASE \E q \in kernel.req : Expire(q)
  <2>1. UNCHANGED <<sync, env, ph, cur, pc, on, waker>>
    BY <1>5 DEF Expire, coros
  <2>2. kernel'.efd = kernel.efd /\ kernel'.reading = kernel.reading
    BY <1>5 DEF Expire, LoopInv, Kernel
  <2> QED  BY <2>1, <2>2 DEF LeftInv, Writing
<1>6. CASE Top \/ SkipIo \/ Waited \/ CqeDone \/ FireDone
  <2>1. kernel' = kernel /\ ph' \notin Settled /\ env' \in {env, r}
    BY <1>1, <1>6 DEF Top, SkipIo, Waited, CqeDone, FireDone, Idle, Settled
  <2> QED  BY <1>2, <2>1 DEF LeftInv, Settled
<1>7. CASE \E c \in Co : ResumeSync(c)
  <2>1. kernel' = kernel /\ env' = env /\ ph' \notin Settled
    BY <1>7 DEF ResumeSync, At, Settled
  <2> QED  BY <2>1 DEF LeftInv, Settled
<1>8. CASE SyncEmpty
  <2>1. sync' = {} /\ kernel' = kernel /\ env' = env /\ cur' = None /\ ph' = "yield"
    BY <1>8 DEF SyncEmpty, At, Idle
  <2> QED  BY <2>1 DEF LeftInv
<1>9. CASE \E c \in Co : ResumeYield(c)
  <2>1. PICK c \in Co : ResumeYield(c)
    BY <1>9
  <2>2. /\ UNCHANGED <<sync, kernel, env, on, waker>> /\ ph = "yield" /\ ph' = "yield"
        /\ cur' = c /\ pc'[c] = "run"
    BY <2>1 DEF ResumeYield, At, Goes, WakeInv, WakeTypes
  <2> QED  BY <2>2 DEF LeftInv, Settled, Writing
<1>10. CASE Retry
  <2>1. PICK y : y = IF env.armPending THEN r ELSE env
    OBVIOUS
  <2>2. y \in Env /\ y.heap = env.heap /\ (Reads(env) => Reads(y))
    BY <1>2, <2>1
  <2>3. env' = IF y.retry THEN RegisterRead(y) ELSE y
    BY <1>1, <1>10, <2>1 DEF Retry
  <2>4. env'.heap = env.heap /\ (Reads(env) => Reads(env'))
    BY <1>3, <2>2, <2>3
  <2>5. UNCHANGED <<sync, kernel, on, waker>> /\ ph = "yield" /\ ph' = "io" /\ cur' = None
    BY <1>10 DEF Retry, At, Idle, coros
  <2> QED  BY <2>4, <2>5 DEF LeftInv, Settled, Writing
<1>11. CASE Submit
  <2>1. UNCHANGED <<sync, on, waker>> /\ ph = "io" /\ ph' = "wait" /\ cur' = None
    BY <1>11 DEF Submit, At, coros
  <2>2. env'.heap = env.heap /\ env'.retry = env.retry
    BY <1>2, <1>11 DEF Submit, Env
  <2>3. /\ kernel'.efd = kernel.efd
        /\ kernel'.reading = (kernel.reading \/ Count("read") > 0)
    BY <1>11 DEF Submit, LoopInv, Kernel
  <2>4. (\E i \in 1..Len(env.sq) : env.sq[i].op = "read") => Count("read") > 0
    <3>1. env.sq \in Seq(Entry)
      BY <1>2 DEF Env, Entry
    <3>2. CountOf(env.sq, "read") \in Nat
          /\ (CountOf(env.sq, "read") = 0 <=> \A j \in 1..Len(env.sq) : env.sq[j].op # "read")
      BY <3>1, CountFacts
    <3> QED  BY <3>2 DEF Count, CountOf
  <2>5. kernel'.reading \/ Reads(env')
    BY <2>2, <2>3, <2>4 DEF LeftInv, Reads
  <2> QED  BY <2>1, <2>2, <2>3, <2>5 DEF LeftInv, Settled, Writing
<1>12. CASE CqeOther \/ CqeTimer \/ \E s \in Sleeper : Fire(s)
  <2>1. ph' \notin Settled
    BY <1>12 DEF CqeOther, CqeTimer, Fire, At, Settled
  <2>2. env'.sq = env.sq /\ env'.retry = env.retry /\ kernel'.reading = kernel.reading
    BY <1>2, <1>12 DEF CqeOther, CqeTimer, Fire, LoopInv, Kernel, Env
  <2> QED  BY <2>1, <2>2 DEF LeftInv, Reads, Settled
<1>13. CASE CqeSync
  <2>1. ph' \notin Settled /\ env' = RegisterRead(env)
    BY <1>13 DEF CqeSync, At, Settled
  <2> QED  BY <1>2, <1>3, <2>1 DEF LeftInv, Settled
<1> QED  BY <1>4, <1>5, <1>6, <1>7, <1>8, <1>9, <1>10, <1>11, <1>12, <1>13 DEF Schedule

LEMMA LeftStep == WakeInv /\ LoopInv /\ LeftInv /\ [Next]_vars => LeftInv'
BY LeftCo, LeftWaker, LeftLoop DEF Next, Thread

\* Blocked on the eventfd, unannounced: then the heap still has the sleeper.
LEMMA LeftInWait ==
  ASSUME LeftInv, LoopInv
  PROVE  LeftoverIsTimed
<1> SUFFICES ASSUME At("wait"), ~Ready, ~env.retry, NEW c \in sync
             PROVE  Writing \/ on[c] \in env.heap
  BY DEF LeftoverIsTimed, Blocked
<1>1. env.sq = <<>> /\ ph = "wait"
  BY DEF LoopInv, Phases, At
<1>2. kernel.reading
  BY <1>1 DEF LeftInv, Reads
<1> QED  BY <1>1, <1>2 DEF LeftInv, Settled, Ready, EfdReady

LEMMA LoopAlways == Spec => [](WakeInv /\ LoopInv /\ LeftInv)
<1>1. WakeInv /\ LoopInv /\ LeftInv /\ [Next]_vars => (WakeInv /\ LoopInv /\ LeftInv)'
  BY WakeStep, LoopStep, LeftStep
<1> QED  BY <1>1, WakeInit, LoopInit, LeftInit, PTL DEF Spec

LEMMA WakesTyped == Spec => [](wakes \in [Sleeper -> BOOLEAN])
<1>1. Init => wakes \in [Sleeper -> BOOLEAN]
  BY DEF Init
<1>2. ASSUME wakes \in [Sleeper -> BOOLEAN], [Next]_vars
      PROVE  (wakes \in [Sleeper -> BOOLEAN])'
  <2>1. wakes' = wakes \/ \E s \in Sleeper, b \in BOOLEAN : wakes' = [wakes EXCEPT ![s] = b]
    <3>1. CASE UNCHANGED vars
      BY <3>1 DEF vars
    <3>2. CASE Schedule
      BY <3>2 DEF Schedule, Top, ResumeSync, ResumeYield, SyncEmpty, Retry, Submit, SkipIo, Waited,
         CqeOther, CqeSync, CqeTimer, Fire, FireDone, CqeDone, Idle, slots
    <3>3. CASE \E c \in Co : CoStep(c)
      BY <3>3 DEF CoStep, CoWake, SleepFor, ClaimBusy, Claim, Park, AwaitResume, Finish, slots
    <3>4. CASE \E w \in Waker : WakerStep(w) \/ \E s \in Sleeper : Wake(w, s)
      BY <3>4 DEF WakerStep, WakePush, WakeWrite, Wake, slots
    <3>5. CASE Tick \/ \E q \in kernel.req : Expire(q)
      BY <3>5 DEF Tick, Expire, slots
    <3> QED  BY <1>2, <3>1, <3>2, <3>3, <3>4, <3>5 DEF Next, Thread
  <2> QED  BY <1>2, <2>1
<1> QED  BY <1>1, <1>2, PTL DEF Spec

(***************************************************************************)
(* The state keeps its types; above all the counters of the loop, which    *)
(* completions decrement without a test, never fall below zero.            *)
(***************************************************************************)
THEOREM TypeCorrect == Spec => []TypeOK
<1>1. ASSUME WakeInv, LoopInv, wakes \in [Sleeper -> BOOLEAN] PROVE TypeOK
  <2>1. env.io \in Nat /\ env.inflight \in Nat /\ kernel.timer \in Nat /\ kernel.other \in Nat
    <3>1. PICK t, c, q, m, o \in Nat :
             /\ t = CountOf(env.sq, "timeout") /\ c = CountOf(env.sq, "cancel")
             /\ q = Cardinality(kernel.req) /\ m = kernel.timer /\ o = kernel.other
             /\ env.inflight = t + q + m /\ env.io = env.inflight + c + o
      BY <1>1, BookNumbers
    <3> QED  BY <3>1
  <2> QED  BY <1>1, <2>1 DEF TypeOK, WakeInv, WakeTypes, Times
<1> QED  BY <1>1, LoopAlways, WakesTyped, PTL

(***************************************************************************)
(* io_event_count and timer_inflight count exactly what the ring owes the  *)
(* loop.  Unless a retry is pending, a blocked thread waits for a request  *)
(* made for the first deadline of its heap or an earlier one, and this     *)
(* bounds the wait of a coroutine that wake() left in the sync list        *)
(* without an announcement.  schedule() leaves only sleepers that wake()   *)
(* has taken (schedule(), timer_refresh, timer_on_fire).                   *)
(***************************************************************************)
THEOREM LoopBooks == Spec => []LoopExact
<1>1. ASSUME WakeInv, LoopInv, LeftInv PROVE LoopExact
  <2>1. CountersExact
    <3>1. /\ Count("timeout") = CountOf(env.sq, "timeout")
          /\ Count("cancel") = CountOf(env.sq, "cancel")
      BY DEF Count, CountOf
    <3> QED  BY <1>1, <3>1 DEF CountersExact, LoopInv, EnvOK, Books
  <2>2. NoOversleep
    BY <1>1, ServedInWait
  <2>3. LeftoverIsTimed
    BY <1>1, LeftInWait
  <2>4. ExitLeavesNoSleeper
    <3> SUFFICES ASSUME ph = "exit", NEW c \in Co
                 PROVE  /\ pc[c] = "done" \/ pc[c] = "parked"
                        /\ pc[c] = "parked" => node[on[c]].st = "WOKEN"
      BY DEF ExitLeavesNoSleeper
    <3>1. cur = None /\ yield = {} /\ env.heap = {}
      BY <1>1 DEF LoopInv, Phases
    <3>2. pc[c] = "done" \/ pc[c] = "parked"
      BY <1>1, <3>1, NoneIsNobody DEF WakeInv, WakeTypes, CoInv, Holds
    <3>3. pc[c] = "parked" => node[on[c]].st = "WOKEN"
      BY <1>1, <3>1, NoneIsNobody DEF WakeInv, WakeTypes, CoInv, SlotInv, Holds
    <3> QED  BY <3>2, <3>3
  <2> QED  BY <2>1, <2>2, <2>3, <2>4 DEF LoopExact
<1> QED  BY <1>1, LoopAlways, PTL
==============================================================================
