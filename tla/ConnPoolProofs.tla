---------------------------- MODULE ConnPoolProofs ---------------------------
(***************************************************************************)
(* Proofs about ConnPool for any finite sets of clients and addresses and  *)
(* any max_size and min_idle.                                              *)
(***************************************************************************)
EXTENDS ConnPool, Counting

\* Close() sends signals and has connections to close only once it has run.
OnlyCloseCloses == ~closed => wake = 0 /\ victims = {}

\* Between its actions a client has a connection exactly in these places.
HasWhenHeld ==
  \A c \in Client : /\ pc[c] \in {"adopt", "use", "discard"} => has[c] # None
                    /\ pc[c] \in {"out", "wait", "permit", "connect"} => has[c] = None

\* Until the pool is closed, whoever has a connection has a live one.
HeldLive == ~closed => /\ \A c \in Client : has[c] # None => has[c] \in conn
                       /\ prey # None => prey \in conn
                       /\ reaper = "close" <=> prey # None

IInv == /\ TypeOK /\ OnlyCloseCloses /\ HasWhenHeld
        /\ PermitsConserved /\ AtMostMaxSize /\ OnePlace /\ HeldLive

\* An initial state satisfies the invariant: nobody is in a slot, all permits
\* are there.
LEMMA InvInit == Init => IInv
<1> SUFFICES ASSUME Init PROVE IInv
  OBVIOUS
<1>1. InSlot = {} /\ Announced = {} /\ Building = {} /\ Using = {}
  BY DEF Init, InSlot, Announced, Building, Using
<1>2. TypeOK
  BY SizesAssumption DEF Init, TypeOK, Labels
<1>3. OnlyCloseCloses /\ HasWhenHeld /\ HeldLive
  BY DEF Init, OnlyCloseCloses, HasWhenHeld, HeldLive
<1>4. PermitsConserved /\ AtMostMaxSize
  BY <1>1, FS_EmptySet, SizesAssumption DEF Init, PermitsConserved, AtMostMaxSize
<1>5. OnePlace
  BY <1>1, NoneIsNoConn DEF Init, OnePlace
<1> QED  BY <1>2, <1>3, <1>4, <1>5 DEF IInv

----------------------------------------------------------------------------
(* Counting clients *)

\* The sets of clients the invariants count are finite.
LEMMA Finite ==
  /\ IsFiniteSet(InSlot) /\ Cardinality(InSlot) \in Nat
  /\ IsFiniteSet(Announced) /\ Cardinality(Announced) \in Nat
  /\ IsFiniteSet(Building) /\ Cardinality(Building) \in Nat
  /\ IsFiniteSet(Using) /\ Cardinality(Using) \in Nat
<1>1. /\ InSlot \in SUBSET Client /\ Announced \in SUBSET Client
      /\ Building \in SUBSET Client /\ Using \in SUBSET Client
  BY DEF InSlot, Announced, Building, Using
<1>2. IsFiniteSet(InSlot) /\ IsFiniteSet(Announced) /\ IsFiniteSet(Building) /\ IsFiniteSet(Using)
  BY <1>1, ClientsFinite, FS_Subset
<1> QED  BY <1>2, FS_CardinalityType


\* In(l, L): whether label l counts among the labels L.
In(l, L) == IF l \in L THEN 1 ELSE 0
Slot == {"permit", "connect", "adopt", "use", "return"}

\* How the sets of clients the invariants count change when client c moves to l.
LEMMA Counts ==
  ASSUME pc \in [Client -> Labels], NEW c \in Client, NEW l \in Labels, Goes(c, l)
  PROVE  /\ Cardinality(InSlot') = Cardinality(InSlot) + In(l, Slot) - In(pc[c], Slot)
         /\ Cardinality(Announced') = Cardinality(Announced) + In(l, {"wait", "permit"})
                                                             - In(pc[c], {"wait", "permit"})
         /\ Cardinality(Building') = Cardinality(Building) + In(l, {"connect", "adopt"})
                                                           - In(pc[c], {"connect", "adopt"})
         /\ Cardinality(InSlot') \in Nat /\ Cardinality(Announced') \in Nat
         /\ Cardinality(Building') \in Nat
<1>1. /\ InSlot' \ {c} = InSlot \ {c}
      /\ Mem(c, InSlot') = In(l, Slot) /\ Mem(c, InSlot) = In(pc[c], Slot)
  BY DEF Goes, InSlot, Slot, Mem, In
<1>2. /\ Announced' \ {c} = Announced \ {c}
      /\ Mem(c, Announced') = In(l, {"wait", "permit"})
      /\ Mem(c, Announced) = In(pc[c], {"wait", "permit"})
  BY DEF Goes, Announced, Mem, In
<1>3. /\ Building' \ {c} = Building \ {c}
      /\ Mem(c, Building') = In(l, {"connect", "adopt"})
      /\ Mem(c, Building) = In(pc[c], {"connect", "adopt"})
  BY DEF Goes, Building, Mem, In
<1> QED  BY <1>1, <1>2, <1>3, Finite, OneMoves

----------------------------------------------------------------------------
(* Types, and where connections may be *)

\* Every step keeps the types: a permit is taken only when there is one, and an
\* announced wait is withdrawn only by a client that has announced it.
LEMMA TypeStep == ASSUME IInv, [Next]_vars PROVE TypeOK'
<1> USE DEF IInv, TypeOK
<1>a. \A c \in Client : pc[c] \in Labels /\ has[c] \in Conn \cup {None}
  OBVIOUS
<1>b. \A c \in Client : pc[c] = "permit" => pending - 1 \in Nat
  <2> SUFFICES ASSUME NEW c \in Client, pc[c] = "permit" PROVE pending - 1 \in Nat
    OBVIOUS
  <2>1. c \in Announced
    BY DEF Announced
  <2>2. Cardinality(Announced) > 0
    BY <2>1, Finite, OneLess
  <2> QED  BY <2>2 DEF PermitsConserved
<1>c. \A c \in Client : pc[c] \in {"adopt", "use"} => has[c] \in Conn
  BY DEF HasWhenHeld
<1>1. ASSUME NEW c \in Client, Enter(c) \/ TakePermit(c) \/ ConnectFails(c) PROVE TypeOK'
  BY <1>1 DEF Enter, TakePermit, ConnectFails, Goes, Labels, closing
<1>2. ASSUME NEW c \in Client, FoundClosed(c) \/ Miss(c) PROVE TypeOK'
  BY <1>b, <1>2 DEF FoundClosed, Miss, Goes, Labels, closing
<1>3. ASSUME NEW c \in Client, NEW x \in Conn, Reuse(c, x) PROVE TypeOK'
  BY <1>b, <1>3 DEF Reuse, Goes, Has, Labels, closing
<1>4. ASSUME NEW c \in Client, NEW x \in Conn, Connected(c, x) PROVE TypeOK'
  BY <1>4 DEF Connected, Goes, Has, Labels, closing, shared
<1>5. ASSUME NEW c \in Client, Adopt(c) \/ Recycle(c) PROVE TypeOK'
  BY <1>c, <1>5 DEF Adopt, Recycle, Goes, Has, Labels, closing
<1>6. ASSUME NEW c \in Client, AdoptClosed(c) \/ CloseDiscarded(c) PROVE TypeOK'
  <2>1. closed' \in BOOLEAN /\ again' \in BOOLEAN
    BY <1>6, Zenon DEF AdoptClosed, CloseDiscarded, uclose, shared
  <2> QED  BY <1>6, <2>1 DEF AdoptClosed, CloseDiscarded, uclose, Goes, Has, Labels, closing, shared
<1>7. ASSUME NEW c \in Client, Discard(c) \/ ReturnPermit(c) PROVE TypeOK'
  BY <1>7 DEF Discard, ReturnPermit, Goes, Labels, closing
<1>8. ASSUME Close \/ WakeWaiter \/ WakeReaper PROVE TypeOK'
  <2>1. closed' \in BOOLEAN /\ again' \in BOOLEAN
    BY <1>8, Zenon DEF Close, WakeWaiter, WakeReaper, shared
  <2> QED  BY <1>8, <2>1 DEF Close, WakeWaiter, WakeReaper, shared
<1>9. ASSUME NEW x \in Conn, CloseVictim(x) PROVE TypeOK'
  BY <1>9 DEF CloseVictim, uclose, shared
<1>10. ASSUME ReaperTick \/ ReaperExit \/ ReaperNothing \/ ReaperClose PROVE TypeOK'
  BY <1>10 DEF ReaperTick, ReaperExit, ReaperNothing, ReaperClose, uclose, shared, closing
<1>11. ASSUME NEW x \in Conn, ReaperTake(x) PROVE TypeOK'
  BY <1>11 DEF ReaperTake, closing
<1>12. CASE UNCHANGED vars
  BY <1>12 DEF vars, shared, closing
<1> HIDE DEF IInv, TypeOK
<1> QED
  BY <1>1, <1>2, <1>3, <1>4, <1>5, <1>6, <1>7, <1>8, <1>9, <1>10, <1>11, <1>12
  DEF Next, AcquireStep, ReleaseStep, CloseStep, ReaperStep

\* A client has a connection while it uses, adopts or discards one, and none
\* while it is outside or still looking for one.
LEMMA HasStep == ASSUME IInv, [Next]_vars PROVE HasWhenHeld' /\ OnlyCloseCloses'
<1>0. /\ TypeOK /\ HasWhenHeld /\ OnlyCloseCloses
      /\ pc \in [Client -> Labels] /\ has \in [Client -> Conn \cup {None}]
  BY DEF IInv, TypeOK
<1> DEFINE Still == UNCHANGED <<pc, has>>
<1>1. ASSUME NEW c \in Client, Enter(c) \/ AcquireStep(c) \/ ReleaseStep(c)
      PROVE  HasWhenHeld' /\ UNCHANGED <<closed, wake, victims>>
  <2> USE <1>0 DEF HasWhenHeld, Goes, Has, closing, shared
  <2>1. CASE Enter(c) \/ TakePermit(c) \/ FoundClosed(c) \/ Miss(c) \/ ConnectFails(c)
    BY <2>1 DEF Enter, TakePermit, FoundClosed, Miss, ConnectFails
  <2>2. ASSUME NEW x \in Conn, Reuse(c, x) \/ Connected(c, x)
        PROVE  HasWhenHeld' /\ UNCHANGED <<closed, wake, victims>>
    BY <2>2, NoneIsNoConn DEF Reuse, Connected
  <2>3. CASE Adopt(c) \/ AdoptClosed(c)
    BY <2>3 DEF Adopt, AdoptClosed
  <2>4. CASE Recycle(c) \/ Discard(c)
    BY <2>4 DEF Recycle, Discard
  <2>5. CASE ReturnPermit(c)
    BY <2>5 DEF ReturnPermit
  <2>6. CASE CloseDiscarded(c)
    BY <2>6 DEF CloseDiscarded
  <2> QED  BY <1>1, <2>1, <2>2, <2>3, <2>4, <2>5, <2>6 DEF AcquireStep, ReleaseStep
<1>2. ASSUME Close \/ CloseStep PROVE Still /\ OnlyCloseCloses'
  <2>1. CASE Close \/ WakeWaiter \/ WakeReaper
    BY <1>0, <2>1 DEF Close, WakeWaiter, WakeReaper, shared, OnlyCloseCloses, TypeOK
  <2>2. ASSUME NEW x \in Conn, CloseVictim(x) PROVE Still /\ OnlyCloseCloses'
    BY <1>0, <2>2 DEF CloseVictim, shared, OnlyCloseCloses
  <2> QED  BY <1>2, <2>1, <2>2 DEF CloseStep
<1>3. ASSUME ReaperTick \/ ReaperStep PROVE Still /\ UNCHANGED <<closed, wake, victims>>
  <2>1. CASE ReaperTick \/ ReaperExit \/ ReaperNothing \/ ReaperClose
    BY <2>1 DEF ReaperTick, ReaperExit, ReaperNothing, ReaperClose, shared, closing
  <2>2. ASSUME NEW x \in Conn, ReaperTake(x)
        PROVE  Still /\ UNCHANGED <<closed, wake, victims>>
    BY <2>2 DEF ReaperTake, closing
  <2> QED  BY <1>3, <2>1, <2>2 DEF ReaperStep
<1>4. CASE UNCHANGED vars
  BY <1>0, <1>4 DEF vars, shared, closing, HasWhenHeld, OnlyCloseCloses
<1>5. UNCHANGED <<closed, wake, victims>> => OnlyCloseCloses'
  BY <1>0 DEF OnlyCloseCloses
<1>6. Still => HasWhenHeld'
  BY <1>0 DEF HasWhenHeld
<1> HIDE DEF Still
<1> QED  BY <1>1, <1>2, <1>3, <1>4, <1>5, <1>6 DEF Next

----------------------------------------------------------------------------
(* Permits *)

\* No step loses a permit or makes one up, whoever takes it.
LEMMA PermitsStep == ASSUME IInv, [Next]_vars PROVE PermitsConserved'
<1>0. /\ permits \in Nat /\ pending \in Nat /\ wake \in Nat
      /\ pc \in [Client -> Labels]
      /\ PermitsConserved /\ OnlyCloseCloses
      /\ MaxSize \in Nat
  BY SizesAssumption DEF IInv, TypeOK
<1>a. Cardinality(InSlot) \in Nat /\ Cardinality(Announced) \in Nat
  BY Finite
<1> USE DEF PermitsConserved, OnlyCloseCloses
<1>1. ASSUME NEW c \in Client, Enter(c) \/ AcquireStep(c) \/ ReleaseStep(c)
      PROVE  PermitsConserved'
  <2>l. {"out", "wait", "permit", "connect", "adopt", "use", "return", "discard"} = Labels
    BY DEF Labels
  <2> USE <1>0, <1>a, <2>l DEF In, Slot, closing, shared
  <2>1. CASE Enter(c)
    <3>1. Goes(c, "wait") /\ pc[c] = "out"
      BY <2>1 DEF Enter
    <3> QED  BY <2>1, <3>1, Counts DEF Enter
  <2>2. CASE TakePermit(c)
    <3>1. Goes(c, "permit") /\ pc[c] = "wait"
      BY <2>2 DEF TakePermit
    <3> QED  BY <2>2, <3>1, Counts DEF TakePermit
  <2>3. CASE FoundClosed(c)
    <3>1. Goes(c, "out") /\ pc[c] = "permit"
      BY <2>3 DEF FoundClosed
    <3>2. /\ Cardinality(InSlot') = Cardinality(InSlot) - 1
          /\ Cardinality(Announced') = Cardinality(Announced) - 1
      BY <3>1, Counts
    <3>3. /\ closed /\ closed' /\ permits' = permits /\ wake' = wake
          /\ pending' = pending - 1
      BY <2>3 DEF FoundClosed
    <3> QED  BY <3>2, <3>3
  <2>4. CASE Miss(c)
    <3>1. Goes(c, "connect") /\ pc[c] = "permit"
      BY <2>4 DEF Miss
    <3> QED  BY <2>4, <3>1, Counts DEF Miss
  <2>5. ASSUME NEW x \in Conn, Reuse(c, x) PROVE PermitsConserved'
    <3>1. Goes(c, "use") /\ pc[c] = "permit"
      BY <2>5 DEF Reuse
    <3> QED  BY <2>5, <3>1, Counts DEF Reuse
  <2>6. ASSUME NEW x \in Conn, Connected(c, x) PROVE PermitsConserved'
    <3>1. Goes(c, "adopt") /\ pc[c] = "connect"
      BY <2>6 DEF Connected
    <3> QED  BY <2>6, <3>1, Counts DEF Connected
  <2>7. CASE ConnectFails(c)
    <3>1. Goes(c, "out") /\ pc[c] = "connect"
      BY <2>7 DEF ConnectFails
    <3> QED  BY <2>7, <3>1, Counts DEF ConnectFails
  <2>8. CASE Adopt(c)
    <3>1. Goes(c, "use") /\ pc[c] = "adopt"
      BY <2>8 DEF Adopt
    <3> QED  BY <2>8, <3>1, Counts DEF Adopt
  <2>9. CASE AdoptClosed(c)
    <3>1. Goes(c, "out") /\ pc[c] = "adopt"
      BY <2>9 DEF AdoptClosed
    <3>2. /\ Cardinality(InSlot') = Cardinality(InSlot) - 1
          /\ Cardinality(Announced') = Cardinality(Announced)
      BY <3>1, Counts
    <3>3. /\ closed /\ closed' /\ permits' = permits + 1 /\ wake' = wake
          /\ pending' = pending
      BY <2>9 DEF AdoptClosed
    <3> QED  BY <3>2, <3>3
  <2>10. CASE Recycle(c)
    <3>1. Goes(c, "return") /\ pc[c] = "use"
      BY <2>10 DEF Recycle
    <3> QED  BY <2>10, <3>1, Counts DEF Recycle
  <2>11. CASE Discard(c)
    <3>1. Goes(c, "return") /\ pc[c] = "use"
      BY <2>11 DEF Discard
    <3> QED  BY <2>11, <3>1, Counts DEF Discard
  <2>12. CASE ReturnPermit(c) /\ has[c] = None
    <3>1. Goes(c, "out") /\ pc[c] = "return"
      BY <2>12 DEF ReturnPermit
    <3> QED  BY <2>12, <3>1, Counts DEF ReturnPermit
  <2>13. CASE ReturnPermit(c) /\ has[c] # None
    <3>1. Goes(c, "discard") /\ pc[c] = "return"
      BY <2>13 DEF ReturnPermit
    <3> QED  BY <2>13, <3>1, Counts DEF ReturnPermit
  <2>14. CASE CloseDiscarded(c)
    <3>1. Goes(c, "out") /\ pc[c] = "discard"
      BY <2>14 DEF CloseDiscarded
    <3> QED  BY <2>14, <3>1, Counts DEF CloseDiscarded
  <2> QED
    BY <1>1, <2>1, <2>2, <2>3, <2>4, <2>5, <2>6, <2>7, <2>8, <2>9, <2>10, <2>11, <2>12, <2>13, <2>14
    DEF AcquireStep, ReleaseStep
<1>2. UNCHANGED pc => InSlot' = InSlot /\ Announced' = Announced
  BY DEF InSlot, Announced
<1>3. CASE Close
  BY <1>0, <1>a, <1>2, <1>3 DEF Close
<1>4. CASE WakeWaiter
  BY <1>0, <1>a, <1>2, <1>4 DEF WakeWaiter
<1>5. ASSUME UNCHANGED <<pc, permits, pending, closed, wake>> PROVE PermitsConserved'
  BY <1>0, <1>2, <1>5
<1>6. ASSUME \/ WakeReaper \/ ReaperTick \/ ReaperExit \/ ReaperNothing \/ ReaperClose
             \/ UNCHANGED vars
      PROVE  UNCHANGED <<pc, permits, pending, closed, wake>>
  BY <1>6 DEF WakeReaper, ReaperTick, ReaperExit, ReaperNothing, ReaperClose, vars, shared, closing
<1>7. ASSUME NEW x \in Conn, CloseVictim(x) \/ ReaperTake(x)
      PROVE  UNCHANGED <<pc, permits, pending, closed, wake>>
  BY <1>7 DEF CloseVictim, ReaperTake, shared, closing
<1> QED  BY <1>1, <1>3, <1>4, <1>5, <1>6, <1>7 DEF Next, CloseStep, ReaperStep

----------------------------------------------------------------------------
(* One place for a connection *)

Lent(x) == \E c \in Client : pc[c] = "use" /\ has[c] = x

\* The pool's set of connections, element by element.
AllIsIdleOrLent == \A x \in Conn : x \in all <=> x \in idle \/ Lent(x)

\* What OnePlace and HeldLive say of a pool that is not closed, in the parts
\* an action may disturb.
Apart == /\ \A c, d \in Client : has[c] = has[d] /\ has[c] # None => c = d
         /\ \A c \in Client : has[c] # None => has[c] \notin idle /\ has[c] # prey
         /\ prey \notin idle
Live == /\ all \subseteq conn /\ ~again
        /\ \A c \in Client : has[c] # None => has[c] \in conn
        /\ prey # None => prey \in conn
Prey == reaper = "close" <=> prey # None

\* all as a union, and element by element.
LEMMA Elements ==
  ASSUME TypeOK, HasWhenHeld
  PROVE  {has[c] : c \in Using} \cup idle = all <=> AllIsIdleOrLent
<1>1. \A x : x \in {has[c] : c \in Using} <=> Lent(x)
  BY DEF Using, Lent
<1>2. \A x : Lent(x) => x \in Conn
  BY DEF Lent, HasWhenHeld, TypeOK
<1>3. idle \subseteq Conn /\ all \subseteq Conn
  BY DEF TypeOK
<1> DEFINE U == {has[c] : c \in Using}
<1> HIDE DEF U
<1>4. \A x : x \in U <=> Lent(x)
  BY <1>1 DEF U
<1>5. U \cup idle = all <=> AllIsIdleOrLent
  BY <1>2, <1>3, <1>4 DEF AllIsIdleOrLent
<1> QED  BY <1>5 DEF U

\* OnePlace and HeldLive are these parts.
LEMMA Parts ==
  TypeOK /\ HasWhenHeld =>
    (OnePlace /\ HeldLive <=> (~closed => Apart /\ Live /\ Prey /\ AllIsIdleOrLent))
<1> SUFFICES ASSUME TypeOK, HasWhenHeld
             PROVE  OnePlace /\ HeldLive <=>
                      (~closed => Apart /\ Live /\ Prey /\ AllIsIdleOrLent)
  OBVIOUS
<1>1. OnePlace <=> (~closed => /\ Apart /\ AllIsIdleOrLent
                               /\ all \subseteq conn /\ ~again)
  BY Elements DEF OnePlace, Apart
<1> QED  BY <1>1 DEF HeldLive, Live, Prey

\* The same in the next state.
LEMMA PartsNext ==
  TypeOK' /\ HasWhenHeld' =>
    (OnePlace' /\ HeldLive' <=> (~closed' => Apart' /\ Live' /\ Prey' /\ AllIsIdleOrLent'))
BY Parts, PTL

\* Every step of a pool that stays open keeps a connection in one place.
LEMMA PlacesStep ==
  ASSUME TypeOK, HasWhenHeld, victims = {},
         Apart, Live, Prey, AllIsIdleOrLent,
         [Next]_vars, ~closed'
  PROVE  Apart' /\ Live' /\ Prey' /\ AllIsIdleOrLent'
<1>0. /\ pc \in [Client -> Labels] /\ has \in [Client -> Conn \cup {None}]
      /\ idle \subseteq Conn /\ all \subseteq Conn /\ conn \subseteq Conn
      /\ prey \in Conn \cup {None}
  BY DEF TypeOK
<1> DEFINE Goal == Apart' /\ Live' /\ Prey' /\ AllIsIdleOrLent'
<1> USE DEF Goes, Has
\* Nothing that matters here changes.
<1>1. ASSUME UNCHANGED <<idle, all, conn, again, has, prey, reaper>>,
             \A c \in Client : pc'[c] = "use" <=> pc[c] = "use"
      PROVE  Goal
  BY <1>1 DEF Apart, Live, Prey, AllIsIdleOrLent, Lent
<1>2. ASSUME NEW c \in Client, \/ Enter(c) \/ TakePermit(c) \/ FoundClosed(c) \/ Miss(c)
                               \/ ConnectFails(c) \/ ReturnPermit(c)
      PROVE  Goal
  <2>1. /\ UNCHANGED <<idle, all, conn, again, has, prey, reaper>>
        /\ \A d \in Client : pc'[d] = "use" <=> pc[d] = "use"
    BY <1>0, <1>2
    DEF Enter, TakePermit, FoundClosed, Miss, ConnectFails, ReturnPermit, closing, shared
  <2> QED  BY <1>1, <2>1
<1>3. ASSUME NEW c \in Client, NEW x \in Conn, Reuse(c, x) PROVE Goal
  <2>1. /\ has[c] = None /\ pc[c] = "permit" /\ x \in idle /\ x # None
        /\ pc' = [pc EXCEPT ![c] = "use"] /\ has' = [has EXCEPT ![c] = x]
        /\ idle' = idle \ {x}
        /\ UNCHANGED <<all, conn, again, prey, reaper>>
    BY <1>3, NoneIsNoConn DEF Reuse, HasWhenHeld
  <2>2. x \in all /\ x \in conn /\ x # prey
    BY <2>1 DEF AllIsIdleOrLent, Live, Apart
  <2>3. Apart'
    BY <1>0, <2>1, <2>2 DEF Apart
  <2>4. Live' /\ Prey'
    BY <1>0, <2>1, <2>2 DEF Live, Prey
  <2>5. AllIsIdleOrLent'
    BY <1>0, <2>1, <2>2 DEF AllIsIdleOrLent, Lent
  <2> QED  BY <2>3, <2>4, <2>5
<1>4. ASSUME NEW c \in Client, NEW x \in Conn, Connected(c, x) PROVE Goal
  <2>1. /\ has[c] = None /\ pc[c] = "connect" /\ x \notin conn /\ x # None
        /\ pc' = [pc EXCEPT ![c] = "adopt"] /\ has' = [has EXCEPT ![c] = x]
        /\ conn' = conn \cup {x}
        /\ UNCHANGED <<all, idle, again, prey, reaper>>
    BY <1>4, NoneIsNoConn DEF Connected, HasWhenHeld, shared
  <2>2. x \notin all /\ x \notin idle /\ x # prey /\ \A d \in Client : has[d] # x
    BY <1>0, <2>1 DEF AllIsIdleOrLent, Live
  <2>3. Apart'
    BY <1>0, <2>1, <2>2 DEF Apart
  <2>4. Live' /\ Prey'
    BY <1>0, <2>1, <2>2 DEF Live, Prey
  <2>5. AllIsIdleOrLent'
    BY <1>0, <2>1, <2>2 DEF AllIsIdleOrLent, Lent
  <2> QED  BY <2>3, <2>4, <2>5
<1>5. ASSUME NEW c \in Client, Adopt(c) PROVE Goal
  <2>1. /\ has[c] # None /\ has[c] \in Conn /\ pc[c] = "adopt"
        /\ pc' = [pc EXCEPT ![c] = "use"]
        /\ all' = all \cup {has[c]}
        /\ UNCHANGED <<has, idle, conn, again, prey, reaper>>
    BY <1>0, <1>5 DEF Adopt, HasWhenHeld
  <2>2. Apart' /\ Live' /\ Prey'
    BY <1>0, <2>1 DEF Apart, Live, Prey
  <2>3. AllIsIdleOrLent'
    BY <1>0, <2>1 DEF AllIsIdleOrLent, Lent
  <2> QED  BY <2>2, <2>3
<1>6. ASSUME NEW c \in Client, Recycle(c) PROVE Goal
  <2>1. /\ has[c] # None /\ has[c] \in Conn /\ pc[c] = "use"
        /\ pc' = [pc EXCEPT ![c] = "return"] /\ has' = [has EXCEPT ![c] = None]
        /\ idle' = idle \cup {has[c]}
        /\ UNCHANGED <<all, conn, again, prey, reaper>>
    BY <1>0, <1>6 DEF Recycle, HasWhenHeld
  <2>2. Apart'
    BY <1>0, <2>1 DEF Apart
  <2>3. Live' /\ Prey'
    BY <1>0, <2>1 DEF Live, Prey
  <2>4. AllIsIdleOrLent'
    <3>1. \A d \in Client : d # c => (pc'[d] = pc[d] /\ has'[d] = has[d])
      BY <1>0, <2>1
    <3>2. pc'[c] = "return"
      BY <1>0, <2>1
    <3> QED  BY <1>0, <2>1, <3>1, <3>2 DEF AllIsIdleOrLent, Lent, Apart
  <2> QED  BY <2>2, <2>3, <2>4
<1>7. ASSUME NEW c \in Client, Discard(c) PROVE Goal
  <2>1. /\ has[c] # None /\ has[c] \in Conn /\ pc[c] = "use"
        /\ pc' = [pc EXCEPT ![c] = "return"]
        /\ all' = all \ {has[c]}
        /\ UNCHANGED <<has, idle, conn, again, prey, reaper>>
    BY <1>0, <1>7 DEF Discard, HasWhenHeld
  <2>2. Apart' /\ Live' /\ Prey'
    BY <1>0, <2>1 DEF Apart, Live, Prey
  <2>3. AllIsIdleOrLent'
    <3>1. \A d \in Client : d # c => pc'[d] = pc[d] /\ has[d] # has[c]
      BY <1>0, <2>1 DEF Apart
    <3>2. pc'[c] = "return" /\ has[c] \notin idle
      BY <1>0, <2>1 DEF Apart
    <3> QED  BY <1>0, <2>1, <3>1, <3>2 DEF AllIsIdleOrLent, Lent
  <2> QED  BY <2>2, <2>3
<1>8. ASSUME NEW c \in Client, CloseDiscarded(c) PROVE Goal
  <2>1. /\ has[c] # None /\ has[c] \in Conn /\ pc[c] = "discard"
        /\ pc' = [pc EXCEPT ![c] = "out"] /\ has' = [has EXCEPT ![c] = None]
        /\ conn' = conn \ {has[c]} /\ again' = (again \/ has[c] \notin conn)
        /\ UNCHANGED <<all, idle, prey, reaper>>
    BY <1>0, <1>8 DEF CloseDiscarded, HasWhenHeld, uclose, shared
  <2>2. /\ has[c] \in conn /\ has[c] # prey
        /\ \A d \in Client : d # c => has[d] # has[c]
    BY <1>0, <2>1 DEF Live, Apart
  <2>3. has[c] \notin all
    BY <1>0, <2>1, <2>2 DEF AllIsIdleOrLent, Lent, Apart
  <2>4. Apart' /\ Prey'
    BY <1>0, <2>1 DEF Apart, Prey
  <2>5. ~again'
    BY <2>1, <2>2 DEF Live
  <2>6. Live'
    BY <1>0, <2>1, <2>2, <2>3, <2>5 DEF Live
  <2>7. AllIsIdleOrLent'
    BY <1>0, <2>1 DEF AllIsIdleOrLent, Lent
  <2> QED  BY <2>4, <2>6, <2>7
<1>9. ASSUME NEW x \in Conn, ReaperTake(x) PROVE Goal
  <2>1. /\ x \in idle /\ idle' = idle \ {x} /\ all' = all \ {x}
        /\ prey' = x /\ reaper' = "close" /\ x # None
        /\ UNCHANGED <<conn, again, pc, has>>
    BY <1>9, NoneIsNoConn DEF ReaperTake
  <2>2. x \in conn /\ \A d \in Client : has[d] # x
    BY <1>0, <2>1 DEF AllIsIdleOrLent, Live, Apart
  <2>3. Apart' /\ Live' /\ Prey'
    BY <1>0, <2>1, <2>2 DEF Apart, Live, Prey
  <2>4. AllIsIdleOrLent'
    BY <1>0, <2>1, <2>2 DEF AllIsIdleOrLent, Lent
  <2> QED  BY <2>3, <2>4
<1>10. ASSUME ReaperClose PROVE Goal
  <2>1. /\ prey # None /\ prey' = None /\ reaper' = "sleep"
        /\ conn' = conn \ {prey} /\ again' = (again \/ prey \notin conn)
        /\ UNCHANGED <<idle, all, pc, has>>
    BY <1>10 DEF ReaperClose, Prey, uclose, shared
  <2>2. /\ prey \in conn /\ prey \notin idle
        /\ \A d \in Client : has[d] # prey
    BY <2>1 DEF Live, Apart
  <2>3. prey \notin all
    BY <1>0, <2>1, <2>2 DEF AllIsIdleOrLent, Lent
  <2>4. Apart' /\ Prey'
    BY <1>0, <2>1, NoneIsNoConn DEF Apart, Prey
  <2>5. ~again'
    BY <2>1, <2>2 DEF Live
  <2>6. Live'
    BY <1>0, <2>1, <2>2, <2>3, <2>5 DEF Live
  <2>7. AllIsIdleOrLent'
    BY <1>0, <2>1 DEF AllIsIdleOrLent, Lent
  <2> QED  BY <2>4, <2>6, <2>7
<1>11. ASSUME ReaperTick \/ ReaperExit \/ ReaperNothing PROVE Goal
  <2>1. /\ UNCHANGED <<idle, all, conn, again, pc, has, prey>>
        /\ reaper # "close" /\ reaper' # "close"
    BY <1>11 DEF ReaperTick, ReaperExit, ReaperNothing, shared
  <2>2. Apart' /\ Live' /\ Prey'
    BY <2>1 DEF Apart, Live, Prey
  <2>3. AllIsIdleOrLent'
    BY <2>1 DEF AllIsIdleOrLent, Lent
  <2> QED  BY <2>2, <2>3
<1>12. ASSUME WakeWaiter \/ WakeReaper \/ UNCHANGED vars PROVE Goal
  <2>1. UNCHANGED <<idle, all, conn, again, pc, has, prey, reaper>>
    BY <1>12 DEF WakeWaiter, WakeReaper, vars, shared, closing
  <2> QED  BY <1>1, <2>1
\* The others belong to a closed pool, or close it.
<1>13. ~Close /\ \A x \in Conn : ~CloseVictim(x)
  BY DEF Close, CloseVictim
<1>14. \A c \in Client : ~AdoptClosed(c)
  BY DEF AdoptClosed
<1> HIDE DEF Goal
<1>15. Goal
  BY <1>2, <1>3, <1>4, <1>5, <1>6, <1>7, <1>8, <1>9, <1>10, <1>11, <1>12, <1>13, <1>14
  DEF Next, AcquireStep, ReleaseStep, CloseStep, ReaperStep
<1> QED  BY <1>15 DEF Goal

----------------------------------------------------------------------------
(* The size of the pool *)

\* With nothing idle, the pool owns at most one connection per borrower, and a
\* client that looks for one has a permit of its own besides theirs.
LEMMA RoomForOneMore ==
  ASSUME IInv, ~closed, idle = {}, NEW c \in Client, pc[c] = "permit"
  PROVE  Cardinality(all) + Cardinality(Building) + 1 <= MaxSize
<1>1. all = {has[d] : d \in Using}
  BY DEF IInv, OnePlace
<1> DEFINE f == [d \in Using |-> has[d]]
<1>2. f \in Surjection(Using, all)
  BY <1>1 DEF Surjection
<1>3. Cardinality(all) <= Cardinality(Using) /\ IsFiniteSet(all)
  BY <1>2, Finite, FS_Surjection
<1> DEFINE B == Using \cup Building
<1>4. Using \cap Building = {} /\ c \notin B /\ B \cup {c} \in SUBSET InSlot
  BY DEF Using, Building, InSlot
<1>5. IsFiniteSet(B) /\ Cardinality(B) = Cardinality(Using) + Cardinality(Building)
  <2>1. Cardinality(Using \cap Building) = 0
    BY <1>4, FS_EmptySet
  <2>2. /\ IsFiniteSet(B)
        /\ Cardinality(B) = Cardinality(Using) + Cardinality(Building) - Cardinality(Using \cap Building)
    BY Finite, FS_Union
  <2>3. Cardinality(Using) \in Nat /\ Cardinality(Building) \in Nat
    BY Finite
  <2> QED  BY <2>1, <2>2, <2>3
<1> HIDE DEF B
<1>6. Cardinality(B \cup {c}) = Cardinality(B) + 1
  BY <1>4, <1>5, OneMore
<1>7. Cardinality(B \cup {c}) <= Cardinality(InSlot)
  BY <1>4, Finite, FS_Subset
<1>8. Cardinality(InSlot) <= MaxSize
  BY Finite, SizesAssumption DEF IInv, TypeOK, PermitsConserved
<1>9. Cardinality(all) \in Nat
  BY <1>3, FS_CardinalityType
<1> QED  BY <1>3, <1>5, <1>6, <1>7, <1>8, <1>9, Finite, SizesAssumption

\* Only Miss and Adopt can let the pool grow, and Adopt only turns a connection
\* under construction into one it owns.
LEMMA SizeStep == ASSUME IInv, [Next]_vars PROVE AtMostMaxSize'
<1> SUFFICES ASSUME ~closed'
             PROVE  Cardinality(all') + Cardinality(Building') <= MaxSize
  BY DEF AtMostMaxSize
<1>0. /\ pc \in [Client -> Labels] /\ MaxSize \in Nat
      /\ IsFiniteSet(all) /\ Cardinality(all) \in Nat /\ Cardinality(Building) \in Nat
  <2>1. IsFiniteSet(all)
    BY ClientsFinite, FS_Subset DEF IInv, TypeOK
  <2> QED  BY <2>1, FS_CardinalityType, Finite, SizesAssumption DEF IInv, TypeOK
<1>1. ~closed => Cardinality(all) + Cardinality(Building) <= MaxSize
  BY DEF IInv, AtMostMaxSize
<1>l. {"out", "wait", "permit", "connect", "adopt", "use", "return", "discard"} = Labels
  BY DEF Labels
\* Connections go and clients stop building.
<1>2. ASSUME all' \subseteq all, ~closed, Building' \subseteq Building
      PROVE  Cardinality(all') + Cardinality(Building') <= MaxSize
  <2>1. /\ Cardinality(all') <= Cardinality(all) /\ IsFiniteSet(all')
        /\ Cardinality(Building') <= Cardinality(Building) /\ IsFiniteSet(Building')
    BY <1>0, <1>2, Finite, FS_Subset
  <2>2. Cardinality(all') \in Nat /\ Cardinality(Building') \in Nat
    BY <2>1, FS_CardinalityType
  <2> QED  BY <1>0, <1>1, <1>2, <2>1, <2>2
<1>3. ASSUME NEW c \in Client, Miss(c)
      PROVE  Cardinality(all') + Cardinality(Building') <= MaxSize
  <2>1. pc[c] = "permit" /\ Goes(c, "connect") /\ ~closed /\ idle = {} /\ all' = all
    BY <1>3 DEF Miss
  <2>2. Cardinality(Building') = Cardinality(Building) + 1
    BY <1>0, <1>l, <2>1, Counts DEF In
  <2> QED  BY <1>0, <2>1, <2>2, RoomForOneMore
<1>4. ASSUME NEW c \in Client, Adopt(c)
      PROVE  Cardinality(all') + Cardinality(Building') <= MaxSize
  <2>1. /\ pc[c] = "adopt" /\ Goes(c, "use") /\ ~closed
        /\ all' = all \cup {has[c]}
    BY <1>4 DEF Adopt
  <2>2. Cardinality(Building') = Cardinality(Building) - 1
    BY <1>0, <1>l, <2>1, Counts DEF In
  <2>3. Cardinality(all \cup {has[c]}) <= Cardinality(all) + 1
    BY <1>0, FS_AddElement
  <2>4. Cardinality(all \cup {has[c]}) \in Nat
    BY <1>0, FS_AddElement, FS_CardinalityType
  <2> QED  BY <1>0, <1>1, <2>1, <2>2, <2>3, <2>4
<1>5. ASSUME NEW c \in Client,
             \/ Enter(c) \/ TakePermit(c) \/ FoundClosed(c) \/ ConnectFails(c)
             \/ Recycle(c) \/ Discard(c) \/ ReturnPermit(c) \/ CloseDiscarded(c)
             \/ \E x \in Conn : Reuse(c, x) \/ Connected(c, x)
      PROVE  Cardinality(all') + Cardinality(Building') <= MaxSize
  <2>1. all' \subseteq all /\ ~closed /\ Building' \subseteq Building
    <3> USE <1>0 DEF Building, Goes
    <3>1. CASE Enter(c) \/ TakePermit(c) \/ FoundClosed(c) \/ ConnectFails(c) \/ Recycle(c)
      BY <3>1 DEF Enter, TakePermit, FoundClosed, ConnectFails, Recycle
    <3>2. CASE Discard(c)
      BY <3>2 DEF Discard
    <3>3. CASE ReturnPermit(c) \/ CloseDiscarded(c)
      BY <3>3 DEF ReturnPermit, CloseDiscarded, shared
    <3>4. ASSUME NEW x \in Conn, Reuse(c, x) \/ Connected(c, x)
          PROVE  all' \subseteq all /\ ~closed /\ Building' \subseteq Building
      BY <3>4 DEF Reuse, Connected, shared
    <3> QED  BY <1>5, <3>1, <3>2, <3>3, <3>4
  <2> QED  BY <1>2, <2>1
<1>6. ASSUME UNCHANGED <<pc, closed>>, all' \subseteq all
      PROVE  Cardinality(all') + Cardinality(Building') <= MaxSize
  <2>1. Building' = Building
    BY <1>6 DEF Building
  <2> QED  BY <1>2, <1>6, <2>1
<1>7. ASSUME \/ WakeWaiter \/ WakeReaper \/ ReaperTick \/ ReaperExit \/ ReaperNothing
             \/ ReaperClose \/ UNCHANGED vars
      PROVE  UNCHANGED <<pc, closed>> /\ all' \subseteq all
  BY <1>7 DEF WakeWaiter, WakeReaper, ReaperTick, ReaperExit, ReaperNothing,
              ReaperClose, vars, shared, closing
<1>8. ASSUME NEW x \in Conn, CloseVictim(x) \/ ReaperTake(x)
      PROVE  UNCHANGED <<pc, closed>> /\ all' \subseteq all
  BY <1>8 DEF CloseVictim, ReaperTake, shared
<1>9. ~Close /\ \A c \in Client : ~AdoptClosed(c)
  BY DEF Close, AdoptClosed
<1> QED
  BY <1>3, <1>4, <1>5, <1>6, <1>7, <1>8, <1>9
  DEF Next, AcquireStep, ReleaseStep, CloseStep, ReaperStep

----------------------------------------------------------------------------
(* The theorems *)

\* The invariant is inductive.
THEOREM Invariance == Spec => []IInv
<1>1. Init => IInv
  BY InvInit
<1>2. IInv /\ [Next]_vars => IInv'
  <2> SUFFICES ASSUME IInv, [Next]_vars PROVE IInv'
    OBVIOUS
  <2>1. TypeOK' /\ HasWhenHeld' /\ OnlyCloseCloses'
    BY TypeStep, HasStep
  <2>2. PermitsConserved' /\ AtMostMaxSize'
    BY PermitsStep, SizeStep
  <2>3. closed => closed'
    BY DEF Next, AcquireStep, ReleaseStep, CloseStep, ReaperStep, vars, shared,
           Enter, TakePermit, FoundClosed, Miss, Reuse, Connected, ConnectFails,
           Adopt, AdoptClosed, Recycle, Discard, ReturnPermit, CloseDiscarded,
           Close, WakeWaiter, WakeReaper, CloseVictim,
           ReaperTick, ReaperExit, ReaperTake, ReaperNothing, ReaperClose
  <2>4. ~closed => Apart /\ Live /\ Prey /\ AllIsIdleOrLent /\ victims = {}
    BY Parts DEF IInv, OnlyCloseCloses
  <2>5. ~closed' => Apart' /\ Live' /\ Prey' /\ AllIsIdleOrLent'
    BY <2>3, <2>4, PlacesStep DEF IInv
  <2>6. OnePlace' /\ HeldLive'
    BY <2>1, <2>5, PartsNext
  <2> QED  BY <2>1, <2>2, <2>6 DEF IInv
<1> QED  BY <1>1, <1>2, PTL DEF Spec

\* The pool's counters keep their types: neither permits nor announced waits
\* ever go below zero.
THEOREM TypeCorrect == Spec => []TypeOK
<1>1. IInv => TypeOK
  BY DEF IInv
<1> QED  BY <1>1, Invariance, PTL

\* Acquire, Release and Close lose no permit and make none up, for any number
\* of clients and any interleaving of their critical sections.
THEOREM PermitsKept == Spec => []PermitsConserved
<1>1. IInv => PermitsConserved
  BY DEF IInv
<1> QED  BY <1>1, Invariance, PTL

\* An open pool never owns or builds more than max_size connections.
THEOREM SizeBounded == Spec => []AtMostMaxSize
<1>1. IInv => AtMostMaxSize
  BY DEF IInv
<1> QED  BY <1>1, Invariance, PTL

\* An open pool lends a connection to one client at a time, closes none that is
\* in use and none twice.
THEOREM SinglePlace == Spec => []OnePlace
<1>1. IInv => OnePlace
  BY DEF IInv
<1> QED  BY <1>1, Invariance, PTL
==============================================================================
