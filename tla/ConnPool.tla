------------------------------- MODULE ConnPool ------------------------------
(***************************************************************************)
(* core/uredis.cpp, upool: the connection pool (usql::upool has the same   *)
(* structure).  A step is one critical section of mtx, one operation of    *)
(* the semaphore permits (Semaphore, implemented by Usema) or one call     *)
(* outside the lock.  Connections are addresses: a closed one may be       *)
(* allocated again.  Which idle connection is the oldest is left open.     *)
(***************************************************************************)
EXTENDS Naturals, FiniteSets

CONSTANTS Client,    \* coroutines that use the pool
          Conn,      \* addresses of connections
          None,
          MaxSize,   \* redis.max_size, at least 1 after the constructor
          MinIdle    \* redis.min_idle

ASSUME SizesAssumption == MaxSize \in Nat \ {0} /\ MinIdle \in Nat
ASSUME ClientsFinite == IsFiniteSet(Client) /\ IsFiniteSet(Conn)
ASSUME NoneIsNoConn == None \notin Conn

VARIABLES
  permits,   \* count of st->permits
  pending,   \* pending_permit_waits
  idle, all, closed,
  conn,      \* which addresses are live connections
  again,     \* history: uclose of an address that is not a live connection
  pc, has,   \* where each client is, and the connection it has
  wake,      \* signals Close() still has to send
  victims,   \* connections Close() still has to close
  closer,    \* where Close() is
  reaper,    \* where the reaper is
  prey       \* the connection it is about to close

shared == <<permits, pending, idle, all, closed>>
closing == <<wake, victims, closer>>
vars == <<shared, conn, again, pc, has, closing, reaper, prey>>

Goes(c, l) == pc' = [pc EXCEPT ![c] = l]
Has(c, x) == has' = [has EXCEPT ![c] = x]

\* uclose: close the descriptor and delete the connection.
uclose(x) == /\ conn' = conn \ {x}
             /\ again' = (again \/ x \notin conn)

Init == /\ permits = MaxSize /\ pending = 0
        /\ idle = {} /\ all = {} /\ closed = FALSE
        /\ conn = {} /\ again = FALSE
        /\ pc = [c \in Client |-> "out"]
        /\ has = [c \in Client |-> None]
        /\ wake = 0 /\ victims = {} /\ closer = "open"
        /\ reaper = "sleep" /\ prey = None

----------------------------------------------------------------------------
(* Acquire *)

\* Bug: the wait is announced outside the critical section that looks at closed.
EnterUnannounced(c) == /\ pc[c] = "out" /\ ~closed
                       /\ Goes(c, "wait")
                       /\ UNCHANGED <<shared, conn, again, has, closing, reaper, prey>>

\* A closed pool returns nullptr at once; else the wait is announced.
Enter(c) == /\ pc[c] = "out" /\ ~closed
            /\ pending' = pending + 1
            /\ Goes(c, "wait")
            /\ UNCHANGED <<permits, idle, all, closed, conn, again, has, closing, reaper, prey>>

TakePermit(c) == /\ pc[c] = "wait" /\ permits > 0
                 /\ permits' = permits - 1
                 /\ Goes(c, "permit")
                 /\ UNCHANGED <<pending, idle, all, closed, conn, again, has, closing, reaper, prey>>

\* The pool was closed: the permit came from Close() and is not given back.
FoundClosed(c) == /\ pc[c] = "permit" /\ closed
                  /\ pending' = pending - 1
                  /\ Goes(c, "out")
                  /\ UNCHANGED <<permits, idle, all, closed, conn, again, has, closing, reaper, prey>>

\* Bug: the connection stays in the idle queue.
ReuseKeepsIdle(c, x) == /\ pc[c] = "permit" /\ ~closed /\ x \in idle
                        /\ pending' = pending - 1
                        /\ Goes(c, "use") /\ Has(c, x)
                        /\ UNCHANGED <<permits, idle, all, closed, conn, again, closing, reaper, prey>>

Reuse(c, x) == /\ pc[c] = "permit" /\ ~closed /\ x \in idle
               /\ pending' = pending - 1
               /\ idle' = idle \ {x}
               /\ Goes(c, "use") /\ Has(c, x)
               /\ UNCHANGED <<permits, all, closed, conn, again, closing, reaper, prey>>

\* Bug: a new connection is made although one is idle.
MissAlways(c) == /\ pc[c] = "permit" /\ ~closed
                 /\ pending' = pending - 1
                 /\ Goes(c, "connect")
                 /\ UNCHANGED <<permits, idle, all, closed, conn, again, has, closing, reaper, prey>>

Miss(c) == /\ pc[c] = "permit" /\ ~closed /\ idle = {}
           /\ pending' = pending - 1
           /\ Goes(c, "connect")
           /\ UNCHANGED <<permits, idle, all, closed, conn, again, has, closing, reaper, prey>>

\* uconnect fails: give the permit back and return nullptr.
ConnectFails(c) == /\ pc[c] = "connect"
                   /\ permits' = permits + 1
                   /\ Goes(c, "out")
                   /\ UNCHANGED <<pending, idle, all, closed, conn, again, has, closing, reaper, prey>>

\* uconnect allocates a connection at an address that is not live.
Connected(c, x) == /\ pc[c] = "connect" /\ x \notin conn
                   /\ conn' = conn \cup {x}
                   /\ Goes(c, "adopt") /\ Has(c, x)
                   /\ UNCHANGED <<shared, again, closing, reaper, prey>>

Adopt(c) == /\ pc[c] = "adopt" /\ ~closed
            /\ all' = all \cup {has[c]}
            /\ Goes(c, "use")
            /\ UNCHANGED <<permits, pending, idle, closed, conn, again, has, closing, reaper, prey>>

\* Bug: a pool closed meanwhile is not noticed.
AdoptClosedKeeps(c) == /\ pc[c] = "adopt" /\ closed
                       /\ permits' = permits + 1
                       /\ Goes(c, "out") /\ Has(c, None)
                       /\ UNCHANGED <<pending, idle, all, closed, conn, again, closing, reaper, prey>>

\* The pool was closed while connecting: close, give the permit back.
AdoptClosed(c) == /\ pc[c] = "adopt" /\ closed
                  /\ uclose(has[c])
                  /\ permits' = permits + 1
                  /\ Goes(c, "out") /\ Has(c, None)
                  /\ UNCHANGED <<pending, idle, all, closed, closing, reaper, prey>>

----------------------------------------------------------------------------
(* Release, for a connection that came back healthy or broken *)

Recycle(c) == /\ pc[c] = "use" /\ ~closed
              /\ idle' = idle \cup {has[c]}
              /\ Goes(c, "return") /\ Has(c, None)
              /\ UNCHANGED <<permits, pending, all, closed, conn, again, closing, reaper, prey>>

\* Broken (any connection may be), or the pool is closed.
Discard(c) == /\ pc[c] = "use"
              /\ all' = all \ {has[c]}
              /\ Goes(c, "return")
              /\ UNCHANGED <<permits, pending, idle, closed, conn, again, has, closing, reaper, prey>>

\* Bug: a discarded connection keeps its permit.
ReturnPermitRecycledOnly(c) ==
  /\ pc[c] = "return"
  /\ permits' = IF has[c] = None THEN permits + 1 ELSE permits
  /\ Goes(c, IF has[c] = None THEN "out" ELSE "discard")
  /\ UNCHANGED <<pending, idle, all, closed, conn, again, has, closing, reaper, prey>>

\* permits.signal() comes before the close of a discarded connection.
ReturnPermit(c) == /\ pc[c] = "return"
                   /\ permits' = permits + 1
                   /\ Goes(c, IF has[c] = None THEN "out" ELSE "discard")
                   /\ UNCHANGED <<pending, idle, all, closed, conn, again, has, closing, reaper, prey>>

CloseDiscarded(c) == /\ pc[c] = "discard"
                     /\ uclose(has[c])
                     /\ Goes(c, "out") /\ Has(c, None)
                     /\ UNCHANGED <<shared, closing, reaper, prey>>

----------------------------------------------------------------------------
(* Close; a second call returns at once *)

Close == /\ ~closed
         /\ closed' = TRUE
         /\ wake' = pending
         /\ victims' = all
         /\ all' = {} /\ idle' = {}
         /\ closer' = "wake"
         /\ UNCHANGED <<permits, pending, conn, again, pc, has, reaper, prey>>

\* One permit for every announced wait.
WakeWaiter == /\ closer = "wake" /\ wake > 0
              /\ wake' = wake - 1
              /\ permits' = permits + 1
              /\ UNCHANGED <<pending, idle, all, closed, conn, again, pc, has,
                             victims, closer, reaper, prey>>

\* waker.wake() for the reaper.
WakeReaper == /\ closer = "wake" /\ wake = 0
              /\ closer' = "close"
              /\ UNCHANGED <<shared, conn, again, pc, has, wake, victims, reaper, prey>>

CloseVictim(x) == /\ closer = "close" /\ x \in victims
                  /\ victims' = victims \ {x}
                  /\ uclose(x)
                  /\ UNCHANGED <<shared, pc, has, wake, closer, reaper, prey>>

----------------------------------------------------------------------------
(* The reaper *)

\* Its interval is over.
ReaperTick == /\ reaper = "sleep" /\ ~closed
              /\ reaper' = "look"
              /\ UNCHANGED <<shared, conn, again, pc, has, closing, prey>>

\* Woken by Close(), or its interval is over: closed is seen without the lock.
ReaperExit == /\ reaper = "sleep" /\ closed
              /\ reaper' = "gone"
              /\ UNCHANGED <<shared, conn, again, pc, has, closing, prey>>

\* Under the lock, and looking at closed again: take the oldest spare one.
ReaperTake(x) == /\ reaper = "look" /\ ~closed
                 /\ x \in idle /\ Cardinality(idle) > MinIdle
                 /\ idle' = idle \ {x} /\ all' = all \ {x}
                 /\ prey' = x
                 /\ reaper' = "close"
                 /\ UNCHANGED <<permits, pending, closed, conn, again, pc, has, closing>>

ReaperNothing == /\ reaper = "look"
                 /\ closed \/ Cardinality(idle) <= MinIdle
                 /\ reaper' = "sleep"
                 /\ UNCHANGED <<shared, conn, again, pc, has, closing, prey>>

ReaperClose == /\ reaper = "close"
               /\ uclose(prey)
               /\ prey' = None
               /\ reaper' = "sleep"
               /\ UNCHANGED <<shared, pc, has, closing>>

----------------------------------------------------------------------------
AcquireStep(c) == \/ TakePermit(c) \/ FoundClosed(c) \/ Miss(c)
                  \/ (\E x \in Conn : Reuse(c, x) \/ Connected(c, x))
                  \/ ConnectFails(c) \/ Adopt(c) \/ AdoptClosed(c)

ReleaseStep(c) == Recycle(c) \/ Discard(c) \/ ReturnPermit(c) \/ CloseDiscarded(c)

CloseStep == WakeWaiter \/ WakeReaper \/ \E x \in Conn : CloseVictim(x)

ReaperStep == \/ ReaperExit \/ ReaperNothing \/ ReaperClose
              \/ \E x \in Conn : ReaperTake(x)

Next == \/ \E c \in Client : Enter(c) \/ AcquireStep(c) \/ ReleaseStep(c)
        \/ Close \/ CloseStep
        \/ ReaperTick \/ ReaperStep

(***************************************************************************)
(* Coroutines that are not suspended run, uconnect returns (it has a       *)
(* timeout), borrowers release, and the semaphore serves somebody          *)
(* (Semaphore).  Nobody has to call Acquire() or Close().                  *)
(***************************************************************************)
Fairness == /\ \A c \in Client : /\ WF_vars(AcquireStep(c) /\ pc[c] # "wait")
                                 /\ WF_vars(ReleaseStep(c))
            /\ WF_vars(\E c \in Client : TakePermit(c))
            /\ WF_vars(CloseStep) /\ WF_vars(ReaperStep)

Spec == Init /\ [][Next]_vars /\ Fairness

----------------------------------------------------------------------------
Labels == {"out", "wait", "permit", "connect", "adopt", "use", "return", "discard"}

TypeOK == /\ permits \in Nat /\ pending \in Nat
          /\ idle \subseteq Conn /\ all \subseteq Conn /\ closed \in BOOLEAN
          /\ conn \subseteq Conn /\ again \in BOOLEAN
          /\ pc \in [Client -> Labels]
          /\ has \in [Client -> Conn \cup {None}]
          /\ wake \in Nat /\ victims \subseteq Conn
          /\ closer \in {"open", "wake", "close"}
          /\ reaper \in {"sleep", "look", "close", "gone"}
          /\ prey \in Conn \cup {None}

\* Clients that hold a permit.
InSlot == {c \in Client : pc[c] \in {"permit", "connect", "adopt", "use", "return"}}
Announced == {c \in Client : pc[c] \in {"wait", "permit"}}

(***************************************************************************)
(* No permit is lost or made up: not by failed connects, discarded         *)
(* connections or a close in the middle of an Acquire.  Close() adds       *)
(* exactly one for every wait announced before it, and each of those       *)
(* keeps one.                                                              *)
(***************************************************************************)
PermitsConserved ==
  /\ pending = Cardinality(Announced)
  /\ permits + Cardinality(InSlot) + wake = MaxSize + (IF closed THEN pending ELSE 0)

Building == {c \in Client : pc[c] \in {"connect", "adopt"}}

(***************************************************************************)
(* The pool never owns more than max_size connections, those under         *)
(* construction included, although idle connections hold no permit and     *)
(* uconnect runs without the lock.                                         *)
(***************************************************************************)
AtMostMaxSize == ~closed => Cardinality(all) + Cardinality(Building) <= MaxSize

Using == {c \in Client : pc[c] = "use"}

(***************************************************************************)
(* Until the pool is closed, a connection has one place: with one          *)
(* borrower, idle, or with whoever is about to close it; the ones in use   *)
(* are live, and none is closed twice.                                     *)
(***************************************************************************)
OnePlace ==
  ~closed =>
    /\ \A c, d \in Client : has[c] = has[d] /\ has[c] # None => c = d
    /\ \A c \in Client : has[c] \notin idle \cup {prey} \/ has[c] = None
    /\ prey \notin idle
    /\ {has[c] : c \in Using} \cup idle = all
    /\ all \subseteq conn
    /\ ~again

(***************************************************************************)
(* After Close() every Acquire() that was waiting returns.                 *)
(***************************************************************************)
CloseFreesWaiters == \A c \in Client : closed /\ pc[c] = "wait" ~> pc[c] = "out"

(***************************************************************************)
(* After Close() every connection is closed in the end, the ones made or   *)
(* given back in the meantime included.                                    *)
(***************************************************************************)
CloseClosesAll == closed ~> conn = {}

(***************************************************************************)
(* uredis.h: Close() releases all connections, the borrowed ones included. *)
(* A connection is then released once: nobody closes it again.             *)
(***************************************************************************)
ReleasedOnce == ~again
==============================================================================
