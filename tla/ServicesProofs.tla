--------------------------- MODULE ServicesProofs ----------------------------
(***************************************************************************)
(* What the services promise, for every number of workers, clients,        *)
(* callers, closers, locks, users and watchdogs.  The services share no    *)
(* variable, so each has an inductive invariant of its own, and a step of  *)
(* another service leaves that invariant's variables alone.                *)
(***************************************************************************)
EXTENDS MCServices, Counting

-----------------------------------------------------------------------------
(* The HTTP server *)

ServerTypes ==
  /\ running \in [ServerWorker -> BOOLEAN]
  /\ apc \in [ServerWorker -> {"accept", "drain", "parked", "returned"}]
  /\ fds \in [ServerWorker -> SUBSET Fd]
  /\ count \in [ServerWorker -> Int]
  /\ cpc \in [Client -> {"none", "read", "process", "write", "close", "closed", "gone"}]
  /\ cfd \in [Client -> SUBSET Fd]
  /\ worker \in [Client -> SUBSET ServerWorker]
  /\ done \in BOOLEAN

\* A connection is served by no worker before its accept and by one after it.
OneServer ==
  \A c \in Client : IF cpc[c] = "none" THEN worker[c] = {}
                                       ELSE \E w \in ServerWorker : worker[c] = {w}

\* A number is the fd of one open connection at a time.
FdsApart ==
  /\ \A c \in Client : cpc[c] \in {"none", "closed", "gone"} => cfd[c] = {}
  /\ \A c, d \in Client : c # d => cfd[c] \intersect cfd[d] = {}

\* SetIsLive, one number at a time.
Serving(c) == cpc[c] \in {"read", "process", "write"}
SetHolds ==
  \A w \in ServerWorker : \A fd \in Fd :
    fd \in fds[w] <=> \E c \in Client : Serving(c) /\ w \in worker[c] /\ fd \in cfd[c]

\* m_iClientRoutineCount counts the routines that have not returned.
Routines(w) == {c \in Client : w \in worker[c] /\ cpc[c] # "gone"}
RoutinesCounted == \A w \in ServerWorker : count[w] = Cardinality(Routines(w))

\* run() stops accepting after peek_exit() only, and returns at count zero.
ExitOrder ==
  /\ \A w \in ServerWorker : apc[w] # "accept" => ~running[w]
  /\ \A w \in ServerWorker : apc[w] = "returned" => count[w] = 0
  /\ done => \A w \in ServerWorker : apc[w] = "returned"

ServerInv == /\ ServerTypes
             /\ OneServer
             /\ FdsApart
             /\ SetHolds
             /\ RoutinesCounted
             /\ ExitOrder

LEMMA ServerInitially == Srv!Init => ServerInv
<1> SUFFICES ASSUME Srv!Init PROVE ServerInv
  OBVIOUS
<1> USE DEF Srv!Init
<1>1. ServerTypes
  <2>1. running \in [ServerWorker -> BOOLEAN] /\ done \in BOOLEAN
    BY Zenon
  <2> QED  BY <2>1 DEF ServerTypes
<1>2. OneServer /\ FdsApart /\ SetHolds /\ ExitOrder
  BY DEF OneServer, FdsApart, SetHolds, Serving, ExitOrder
<1>3. RoutinesCounted
  <2>1. \A w \in ServerWorker : Routines(w) = {}
    BY DEF Routines
  <2> QED  BY <2>1, FS_EmptySet DEF RoutinesCounted
<1> QED  BY <1>1, <1>2, <1>3 DEF ServerInv

\* The invariant says what the run checks.
LEMMA ServerInvSafe == ServerInv => HttpServerSafe
<1> SUFFICES ASSUME ServerInv PROVE HttpServerSafe
  OBVIOUS
<1> USE DEF ServerInv, ServerTypes
<1>1. Srv!SetIsLive
  <2> SUFFICES ASSUME NEW w \in ServerWorker
               PROVE  fds[w] = UNION {cfd[c] : c \in {d \in Srv!Live : w \in worker[d]}}
    BY DEF Srv!SetIsLive
  <2>1. \A fd : fd \in fds[w] => fd \in Fd
    OBVIOUS
  <2>2. \A fd : fd \in UNION {cfd[c] : c \in {d \in Srv!Live : w \in worker[d]}}
                <=> \E c \in Client : Serving(c) /\ w \in worker[c] /\ fd \in cfd[c]
    BY DEF Srv!Live, Serving
  <2>3. \A c \in Client : \A fd \in cfd[c] : fd \in Fd
    OBVIOUS
  <2> QED  BY <2>1, <2>2, <2>3 DEF SetHolds
<1>2. ASSUME NEW w \in ServerWorker, apc[w] = "returned", NEW c \in Client, w \in worker[c]
      PROVE  cpc[c] = "gone"
  <2>1. IsFiniteSet(Routines(w))
    BY ClientsFinite, FS_Subset DEF Routines
  <2>2. Cardinality(Routines(w)) = 0
    BY <1>2 DEF RoutinesCounted, ExitOrder
  <2>3. Routines(w) = {}
    BY <2>1, <2>2, FS_EmptySet
  <2> QED  BY <1>2, <2>3 DEF Routines
<1>3. ASSUME done, NEW c \in Client, cpc[c] # "none"
      PROVE  cpc[c] = "gone"
  <2>1. PICK w \in ServerWorker : worker[c] = {w}
    BY <1>3 DEF OneServer
  <2> QED  BY <1>2, <1>3, <2>1 DEF ExitOrder
<1>4. Srv!ReturnsAfterClients
  BY <1>2, <1>3 DEF Srv!ReturnsAfterClients
<1> QED  BY <1>1, <1>4 DEF HttpServerSafe
-----------------------------------------------------------------------------
\* The routines of a worker when the step concerns client c.
LEMMA RoutinesStep ==
  ASSUME ServerInv, NEW c \in Client, NEW w \in ServerWorker,
         \A d \in Client \ {c} : worker'[d] = worker[d] /\ cpc'[d] = cpc[d]
  PROVE  Cardinality(Routines(w)') =
           Cardinality(Routines(w)) + Mem(c, Routines(w)') - Mem(c, Routines(w))
<1>1. IsFiniteSet(Routines(w))
  BY ClientsFinite, FS_Subset DEF Routines
<1>2. Routines(w)' \ {c} = Routines(w) \ {c}
  BY DEF Routines
<1> QED  BY <1>1, <1>2, OneMoves

LEMMA AcceptStep ==
  ASSUME ServerInv, NEW w \in ServerWorker, NEW c \in Client, Srv!Accept(w, c)
  PROVE  ServerInv'
<1> USE DEF ServerInv
<1>1. PICK fd \in Srv!FreeFds : /\ cfd' = [cfd EXCEPT ![c] = {fd}]
                                /\ fds' = [fds EXCEPT ![w] = @ \union {fd}]
  BY DEF Srv!Accept
<1>2. fd \in Fd /\ \A d \in Client : fd \notin cfd[d]
  BY DEF Srv!FreeFds
<1>3. /\ apc[w] = "accept" /\ running[w] /\ cpc[c] = "none"
      /\ worker' = [worker EXCEPT ![c] = {w}]
      /\ count' = [count EXCEPT ![w] = @ + 1]
      /\ cpc' = [cpc EXCEPT ![c] = "read"]
      /\ UNCHANGED <<running, apc, done>>
  BY DEF Srv!Accept
<1>4. ServerTypes'
  BY <1>1, <1>2, <1>3 DEF ServerTypes
<1>5. OneServer'
  BY <1>3 DEF OneServer, ServerTypes
<1>6. worker[c] = {} /\ cfd[c] = {}
  BY <1>3 DEF OneServer, FdsApart
<1>7. FdsApart'
  BY <1>1, <1>2, <1>3 DEF FdsApart, ServerTypes
<1>8. SetHolds'
  BY <1>1, <1>2, <1>3, <1>6 DEF SetHolds, Serving, ServerTypes
<1>9. RoutinesCounted'
  <2> SUFFICES ASSUME NEW v \in ServerWorker
               PROVE  count'[v] = Cardinality(Routines(v)')
    BY DEF RoutinesCounted
  <2>1. Cardinality(Routines(v)') =
          Cardinality(Routines(v)) + Mem(c, Routines(v)') - Mem(c, Routines(v))
    BY <1>3, RoutinesStep DEF ServerTypes
  <2>2. Mem(c, Routines(v)) = 0 /\ Mem(c, Routines(v)') = IF v = w THEN 1 ELSE 0
    BY <1>3, <1>6 DEF Mem, Routines, ServerTypes
  <2> QED  BY <1>3, <2>1, <2>2 DEF RoutinesCounted, ServerTypes
<1>10. ExitOrder'
  BY <1>3 DEF ExitOrder, ServerTypes
<1> QED  BY <1>4, <1>5, <1>7, <1>8, <1>9, <1>10

\* A routine that neither begins nor returns leaves the count alone.
LEMMA CountKept ==
  ASSUME ServerInv, NEW c \in Client, UNCHANGED <<count, worker>>,
         \A d \in Client : cpc[d] = "gone" <=> cpc'[d] = "gone"
  PROVE  RoutinesCounted'
<1>1. \A w \in ServerWorker : Routines(w)' = Routines(w)
  BY DEF Routines
<1> QED  BY <1>1 DEF RoutinesCounted, ServerInv

\* ReadRequest, Process and WriteKeepsAlive: between reading and writing.
LEMMA ServingStep ==
  ASSUME ServerInv, NEW c \in Client, Serving(c), NEW l \in {"read", "process", "write"},
         Srv!Goes(c, l), UNCHANGED <<fds, cfd, worker, down>>
  PROVE  ServerInv'
<1> USE DEF ServerInv
<1>1. cpc' = [cpc EXCEPT ![c] = l] /\ UNCHANGED <<running, apc, count, done>>
  BY DEF Srv!Goes
<1>2. cpc' \in [Client -> {"none", "read", "process", "write", "close", "closed", "gone"}]
  BY <1>1 DEF ServerTypes
<1>3. ServerTypes'
  BY <1>1, <1>2 DEF ServerTypes
<1>4. \A d \in Client : d # c => cpc'[d] = cpc[d]
  BY <1>1 DEF ServerTypes
<1>5. cpc'[c] = l
  BY <1>1 DEF ServerTypes
<1>6. OneServer' /\ FdsApart' /\ SetHolds'
  BY <1>4, <1>5 DEF OneServer, FdsApart, SetHolds, Serving
<1>7. RoutinesCounted'
  BY <1>1, <1>4, <1>5, CountKept DEF Serving
<1>8. ExitOrder'
  BY <1>1 DEF ExitOrder
<1> QED  BY <1>3, <1>6, <1>7, <1>8

\* The fd leaves the set before it is closed.
LEMMA LeaveStep ==
  ASSUME ServerInv, NEW c \in Client, Srv!Leave(c)
  PROVE  ServerInv'
<1> USE DEF ServerInv
<1>1. PICK w \in worker[c] : fds' = [fds EXCEPT ![w] = @ \ cfd[c]]
  BY DEF Srv!Leave
<1>2. /\ cpc' = [cpc EXCEPT ![c] = "close"] /\ Serving(c)
      /\ UNCHANGED <<running, apc, count, done, cfd, worker>>
  BY DEF Srv!Leave, Srv!Goes, Serving
<1>3. w \in ServerWorker /\ worker[c] = {w}
  BY <1>1, <1>2 DEF ServerTypes, OneServer, Serving
<1>4. \A d \in Client : d # c => cpc'[d] = cpc[d]
  BY <1>2 DEF ServerTypes
<1>5. cpc'[c] = "close"
  BY <1>2 DEF ServerTypes
<1>6. ServerTypes'
  BY <1>1, <1>2, <1>3 DEF ServerTypes
<1>7. OneServer' /\ FdsApart'
  BY <1>2, <1>4, <1>5 DEF OneServer, FdsApart, Serving
<1>8. SetHolds'
  <2> SUFFICES ASSUME NEW v \in ServerWorker, NEW fd \in Fd
               PROVE  fd \in fds'[v] <=>
                      \E d \in Client : Serving(d)' /\ v \in worker'[d] /\ fd \in cfd'[d]
    BY DEF SetHolds
  <2>1. \A d \in Client : Serving(d)' <=> Serving(d) /\ d # c
    BY <1>4, <1>5 DEF Serving
  <2>2. fd \in fds[v] <=> \E d \in Client : Serving(d) /\ v \in worker[d] /\ fd \in cfd[d]
    BY DEF SetHolds
  <2>3. \A d \in Client : d # c => cfd[c] \intersect cfd[d] = {}
    BY DEF FdsApart
  <2>4. CASE v = w
    <3>1. fd \in fds'[v] <=> fd \in fds[v] /\ fd \notin cfd[c]
      BY <1>1, <1>3, <2>4 DEF ServerTypes
    <3> QED  BY <1>2, <2>1, <2>2, <2>3, <3>1
  <2>5. CASE v # w
    <3>1. fds'[v] = fds[v] /\ v \notin worker[c]
      BY <1>1, <1>3, <2>5 DEF ServerTypes
    <3> QED  BY <1>2, <2>1, <2>2, <3>1
  <2> QED  BY <2>4, <2>5
<1>9. RoutinesCounted'
  BY <1>2, <1>4, <1>5, CountKept DEF Serving
<1>10. ExitOrder'
  BY <1>2 DEF ExitOrder
<1> QED  BY <1>6, <1>7, <1>8, <1>9, <1>10

LEMMA CloseFdStep ==
  ASSUME ServerInv, NEW c \in Client, Srv!CloseFd(c)
  PROVE  ServerInv'
<1> USE DEF ServerInv
<1>1. /\ cpc[c] = "close" /\ cpc' = [cpc EXCEPT ![c] = "closed"]
      /\ cfd' = [cfd EXCEPT ![c] = {}]
      /\ UNCHANGED <<running, apc, count, done, fds, worker>>
  BY DEF Srv!CloseFd, Srv!Goes
<1>2. \A d \in Client : d # c => cpc'[d] = cpc[d] /\ cfd'[d] = cfd[d]
  BY <1>1 DEF ServerTypes
<1>3. cpc'[c] = "closed" /\ cfd'[c] = {}
  BY <1>1 DEF ServerTypes
<1>4. ServerTypes'
  BY <1>1 DEF ServerTypes
<1>5. OneServer' /\ FdsApart' /\ SetHolds'
  BY <1>1, <1>2, <1>3 DEF OneServer, FdsApart, SetHolds, Serving
<1>6. RoutinesCounted'
  BY <1>1, <1>2, <1>3, CountKept
<1>7. ExitOrder'
  BY <1>1 DEF ExitOrder
<1> QED  BY <1>4, <1>5, <1>6, <1>7

LEMMA CountDownStep ==
  ASSUME ServerInv, NEW c \in Client, Srv!CountDown(c)
  PROVE  ServerInv'
<1> USE DEF ServerInv
<1>1. PICK w \in worker[c] :
        /\ cpc[c] = "closed"
        /\ count' = [count EXCEPT ![w] = @ - 1]
        /\ apc' = IF count'[w] = 0 /\ apc[w] = "parked"
                  THEN [apc EXCEPT ![w] = "drain"] ELSE apc
        /\ cpc' = [cpc EXCEPT ![c] = "gone"]
        /\ UNCHANGED <<running, fds, cfd, worker, done>>
  BY DEF Srv!CountDown
<1>2. w \in ServerWorker /\ worker[c] = {w}
  BY <1>1 DEF ServerTypes, OneServer
<1>3. \A d \in Client : d # c => cpc'[d] = cpc[d]
  BY <1>1 DEF ServerTypes
<1>4. cpc'[c] = "gone"
  BY <1>1 DEF ServerTypes
<1>5. ServerTypes'
  BY <1>1, <1>2 DEF ServerTypes
<1>6. OneServer' /\ FdsApart' /\ SetHolds'
  BY <1>1, <1>3, <1>4 DEF OneServer, FdsApart, SetHolds, Serving
<1>7. \A v \in ServerWorker :
        /\ Cardinality(Routines(v)') =
              Cardinality(Routines(v)) + Mem(c, Routines(v)') - Mem(c, Routines(v))
        /\ Mem(c, Routines(v)') = 0
        /\ Mem(c, Routines(v)) = IF v = w THEN 1 ELSE 0
  BY <1>1, <1>2, <1>3, <1>4, RoutinesStep DEF Mem, Routines
<1>8. RoutinesCounted'
  BY <1>1, <1>2, <1>7 DEF RoutinesCounted, ServerTypes
<1>9. count[w] # 0
  <2>1. IsFiniteSet(Routines(w)) /\ c \in Routines(w)
    BY <1>1, <1>2, ClientsFinite, FS_Subset DEF Routines
  <2> QED  BY <1>2, <2>1, FS_EmptySet DEF RoutinesCounted
<1>10. ExitOrder'
  <2>1. apc[w] # "returned"
    BY <1>2, <1>9 DEF ExitOrder
  <2>2. \A v \in ServerWorker : v # w => apc'[v] = apc[v] /\ count'[v] = count[v]
    BY <1>1, <1>2 DEF ServerTypes
  <2>3. apc'[w] = apc[w] \/ (apc[w] = "parked" /\ apc'[w] = "drain")
    BY <1>1, <1>2 DEF ServerTypes
  <2> QED  BY <1>1, <1>2, <2>1, <2>2, <2>3 DEF ExitOrder
<1> QED  BY <1>5, <1>6, <1>8, <1>10

\* Steps of run() and peek_exit(): no client moves.
LEMMA WorkerSteps ==
  ASSUME ServerInv, NEW w \in ServerWorker, Srv!WorkerStep(w)
  PROVE  ServerInv'
<1> USE DEF ServerInv
<1>1. UNCHANGED <<cpc, cfd, worker, fds, count, done>>
  BY DEF Srv!WorkerStep, Srv!AcceptEnds, Srv!Drain, Srv!PeekExit, Srv!Shutdown,
         Srv!clientVars
<1>2. OneServer' /\ FdsApart' /\ SetHolds' /\ RoutinesCounted'
  BY <1>1 DEF OneServer, FdsApart, SetHolds, Serving, RoutinesCounted, Routines
<1>3. CASE Srv!AcceptEnds(w)
  BY <1>1, <1>2, <1>3 DEF Srv!AcceptEnds, ServerTypes, ExitOrder
<1>4. CASE Srv!Drain(w)
  BY <1>1, <1>2, <1>4 DEF Srv!Drain, ServerTypes, ExitOrder
<1>5. CASE Srv!PeekExit(w)
  <2>1. running' = [running EXCEPT ![w] = FALSE] /\ apc' = apc
    BY <1>5 DEF Srv!PeekExit
  <2>2. running' \in [ServerWorker -> BOOLEAN]
    BY <2>1, Zenon DEF ServerTypes
  <2>3. \A v \in ServerWorker : ~running[v] => ~running'[v]
    BY <2>1 DEF ServerTypes
  <2> QED  BY <1>1, <1>2, <2>1, <2>2, <2>3 DEF ServerTypes, ExitOrder
<1>6. CASE Srv!Shutdown(w)
  BY <1>1, <1>2, <1>6 DEF Srv!Shutdown, ServerTypes, ExitOrder
<1> QED  BY <1>3, <1>4, <1>5, <1>6 DEF Srv!WorkerStep

LEMMA ServerStep == ServerInv /\ [Srv!Next]_serverVars => ServerInv'
<1> SUFFICES ASSUME ServerInv, [Srv!Next]_serverVars PROVE ServerInv'
  OBVIOUS
<1>1. ASSUME UNCHANGED <<running, apc, fds, count, cpc, cfd, worker, done>>
      PROVE  ServerInv'
  BY <1>1 DEF ServerInv, ServerTypes, OneServer, FdsApart, SetHolds, Serving,
              RoutinesCounted, Routines, ExitOrder
<1>2. CASE \E w \in ServerWorker : Srv!WorkerStep(w)
  BY <1>2, WorkerSteps
<1>3. CASE \E w \in ServerWorker, c \in Client : Srv!Accept(w, c)
  BY <1>3, AcceptStep
<1>4. ASSUME NEW c \in Client,
             \/ Srv!ClientStep(c) \/ Srv!ReadRequest(c) \/ Srv!WriteKeepsAlive(c)
             \/ Srv!PeerCloses(c)
      PROVE  ServerInv'
  <2>1. CASE Srv!ReadRequest(c) \/ Srv!Process(c) \/ Srv!WriteKeepsAlive(c)
    <3>1. PICK l \in {"read", "process", "write"} :
            Serving(c) /\ Srv!Goes(c, l) /\ UNCHANGED <<fds, cfd, worker, down>>
      BY <2>1 DEF Srv!ReadRequest, Srv!Process, Srv!WriteKeepsAlive, Serving
    <3> QED  BY <3>1, ServingStep
  <2>2. CASE Srv!Leave(c)
    BY <2>2, LeaveStep
  <2>3. CASE Srv!CloseFd(c)
    BY <2>3, CloseFdStep
  <2>4. CASE Srv!CountDown(c)
    BY <2>4, CountDownStep
  <2>5. CASE Srv!PeerCloses(c)
    BY <1>1, <2>5 DEF Srv!PeerCloses, Srv!workerVars
  <2> QED  BY <1>4, <2>1, <2>2, <2>3, <2>4, <2>5 DEF Srv!ClientStep
<1>5. CASE Srv!PeekSignal
  BY <1>1, <1>5 DEF Srv!PeekSignal, Srv!workerVars, Srv!clientVars
<1>6. CASE Srv!RunReturns
  <2>1. /\ UNCHANGED <<running, apc, fds, count, cpc, cfd, worker>>
        /\ done' = TRUE /\ \A w \in ServerWorker : apc[w] = "returned"
    BY <1>6 DEF Srv!RunReturns, Srv!workerVars, Srv!clientVars
  <2>2. done' \in BOOLEAN
    BY <2>1, Zenon
  <2> QED  BY <2>1, <2>2 DEF ServerInv, ServerTypes, OneServer, FdsApart, SetHolds,
                Serving, RoutinesCounted, Routines, ExitOrder
<1>7. CASE Srv!Signal
  BY <1>1, <1>7 DEF Srv!Signal, Srv!workerVars, Srv!clientVars
<1>8. CASE UNCHANGED serverVars
  BY <1>1, <1>8 DEF serverVars
<1> QED  BY <1>2, <1>3, <1>4, <1>5, <1>6, <1>7, <1>8 DEF Srv!Next

\* A step of the services is one of the server, or leaves the server alone.
LEMMA ServerOwnStep ==
  [ServicesNext]_<<part, serverVars, poolVars, lockVars>> => [Srv!Next]_serverVars
BY DEF ServicesNext, HttpServerPart, ThreadPoolPart, RedisLockPart, Ends

(* At every moment, whatever the workers, the peers and the signal do, a    *)
(* worker of the HTTP server shuts down only fds of clients it is serving,  *)
(* and run() returns after the last of its client routines.                 *)
THEOREM ServerSafe == ServicesSpec => []HttpServerSafe
<1>1. ServicesInit => ServerInv
  BY ServerInitially DEF ServicesInit
<1>2. ServerInv /\ [ServicesNext]_<<part, serverVars, poolVars, lockVars>> => ServerInv'
  BY ServerStep, ServerOwnStep
<1> QED  BY <1>1, <1>2, ServerInvSafe, PTL DEF ServicesSpec

-----------------------------------------------------------------------------
(* thread_pool *)

PoolTypes ==
  /\ tasks \in Seq(Caller)
  /\ isClosed \in BOOLEAN
  /\ wpc \in [PoolWorker -> {"loop", "cond", "run", "drain", "exit"}]
  /\ hand \in [PoolWorker -> Seq(Caller)]
  /\ tcpc \in [Caller -> {"idle", "notify", "wait", "returned"}]
  /\ ret \in [Caller -> {"none", "kOk", "kException", "kExit", "kBusy"}]
  /\ ran \in [Caller -> Nat]
  /\ signalled \in SUBSET Caller
  /\ xpc \in [Closer -> {"idle", "mark", "notify", "join", "returned"}]

\* A task is in the queue once, or in the hand of one worker, never in two.
TasksApart ==
  /\ NoDup(tasks)
  /\ \A w \in PoolWorker : NoDup(hand[w]) /\ Range(hand[w]) \intersect Range(tasks) = {}
  /\ \A v, w \in PoolWorker : v # w => Range(hand[v]) \intersect Range(hand[w]) = {}

Pending(c) == c \in Range(tasks) \/ \E w \in PoolWorker : c \in Range(hand[w])
Truthful(c) == ran[c] = IF ret[c] \in {"kOk", "kException"} THEN 1 ELSE 0

\* A task the pool still has was neither run nor answered; a caller that waits
\* has its task in the pool or its answer, and the answer is the truth.
TaskStates ==
  \A c \in Caller :
    /\ Pending(c) => /\ tcpc[c] # "idle" /\ ran[c] = 0 /\ c \notin signalled
                     /\ c \notin Posting => tcpc[c] \in {"notify", "wait"}
    /\ tcpc[c] = "idle" => ran[c] = 0 /\ c \notin signalled
    /\ tcpc[c] = "wait" => c \notin Posting
    /\ c \notin Posting /\ tcpc[c] \in {"notify", "wait"} =>
         Pending(c) \/ (c \in signalled /\ Truthful(c))
    /\ c \notin Posting /\ tcpc[c] = "returned" => Truthful(c)

\* A worker holds one task while it runs it, and any number only after close().
Hands ==
  \A w \in PoolWorker :
    /\ wpc[w] = "run" => hand[w] # <<>> /\ Tail(hand[w]) = <<>>
    /\ wpc[w] \in {"loop", "cond", "exit"} => hand[w] = <<>>
    /\ wpc[w] \in {"drain", "exit"} => isClosed /\ tasks = <<>>

AllExit == \A w \in PoolWorker : wpc[w] = "exit"

\* closeMtx excludes; a closed pool has a closer at work, or no thread left.
Closing ==
  /\ \A x \in Closer : xpc[x] \in {"mark", "notify", "join"} => joining = {x}
  /\ \A x \in Closer : xpc[x] \in {"notify", "join", "returned"} => isClosed
  /\ \A x \in Closer : xpc[x] = "returned" => AllExit
  /\ isClosed => AllExit \/ \E x \in Closer : xpc[x] \in {"notify", "join"}

PoolInv == PoolTypes /\ TasksApart /\ TaskStates /\ Hands /\ Closing

LEMMA PoolInitially == Pool!Init => PoolInv
<1> SUFFICES ASSUME Pool!Init PROVE PoolInv
  OBVIOUS
<1> USE DEF Pool!Init
<1>1. isClosed \in BOOLEAN
  BY Zenon
<1>2. <<>> \in Seq(Caller) /\ Range(<<>>) = {} /\ NoDup(<<>>)
  <2>1. <<>> \in Seq(Caller) /\ NoDup(<<>>)
    BY DEF NoDup
  <2> QED  BY <2>1, RangeEmpty
<1>3. PoolTypes
  BY <1>1, <1>2 DEF PoolTypes
<1>4. TasksApart /\ \A c \in Caller : ~Pending(c)
  BY <1>2 DEF TasksApart, Pending
<1>5. TaskStates
  BY <1>4 DEF TaskStates
<1>6. Hands /\ Closing
  BY DEF Hands, Closing
<1> QED  BY <1>3, <1>4, <1>5, <1>6 DEF PoolInv

\* The invariant says what the run checks.
LEMMA PoolInvSafe == PoolInv => ThreadPoolSafe
<1> SUFFICES ASSUME PoolInv PROVE ThreadPoolSafe
  OBVIOUS
<1> USE DEF PoolInv
<1>1. Pool!ResultsTruthful
  BY DEF Pool!ResultsTruthful, TaskStates, Truthful
<1>2. ASSUME NEW x \in Closer, xpc[x] = "returned"
      PROVE  /\ AllExit
             /\ tasks = <<>>
             /\ \A c \in Caller : tcpc[c] = "wait" => c \in signalled
  <2>1. AllExit
    BY <1>2 DEF Closing
  <2>2. tasks = <<>> /\ \A w \in PoolWorker : hand[w] = <<>>
    BY <2>1, PoolHasWorker DEF AllExit, Hands
  <2>3. \A c \in Caller : ~Pending(c)
    BY <2>2, RangeEmpty DEF Pending, PoolTypes
  <2> QED  BY <2>1, <2>2, <2>3 DEF TaskStates
<1>3. Pool!CloseIsFinal
  BY <1>2 DEF Pool!CloseIsFinal, AllExit
<1> QED  BY <1>1, <1>3 DEF ThreadPoolSafe

-----------------------------------------------------------------------------
\* Frames: what a step leaves alone keeps its part of the invariant.
LEMMA TaskFrame ==
  ASSUME PoolInv, UNCHANGED <<tasks, hand, tcpc, ret, ran, signalled>>
  PROVE  TasksApart' /\ TaskStates'
BY DEF PoolInv, TasksApart, TaskStates, Pending, Truthful

LEMMA ClosingFrame ==
  ASSUME PoolInv, UNCHANGED <<isClosed, xpc, joining>>, AllExit => AllExit'
  PROVE  Closing'
BY DEF PoolInv, Closing

\* Where the tasks of the pool are when nobody else holds c.
LEMMA PlacesOf ==
  ASSUME PoolInv
  PROVE  /\ Range(tasks) \subseteq Caller
         /\ \A w \in PoolWorker : Range(hand[w]) \subseteq Caller /\ hand[w] \in Seq(Caller)
BY RangeEmpty DEF PoolInv, PoolTypes

LEMMA AddRejectedStep ==
  ASSUME PoolInv, NEW c \in Caller, Pool!AddRejected(c)
  PROVE  PoolInv'
<1> USE DEF PoolInv
<1>1. /\ tcpc[c] = "idle" /\ tcpc' = [tcpc EXCEPT ![c] = "returned"]
      /\ UNCHANGED <<tasks, wpc, hand, ran, signalled, isClosed, xpc, joining>>
  BY DEF Pool!AddRejected, Pool!closeVars
<1>2. PICK r \in {"kExit", "kBusy"} : ret' = [ret EXCEPT ![c] = r]
  BY DEF Pool!AddRejected
<1>3. PoolTypes'
  BY <1>1, <1>2 DEF PoolTypes
<1>4. TasksApart' /\ \A d \in Caller : Pending(d)' <=> Pending(d)
  BY <1>1 DEF TasksApart, Pending
<1>5. TaskStates'
  <2>1. \A d \in Caller : d # c => /\ tcpc'[d] = tcpc[d] /\ ret'[d] = ret[d]
                                   /\ Truthful(d)' <=> Truthful(d)
    BY <1>1, <1>2 DEF PoolTypes, Truthful
  <2>2. tcpc'[c] = "returned" /\ ret'[c] = r /\ ~Pending(c) /\ ran[c] = 0
    BY <1>1, <1>2 DEF PoolTypes, TaskStates
  <2>3. Truthful(c)'
    BY <1>1, <2>2 DEF Truthful
  <2> QED  BY <1>1, <1>4, <2>1, <2>2, <2>3 DEF TaskStates
<1>6. Hands' /\ Closing'
  BY <1>1, ClosingFrame DEF Hands, AllExit
<1> QED  BY <1>3, <1>4, <1>5, <1>6

LEMMA AddTaskStep ==
  ASSUME PoolInv, NEW c \in Caller, Pool!AddTask(c)
  PROVE  PoolInv'
<1> USE DEF PoolInv
<1>1. /\ tcpc[c] = "idle" /\ tcpc' = [tcpc EXCEPT ![c] = "notify"]
      /\ ~isClosed /\ tasks' = Append(tasks, c)
      /\ UNCHANGED <<wpc, hand, ret, ran, signalled, isClosed, xpc, joining>>
  BY DEF Pool!AddTask, Pool!closeVars
<1>2. ~Pending(c) /\ ran[c] = 0 /\ c \notin signalled
  BY <1>1 DEF TaskStates
<1>3. /\ tasks' \in Seq(Caller) /\ NoDup(tasks')
      /\ Range(tasks') = Range(tasks) \union {c}
  BY <1>1, <1>2, RangeAppend DEF PoolTypes, TasksApart, Pending
<1>4. PoolTypes'
  BY <1>1, <1>3 DEF PoolTypes
<1>5. TasksApart'
  BY <1>1, <1>2, <1>3 DEF TasksApart, Pending
<1>6. TaskStates'
  <2>1. \A d \in Caller : Pending(d)' <=> Pending(d) \/ d = c
    BY <1>1, <1>3 DEF Pending
  <2>2. \A d \in Caller : /\ d # c => tcpc'[d] = tcpc[d]
                          /\ Truthful(d)' <=> Truthful(d)
    BY <1>1 DEF PoolTypes, Truthful
  <2>3. tcpc'[c] = "notify"
    BY <1>1 DEF PoolTypes
  <2> QED  BY <1>1, <1>2, <2>1, <2>2, <2>3 DEF TaskStates
<1>7. Hands'
  BY <1>1 DEF Hands
<1>8. Closing'
  BY <1>1, ClosingFrame DEF AllExit
<1> QED  BY <1>4, <1>5, <1>6, <1>7, <1>8

LEMMA NotifyStep ==
  ASSUME PoolInv, NEW c \in Caller, Pool!Notify(c)
  PROVE  PoolInv'
<1> USE DEF PoolInv
<1>1. /\ tcpc[c] = "notify"
      /\ tcpc' = [tcpc EXCEPT ![c] = IF c \in Posting THEN "returned" ELSE "wait"]
      /\ UNCHANGED <<tasks, hand, ret, ran, signalled, isClosed, xpc, joining>>
  BY DEF Pool!Notify, Pool!closeVars
<1>2. \/ wpc' = wpc
      \/ \E w \in PoolWorker : wpc[w] = "cond" /\ wpc' = [wpc EXCEPT ![w] = "loop"]
  BY DEF Pool!Notify, Pool!WGoes, Pool!Sleepers
<1>3. PoolTypes'
  BY <1>1, <1>2 DEF PoolTypes
<1>4. TasksApart' /\ \A d \in Caller : (Pending(d)' <=> Pending(d)) /\ (Truthful(d)' <=> Truthful(d))
  BY <1>1 DEF TasksApart, Pending, Truthful
<1>5. TaskStates'
  <2>1. \A d \in Caller : d # c => tcpc'[d] = tcpc[d]
    BY <1>1 DEF PoolTypes
  <2>2. tcpc'[c] = IF c \in Posting THEN "returned" ELSE "wait"
    BY <1>1 DEF PoolTypes
  <2> QED  BY <1>1, <1>4, <2>1, <2>2 DEF TaskStates
<1>6. Hands' /\ (AllExit => AllExit')
  BY <1>1, <1>2 DEF Hands, PoolTypes, AllExit
<1> QED  BY <1>1, <1>3, <1>4, <1>5, <1>6, ClosingFrame

LEMMA ExecuteReturnsStep ==
  ASSUME PoolInv, NEW c \in Caller, Pool!ExecuteReturns(c)
  PROVE  PoolInv'
<1> USE DEF PoolInv
<1>1. /\ tcpc[c] = "wait" /\ c \in signalled
      /\ tcpc' = [tcpc EXCEPT ![c] = "returned"]
      /\ signalled' = signalled \ {c}
      /\ UNCHANGED <<tasks, wpc, hand, ret, ran, isClosed, xpc, joining>>
  BY DEF Pool!ExecuteReturns, Pool!closeVars
<1>2. PoolTypes'
  BY <1>1 DEF PoolTypes
<1>3. TasksApart' /\ \A d \in Caller : (Pending(d)' <=> Pending(d)) /\ (Truthful(d)' <=> Truthful(d))
  BY <1>1 DEF TasksApart, Pending, Truthful
<1>4. TaskStates'
  <2>1. \A d \in Caller : d # c => tcpc'[d] = tcpc[d]
    BY <1>1 DEF PoolTypes
  <2>2. tcpc'[c] = "returned" /\ ~Pending(c) /\ Truthful(c)
    BY <1>1 DEF PoolTypes, TaskStates
  <2> QED  BY <1>1, <1>3, <2>1, <2>2 DEF TaskStates
<1>5. Hands' /\ Closing'
  BY <1>1, ClosingFrame DEF Hands, AllExit
<1> QED  BY <1>2, <1>3, <1>4, <1>5

\* A worker takes tasks out of the queue into its empty hand.
LEMMA TakeStep ==
  ASSUME PoolInv, NEW w \in PoolWorker, NEW h \in Seq(Caller), NEW q \in Seq(Caller),
         hand[w] = <<>>, NoDup(h), NoDup(q),
         Range(h) \intersect Range(q) = {}, Range(h) \union Range(q) = Range(tasks),
         hand' = [hand EXCEPT ![w] = h], tasks' = q,
         UNCHANGED <<tcpc, ret, ran, signalled>>
  PROVE  TasksApart' /\ TaskStates'
<1> USE DEF PoolInv
<1>1. hand'[w] = h /\ \A v \in PoolWorker : v # w => hand'[v] = hand[v]
  BY DEF PoolTypes
<1>2. Range(hand[w]) = {}
  BY RangeEmpty DEF PoolTypes
<1>3. \A v \in PoolWorker : Range(hand[v]) \intersect Range(tasks) = {}
  BY DEF TasksApart
<1>4. TasksApart'
  BY <1>1, <1>3 DEF TasksApart
<1>5. \A d \in Caller : (Pending(d)' <=> Pending(d)) /\ (Truthful(d)' <=> Truthful(d))
  BY <1>1, <1>2 DEF Pending, Truthful
<1>6. TaskStates'
  BY <1>5 DEF TaskStates
<1> QED  BY <1>4, <1>6

\* The head of a hand is answered, after its job has run or without.
LEMMA AnswerStep ==
  ASSUME PoolInv, NEW w \in PoolWorker, hand[w] # <<>>,
         NEW code \in {"kOk", "kException", "kExit"}, NEW n \in {0, 1},
         n = 1 <=> code # "kExit",
         Pool!Answers(Head(hand[w]), code),
         ran' = [ran EXCEPT ![Head(hand[w])] = @ + n],
         hand' = [hand EXCEPT ![w] = Tail(hand[w])],
         UNCHANGED <<tasks, tcpc>>
  PROVE  /\ TasksApart' /\ TaskStates'
         /\ hand' \in [PoolWorker -> Seq(Caller)]
         /\ ret' \in [Caller -> {"none", "kOk", "kException", "kExit", "kBusy"}]
         /\ ran' \in [Caller -> Nat] /\ signalled' \in SUBSET Caller
<1> USE DEF PoolInv
<1>h. PICK c : c = Head(hand[w])
  OBVIOUS
<1>t. PICK t : t = Tail(hand[w])
  OBVIOUS
<1>1. hand[w] \in Seq(Caller) /\ NoDup(hand[w])
  BY DEF PoolTypes, TasksApart
<1>2. /\ c \in Caller /\ c \in Range(hand[w]) /\ t \in Seq(Caller) /\ NoDup(t)
      /\ Range(t) = Range(hand[w]) \ {c}
  BY <1>1, <1>h, <1>t, RangeTail
<1>3. /\ c \in Posting => UNCHANGED <<ret, signalled>>
      /\ c \notin Posting => /\ ret' = [ret EXCEPT ![c] = code]
                             /\ signalled' = signalled \union {c}
  BY <1>h DEF Pool!Answers
<1>4. ran' = [ran EXCEPT ![c] = @ + n] /\ hand' = [hand EXCEPT ![w] = t]
  BY <1>h, <1>t
<1>5. /\ hand' \in [PoolWorker -> Seq(Caller)]
      /\ ret' \in [Caller -> {"none", "kOk", "kException", "kExit", "kBusy"}]
      /\ signalled' \in SUBSET Caller
  <2>1. hand' \in [PoolWorker -> Seq(Caller)]
    BY <1>2, <1>4 DEF PoolTypes
  <2>2. ret' \in [Caller -> {"none", "kOk", "kException", "kExit", "kBusy"}]
    BY <1>2, <1>3 DEF PoolTypes
  <2>3. signalled' \in SUBSET Caller
    BY <1>2, <1>3 DEF PoolTypes
  <2> QED  BY <2>1, <2>2, <2>3
<1>6. ran' \in [Caller -> Nat]
  BY <1>2, <1>4 DEF PoolTypes
<1>7. hand'[w] = t /\ \A v \in PoolWorker : v # w => hand'[v] = hand[v]
  BY <1>4 DEF PoolTypes
<1>8. TasksApart'
  BY <1>2, <1>7 DEF TasksApart
<1>9. ~Pending(c)' /\ \A d \in Caller : d # c => (Pending(d)' <=> Pending(d))
  <2>1. c \notin Range(tasks) /\ \A v \in PoolWorker : v # w => c \notin Range(hand[v])
    BY <1>2 DEF TasksApart
  <2> QED  BY <1>2, <1>7, <2>1 DEF Pending
<1>10. \A d \in Caller : d # c => /\ ran'[d] = ran[d] /\ ret'[d] = ret[d]
                                  /\ d \in signalled' <=> d \in signalled
                                  /\ Truthful(d)' <=> Truthful(d)
  BY <1>2, <1>3, <1>4 DEF PoolTypes, Truthful
<1>11. /\ tcpc[c] # "idle" /\ ran[c] = 0
       /\ c \notin Posting => tcpc[c] \in {"notify", "wait"}
  BY <1>2 DEF TaskStates, Pending
<1>12. c \notin Posting => c \in signalled' /\ Truthful(c)'
  <2>1. ran'[c] = n
    BY <1>2, <1>4, <1>11 DEF PoolTypes
  <2>2. c \notin Posting => ret'[c] = code
    BY <1>2, <1>3 DEF PoolTypes
  <2> QED  BY <1>3, <2>1, <2>2 DEF Truthful
<1>13. TaskStates'
  BY <1>2, <1>9, <1>10, <1>11, <1>12 DEF TaskStates
<1> QED  BY <1>5, <1>6, <1>8, <1>13

LEMMA WorkerPoolStep ==
  ASSUME PoolInv, NEW w \in PoolWorker, Pool!WorkerStep(w) \/ Pool!Spurious(w)
  PROVE  PoolInv'
<1> USE DEF PoolInv
<1>0. UNCHANGED <<isClosed, xpc, joining>> /\ wpc[w] # "exit"
  BY DEF Pool!WorkerStep, Pool!Spurious, Pool!LoopClosed, Pool!LoopPop, Pool!LoopSleep,
         Pool!Run, Pool!Reject, Pool!Exit, Pool!closeVars
<1>1. Closing'
  BY <1>0, ClosingFrame DEF AllExit
<1>2. CASE Pool!LoopClosed(w)
  <2>1. /\ wpc[w] = "loop" /\ isClosed /\ hand' = [hand EXCEPT ![w] = tasks]
        /\ tasks' = <<>> /\ wpc' = [wpc EXCEPT ![w] = "drain"]
        /\ UNCHANGED <<tcpc, ret, ran, signalled>>
    BY <1>2 DEF Pool!LoopClosed, Pool!WGoes, Pool!clientVars
  <2>2. <<>> \in Seq(Caller) /\ NoDup(<<>>)
    BY DEF NoDup
  <2>3. Range(<<>>) = {}
    BY <2>2, RangeEmpty
  <2>4. PoolTypes'
    BY <1>0, <2>1, <2>2 DEF PoolTypes
  <2>5. hand[w] = <<>> /\ tasks \in Seq(Caller) /\ NoDup(tasks)
    BY <2>1 DEF Hands, PoolTypes, TasksApart
  <2>6. TasksApart' /\ TaskStates'
    BY <2>1, <2>2, <2>3, <2>5, TakeStep
  <2>7. Hands'
    BY <1>0, <2>1 DEF Hands, PoolTypes
  <2> QED  BY <1>1, <2>4, <2>6, <2>7
<1>3. CASE Pool!LoopPop(w)
  <2>1. /\ wpc[w] = "loop" /\ ~isClosed /\ tasks # <<>>
        /\ hand' = [hand EXCEPT ![w] = <<Head(tasks)>>]
        /\ tasks' = Tail(tasks) /\ wpc' = [wpc EXCEPT ![w] = "run"]
        /\ UNCHANGED <<tcpc, ret, ran, signalled>>
    BY <1>3 DEF Pool!LoopPop, Pool!WGoes, Pool!clientVars
  <2>2. /\ Tail(tasks) \in Seq(Caller) /\ Head(tasks) \in Caller
        /\ Head(tasks) \in Range(tasks)
        /\ Range(Tail(tasks)) = Range(tasks) \ {Head(tasks)} /\ NoDup(Tail(tasks))
    BY <2>1, RangeTail DEF PoolTypes, TasksApart
  <2>3. /\ <<Head(tasks)>> \in Seq(Caller) /\ NoDup(<<Head(tasks)>>)
        /\ Range(<<Head(tasks)>>) = {Head(tasks)}
        /\ <<Head(tasks)>> # <<>> /\ Tail(<<Head(tasks)>>) = <<>>
    <3> DEFINE h == Head(tasks)
    <3> HIDE DEF h
    <3>1. <<h>> \in Seq(Caller) /\ DOMAIN <<h>> = {1} /\ <<h>>[1] = h
      BY <2>2 DEF h
    <3>2. NoDup(<<h>>) /\ <<h>> # <<>> /\ Tail(<<h>>) = <<>>
      BY DEF NoDup
    <3>3. Range(<<h>>) = {h}
      BY <3>1 DEF Range
    <3> QED  BY <3>1, <3>2, <3>3 DEF h
  <2>4. PoolTypes'
    BY <1>0, <2>1, <2>2, <2>3 DEF PoolTypes
  <2>5. hand[w] = <<>>
    BY <2>1 DEF Hands
  <2>6. TasksApart' /\ TaskStates'
    BY <2>1, <2>2, <2>3, <2>5, TakeStep
  <2>7. Hands'
    BY <1>0, <2>1, <2>3 DEF Hands, PoolTypes
  <2> QED  BY <1>1, <2>4, <2>6, <2>7
<1>4. CASE Pool!LoopSleep(w) \/ Pool!Spurious(w) \/ Pool!Exit(w)
  <2>1. UNCHANGED <<tasks, hand, tcpc, ret, ran, signalled>>
    BY <1>4 DEF Pool!LoopSleep, Pool!Spurious, Pool!Exit, Pool!clientVars
  <2>2. \/ wpc[w] \in {"loop", "cond"} /\ \E l \in {"loop", "cond"} : wpc' = [wpc EXCEPT ![w] = l]
        \/ wpc[w] = "drain" /\ hand[w] = <<>> /\ wpc' = [wpc EXCEPT ![w] = "exit"]
    BY <1>4 DEF Pool!LoopSleep, Pool!Spurious, Pool!Exit, Pool!WGoes
  <2>3. PoolTypes'
    BY <1>0, <2>1, <2>2 DEF PoolTypes
  <2>4. Hands'
    BY <1>0, <2>1, <2>2 DEF PoolTypes, Hands
  <2> QED  BY <1>1, <2>1, <2>3, <2>4, TaskFrame
<1>5. CASE Pool!Run(w)
  <2>1. /\ wpc[w] = "run" /\ hand' = [hand EXCEPT ![w] = <<>>]
        /\ wpc' = [wpc EXCEPT ![w] = "loop"]
        /\ UNCHANGED <<tasks, tcpc>>
        /\ ran' = [ran EXCEPT ![Head(hand[w])] = @ + 1]
    BY <1>5 DEF Pool!Run, Pool!WGoes
  <2>2. PICK code \in {"kOk", "kException"} : Pool!Answers(Head(hand[w]), code)
    BY <1>5 DEF Pool!Run
  <2>3. hand[w] # <<>> /\ Tail(hand[w]) = <<>>
    BY <2>1 DEF Hands
  <2>4. /\ TasksApart' /\ TaskStates'
        /\ hand' \in [PoolWorker -> Seq(Caller)]
        /\ ret' \in [Caller -> {"none", "kOk", "kException", "kExit", "kBusy"}]
        /\ ran' \in [Caller -> Nat] /\ signalled' \in SUBSET Caller
    BY <2>1, <2>2, <2>3, AnswerStep
  <2>5. PoolTypes' /\ Hands'
    BY <1>0, <2>1, <2>4 DEF PoolTypes, Hands
  <2> QED  BY <1>1, <2>4, <2>5
<1>6. CASE Pool!Reject(w)
  <2>1. /\ wpc[w] = "drain" /\ hand[w] # <<>> /\ hand' = [hand EXCEPT ![w] = Tail(hand[w])]
        /\ UNCHANGED <<tasks, wpc, tcpc, ran>>
        /\ Pool!Answers(Head(hand[w]), "kExit")
    BY <1>6 DEF Pool!Reject
  <2>2. Head(hand[w]) \in Caller
    BY <2>1, RangeTail DEF PoolTypes, TasksApart
  <2>n. PICK n \in {0, 1} : n = 0
    OBVIOUS
  <2>c. PICK code \in {"kOk", "kException", "kExit"} :
          Pool!Answers(Head(hand[w]), code) /\ (n = 1 <=> code # "kExit")
    BY <2>1, <2>n
  <2>3. ran' = [ran EXCEPT ![Head(hand[w])] = @ + n]
    BY <2>1, <2>2, <2>n DEF PoolTypes
  <2>4. /\ TasksApart' /\ TaskStates'
        /\ hand' \in [PoolWorker -> Seq(Caller)]
        /\ ret' \in [Caller -> {"none", "kOk", "kException", "kExit", "kBusy"}]
        /\ ran' \in [Caller -> Nat] /\ signalled' \in SUBSET Caller
    BY <2>1, <2>n, <2>c, <2>3, AnswerStep
  <2>5. PoolTypes' /\ Hands'
    BY <1>0, <2>1, <2>4 DEF PoolTypes, Hands
  <2> QED  BY <1>1, <2>4, <2>5
<1> QED  BY <1>2, <1>3, <1>4, <1>5, <1>6 DEF Pool!WorkerStep

\* close(): the tasks stay where they are.
LEMMA CloserStep ==
  ASSUME PoolInv, NEW x \in Closer, Pool!CloseLock(x) \/ Pool!CloserStep(x)
  PROVE  PoolInv'
<1> USE DEF PoolInv
<1>1. UNCHANGED <<tasks, hand, tcpc, ret, ran, signalled>>
  BY DEF Pool!CloseLock, Pool!CloserStep, Pool!CloseMark, Pool!CloseNotify, Pool!CloseJoined,
         Pool!clientVars
<1>2. TasksApart' /\ TaskStates'
  BY <1>1, TaskFrame
<1>3. CASE Pool!CloseLock(x)
  <2>1. /\ joining = {} /\ joining' = {x} /\ xpc' = [xpc EXCEPT ![x] = "mark"]
        /\ xpc[x] = "idle" /\ UNCHANGED <<isClosed, wpc>>
    BY <1>3 DEF Pool!CloseLock
  <2>2. PoolTypes' /\ Hands'
    BY <1>1, <2>1 DEF PoolTypes, Hands
  <2>3. Closing'
    BY <2>1 DEF Closing, PoolTypes, AllExit
  <2> QED  BY <1>2, <2>2, <2>3
<1>4. CASE Pool!CloseMark(x) /\ isClosed
  <2>1. /\ xpc[x] = "mark" /\ isClosed' = TRUE /\ xpc' = [xpc EXCEPT ![x] = "returned"]
        /\ joining' = {} /\ wpc' = wpc
    BY <1>4 DEF Pool!CloseMark
  <2>2. isClosed' \in BOOLEAN
    BY <2>1, Zenon
  <2>3. PoolTypes' /\ Hands'
    BY <1>1, <1>4, <2>1, <2>2 DEF PoolTypes, Hands
  <2>4. \A y \in Closer : y # x => xpc[y] \notin {"mark", "notify", "join"}
    BY <2>1 DEF Closing
  <2>5. AllExit
    BY <1>4, <2>1, <2>4 DEF Closing
  <2>6. Closing'
    BY <1>4, <2>1, <2>4, <2>5 DEF Closing, PoolTypes, AllExit
  <2> QED  BY <1>2, <2>3, <2>6
<1>5. CASE Pool!CloseMark(x) /\ ~isClosed
  <2>1. /\ xpc[x] = "mark" /\ isClosed' = TRUE /\ xpc' = [xpc EXCEPT ![x] = "notify"]
        /\ joining' = joining /\ wpc' = wpc
    BY <1>5 DEF Pool!CloseMark
  <2>2. isClosed' \in BOOLEAN
    BY <2>1, Zenon
  <2>3. PoolTypes' /\ Hands'
    BY <1>1, <1>5, <2>1, <2>2 DEF PoolTypes, Hands
  <2>4. Closing'
    BY <1>5, <2>1 DEF Closing, PoolTypes, AllExit
  <2> QED  BY <1>2, <2>3, <2>4
<1>6. CASE Pool!CloseNotify(x)
  <2>1. /\ wpc' = [w \in PoolWorker |-> IF wpc[w] = "cond" THEN "loop" ELSE wpc[w]]
        /\ xpc[x] = "notify" /\ xpc' = [xpc EXCEPT ![x] = "join"]
        /\ UNCHANGED <<isClosed, joining>>
    BY <1>6 DEF Pool!CloseNotify
  <2>2. PoolTypes' /\ Hands'
    BY <1>1, <2>1 DEF PoolTypes, Hands
  <2>3. Closing'
    BY <2>1 DEF Closing, PoolTypes, AllExit
  <2> QED  BY <1>2, <2>2, <2>3
<1>7. CASE Pool!CloseJoined(x)
  <2>1. /\ AllExit /\ xpc[x] = "join" /\ xpc' = [xpc EXCEPT ![x] = "returned"]
        /\ joining' = {} /\ UNCHANGED <<isClosed, wpc>>
    BY <1>7 DEF Pool!CloseJoined, AllExit
  <2>2. PoolTypes' /\ Hands'
    BY <1>1, <2>1 DEF PoolTypes, Hands
  <2>3. \A y \in Closer : y # x => xpc[y] \notin {"mark", "notify", "join"}
    BY <2>1 DEF Closing
  <2>4. Closing'
    BY <2>1, <2>3 DEF Closing, PoolTypes, AllExit
  <2> QED  BY <1>2, <2>2, <2>4
<1> QED  BY <1>3, <1>4, <1>5, <1>6, <1>7 DEF Pool!CloserStep

LEMMA PoolStep == PoolInv /\ [Pool!Next]_poolVars => PoolInv'
<1> SUFFICES ASSUME PoolInv, [Pool!Next]_poolVars PROVE PoolInv'
  OBVIOUS
<1>1. CASE UNCHANGED poolVars
  <2>1. TasksApart' /\ TaskStates'
    BY <1>1, TaskFrame DEF poolVars
  <2>2. PoolTypes' /\ Hands' /\ Closing'
    BY <1>1 DEF poolVars, PoolInv, PoolTypes, Hands, Closing, AllExit
  <2> QED  BY <2>1, <2>2 DEF PoolInv
<1> QED  BY <1>1, AddRejectedStep, AddTaskStep, NotifyStep, ExecuteReturnsStep,
            WorkerPoolStep, CloserStep DEF Pool!Next, Pool!ClientStep

\* A step of the services is one of the pool, or leaves the pool alone.
LEMMA PoolOwnStep ==
  [ServicesNext]_<<part, serverVars, poolVars, lockVars>> => [Pool!Next]_poolVars
BY DEF ServicesNext, HttpServerPart, ThreadPoolPart, RedisLockPart, Ends

(* At every moment, what execute() has returned is what happened to the     *)
(* job, and once any close() of a thread_pool has returned no thread of it  *)
(* is left, no job runs and every accepted task is answered.                *)
THEOREM PoolSafe == ServicesSpec => []ThreadPoolSafe
<1>1. ServicesInit => PoolInv
  BY PoolInitially DEF ServicesInit
<1>2. PoolInv /\ [ServicesNext]_<<part, serverVars, poolVars, lockVars>> => PoolInv'
  BY PoolStep, PoolOwnStep
<1> QED  BY <1>1, <1>2, PoolInvSafe, PTL DEF ServicesSpec

-----------------------------------------------------------------------------
(* The redis lock *)

Token == Lock \X Nat
Command == [by : Lck!Actor, cmd : {"set", "del", "renew"}, token : Token]

LockTypes ==
  /\ wire \subseteq Command
  /\ reply \in [Lck!Actor -> SUBSET BOOLEAN]
  /\ token \in [Lock -> SUBSET Token]
  /\ attempts \in [Lock -> Nat]
  /\ pc \in [Lck!Actor -> {"idle", "mtx", "connect", "command", "retry", "sleep", "exit"}]
  /\ op \in [Lck!Actor -> {"none", "acquire", "release", "renew"}]
  /\ sending \in [Lck!Actor -> SUBSET Token]

Busy(a) == pc[a] \in {"connect", "command"}

\* cmd_mtx: the actors of a lock connect and await replies one at a time.
OneCommand == \A a, b \in Lck!Actor : Busy(a) /\ Busy(b) /\ LockOf[a] = LockOf[b] => a = b

\* A lock owns a token of its own, that of the key unless it has expired.
TokensStored ==
  \A l \in Lock : \A t \in token[l] : t \in key \union expired /\ t[1] = l /\ t[2] <= attempts[l]

OneKey == \A s, t \in key : s = t

\* Who sends a delete has forgotten the token, and a token comes only once.
DelsForgotten == \A c \in wire : c.cmd = "del" => \A l \in Lock : c.token \notin token[l]

\* A command carries one token of its actor's lock, one generated before.
SendsOwn ==
  \A a \in Lck!Actor :
    /\ \A t \in sending[a] : t[1] = LockOf[a] /\ t[2] <= attempts[LockOf[a]]
    /\ \A s, t \in sending[a] : s = t
    /\ pc[a] # "command" => reply[a] = {}

WireOld ==
  \A c \in wire : c.token[1] = LockOf[c.by] /\ c.token[2] <= attempts[LockOf[c.by]]

\* While TryAcquire awaits the reply to its SET, no other command with that
\* token is under way, so a positive reply means that the server stored it, and
\* that only expiry can have taken it away since.
RepliesMean ==
  \A a \in Lck!Actor : pc[a] = "command" /\ op[a] = "acquire" =>
    /\ \A c \in wire : c.token \in sending[a] => c.cmd = "set"
    /\ TRUE \in reply[a] => sending[a] \subseteq key \union expired

LockInv == /\ LockTypes
           /\ OneCommand
           /\ TokensStored
           /\ OneKey /\ DelsForgotten
           /\ SendsOwn
           /\ WireOld
           /\ RepliesMean

LEMMA LockInitially == Lck!Init => LockInv
<1> SUFFICES ASSUME Lck!Init PROVE LockInv
  OBVIOUS
<1> USE DEF Lck!Init
<1>1. LockTypes
  <2>1. /\ pc \in [Lck!Actor -> {"idle", "mtx", "connect", "command", "retry", "sleep", "exit"}]
        /\ op \in [Lck!Actor -> {"none", "acquire", "release", "renew"}]
    OBVIOUS
  <2>2. reply \in [Lck!Actor -> SUBSET BOOLEAN]
    BY Zenon
  <2>3. /\ wire \subseteq Command /\ token \in [Lock -> SUBSET Token]
        /\ attempts \in [Lock -> Nat] /\ sending \in [Lck!Actor -> SUBSET Token]
    OBVIOUS
  <2> QED  BY <2>1, <2>2, <2>3 DEF LockTypes
<1>2. /\ OneCommand /\ TokensStored /\ OneKey /\ DelsForgotten
      /\ SendsOwn /\ WireOld /\ RepliesMean
  BY DEF OneCommand, Busy, TokensStored, OneKey, DelsForgotten, SendsOwn, WireOld, RepliesMean
<1> QED  BY <1>1, <1>2 DEF LockInv

\* The instance counts as this module does.
LEMMA SameCardinality == \A S : Lck!Cardinality(S) = Cardinality(S)
BY DEF Lck!Cardinality, Cardinality

LEMMA LockInvSafe == LockInv => OwnershipHonest
<1> SUFFICES ASSUME LockInv PROVE OwnershipHonest
  OBVIOUS
<1>1. ASSUME NEW l \in Lock
      PROVE  token[l] \subseteq {t \in key \union expired : t[1] = l}
  BY DEF LockInv, TokensStored
<1>2. ASSUME NEW l \in Lock
      PROVE  Cardinality(Lck!InCommand(l)) <= 1
  <2>1. \A a, b \in Lck!InCommand(l) : a = b
    BY DEF LockInv, OneCommand, Busy, Lck!InCommand
  <2> QED  BY <2>1, AtMostOne
<1>3. ASSUME NEW k \in Lock, NEW l \in Lock, k # l, token[k] # {}, token[l] # {}
      PROVE  (token[k] \union token[l]) \intersect expired # {}
  <2>1. PICK s \in token[k], t \in token[l] : s # t
    BY <1>1, <1>3
  <2> QED  BY <1>1, <2>1 DEF LockInv, OneKey
<1> QED  BY <1>1, <1>2, <1>3, SameCardinality DEF OwnershipHonest, Lck!OwnershipHonest

-----------------------------------------------------------------------------
LEMMA LockOfActor == \A a \in Lck!Actor : LockOf[a] \in Lock
BY LockActors DEF Lck!Actor

\* Actor a comes to rest, or waits for cmd_mtx: what it awaited is over, and
\* its lock may have got the token that a sent, if the server has stored it.
LEMMA RestStep ==
  ASSUME LockInv, NEW a \in Lck!Actor,
         NEW p \in {"idle", "mtx", "retry", "sleep", "exit"},
         NEW o \in {"none", "acquire", "release", "renew"},
         pc' = [pc EXCEPT ![a] = p], op' = [op EXCEPT ![a] = o],
         reply' = [reply EXCEPT ![a] = {}],
         sending' = sending \/ sending' = [sending EXCEPT ![a] = {}],
         NEW S,
         \/ S \subseteq token[LockOf[a]]
         \/ /\ pc[a] = "command" /\ op[a] = "acquire"
            /\ S \subseteq sending[a] \intersect (key \union expired),
         token' = [token EXCEPT ![LockOf[a]] = S],
         UNCHANGED <<key, wire, expired, attempts>>
  PROVE  LockInv'
<1> USE DEF LockInv
<1>1. LockOf[a] \in Lock
  BY LockOfActor
<1>2. S \subseteq Token
  BY <1>1 DEF LockTypes
<1>3. reply' \in [Lck!Actor -> SUBSET BOOLEAN]
  BY Zenon DEF LockTypes
<1>4. LockTypes'
  BY <1>1, <1>2, <1>3 DEF LockTypes
<1>5. /\ pc'[a] = p /\ reply'[a] = {}
      /\ \A b \in Lck!Actor : b # a => pc'[b] = pc[b] /\ op'[b] = op[b] /\ reply'[b] = reply[b]
      /\ \A b \in Lck!Actor : sending'[b] \subseteq sending[b]
      /\ \A b \in Lck!Actor : b # a => sending'[b] = sending[b]
  BY DEF LockTypes
<1>6. OneCommand'
  BY <1>5 DEF OneCommand, Busy
<1>7. TokensStored' /\ OneKey'
  BY <1>1 DEF TokensStored, OneKey, SendsOwn, LockTypes
<1>10. DelsForgotten'
  BY <1>1 DEF DelsForgotten, RepliesMean, LockTypes
<1>8. SendsOwn' /\ WireOld'
  BY <1>5 DEF SendsOwn, WireOld
<1>9. RepliesMean'
  BY <1>5 DEF RepliesMean
<1> QED  BY <1>4, <1>6, <1>7, <1>8, <1>9, <1>10

\* Actor a sends a command; an acquisition sends a token made just now.
LEMMA SendStep ==
  ASSUME LockInv, NEW a \in Lck!Actor, NEW cmd \in {"set", "del", "renew"},
         NEW n \in Nat, n <= attempts'[LockOf[a]],
         op[a] = "acquire" => cmd = "set" /\ n > attempts[LockOf[a]],
         Lck!Sends(a, cmd, <<LockOf[a], n>>),
         \A b \in Lck!Actor : Busy(b) /\ LockOf[b] = LockOf[a] => b = a,
         pc[a] # "command", op' = op,
         attempts' \in [Lock -> Nat], \A l \in Lock : attempts[l] <= attempts'[l],
         token' \in [Lock -> SUBSET Token], \A l \in Lock : token'[l] \subseteq token[l],
         cmd = "del" => \A l \in Lock : <<LockOf[a], n>> \notin token'[l]
  PROVE  LockInv'
<1> USE DEF LockInv
<1>1. PICK t : t = <<LockOf[a], n>>
  OBVIOUS
<1>2. t \in Token /\ t[1] = LockOf[a] /\ t[2] = n
  BY <1>1, LockOfActor DEF Token
<1>3. PICK c : c = [by |-> a, cmd |-> cmd, token |-> t]
  OBVIOUS
<1>4. c \in Command /\ c.by = a /\ c.cmd = cmd /\ c.token = t
  BY <1>2, <1>3 DEF Command
<1>5. /\ wire' = wire \union {c}
      /\ sending' = [sending EXCEPT ![a] = {t}]
      /\ pc' = [pc EXCEPT ![a] = "command"]
      /\ UNCHANGED <<key, reply, expired, op>>
  BY <1>1, <1>3 DEF Lck!Sends, Lck!Goes
<1>6. LockTypes'
  BY <1>2, <1>4, <1>5 DEF LockTypes
<1>7. /\ pc'[a] = "command" /\ sending'[a] = {t} /\ reply[a] = {}
      /\ \A b \in Lck!Actor : b # a => pc'[b] = pc[b] /\ sending'[b] = sending[b]
  BY <1>5 DEF LockTypes, SendsOwn
<1>8. \A d \in wire : d.by \in Lck!Actor
  BY DEF LockTypes, Command
<1>9. \A l \in Lock : attempts[l] \in Nat /\ attempts'[l] \in Nat /\ attempts[l] <= attempts'[l]
  BY DEF LockTypes
<1>10. OneCommand'
  BY <1>7 DEF OneCommand, Busy
<1>11. TokensStored'
  <2> SUFFICES ASSUME NEW l \in Lock, NEW u \in token'[l]
               PROVE  u \in key' \union expired' /\ u[1] = l /\ u[2] <= attempts'[l]
    BY DEF TokensStored
  <2>1. u \in key \union expired /\ u[1] = l /\ u[2] <= attempts[l] /\ u[2] \in Nat
    BY DEF TokensStored, LockTypes, Token
  <2> QED  BY <1>5, <1>9, <2>1
<1>12. SendsOwn'
  <2> SUFFICES ASSUME NEW b \in Lck!Actor
               PROVE  /\ \A u \in sending'[b] : u[1] = LockOf[b] /\ u[2] <= attempts'[LockOf[b]]
                      /\ \A s, u \in sending'[b] : s = u
                      /\ pc'[b] # "command" => reply'[b] = {}
    BY DEF SendsOwn
  <2>1. CASE b = a
    BY <1>2, <1>7, <2>1
  <2>2. CASE b # a
    <3>1. \A u \in sending[b] : u[2] \in Nat
      BY DEF LockTypes, Token
    <3>2. LockOf[b] \in Lock
      BY LockOfActor
    <3>3. \A u \in sending[b] : u[1] = LockOf[b] /\ u[2] <= attempts[LockOf[b]]
      BY DEF SendsOwn
    <3>4. \A u \in sending[b] : u[2] <= attempts'[LockOf[b]]
      BY <1>9, <3>1, <3>2, <3>3
    <3>5. /\ \A s, u \in sending[b] : s = u
          /\ pc[b] # "command" => reply[b] = {}
      BY DEF SendsOwn
    <3> QED  BY <1>5, <1>7, <2>2, <3>3, <3>4, <3>5
  <2> QED  BY <2>1, <2>2
<1>13. WireOld'
  <2> SUFFICES ASSUME NEW d \in wire'
               PROVE  d.token[1] = LockOf[d.by] /\ d.token[2] <= attempts'[LockOf[d.by]]
    BY DEF WireOld
  <2>1. CASE d = c
    BY <1>2, <1>4, <2>1
  <2>2. CASE d \in wire
    <3>1. d.token[2] \in Nat /\ LockOf[d.by] \in Lock
      BY <1>8, <2>2, LockOfActor DEF LockTypes, Command, Token
    <3> QED  BY <1>9, <2>2, <3>1 DEF WireOld
  <2> QED  BY <1>5, <2>1, <2>2
<1>14. ASSUME NEW d \in wire, op[a] = "acquire"
       PROVE  d.token # t
  <2>1. /\ d.token[2] <= attempts[LockOf[d.by]] /\ d.token[1] = LockOf[d.by]
        /\ d.token[2] \in Nat /\ LockOf[d.by] \in Lock /\ LockOf[a] \in Lock
    BY <1>8, LockOfActor DEF WireOld, LockTypes, Command, Token
  <2>2. n > attempts[LockOf[a]]
    BY <1>14
  <2> QED  BY <1>2, <1>9, <2>1, <2>2
<1>15. RepliesMean'
  <2> SUFFICES ASSUME NEW b \in Lck!Actor, pc'[b] = "command", op[b] = "acquire"
               PROVE  /\ \A d \in wire' : d.token \in sending'[b] => d.cmd = "set"
                      /\ TRUE \in reply[b] => sending'[b] \subseteq key \union expired
    BY <1>5 DEF RepliesMean
  <2>1. CASE b = a
    BY <1>4, <1>5, <1>7, <1>14, <2>1
  <2>2. CASE b # a
    <3>1. pc[b] = "command" /\ sending'[b] = sending[b]
      BY <1>7, <2>2
    <3>2. \A u \in sending[b] : u # t
      BY <1>2, <2>2, <3>1 DEF SendsOwn, Busy
    <3> QED  BY <1>4, <1>5, <3>1, <3>2 DEF RepliesMean
  <2> QED  BY <2>1, <2>2
<1>16. OneKey' /\ DelsForgotten'
  BY <1>1, <1>4, <1>5 DEF OneKey, DelsForgotten
<1> QED  BY <1>6, <1>10, <1>11, <1>12, <1>13, <1>15, <1>16

-----------------------------------------------------------------------------
\* The ways a call of actor a ends.
LEMMA ReturnsRest ==
  ASSUME LockInv, NEW a \in Lck!Actor, NEW ok, Lck!Returns(a, ok)
  PROVE  \E p \in {"idle", "mtx", "retry", "sleep", "exit"} :
         \E o \in {"none", "acquire", "release", "renew"} :
           pc' = [pc EXCEPT ![a] = p] /\ op' = [op EXCEPT ![a] = o]
<1>1. op = [op EXCEPT ![a] = op[a]] /\ op[a] \in {"none", "acquire", "release", "renew"}
  BY DEF LockInv, LockTypes
<1>2. CASE op' = op
  BY <1>1, <1>2 DEF Lck!Returns, Lck!Goes, Lck!Idles
<1>3. CASE op' # op
  BY <1>3 DEF Lck!Returns, Lck!Goes, Lck!Idles
<1> QED  BY <1>2, <1>3

\* A step of actor a that leaves the wire and its lock's token alone.
LEMMA QuietStep ==
  ASSUME LockInv, NEW a \in Lck!Actor, pc[a] # "command",
         NEW p \in {"idle", "mtx", "retry", "sleep", "exit"},
         NEW o \in {"none", "acquire", "release", "renew"},
         pc' = [pc EXCEPT ![a] = p], op' = [op EXCEPT ![a] = o],
         UNCHANGED <<key, wire, reply, expired, token, attempts, sending>>
  PROVE  LockInv'
<1>1. reply[a] = {} /\ LockOf[a] \in Lock
  BY LockOfActor DEF LockInv, SendsOwn
<1>2. reply' = [reply EXCEPT ![a] = {}]
  BY <1>1 DEF LockInv, LockTypes
<1>3. token' = [token EXCEPT ![LockOf[a]] = token[LockOf[a]]]
  BY <1>1 DEF LockInv, LockTypes
<1> QED  BY <1>2, <1>3, RestStep

LEMMA CallStep ==
  ASSUME LockInv, NEW u \in User, Lck!Call(u) \/ Lck!Retry(u)
  PROVE  LockInv'
<1>1. u \in Lck!Actor
  BY DEF Lck!Actor
<1>2. /\ pc[u] # "command"
      /\ UNCHANGED <<key, wire, reply, expired, token, attempts, sending>>
  BY DEF Lck!Call, Lck!Retry, Lck!serverVars
<1>3. op = [op EXCEPT ![u] = op[u]] /\ op[u] \in {"none", "acquire", "release", "renew"}
  BY <1>1 DEF LockInv, LockTypes
<1>4. \E p \in {"idle", "mtx", "retry", "sleep", "exit"} :
      \E o \in {"none", "acquire", "release", "renew"} :
        pc' = [pc EXCEPT ![u] = p] /\ op' = [op EXCEPT ![u] = o]
  <2>1. CASE Lck!Call(u)
    <3>1. PICK o \in Calls[u] : op' = [op EXCEPT ![u] = o]
      BY <2>1 DEF Lck!Call
    <3>2. o \in {"acquire", "release", "renew"}
      BY LockActors
    <3> QED  BY <2>1, <3>1, <3>2 DEF Lck!Call, Lck!Goes
  <2>2. CASE Lck!Retry(u)
    BY <1>3, <2>2 DEF Lck!Retry, Lck!Goes, Lck!Idles
  <2> QED  BY <2>1, <2>2
<1> QED  BY <1>1, <1>2, <1>4, QuietStep

\* cmd_mtx was free, so a is alone with the connection of its lock.
LEMMA EntersAlone ==
  ASSUME LockInv, NEW a \in Lck!Actor, Lck!Enters(a)
  PROVE  pc[a] = "mtx" /\ \A b \in Lck!Actor : Busy(b) => LockOf[b] # LockOf[a]
BY DEF Lck!Enters, Lck!InCommand, Busy

LEMMA SendsSetStep ==
  ASSUME LockInv, NEW a \in Lck!Actor, Lck!SendsSet(a), pc[a] # "command",
         \A b \in Lck!Actor : Busy(b) /\ LockOf[b] = LockOf[a] => b = a,
         UNCHANGED <<token, op>>
  PROVE  LockInv'
<1>1. PICK l \in Lock : l = LockOf[a]
  BY LockOfActor
<1>2. PICK n : n = attempts[l] + 1
  OBVIOUS
<1>3. attempts \in [Lock -> Nat] /\ token \in [Lock -> SUBSET Token]
  BY DEF LockInv, LockTypes
<1>4. attempts' = [attempts EXCEPT ![l] = n]
  BY <1>1, <1>2 DEF Lck!SendsSet
<1>5. n \in Nat /\ attempts'[l] = n /\ attempts' \in [Lock -> Nat]
      /\ \A k \in Lock : attempts[k] <= attempts'[k]
  BY <1>2, <1>3, <1>4
<1>6. Lck!Sends(a, "set", <<LockOf[a], n>>)
  BY <1>1, <1>5 DEF Lck!SendsSet
<1>7. n > attempts[LockOf[a]] /\ n <= attempts'[LockOf[a]]
  BY <1>1, <1>2, <1>3, <1>5
<1> QED  BY <1>3, <1>5, <1>6, <1>7, SendStep

LEMMA ActorStep ==
  ASSUME LockInv, NEW a \in Lck!Actor, Lck!Step(a)
  PROVE  LockInv'
<1>0. /\ LockOf[a] \in Lock
      /\ reply \in [Lck!Actor -> SUBSET BOOLEAN] /\ token \in [Lock -> SUBSET Token]
      /\ attempts \in [Lock -> Nat]
  BY LockOfActor DEF LockInv, LockTypes
<1>1. ASSUME NEW ok, Lck!Returns(a, ok), pc[a] # "command",
             UNCHANGED <<key, wire, reply, expired, token, attempts, sending>>
      PROVE  LockInv'
  BY <1>1, ReturnsRest, QuietStep
<1>2. CASE Lck!EnterStopped(a)
  BY <1>1, <1>2, EntersAlone DEF Lck!EnterStopped, Lck!serverVars
<1>3. CASE Lck!EnterOwned(a)
  BY <1>1, <1>3, EntersAlone DEF Lck!EnterOwned, Lck!serverVars
<1>4. CASE Lck!EnterConnect(a)
  <2>1. /\ pc' = [pc EXCEPT ![a] = "connect"]
        /\ UNCHANGED <<key, wire, reply, expired, token, attempts, op, sending>>
    BY <1>4 DEF Lck!EnterConnect, Lck!Goes, Lck!serverVars
  <2>2. pc[a] = "mtx" /\ \A b \in Lck!Actor : Busy(b) => LockOf[b] # LockOf[a]
    BY <1>4, EntersAlone DEF Lck!EnterConnect
  <2>3. LockTypes'
    BY <2>1 DEF LockInv, LockTypes
  <2>4. pc'[a] = "connect" /\ \A b \in Lck!Actor : b # a => pc'[b] = pc[b]
    BY <2>1 DEF LockInv, LockTypes
  <2>5. OneCommand'
    BY <2>2, <2>4 DEF LockInv, OneCommand, Busy
  <2>6. TokensStored' /\ OneKey' /\ DelsForgotten' /\ WireOld'
    BY <2>1 DEF LockInv, TokensStored, OneKey, DelsForgotten, WireOld
  <2>7. SendsOwn'
    BY <2>1, <2>2, <2>4 DEF LockInv, SendsOwn
  <2>8. RepliesMean'
    BY <2>1, <2>4 DEF LockInv, RepliesMean
  <2> QED  BY <2>3, <2>5, <2>6, <2>7, <2>8 DEF LockInv
<1>5. CASE Lck!EnterSet(a)
  <2>1. pc[a] = "mtx" /\ \A b \in Lck!Actor : Busy(b) => LockOf[b] # LockOf[a]
    BY <1>5, EntersAlone DEF Lck!EnterSet
  <2>2. Lck!SendsSet(a) /\ UNCHANGED <<token, op>>
    BY <1>5 DEF Lck!EnterSet
  <2> QED  BY <2>1, <2>2, SendsSetStep
<1>6. CASE Lck!Connected(a)
  <2>1. pc[a] = "connect" /\ Lck!SendsSet(a) /\ UNCHANGED <<token, op>>
    BY <1>6 DEF Lck!Connected
  <2>2. \A b \in Lck!Actor : Busy(b) /\ LockOf[b] = LockOf[a] => b = a
    BY <2>1 DEF LockInv, OneCommand, Busy
  <2> QED  BY <2>1, <2>2, SendsSetStep
<1>7. CASE Lck!ConnectFails(a)
  BY <1>1, <1>7 DEF Lck!ConnectFails, Lck!serverVars
<1>8. CASE Lck!EnterOwner(a)
  <2>1. /\ pc[a] = "mtx" /\ \A b \in Lck!Actor : Busy(b) => LockOf[b] # LockOf[a]
        /\ op[a] # "acquire" /\ attempts' = attempts
    BY <1>8, EntersAlone DEF Lck!EnterOwner, Lck!Acquiring
  <2>2. CASE conn[LockOf[a]] = "ok"
    <3>1. PICK t \in token[LockOf[a]] :
            Lck!Sends(a, IF op[a] = "release" THEN "del" ELSE "renew", t) /\ UNCHANGED op
      BY <1>8, <2>2 DEF Lck!EnterOwner
    <3>2. PICK cmd \in {"set", "del", "renew"} :
            Lck!Sends(a, cmd, t) /\ (cmd = "del" => op[a] = "release")
      BY <3>1
    <3>3. PICK n \in Nat : t = <<LockOf[a], n>> /\ n <= attempts[LockOf[a]]
      <4>1. t \in Token /\ t[1] = LockOf[a] /\ t[2] <= attempts[LockOf[a]]
        BY <1>0 DEF LockInv, TokensStored
      <4> QED  BY <4>1 DEF Token
    <3>4. token' \in [Lock -> SUBSET Token] /\ \A l \in Lock : token'[l] \subseteq token[l]
      BY <1>0, <1>8 DEF Lck!EnterOwner
    <3>5. cmd = "del" => \A l \in Lock : t \notin token'[l]
      <4>1. op[a] = "release" => token'[LockOf[a]] = {}
        BY <1>0, <1>8 DEF Lck!EnterOwner
      <4>2. \A l \in Lock : l # LockOf[a] => t \notin token[l]
        BY <1>0 DEF LockInv, TokensStored
      <4> QED  BY <3>2, <3>4, <4>1, <4>2
    <3> QED  BY <1>0, <2>1, <3>1, <3>2, <3>3, <3>4, <3>5, SendStep
  <2>3. CASE conn[LockOf[a]] # "ok"
    <3>1. /\ token' = [token EXCEPT ![LockOf[a]] = {}]
          /\ Lck!Returns(a, FALSE) /\ UNCHANGED <<key, wire, reply, expired, sending>>
      BY <1>8, <2>3 DEF Lck!EnterOwner, Lck!serverVars
    <3>2. reply' = [reply EXCEPT ![a] = {}]
      BY <1>0, <2>1, <3>1 DEF LockInv, SendsOwn
    <3> QED  BY <2>1, <3>1, <3>2, ReturnsRest, RestStep
  <2> QED  BY <2>2, <2>3
<1>9. CASE Lck!Replied(a)
  <2>1. PICK ok \in reply[a] :
          /\ reply' = [reply EXCEPT ![a] = {}]
          /\ token' = [token EXCEPT ![LockOf[a]] =
                         IF Lck!Acquiring(a) /\ ok THEN sending[a]
                         ELSE IF op[a] = "renew" /\ ~ok THEN {} ELSE @]
          /\ Lck!Returns(a, ok)
    BY <1>9 DEF Lck!Replied
  <2>2. /\ pc[a] = "command" /\ sending' = [sending EXCEPT ![a] = {}]
        /\ UNCHANGED <<key, wire, expired, attempts>>
    BY <1>9 DEF Lck!Replied
  <2>3. ok \in BOOLEAN
    BY <1>0
  <2>s. PICK S : S = IF op[a] = "acquire" /\ ok THEN sending[a]
                     ELSE IF op[a] = "renew" /\ ~ok THEN {} ELSE token[LockOf[a]]
    OBVIOUS
  <2>4. /\ token' = [token EXCEPT ![LockOf[a]] = S]
        /\ \/ S = sending[a] /\ op[a] = "acquire" /\ ok
           \/ S \subseteq token[LockOf[a]]
    BY <2>1, <2>s DEF Lck!Acquiring
  <2>5. ok => TRUE \in reply[a]
    <3>1. ok => ok = TRUE
      BY <2>3, Zenon
    <3> QED  BY <2>1, <3>1, Zenon
  <2>6. \/ S \subseteq token[LockOf[a]]
        \/ op[a] = "acquire" /\ S \subseteq sending[a] \intersect (key \union expired)
    BY <2>2, <2>4, <2>5 DEF LockInv, RepliesMean
  <2> QED  BY <2>1, <2>2, <2>4, <2>6, ReturnsRest, RestStep
<1>10. CASE Lck!CommandFails(a)
  <2>1. /\ Lck!Returns(a, FALSE) /\ reply' = [reply EXCEPT ![a] = {}]
        /\ sending' = [sending EXCEPT ![a] = {}]
        /\ UNCHANGED <<key, wire, expired, attempts>>
    BY <1>10 DEF Lck!CommandFails
  <2>2. PICK S : S \subseteq token[LockOf[a]] /\ token' = [token EXCEPT ![LockOf[a]] = S]
    <3>1. token = [token EXCEPT ![LockOf[a]] = token[LockOf[a]]]
      BY <1>0
    <3> QED  BY <1>10, <3>1 DEF Lck!CommandFails
  <2> QED  BY <2>1, <2>2, ReturnsRest, RestStep
<1> QED  BY <1>2, <1>3, <1>4, <1>5, <1>6, <1>7, <1>8, <1>9, <1>10 DEF Lck!Step

\* The watchdog between its renewals.
LEMMA WatchdogStep ==
  ASSUME LockInv, NEW w \in Watchdog, Lck!WatchdogStep(w)
  PROVE  LockInv'
<1>1. w \in Lck!Actor
  BY DEF Lck!Actor
<1>2. op = [op EXCEPT ![w] = op[w]] /\ op[w] \in {"none", "acquire", "release", "renew"}
  BY <1>1 DEF LockInv, LockTypes
<1>3. /\ pc[w] = "sleep" /\ op' = [op EXCEPT ![w] = op[w]]
      /\ UNCHANGED <<key, wire, reply, expired, token, attempts, sending>>
      /\ \E p \in {"idle", "mtx", "retry", "sleep", "exit"} : pc' = [pc EXCEPT ![w] = p]
  BY <1>2 DEF Lck!WatchdogStep, Lck!WatchdogTick, Lck!WatchdogStops, Lck!Goes, Lck!serverVars
<1> QED  BY <1>1, <1>2, <1>3, QuietStep

LEMMA CloseStep ==
  ASSUME LockInv, NEW l \in Lock, Lck!Close(l)
  PROVE  LockInv'
<1>1. /\ token' = [token EXCEPT ![l] = {}]
      /\ UNCHANGED <<key, wire, reply, expired, attempts, pc, op, sending>>
  BY DEF Lck!Close, Lck!serverVars
<1>2. LockTypes' /\ TokensStored' /\ OneKey' /\ DelsForgotten'
  BY <1>1 DEF LockInv, LockTypes, TokensStored, OneKey, DelsForgotten
<1>3. OneCommand' /\ SendsOwn'
  BY <1>1 DEF LockInv, OneCommand, Busy, SendsOwn
<1>4. WireOld' /\ RepliesMean'
  BY <1>1 DEF LockInv, WireOld, RepliesMean
<1> QED  BY <1>2, <1>3, <1>4 DEF LockInv

\* The server stores, deletes or extends the key; a positive answer to an
\* actor that acquires is an answer to its SET.
LEMMA ServeStep ==
  ASSUME LockInv, Lck!Serve
  PROVE  LockInv'
<1> USE DEF LockInv
<1>1. PICK c \in wire :
        /\ wire' = wire \ {c}
        /\ key' = CASE c.cmd = "set" /\ key = {} -> {c.token}
                    [] c.cmd = "del" -> key \ {c.token}
                    [] OTHER -> key
        /\ Lck!Answer(c, IF c.cmd = "set" THEN key = {} ELSE c.token \in key)
        /\ UNCHANGED <<expired, token, attempts, pc, op, sending>>
  BY DEF Lck!Serve
<1>2. PICK ok \in BOOLEAN : ok <=> IF c.cmd = "set" THEN key = {} ELSE c.token \in key
  OBVIOUS
<1>3. c.by \in Lck!Actor
  BY DEF LockTypes, Command
<1>4. reply' = IF pc[c.by] = "command" /\ c.token \in sending[c.by]
               THEN [reply EXCEPT ![c.by] = {ok}] ELSE reply
  BY <1>1, <1>2 DEF Lck!Answer
<1>5. /\ \A t \in key \ key' : c.cmd = "del" /\ c.token = t
      /\ c.cmd = "set" /\ key = {} => c.token \in key'
      /\ OneKey'
  BY <1>1 DEF OneKey
<1>6. reply' \in [Lck!Actor -> SUBSET BOOLEAN]
  BY <1>2, <1>3, <1>4 DEF LockTypes
<1>7. LockTypes'
  BY <1>1, <1>6 DEF LockTypes
<1>8. OneCommand' /\ WireOld' /\ DelsForgotten'
  BY <1>1 DEF OneCommand, Busy, WireOld, DelsForgotten
<1>9. TokensStored'
  BY <1>1, <1>5 DEF TokensStored, DelsForgotten
<1>10. \A a \in Lck!Actor : a # c.by \/ pc[a] # "command" => reply'[a] = reply[a]
  BY <1>3, <1>4 DEF LockTypes
<1>11. SendsOwn'
  BY <1>1, <1>10 DEF SendsOwn
<1>12. ASSUME NEW a \in Lck!Actor, pc[a] = "command", op[a] = "acquire", TRUE \in reply'[a]
       PROVE  sending[a] \subseteq key' \union expired'
  <2>1. CASE reply'[a] = reply[a]
    BY <1>1, <1>5, <1>12, <2>1 DEF RepliesMean
  <2>2. CASE reply'[a] # reply[a]
    <3>1. a = c.by /\ c.token \in sending[a] /\ reply' = [reply EXCEPT ![a] = {ok}]
      BY <1>4, <1>10, <1>12, <2>2
    <3>2. reply'[a] = {ok}
      BY <3>1 DEF LockTypes
    <3>3. ok
      BY <1>12, <3>2
    <3>4. c.cmd = "set"
      BY <1>12, <3>1 DEF RepliesMean
    <3>5. c.token \in key'
      BY <1>2, <1>5, <3>3, <3>4
    <3>6. \A s \in sending[a] : s = c.token
      BY <3>1 DEF SendsOwn
    <3> QED  BY <3>5, <3>6
  <2> QED  BY <2>1, <2>2
<1>13. RepliesMean'
  BY <1>1, <1>12 DEF RepliesMean
<1> QED  BY <1>5, <1>7, <1>8, <1>9, <1>11, <1>13

LEMMA LockStep == LockInv /\ [Lck!Next]_lockVars => LockInv'
<1> SUFFICES ASSUME LockInv, [Lck!Next]_lockVars PROVE LockInv'
  OBVIOUS
<1>1. ASSUME UNCHANGED <<wire, reply, token, attempts, pc, op, sending>>,
             key' \subseteq key, key \union expired \subseteq key' \union expired'
      PROVE  LockInv'
  <2>1. LockTypes' /\ TokensStored' /\ OneKey' /\ DelsForgotten'
    BY <1>1 DEF LockInv, LockTypes, TokensStored, OneKey, DelsForgotten
  <2>2. OneCommand' /\ SendsOwn'
    BY <1>1 DEF LockInv, OneCommand, Busy, SendsOwn
  <2>3. WireOld' /\ RepliesMean'
    BY <1>1 DEF LockInv, WireOld, RepliesMean
  <2> QED  BY <2>1, <2>2, <2>3 DEF LockInv
<1>2. CASE Lck!Expire
  BY <1>1, <1>2 DEF Lck!Expire
<1>3. CASE UNCHANGED lockVars
  BY <1>1, <1>3 DEF lockVars
<1> QED  BY <1>2, <1>3, CallStep, ActorStep, WatchdogStep, CloseStep, ServeStep DEF Lck!Next

\* A step of the services is one of the locks, or leaves the locks alone.
LEMMA LockOwnStep ==
  [ServicesNext]_<<part, serverVars, poolVars, lockVars>> => [Lck!Next]_lockVars
BY DEF ServicesNext, HttpServerPart, ThreadPoolPart, RedisLockPart, Ends

LEMMA LockAlways == ServicesSpec => []LockInv
<1>1. ServicesInit => LockInv
  BY LockInitially DEF ServicesInit
<1>2. LockInv /\ [ServicesNext]_<<part, serverVars, poolVars, lockVars>> => LockInv'
  BY LockStep, LockOwnStep
<1> QED  BY <1>1, <1>2, PTL DEF ServicesSpec

(* At every moment, however late commands and replies arrive, one command   *)
(* at a time uses the connection of a ulock, and a ulock that believes it   *)
(* owns the key holds it, unless that key has expired; so of two that       *)
(* believe it, one at most is right.                                        *)
THEOREM LockHonest == ServicesSpec => []OwnershipHonest
BY LockAlways, LockInvSafe, PTL

\* A command takes a key from the server only if it deletes that very token, which
\* its sender's lock made and has forgotten.
LEMMA DeleteStep ==
  ASSUME LockInv, [Lck!Next]_lockVars, wire' # wire, NEW t \in key \ key'
  PROVE  /\ \E c \in wire \ wire' : LockOf[c.by] = t[1]
         /\ \A l \in Lock : t \notin token[l]
<1>1. CASE Lck!Serve
  <2>1. PICK c \in wire \ wire' : c.cmd = "del" /\ c.token = t
    BY <1>1 DEF Lck!Serve
  <2> QED  BY <2>1 DEF LockInv, WireOld, DelsForgotten
<1>2. CASE Lck!Expire
  BY <1>2 DEF Lck!Expire
<1>3. CASE UNCHANGED lockVars
  BY <1>3 DEF lockVars
<1>4. CASE ~Lck!Serve /\ ~Lck!Expire /\ Lck!Next
  <2>1. key' = key
    BY <1>4 DEF Lck!Next, Lck!Call, Lck!Retry, Lck!Step, Lck!EnterStopped, Lck!EnterOwned,
                Lck!EnterConnect, Lck!EnterSet, Lck!Connected, Lck!ConnectFails,
                Lck!EnterOwner, Lck!Replied, Lck!CommandFails, Lck!WatchdogStep,
                Lck!WatchdogTick, Lck!WatchdogStops, Lck!Close, Lck!serverVars,
                Lck!SendsSet, Lck!Sends
  <2> QED  BY <2>1
<1> QED  BY <1>1, <1>2, <1>3, <1>4

(* However late a delete reaches the redis server, it takes the key neither *)
(* from another lock nor from a later acquisition of the same lock: its     *)
(* sender's lock set that key and has given it up.                          *)
THEOREM OnlyOwnDelete == ServicesSpec => NoForeignDelete
<1>1. LockInv /\ [ServicesNext]_<<part, serverVars, poolVars, lockVars>> =>
        [wire' # wire =>
           \A t \in key \ key' : /\ \E c \in wire \ wire' : LockOf[c.by] = t[1]
                                 /\ \A l \in Lock : t \notin token[l]]_(Lck!lockVars)
  BY LockOwnStep, DeleteStep
<1> QED  BY <1>1, LockAlways, PTL DEF ServicesSpec, NoForeignDelete, Lck!NoForeignDelete
==============================================================================
