----------------------------- MODULE HttpServer ------------------------------
(***************************************************************************)
(* http/httpserver.cpp: the life of the server's workers, one per thread,  *)
(* from accept to the graceful exit a signal asks for.                     *)
(*                                                                         *)
(*   worker run()        accept -> go ServeHttpClient ... until ~running   *)
(*                       -> wait until no client routine is left           *)
(*   ServeHttpClient()   ++count, insert fd -> (Read, Process, Write)*     *)
(*                       -> erase fd -> close -> --count, notify at 0      *)
(*   worker peek_exit()  exit_sema.wait -> running = false -> cancel the   *)
(*                       accept -> shut down every fd of the set           *)
(*   server peek_exit()  SIGINT or SIGTERM: one exit_sema permit a worker  *)
(*   server Run()        wait for the own worker -> join the other threads *)
(*                                                                         *)
(* The coroutines of a worker share its thread, so one step runs from one  *)
(* suspension to the next; the mutex of the count is never contended       *)
(* within a thread and is part of the steps.  A closed fd number is free   *)
(* for the next accept of any worker, as the kernel has it.                *)
(***************************************************************************)
EXTENDS SemaValue, FiniteSets

CONSTANTS Worker,    \* one of them runs on the thread of Run()
          Client,    \* connections peers make
          Fd         \* file descriptor numbers

VARIABLES sig,       \* "none", "raised" or "seen"
          exitSema,
          running,   \* m_iRunning
          apc,       \* run(): "accept", "drain", "parked", "returned"
          epc,       \* peek_exit(): "wait", "cancel", "returned"
          canceled,  \* the pending accept was cancelled
          fds,       \* m_setClientFds
          count,     \* m_iClientRoutineCount
          cpc,       \* where each client's routine is
          cfd,       \* its fd, as a set
          worker,    \* the worker that serves it, as a set
          down,      \* clients whose socket is shut down, or closed by the peer
          done       \* Run() has returned

serverVars == <<sig, exitSema, running, apc, epc, canceled, fds, count, cpc, cfd,
                worker, down, done>>
workerVars == <<running, apc, epc, canceled, fds, count>>
clientVars == <<cpc, cfd, worker, down>>

Init == /\ sig = "none"
        /\ exitSema = Sema(0)
        /\ running = [w \in Worker |-> TRUE]
        /\ apc = [w \in Worker |-> "accept"]
        /\ epc = [w \in Worker |-> "wait"]
        /\ canceled = [w \in Worker |-> FALSE]
        /\ fds = [w \in Worker |-> {}]
        /\ count = [w \in Worker |-> 0]
        /\ cpc = [c \in Client |-> "none"]
        /\ cfd = [c \in Client |-> {}]
        /\ worker = [c \in Client |-> {}]
        /\ down = {}
        /\ done = FALSE

FreeFds == Fd \ UNION {cfd[c] : c \in Client}

----------------------------------------------------------------------------
(* run() *)

\* The accept delivers a connection and the routine runs to its first Read.
Accept(w, c) ==
  /\ apc[w] = "accept"
  /\ running[w]
  /\ cpc[c] = "none"
  /\ \E fd \in FreeFds : /\ cfd' = [cfd EXCEPT ![c] = {fd}]
                         /\ fds' = [fds EXCEPT ![w] = @ \union {fd}]
  /\ worker' = [worker EXCEPT ![c] = {w}]
  /\ count' = [count EXCEPT ![w] = @ + 1]
  /\ cpc' = [cpc EXCEPT ![c] = "read"]
  /\ UNCHANGED <<sig, exitSema, running, apc, epc, canceled, down, done>>

\* The accept ends, with a connection that is closed at once or cancelled,
\* after the exit was asked for.
AcceptEnds(w) == /\ apc[w] = "accept"
                 /\ ~running[w]
                 /\ canceled[w]
                 /\ apc' = [apc EXCEPT ![w] = "drain"]
                 /\ UNCHANGED <<sig, exitSema, running, epc, canceled, fds, count,
                                clientVars, done>>

\* cond.wait with its predicate.
Drain(w) == /\ apc[w] = "drain"
            /\ apc' = [apc EXCEPT ![w] = IF count[w] = 0 THEN "returned" ELSE "parked"]
            /\ UNCHANGED <<sig, exitSema, running, epc, canceled, fds, count,
                           clientVars, done>>

----------------------------------------------------------------------------
(* ServeHttpClient *)

Goes(c, l) == /\ cpc' = [cpc EXCEPT ![c] = l]
              /\ UNCHANGED <<sig, exitSema, running, apc, epc, canceled, count,
                             done>>

\* A request arrives; Process() may find it incomplete and read on.
ReadRequest(c) == /\ cpc[c] = "read"
                  /\ c \notin down
                  /\ Goes(c, "process")
                  /\ UNCHANGED <<fds, cfd, worker, down>>

Process(c) == /\ cpc[c] = "process"
              /\ \E l \in {"read", "write"} : Goes(c, l)
              /\ UNCHANGED <<fds, cfd, worker, down>>

WriteKeepsAlive(c) == /\ cpc[c] = "write"
                      /\ c \notin down
                      /\ Goes(c, "read")
                      /\ UNCHANGED <<fds, cfd, worker, down>>

\* Bug: the fd stays in the set until the connection is closed.
LeaveLate(c) == /\ \/ cpc[c] = "read" /\ c \in down
                   \/ cpc[c] = "write"
                /\ Goes(c, "close")
                /\ UNCHANGED <<fds, cfd, worker, down>>

\* Read or Write returns false: the fd leaves the set.
Leave(c) == /\ \/ cpc[c] = "read" /\ c \in down
               \/ cpc[c] = "write"
            /\ \E w \in worker[c] : fds' = [fds EXCEPT ![w] = @ \ cfd[c]]
            /\ Goes(c, "close")
            /\ UNCHANGED <<cfd, worker, down>>

CloseFd(c) == /\ cpc[c] = "close"
              /\ cfd' = [cfd EXCEPT ![c] = {}]
              /\ Goes(c, "closed")
              /\ UNCHANGED <<fds, worker, down>>

\* Bug: the last client routine does not notify.
CountDownSilent(c) == \E w \in worker[c] :
                  /\ cpc[c] = "closed"
                  /\ count' = [count EXCEPT ![w] = @ - 1]
                  /\ apc' = apc
                  /\ cpc' = [cpc EXCEPT ![c] = "gone"]
                  /\ UNCHANGED <<sig, exitSema, running, epc, canceled, fds, cfd,
                                 worker, down, done>>

CountDown(c) == \E w \in worker[c] :
                  /\ cpc[c] = "closed"
                  /\ count' = [count EXCEPT ![w] = @ - 1]
                  /\ apc' = IF count'[w] = 0 /\ apc[w] = "parked"
                            THEN [apc EXCEPT ![w] = "drain"] ELSE apc
                  /\ cpc' = [cpc EXCEPT ![c] = "gone"]
                  /\ UNCHANGED <<sig, exitSema, running, epc, canceled, fds, cfd,
                                 worker, down, done>>

----------------------------------------------------------------------------
(* The exit *)

\* server peek_exit(): other signals are ignored.
PeekSignal == /\ sig = "raised"
              /\ sig' = "seen"
              /\ exitSema' = [exitSema EXCEPT !.permits = @ + Cardinality(Worker)]
              /\ UNCHANGED <<workerVars, clientVars, done>>

PeekExit(w) == /\ epc[w] = "wait"
               /\ Passes(exitSema)
               /\ exitSema' = AfterWait(exitSema)
               /\ running' = [running EXCEPT ![w] = FALSE]
               /\ canceled' = [canceled EXCEPT ![w] = TRUE]
               /\ epc' = [epc EXCEPT ![w] = "cancel"]
               /\ UNCHANGED <<sig, apc, fds, count, clientVars, done>>

\* ucancel() is back: shut down the clients of the set.
Shutdown(w) == /\ epc[w] = "cancel"
               /\ down' = down \union {c \in Client : cfd[c] \intersect fds[w] # {}}
               /\ epc' = [epc EXCEPT ![w] = "returned"]
               /\ UNCHANGED <<sig, exitSema, running, apc, canceled, fds, count, cpc,
                              cfd, worker, done>>

\* The batch of the main worker has ended and the threads are joined.
RunReturns == /\ ~done
              /\ sig = "seen"
              /\ \A w \in Worker : apc[w] = "returned" /\ epc[w] = "returned"
              /\ done' = TRUE
              /\ UNCHANGED <<sig, exitSema, workerVars, clientVars>>

----------------------------------------------------------------------------
(* The world *)

Signal == /\ sig = "none"
          /\ sig' = "raised"
          /\ UNCHANGED <<exitSema, workerVars, clientVars, done>>

PeerCloses(c) == /\ cpc[c] \in {"read", "process", "write"}
                 /\ c \notin down
                 /\ down' = down \union {c}
                 /\ UNCHANGED <<sig, exitSema, workerVars, cpc, cfd, worker, done>>

ClientStep(c) == \/ Process(c)
                 \/ Leave(c)
                 \/ CloseFd(c)
                 \/ CountDown(c)
WorkerStep(w) == AcceptEnds(w) \/ Drain(w) \/ PeekExit(w) \/ Shutdown(w)

Next == \/ \E w \in Worker : WorkerStep(w) \/ \E c \in Client : Accept(w, c)
        \/ \E c \in Client : ClientStep(c) \/ ReadRequest(c) \/ WriteKeepsAlive(c)
                             \/ PeerCloses(c)
        \/ PeekSignal
        \/ RunReturns
        \/ Signal

\* Threads run and handlers end; a peer need never send or hang up.
Fairness == /\ \A c \in Client : WF_serverVars(ClientStep(c))
            /\ \A w \in Worker : WF_serverVars(WorkerStep(w))
            /\ WF_serverVars(PeekSignal)
            /\ WF_serverVars(RunReturns)

Spec == Init /\ [][Next]_serverVars /\ Fairness

----------------------------------------------------------------------------
(* Properties *)

Live == {c \in Client : cpc[c] \in {"read", "process", "write"}}

\* A worker's set holds exactly the fds of the clients it is serving, each
\* still open and nobody else's: the exit never shuts down a number the
\* kernel has given to another connection.
SetIsLive ==
  \A w \in Worker : fds[w] = UNION {cfd[c] : c \in {d \in Live : w \in worker[d]}}

\* "确保 Run 返回后业务依赖可以安全析构" (httpserver.cpp:905): when run() of a worker
\* has returned, none of its client routines is left.
ReturnsAfterClients ==
  /\ \A w \in Worker : apc[w] = "returned" =>
       \A c \in Client : w \in worker[c] => cpc[c] = "gone"
  /\ done => \A c \in Client : cpc[c] \in {"none", "gone"}

\* A signal ends the server, without help from the peers.
SignalEndsServer == (sig = "raised") ~> done
==============================================================================
