----------------------------- MODULE MCServices ------------------------------
(***************************************************************************)
(* The services whose promises include that something eventually happens:  *)
(* the HTTP server's life cycle, thread_pool and the redis lock.  They     *)
(* share no state, so a behaviour is a behaviour of one of them (part)     *)
(* while the others rest in their initial states, where no fair step of    *)
(* theirs is enabled.                                                      *)
(*                                                                         *)
(*   http_server  two workers and two clients, so that an fd one worker    *)
(*                closes is the number another worker's client gets        *)
(*   thread_pool  a full queue, a caller that waits and one that does not, *)
(*                two concurrent close()                                   *)
(*   redis_lock   two lock objects on one key, one with a watchdog, and a  *)
(*                user that calls into its lock while the watchdog renews  *)
(***************************************************************************)
EXTENDS Naturals, FiniteSets

CONSTANTS Parts, ServerWorker, Client, Fd, PoolWorker, Caller, Closer, Posting,
          MaxPending, Lock, User, Watchdog, LockOf, Calls, MaxTokens

\* A process accepts finitely many connections.
ASSUME ClientsFinite == IsFiniteSet(Client)

\* A pool that was given no thread refuses every call; it is not this one.
ASSUME PoolHasWorker == PoolWorker # {}

\* An actor is a user or a watchdog, and works on one lock.
ASSUME LockActors == /\ User \intersect Watchdog = {}
                     /\ LockOf \in [User \union Watchdog -> Lock]
                     /\ Calls \in [User -> SUBSET {"acquire", "release", "renew"}]
                     /\ MaxTokens \in [Lock -> Nat]

VARIABLES part,
          sig, exitSema, running, apc, epc, canceled, fds, count, cpc, cfd,
          worker, down, done,
          tasks, isClosed, wpc, hand, tcpc, ret, ran, signalled, xpc, joining,
          key, wire, reply, token, conn, stopped, attempts, pc, op, sending, expired

MCLockOf == [a |-> "l1", w |-> "l1", b |-> "l2"]
MCCalls == [a |-> {"acquire", "release"}, b |-> {"acquire", "renew"}]
MCMaxTokens == [l1 |-> 1, l2 |-> 1]

Srv == INSTANCE HttpServer WITH Worker <- ServerWorker
Pool == INSTANCE ThreadPool WITH Worker <- PoolWorker, Client <- Caller,
          queue <- tasks, cpc <- tcpc
Lck == INSTANCE RedisLock

serverVars == <<sig, exitSema, running, apc, epc, canceled, fds, count, cpc, cfd,
                worker, down, done>>
poolVars == <<tasks, isClosed, wpc, hand, tcpc, ret, ran, signalled, xpc, joining>>
lockVars == <<key, wire, reply, token, conn, stopped, attempts, pc, op, sending,
              expired>>

ServicesInit == part \in Parts /\ Srv!Init /\ Pool!Init /\ Lck!Init

HttpServerPart == part = "http_server" /\ Srv!Next /\ UNCHANGED <<part, poolVars, lockVars>>
ThreadPoolPart == part = "thread_pool" /\ Pool!Next /\ UNCHANGED <<part, serverVars, lockVars>>
RedisLockPart == part = "redis_lock" /\ Lck!Next /\ UNCHANGED <<part, serverVars, poolVars>>

\* A server may have exited, a pool may be closed and its callers gone, and
\* every attempt at a lock may have been made.
Ends == UNCHANGED <<part, serverVars, poolVars, lockVars>>

ServicesNext == HttpServerPart \/ ThreadPoolPart \/ RedisLockPart \/ Ends

ServicesSpec == /\ ServicesInit
                /\ [][ServicesNext]_<<part, serverVars, poolVars, lockVars>>
                /\ Srv!Fairness /\ Pool!Fairness /\ Lck!Fairness

-----------------------------------------------------------------------------
(* A worker of the HTTP server shuts down only fds of clients it is still   *)
(* serving, and run() returns after the last of its client routines.        *)
HttpServerSafe == Srv!SetIsLive /\ Srv!ReturnsAfterClients

(* A signal ends the HTTP server, without help from the peers.              *)
SignalEndsServer == Srv!SignalEndsServer

(* What execute() returns is what happened to the job, and after any close()*)
(* of a thread_pool has returned nothing of it is left.                     *)
ThreadPoolSafe == Pool!ResultsTruthful /\ Pool!CloseIsFinal

(* Every call of execute() and every close() of a thread_pool returns.      *)
CallsEnd == Pool!CallsEnd

(* One command at a time uses a lock's connection, and a lock that owns a   *)
(* token holds the key, unless that has expired: of two owners one at most. *)
OwnershipHonest == Lck!OwnershipHonest

(* A command that deletes a key was sent by the lock that set it and has    *)
(* given it up since, however late the command reaches the server.          *)
NoForeignDelete == Lck!NoForeignDelete

(* A lock with a watchdog learns that its key is gone.                      *)
LossNoticed == Lck!LossNoticed
==============================================================================
