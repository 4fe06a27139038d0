------------------------------- MODULE MCCore --------------------------------
(***************************************************************************)
(* The synchronisation objects TLC checks together: ushared_mutex, which   *)
(* this module extends, umutex, uchan and cobatch.  They share no state, so *)
(* a behaviour is a behaviour of one of them (part) while the others rest  *)
(* in their initial states, where no fair step of theirs is enabled.       *)
(*                                                                         *)
(*   ushared_mutex  two writers, so that one registers while readers       *)
(*                  released by the other are still on their way in        *)
(*   umutex         a holder, a waiter in the semaphore and a newcomer;    *)
(*                  one round of spinning takes both branches of the loop  *)
(*   uchan          unbuffered, full after one write, and with room to     *)
(*                  spare; two writers that compete for a slot             *)
(*   cobatch        a nested batch, and one nested in a batch that already *)
(*                  runs serially; three tasks over a limit of two         *)
(***************************************************************************)
EXTENDS UsharedMutex

CONSTANTS Parts, Co, MaxSpin, Sender, Receiver, Sizes, MaxWrites, Batch, Tasks,
          Concurrent, Parent

\* A process has finitely many coroutines.
ASSUME CoreFinite == IsFiniteSet(Co) /\ IsFiniteSet(Sender) /\ IsFiniteSet(Receiver)

\* The types of the template parameter and of the arguments of cobatch.
ASSUME CoreNumbers == Sizes \subseteq Nat /\ Tasks \in Nat /\ Concurrent \in Nat

VARIABLES part,
          st, sema, pc, loc,
          size, items, space, full, readDone, closed, chw, chr, cpc, sent, taken,
          returned, eof,
          batching, dpc, next, slot, taskDone, done, collected, tpc, opc

MCBatch == {"a", "b", "c", "d"}
MCParent == [a |-> {}, b |-> {<<"a", 1>>}, c |-> {<<"d", 2>>}, d |-> {}]

Mu == INSTANCE Umutex
Chan == INSTANCE Uchan WITH Writer <- Sender, Reader <- Receiver, wpc <- chw, rpc <- chr
Bat == INSTANCE Cobatch

muVars == <<st, sema, pc, loc>>
chanVars == <<size, items, space, full, readDone, closed, chw, chr, cpc, sent, taken,
              returned, eof>>
batchVars == <<batching, dpc, next, slot, taskDone, done, collected, tpc, opc>>

CoreInit == /\ part \in Parts
            /\ Init /\ Mu!Init /\ Chan!Init /\ Bat!Init
            /\ part # "uchan" => size = 0

UsharedMutexPart == part = "ushared_mutex" /\ Next /\ UNCHANGED <<part, muVars, chanVars, batchVars>>
UmutexPart == part = "umutex" /\ Mu!Next /\ UNCHANGED <<part, vars, chanVars, batchVars>>
UchanPart == part = "uchan" /\ Chan!Next /\ UNCHANGED <<part, vars, muVars, batchVars>>
CobatchPart == part = "cobatch" /\ Bat!Next /\ UNCHANGED <<part, vars, muVars, chanVars>>

\* A channel may be closed and drained and the batches may all have run; the
\* mutexes never stop.
Ends == part \in {"uchan", "cobatch"} /\ UNCHANGED <<part, vars, muVars, chanVars, batchVars>>

CoreNext == UsharedMutexPart \/ UmutexPart \/ UchanPart \/ CobatchPart \/ Ends

CoreSpec == /\ CoreInit
            /\ [][CoreNext]_<<part, vars, muVars, chanVars, batchVars>>
            /\ Fairness /\ Mu!Fairness /\ Chan!Fairness /\ Bat!Fairness

-----------------------------------------------------------------------------
(* A writer of ushared_mutex that has registered enters, and so does a      *)
(* reader that queued behind a writer, whatever newcomers do.               *)
RwProgress == RegisteredWriterEnters /\ QueuedReadersEnter

(* umutex admits one holder whatever mix of fast path, spinning, normal     *)
(* wakeup and starving handover is on its way; its SYSFTL are unreachable,  *)
(* a handover adds to iState without carries, and every waiter is counted.  *)
UmutexSafe == Mu!Exclusion /\ Mu!NeverFatal /\ Mu!HandoverFits /\ Mu!WaitersCounted

(* umutex implements Mutex, its progress included.                          *)
ImplementsMutex == Mu!ImplementsMutex

(* The semaphores of a uchan account for every slot while it is open, and a *)
(* read that returns false has missed nothing that was ever written.        *)
UchanSafe == Chan!SlotsAccounted /\ Chan!EofIsFinal

(* Once close() has been called every read of a uchan returns.              *)
CloseEndsReads == Chan!CloseEndsReads

(* A cobatch keeps to its limit, at most one batch of a thread runs         *)
(* concurrently, and run() covers all that it started.                      *)
CobatchSafe == Bat!BoundedConcurrency /\ Bat!RunCoversTasks

(* Every run() of a cobatch returns, however batches are nested.            *)
BatchesEnd == Bat!BatchesEnd
==============================================================================
