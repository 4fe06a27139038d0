----------------------------- MODULE UsharedMutex ----------------------------
(***************************************************************************)
(* core/usync.cpp, ushared_mutex: a readers-writer lock made of a umutex   *)
(* w_ between writers, two atomic counters and two usema.  One step is one *)
(* atomic operation.  w_ is Mutex (implemented by Umutex): its holder is   *)
(* the one writer between lock of w_ and unlock of w_.  The semaphores are *)
(* Semaphore (implemented by Usema): a permit of reader_sema_ goes to any  *)
(* waiting reader, whichever unlock() released it.                         *)
(***************************************************************************)
EXTENDS Integers, FiniteSets

CONSTANTS Writer, Reader,
          MaxReaders,   \* kMaxReaders
          None

ASSUME ActorsFinite == IsFiniteSet(Writer) /\ IsFiniteSet(Reader)
ASSUME MaxReadersLarge == MaxReaders \in Nat /\ MaxReaders > Cardinality(Reader)
ASSUME NoneIsNoWriter == None \notin Writer

VARIABLES
  readers,      \* readers_
  readerWait,   \* reader_wait_
  rsema,        \* permits of reader_sema_
  wsema,        \* permits of writer_sema_
  wpc, rpc,
  r,            \* local r of lock(): readers found when registering
  left,         \* signals unlock() still has to send
  behind        \* history: the registered writer a reader has arrived behind

vars == <<readers, readerWait, rsema, wsema, wpc, rpc, r, left, behind>>

WGoes(w, l) == wpc' = [wpc EXCEPT ![w] = l]
RGoes(d, l) == rpc' = [rpc EXCEPT ![d] = l]

Init == /\ readers = 0 /\ readerWait = 0
        /\ rsema = 0 /\ wsema = 0
        /\ wpc = [w \in Writer |-> "idle"]
        /\ rpc = [d \in Reader |-> "idle"]
        /\ r = 0 /\ left = 0
        /\ behind = [d \in Reader |-> None]

\* The writer that holds w_, and the one whose sign is up (readers_ < 0).
HoldsW(w) == wpc[w] \notin {"idle", "want"}
WFree == \A w \in Writer : ~HoldsW(w)
Registered(w) == wpc[w] \in {"drain", "wait", "cs"}

----------------------------------------------------------------------------
(* lock, try_lock, unlock *)

WantW(w) == /\ wpc[w] = "idle"
            /\ WGoes(w, "want")
            /\ UNCHANGED <<readers, readerWait, rsema, wsema, rpc, r, left, behind>>

\* co_await w_.lock() returns.
AcquireW(w) == /\ wpc[w] = "want" /\ WFree
               /\ WGoes(w, "register")
               /\ UNCHANGED <<readers, readerWait, rsema, wsema, rpc, r, left, behind>>

\* Register (readers_ turns negative): with no reader inside, lock() is done.
Register(w) == /\ wpc[w] = "register"
               /\ readers' = readers - MaxReaders
               /\ r' = readers
               /\ WGoes(w, IF readers = 0 THEN "cs" ELSE "drain")
               /\ UNCHANGED <<readerWait, rsema, wsema, rpc, left, behind>>

\* Bug: lock() never waits for the readers inside.
DrainNeverWaits(w) ==
  /\ wpc[w] = "drain"
  /\ readerWait' = readerWait + r
  /\ r' = 0
  /\ WGoes(w, "cs")
  /\ UNCHANGED <<readers, rsema, wsema, rpc, left, behind>>

\* reader_wait_.fetch_add(r): readers that have left already have counted it
\* down, and when all have, nobody will signal.
Drain(w) == /\ wpc[w] = "drain"
            /\ readerWait' = readerWait + r
            /\ r' = 0
            /\ WGoes(w, IF readerWait' = 0 THEN "cs" ELSE "wait")
            /\ UNCHANGED <<readers, rsema, wsema, rpc, left, behind>>

\* The last reader's signal arrives.
Drained(w) == /\ wpc[w] = "wait"
              /\ wsema > 0
              /\ wsema' = wsema - 1
              /\ WGoes(w, "cs")
              /\ UNCHANGED <<readers, readerWait, rsema, rpc, r, left, behind>>

\* try_lock(): w_.try_lock() ...
TryW(w) == /\ wpc[w] = "idle" /\ WFree
           /\ WGoes(w, "try")
           /\ UNCHANGED <<readers, readerWait, rsema, wsema, rpc, r, left, behind>>

\* Bug: the sign is stored without comparing.
TryRegisterStores(w) == /\ wpc[w] = "try"
                        /\ readers' = -MaxReaders
                        /\ WGoes(w, "cs")
                        /\ UNCHANGED <<readerWait, rsema, wsema, rpc, r, left, behind>>

\* ... and a compare-and-swap that succeeds only with no reader inside; w_ is
\* released again when it fails.
TryRegister(w) == /\ wpc[w] = "try"
                  /\ \/ /\ readers = 0
                        /\ readers' = -MaxReaders
                        /\ WGoes(w, "cs")
                     \/ /\ readers # 0
                        /\ WGoes(w, "idle")
                        /\ UNCHANGED readers
                  /\ UNCHANGED <<readerWait, rsema, wsema, rpc, r, left, behind>>

\* SYSFTL("sync: unlock of unlocked shared mutex").
UnlockUnlocked(w) == wpc[w] = "cs" /\ readers >= 0

\* Take the sign down; the readers that queued behind it are to be released.
Unlock(w) == /\ wpc[w] = "cs"
             /\ ~UnlockUnlocked(w)
             /\ readers' = readers + MaxReaders
             /\ left' = readers'
             /\ behind' = [d \in Reader |-> IF behind[d] = w THEN None ELSE behind[d]]
             /\ WGoes(w, "release")
             /\ UNCHANGED <<readerWait, rsema, wsema, rpc, r>>

\* One reader_sema_->signal() of the loop.
ReleaseReader(w) == /\ wpc[w] = "release"
                    /\ left > 0
                    /\ left' = left - 1
                    /\ rsema' = rsema + 1
                    /\ UNCHANGED <<readers, readerWait, wsema, wpc, rpc, r, behind>>

\* Bug: w_ is released before the queued readers are.
UnlockWEarly(w) == /\ wpc[w] = "release"
                   /\ left' = 0
                   /\ WGoes(w, "idle")
                   /\ UNCHANGED <<readers, readerWait, rsema, wsema, rpc, r, behind>>

\* w_.unlock().
UnlockW(w) == /\ wpc[w] = "release"
              /\ left = 0
              /\ WGoes(w, "idle")
              /\ UNCHANGED <<readers, readerWait, rsema, wsema, rpc, r, left, behind>>

----------------------------------------------------------------------------
(* lock_shared, try_lock_shared, unlock_shared *)

\* No writer registered: one atomic addition, for try_lock_shared() too.
ReadFast(d) == /\ rpc[d] = "idle"
               /\ readers >= 0
               /\ readers' = readers + 1
               /\ RGoes(d, "cs")
               /\ UNCHANGED <<readerWait, rsema, wsema, wpc, r, left, behind>>

\* A writer is registered: counted, and on to reader_sema_ (try_lock_shared()
\* gives up here and changes nothing).
ReadQueue(d) == /\ rpc[d] = "idle"
                /\ readers < 0
                /\ readers' = readers + 1
                /\ RGoes(d, "wait")
                /\ behind' = [behind EXCEPT ![d] = CHOOSE w \in Writer : Registered(w)]
                /\ UNCHANGED <<readerWait, rsema, wsema, wpc, r, left>>

\* A permit of reader_sema_: the reader holds the lock.
ReadWake(d) == /\ rpc[d] = "wait"
               /\ rsema > 0
               /\ rsema' = rsema - 1
               /\ RGoes(d, "cs")
               /\ UNCHANGED <<readers, readerWait, wsema, wpc, r, left, behind>>

\* SYSFTL("sync: unlock_shared of unlocked shared mutex").
ReadUnlockUnlocked(d) == rpc[d] = "cs" /\ readers = 0

\* Bug: a reader does not count down for the registered writer.
ReadUnlockNoDrain(d) == /\ rpc[d] = "cs"
                        /\ readers' = readers - 1
                        /\ behind' = [behind EXCEPT ![d] = None]
                        /\ RGoes(d, "idle")
                        /\ UNCHANGED <<readerWait, rsema, wsema, wpc, r, left>>

ReadUnlock(d) == /\ rpc[d] = "cs"
                 /\ ~ReadUnlockUnlocked(d)
                 /\ readers' = readers - 1
                 /\ behind' = [behind EXCEPT ![d] = None]
                 /\ RGoes(d, IF readers > 0 THEN "idle" ELSE "countdown")
                 /\ UNCHANGED <<readerWait, rsema, wsema, wpc, r, left>>

\* reader_wait_.fetch_sub(1); the last one wakes the writer.
CountDown(d) == /\ rpc[d] = "countdown"
                /\ readerWait' = readerWait - 1
                /\ RGoes(d, IF readerWait = 1 THEN "signal" ELSE "idle")
                /\ UNCHANGED <<readers, rsema, wsema, wpc, r, left, behind>>

SignalWriter(d) == /\ rpc[d] = "signal"
                   /\ wsema' = wsema + 1
                   /\ RGoes(d, "idle")
                   /\ UNCHANGED <<readers, readerWait, rsema, wpc, r, left, behind>>

----------------------------------------------------------------------------
WriterStep(w) == \/ Register(w) \/ Drain(w) \/ Drained(w)
                 \/ TryRegister(w) \/ Unlock(w)
                 \/ ReleaseReader(w) \/ UnlockW(w)

ReaderStep(d) == ReadUnlock(d) \/ CountDown(d) \/ SignalWriter(d)

Next == \/ \E w \in Writer : WantW(w) \/ AcquireW(w) \/ TryW(w) \/ WriterStep(w)
        \/ \E d \in Reader : ReadFast(d) \/ ReadQueue(d) \/ ReadWake(d) \/ ReaderStep(d)

(***************************************************************************)
(* Running coroutines run, holders unlock, w_ and reader_sema_ serve       *)
(* somebody (Mutex and Semaphore).  Nobody has to call lock().             *)
(***************************************************************************)
Fairness == /\ \A w \in Writer : WF_vars(WriterStep(w))
            /\ \A d \in Reader : WF_vars(ReaderStep(d))
            /\ WF_vars(\E w \in Writer : AcquireW(w))
            /\ WF_vars(\E d \in Reader : ReadWake(d))

Spec == Init /\ [][Next]_vars /\ Fairness

----------------------------------------------------------------------------
TypeOK == /\ readers \in Int /\ readerWait \in Int
          /\ rsema \in Nat /\ wsema \in 0..1
          /\ wpc \in [Writer -> {"idle", "want", "register", "drain", "wait",
                                 "cs", "try", "release"}]
          /\ rpc \in [Reader -> {"idle", "wait", "cs", "countdown", "signal"}]
          /\ r \in Nat /\ left \in Nat
          /\ behind \in [Reader -> Writer \cup {None}]

Inside == {d \in Reader : rpc[d] = "cs"}
Queued == {d \in Reader : rpc[d] = "wait"}

(***************************************************************************)
(* A writer inside is alone: no reader and no other writer is inside.      *)
(* Permits of reader_sema_ may go astray between two registrations and     *)
(* still never let a reader in beside a writer.                            *)
(***************************************************************************)
RwExclusion == \A w \in Writer : wpc[w] = "cs" =>
                 Inside = {} /\ \A v \in Writer : wpc[v] = "cs" => v = w

\* The two SYSFTL are unreachable as long as only holders unlock.
NeverFatal == /\ \A w \in Writer : ~UnlockUnlocked(w)
              /\ \A d \in Reader : ~ReadUnlockUnlocked(d)

(***************************************************************************)
(* The two counters agree with who is where.  Without a sign up, every     *)
(* queued reader has its permit or is about to; with one up, reader_wait_  *)
(* (and r, until lock() has added it) counts exactly the readers that must *)
(* still leave: those inside, those permitted, those leaving.              *)
(***************************************************************************)
DrainCounts ==
  LET sign == \E w \in Writer : Registered(w)
      granted == Cardinality(Inside) + rsema + left
      leaving == Cardinality({d \in Reader : rpc[d] = "countdown"})
      known == Cardinality(Inside \cup Queued)
      pending == IF \E w \in Writer : wpc[w] = "drain" THEN r ELSE 0
  IN  IF sign THEN /\ readers = known - MaxReaders
                   /\ readerWait + pending = granted + leaving
              ELSE /\ readers = known
                   /\ known = granted
                   /\ readerWait = 0 /\ leaving = 0

(***************************************************************************)
(* A writer whose sign is up gets in: no countdown is lost between its     *)
(* registration and its addition to reader_wait_, and the signal of the    *)
(* last reader finds it.                                                   *)
(***************************************************************************)
RegisteredWriterEnters ==
  \A w \in Writer : wpc[w] \in {"register", "drain", "wait"} ~> wpc[w] = "cs"

\* Readers that queued behind a writer are not forgotten by its unlock().
QueuedReadersEnter == Queued # {} ~> Inside # {}

(***************************************************************************)
(* The note of ushared_mutex in usync.h: once a writer has registered, new *)
(* readers do not jump in.  A reader that arrived behind a registered      *)
(* writer is inside only after that writer has taken its sign down.        *)
(***************************************************************************)
NewReadersWait == \A d \in Reader : rpc[d] = "cs" => behind[d] = None
==============================================================================
