----------------------------- MODULE ThreadPool ------------------------------
(***************************************************************************)
(* core/thread_pool.h: OS threads that run jobs for coroutines.            *)
(*                                                                         *)
(*   execute()  addTask under mtx: kExit, kBusy or enqueue -> notify_one   *)
(*              -> sem.wait -> return ret_code                             *)
(*   addtask()  the same without ret_code and semaphore                    *)
(*   Loop()     under mtx: closed? take the whole queue : pop : cond.wait  *)
(*              -> outside: run the job, or answer kExit -> signal         *)
(*   close()    closeMtx { closed -> notify_all -> join each thread }      *)
(*                                                                         *)
(* A critical section of mtx is one step.  A pool without workers, or made *)
(* by the default constructor, refuses everything: Worker is not empty.    *)
(***************************************************************************)
EXTENDS Naturals, Sequences, FiniteSets

CONSTANTS Worker, Client, Closer,
          Posting,      \* the clients that call addtask() and do not wait
          MaxPending    \* max_pending

VARIABLES queue,      \* Pool::tasks
          isClosed,
          wpc,        \* "loop" (wants mtx), "cond", "run", "drain", "exit"
          hand,       \* tasks a worker has taken out of the queue
          cpc,        \* where each client is
          ret,        \* what its ret_code or the call's result is
          ran,        \* how often its job was run
          signalled,  \* semaphores that hold the permit
          xpc,        \* where each closer is
          joining     \* the closer that holds closeMtx, as a set

poolVars == <<queue, isClosed, wpc, hand, cpc, ret, ran, signalled, xpc, joining>>

clientVars == <<cpc, ret, ran, signalled>>
closeVars == <<isClosed, xpc, joining>>

Init == /\ queue = <<>>
        /\ isClosed = FALSE
        /\ wpc = [w \in Worker |-> "cond"]   \* no task yet
        /\ hand = [w \in Worker |-> <<>>]
        /\ cpc = [c \in Client |-> "idle"]
        /\ ret = [c \in Client |-> "none"]
        /\ ran = [c \in Client |-> 0]
        /\ signalled = {}
        /\ xpc = [x \in Closer |-> "idle"]
        /\ joining = {}

WGoes(w, l) == wpc' = [wpc EXCEPT ![w] = l]

----------------------------------------------------------------------------
(* execute(), addtask() *)

AddRejected(c) == /\ cpc[c] = "idle"
                  /\ isClosed \/ Len(queue) >= MaxPending
                  /\ ret' = [ret EXCEPT ![c] = IF isClosed THEN "kExit" ELSE "kBusy"]
                  /\ cpc' = [cpc EXCEPT ![c] = "returned"]
                  /\ UNCHANGED <<queue, wpc, hand, ran, signalled, closeVars>>

\* Bug: isClosed is not looked at again under the lock.
AddTaskClosed(c) == /\ cpc[c] = "idle"
                    /\ Len(queue) < MaxPending
                    /\ queue' = Append(queue, c)
                    /\ cpc' = [cpc EXCEPT ![c] = "notify"]
                    /\ UNCHANGED <<wpc, hand, ret, ran, signalled, closeVars>>

AddTask(c) == /\ cpc[c] = "idle"
              /\ ~isClosed
              /\ Len(queue) < MaxPending
              /\ queue' = Append(queue, c)
              /\ cpc' = [cpc EXCEPT ![c] = "notify"]
              /\ UNCHANGED <<wpc, hand, ret, ran, signalled, closeVars>>

Sleepers == {w \in Worker : wpc[w] = "cond"}

\* cond.notify_one() outside the lock: one of the sleepers, if any.
Notify(c) == /\ cpc[c] = "notify"
             /\ \/ \E w \in Sleepers : WGoes(w, "loop")
                \/ Sleepers = {} /\ UNCHANGED wpc
             /\ cpc' = [cpc EXCEPT ![c] = IF c \in Posting THEN "returned" ELSE "wait"]
             /\ UNCHANGED <<queue, hand, ret, ran, signalled, closeVars>>

ExecuteReturns(c) == /\ cpc[c] = "wait"
                     /\ c \in signalled
                     /\ signalled' = signalled \ {c}
                     /\ cpc' = [cpc EXCEPT ![c] = "returned"]
                     /\ UNCHANGED <<queue, wpc, hand, ret, ran, closeVars>>

----------------------------------------------------------------------------
(* Loop() *)

\* Bug: a worker that finds the pool closed leaves the queue alone.
LoopClosedKeeps(w) == /\ wpc[w] = "loop"
                      /\ isClosed
                      /\ WGoes(w, "drain")
                      /\ UNCHANGED <<queue, hand, clientVars, closeVars>>

LoopClosed(w) == /\ wpc[w] = "loop"
                 /\ isClosed
                 /\ hand' = [hand EXCEPT ![w] = queue]
                 /\ queue' = <<>>
                 /\ WGoes(w, "drain")
                 /\ UNCHANGED <<clientVars, closeVars>>

LoopPop(w) == /\ wpc[w] = "loop"
              /\ ~isClosed
              /\ queue # <<>>
              /\ hand' = [hand EXCEPT ![w] = <<Head(queue)>>]
              /\ queue' = Tail(queue)
              /\ WGoes(w, "run")
              /\ UNCHANGED <<clientVars, closeVars>>

LoopSleep(w) == /\ wpc[w] = "loop"
                /\ ~isClosed
                /\ queue = <<>>
                /\ WGoes(w, "cond")
                /\ UNCHANGED <<queue, hand, clientVars, closeVars>>

\* A condition variable may wake for no reason.
Spurious(w) == /\ wpc[w] = "cond"
               /\ WGoes(w, "loop")
               /\ UNCHANGED <<queue, hand, clientVars, closeVars>>

\* The ret_code pointer and the semaphore of an addtask() are null.
Answers(c, code) ==
  IF c \in Posting THEN UNCHANGED <<ret, signalled>>
  ELSE /\ ret' = [ret EXCEPT ![c] = code]
       /\ signalled' = signalled \union {c}

\* The job runs outside the lock; it returns or throws.
Run(w) == /\ wpc[w] = "run"
          /\ LET c == Head(hand[w])
             IN  /\ ran' = [ran EXCEPT ![c] = @ + 1]
                 /\ \E code \in {"kOk", "kException"} : Answers(c, code)
          /\ hand' = [hand EXCEPT ![w] = <<>>]
          /\ WGoes(w, "loop")
          /\ UNCHANGED <<queue, cpc, closeVars>>

Reject(w) == /\ wpc[w] = "drain"
             /\ hand[w] # <<>>
             /\ Answers(Head(hand[w]), "kExit")
             /\ hand' = [hand EXCEPT ![w] = Tail(@)]
             /\ UNCHANGED <<queue, wpc, cpc, ran, closeVars>>

Exit(w) == /\ wpc[w] = "drain"
           /\ hand[w] = <<>>
           /\ WGoes(w, "exit")
           /\ UNCHANGED <<queue, hand, clientVars, closeVars>>

----------------------------------------------------------------------------
(* close() *)

CloseLock(x) == /\ xpc[x] = "idle"
                /\ joining = {}
                /\ joining' = {x}
                /\ xpc' = [xpc EXCEPT ![x] = "mark"]
                /\ UNCHANGED <<queue, isClosed, wpc, hand, clientVars>>

\* Closed already: the closer before this one has joined the threads.
CloseMark(x) == /\ xpc[x] = "mark"
                /\ isClosed' = TRUE
                /\ xpc' = [xpc EXCEPT ![x] = IF isClosed THEN "returned" ELSE "notify"]
                /\ joining' = IF isClosed THEN {} ELSE joining
                /\ UNCHANGED <<queue, wpc, hand, clientVars>>

CloseNotify(x) == /\ xpc[x] = "notify"
                  /\ wpc' = [w \in Worker |-> IF wpc[w] = "cond" THEN "loop" ELSE wpc[w]]
                  /\ xpc' = [xpc EXCEPT ![x] = "join"]
                  /\ UNCHANGED <<queue, isClosed, joining, hand, clientVars>>

CloseJoined(x) == /\ xpc[x] = "join"
                  /\ \A w \in Worker : wpc[w] = "exit"
                  /\ xpc' = [xpc EXCEPT ![x] = "returned"]
                  /\ joining' = {}
                  /\ UNCHANGED <<queue, isClosed, wpc, hand, clientVars>>

----------------------------------------------------------------------------
ClientStep(c) == Notify(c) \/ ExecuteReturns(c)
WorkerStep(w) == \/ LoopClosed(w)
                 \/ LoopPop(w)
                 \/ LoopSleep(w)
                 \/ Run(w)
                 \/ Reject(w)
                 \/ Exit(w)
CloserStep(x) == CloseMark(x) \/ CloseNotify(x) \/ CloseJoined(x)

Next == \/ \E c \in Client : AddRejected(c) \/ AddTask(c) \/ ClientStep(c)
        \/ \E w \in Worker : WorkerStep(w) \/ Spurious(w)
        \/ \E x \in Closer : CloseLock(x) \/ CloserStep(x)

\* The operating system runs every thread, and every job ends.
Fairness == /\ \A c \in Client : WF_poolVars(ClientStep(c))
            /\ \A w \in Worker : WF_poolVars(WorkerStep(w))
            /\ \A x \in Closer : WF_poolVars(CloserStep(x))

Spec == Init /\ [][Next]_poolVars /\ Fairness

----------------------------------------------------------------------------
(* Properties *)

\* What execute() returns is what happened to the job: run exactly once for
\* kOk and kException, never for kExit and kBusy.
ResultsTruthful ==
  \A c \in Client \ Posting :
    cpc[c] = "returned" =>
      ran[c] = IF ret[c] \in {"kOk", "kException"} THEN 1 ELSE 0

\* When any close() has returned, whoever called it, no thread of the pool is
\* left, no job runs any more, and every task it had accepted is answered.
CloseIsFinal ==
  (\E x \in Closer : xpc[x] = "returned") =>
    /\ \A w \in Worker : wpc[w] = "exit"
    /\ queue = <<>>
    /\ \A c \in Client : cpc[c] = "wait" => c \in signalled

\* Every accepted execute() and every close() returns.
CallsEnd == <>[](/\ \A c \in Client : cpc[c] \in {"idle", "returned"}
                 /\ \A x \in Closer : xpc[x] # "idle" => xpc[x] = "returned")
==============================================================================
