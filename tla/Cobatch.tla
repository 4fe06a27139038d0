------------------------------- MODULE Cobatch -------------------------------
(***************************************************************************)
(* core/usync.cpp, cobatch: run a batch of tasks with bounded concurrency. *)
(* The batches of one thread, which share the thread_local is_do_batching: *)
(* the first one dispatches its tasks concurrently, one that starts while  *)
(* it does (nested in one of its tasks, or of another coroutine) runs its  *)
(* tasks one after the other.                                              *)
(*                                                                         *)
(*   run()       start: go dispatch -> wait: done_.wait                    *)
(*   dispatch()  per task: slot.wait, go run_one -> task_done.wait n times *)
(*               -> is_do_batching = false, done_.signal                   *)
(*   run_one()   await the task -> slot.signal, task_done.signal           *)
(*                                                                         *)
(* A task that throws ends like one that returns: run_one catches it.      *)
(***************************************************************************)
EXTENDS SemaValue, FiniteSets

CONSTANTS Batch,
          Tasks,       \* number of tasks of each batch
          Concurrent,  \* argument of the constructor
          Parent       \* {<<b, i>>} if task i of b runs the batch, else {}

VARIABLES batching,   \* is_do_batching of the thread
          dpc,        \* where each batch's dispatch() is
          next,       \* the task its loop has come to
          slot, taskDone, done,
          collected,  \* task_done permits it has taken
          tpc,        \* "new", "running" or "ended" per task
          opc         \* where the caller of run() is

batchVars == <<batching, dpc, next, slot, taskDone, done, collected, tpc, opc>>

Index == 1..Tasks

Init == /\ batching = FALSE
        /\ dpc = [b \in Batch |-> "idle"]
        /\ next = [b \in Batch |-> 1]
        /\ slot = [b \in Batch |-> Sema(IF Concurrent < 50 THEN Concurrent ELSE 50)]
        /\ taskDone = [b \in Batch |-> Sema(0)]
        /\ done = [b \in Batch |-> Sema(0)]
        /\ collected = [b \in Batch |-> 0]
        /\ tpc = [b \in Batch |-> [i \in Index |-> "new"]]
        /\ opc = [b \in Batch |-> "idle"]

----------------------------------------------------------------------------
(* run() *)

\* start(): go dispatch() runs it up to its first wait.
Start(b) == /\ opc[b] = "idle"
            /\ \A p \in Parent[b] : tpc[p[1]][p[2]] = "running"
            /\ opc' = [opc EXCEPT ![b] = "waiting"]
            /\ dpc' = [dpc EXCEPT ![b] = IF batching THEN "serial" ELSE "submit"]
            /\ batching' = TRUE
            /\ UNCHANGED <<next, slot, taskDone, done, collected, tpc>>

WaitReturns(b) == /\ opc[b] = "waiting"
                  /\ Passes(done[b])
                  /\ done' = [done EXCEPT ![b] = AfterWait(@)]
                  /\ opc' = [opc EXCEPT ![b] = "returned"]
                  /\ UNCHANGED <<batching, dpc, next, slot, taskDone, collected, tpc>>

----------------------------------------------------------------------------
(* dispatch() *)

Launches(b) == /\ tpc' = [tpc EXCEPT ![b][next[b]] = "running"]
               /\ next' = [next EXCEPT ![b] = @ + 1]

Submit(b) == /\ dpc[b] = "submit"
             /\ next[b] <= Tasks
             /\ Passes(slot[b])
             /\ slot' = [slot EXCEPT ![b] = AfterWait(@)]
             /\ Launches(b)
             /\ UNCHANGED <<batching, dpc, taskDone, done, collected, opc>>

Submitted(b) == /\ dpc[b] = "submit"
                /\ next[b] > Tasks
                /\ dpc' = [dpc EXCEPT ![b] = "collect"]
                /\ UNCHANGED <<batching, next, slot, taskDone, done, collected,
                               tpc, opc>>

Collect(b) == /\ dpc[b] = "collect"
              /\ collected[b] < Tasks
              /\ Passes(taskDone[b])
              /\ taskDone' = [taskDone EXCEPT ![b] = AfterWait(@)]
              /\ collected' = [collected EXCEPT ![b] = @ + 1]
              /\ UNCHANGED <<batching, dpc, next, slot, done, tpc, opc>>

Finish(b) == /\ dpc[b] = "collect"
             /\ collected[b] = Tasks
             /\ batching' = FALSE
             /\ done' = [done EXCEPT ![b] = AfterSignal(@)]
             /\ dpc' = [dpc EXCEPT ![b] = "ended"]
             /\ UNCHANGED <<next, slot, taskDone, collected, tpc, opc>>

\* The serial loop awaits each task before it comes to the next.
SerialIdle(b) == /\ dpc[b] = "serial"
                 /\ \A i \in Index : tpc[b][i] # "running"

SerialNext(b) == /\ SerialIdle(b)
                 /\ next[b] <= Tasks
                 /\ Launches(b)
                 /\ UNCHANGED <<batching, dpc, slot, taskDone, done, collected, opc>>

\* Bug: the serial loop also clears the flag of the batch around it.
SerialFinishClears(b) == /\ SerialIdle(b)
                         /\ next[b] > Tasks
                         /\ batching' = FALSE
                         /\ done' = [done EXCEPT ![b] = AfterSignal(@)]
                         /\ dpc' = [dpc EXCEPT ![b] = "ended"]
                         /\ UNCHANGED <<next, slot, taskDone, collected, tpc, opc>>

SerialFinish(b) == /\ SerialIdle(b)
                   /\ next[b] > Tasks
                   /\ done' = [done EXCEPT ![b] = AfterSignal(@)]
                   /\ dpc' = [dpc EXCEPT ![b] = "ended"]
                   /\ UNCHANGED <<batching, next, slot, taskDone, collected, tpc, opc>>

----------------------------------------------------------------------------
(* run_one(), or the serial loop's co_await *)

NestedReturned(b, i) == \A n \in Batch : <<b, i>> \in Parent[n] => opc[n] = "returned"

\* Bug: the slot of a task that has ended is not given back.
TaskEndKeepsSlot(b, i) ==
  /\ tpc[b][i] = "running"
  /\ NestedReturned(b, i)
  /\ tpc' = [tpc EXCEPT ![b][i] = "ended"]
  /\ IF dpc[b] = "serial" THEN UNCHANGED taskDone
     ELSE taskDone' = [taskDone EXCEPT ![b] = AfterSignal(@)]
  /\ UNCHANGED <<batching, dpc, next, slot, done, collected, opc>>

TaskEnd(b, i) ==
  /\ tpc[b][i] = "running"
  /\ NestedReturned(b, i)
  /\ tpc' = [tpc EXCEPT ![b][i] = "ended"]
  /\ IF dpc[b] = "serial" THEN UNCHANGED <<slot, taskDone>>
     ELSE /\ slot' = [slot EXCEPT ![b] = AfterSignal(@)]
          /\ taskDone' = [taskDone EXCEPT ![b] = AfterSignal(@)]
  /\ UNCHANGED <<batching, dpc, next, done, collected, opc>>

----------------------------------------------------------------------------
Step(b) == \/ WaitReturns(b)
           \/ Submit(b)
           \/ Submitted(b)
           \/ Collect(b)
           \/ Finish(b)
           \/ SerialNext(b)
           \/ SerialFinish(b)
           \/ \E i \in Index : TaskEnd(b, i)

NestedStart(b) == Parent[b] # {} /\ Start(b)

Next == \E b \in Batch : Start(b) \/ Step(b)

\* The thread resumes what can run, and every task comes to its end.
Fairness == \A b \in Batch : WF_batchVars(Step(b)) /\ WF_batchVars(NestedStart(b))

Spec == Init /\ [][Next]_batchVars /\ Fairness

----------------------------------------------------------------------------
(* Properties *)

Running(b) == {i \in Index : tpc[b][i] = "running"}
FirstLevel == {b \in Batch : dpc[b] \in {"submit", "collect"}}

\* At most one batch of a thread dispatches concurrently, and the flag says
\* so; it keeps to its limit and the others run one task at a time.
BoundedConcurrency ==
  /\ Cardinality(FirstLevel) <= 1
  /\ batching <=> FirstLevel # {}
  /\ \A b \in Batch : Cardinality(Running(b)) <= IF dpc[b] = "serial" THEN 1 ELSE Concurrent

\* run() returns only when every task of the batch, and every batch nested in
\* one of them, has ended: nothing outlives what it refers to.
RunCoversTasks ==
  \A b \in Batch : opc[b] = "returned" => /\ \A i \in Index : tpc[b][i] = "ended"
                                          /\ \A i \in Index : NestedReturned(b, i)

\* Every run() returns, however batches are nested.
BatchesEnd == <>[](\A b \in Batch : opc[b] # "waiting")
==============================================================================
