----------------------------- MODULE CoreProofs ------------------------------
(***************************************************************************)
(* What uchan and cobatch promise, for any finite number of coroutines, any *)
(* channel size and any number of tasks and batches.  The objects of the   *)
(* core share no variable, so each has an inductive invariant of its own,  *)
(* and a step of another object leaves that invariant's variables alone.   *)
(***************************************************************************)
EXTENDS MCCore, Counting

coreVars == <<part, vars, muVars, chanVars, batchVars>>

-----------------------------------------------------------------------------
(* cobatch *)

\* The semaphores of a batch are never killed.
BatchSema == [permits : Nat, killed : {FALSE}]

BatchTypes ==
  /\ batching \in BOOLEAN
  /\ dpc \in [Batch -> {"idle", "submit", "collect", "serial", "ended"}]
  /\ next \in [Batch -> Nat]
  /\ slot \in [Batch -> BatchSema]
  /\ taskDone \in [Batch -> BatchSema]
  /\ done \in [Batch -> BatchSema]
  /\ collected \in [Batch -> Nat]
  /\ tpc \in [Batch -> [1..Tasks -> {"new", "running", "ended"}]]
  /\ opc \in [Batch -> {"idle", "waiting", "returned"}]

TasksAt(b, l) == {i \in 1..Tasks : tpc[b][i] = l}
Limit == IF Concurrent < 50 THEN Concurrent ELSE 50

\* The flag of the thread is the one batch that dispatches concurrently.
FlagExact ==
  /\ \A b, d \in Batch : dpc[b] \in {"submit", "collect"} /\ dpc[d] \in {"submit", "collect"} => b = d
  /\ batching <=> \E b \in Batch : dpc[b] \in {"submit", "collect"}

\* dispatch() launches the tasks in order; a batch whose run() was not called
\* rests, and done_ is signalled at the end only.
InOrder(b) ==
  /\ next[b] >= 1
  /\ \A i \in 1..Tasks : tpc[b][i] = "new" <=> i >= next[b]
  /\ opc[b] = "idle" => dpc[b] = "idle"
  /\ dpc[b] = "idle" => next[b] = 1
  /\ dpc[b] = "collect" => next[b] > Tasks
  /\ done[b].permits > 0 => dpc[b] = "ended"
  /\ dpc[b] = "ended" \/ opc[b] = "returned" => \A i \in 1..Tasks : tpc[b][i] = "ended"

\* A slot is free or has a running task; a task that ended is collected or
\* its signal is there.  The serial loop runs one task at a time.
SlotsExact(b) ==
  /\ dpc[b] \in {"idle", "submit", "collect"} =>
       /\ slot[b].permits + Cardinality(TasksAt(b, "running")) = Limit
       /\ taskDone[b].permits + collected[b] = Cardinality(TasksAt(b, "ended"))
  /\ dpc[b] = "serial" => \A i, j \in TasksAt(b, "running") : i = j

\* A task ends after the batches nested in it.
NestedFirst ==
  \A b \in Batch : \A i \in 1..Tasks : tpc[b][i] = "ended" =>
    \A n \in Batch : <<b, i>> \in Parent[n] => opc[n] = "returned"

BatchInv == /\ BatchTypes
            /\ FlagExact
            /\ \A b \in Batch : InOrder(b) /\ SlotsExact(b)
            /\ NestedFirst

\* The instance counts as this module does.
LEMMA BatchCardinality == \A S : Bat!Cardinality(S) = Cardinality(S)
BY DEF Bat!Cardinality, Cardinality

LEMMA BatchSemaFacts ==
  ASSUME NEW s \in BatchSema
  PROVE  /\ s.permits \in Nat
         /\ Bat!Passes(s) => /\ s.permits > 0
                             /\ Bat!AfterWait(s) \in BatchSema
                             /\ Bat!AfterWait(s).permits = s.permits - 1
         /\ Bat!AfterSignal(s) \in BatchSema
         /\ Bat!AfterSignal(s).permits = s.permits + 1
<1>1. PICK B : B = {FALSE}
  OBVIOUS
<1>2. s \in [permits : Nat, killed : B] /\ BatchSema = [permits : Nat, killed : B]
  BY <1>1 DEF BatchSema
<1>3. s.permits \in Nat /\ s.killed \in B
  BY <1>2
<1>4. Bat!Passes(s) => s.permits > 0
  BY <1>1, <1>3 DEF Bat!Passes
<1>5. s.permits > 0 => /\ Bat!AfterWait(s) \in [permits : Nat, killed : B]
                       /\ Bat!AfterWait(s).permits = s.permits - 1
  BY <1>2 DEF Bat!AfterWait
<1>6. /\ Bat!AfterSignal(s) \in [permits : Nat, killed : B]
      /\ Bat!AfterSignal(s).permits = s.permits + 1
  BY <1>2 DEF Bat!AfterSignal
<1> QED  BY <1>2, <1>3, <1>4, <1>5, <1>6

LEMMA TasksFinite ==
  ASSUME NEW b, NEW l
  PROVE  IsFiniteSet(TasksAt(b, l)) /\ Cardinality(TasksAt(b, l)) \in Nat
<1>1. IsFiniteSet(1..Tasks)
  BY CoreNumbers, FS_Interval
<1>2. IsFiniteSet(TasksAt(b, l))
  BY <1>1, FS_Subset DEF TasksAt
<1> QED  BY <1>2, FS_CardinalityType

LEMMA BatchInitially == Bat!Init => BatchInv
<1> SUFFICES ASSUME Bat!Init PROVE BatchInv
  OBVIOUS
<1> USE DEF Bat!Init
<1>1. Limit \in Nat
  BY CoreNumbers DEF Limit
<1>2. Bat!Sema(Limit) \in BatchSema /\ Bat!Sema(0) \in BatchSema
      /\ Bat!Sema(Limit).permits = Limit /\ Bat!Sema(0).permits = 0
  BY <1>1 DEF Bat!Sema, BatchSema
<1>3. \A b \in Batch : slot[b] = Bat!Sema(Limit) /\ taskDone[b] = Bat!Sema(0) /\ done[b] = Bat!Sema(0)
  BY DEF Limit
<1>4. BatchTypes
  <2>1. batching \in BOOLEAN
    BY Zenon
  <2>2. slot \in [Batch -> BatchSema] /\ taskDone \in [Batch -> BatchSema] /\ done \in [Batch -> BatchSema]
    BY <1>2 DEF Limit
  <2> QED  BY <2>1, <2>2 DEF BatchTypes, Bat!Index
<1>5. \A b \in Batch : \A i \in 1..Tasks : tpc[b][i] = "new"
  BY DEF Bat!Index
<1>6. FlagExact /\ \A b \in Batch : InOrder(b)
  BY <1>2, <1>3, <1>5 DEF FlagExact, InOrder
<1>7. \A b \in Batch : SlotsExact(b)
  <2>1. \A b \in Batch : TasksAt(b, "running") = {} /\ TasksAt(b, "ended") = {}
    BY <1>5 DEF TasksAt
  <2>2. \A b \in Batch : /\ Cardinality(TasksAt(b, "running")) = 0
                         /\ Cardinality(TasksAt(b, "ended")) = 0
    BY <2>1, FS_EmptySet
  <2>3. \A b \in Batch : slot[b].permits = Limit /\ taskDone[b].permits = 0 /\ collected[b] = 0
    BY <1>2, <1>3
  <2>4. \A b \in Batch : /\ slot[b].permits + Cardinality(TasksAt(b, "running")) = Limit
                         /\ taskDone[b].permits + collected[b] = Cardinality(TasksAt(b, "ended"))
    BY <1>1, <2>2, <2>3
  <2> QED  BY <2>1, <2>4 DEF SlotsExact
<1>8. NestedFirst
  BY <1>5 DEF NestedFirst
<1> QED  BY <1>4, <1>6, <1>7, <1>8 DEF BatchInv

LEMMA BatchInvSafe == BatchInv => CobatchSafe
<1> SUFFICES ASSUME BatchInv PROVE CobatchSafe
  OBVIOUS
<1> USE DEF BatchInv
<1>1. Cardinality(Bat!FirstLevel) <= 1
  <2>1. \A b, d \in Bat!FirstLevel : b = d
    BY DEF FlagExact, Bat!FirstLevel
  <2> QED  BY <2>1, AtMostOne
<1>2. batching <=> Bat!FirstLevel # {}
  BY DEF FlagExact, Bat!FirstLevel
<1>3. ASSUME NEW b \in Batch
      PROVE  Cardinality(Bat!Running(b)) <= IF dpc[b] = "serial" THEN 1 ELSE Concurrent
  <2>1. Bat!Running(b) = TasksAt(b, "running")
    BY DEF Bat!Running, Bat!Index, TasksAt
  <2>2. CASE dpc[b] = "serial"
    <3>1. Cardinality(TasksAt(b, "running")) <= 1
      BY <2>2, AtMostOne DEF SlotsExact
    <3> QED  BY <2>1, <2>2, <3>1
  <2>3. CASE dpc[b] = "ended"
    <3>1. TasksAt(b, "running") = {}
      BY <2>3 DEF InOrder, TasksAt
    <3> QED  BY <2>1, <2>3, <3>1, FS_EmptySet, CoreNumbers
  <2>4. CASE dpc[b] \in {"idle", "submit", "collect"}
    <3>1. slot[b].permits + Cardinality(TasksAt(b, "running")) = Limit
      BY <2>4 DEF SlotsExact
    <3>2. slot[b].permits \in Nat
      BY DEF BatchTypes, BatchSema
    <3> QED  BY <2>1, <2>4, <3>1, <3>2, CoreNumbers, TasksFinite DEF Limit
  <2> QED  BY <2>2, <2>3, <2>4 DEF BatchTypes
<1>4. Bat!BoundedConcurrency
  BY <1>1, <1>2, <1>3, BatchCardinality DEF Bat!BoundedConcurrency
<1>5. Bat!RunCoversTasks
  BY DEF Bat!RunCoversTasks, InOrder, NestedFirst, Bat!NestedReturned, Bat!Index
<1> QED  BY <1>4, <1>5 DEF CobatchSafe

-----------------------------------------------------------------------------
\* A batch that a step does not concern.
LEMMA OtherBatch ==
  ASSUME BatchInv, NEW d \in Batch,
         dpc'[d] = dpc[d], next'[d] = next[d], slot'[d] = slot[d],
         taskDone'[d] = taskDone[d], done'[d] = done[d], collected'[d] = collected[d],
         tpc'[d] = tpc[d], opc'[d] = opc[d]
  PROVE  InOrder(d)' /\ SlotsExact(d)'
<1>1. \A l : TasksAt(d, l)' = TasksAt(d, l)
  BY DEF TasksAt
<1>2. InOrder(d) /\ SlotsExact(d)
  BY DEF BatchInv
<1>3. InOrder(d)'
  BY <1>2 DEF InOrder
<1>4. SlotsExact(d)'
  BY <1>1, <1>2 DEF SlotsExact
<1> QED  BY <1>3, <1>4

\* No task ends and no caller forgets that its run() has returned.
LEMMA NestedKept ==
  ASSUME BatchInv,
         \A b \in Batch : \A i \in 1..Tasks : tpc'[b][i] = "ended" => tpc[b][i] = "ended",
         \A b \in Batch : opc[b] = "returned" => opc'[b] = "returned"
  PROVE  NestedFirst'
BY DEF BatchInv, NestedFirst

LEMMA StartStep ==
  ASSUME BatchInv, NEW b \in Batch, Bat!Start(b)
  PROVE  BatchInv'
<1> USE DEF BatchInv
<1>1. /\ opc[b] = "idle" /\ opc' = [opc EXCEPT ![b] = "waiting"]
      /\ dpc' = [dpc EXCEPT ![b] = IF batching THEN "serial" ELSE "submit"]
      /\ batching' = TRUE
      /\ UNCHANGED <<next, slot, taskDone, done, collected, tpc>>
  BY DEF Bat!Start
<1>2. batching' \in BOOLEAN
  BY <1>1, Zenon
<1>3. BatchTypes'
  BY <1>1, <1>2 DEF BatchTypes
<1>4. /\ dpc'[b] = IF batching THEN "serial" ELSE "submit"
      /\ opc'[b] = "waiting" /\ dpc[b] = "idle"
      /\ \A d \in Batch : d # b => dpc'[d] = dpc[d] /\ opc'[d] = opc[d]
  BY <1>1 DEF BatchTypes, InOrder
<1>5. FlagExact'
  BY <1>1, <1>4 DEF FlagExact
<1>6. \A l : TasksAt(b, l)' = TasksAt(b, l)
  BY <1>1 DEF TasksAt
<1>7. InOrder(b)'
  BY <1>1, <1>4 DEF InOrder
<1>8. SlotsExact(b)'
  <2>1. TasksAt(b, "running") = {}
    BY <1>4 DEF InOrder, TasksAt
  <2> QED  BY <1>1, <1>4, <1>6, <2>1 DEF SlotsExact
<1>9. \A d \in Batch : InOrder(d)' /\ SlotsExact(d)'
  BY <1>1, <1>4, <1>7, <1>8, OtherBatch
<1>10. NestedFirst'
  BY <1>1, <1>4, NestedKept
<1> QED  BY <1>3, <1>5, <1>9, <1>10

LEMMA WaitReturnsStep ==
  ASSUME BatchInv, NEW b \in Batch, Bat!WaitReturns(b)
  PROVE  BatchInv'
<1> USE DEF BatchInv
<1>1. /\ Bat!Passes(done[b]) /\ opc' = [opc EXCEPT ![b] = "returned"]
      /\ done' = [done EXCEPT ![b] = Bat!AfterWait(done[b])]
      /\ UNCHANGED <<batching, dpc, next, slot, taskDone, collected, tpc>>
  BY DEF Bat!WaitReturns
<1>2. /\ done[b].permits > 0 /\ done[b].permits \in Nat
      /\ Bat!AfterWait(done[b]) \in BatchSema
      /\ Bat!AfterWait(done[b]).permits = done[b].permits - 1
  BY <1>1, BatchSemaFacts DEF BatchTypes
<1>3. BatchTypes'
  BY <1>1, <1>2 DEF BatchTypes
<1>4. /\ opc'[b] = "returned" /\ done'[b] = Bat!AfterWait(done[b])
      /\ \A d \in Batch : d # b => done'[d] = done[d] /\ opc'[d] = opc[d]
  BY <1>1 DEF BatchTypes
<1>5. FlagExact'
  BY <1>1 DEF FlagExact
<1>6. dpc[b] = "ended" /\ \A i \in 1..Tasks : tpc[b][i] = "ended"
  BY <1>2 DEF InOrder
<1>7. InOrder(b)' /\ SlotsExact(b)'
  BY <1>1, <1>2, <1>4, <1>6 DEF InOrder, SlotsExact
<1>8. \A d \in Batch : InOrder(d)' /\ SlotsExact(d)'
  BY <1>1, <1>4, <1>7, OtherBatch
<1>9. NestedFirst'
  BY <1>1, <1>4, NestedKept
<1> QED  BY <1>3, <1>5, <1>8, <1>9

\* dispatch() launches the next task: one more runs, none has ended.
LEMMA LaunchFacts ==
  ASSUME BatchInv, NEW b \in Batch, Bat!Launches(b), next[b] <= Tasks, dpc[b] # "collect"
  PROVE  /\ next' \in [Batch -> Nat] /\ next'[b] = next[b] + 1
         /\ tpc' \in [Batch -> [1..Tasks -> {"new", "running", "ended"}]]
         /\ \A d \in Batch : d # b => next'[d] = next[d] /\ tpc'[d] = tpc[d]
         /\ \A i \in 1..Tasks : tpc'[b][i] = IF i = next[b] THEN "running" ELSE tpc[b][i]
         /\ tpc[b][next[b]] = "new" /\ next[b] \in 1..Tasks
         /\ Cardinality(TasksAt(b, "running")') = Cardinality(TasksAt(b, "running")) + 1
         /\ TasksAt(b, "running")' = TasksAt(b, "running") \union {next[b]}
         /\ TasksAt(b, "ended")' = TasksAt(b, "ended")
         /\ NestedFirst' \/ opc' # opc
<1> USE DEF BatchInv
<1>1. PICK n : n = next[b]
  OBVIOUS
<1>2. next' = [next EXCEPT ![b] = n + 1] /\ tpc' = [tpc EXCEPT ![b][n] = "running"]
  BY <1>1 DEF Bat!Launches
<1>3. n \in Nat /\ n >= 1 /\ n \in 1..Tasks
  BY <1>1, CoreNumbers DEF BatchTypes, InOrder
<1>4. next' \in [Batch -> Nat] /\ next'[b] = n + 1 /\ \A d \in Batch : d # b => next'[d] = next[d]
  BY <1>2, <1>3 DEF BatchTypes
<1>5. /\ tpc' \in [Batch -> [1..Tasks -> {"new", "running", "ended"}]]
      /\ \A d \in Batch : d # b => tpc'[d] = tpc[d]
      /\ \A i \in 1..Tasks : tpc'[b][i] = IF i = n THEN "running" ELSE tpc[b][i]
  BY <1>2, <1>3 DEF BatchTypes
<1>6. tpc[b][n] = "new"
  BY <1>1, <1>3 DEF InOrder
<1>7. /\ n \notin TasksAt(b, "running")
      /\ TasksAt(b, "running")' = TasksAt(b, "running") \union {n}
      /\ TasksAt(b, "ended")' = TasksAt(b, "ended")
  BY <1>3, <1>5, <1>6 DEF TasksAt
<1>8. Cardinality(TasksAt(b, "running")') = Cardinality(TasksAt(b, "running")) + 1
  BY <1>7, TasksFinite, OneMore
<1>9. opc' = opc => NestedFirst'
  BY <1>5, <1>6, NestedKept
<1> QED  BY <1>1, <1>3, <1>4, <1>5, <1>6, <1>7, <1>8, <1>9

LEMMA SubmitStep ==
  ASSUME BatchInv, NEW b \in Batch, Bat!Submit(b)
  PROVE  BatchInv'
<1> USE DEF BatchInv
<1>1. /\ dpc[b] = "submit" /\ next[b] <= Tasks /\ Bat!Passes(slot[b]) /\ Bat!Launches(b)
      /\ slot' = [slot EXCEPT ![b] = Bat!AfterWait(slot[b])]
      /\ UNCHANGED <<batching, dpc, taskDone, done, collected, opc>>
  BY DEF Bat!Submit
<1>2. /\ slot[b].permits > 0 /\ slot[b].permits \in Nat
      /\ Bat!AfterWait(slot[b]) \in BatchSema
      /\ Bat!AfterWait(slot[b]).permits = slot[b].permits - 1
  BY <1>1, BatchSemaFacts DEF BatchTypes
<1>3. /\ next' \in [Batch -> Nat] /\ next'[b] = next[b] + 1
      /\ tpc' \in [Batch -> [1..Tasks -> {"new", "running", "ended"}]]
      /\ \A d \in Batch : d # b => next'[d] = next[d] /\ tpc'[d] = tpc[d]
      /\ \A i \in 1..Tasks : tpc'[b][i] = IF i = next[b] THEN "running" ELSE tpc[b][i]
      /\ next[b] \in 1..Tasks /\ tpc[b][next[b]] = "new"
      /\ Cardinality(TasksAt(b, "running")') = Cardinality(TasksAt(b, "running")) + 1
      /\ TasksAt(b, "ended")' = TasksAt(b, "ended")
      /\ NestedFirst'
  BY <1>1, LaunchFacts
<1>4. BatchTypes'
  BY <1>1, <1>2, <1>3 DEF BatchTypes
<1>5. slot'[b] = Bat!AfterWait(slot[b]) /\ \A d \in Batch : d # b => slot'[d] = slot[d]
  BY <1>1 DEF BatchTypes
<1>6. FlagExact'
  BY <1>1 DEF FlagExact
<1>7. InOrder(b)'
  <2>1. InOrder(b)
    OBVIOUS
  <2>3. opc[b] # "returned" /\ opc[b] # "idle"
    BY <1>1, <1>3, <2>1 DEF InOrder
  <2>2. \A i \in 1..Tasks : tpc'[b][i] = "new" <=> i >= next'[b]
    BY <1>3, <2>1, CoreNumbers DEF InOrder
  <2> QED  BY <1>1, <1>3, <2>1, <2>2, <2>3 DEF InOrder
<1>8. SlotsExact(b)'
  <2>1. Cardinality(TasksAt(b, "running")) \in Nat
    BY TasksFinite
  <2>2. slot[b].permits + Cardinality(TasksAt(b, "running")) = Limit
    BY <1>1 DEF SlotsExact
  <2>3. slot'[b].permits = slot[b].permits - 1 /\ slot[b].permits \in Nat
    BY <1>2, <1>5
  <2>4. Cardinality(TasksAt(b, "running")') = Cardinality(TasksAt(b, "running")) + 1
    BY <1>3
  <2>5. slot'[b].permits + Cardinality(TasksAt(b, "running")') = Limit
    BY <2>1, <2>2, <2>3, <2>4
  <2> QED  BY <1>1, <1>3, <2>5 DEF SlotsExact
<1>9. \A d \in Batch : InOrder(d)' /\ SlotsExact(d)'
  BY <1>1, <1>3, <1>5, <1>7, <1>8, OtherBatch
<1> QED  BY <1>3, <1>4, <1>6, <1>9

LEMMA SerialNextStep ==
  ASSUME BatchInv, NEW b \in Batch, Bat!SerialNext(b)
  PROVE  BatchInv'
<1> USE DEF BatchInv
<1>1. /\ dpc[b] = "serial" /\ next[b] <= Tasks /\ Bat!Launches(b)
      /\ UNCHANGED <<batching, dpc, slot, taskDone, done, collected, opc>>
  BY DEF Bat!SerialNext, Bat!SerialIdle
<1>2. TasksAt(b, "running") = {}
  BY DEF Bat!SerialNext, Bat!SerialIdle, Bat!Index, TasksAt
<1>3. /\ next' \in [Batch -> Nat] /\ next'[b] = next[b] + 1
      /\ tpc' \in [Batch -> [1..Tasks -> {"new", "running", "ended"}]]
      /\ \A d \in Batch : d # b => next'[d] = next[d] /\ tpc'[d] = tpc[d]
      /\ \A i \in 1..Tasks : tpc'[b][i] = IF i = next[b] THEN "running" ELSE tpc[b][i]
      /\ next[b] \in 1..Tasks /\ tpc[b][next[b]] = "new"
      /\ TasksAt(b, "running")' = TasksAt(b, "running") \union {next[b]}
      /\ NestedFirst'
  BY <1>1, LaunchFacts
<1>4. BatchTypes' /\ FlagExact'
  BY <1>1, <1>3 DEF BatchTypes, FlagExact
<1>5. InOrder(b)'
  <2>1. InOrder(b)
    OBVIOUS
  <2>3. opc[b] # "returned" /\ opc[b] # "idle"
    BY <1>1, <1>3, <2>1 DEF InOrder
  <2>2. \A i \in 1..Tasks : tpc'[b][i] = "new" <=> i >= next'[b]
    BY <1>3, <2>1, CoreNumbers DEF InOrder
  <2> QED  BY <1>1, <1>3, <2>1, <2>2, <2>3 DEF InOrder
<1>6. SlotsExact(b)'
  BY <1>1, <1>2, <1>3 DEF SlotsExact
<1>7. \A d \in Batch : InOrder(d)' /\ SlotsExact(d)'
  BY <1>1, <1>3, <1>5, <1>6, OtherBatch
<1> QED  BY <1>3, <1>4, <1>7

\* Every task has been launched: the loop is left.
LEMMA SubmittedStep ==
  ASSUME BatchInv, NEW b \in Batch, Bat!Submitted(b)
  PROVE  BatchInv'
<1> USE DEF BatchInv
<1>1. /\ dpc[b] = "submit" /\ next[b] > Tasks /\ dpc' = [dpc EXCEPT ![b] = "collect"]
      /\ UNCHANGED <<batching, next, slot, taskDone, done, collected, tpc, opc>>
  BY DEF Bat!Submitted
<1>2. BatchTypes'
  BY <1>1 DEF BatchTypes
<1>3. dpc'[b] = "collect" /\ \A d \in Batch : d # b => dpc'[d] = dpc[d]
  BY <1>1 DEF BatchTypes
<1>4. FlagExact'
  BY <1>1, <1>3 DEF FlagExact
<1>5. \A l : TasksAt(b, l)' = TasksAt(b, l)
  BY <1>1 DEF TasksAt
<1>6. InOrder(b)' /\ SlotsExact(b)'
  BY <1>1, <1>3, <1>5 DEF InOrder, SlotsExact
<1>7. \A d \in Batch : InOrder(d)' /\ SlotsExact(d)'
  BY <1>1, <1>3, <1>6, OtherBatch
<1>8. NestedFirst'
  BY <1>1, NestedKept
<1> QED  BY <1>2, <1>4, <1>7, <1>8

LEMMA CollectStep ==
  ASSUME BatchInv, NEW b \in Batch, Bat!Collect(b)
  PROVE  BatchInv'
<1> USE DEF BatchInv
<1>1. /\ dpc[b] = "collect" /\ Bat!Passes(taskDone[b])
      /\ taskDone' = [taskDone EXCEPT ![b] = Bat!AfterWait(taskDone[b])]
      /\ collected' = [collected EXCEPT ![b] = collected[b] + 1]
      /\ UNCHANGED <<batching, dpc, next, slot, done, tpc, opc>>
  BY DEF Bat!Collect
<1>2. /\ taskDone[b].permits > 0 /\ taskDone[b].permits \in Nat
      /\ Bat!AfterWait(taskDone[b]) \in BatchSema
      /\ Bat!AfterWait(taskDone[b]).permits = taskDone[b].permits - 1
  BY <1>1, BatchSemaFacts DEF BatchTypes
<1>3. BatchTypes'
  BY <1>1, <1>2 DEF BatchTypes
<1>4. /\ taskDone'[b].permits = taskDone[b].permits - 1 /\ taskDone[b].permits \in Nat
      /\ collected'[b] = collected[b] + 1 /\ collected[b] \in Nat
      /\ \A d \in Batch : d # b => taskDone'[d] = taskDone[d] /\ collected'[d] = collected[d]
  BY <1>1, <1>2 DEF BatchTypes
<1>5. \A l : TasksAt(b, l)' = TasksAt(b, l)
  BY <1>1 DEF TasksAt
<1>6. InOrder(b)' /\ FlagExact'
  BY <1>1 DEF InOrder, FlagExact
<1>7. SlotsExact(b)'
  <2>1. /\ slot[b].permits + Cardinality(TasksAt(b, "running")) = Limit
        /\ taskDone[b].permits + collected[b] = Cardinality(TasksAt(b, "ended"))
    BY <1>1 DEF SlotsExact
  <2>2. taskDone'[b].permits + collected'[b] = taskDone[b].permits + collected[b]
    BY <1>4
  <2> QED  BY <1>1, <1>5, <2>1, <2>2 DEF SlotsExact
<1>8. \A d \in Batch : InOrder(d)' /\ SlotsExact(d)'
  BY <1>1, <1>4, <1>6, <1>7, OtherBatch
<1>9. NestedFirst'
  BY <1>1, NestedKept
<1> QED  BY <1>3, <1>6, <1>8, <1>9

\* All tasks have ended when dispatch() has collected as many as there are.
LEMMA CollectedAll ==
  ASSUME BatchInv, NEW b \in Batch, dpc[b] = "collect", collected[b] = Tasks
  PROVE  \A i \in 1..Tasks : tpc[b][i] = "ended"
<1>1. taskDone[b].permits + Tasks = Cardinality(TasksAt(b, "ended"))
  BY DEF BatchInv, SlotsExact
<1>2. taskDone[b].permits \in Nat
  BY BatchSemaFacts DEF BatchInv, BatchTypes
<1>3. IsFiniteSet(1..Tasks) /\ Cardinality(1..Tasks) = Tasks
  BY CoreNumbers, FS_Interval
<1>4. TasksAt(b, "ended") \subseteq 1..Tasks
  BY DEF TasksAt
<1>5. /\ Cardinality(TasksAt(b, "ended")) <= Tasks
      /\ Cardinality(TasksAt(b, "ended")) = Tasks => TasksAt(b, "ended") = 1..Tasks
  BY <1>3, <1>4, FS_Subset
<1>6. Cardinality(TasksAt(b, "ended")) = Tasks
  BY <1>1, <1>2, <1>5, CoreNumbers
<1> QED  BY <1>5, <1>6 DEF TasksAt

\* The end of dispatch(): with the flag of the thread for a first-level batch,
\* without it for one that ran serially.
LEMMA FinishStep ==
  ASSUME BatchInv, NEW b \in Batch, Bat!Finish(b) \/ Bat!SerialFinish(b)
  PROVE  BatchInv'
<1> USE DEF BatchInv
<1>1. /\ dpc' = [dpc EXCEPT ![b] = "ended"]
      /\ done' = [done EXCEPT ![b] = Bat!AfterSignal(done[b])]
      /\ UNCHANGED <<next, slot, taskDone, collected, tpc, opc>>
  BY DEF Bat!Finish, Bat!SerialFinish
<1>2. \/ dpc[b] = "collect" /\ collected[b] = Tasks /\ batching' = FALSE
      \/ dpc[b] = "serial" /\ Bat!SerialIdle(b) /\ next[b] > Tasks /\ batching' = batching
  BY DEF Bat!Finish, Bat!SerialFinish, Bat!SerialIdle
<1>3. \A i \in 1..Tasks : tpc[b][i] = "ended"
  <2>1. CASE dpc[b] = "collect" /\ collected[b] = Tasks
    BY <2>1, CollectedAll
  <2>2. CASE Bat!SerialIdle(b) /\ next[b] > Tasks
    <3>1. \A i \in 1..Tasks : tpc[b][i] # "running"
      BY <2>2 DEF Bat!SerialIdle, Bat!Index
    <3>2. \A i \in 1..Tasks : tpc[b][i] # "new"
      BY <2>2, CoreNumbers DEF InOrder, BatchTypes
    <3> QED  BY <3>1, <3>2 DEF BatchTypes
  <2> QED  BY <1>2, <2>1, <2>2
<1>4. Bat!AfterSignal(done[b]) \in BatchSema
  BY BatchSemaFacts DEF BatchTypes
<1>5. batching' \in BOOLEAN
  BY <1>2, Zenon DEF BatchTypes
<1>6. BatchTypes'
  BY <1>1, <1>4, <1>5 DEF BatchTypes
<1>7. dpc'[b] = "ended" /\ \A d \in Batch : d # b => dpc'[d] = dpc[d] /\ done'[d] = done[d]
  BY <1>1 DEF BatchTypes
<1>8. FlagExact'
  BY <1>2, <1>7 DEF FlagExact
<1>9. InOrder(b)' /\ SlotsExact(b)'
  <2>1. opc[b] # "idle"
    BY <1>2 DEF InOrder
  <2> QED  BY <1>1, <1>3, <1>7, <2>1 DEF InOrder, SlotsExact
<1>10. \A d \in Batch : InOrder(d)' /\ SlotsExact(d)'
  BY <1>1, <1>7, <1>9, OtherBatch
<1>11. NestedFirst'
  BY <1>1, NestedKept
<1> QED  BY <1>6, <1>8, <1>10, <1>11

LEMMA TaskEndStep ==
  ASSUME BatchInv, NEW b \in Batch, NEW i \in 1..Tasks, Bat!TaskEnd(b, i)
  PROVE  BatchInv'
<1> USE DEF BatchInv
<1>1. /\ tpc[b][i] = "running" /\ Bat!NestedReturned(b, i)
      /\ tpc' = [tpc EXCEPT ![b][i] = "ended"]
      /\ dpc[b] = "serial" => UNCHANGED <<slot, taskDone>>
      /\ dpc[b] # "serial" => /\ slot' = [slot EXCEPT ![b] = Bat!AfterSignal(slot[b])]
                              /\ taskDone' = [taskDone EXCEPT ![b] = Bat!AfterSignal(taskDone[b])]
      /\ UNCHANGED <<batching, dpc, next, done, collected, opc>>
  BY DEF Bat!TaskEnd
<1>2. /\ tpc' \in [Batch -> [1..Tasks -> {"new", "running", "ended"}]]
      /\ \A d \in Batch : d # b => tpc'[d] = tpc[d]
      /\ \A j \in 1..Tasks : tpc'[b][j] = IF j = i THEN "ended" ELSE tpc[b][j]
  <2>1. PICK f : f = [tpc[b] EXCEPT ![i] = "ended"]
    OBVIOUS
  <2>2. tpc \in [Batch -> [1..Tasks -> {"new", "running", "ended"}]]
    BY DEF BatchTypes
  <2>3. /\ f \in [1..Tasks -> {"new", "running", "ended"}]
        /\ \A j \in 1..Tasks : f[j] = IF j = i THEN "ended" ELSE tpc[b][j]
    BY <2>1, <2>2
  <2>4. tpc' = [tpc EXCEPT ![b] = f]
    BY <1>1, <2>1, <2>2
  <2> QED  BY <2>2, <2>3, <2>4
<1>3. /\ slot[b].permits \in Nat /\ taskDone[b].permits \in Nat
      /\ Bat!AfterSignal(slot[b]) \in BatchSema /\ Bat!AfterSignal(taskDone[b]) \in BatchSema
      /\ Bat!AfterSignal(slot[b]).permits = slot[b].permits + 1
      /\ Bat!AfterSignal(taskDone[b]).permits = taskDone[b].permits + 1
  BY BatchSemaFacts DEF BatchTypes
<1>4. slot' \in [Batch -> BatchSema] /\ taskDone' \in [Batch -> BatchSema]
  <2>1. slot \in [Batch -> BatchSema] /\ taskDone \in [Batch -> BatchSema]
    BY DEF BatchTypes
  <2>2. CASE dpc[b] = "serial"
    BY <1>1, <2>1, <2>2
  <2>3. CASE dpc[b] # "serial"
    BY <1>1, <1>3, <2>1, <2>3
  <2> QED  BY <2>2, <2>3
<1>5. BatchTypes' /\ FlagExact'
  BY <1>1, <1>2, <1>4 DEF BatchTypes, FlagExact
<1>6. /\ \A d \in Batch : d # b => slot'[d] = slot[d] /\ taskDone'[d] = taskDone[d]
      /\ dpc[b] # "serial" => /\ slot'[b].permits = slot[b].permits + 1
                              /\ taskDone'[b].permits = taskDone[b].permits + 1
  BY <1>1, <1>3 DEF BatchTypes
<1>7. dpc[b] # "ended" /\ opc[b] # "returned"
  BY <1>1 DEF InOrder
<1>8. InOrder(b)'
  <2>1. InOrder(b)
    OBVIOUS
  <2>2. \A j \in 1..Tasks : tpc'[b][j] = "new" <=> tpc[b][j] = "new"
    BY <1>1, <1>2
  <2>3. \A j \in 1..Tasks : tpc'[b][j] = "new" <=> j >= next'[b]
    BY <1>1, <2>1, <2>2 DEF InOrder
  <2> QED  BY <1>1, <1>7, <2>1, <2>3 DEF InOrder
<1>9. /\ TasksAt(b, "running")' = TasksAt(b, "running") \ {i} /\ i \in TasksAt(b, "running")
      /\ TasksAt(b, "ended")' = TasksAt(b, "ended") \union {i} /\ i \notin TasksAt(b, "ended")
  BY <1>1, <1>2 DEF TasksAt
<1>10. /\ Cardinality(TasksAt(b, "running")') = Cardinality(TasksAt(b, "running")) - 1
       /\ Cardinality(TasksAt(b, "ended")') = Cardinality(TasksAt(b, "ended")) + 1
       /\ Cardinality(TasksAt(b, "running")) \in Nat /\ Cardinality(TasksAt(b, "ended")) \in Nat
  <2>1. /\ IsFiniteSet(TasksAt(b, "running")) /\ Cardinality(TasksAt(b, "running")) \in Nat
        /\ IsFiniteSet(TasksAt(b, "ended")) /\ Cardinality(TasksAt(b, "ended")) \in Nat
    BY TasksFinite
  <2>2. Cardinality(TasksAt(b, "running") \ {i}) = Cardinality(TasksAt(b, "running")) - 1
    BY <1>9, <2>1, OneLess
  <2>3. Cardinality(TasksAt(b, "ended") \union {i}) = Cardinality(TasksAt(b, "ended")) + 1
    BY <1>9, <2>1, OneMore
  <2> QED  BY <1>9, <2>1, <2>2, <2>3
<1>11. SlotsExact(b)'
  <2>1. CASE dpc[b] = "serial"
    BY <1>1, <1>9, <2>1 DEF SlotsExact
  <2>2. CASE dpc[b] # "serial"
    <3>1. /\ slot[b].permits + Cardinality(TasksAt(b, "running")) = Limit
          /\ taskDone[b].permits + collected[b] = Cardinality(TasksAt(b, "ended"))
      BY <1>7, <2>2 DEF SlotsExact, BatchTypes
    <3>2. collected[b] \in Nat
      BY DEF BatchTypes
    <3>3. slot'[b].permits + Cardinality(TasksAt(b, "running")') = Limit
      BY <1>3, <1>6, <1>10, <2>2, <3>1
    <3>4. taskDone'[b].permits + collected[b] = Cardinality(TasksAt(b, "ended")')
      BY <1>3, <1>6, <1>10, <2>2, <3>1, <3>2
    <3> QED  BY <1>1, <2>2, <3>3, <3>4 DEF SlotsExact
  <2> QED  BY <2>1, <2>2
<1>12. \A d \in Batch : InOrder(d)' /\ SlotsExact(d)'
  BY <1>1, <1>2, <1>6, <1>8, <1>11, OtherBatch
<1>13. NestedFirst'
  <2> SUFFICES ASSUME NEW d \in Batch, NEW j \in 1..Tasks, tpc'[d][j] = "ended",
                      NEW n \in Batch, <<d, j>> \in Parent[n]
               PROVE  opc[n] = "returned"
    BY <1>1 DEF NestedFirst
  <2>1. CASE d = b /\ j = i
    BY <1>1, <2>1 DEF Bat!NestedReturned
  <2>2. CASE ~(d = b /\ j = i)
    <3>1. tpc[d][j] = "ended"
      BY <1>2, <2>2
    <3> QED  BY <3>1 DEF NestedFirst
  <2> QED  BY <2>1, <2>2
<1> QED  BY <1>5, <1>12, <1>13

LEMMA BatchStep == BatchInv /\ [Bat!Next]_batchVars => BatchInv'
<1> SUFFICES ASSUME BatchInv, [Bat!Next]_batchVars PROVE BatchInv'
  OBVIOUS
<1>1. CASE UNCHANGED batchVars
  <2>1. \A d \in Batch : InOrder(d)' /\ SlotsExact(d)'
    BY <1>1, OtherBatch DEF batchVars
  <2>2. NestedFirst'
    BY <1>1, NestedKept DEF batchVars
  <2> QED  BY <1>1, <2>1, <2>2 DEF batchVars, BatchInv, BatchTypes, FlagExact
<1>2. ASSUME NEW b \in Batch, \E i \in Bat!Index : Bat!TaskEnd(b, i)
      PROVE  BatchInv'
  BY <1>2, TaskEndStep DEF Bat!Index
<1> QED  BY <1>1, <1>2, StartStep, WaitReturnsStep, SubmitStep, SubmittedStep, CollectStep,
            FinishStep, SerialNextStep DEF Bat!Next, Bat!Step

\* A step of the core is one of the batches, or leaves the batches alone.
LEMMA BatchOwnStep == [CoreNext]_coreVars => [Bat!Next]_batchVars
BY DEF CoreNext, UsharedMutexPart, UmutexPart, UchanPart, CobatchPart, Ends, coreVars

(* At every moment, however batches are nested, a cobatch keeps to its      *)
(* limit, one batch of a thread at most runs concurrently, and a run() that *)
(* has returned covers all tasks and nested batches it started.             *)
THEOREM BatchSafe == CoreSpec => []CobatchSafe
<1>1. CoreInit => BatchInv
  BY BatchInitially DEF CoreInit
<1>2. BatchInv /\ [CoreNext]_coreVars => BatchInv'
  BY BatchStep, BatchOwnStep
<1> QED  BY <1>1, <1>2, BatchInvSafe, PTL DEF CoreSpec, coreVars

-----------------------------------------------------------------------------
(* uchan *)

Value == Sender \X Nat
ChanSema == [permits : Nat, killed : BOOLEAN]

ChanTypes ==
  /\ size \in Nat
  /\ items \in Seq(Value)
  /\ space \in ChanSema
  /\ full \in ChanSema
  /\ closed \in BOOLEAN
  /\ chw \in [Sender -> {"idle", "space", "push", "publish", "rendezvous", "terminated"}]
  /\ chr \in [Receiver -> {"idle", "full", "pop", "readDone", "space"}]
  /\ sent \in [Sender -> Nat]
  /\ taken \in Seq(Value)

\* Only close() kills the semaphores.
KillsAfterClose ==
  /\ cpc # "idle" => closed
  /\ space.killed \/ full.killed => closed

Pushing == {w \in Sender : chw[w] \in {"push"}}
Publishing == {w \in Sender : chw[w] \in {"publish"}}
Popping == {q \in Receiver : chr[q] \in {"pop"}}
Returning == {q \in Receiver : chr[q] \in {"readDone", "space"}}

\* The two equations of SlotsAccounted, and what is left of them after close().
Slots ==
  /\ ~closed => /\ space.permits + Cardinality(Pushing) + Len(items) + Cardinality(Returning)
                     = Chan!Capacity
                /\ full.permits + Cardinality(Publishing) + Cardinality(Popping) = Len(items)
  /\ Len(items) <= Chan!Capacity

\* What was written is in the channel or was received, and nothing is in it
\* once a read has returned false.
Delivered ==
  /\ \A w \in Sender : \A i \in 1..sent[w] : <<w, i>> \in Range(items) \/ <<w, i>> \in Range(taken)
  /\ eof # {} => closed /\ items = <<>>

ChanInv == ChanTypes /\ KillsAfterClose /\ Slots /\ Delivered

\* The instance counts as this module does.
LEMMA ChanCardinality == \A S : Chan!Cardinality(S) = Cardinality(S)
BY DEF Chan!Cardinality, Cardinality

LEMMA ChanSemaFacts ==
  ASSUME NEW s \in ChanSema
  PROVE  /\ s.permits \in Nat /\ s.killed \in BOOLEAN
         /\ Chan!Passes(s) <=> s.permits > 0 \/ s.killed
         /\ Chan!AfterWait(s) \in ChanSema
         /\ s.permits > 0 => Chan!AfterWait(s).permits = s.permits - 1
         /\ Chan!AfterWait(s).killed = s.killed
         /\ Chan!AfterSignal(s) \in ChanSema
         /\ Chan!AfterSignal(s).permits = s.permits + 1
         /\ Chan!AfterSignal(s).killed = s.killed
<1>1. s.permits \in Nat /\ s.killed \in BOOLEAN
  BY DEF ChanSema
<1>2. /\ Chan!AfterWait(s) \in ChanSema
      /\ s.permits > 0 => Chan!AfterWait(s).permits = s.permits - 1
      /\ Chan!AfterWait(s).killed = s.killed
  BY DEF ChanSema, Chan!AfterWait
<1>3. /\ Chan!AfterSignal(s) \in ChanSema
      /\ Chan!AfterSignal(s).permits = s.permits + 1
      /\ Chan!AfterSignal(s).killed = s.killed
  BY DEF ChanSema, Chan!AfterSignal
<1> QED  BY <1>1, <1>2, <1>3 DEF Chan!Passes

LEMMA AfterKillFacts ==
  ASSUME NEW s \in ChanSema
  PROVE  Chan!AfterKill(s) \in ChanSema
<1>1. PICK t : t = TRUE
  OBVIOUS
<1>2. t \in BOOLEAN
  BY <1>1, Zenon
<1>3. [s EXCEPT !.killed = t] \in ChanSema
  BY <1>2 DEF ChanSema
<1> QED  BY <1>1, <1>3 DEF Chan!AfterKill

LEMMA ChanInitially == Chan!Init => ChanInv
<1> SUFFICES ASSUME Chan!Init PROVE ChanInv
  OBVIOUS
<1> USE DEF Chan!Init
<1>1. size \in Nat /\ Chan!Capacity \in Nat
  BY CoreNumbers DEF Chan!Capacity
<1>2. ASSUME NEW n \in Nat
      PROVE  Chan!Sema(n) \in ChanSema /\ Chan!Sema(n).permits = n /\ Chan!Sema(n).killed = FALSE
  <2>1. PICK f : f = FALSE
    OBVIOUS
  <2>2. f \in BOOLEAN
    BY <2>1, Zenon
  <2>3. [permits |-> n, killed |-> f] \in ChanSema
    BY <2>2 DEF ChanSema
  <2> QED  BY <2>1, <2>3 DEF Chan!Sema
<1>3. closed \in BOOLEAN
  BY Zenon
<1>4. ChanTypes
  <2>1. items \in Seq(Value) /\ taken \in Seq(Value)
    OBVIOUS
  <2>2. space \in ChanSema /\ full \in ChanSema
    BY <1>1, <1>2
  <2>3. /\ chw \in [Sender -> {"idle", "space", "push", "publish", "rendezvous", "terminated"}]
        /\ chr \in [Receiver -> {"idle", "full", "pop", "readDone", "space"}]
        /\ sent \in [Sender -> Nat]
    OBVIOUS
  <2> QED  BY <1>1, <1>3, <2>1, <2>2, <2>3 DEF ChanTypes
<1>5. KillsAfterClose
  BY <1>1, <1>2 DEF KillsAfterClose
<1>6. Slots
  <2>1. Pushing = {} /\ Publishing = {} /\ Popping = {} /\ Returning = {}
    BY DEF Pushing, Publishing, Popping, Returning
  <2>2. Cardinality({}) = 0
    BY FS_EmptySet
  <2>3. space.permits = Chan!Capacity /\ full.permits = 0 /\ Len(items) = 0
    BY <1>1, <1>2
  <2> QED  BY <1>1, <2>1, <2>2, <2>3 DEF Slots
<1>7. Delivered
  BY DEF Delivered
<1> QED  BY <1>4, <1>5, <1>6, <1>7 DEF ChanInv

\* The sets of coroutines that the equations count are finite.
LEMMA ChanFinite ==
  /\ IsFiniteSet(Pushing) /\ Cardinality(Pushing) \in Nat
  /\ IsFiniteSet(Publishing) /\ Cardinality(Publishing) \in Nat
  /\ IsFiniteSet(Popping) /\ Cardinality(Popping) \in Nat
  /\ IsFiniteSet(Returning) /\ Cardinality(Returning) \in Nat
<1>1. IsFiniteSet(Pushing) /\ IsFiniteSet(Publishing)
  BY CoreFinite, FS_Subset DEF Pushing, Publishing
<1>2. IsFiniteSet(Popping) /\ IsFiniteSet(Returning)
  BY CoreFinite, FS_Subset DEF Popping, Returning
<1> QED  BY <1>1, <1>2, FS_CardinalityType

LEMMA ChanInvSafe == ChanInv => UchanSafe
<1> SUFFICES ASSUME ChanInv PROVE UchanSafe
  OBVIOUS
<1> USE DEF ChanInv
<1>1. /\ Chan!WritersAt({"push"}) = Cardinality(Pushing)
      /\ Chan!WritersAt({"publish"}) = Cardinality(Publishing)
      /\ Chan!ReadersAt({"pop"}) = Cardinality(Popping)
      /\ Chan!ReadersAt({"readDone", "space"}) = Cardinality(Returning)
  BY ChanCardinality DEF Chan!WritersAt, Chan!ReadersAt, Pushing, Publishing, Popping, Returning
<1>2. Len(items) \in Nat /\ Chan!Capacity \in Nat /\ space.permits \in Nat
  BY ChanSemaFacts DEF ChanTypes, Chan!Capacity
<1>3. Cardinality(Pushing) > 0 /\ ~closed => Len(items) < Chan!Capacity
  BY <1>2, ChanFinite DEF Slots
<1>4. Chan!SlotsAccounted
  BY <1>1, <1>3 DEF Chan!SlotsAccounted, Slots
<1>5. ASSUME eof # {}, NEW w \in Sender, NEW i \in 1..sent[w]
      PROVE  \E k \in DOMAIN taken : taken[k] = <<w, i>>
  <2>1. Range(items) = {}
    BY <1>5, RangeEmpty DEF Delivered, ChanTypes
  <2>2. <<w, i>> \in Range(taken)
    BY <1>5, <2>1 DEF Delivered
  <2> QED  BY <2>2 DEF Range
<1>6. Chan!EofIsFinal
  BY <1>5 DEF Chan!EofIsFinal, Delivered
<1> QED  BY <1>4, <1>6 DEF UchanSafe

\* What one coroutine's step changes in the counts.
LEMMA SenderMoves ==
  ASSUME NEW w \in Sender, \A v \in Sender : v # w => chw'[v] = chw[v]
  PROVE  /\ Cardinality(Pushing') = Cardinality(Pushing) + Is(chw'[w], "push") - Is(chw[w], "push")
         /\ Cardinality(Publishing')
              = Cardinality(Publishing) + Is(chw'[w], "publish") - Is(chw[w], "publish")
         /\ Cardinality(Pushing) >= Is(chw[w], "push")
<1>1. Pushing' \ {w} = Pushing \ {w} /\ Publishing' \ {w} = Publishing \ {w}
  BY DEF Pushing, Publishing
<1>2. /\ Cardinality(Pushing') = Cardinality(Pushing) + Mem(w, Pushing') - Mem(w, Pushing)
      /\ Cardinality(Pushing) >= Mem(w, Pushing)
  BY <1>1, ChanFinite, OneMoves
<1>3. Cardinality(Publishing')
        = Cardinality(Publishing) + Mem(w, Publishing') - Mem(w, Publishing)
  BY <1>1, ChanFinite, OneMoves
<1>4. Mem(w, Pushing') = Is(chw'[w], "push") /\ Mem(w, Pushing) = Is(chw[w], "push")
  BY DEF Mem, Is, Pushing
<1>5. Mem(w, Publishing') = Is(chw'[w], "publish") /\ Mem(w, Publishing) = Is(chw[w], "publish")
  BY DEF Mem, Is, Publishing
<1> QED  BY <1>2, <1>3, <1>4, <1>5

LEMMA ReceiverMoves ==
  ASSUME NEW w \in Receiver, \A v \in Receiver : v # w => chr'[v] = chr[v]
  PROVE  /\ Cardinality(Popping') = Cardinality(Popping) + Is(chr'[w], "pop") - Is(chr[w], "pop")
         /\ Cardinality(Returning')
              = Cardinality(Returning) + Is(chr'[w], "readDone") + Is(chr'[w], "space")
                  - Is(chr[w], "readDone") - Is(chr[w], "space")
         /\ Cardinality(Popping) >= Is(chr[w], "pop")
<1>1. Popping' \ {w} = Popping \ {w} /\ Returning' \ {w} = Returning \ {w}
  BY DEF Popping, Returning
<1>2. /\ Cardinality(Popping') = Cardinality(Popping) + Mem(w, Popping') - Mem(w, Popping)
      /\ Cardinality(Popping) >= Mem(w, Popping)
  BY <1>1, ChanFinite, OneMoves
<1>3. Cardinality(Returning') = Cardinality(Returning) + Mem(w, Returning') - Mem(w, Returning)
  BY <1>1, ChanFinite, OneMoves
<1>4. Mem(w, Popping') = Is(chr'[w], "pop") /\ Mem(w, Popping) = Is(chr[w], "pop")
  BY DEF Mem, Is, Popping
<1>5. /\ Mem(w, Returning') = Is(chr'[w], "readDone") + Is(chr'[w], "space")
      /\ Mem(w, Returning) = Is(chr[w], "readDone") + Is(chr[w], "space")
  BY DEF Mem, Is, Returning
<1>6. /\ Is(chr'[w], "readDone") \in Nat /\ Is(chr'[w], "space") \in Nat
      /\ Is(chr[w], "readDone") \in Nat /\ Is(chr[w], "space") \in Nat
      /\ Cardinality(Returning) \in Nat
  BY ChanFinite DEF Is
<1> QED  BY <1>2, <1>3, <1>4, <1>5, <1>6

LEMMA ChanNumbers ==
  ASSUME ChanTypes
  PROVE  /\ Len(items) \in Nat /\ Chan!Capacity \in Nat
         /\ space.permits \in Nat /\ full.permits \in Nat
         /\ Cardinality(Pushing) \in Nat /\ Cardinality(Publishing) \in Nat
         /\ Cardinality(Popping) \in Nat /\ Cardinality(Returning) \in Nat
BY ChanSemaFacts, ChanFinite DEF ChanTypes, Chan!Capacity

\* Steps that move no value and end no read leave Delivered alone.
LEMMA DeliveredKept ==
  ASSUME Delivered, UNCHANGED <<items, sent, taken, eof>>, closed => closed'
  PROVE  Delivered'
BY DEF Delivered

\* A step of a sender leaves the receivers' counts alone, and the other way
\* round.
LEMMA ReceiversRest ==
  ASSUME UNCHANGED chr
  PROVE  Cardinality(Popping') = Cardinality(Popping) /\ Cardinality(Returning') = Cardinality(Returning)
BY DEF Popping, Returning

LEMMA SendersRest ==
  ASSUME UNCHANGED chw
  PROVE  Cardinality(Pushing') = Cardinality(Pushing) /\ Cardinality(Publishing') = Cardinality(Publishing)
BY DEF Pushing, Publishing

LEMMA SenderTypes ==
  ASSUME ChanTypes, NEW w \in Sender,
         NEW l \in {"idle", "space", "push", "publish", "rendezvous", "terminated"},
         chw' = [chw EXCEPT ![w] = l]
  PROVE  /\ chw' \in [Sender -> {"idle", "space", "push", "publish", "rendezvous", "terminated"}]
         /\ chw'[w] = l /\ \A v \in Sender : v # w => chw'[v] = chw[v]
BY DEF ChanTypes

LEMMA ReceiverTypes ==
  ASSUME ChanTypes, NEW w \in Receiver, NEW l \in {"idle", "full", "pop", "readDone", "space"},
         chr' = [chr EXCEPT ![w] = l]
  PROVE  /\ chr' \in [Receiver -> {"idle", "full", "pop", "readDone", "space"}]
         /\ chr'[w] = l /\ \A v \in Receiver : v # w => chr'[v] = chr[v]
BY DEF ChanTypes

\* A sender that takes no slot and gives none: it calls, or it meets close().
LEMMA WriteCallStep ==
  ASSUME ChanInv, NEW w \in Sender, Chan!WriteCall(w) \/ Chan!WriteClosed(w)
  PROVE  ChanInv'
<1> USE DEF ChanInv
<1>1. PICK l \in {"space", "terminated"} :
        /\ chw' = [chw EXCEPT ![w] = l] /\ chw[w] # "publish"
        /\ chw[w] = "push" => closed
        /\ UNCHANGED <<size, items, space, full, closed, chr, cpc, sent, taken, eof>>
  BY DEF Chan!WriteCall, Chan!WriteClosed, Chan!WGoes
<1>moved. /\ chw' \in [Sender -> {"idle", "space", "push", "publish", "rendezvous", "terminated"}]
          /\ chw'[w] = l /\ \A v \in Sender : v # w => chw'[v] = chw[v]
  BY <1>1, SenderTypes
<1>counts. /\ Cardinality(Pushing') = Cardinality(Pushing) + Is(chw'[w], "push") - Is(chw[w], "push")
           /\ Cardinality(Publishing')
                = Cardinality(Publishing) + Is(chw'[w], "publish") - Is(chw[w], "publish")
           /\ Cardinality(Pushing) >= Is(chw[w], "push")
  BY <1>moved, SenderMoves
<1>numbers. /\ Len(items) \in Nat /\ Chan!Capacity \in Nat
            /\ space.permits \in Nat /\ full.permits \in Nat
            /\ Cardinality(Pushing) \in Nat /\ Cardinality(Publishing) \in Nat
            /\ Cardinality(Popping) \in Nat /\ Cardinality(Returning) \in Nat
  BY ChanNumbers
<1>slots. ~closed => /\ space.permits + Cardinality(Pushing) + Len(items) + Cardinality(Returning)
                          = Chan!Capacity
                     /\ full.permits + Cardinality(Publishing) + Cardinality(Popping) = Len(items)
  BY DEF Slots
<1>2. ChanTypes'
  BY <1>1, <1>moved DEF ChanTypes
<1>3. Slots'
  <2>1. /\ ~closed => Cardinality(Pushing') = Cardinality(Pushing)
        /\ Cardinality(Publishing') = Cardinality(Publishing)
    BY <1>1, <1>numbers, <1>moved, <1>counts DEF Is
  <2>2. Chan!Capacity' = Chan!Capacity
    BY <1>1 DEF Chan!Capacity
  <2> QED  BY <1>1, <2>1, <2>2, ReceiversRest DEF Slots
<1>4. Delivered'
  BY <1>1, DeliveredKept
<1> QED  BY <1>1, <1>2, <1>3, <1>4 DEF KillsAfterClose

LEMMA WriteSpaceStep ==
  ASSUME ChanInv, NEW w \in Sender, Chan!WriteSpace(w)
  PROVE  ChanInv'
<1> USE DEF ChanInv
<1>1. /\ chw' = [chw EXCEPT ![w] = "push"] /\ chw[w] = "space"
      /\ Chan!Passes(space) /\ space' = Chan!AfterWait(space)
      /\ UNCHANGED <<size, items, full, closed, chr, cpc, sent, taken, eof>>
  BY DEF Chan!WriteSpace, Chan!WGoes
<1>moved. /\ chw' \in [Sender -> {"idle", "space", "push", "publish", "rendezvous", "terminated"}]
          /\ chw'[w] = "push" /\ \A v \in Sender : v # w => chw'[v] = chw[v]
  BY <1>1, SenderTypes
<1>counts. /\ Cardinality(Pushing') = Cardinality(Pushing) + Is(chw'[w], "push") - Is(chw[w], "push")
           /\ Cardinality(Publishing')
                = Cardinality(Publishing) + Is(chw'[w], "publish") - Is(chw[w], "publish")
           /\ Cardinality(Pushing) >= Is(chw[w], "push")
  BY <1>moved, SenderMoves
<1>numbers. /\ Len(items) \in Nat /\ Chan!Capacity \in Nat
            /\ space.permits \in Nat /\ full.permits \in Nat
            /\ Cardinality(Pushing) \in Nat /\ Cardinality(Publishing) \in Nat
            /\ Cardinality(Popping) \in Nat /\ Cardinality(Returning) \in Nat
  BY ChanNumbers
<1>slots. ~closed => /\ space.permits + Cardinality(Pushing) + Len(items) + Cardinality(Returning)
                          = Chan!Capacity
                     /\ full.permits + Cardinality(Publishing) + Cardinality(Popping) = Len(items)
  BY DEF Slots
<1>2. space \in ChanSema
  BY DEF ChanTypes
<1>3. /\ space' \in ChanSema /\ space'.killed = space.killed
      /\ space.killed \/ space'.permits = space.permits - 1
  BY <1>1, <1>2, ChanSemaFacts
<1>4. ChanTypes'
  BY <1>1, <1>3, <1>moved DEF ChanTypes
<1>5. KillsAfterClose'
  BY <1>1, <1>3 DEF KillsAfterClose
<1>6. Slots'
  <2>1. /\ Cardinality(Pushing') = Cardinality(Pushing) + 1
        /\ Cardinality(Publishing') = Cardinality(Publishing)
    BY <1>1, <1>numbers, <1>moved, <1>counts DEF Is
  <2>2. Chan!Capacity' = Chan!Capacity
    BY <1>1 DEF Chan!Capacity
  <2>3. ASSUME ~closed
        PROVE  space'.permits + Cardinality(Pushing') + Len(items) + Cardinality(Returning)
                 = Chan!Capacity
    <3>1. space.permits + Cardinality(Pushing) + Len(items) + Cardinality(Returning)
            = Chan!Capacity
      BY <1>slots, <2>3
    <3>2. space'.permits = space.permits - 1
      BY <1>3, <2>3 DEF KillsAfterClose
    <3>3. PICK p \in Nat, n \in Nat, i \in Nat, t \in Nat :
            p = space.permits /\ n = Cardinality(Pushing) /\ i = Len(items) /\ t = Cardinality(Returning)
      BY <1>numbers
    <3>4. (p - 1) + (n + 1) + i + t = p + n + i + t
      OBVIOUS
    <3> QED  BY <2>1, <3>1, <3>2, <3>3, <3>4
  <2> QED  BY <1>1, <1>slots, <2>1, <2>2, <2>3, ReceiversRest DEF Slots
<1>7. Delivered'
  BY <1>1, DeliveredKept
<1> QED  BY <1>4, <1>5, <1>6, <1>7

LEMMA WritePushStep ==
  ASSUME ChanInv, NEW w \in Sender, Chan!WritePush(w)
  PROVE  ChanInv'
<1> USE DEF ChanInv
<1>1. /\ chw' = [chw EXCEPT ![w] = "publish"] /\ chw[w] = "push" /\ ~closed
      /\ sent' = [sent EXCEPT ![w] = sent[w] + 1]
      /\ items' = Append(items, <<w, sent'[w]>>)
      /\ UNCHANGED <<size, space, full, closed, chr, cpc, taken, eof>>
  BY DEF Chan!WritePush, Chan!WGoes
<1>moved. /\ chw' \in [Sender -> {"idle", "space", "push", "publish", "rendezvous", "terminated"}]
          /\ chw'[w] = "publish" /\ \A v \in Sender : v # w => chw'[v] = chw[v]
  BY <1>1, SenderTypes
<1>counts. /\ Cardinality(Pushing') = Cardinality(Pushing) + Is(chw'[w], "push") - Is(chw[w], "push")
           /\ Cardinality(Publishing')
                = Cardinality(Publishing) + Is(chw'[w], "publish") - Is(chw[w], "publish")
           /\ Cardinality(Pushing) >= Is(chw[w], "push")
  BY <1>moved, SenderMoves
<1>numbers. /\ Len(items) \in Nat /\ Chan!Capacity \in Nat
            /\ space.permits \in Nat /\ full.permits \in Nat
            /\ Cardinality(Pushing) \in Nat /\ Cardinality(Publishing) \in Nat
            /\ Cardinality(Popping) \in Nat /\ Cardinality(Returning) \in Nat
  BY ChanNumbers
<1>slots. ~closed => /\ space.permits + Cardinality(Pushing) + Len(items) + Cardinality(Returning)
                          = Chan!Capacity
                     /\ full.permits + Cardinality(Publishing) + Cardinality(Popping) = Len(items)
  BY DEF Slots
<1>2. /\ sent' \in [Sender -> Nat] /\ sent'[w] = sent[w] + 1 /\ sent[w] \in Nat
      /\ \A v \in Sender : v # w => sent'[v] = sent[v]
  BY <1>1 DEF ChanTypes
<1>3. items \in Seq(Value) /\ <<w, sent'[w]>> \in Value
  BY <1>2 DEF ChanTypes, Value
<1>4. /\ items' \in Seq(Value) /\ Len(items') = Len(items) + 1
      /\ Range(items') = Range(items) \cup {<<w, sent'[w]>>}
  BY <1>1, <1>3, RangeAppend
<1>5. ChanTypes'
  BY <1>1, <1>2, <1>4, <1>moved DEF ChanTypes
<1>6. Slots'
  <2>1. /\ Cardinality(Pushing') = Cardinality(Pushing) - 1
        /\ Cardinality(Publishing') = Cardinality(Publishing) + 1
    BY <1>1, <1>numbers, <1>moved, <1>counts DEF Is
  <2>some. Cardinality(Pushing) # 0
    BY <1>1, <1>numbers, <1>counts DEF Is
  <2>2. Chan!Capacity' = Chan!Capacity
    BY <1>1 DEF Chan!Capacity
  <2>3. space.permits + Cardinality(Pushing) + Len(items) + Cardinality(Returning)
          = Chan!Capacity
    BY <1>1, <1>slots
  <2>length. Len(items') = Len(items) + 1
    BY <1>4
  <2>4. space.permits + Cardinality(Pushing') + Len(items') + Cardinality(Returning)
          = Chan!Capacity
    <3>1. Cardinality(Pushing') = Cardinality(Pushing) - 1
      BY <2>1
    <3>2. PICK p \in Nat, n \in Nat, i \in Nat, t \in Nat :
            p = space.permits /\ n = Cardinality(Pushing) /\ i = Len(items) /\ t = Cardinality(Returning)
      BY <1>numbers
    <3>3. p + (n - 1) + (i + 1) + t = p + n + i + t
      OBVIOUS
    <3> QED  BY <2>3, <2>length, <3>1, <3>2, <3>3
  <2>5. full.permits + Cardinality(Publishing') + Cardinality(Popping) = Len(items')
    <3>1. full.permits + Cardinality(Publishing) + Cardinality(Popping) = Len(items)
      BY <1>1, <1>slots
    <3>2. Cardinality(Publishing') = Cardinality(Publishing) + 1
      BY <2>1
    <3>3. PICK p \in Nat, n \in Nat, t \in Nat :
            p = full.permits /\ n = Cardinality(Publishing) /\ t = Cardinality(Popping)
      BY <1>numbers
    <3>4. p + (n + 1) + t = (p + n + t) + 1
      OBVIOUS
    <3> QED  BY <2>length, <3>1, <3>2, <3>3, <3>4
  <2>6. Len(items') <= Chan!Capacity
    BY <1>numbers, <2>3, <2>length, <2>some
  <2> QED  BY <1>1, <2>2, <2>4, <2>5, <2>6, ReceiversRest DEF Slots
<1>7. Delivered'
  <2>1. ASSUME NEW v \in Sender, NEW i \in 1..sent'[v]
        PROVE  <<v, i>> \in Range(items') \/ <<v, i>> \in Range(taken)
    <3>1. CASE v = w /\ i = sent'[w]
      BY <1>4, <3>1
    <3>2. CASE ~(v = w /\ i = sent'[w])
      <4>1. i \in 1..sent[v]
        BY <1>2, <3>2
      <4> QED  BY <1>4, <4>1 DEF Delivered
    <3> QED  BY <3>1, <3>2
  <2>2. eof = {}
    BY <1>1 DEF Delivered
  <2> QED  BY <1>1, <2>1, <2>2 DEF Delivered
<1> QED  BY <1>1, <1>5, <1>6, <1>7 DEF KillsAfterClose

LEMMA WritePublishStep ==
  ASSUME ChanInv, NEW w \in Sender, Chan!WritePublish(w)
  PROVE  ChanInv'
<1> USE DEF ChanInv
<1>1. PICK l \in {"rendezvous", "idle"} :
        /\ chw' = [chw EXCEPT ![w] = l] /\ chw[w] = "publish"
        /\ full' = Chan!AfterSignal(full)
        /\ UNCHANGED <<size, items, space, closed, chr, cpc, sent, taken, eof>>
  BY DEF Chan!WritePublish, Chan!WGoes
<1>moved. /\ chw' \in [Sender -> {"idle", "space", "push", "publish", "rendezvous", "terminated"}]
          /\ chw'[w] = l /\ \A v \in Sender : v # w => chw'[v] = chw[v]
  BY <1>1, SenderTypes
<1>counts. /\ Cardinality(Pushing') = Cardinality(Pushing) + Is(chw'[w], "push") - Is(chw[w], "push")
           /\ Cardinality(Publishing')
                = Cardinality(Publishing) + Is(chw'[w], "publish") - Is(chw[w], "publish")
           /\ Cardinality(Pushing) >= Is(chw[w], "push")
  BY <1>moved, SenderMoves
<1>numbers. /\ Len(items) \in Nat /\ Chan!Capacity \in Nat
            /\ space.permits \in Nat /\ full.permits \in Nat
            /\ Cardinality(Pushing) \in Nat /\ Cardinality(Publishing) \in Nat
            /\ Cardinality(Popping) \in Nat /\ Cardinality(Returning) \in Nat
  BY ChanNumbers
<1>slots. ~closed => /\ space.permits + Cardinality(Pushing) + Len(items) + Cardinality(Returning)
                          = Chan!Capacity
                     /\ full.permits + Cardinality(Publishing) + Cardinality(Popping) = Len(items)
  BY DEF Slots
<1>2. full \in ChanSema
  BY DEF ChanTypes
<1>3. /\ full' \in ChanSema /\ full'.killed = full.killed
      /\ full'.permits = full.permits + 1
  BY <1>1, <1>2, ChanSemaFacts
<1>4. ChanTypes'
  BY <1>1, <1>3, <1>moved DEF ChanTypes
<1>5. KillsAfterClose'
  BY <1>1, <1>3 DEF KillsAfterClose
<1>6. Slots'
  <2>1. /\ Cardinality(Pushing') = Cardinality(Pushing)
        /\ Cardinality(Publishing') = Cardinality(Publishing) - 1
    BY <1>1, <1>numbers, <1>moved, <1>counts DEF Is
  <2>2. Chan!Capacity' = Chan!Capacity
    BY <1>1 DEF Chan!Capacity
  <2>3. ASSUME ~closed
        PROVE  full'.permits + Cardinality(Publishing') + Cardinality(Popping) = Len(items)
    <3>1. full.permits + Cardinality(Publishing) + Cardinality(Popping) = Len(items)
      BY <1>slots, <2>3
    <3>2. PICK p \in Nat, n \in Nat, t \in Nat :
            p = full.permits /\ n = Cardinality(Publishing) /\ t = Cardinality(Popping)
      BY <1>numbers
    <3>3. (p + 1) + (n - 1) + t = p + n + t
      OBVIOUS
    <3> QED  BY <1>3, <2>1, <3>1, <3>2, <3>3
  <2> QED  BY <1>1, <2>1, <2>2, <2>3, ReceiversRest DEF Slots
<1>7. Delivered'
  BY <1>1, DeliveredKept
<1> QED  BY <1>4, <1>5, <1>6, <1>7

LEMMA WriteRendezvousStep ==
  ASSUME ChanInv, NEW w \in Sender, Chan!WriteRendezvous(w)
  PROVE  ChanInv'
<1> USE DEF ChanInv
<1>1. /\ chw' = [chw EXCEPT ![w] = "idle"] /\ chw[w] = "rendezvous"
      /\ UNCHANGED <<size, items, space, full, closed, chr, cpc, sent, taken, eof>>
  BY DEF Chan!WriteRendezvous, Chan!WGoes
<1>moved. /\ chw' \in [Sender -> {"idle", "space", "push", "publish", "rendezvous", "terminated"}]
          /\ chw'[w] = "idle" /\ \A v \in Sender : v # w => chw'[v] = chw[v]
  BY <1>1, SenderTypes
<1>counts. /\ Cardinality(Pushing') = Cardinality(Pushing) + Is(chw'[w], "push") - Is(chw[w], "push")
           /\ Cardinality(Publishing')
                = Cardinality(Publishing) + Is(chw'[w], "publish") - Is(chw[w], "publish")
           /\ Cardinality(Pushing) >= Is(chw[w], "push")
  BY <1>moved, SenderMoves
<1>numbers. /\ Len(items) \in Nat /\ Chan!Capacity \in Nat
            /\ space.permits \in Nat /\ full.permits \in Nat
            /\ Cardinality(Pushing) \in Nat /\ Cardinality(Publishing) \in Nat
            /\ Cardinality(Popping) \in Nat /\ Cardinality(Returning) \in Nat
  BY ChanNumbers
<1>slots. ~closed => /\ space.permits + Cardinality(Pushing) + Len(items) + Cardinality(Returning)
                          = Chan!Capacity
                     /\ full.permits + Cardinality(Publishing) + Cardinality(Popping) = Len(items)
  BY DEF Slots
<1>2. ChanTypes'
  BY <1>1, <1>moved DEF ChanTypes
<1>3. Slots'
  <2>1. /\ Cardinality(Pushing') = Cardinality(Pushing)
        /\ Cardinality(Publishing') = Cardinality(Publishing)
    BY <1>1, <1>numbers, <1>moved, <1>counts DEF Is
  <2>2. Chan!Capacity' = Chan!Capacity
    BY <1>1 DEF Chan!Capacity
  <2> QED  BY <1>1, <2>1, <2>2, ReceiversRest DEF Slots
<1>4. Delivered'
  BY <1>1, DeliveredKept
<1> QED  BY <1>1, <1>2, <1>3, <1>4 DEF KillsAfterClose

LEMMA ReadCallStep ==
  ASSUME ChanInv, NEW q \in Receiver, Chan!ReadCall(q) \/ Chan!ReadDone(q)
  PROVE  ChanInv'
<1> USE DEF ChanInv
<1>1. PICK l \in {"full", "space"} :
        /\ chr' = [chr EXCEPT ![q] = l] /\ chr[q] = IF l = "full" THEN "idle" ELSE "readDone"
        /\ UNCHANGED <<size, items, space, full, closed, chw, cpc, sent, taken, eof>>
  BY DEF Chan!ReadCall, Chan!ReadDone, Chan!RGoes
<1>moved. /\ chr' \in [Receiver -> {"idle", "full", "pop", "readDone", "space"}]
          /\ chr'[q] = l /\ \A v \in Receiver : v # q => chr'[v] = chr[v]
  BY <1>1, ReceiverTypes
<1>counts. /\ Cardinality(Popping') = Cardinality(Popping) + Is(chr'[q], "pop") - Is(chr[q], "pop")
           /\ Cardinality(Returning')
                = Cardinality(Returning) + Is(chr'[q], "readDone") + Is(chr'[q], "space")
                    - Is(chr[q], "readDone") - Is(chr[q], "space")
           /\ Cardinality(Popping) >= Is(chr[q], "pop")
  BY <1>moved, ReceiverMoves
<1>numbers. /\ Len(items) \in Nat /\ Chan!Capacity \in Nat
            /\ space.permits \in Nat /\ full.permits \in Nat
            /\ Cardinality(Pushing) \in Nat /\ Cardinality(Publishing) \in Nat
            /\ Cardinality(Popping) \in Nat /\ Cardinality(Returning) \in Nat
  BY ChanNumbers
<1>slots. ~closed => /\ space.permits + Cardinality(Pushing) + Len(items) + Cardinality(Returning)
                          = Chan!Capacity
                     /\ full.permits + Cardinality(Publishing) + Cardinality(Popping) = Len(items)
  BY DEF Slots
<1>2. ChanTypes'
  BY <1>1, <1>moved DEF ChanTypes
<1>3. Slots'
  <2>1. Cardinality(Popping') = Cardinality(Popping) /\ Cardinality(Returning') = Cardinality(Returning)
    BY <1>1, <1>numbers, <1>moved, <1>counts DEF Is
  <2>2. Chan!Capacity' = Chan!Capacity
    BY <1>1 DEF Chan!Capacity
  <2> QED  BY <1>1, <2>1, <2>2, SendersRest DEF Slots
<1>4. Delivered'
  BY <1>1, DeliveredKept
<1> QED  BY <1>1, <1>2, <1>3, <1>4 DEF KillsAfterClose

LEMMA ReadFullStep ==
  ASSUME ChanInv, NEW q \in Receiver, Chan!ReadFull(q)
  PROVE  ChanInv'
<1> USE DEF ChanInv
<1>1. /\ chr' = [chr EXCEPT ![q] = "pop"] /\ chr[q] = "full"
      /\ Chan!Passes(full) /\ full' = Chan!AfterWait(full)
      /\ UNCHANGED <<size, items, space, closed, chw, cpc, sent, taken, eof>>
  BY DEF Chan!ReadFull, Chan!RGoes
<1>moved. /\ chr' \in [Receiver -> {"idle", "full", "pop", "readDone", "space"}]
          /\ chr'[q] = "pop" /\ \A v \in Receiver : v # q => chr'[v] = chr[v]
  BY <1>1, ReceiverTypes
<1>counts. /\ Cardinality(Popping') = Cardinality(Popping) + Is(chr'[q], "pop") - Is(chr[q], "pop")
           /\ Cardinality(Returning')
                = Cardinality(Returning) + Is(chr'[q], "readDone") + Is(chr'[q], "space")
                    - Is(chr[q], "readDone") - Is(chr[q], "space")
           /\ Cardinality(Popping) >= Is(chr[q], "pop")
  BY <1>moved, ReceiverMoves
<1>numbers. /\ Len(items) \in Nat /\ Chan!Capacity \in Nat
            /\ space.permits \in Nat /\ full.permits \in Nat
            /\ Cardinality(Pushing) \in Nat /\ Cardinality(Publishing) \in Nat
            /\ Cardinality(Popping) \in Nat /\ Cardinality(Returning) \in Nat
  BY ChanNumbers
<1>slots. ~closed => /\ space.permits + Cardinality(Pushing) + Len(items) + Cardinality(Returning)
                          = Chan!Capacity
                     /\ full.permits + Cardinality(Publishing) + Cardinality(Popping) = Len(items)
  BY DEF Slots
<1>2. full \in ChanSema
  BY DEF ChanTypes
<1>3. /\ full' \in ChanSema /\ full'.killed = full.killed
      /\ full.killed \/ full'.permits = full.permits - 1
  BY <1>1, <1>2, ChanSemaFacts
<1>4. ChanTypes'
  BY <1>1, <1>3, <1>moved DEF ChanTypes
<1>5. KillsAfterClose'
  BY <1>1, <1>3 DEF KillsAfterClose
<1>6. Slots'
  <2>1. /\ Cardinality(Popping') = Cardinality(Popping) + 1
        /\ Cardinality(Returning') = Cardinality(Returning)
    BY <1>1, <1>numbers, <1>moved, <1>counts DEF Is
  <2>2. Chan!Capacity' = Chan!Capacity
    BY <1>1 DEF Chan!Capacity
  <2>3. ASSUME ~closed
        PROVE  full'.permits + Cardinality(Publishing) + Cardinality(Popping') = Len(items)
    <3>1. full.permits + Cardinality(Publishing) + Cardinality(Popping) = Len(items)
      BY <1>slots, <2>3
    <3>2. full'.permits = full.permits - 1
      BY <1>3, <2>3 DEF KillsAfterClose
    <3>3. PICK p \in Nat, n \in Nat, t \in Nat :
            p = full.permits /\ n = Cardinality(Publishing) /\ t = Cardinality(Popping)
      BY <1>numbers
    <3>4. (p - 1) + n + (t + 1) = p + n + t
      OBVIOUS
    <3> QED  BY <2>1, <3>1, <3>2, <3>3, <3>4
  <2> QED  BY <1>1, <1>slots, <2>1, <2>2, <2>3, SendersRest DEF Slots
<1>7. Delivered'
  BY <1>1, DeliveredKept
<1> QED  BY <1>4, <1>5, <1>6, <1>7

\* A reader that finds the channel empty was let through by close(): while the
\* channel is open a reader about to pop has a value.
LEMMA ReadEofStep ==
  ASSUME ChanInv, NEW q \in Receiver, Chan!ReadEof(q)
  PROVE  ChanInv'
<1> USE DEF ChanInv
<1>1. /\ chr' = [chr EXCEPT ![q] = "idle"] /\ chr[q] = "pop" /\ items = <<>>
      /\ UNCHANGED <<size, items, space, full, closed, chw, cpc, sent, taken>>
  BY DEF Chan!ReadEof, Chan!RGoes
<1>moved. /\ chr' \in [Receiver -> {"idle", "full", "pop", "readDone", "space"}]
          /\ chr'[q] = "idle" /\ \A v \in Receiver : v # q => chr'[v] = chr[v]
  BY <1>1, ReceiverTypes
<1>counts. /\ Cardinality(Popping') = Cardinality(Popping) + Is(chr'[q], "pop") - Is(chr[q], "pop")
           /\ Cardinality(Returning')
                = Cardinality(Returning) + Is(chr'[q], "readDone") + Is(chr'[q], "space")
                    - Is(chr[q], "readDone") - Is(chr[q], "space")
           /\ Cardinality(Popping) >= Is(chr[q], "pop")
  BY <1>moved, ReceiverMoves
<1>numbers. /\ Len(items) \in Nat /\ Chan!Capacity \in Nat
            /\ space.permits \in Nat /\ full.permits \in Nat
            /\ Cardinality(Pushing) \in Nat /\ Cardinality(Publishing) \in Nat
            /\ Cardinality(Popping) \in Nat /\ Cardinality(Returning) \in Nat
  BY ChanNumbers
<1>slots. ~closed => /\ space.permits + Cardinality(Pushing) + Len(items) + Cardinality(Returning)
                          = Chan!Capacity
                     /\ full.permits + Cardinality(Publishing) + Cardinality(Popping) = Len(items)
  BY DEF Slots
<1>2. ChanTypes'
  BY <1>1, <1>moved DEF ChanTypes
<1>3. closed
  <2> SUFFICES ASSUME ~closed PROVE FALSE
    OBVIOUS
  <2>1. full.permits + Cardinality(Publishing) + Cardinality(Popping) = Len(items)
    BY <1>slots
  <2>2. Len(items) = 0
    BY <1>1
  <2>3. Cardinality(Popping) # 0
    BY <1>1, <1>counts, <1>numbers DEF Is
  <2>4. full.permits \in Nat /\ Cardinality(Publishing) \in Nat /\ Cardinality(Popping) \in Nat
    BY <1>numbers
  <2> QED  BY <2>1, <2>2, <2>3, <2>4
<1>4. Slots'
  <2>2. Chan!Capacity' = Chan!Capacity
    BY <1>1 DEF Chan!Capacity
  <2> QED  BY <1>1, <1>3, <2>2 DEF Slots
<1>5. Delivered'
  BY <1>1, <1>3 DEF Delivered
<1> QED  BY <1>1, <1>2, <1>4, <1>5 DEF KillsAfterClose

LEMMA ReadPopStep ==
  ASSUME ChanInv, NEW q \in Receiver, Chan!ReadPop(q)
  PROVE  ChanInv'
<1> USE DEF ChanInv
<1>1. PICK l \in {"readDone", "space"} :
        /\ chr' = [chr EXCEPT ![q] = l] /\ chr[q] = "pop" /\ items # <<>>
        /\ taken' = Append(taken, Head(items)) /\ items' = Tail(items)
        /\ UNCHANGED <<size, space, full, closed, chw, cpc, sent, eof>>
  BY DEF Chan!ReadPop, Chan!RGoes
<1>moved. /\ chr' \in [Receiver -> {"idle", "full", "pop", "readDone", "space"}]
          /\ chr'[q] = l /\ \A v \in Receiver : v # q => chr'[v] = chr[v]
  BY <1>1, ReceiverTypes
<1>counts. /\ Cardinality(Popping') = Cardinality(Popping) + Is(chr'[q], "pop") - Is(chr[q], "pop")
           /\ Cardinality(Returning')
                = Cardinality(Returning) + Is(chr'[q], "readDone") + Is(chr'[q], "space")
                    - Is(chr[q], "readDone") - Is(chr[q], "space")
           /\ Cardinality(Popping) >= Is(chr[q], "pop")
  BY <1>moved, ReceiverMoves
<1>numbers. /\ Len(items) \in Nat /\ Chan!Capacity \in Nat
            /\ space.permits \in Nat /\ full.permits \in Nat
            /\ Cardinality(Pushing) \in Nat /\ Cardinality(Publishing) \in Nat
            /\ Cardinality(Popping) \in Nat /\ Cardinality(Returning) \in Nat
  BY ChanNumbers
<1>slots. ~closed => /\ space.permits + Cardinality(Pushing) + Len(items) + Cardinality(Returning)
                          = Chan!Capacity
                     /\ full.permits + Cardinality(Publishing) + Cardinality(Popping) = Len(items)
  BY DEF Slots
<1>2. items \in Seq(Value) /\ taken \in Seq(Value)
  BY DEF ChanTypes
<1>3. /\ items' \in Seq(Value) /\ Head(items) \in Value
      /\ Range(items) \subseteq Range(items') \cup {Head(items)}
      /\ Len(items') = Len(items) - 1
  BY <1>1, <1>2, HeadOrTail
<1>4. /\ taken' \in Seq(Value)
      /\ Range(taken') = Range(taken) \cup {Head(items)}
  BY <1>1, <1>2, <1>3, RangeAppend
<1>5. ChanTypes'
  BY <1>1, <1>3, <1>4, <1>moved DEF ChanTypes
<1>6. Slots'
  <2>1. /\ Cardinality(Popping') = Cardinality(Popping) - 1
        /\ Cardinality(Returning') = Cardinality(Returning) + 1
    BY <1>1, <1>numbers, <1>moved, <1>counts DEF Is
  <2>2. Chan!Capacity' = Chan!Capacity
    BY <1>1 DEF Chan!Capacity
  <2>3. Len(items') = Len(items) - 1
    BY <1>3
  <2>4. ASSUME ~closed
        PROVE  space.permits + Cardinality(Pushing) + Len(items') + Cardinality(Returning')
                 = Chan!Capacity
    <3>1. space.permits + Cardinality(Pushing) + Len(items) + Cardinality(Returning)
            = Chan!Capacity
      BY <1>slots, <2>4
    <3>2. Cardinality(Returning') = Cardinality(Returning) + 1
      BY <2>1
    <3>3. PICK p \in Nat, n \in Nat, i \in Nat, t \in Nat :
            p = space.permits /\ n = Cardinality(Pushing) /\ i = Len(items) /\ t = Cardinality(Returning)
      BY <1>numbers
    <3>4. p + n + (i - 1) + (t + 1) = p + n + i + t
      OBVIOUS
    <3> QED  BY <2>3, <3>1, <3>2, <3>3, <3>4
  <2>5. ASSUME ~closed
        PROVE  full.permits + Cardinality(Publishing) + Cardinality(Popping') = Len(items')
    <3>1. full.permits + Cardinality(Publishing) + Cardinality(Popping) = Len(items)
      BY <1>slots, <2>5
    <3>2. Cardinality(Popping') = Cardinality(Popping) - 1
      BY <2>1
    <3>3. PICK p \in Nat, n \in Nat, t \in Nat :
            p = full.permits /\ n = Cardinality(Publishing) /\ t = Cardinality(Popping)
      BY <1>numbers
    <3>4. p + n + (t - 1) = (p + n + t) - 1
      OBVIOUS
    <3> QED  BY <2>3, <3>1, <3>2, <3>3, <3>4
  <2>6. Len(items') <= Chan!Capacity
    <3>1. Len(items) <= Chan!Capacity
      BY DEF Slots
    <3> QED  BY <1>numbers, <2>3, <3>1
  <2> QED  BY <1>1, <2>2, <2>4, <2>5, <2>6, SendersRest DEF Slots
<1>7. Delivered'
  <2>1. eof = {}
    BY <1>1 DEF Delivered
  <2> QED  BY <1>1, <1>3, <1>4, <2>1 DEF Delivered
<1> QED  BY <1>1, <1>5, <1>6, <1>7 DEF KillsAfterClose

LEMMA ReadSpaceStep ==
  ASSUME ChanInv, NEW q \in Receiver, Chan!ReadSpace(q)
  PROVE  ChanInv'
<1> USE DEF ChanInv
<1>1. /\ chr' = [chr EXCEPT ![q] = "idle"] /\ chr[q] = "space"
      /\ space' = Chan!AfterSignal(space)
      /\ UNCHANGED <<size, items, full, closed, chw, cpc, sent, taken, eof>>
  BY DEF Chan!ReadSpace, Chan!RGoes
<1>moved. /\ chr' \in [Receiver -> {"idle", "full", "pop", "readDone", "space"}]
          /\ chr'[q] = "idle" /\ \A v \in Receiver : v # q => chr'[v] = chr[v]
  BY <1>1, ReceiverTypes
<1>counts. /\ Cardinality(Popping') = Cardinality(Popping) + Is(chr'[q], "pop") - Is(chr[q], "pop")
           /\ Cardinality(Returning')
                = Cardinality(Returning) + Is(chr'[q], "readDone") + Is(chr'[q], "space")
                    - Is(chr[q], "readDone") - Is(chr[q], "space")
           /\ Cardinality(Popping) >= Is(chr[q], "pop")
  BY <1>moved, ReceiverMoves
<1>numbers. /\ Len(items) \in Nat /\ Chan!Capacity \in Nat
            /\ space.permits \in Nat /\ full.permits \in Nat
            /\ Cardinality(Pushing) \in Nat /\ Cardinality(Publishing) \in Nat
            /\ Cardinality(Popping) \in Nat /\ Cardinality(Returning) \in Nat
  BY ChanNumbers
<1>slots. ~closed => /\ space.permits + Cardinality(Pushing) + Len(items) + Cardinality(Returning)
                          = Chan!Capacity
                     /\ full.permits + Cardinality(Publishing) + Cardinality(Popping) = Len(items)
  BY DEF Slots
<1>2. space \in ChanSema
  BY DEF ChanTypes
<1>3. /\ space' \in ChanSema /\ space'.killed = space.killed
      /\ space'.permits = space.permits + 1
  BY <1>1, <1>2, ChanSemaFacts
<1>4. ChanTypes'
  BY <1>1, <1>3, <1>moved DEF ChanTypes
<1>5. KillsAfterClose'
  BY <1>1, <1>3 DEF KillsAfterClose
<1>6. Slots'
  <2>1. /\ Cardinality(Popping') = Cardinality(Popping)
        /\ Cardinality(Returning') = Cardinality(Returning) - 1
    BY <1>1, <1>numbers, <1>moved, <1>counts DEF Is
  <2>2. Chan!Capacity' = Chan!Capacity
    BY <1>1 DEF Chan!Capacity
  <2>3. ASSUME ~closed
        PROVE  space'.permits + Cardinality(Pushing) + Len(items) + Cardinality(Returning')
                 = Chan!Capacity
    <3>1. space.permits + Cardinality(Pushing) + Len(items) + Cardinality(Returning)
            = Chan!Capacity
      BY <1>slots, <2>3
    <3>2. Cardinality(Returning') = Cardinality(Returning) - 1
      BY <2>1
    <3>3. PICK p \in Nat, n \in Nat, i \in Nat, t \in Nat :
            p = space.permits /\ n = Cardinality(Pushing) /\ i = Len(items) /\ t = Cardinality(Returning)
      BY <1>numbers
    <3>4. (p + 1) + n + i + (t - 1) = p + n + i + t
      OBVIOUS
    <3> QED  BY <1>3, <3>1, <3>2, <3>3, <3>4
  <2> QED  BY <1>1, <1>slots, <2>1, <2>2, <2>3, SendersRest DEF Slots
<1>7. Delivered'
  BY <1>1, DeliveredKept
<1> QED  BY <1>4, <1>5, <1>6, <1>7

\* Nothing is counted once close() has begun.
LEMMA ChanCloseStep ==
  ASSUME ChanInv, Chan!CloseMark \/ Chan!CloseStep
  PROVE  ChanInv'
<1> USE DEF ChanInv
<1>1. /\ closed' = TRUE
      /\ UNCHANGED <<size, items, chw, chr, sent, taken, eof>>
      /\ space' = space \/ space' = Chan!AfterKill(space)
      /\ full' = full \/ full' = Chan!AfterKill(full)
  BY Zenon DEF Chan!CloseMark, Chan!CloseStep, Chan!CloseKill1, Chan!CloseKill2, Chan!CloseKill3,
         Chan!Closes, KillsAfterClose, ChanTypes
<1>2. space' \in ChanSema /\ full' \in ChanSema
  BY <1>1, AfterKillFacts DEF ChanTypes
<1>3. closed' \in BOOLEAN
  BY <1>1, Zenon
<1>4. ChanTypes'
  BY <1>1, <1>2, <1>3 DEF ChanTypes
<1>5. Slots'
  BY <1>1 DEF Slots, Chan!Capacity
<1>6. Delivered'
  BY <1>1, DeliveredKept
<1> QED  BY <1>1, <1>4, <1>5, <1>6 DEF KillsAfterClose

LEMMA ChanStep == ChanInv /\ [Chan!Next]_chanVars => ChanInv'
<1> SUFFICES ASSUME ChanInv, [Chan!Next]_chanVars PROVE ChanInv'
  OBVIOUS
<1>1. CASE UNCHANGED chanVars
  <2>1. Slots'
    BY <1>1, ReceiversRest, SendersRest DEF chanVars, ChanInv, Slots, Chan!Capacity
  <2> QED  BY <1>1, <2>1 DEF chanVars, ChanInv, ChanTypes, KillsAfterClose, Delivered
<1>2. ASSUME NEW w \in Sender, Chan!WriteCall(w) \/ Chan!WriteStep(w)
      PROVE  ChanInv'
  BY <1>2, WriteCallStep, WriteSpaceStep, WritePushStep, WritePublishStep, WriteRendezvousStep
     DEF Chan!WriteStep
<1>3. ASSUME NEW q \in Receiver, Chan!ReadCall(q) \/ Chan!ReadStep(q)
      PROVE  ChanInv'
  BY <1>3, ReadCallStep, ReadFullStep, ReadEofStep, ReadPopStep, ReadSpaceStep
     DEF Chan!ReadStep
<1> QED  BY <1>1, <1>2, <1>3, ChanCloseStep DEF Chan!Next

LEMMA ChanOwnStep == [CoreNext]_coreVars => [Chan!Next]_chanVars
BY DEF CoreNext, UsharedMutexPart, UmutexPart, UchanPart, CobatchPart, Ends, coreVars

(* However many senders and receivers share a uchan of whatever size, its   *)
(* semaphores account for every slot while it is open, so no slot is ever   *)
(* overfull or overwritten, and a read that returns false, whenever close() *)
(* came, has missed nothing that was written.                               *)
THEOREM ChanSafe == CoreSpec => []UchanSafe
<1>1. CoreInit => ChanInv
  BY ChanInitially DEF CoreInit
<1>2. ChanInv /\ [CoreNext]_coreVars => ChanInv'
  BY ChanStep, ChanOwnStep
<1> QED  BY <1>1, <1>2, ChanInvSafe, PTL DEF CoreSpec, coreVars
==============================================================================
