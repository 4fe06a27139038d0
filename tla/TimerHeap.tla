------------------------------ MODULE TimerHeap ------------------------------
(***************************************************************************)
(* core/uco.cpp, the binary min-heap of timer nodes of a thread: an array  *)
(* in which every node also knows its own index, so that timer_remove can  *)
(* take a node out of the middle.  The operations run on the owning thread *)
(* only; each round of their loops is a step.  Arrays are indexed from 1   *)
(* here: the parent of i is i \div 2 and its children are 2i and 2i + 1.   *)
(***************************************************************************)
EXTENDS Naturals, Sequences, FiniteSets

CONSTANTS Node,     \* timer nodes
          MaxDl     \* bound: deadlines are 1..MaxDl

VARIABLES heap,     \* timer_heap
          idx,      \* the nodes' idx fields
          dl,       \* deadline_ns
          inHeap,   \* in_heap
          sift,     \* the loop that restores the order: which one, at which i
          firing    \* timer_on_fire: {} or {the now it read}

vars == <<heap, idx, dl, inHeap, sift, firing>>

AtRest == [dir |-> "none", i |-> 0]

Init == /\ heap = <<>>
        /\ idx = [n \in Node |-> 0]
        /\ dl = [n \in Node |-> 1]
        /\ inHeap = [n \in Node |-> FALSE]
        /\ sift = AtRest
        /\ firing = {}

D(i) == dl[heap[i]]

----------------------------------------------------------------------------
(* The loops *)

\* std::swap of two entries, and their idx fields.
Swap(i, j) == /\ heap' = [heap EXCEPT ![i] = heap[j], ![j] = heap[i]]
              /\ idx' = [idx EXCEPT ![heap[i]] = j, ![heap[j]] = i]
              /\ UNCHANGED <<dl, inHeap, firing>>

Stops(s) == sift' = s /\ UNCHANGED <<heap, idx, dl, inHeap, firing>>

\* One round of while (i > 0): entry i goes up as long as its parent is later.
SiftUp == /\ sift.dir = "up"
          /\ LET i == sift.i
                 parent == i \div 2
             IN  IF i = 1 \/ D(parent) <= D(i) THEN Stops(AtRest)
                 ELSE Swap(parent, i) /\ sift' = [sift EXCEPT !.i = parent]

\* Bug: the right child is never looked at.
BestLeft(i) == IF 2 * i <= Len(heap) /\ D(2 * i) < D(i) THEN 2 * i ELSE i

\* The earliest of entry i and its children.
Best(i) ==
  LET left == IF 2 * i <= Len(heap) /\ D(2 * i) < D(i) THEN 2 * i ELSE i
  IN  IF 2 * i + 1 <= Len(heap) /\ D(2 * i + 1) < D(left) THEN 2 * i + 1 ELSE left

\* One round of while (true): entry i goes down as long as a child is earlier.
\* In timer_remove the loop upwards follows, from where this one ends.
SiftDown == /\ sift.dir \in {"down", "downUp"}
            /\ LET i == sift.i
                   best == Best(i)
               IN  IF best = i
                   THEN Stops(IF sift.dir = "down" THEN AtRest ELSE [sift EXCEPT !.dir = "up"])
                   ELSE Swap(best, i) /\ sift' = [sift EXCEPT !.i = best]

----------------------------------------------------------------------------
(* The operations *)

\* The last entry takes the place of entry i, and the array shrinks.
Replace(i) ==
  LET n == Len(heap)
      last == heap[n]
  IN  /\ heap' = SubSeq([heap EXCEPT ![i] = last], 1, n - 1)
      /\ idx' = [idx EXCEPT ![last] = i]
      /\ inHeap' = [inHeap EXCEPT ![heap[i]] = FALSE]

\* A coroutine that timer_on_fire resumes runs inside its loop and may sleep
\* again; its deadline is after the now of the firing.  node->idx, which the
\* code sets after the loop, is that of the entry from the start here.
timer_push(n, d) ==
  /\ sift = AtRest
  /\ \A now \in firing : d > now
  /\ ~inHeap[n]
  /\ inHeap' = [inHeap EXCEPT ![n] = TRUE]
  /\ dl' = [dl EXCEPT ![n] = d]
  /\ heap' = Append(heap, n)
  /\ idx' = [idx EXCEPT ![n] = Len(heap) + 1]
  /\ sift' = [dir |-> "up", i |-> Len(heap) + 1]
  /\ UNCHANGED firing

\* Bug: the entry that took the place only moves down.
timer_removeDown(n) ==
  /\ sift = AtRest /\ firing = {}
  /\ inHeap[n]
  /\ Replace(idx[n])
  /\ sift' = IF idx[n] < Len(heap) THEN [dir |-> "down", i |-> idx[n]] ELSE AtRest
  /\ UNCHANGED <<dl, firing>>

\* From the middle, so the replacement may have to move either way.  A node
\* that is not in the heap any more is left alone.
timer_remove(n) ==
  /\ sift = AtRest /\ firing = {}
  /\ inHeap[n]
  /\ Replace(idx[n])
  /\ sift' = IF idx[n] < Len(heap) THEN [dir |-> "downUp", i |-> idx[n]] ELSE AtRest
  /\ UNCHANGED <<dl, firing>>

timer_on_fire(now) == /\ sift = AtRest /\ firing = {}
                      /\ firing' = {now}
                      /\ UNCHANGED <<heap, idx, dl, inHeap, sift>>

\* A round of its loop: the front is due and popped.
FirePops == /\ sift = AtRest
            /\ \E now \in firing : heap # <<>> /\ D(1) <= now
            /\ Replace(1)
            /\ sift' = [dir |-> "down", i |-> 1]
            /\ UNCHANGED <<dl, firing>>

FireEnds == /\ sift = AtRest
            /\ \E now \in firing : heap # <<>> => D(1) > now
            /\ firing' = {}
            /\ UNCHANGED <<heap, idx, dl, inHeap, sift>>

Next == \/ SiftUp \/ SiftDown \/ FirePops \/ FireEnds
        \/ \E n \in Node : timer_remove(n) \/ \E d \in 1..MaxDl : timer_push(n, d)
        \/ \E now \in 1..MaxDl : timer_on_fire(now)

Spec == Init /\ [][Next]_vars

----------------------------------------------------------------------------
(***************************************************************************)
(* The array is a heap again after every operation, whichever node was     *)
(* taken out of its middle, and every node in it knows its place, also     *)
(* while entries are moved: timer_remove trusts idx blindly.  A node is in *)
(* the array exactly when in_heap says so.                                 *)
(***************************************************************************)
WellFormed ==
  /\ sift = AtRest => \A i \in 2..Len(heap) : D(i \div 2) <= D(i)
  /\ \A i \in 1..Len(heap) : idx[heap[i]] = i
  /\ \A n \in Node : inHeap[n] <=> \E i \in 1..Len(heap) : heap[i] = n

\* What a firing has yet to pop is not asleep any more.
Asleep == {n \in Node : inHeap[n] /\ \A now \in firing : dl[n] > now}

Abs == INSTANCE TimerSet WITH members <- Asleep

(***************************************************************************)
(* The heap is a set of nodes: push and remove touch one node, and a       *)
(* firing takes exactly the nodes that are due, none earlier, none left,   *)
(* though coroutines it resumes go back to sleep before it ends.           *)
(***************************************************************************)
ImplementsTimerSet == Abs!Spec
==============================================================================
