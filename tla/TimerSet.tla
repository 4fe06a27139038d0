------------------------------- MODULE TimerSet ------------------------------
(***************************************************************************)
(* What the per-thread timer heap of core/uco.cpp is for: a set of nodes,  *)
(* each with its deadline, from which a firing takes exactly the nodes     *)
(* that are due.  TimerHeap implements it; Usleeper uses it as its heap.   *)
(***************************************************************************)
EXTENDS Naturals

CONSTANTS Node, MaxDl

VARIABLES members, dl

setVars == <<members, dl>>

Init == /\ members = {}
        /\ dl \in [Node -> 1..MaxDl]

Add(n) == /\ n \notin members
          /\ members' = members \cup {n}
          /\ \E d \in 1..MaxDl : dl' = [dl EXCEPT ![n] = d]

Delete(n) == /\ n \in members
             /\ members' = members \ {n}
             /\ UNCHANGED dl

TakeDue(now) == /\ members' = {n \in members : dl[n] > now}
                /\ UNCHANGED dl

Next == \/ \E n \in Node : Add(n) \/ Delete(n)
        \/ \E now \in 1..MaxDl : TakeDue(now)

Spec == Init /\ [][Next]_setVars
==============================================================================
