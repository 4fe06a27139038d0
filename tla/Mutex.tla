-------------------------------- MODULE Mutex --------------------------------
(***************************************************************************)
(* What umutex promises: one holder at a time, lock() acquires in no       *)
(* particular order, and a free mutex that somebody wants is acquired.     *)
(* Umutex implements it; UsharedMutex is composed with it.                 *)
(***************************************************************************)
EXTENDS Naturals

CONSTANT Co

VARIABLES wanting,   \* coroutines inside lock()
          holders    \* coroutines between lock() or try_lock() and unlock()

mutexVars == <<wanting, holders>>

Init == wanting = {} /\ holders = {}

Want(c) == /\ c \notin wanting \cup holders
           /\ wanting' = wanting \cup {c}
           /\ UNCHANGED holders

Acquire(c) == /\ c \in wanting
              /\ holders = {}
              /\ holders' = {c}
              /\ wanting' = wanting \ {c}

TryAcquire(c) == /\ c \notin wanting
                 /\ holders = {}
                 /\ holders' = {c}
                 /\ UNCHANGED wanting

Unlock(c) == /\ c \in holders
             /\ holders' = holders \ {c}
             /\ UNCHANGED wanting

Next == \E c \in Co : Want(c) \/ Acquire(c) \/ TryAcquire(c) \/ Unlock(c)

\* A free mutex that somebody wants is acquired; nobody is stranded.
Spec == Init /\ [][Next]_mutexVars /\ WF_mutexVars(\E c \in Co : Acquire(c))
==============================================================================
