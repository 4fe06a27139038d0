-------------------------------- MODULE Uchan --------------------------------
(***************************************************************************)
(* core/usync.h, uchan<T, Size> and its specialisation uchan<T, 0>.        *)
(*                                                                         *)
(*   x >> c   space.wait -> lock: closed? terminate : push -> full.signal  *)
(*            and, unbuffered, -> read_done.wait: closed? terminate        *)
(*   c >> x   full.wait -> lock: empty? return false : pop                 *)
(*            -> (unbuffered) read_done.signal -> space.signal             *)
(*   close()  closed -> kill full and space -> (unbuffered) kill read_done *)
(*                                                                         *)
(* The unbuffered channel is the buffered one with one slot and the extra  *)
(* rendezvous: _M_can_write is space, _M_can_read is full.  A critical     *)
(* section of _M_lock is one step.  A value is the name of its writer and  *)
(* a number.                                                               *)
(***************************************************************************)
EXTENDS SemaValue, Sequences, FiniteSets

CONSTANTS Writer, Reader,
          Sizes,      \* values of Size to look at; 0 is unbuffered
          MaxWrites   \* bound: values each writer sends

VARIABLES size,      \* the template parameter Size, fixed from the start
          items, space, full, readDone, closed,
          wpc, rpc, cpc,
          sent,      \* how many values each writer has pushed
          taken,     \* values received, in order
          returned,  \* values whose write has returned
          eof        \* readers that were told the channel is closed

chanVars == <<size, items, space, full, readDone, closed, wpc, rpc, cpc, sent,
              taken, returned, eof>>

Capacity == IF size = 0 THEN 1 ELSE size
Unbuffered == size = 0

Init == /\ size \in Sizes
        /\ items = <<>>
        /\ space = Sema(Capacity)
        /\ full = Sema(0)
        /\ readDone = Sema(0)
        /\ closed = FALSE
        /\ wpc = [w \in Writer |-> "idle"]
        /\ rpc = [r \in Reader |-> "idle"]
        /\ cpc = "idle"
        /\ sent = [w \in Writer |-> 0]
        /\ taken = <<>>
        /\ returned = {}
        /\ eof = {}

\* std::__terminate: the process is gone.
Terminated == \E w \in Writer : wpc[w] = "terminated"

WGoes(w, l) == /\ ~Terminated
               /\ wpc' = [wpc EXCEPT ![w] = l]
               /\ UNCHANGED <<size, rpc, cpc, eof>>
RGoes(r, l) == /\ ~Terminated
               /\ rpc' = [rpc EXCEPT ![r] = l]
               /\ UNCHANGED <<size, wpc, cpc, sent, returned, closed>>

----------------------------------------------------------------------------
(* x >> c *)

\* A program does not start a write on a channel it has closed.
WriteCall(w) == /\ wpc[w] = "idle"
                /\ sent[w] < MaxWrites
                /\ cpc = "idle"
                /\ WGoes(w, "space")
                /\ UNCHANGED <<items, space, full, readDone, closed, sent,
                               taken, returned>>

WriteSpace(w) == /\ wpc[w] = "space"
                 /\ Passes(space)
                 /\ space' = AfterWait(space)
                 /\ WGoes(w, "push")
                 /\ UNCHANGED <<items, full, readDone, closed, sent, taken,
                                returned>>

WritePush(w) == /\ wpc[w] = "push"
                /\ ~closed
                /\ sent' = [sent EXCEPT ![w] = @ + 1]
                /\ items' = Append(items, <<w, sent'[w]>>)
                /\ WGoes(w, "publish")
                /\ UNCHANGED <<space, full, readDone, closed, taken, returned>>

WriteClosed(w) == /\ \/ wpc[w] = "push"
                     \/ wpc[w] = "rendezvous" /\ Passes(readDone)
                  /\ closed
                  /\ WGoes(w, "terminated")
                  /\ UNCHANGED <<items, space, full, readDone, closed, sent,
                                 taken, returned>>

WritePublish(w) ==
  /\ wpc[w] = "publish"
  /\ full' = AfterSignal(full)
  /\ WGoes(w, IF Unbuffered THEN "rendezvous" ELSE "idle")
  /\ returned' = IF Unbuffered THEN returned
                 ELSE returned \union {<<w, sent[w]>>}
  /\ UNCHANGED <<items, space, readDone, closed, sent, taken>>

\* _M_read_done: any writer that waits may take the permit.
WriteRendezvous(w) == /\ wpc[w] = "rendezvous"
                      /\ Passes(readDone)
                      /\ ~closed
                      /\ readDone' = AfterWait(readDone)
                      /\ returned' = returned \union {<<w, sent[w]>>}
                      /\ WGoes(w, "idle")
                      /\ UNCHANGED <<items, space, full, closed, sent, taken>>

----------------------------------------------------------------------------
(* c >> x *)

ReadCall(r) == /\ rpc[r] = "idle"
               /\ r \notin eof
               /\ RGoes(r, "full")
               /\ UNCHANGED <<items, space, full, readDone, taken, eof>>

\* Bug: a reader the kill lets through reports the end at once.
ReadFullEof(r) == /\ rpc[r] = "full"
                  /\ Passes(full)
                  /\ full' = AfterWait(full)
                  /\ IF full.permits = 0
                     THEN eof' = eof \union {r} /\ RGoes(r, "idle")
                     ELSE RGoes(r, "pop") /\ UNCHANGED eof
                  /\ UNCHANGED <<items, space, readDone, taken>>

ReadFull(r) == /\ rpc[r] = "full"
               /\ Passes(full)
               /\ full' = AfterWait(full)
               /\ RGoes(r, "pop")
               /\ UNCHANGED <<items, space, readDone, taken, eof>>

ReadEof(r) == /\ rpc[r] = "pop"
              /\ items = <<>>
              /\ eof' = eof \union {r}
              /\ RGoes(r, "idle")
              /\ UNCHANGED <<items, space, full, readDone, taken>>

ReadPop(r) == /\ rpc[r] = "pop"
              /\ items # <<>>
              /\ taken' = Append(taken, Head(items))
              /\ items' = Tail(items)
              /\ RGoes(r, IF Unbuffered THEN "readDone" ELSE "space")
              /\ UNCHANGED <<space, full, readDone, eof>>

ReadDone(r) == /\ rpc[r] = "readDone"
               /\ readDone' = AfterSignal(readDone)
               /\ RGoes(r, "space")
               /\ UNCHANGED <<items, space, full, taken, eof>>

ReadSpace(r) == /\ rpc[r] = "space"
                /\ space' = AfterSignal(space)
                /\ RGoes(r, "idle")
                /\ UNCHANGED <<items, full, readDone, taken, eof>>

----------------------------------------------------------------------------
(* close() *)

Closes(l) == /\ ~Terminated
             /\ cpc' = l
             /\ UNCHANGED <<size, items, wpc, rpc, sent, taken, returned, eof>>

CloseMark == /\ cpc = "idle"
             /\ closed' = TRUE
             /\ Closes("kill1")
             /\ UNCHANGED <<space, full, readDone>>

\* Bug: the semaphore of the readers is left out.
CloseKill1Half == /\ cpc = "kill1"
                  /\ space' = AfterKill(space)
                  /\ Closes("kill2")
                  /\ UNCHANGED <<closed, full, readDone>>

\* kill_broadcast(_M_full), then _M_space; unbuffered the other way round.
CloseKill1 == /\ cpc = "kill1"
              /\ IF Unbuffered
                 THEN space' = AfterKill(space) /\ UNCHANGED full
                 ELSE full' = AfterKill(full) /\ UNCHANGED space
              /\ Closes("kill2")
              /\ UNCHANGED <<closed, readDone>>

CloseKill2 == /\ cpc = "kill2"
              /\ IF Unbuffered
                 THEN full' = AfterKill(full) /\ UNCHANGED space
                 ELSE space' = AfterKill(space) /\ UNCHANGED full
              /\ Closes(IF Unbuffered THEN "kill3" ELSE "closed")
              /\ UNCHANGED <<closed, readDone>>

CloseKill3 == /\ cpc = "kill3"
              /\ readDone' = AfterKill(readDone)
              /\ Closes("closed")
              /\ UNCHANGED <<closed, space, full>>

----------------------------------------------------------------------------
WriteStep(w) == \/ WriteSpace(w)
                \/ WritePush(w)
                \/ WriteClosed(w)
                \/ WritePublish(w)
                \/ WriteRendezvous(w)

ReadStep(r) == \/ ReadFull(r)
               \/ ReadEof(r)
               \/ ReadPop(r)
               \/ ReadDone(r)
               \/ ReadSpace(r)

CloseStep == CloseKill1 \/ CloseKill2 \/ CloseKill3

Next == \/ \E w \in Writer : WriteCall(w) \/ WriteStep(w)
        \/ \E r \in Reader : ReadCall(r) \/ ReadStep(r)
        \/ CloseMark
        \/ CloseStep

\* A coroutine that can run is resumed by its thread.
Fairness == /\ \A w \in Writer : WF_chanVars(WriteStep(w))
            /\ \A r \in Reader : WF_chanVars(ReadStep(r))
            /\ WF_chanVars(CloseStep)

Spec == Init /\ [][Next]_chanVars /\ Fairness

----------------------------------------------------------------------------
(* Properties *)

ReadersAt(S) == Cardinality({r \in Reader : rpc[r] \in S})
WritersAt(S) == Cardinality({w \in Writer : wpc[w] \in S})

\* While the channel is open its two semaphores account for every slot: each
\* is free, promised to a writer, occupied, or being handed back by a reader,
\* and an occupied one is published, about to be, or claimed by a reader.  So
\* push_back never exceeds Size and the slot of an unbuffered channel is never
\* overwritten.
SlotsAccounted ==
  /\ Len(items) <= Capacity
  /\ ~closed => /\ space.permits + WritersAt({"push"}) + Len(items)
                     + ReadersAt({"readDone", "space"}) = Capacity
                /\ full.permits + WritersAt({"publish"}) + ReadersAt({"pop"})
                     = Len(items)
  /\ WritersAt({"push"}) > 0 /\ ~closed => Len(items) < Capacity

\* A read that returns false is the last word: the channel is closed, nothing
\* is left in it, and everything ever pushed has been received.
EofIsFinal == eof # {} => /\ closed
                          /\ items = <<>>
                          /\ \A w \in Writer : \A i \in 1..sent[w] :
                               \E k \in DOMAIN taken : taken[k] = <<w, i>>

\* Once close() has been called every read returns, unless a writer that was
\* caught by it has ended the process.
CloseEndsReads ==
  closed ~> (Terminated \/ \A r \in Reader : rpc[r] = "idle")
==============================================================================
