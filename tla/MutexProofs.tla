---------------------------- MODULE MutexProofs ------------------------------
(***************************************************************************)
(* The two locks of the core.                                              *)
(*                                                                         *)
(* ushared_mutex, for any finite sets of writers and readers and any       *)
(* kMaxReaders above the number of readers.                                *)
(*                                                                         *)
(* umutex, for any finite number of coroutines and any bound on spinning:  *)
(* one holder, no SYSFTL, a handover that adds to iState without carries,  *)
(* and an exact count of the waiters.  The inductive invariant says what   *)
(* the word iState stands for.  In normal mode the woken bit is worth one  *)
(* coroutine on its way back from the semaphore; in starving mode a clear  *)
(* locked bit is worth one coroutine to which the mutex is being handed    *)
(* over.                                                                   *)
(***************************************************************************)
EXTENDS MCCore, Counting

-----------------------------------------------------------------------------
(* ushared_mutex *)


WLabels == {"idle", "want", "register", "drain", "wait", "cs", "try", "release"}
RLabels == {"idle", "wait", "cs", "countdown", "signal"}

\* Some writer is at label l; the sign is up.
Stage(l) == \E w \in Writer : wpc[w] = l
Sign == Stage("drain") \/ Stage("wait") \/ Stage("cs")

Known == Inside \cup Queued
Leaving == {d \in Reader : rpc[d] = "countdown"}
Signalling == {d \in Reader : rpc[d] = "signal"}

nInside == Cardinality(Inside)
nKnown == Cardinality(Known)
nLeaving == Cardinality(Leaving)
nSignalling == Cardinality(Signalling)

\* One writer at a time holds w_.
OneHolder == \A v, w \in Writer : HoldsW(v) /\ HoldsW(w) => v = w

\* The signal for the writer is sent once, when the last reader it waits for
\* has counted down, and only to a writer that waits for it.
OneSignal ==
  /\ ~Stage("wait") => wsema = 0 /\ nSignalling = 0
  /\ Stage("wait") => wsema + nSignalling = IF readerWait = 0 THEN 1 ELSE 0
  /\ Stage("drain") => readerWait <= 0
  /\ Stage("cs") => readerWait = 0
  /\ left > 0 => Stage("release")

IInv == TypeOK /\ OneHolder /\ OneSignal /\ DrainCounts

----------------------------------------------------------------------------
(* Readers *)

\* The sets of readers are finite, and fewer than kMaxReaders.
LEMMA Finite ==
  /\ IsFiniteSet(Inside) /\ IsFiniteSet(Known)
  /\ IsFiniteSet(Leaving) /\ IsFiniteSet(Signalling)
  /\ nInside \in Nat /\ nKnown \in Nat /\ nLeaving \in Nat /\ nSignalling \in Nat
  /\ nKnown < MaxReaders /\ MaxReaders \in Nat
<1>1. /\ Inside \in SUBSET Reader /\ Known \in SUBSET Reader
      /\ Leaving \in SUBSET Reader /\ Signalling \in SUBSET Reader
  BY DEF Inside, Known, Queued, Leaving, Signalling
<1>2. /\ IsFiniteSet(Inside) /\ IsFiniteSet(Known)
      /\ IsFiniteSet(Leaving) /\ IsFiniteSet(Signalling)
  BY <1>1, ActorsFinite, FS_Subset
<1>3. /\ nInside \in Nat /\ nKnown \in Nat /\ nLeaving \in Nat /\ nSignalling \in Nat
      /\ Cardinality(Reader) \in Nat
  BY <1>2, ActorsFinite, FS_CardinalityType DEF nInside, nKnown, nLeaving, nSignalling
<1>4. nKnown <= Cardinality(Reader)
  BY <1>1, ActorsFinite, FS_Subset DEF nKnown
<1> QED  BY <1>2, <1>3, <1>4, MaxReadersLarge

\* How their numbers change when reader d moves to l.
LEMMA Counts ==
  ASSUME rpc \in [Reader -> RLabels], NEW d \in Reader, NEW l \in RLabels, RGoes(d, l)
  PROVE  /\ nInside' = nInside + Is(l, "cs") - Is(rpc[d], "cs")
         /\ nKnown' = nKnown + Is(l, "cs") + Is(l, "wait")
                             - Is(rpc[d], "cs") - Is(rpc[d], "wait")
         /\ nLeaving' = nLeaving + Is(l, "countdown") - Is(rpc[d], "countdown")
         /\ nSignalling' = nSignalling + Is(l, "signal") - Is(rpc[d], "signal")
         /\ nInside' \in Nat /\ nKnown' \in Nat /\ nLeaving' \in Nat /\ nSignalling' \in Nat
<1>1. /\ Inside' \ {d} = Inside \ {d}
      /\ Mem(d, Inside') = Is(l, "cs") /\ Mem(d, Inside) = Is(rpc[d], "cs")
  BY DEF RGoes, Inside, Mem, Is
<1>2. /\ Known' \ {d} = Known \ {d}
      /\ Mem(d, Known') = Is(l, "cs") + Is(l, "wait")
      /\ Mem(d, Known) = Is(rpc[d], "cs") + Is(rpc[d], "wait")
  BY DEF RGoes, Known, Inside, Queued, Mem, Is
<1>3. /\ Leaving' \ {d} = Leaving \ {d}
      /\ Mem(d, Leaving') = Is(l, "countdown") /\ Mem(d, Leaving) = Is(rpc[d], "countdown")
  BY DEF RGoes, Leaving, Mem, Is
<1>4. /\ Signalling' \ {d} = Signalling \ {d}
      /\ Mem(d, Signalling') = Is(l, "signal") /\ Mem(d, Signalling) = Is(rpc[d], "signal")
  BY DEF RGoes, Signalling, Mem, Is
<1>5. \A x, k : Is(x, k) \in Nat
  BY DEF Is
<1>6. /\ nInside' = nInside + Is(l, "cs") - Is(rpc[d], "cs")
      /\ nLeaving' = nLeaving + Is(l, "countdown") - Is(rpc[d], "countdown")
      /\ nSignalling' = nSignalling + Is(l, "signal") - Is(rpc[d], "signal")
      /\ nInside' \in Nat /\ nLeaving' \in Nat /\ nSignalling' \in Nat
  BY <1>1, <1>3, <1>4, Finite, OneMoves DEF nInside, nLeaving, nSignalling
<1>7. /\ nKnown' = nKnown + (Is(l, "cs") + Is(l, "wait"))
                          - (Is(rpc[d], "cs") + Is(rpc[d], "wait"))
      /\ nKnown' \in Nat
  BY <1>2, Finite, OneMoves DEF nKnown
<1> QED  BY <1>5, <1>6, <1>7, Finite

\* A step that moves no reader.
LEMMA ReadersStay ==
  ASSUME UNCHANGED rpc
  PROVE  UNCHANGED <<nInside, nKnown, nLeaving, nSignalling>>
BY DEF nInside, nKnown, nLeaving, nSignalling, Inside, Known, Queued, Leaving, Signalling

----------------------------------------------------------------------------
(* Writers *)

\* A writer that holds w_, or finds it free, moves: the stage is its label.
LEMMA WriterMoves ==
  ASSUME wpc \in [Writer -> WLabels], OneHolder,
         NEW w \in Writer, HoldsW(w) \/ WFree,
         NEW l \in WLabels, WGoes(w, l)
  PROVE  /\ OneHolder' /\ wpc' \in [Writer -> WLabels]
         /\ Stage("drain")' <=> l = "drain"
         /\ Stage("wait")' <=> l = "wait"
         /\ Stage("cs")' <=> l = "cs"
         /\ Stage("release")' <=> l = "release"
         /\ Stage("drain") <=> wpc[w] = "drain"
         /\ Stage("wait") <=> wpc[w] = "wait"
         /\ Stage("cs") <=> wpc[w] = "cs"
         /\ Stage("release") <=> wpc[w] = "release"
<1>1. \A v \in Writer : v # w => wpc[v] \in {"idle", "want"} /\ wpc'[v] = wpc[v]
  BY DEF OneHolder, HoldsW, WFree, WGoes
<1>2. wpc'[w] = l /\ wpc' \in [Writer -> WLabels]
  BY DEF WGoes
<1>3. OneHolder'
  BY <1>1, <1>2 DEF OneHolder, HoldsW
<1>4. \A k \in {"drain", "wait", "cs", "release"} : Stage(k)' <=> k = l
  BY <1>1, <1>2 DEF Stage
<1>5. \A k \in {"drain", "wait", "cs", "release"} : Stage(k) <=> k = wpc[w]
  BY <1>1 DEF Stage
<1> QED  BY <1>2, <1>3, <1>4, <1>5

\* A step that moves no writer, or one that begins to wait for w_.
LEMMA WritersStay ==
  ASSUME wpc \in [Writer -> WLabels], OneHolder,
         \/ UNCHANGED wpc
         \/ \E w \in Writer : wpc[w] = "idle" /\ WGoes(w, "want")
  PROVE  /\ OneHolder' /\ wpc' \in [Writer -> WLabels]
         /\ Stage("drain")' <=> Stage("drain")
         /\ Stage("wait")' <=> Stage("wait")
         /\ Stage("cs")' <=> Stage("cs")
         /\ Stage("release")' <=> Stage("release")
<1>1. CASE UNCHANGED wpc
  BY <1>1 DEF OneHolder, HoldsW, Stage
<1>2. ASSUME NEW w \in Writer, wpc[w] = "idle", WGoes(w, "want")
      PROVE  /\ OneHolder' /\ wpc' \in [Writer -> WLabels]
             /\ \A k \in {"drain", "wait", "cs", "release"} : Stage(k)' <=> Stage(k)
  <2>1. \A v \in Writer : v # w => wpc'[v] = wpc[v]
    BY <1>2 DEF WGoes
  <2>2. wpc'[w] = "want" /\ wpc' \in [Writer -> WLabels]
    BY <1>2 DEF WGoes, WLabels
  <2>3. OneHolder'
    BY <1>2, <2>1, <2>2 DEF OneHolder, HoldsW
  <2>4. \A k \in {"drain", "wait", "cs", "release"} : Stage(k)' <=> Stage(k)
    BY <1>2, <2>1, <2>2 DEF Stage
  <2> QED  BY <2>2, <2>3, <2>4
<1> QED  BY <1>1, <1>2

\* DrainCounts in terms of the stages.
CountsFit ==
  /\ Sign => /\ readers = nKnown - MaxReaders
             /\ readerWait + (IF Stage("drain") THEN r ELSE 0) =
                  nInside + rsema + left + nLeaving
  /\ ~Sign => /\ readers = nKnown
              /\ nKnown = nInside + rsema + left
              /\ readerWait = 0 /\ nLeaving = 0

\* The two say the same.
LEMMA Fits == DrainCounts <=> CountsFit
<1>1. (\E w \in Writer : Registered(w)) <=> Sign
  BY DEF Registered, Sign, Stage
<1>2. (\E w \in Writer : wpc[w] = "drain") <=> Stage("drain")
  BY DEF Stage
<1> QED
  BY <1>1, <1>2 DEF DrainCounts, CountsFit, Known, Leaving, nInside, nKnown, nLeaving

\* Of TypeOK, the numbers.
Numbers == /\ readers \in Int /\ readerWait \in Int
           /\ rsema \in Nat /\ wsema \in 0..1
           /\ r \in Nat /\ left \in Nat

\* What the steps of the writers and the readers have to keep.
Kept == Numbers /\ OneSignal /\ CountsFit

\* An initial state satisfies the invariant: nobody is anywhere.
LEMMA InvInit == Init => IInv
<1> SUFFICES ASSUME Init PROVE IInv
  OBVIOUS
<1>1. TypeOK
  BY DEF Init, TypeOK
<1>2. /\ Inside = {} /\ Known = {} /\ Leaving = {} /\ Signalling = {}
  BY DEF Init, Inside, Known, Queued, Leaving, Signalling
<1>3. nInside = 0 /\ nKnown = 0 /\ nLeaving = 0 /\ nSignalling = 0
  BY <1>2, FS_EmptySet DEF nInside, nKnown, nLeaving, nSignalling
<1>4. ~Stage("drain") /\ ~Stage("wait") /\ ~Stage("cs") /\ ~Stage("release")
  BY DEF Init, Stage
<1>5. OneHolder
  BY DEF Init, OneHolder, HoldsW
<1>6. OneSignal /\ CountsFit
  BY <1>3, <1>4 DEF Init, OneSignal, CountsFit, Sign
<1> QED  BY <1>1, <1>5, <1>6, Fits DEF IInv

----------------------------------------------------------------------------
(* The steps of a writer *)

\* lock, try_lock and unlock keep the counters right at every atomic operation.
LEMMA WriterInv ==
  ASSUME IInv, NEW w \in Writer,
         WantW(w) \/ AcquireW(w) \/ TryW(w) \/ WriterStep(w)
  PROVE  OneHolder' /\ wpc' \in [Writer -> WLabels] /\ Kept'
<1>0. /\ wpc \in [Writer -> WLabels] /\ OneHolder
      /\ Numbers /\ OneSignal /\ CountsFit
  BY Fits DEF IInv, TypeOK, WLabels, Numbers
<1>f. /\ nInside \in Nat /\ nKnown \in Nat /\ nLeaving \in Nat /\ nSignalling \in Nat
      /\ nKnown < MaxReaders /\ MaxReaders \in Nat
  BY Finite
<1> DEFINE Goal == OneHolder' /\ wpc' \in [Writer -> WLabels] /\ Kept'
<1> USE DEF Kept, Numbers, OneSignal, CountsFit, Sign
<1>1. CASE WantW(w)
  <2>1. /\ wpc[w] = "idle" /\ WGoes(w, "want")
        /\ UNCHANGED <<readers, readerWait, rsema, wsema, rpc, r, left>>
    BY <1>1 DEF WantW
  <2>2. UNCHANGED <<nInside, nKnown, nLeaving, nSignalling>>
    BY <2>1, ReadersStay
  <2>3. /\ OneHolder' /\ wpc' \in [Writer -> WLabels]
        /\ Stage("drain")' <=> Stage("drain")
        /\ Stage("wait")' <=> Stage("wait")
        /\ Stage("cs")' <=> Stage("cs")
        /\ Stage("release")' <=> Stage("release")
    BY <1>0, <2>1, WritersStay
  <2> QED  BY <1>0, <2>1, <2>2, <2>3
<1>2. CASE AcquireW(w) \/ TryW(w)
  <2>1. PICK l \in {"register", "try"} :
          /\ wpc[w] \in {"idle", "want"} /\ WFree /\ WGoes(w, l)
          /\ UNCHANGED <<readers, readerWait, rsema, wsema, rpc, r, left>>
    BY <1>2 DEF AcquireW, TryW
  <2>2. UNCHANGED <<nInside, nKnown, nLeaving, nSignalling>>
    BY <2>1, ReadersStay
  <2>3. /\ OneHolder' /\ wpc' \in [Writer -> WLabels]
        /\ ~Stage("drain")' /\ ~Stage("wait")' /\ ~Stage("cs")'
        /\ ~Stage("drain") /\ ~Stage("wait") /\ ~Stage("cs") /\ ~Stage("release")
    BY <1>0, <2>1, WriterMoves DEF WLabels
  <2> QED  BY <1>0, <2>1, <2>2, <2>3
<1>3. CASE Register(w) /\ readers = 0
  <2>1. /\ wpc[w] = "register" /\ WGoes(w, "cs")
        /\ readers' = readers - MaxReaders /\ r' = readers
        /\ UNCHANGED <<readerWait, rsema, wsema, rpc, left>>
    BY <1>3 DEF Register
  <2>2. UNCHANGED <<nInside, nKnown, nLeaving, nSignalling>>
    BY <2>1, ReadersStay
  <2>3. /\ OneHolder' /\ wpc' \in [Writer -> WLabels]
        /\ ~Stage("drain")' /\ ~Stage("wait")' /\ Stage("cs")'
        /\ ~Stage("drain") /\ ~Stage("wait") /\ ~Stage("cs") /\ ~Stage("release")
    BY <1>0, <2>1, WriterMoves DEF WLabels, HoldsW
  <2> QED  BY <1>0, <1>3, <1>f, <2>1, <2>2, <2>3
<1>4. CASE Register(w) /\ readers # 0
  <2>1. /\ wpc[w] = "register" /\ WGoes(w, "drain")
        /\ readers' = readers - MaxReaders /\ r' = readers
        /\ UNCHANGED <<readerWait, rsema, wsema, rpc, left>>
    BY <1>4 DEF Register
  <2>2. UNCHANGED <<nInside, nKnown, nLeaving, nSignalling>>
    BY <2>1, ReadersStay
  <2>3. /\ OneHolder' /\ wpc' \in [Writer -> WLabels]
        /\ Stage("drain")' /\ ~Stage("wait")' /\ ~Stage("cs")'
        /\ ~Stage("drain") /\ ~Stage("wait") /\ ~Stage("cs") /\ ~Stage("release")
    BY <1>0, <2>1, WriterMoves DEF WLabels, HoldsW
  <2> QED  BY <1>0, <1>4, <1>f, <2>1, <2>2, <2>3
<1>5. CASE Drain(w) /\ readerWait' = 0
  <2>1. /\ wpc[w] = "drain" /\ WGoes(w, "cs")
        /\ readerWait' = readerWait + r /\ r' = 0
        /\ UNCHANGED <<readers, rsema, wsema, rpc, left>>
    BY <1>5 DEF Drain
  <2>2. UNCHANGED <<nInside, nKnown, nLeaving, nSignalling>>
    BY <2>1, ReadersStay
  <2>3. /\ OneHolder' /\ wpc' \in [Writer -> WLabels]
        /\ ~Stage("drain")' /\ ~Stage("wait")' /\ Stage("cs")'
        /\ Stage("drain") /\ ~Stage("wait") /\ ~Stage("cs") /\ ~Stage("release")
    BY <1>0, <2>1, WriterMoves DEF WLabels, HoldsW
  <2> QED  BY <1>0, <1>5, <1>f, <2>1, <2>2, <2>3
<1>6. CASE Drain(w) /\ readerWait' # 0
  <2>1. /\ wpc[w] = "drain" /\ WGoes(w, "wait")
        /\ readerWait' = readerWait + r /\ r' = 0
        /\ UNCHANGED <<readers, rsema, wsema, rpc, left>>
    BY <1>6 DEF Drain
  <2>2. UNCHANGED <<nInside, nKnown, nLeaving, nSignalling>>
    BY <2>1, ReadersStay
  <2>3. /\ OneHolder' /\ wpc' \in [Writer -> WLabels]
        /\ ~Stage("drain")' /\ Stage("wait")' /\ ~Stage("cs")'
        /\ Stage("drain") /\ ~Stage("wait") /\ ~Stage("cs") /\ ~Stage("release")
    BY <1>0, <2>1, WriterMoves DEF WLabels, HoldsW
  <2> QED  BY <1>0, <1>6, <1>f, <2>1, <2>2, <2>3
<1>7. CASE Drained(w)
  <2>1. /\ wpc[w] = "wait" /\ WGoes(w, "cs")
        /\ wsema > 0 /\ wsema' = wsema - 1
        /\ UNCHANGED <<readers, readerWait, rsema, rpc, r, left>>
    BY <1>7 DEF Drained
  <2>2. UNCHANGED <<nInside, nKnown, nLeaving, nSignalling>>
    BY <2>1, ReadersStay
  <2>3. /\ OneHolder' /\ wpc' \in [Writer -> WLabels]
        /\ ~Stage("drain")' /\ ~Stage("wait")' /\ Stage("cs")'
        /\ ~Stage("drain") /\ Stage("wait") /\ ~Stage("cs") /\ ~Stage("release")
    BY <1>0, <2>1, WriterMoves DEF WLabels, HoldsW
  <2>4. readerWait = 0 /\ wsema = 1 /\ nSignalling = 0
    BY <1>0, <1>f, <2>1, <2>3
  <2> QED  BY <1>0, <1>f, <2>1, <2>2, <2>3, <2>4
<1>8. CASE TryRegister(w) /\ readers = 0
  <2>1. /\ wpc[w] = "try" /\ WGoes(w, "cs")
        /\ readers' = 0 - MaxReaders
        /\ UNCHANGED <<readerWait, rsema, wsema, rpc, r, left>>
    BY <1>8, <1>f DEF TryRegister
  <2>2. UNCHANGED <<nInside, nKnown, nLeaving, nSignalling>>
    BY <2>1, ReadersStay
  <2>3. /\ OneHolder' /\ wpc' \in [Writer -> WLabels]
        /\ ~Stage("drain")' /\ ~Stage("wait")' /\ Stage("cs")'
        /\ ~Stage("drain") /\ ~Stage("wait") /\ ~Stage("cs") /\ ~Stage("release")
    BY <1>0, <2>1, WriterMoves DEF WLabels, HoldsW
  <2> QED  BY <1>0, <1>8, <1>f, <2>1, <2>2, <2>3
<1>9. CASE TryRegister(w) /\ readers # 0
  <2>1. /\ wpc[w] = "try" /\ WGoes(w, "idle")
        /\ UNCHANGED <<readers, readerWait, rsema, wsema, rpc, r, left>>
    BY <1>9 DEF TryRegister
  <2>2. UNCHANGED <<nInside, nKnown, nLeaving, nSignalling>>
    BY <2>1, ReadersStay
  <2>3. /\ OneHolder' /\ wpc' \in [Writer -> WLabels]
        /\ ~Stage("drain")' /\ ~Stage("wait")' /\ ~Stage("cs")'
        /\ ~Stage("drain") /\ ~Stage("wait") /\ ~Stage("cs") /\ ~Stage("release")
    BY <1>0, <2>1, WriterMoves DEF WLabels, HoldsW
  <2> QED  BY <1>0, <2>1, <2>2, <2>3
<1>10. CASE Unlock(w)
  <2>1. /\ wpc[w] = "cs" /\ WGoes(w, "release")
        /\ readers' = readers + MaxReaders /\ left' = readers'
        /\ UNCHANGED <<readerWait, rsema, wsema, rpc, r>>
    BY <1>10 DEF Unlock
  <2>2. UNCHANGED <<nInside, nKnown, nLeaving, nSignalling>>
    BY <2>1, ReadersStay
  <2>3. /\ OneHolder' /\ wpc' \in [Writer -> WLabels]
        /\ ~Stage("drain")' /\ ~Stage("wait")' /\ ~Stage("cs")' /\ Stage("release")'
        /\ ~Stage("drain") /\ ~Stage("wait") /\ Stage("cs") /\ ~Stage("release")
    BY <1>0, <2>1, WriterMoves DEF WLabels, HoldsW
  <2>4. nInside = 0 /\ rsema = 0 /\ left = 0 /\ nLeaving = 0
    BY <1>0, <1>f, <2>3
  <2> QED  BY <1>0, <1>f, <2>1, <2>2, <2>3, <2>4
<1>11. CASE ReleaseReader(w)
  <2>1. /\ wpc[w] = "release" /\ UNCHANGED wpc
        /\ left > 0 /\ left' = left - 1 /\ rsema' = rsema + 1
        /\ UNCHANGED <<readers, readerWait, wsema, rpc, r>>
    BY <1>11 DEF ReleaseReader
  <2>2. UNCHANGED <<nInside, nKnown, nLeaving, nSignalling>>
    BY <2>1, ReadersStay
  <2>3. /\ OneHolder' /\ wpc' \in [Writer -> WLabels]
        /\ Stage("drain")' <=> Stage("drain")
        /\ Stage("wait")' <=> Stage("wait")
        /\ Stage("cs")' <=> Stage("cs")
        /\ Stage("release")' <=> Stage("release")
    BY <1>0, <2>1, WritersStay
  <2> QED  BY <1>0, <1>f, <2>1, <2>2, <2>3
<1>12. CASE UnlockW(w)
  <2>1. /\ wpc[w] = "release" /\ WGoes(w, "idle") /\ left = 0
        /\ UNCHANGED <<readers, readerWait, rsema, wsema, rpc, r, left>>
    BY <1>12 DEF UnlockW
  <2>2. UNCHANGED <<nInside, nKnown, nLeaving, nSignalling>>
    BY <2>1, ReadersStay
  <2>3. /\ OneHolder' /\ wpc' \in [Writer -> WLabels]
        /\ ~Stage("drain")' /\ ~Stage("wait")' /\ ~Stage("cs")'
        /\ ~Stage("drain") /\ ~Stage("wait") /\ ~Stage("cs") /\ Stage("release")
    BY <1>0, <2>1, WriterMoves DEF WLabels, HoldsW
  <2> QED  BY <1>0, <2>1, <2>2, <2>3
<1> HIDE DEF Goal, Kept
<1>13. Goal
  BY <1>1, <1>2, <1>3, <1>4, <1>5, <1>6, <1>7, <1>8, <1>9, <1>10, <1>11, <1>12
  DEF WriterStep, Goal
<1> QED  BY <1>13 DEF Goal

----------------------------------------------------------------------------
(* The steps of a reader *)

\* lock_shared and unlock_shared keep the counters right at every atomic
\* operation, whichever permit a reader takes.
LEMMA ReaderInv ==
  ASSUME IInv, NEW d \in Reader,
         ReadFast(d) \/ ReadQueue(d) \/ ReadWake(d) \/ ReaderStep(d)
  PROVE  OneHolder' /\ wpc' \in [Writer -> WLabels] /\ Kept'
<1>0. /\ wpc \in [Writer -> WLabels] /\ rpc \in [Reader -> RLabels] /\ OneHolder
      /\ Numbers /\ OneSignal /\ CountsFit
  BY Fits DEF IInv, TypeOK, WLabels, RLabels, Numbers
<1>f. /\ nInside \in Nat /\ nKnown \in Nat /\ nLeaving \in Nat /\ nSignalling \in Nat
      /\ nKnown < MaxReaders /\ MaxReaders \in Nat
  BY Finite
<1>s. /\ Stage("wait") => ~Stage("drain") /\ ~Stage("cs")
      /\ Stage("drain") => ~Stage("cs")
  BY <1>0 DEF Stage, OneHolder, HoldsW
<1> DEFINE Goal == OneHolder' /\ wpc' \in [Writer -> WLabels] /\ Kept'
<1> USE DEF Kept, Numbers, OneSignal, CountsFit, Sign
<1>1. CASE ReadFast(d)
  <2>1. /\ rpc[d] = "idle" /\ RGoes(d, "cs") /\ UNCHANGED wpc
        /\ readers >= 0
        /\ readers' = readers + 1
        /\ UNCHANGED <<readerWait, rsema, wsema, r, left>>
    BY <1>1 DEF ReadFast
  <2>2. /\ nInside' = nInside + 1
        /\ nKnown' = nKnown + 1
        /\ nLeaving' = nLeaving
        /\ nSignalling' = nSignalling
    BY <1>0, <1>f, <2>1, Counts DEF Is, RLabels
  <2>3. /\ OneHolder' /\ wpc' \in [Writer -> WLabels]
        /\ Stage("drain")' <=> Stage("drain")
        /\ Stage("wait")' <=> Stage("wait")
        /\ Stage("cs")' <=> Stage("cs")
        /\ Stage("release")' <=> Stage("release")
    BY <1>0, <2>1, WritersStay
  <2>4. ~Sign
    BY <1>0, <1>f, <2>1
  <2> QED  BY <1>0, <1>f, <2>1, <2>2, <2>3, <2>4
<1>2. CASE ReadQueue(d)
  <2>1. /\ rpc[d] = "idle" /\ RGoes(d, "wait") /\ UNCHANGED wpc
        /\ readers < 0
        /\ readers' = readers + 1
        /\ UNCHANGED <<readerWait, rsema, wsema, r, left>>
    BY <1>2 DEF ReadQueue
  <2>2. /\ nInside' = nInside
        /\ nKnown' = nKnown + 1
        /\ nLeaving' = nLeaving
        /\ nSignalling' = nSignalling
    BY <1>0, <1>f, <2>1, Counts DEF Is, RLabels
  <2>3. /\ OneHolder' /\ wpc' \in [Writer -> WLabels]
        /\ Stage("drain")' <=> Stage("drain")
        /\ Stage("wait")' <=> Stage("wait")
        /\ Stage("cs")' <=> Stage("cs")
        /\ Stage("release")' <=> Stage("release")
    BY <1>0, <2>1, WritersStay
  <2>4. Sign
    BY <1>0, <1>f, <2>1
  <2> QED  BY <1>0, <1>f, <2>1, <2>2, <2>3, <2>4
<1>3. CASE ReadWake(d)
  <2>1. /\ rpc[d] = "wait" /\ RGoes(d, "cs") /\ UNCHANGED wpc
        /\ rsema > 0
        /\ rsema' = rsema - 1
        /\ UNCHANGED <<readers, readerWait, wsema, r, left>>
    BY <1>3 DEF ReadWake
  <2>2. /\ nInside' = nInside + 1
        /\ nKnown' = nKnown
        /\ nLeaving' = nLeaving
        /\ nSignalling' = nSignalling
    BY <1>0, <1>f, <2>1, Counts DEF Is, RLabels
  <2>3. /\ OneHolder' /\ wpc' \in [Writer -> WLabels]
        /\ Stage("drain")' <=> Stage("drain")
        /\ Stage("wait")' <=> Stage("wait")
        /\ Stage("cs")' <=> Stage("cs")
        /\ Stage("release")' <=> Stage("release")
    BY <1>0, <2>1, WritersStay
  <2> QED  BY <1>0, <1>f, <2>1, <2>2, <2>3
<1>4. CASE ReadUnlock(d) /\ readers > 0
  <2>1. /\ rpc[d] = "cs" /\ RGoes(d, "idle") /\ UNCHANGED wpc
        /\ readers > 0
        /\ readers' = readers - 1
        /\ UNCHANGED <<readerWait, rsema, wsema, r, left>>
    BY <1>4 DEF ReadUnlock
  <2>2. /\ nInside' = nInside - 1
        /\ nKnown' = nKnown - 1
        /\ nLeaving' = nLeaving
        /\ nSignalling' = nSignalling
        /\ nInside > 0 /\ nKnown > 0
    BY <1>0, <1>f, <2>1, Counts DEF Is, RLabels
  <2>3. /\ OneHolder' /\ wpc' \in [Writer -> WLabels]
        /\ Stage("drain")' <=> Stage("drain")
        /\ Stage("wait")' <=> Stage("wait")
        /\ Stage("cs")' <=> Stage("cs")
        /\ Stage("release")' <=> Stage("release")
    BY <1>0, <2>1, WritersStay
  <2>4. ~Sign
    BY <1>0, <1>f, <2>1
  <2> QED  BY <1>0, <1>f, <2>1, <2>2, <2>3, <2>4
<1>5. CASE ReadUnlock(d) /\ ~(readers > 0)
  <2>1. /\ rpc[d] = "cs" /\ RGoes(d, "countdown") /\ UNCHANGED wpc
        /\ readers # 0 /\ ~(readers > 0)
        /\ readers' = readers - 1
        /\ UNCHANGED <<readerWait, rsema, wsema, r, left>>
    BY <1>5 DEF ReadUnlock, ReadUnlockUnlocked
  <2>2. /\ nInside' = nInside - 1
        /\ nKnown' = nKnown - 1
        /\ nLeaving' = nLeaving + 1
        /\ nSignalling' = nSignalling
        /\ nInside > 0 /\ nKnown > 0
    BY <1>0, <1>f, <2>1, Counts DEF Is, RLabels
  <2>3. /\ OneHolder' /\ wpc' \in [Writer -> WLabels]
        /\ Stage("drain")' <=> Stage("drain")
        /\ Stage("wait")' <=> Stage("wait")
        /\ Stage("cs")' <=> Stage("cs")
        /\ Stage("release")' <=> Stage("release")
    BY <1>0, <2>1, WritersStay
  <2>4. Sign
    BY <1>0, <1>f, <2>1, <2>2
  <2> QED  BY <1>0, <1>f, <2>1, <2>2, <2>3, <2>4
<1>6. CASE CountDown(d) /\ readerWait = 1
  <2>1. /\ rpc[d] = "countdown" /\ RGoes(d, "signal") /\ UNCHANGED wpc
        /\ readerWait = 1
        /\ readerWait' = readerWait - 1
        /\ UNCHANGED <<readers, rsema, wsema, r, left>>
    BY <1>6 DEF CountDown
  <2>2. /\ nInside' = nInside
        /\ nKnown' = nKnown
        /\ nLeaving' = nLeaving - 1
        /\ nSignalling' = nSignalling + 1
        /\ nLeaving > 0
    BY <1>0, <1>f, <2>1, Counts DEF Is, RLabels
  <2>3. /\ OneHolder' /\ wpc' \in [Writer -> WLabels]
        /\ Stage("drain")' <=> Stage("drain")
        /\ Stage("wait")' <=> Stage("wait")
        /\ Stage("cs")' <=> Stage("cs")
        /\ Stage("release")' <=> Stage("release")
    BY <1>0, <2>1, WritersStay
  <2>4. Stage("wait") /\ ~Stage("drain") /\ ~Stage("cs") /\ wsema = 0 /\ nSignalling = 0
    BY <1>0, <1>f, <1>s, <2>1, <2>2
  <2> QED  BY <1>0, <1>f, <2>1, <2>2, <2>3, <2>4
<1>7. CASE CountDown(d) /\ readerWait # 1
  <2>1. /\ rpc[d] = "countdown" /\ RGoes(d, "idle") /\ UNCHANGED wpc
        /\ readerWait # 1
        /\ readerWait' = readerWait - 1
        /\ UNCHANGED <<readers, rsema, wsema, r, left>>
    BY <1>7 DEF CountDown
  <2>2. /\ nInside' = nInside
        /\ nKnown' = nKnown
        /\ nLeaving' = nLeaving - 1
        /\ nSignalling' = nSignalling
        /\ nLeaving > 0
    BY <1>0, <1>f, <2>1, Counts DEF Is, RLabels
  <2>3. /\ OneHolder' /\ wpc' \in [Writer -> WLabels]
        /\ Stage("drain")' <=> Stage("drain")
        /\ Stage("wait")' <=> Stage("wait")
        /\ Stage("cs")' <=> Stage("cs")
        /\ Stage("release")' <=> Stage("release")
    BY <1>0, <2>1, WritersStay
  <2>4. Stage("drain") \/ Stage("wait")
    BY <1>0, <1>f, <2>1, <2>2
  <2>5. CASE Stage("drain")
    <3>1. ~Stage("wait") /\ ~Stage("cs") /\ readerWait' <= 0
      BY <1>0, <1>s, <2>1, <2>5
    <3> QED  BY <1>0, <1>f, <2>1, <2>2, <2>3, <2>5, <3>1
  <2>6. CASE Stage("wait")
    <3>1. /\ ~Stage("drain") /\ ~Stage("cs")
          /\ readerWait = nInside + rsema + left + nLeaving
      BY <1>0, <1>s, <2>6
    <3>2. readerWait' # 0 /\ wsema = 0 /\ nSignalling = 0
      BY <1>0, <1>f, <2>1, <2>2, <2>6, <3>1
    <3> QED  BY <1>0, <1>f, <2>1, <2>2, <2>3, <2>6, <3>1, <3>2
  <2> QED  BY <2>4, <2>5, <2>6
<1>8. CASE SignalWriter(d)
  <2>1. /\ rpc[d] = "signal" /\ RGoes(d, "idle") /\ UNCHANGED wpc
        /\ wsema' = wsema + 1
        /\ UNCHANGED <<readers, readerWait, rsema, r, left>>
    BY <1>8 DEF SignalWriter
  <2>2. /\ nInside' = nInside
        /\ nKnown' = nKnown
        /\ nLeaving' = nLeaving
        /\ nSignalling' = nSignalling - 1
        /\ nSignalling > 0
    BY <1>0, <1>f, <2>1, Counts DEF Is, RLabels
  <2>3. /\ OneHolder' /\ wpc' \in [Writer -> WLabels]
        /\ Stage("drain")' <=> Stage("drain")
        /\ Stage("wait")' <=> Stage("wait")
        /\ Stage("cs")' <=> Stage("cs")
        /\ Stage("release")' <=> Stage("release")
    BY <1>0, <2>1, WritersStay
  <2>4. Stage("wait") /\ wsema = 0 /\ nSignalling = 1
    BY <1>0, <1>f, <2>1, <2>2
  <2> QED  BY <1>0, <1>f, <2>1, <2>2, <2>3, <2>4
<1> HIDE DEF Goal, Kept
<1>9. Goal
  BY <1>1, <1>2, <1>3, <1>4, <1>5, <1>6, <1>7, <1>8 DEF ReaderStep, Goal
<1> QED  BY <1>9 DEF Goal

----------------------------------------------------------------------------
(* The invariant *)

\* Where the readers are, and behind whom, stays well defined: a reader that
\* finds readers_ negative finds a registered writer.
LEMMA ReadersTyped ==
  ASSUME IInv, Next
  PROVE  rpc' \in [Reader -> RLabels] /\ behind' \in [Reader -> Writer \cup {None}]
<1>0. /\ rpc \in [Reader -> RLabels] /\ behind \in [Reader -> Writer \cup {None}]
      /\ readers \in Int /\ CountsFit
  BY Fits DEF IInv, TypeOK, RLabels
<1>1. ASSUME NEW w \in Writer, WantW(w) \/ AcquireW(w) \/ TryW(w) \/ WriterStep(w)
      PROVE  UNCHANGED rpc /\ behind' \in [Reader -> Writer \cup {None}]
  BY <1>0, <1>1 DEF WantW, AcquireW, TryW, WriterStep, Register, Drain, Drained,
     TryRegister, Unlock, ReleaseReader, UnlockW
<1>2. ASSUME NEW d \in Reader, ReadFast(d) \/ ReadWake(d) \/ ReaderStep(d)
      PROVE  rpc' \in [Reader -> RLabels] /\ behind' \in [Reader -> Writer \cup {None}]
  BY <1>0, <1>2 DEF ReadFast, ReadWake, ReaderStep, ReadUnlock, CountDown, SignalWriter,
     RGoes, RLabels
<1>3. ASSUME NEW d \in Reader, ReadQueue(d)
      PROVE  rpc' \in [Reader -> RLabels] /\ behind' \in [Reader -> Writer \cup {None}]
  <2>1. Sign
    BY <1>0, <1>3, Finite DEF ReadQueue, CountsFit
  <2>2. \E w \in Writer : Registered(w)
    BY <2>1 DEF Sign, Stage, Registered
  <2>3. (CHOOSE w \in Writer : Registered(w)) \in Writer
    BY <2>2
  <2> QED  BY <1>0, <1>3, <2>3 DEF ReadQueue, RGoes, RLabels
<1> QED  BY <1>0, <1>1, <1>2, <1>3 DEF Next

\* Fits, of the next state.
LEMMA FitsNext == DrainCounts' <=> CountsFit'
BY Fits, PTL

\* Every step, of a writer, of a reader or of neither, keeps the invariant.
LEMMA InvStep == IInv /\ [Next]_vars => IInv'
<1>1. ASSUME IInv, Next PROVE IInv'
  <2>1. OneHolder' /\ wpc' \in [Writer -> WLabels] /\ Kept'
    BY <1>1, WriterInv, ReaderInv DEF Next
  <2>2. rpc' \in [Reader -> RLabels] /\ behind' \in [Reader -> Writer \cup {None}]
    BY <1>1, ReadersTyped
  <2>3. TypeOK'
    BY <2>1, <2>2 DEF Kept, Numbers, TypeOK, WLabels, RLabels
  <2> QED  BY <2>1, <2>3, FitsNext DEF IInv, Kept
<1>2. ASSUME IInv, UNCHANGED vars PROVE IInv'
  <2>1. TypeOK' /\ OneHolder'
    BY <1>2 DEF IInv, vars, TypeOK, OneHolder, HoldsW
  <2>2. UNCHANGED <<nInside, nKnown, nLeaving, nSignalling>>
    BY <1>2, ReadersStay DEF vars
  <2>3. OneSignal'
    BY <1>2, <2>2 DEF IInv, vars, OneSignal, Stage
  <2>4. CountsFit'
    BY <1>2, <2>2, Fits DEF IInv, vars, CountsFit, Sign, Stage
  <2> QED  BY <2>1, <2>3, <2>4, FitsNext DEF IInv
<1> QED  BY <1>1, <1>2

\* The inductive invariant holds in every reachable state of the lock.
THEOREM Invariance == Spec => []IInv
BY InvInit, InvStep, PTL DEF Spec

\* Every variable of the lock keeps its type; writer_sema_ has one permit at most.
THEOREM TypeCorrect == Spec => []TypeOK
<1>1. IInv => TypeOK
  BY DEF IInv
<1> QED  BY <1>1, Invariance, PTL

\* readers_ and reader_wait_ agree with who is inside, permitted or leaving,
\* at every atomic operation of lock, unlock, lock_shared and unlock_shared.
THEOREM CountsExact == Spec => []DrainCounts
<1>1. IInv => DrainCounts
  BY DEF IInv
<1> QED  BY <1>1, Invariance, PTL

\* A writer between lock() and unlock() is alone in the critical section.
THEOREM WriterAlone == Spec => []RwExclusion
<1>1. IInv => RwExclusion
  <2> SUFFICES ASSUME IInv, NEW w \in Writer, wpc[w] = "cs"
               PROVE  Inside = {} /\ \A v \in Writer : wpc[v] = "cs" => v = w
    BY DEF RwExclusion
  <2>1. \A v \in Writer : wpc[v] = "cs" => v = w
    BY DEF IInv, OneHolder, HoldsW
  <2>2. Stage("cs") /\ ~Stage("drain")
    BY DEF IInv, OneHolder, HoldsW, Stage
  <2>3. nInside = 0
    BY <2>2, Fits, Finite DEF IInv, TypeOK, OneSignal, CountsFit, Sign
  <2>4. Inside = {}
    BY <2>3, Finite, FS_EmptySet DEF nInside
  <2> QED  BY <2>1, <2>4
<1> QED  BY <1>1, Invariance, PTL

\* Holders that unlock never meet the SYSFTL of unlock() and unlock_shared().
THEOREM FatalUnreachable == Spec => []NeverFatal
<1>1. IInv => NeverFatal
  <2> SUFFICES ASSUME IInv PROVE NeverFatal
    OBVIOUS
  <2>0. CountsFit /\ readers \in Int
    BY Fits DEF IInv, TypeOK
  <2>1. ASSUME NEW w \in Writer PROVE ~UnlockUnlocked(w)
    BY <2>0, Finite DEF UnlockUnlocked, CountsFit, Sign, Stage
  <2>2. ASSUME NEW d \in Reader, rpc[d] = "cs" PROVE readers # 0
    <3>1. Known # {}
      BY <2>2 DEF Known, Inside
    <3>2. nKnown # 0
      BY <3>1, Finite, FS_EmptySet DEF nKnown
    <3> QED  BY <2>0, <3>2, Finite DEF CountsFit
  <2> QED  BY <2>1, <2>2 DEF NeverFatal, ReadUnlockUnlocked
<1> QED  BY <1>1, Invariance, PTL

-----------------------------------------------------------------------------
(* umutex *)


coreVars == <<part, vars, muVars, chanVars, batchVars>>

MuAt(l) == {c \in Co : pc[c] = l}
N(l) == Cardinality(MuAt(l))
Awake == {c \in Co : loc[c].awoke}
Bit(b) == IF b THEN 1 ELSE 0

\* Every waiter of the semaphore is in iState or has been released, and the
\* woken bit is one coroutine on its way back: a permit not yet signalled, not
\* yet taken, taken, or a coroutine that competes again.
NormalMode ==
  /\ N("grab") = 0
  /\ N("sema") = st.waiters + sema + N("signal")
  /\ sema + N("signal") + N("woke") + Cardinality(Awake) = Bit(st.woken)

\* Nobody competes, a waiter is counted until it has the mutex, and a free
\* mutex is on its way to exactly one of them.
StarvingMode ==
  /\ ~st.woken
  /\ Cardinality(Awake) = 0
  /\ N("sema") + N("woke") + N("grab") = st.waiters
  /\ sema + N("signal") + N("woke") + N("grab") = Bit(~st.locked)

\* What a local may say at which point of lock() and unlock().
LocalsFit(c) ==
  /\ loc[c].awoke => pc[c] \in {"load", "loop"}
  /\ loc[c].starving => pc[c] \in {"sema", "woke", "grab"} \/ loc[c].awoke
  /\ pc[c] = "loop" /\ loc[c].awoke => loc[c].old.woken

\* What iState stands for.
Modes == /\ N("cs") = Bit(st.locked)
         /\ ~st.starving => NormalMode
         /\ st.starving => StarvingMode

MuInv == Mu!TypeOK /\ Modes /\ \A c \in Co : LocalsFit(c)

LEMMA MuFinite ==
  /\ \A l : IsFiniteSet(MuAt(l)) /\ N(l) \in Nat
  /\ IsFiniteSet(Awake) /\ Cardinality(Awake) \in Nat
<1>1. \A l : MuAt(l) \subseteq Co
  BY DEF MuAt
<1>2. \A l : IsFiniteSet(MuAt(l))
  BY <1>1, CoreFinite, FS_Subset
<1>3. IsFiniteSet(Awake)
  BY CoreFinite, FS_Subset DEF Awake
<1> QED  BY <1>2, <1>3, FS_CardinalityType DEF N

\* One coroutine moves, the others stay.
LEMMA MuMoves ==
  ASSUME NEW c \in Co, \A d \in Co : d # c => pc'[d] = pc[d]
  PROVE  \A l : /\ N(l)' = N(l) + Is(pc'[c], l) - Is(pc[c], l)
                /\ N(l) >= Is(pc[c], l)
<1> TAKE l
<1>1. MuAt(l)' \ {c} = MuAt(l) \ {c}
  BY DEF MuAt
<1>2. /\ Cardinality(MuAt(l)') = Cardinality(MuAt(l)) + Mem(c, MuAt(l)') - Mem(c, MuAt(l))
      /\ Cardinality(MuAt(l)) >= Mem(c, MuAt(l))
  BY <1>1, MuFinite, OneMoves
<1>3. Mem(c, MuAt(l)') = Is(pc'[c], l) /\ Mem(c, MuAt(l)) = Is(pc[c], l)
  BY DEF Mem, Is, MuAt
<1> QED  BY <1>2, <1>3 DEF N

\* One coroutine changes its locals, the others do not.
LEMMA AwakeMoves ==
  ASSUME NEW c \in Co, \A d \in Co : d # c => loc'[d] = loc[d]
  PROVE  /\ Cardinality(Awake') = Cardinality(Awake) + Bit(loc'[c].awoke) - Bit(loc[c].awoke)
         /\ Cardinality(Awake) >= Bit(loc[c].awoke)
<1>1. Awake' \ {c} = Awake \ {c}
  BY DEF Awake
<1>2. /\ Cardinality(Awake') = Cardinality(Awake) + Mem(c, Awake') - Mem(c, Awake)
      /\ Cardinality(Awake) >= Mem(c, Awake)
  BY <1>1, MuFinite, OneMoves
<1>3. Mem(c, Awake') = Bit(loc'[c].awoke) /\ Mem(c, Awake) = Bit(loc[c].awoke)
  BY DEF Mem, Bit, Awake
<1> QED  BY <1>2, <1>3

\* The coroutines at one of two places.
LEMMA TwoPlaces ==
  ASSUME NEW k, NEW l, k # l
  PROVE  Cardinality({c \in Co : pc[c] \in {k, l}}) = N(k) + N(l)
<1>1. /\ {c \in Co : pc[c] \in {k, l}} = MuAt(k) \cup MuAt(l)
      /\ MuAt(k) \cap MuAt(l) = {}
  BY DEF MuAt
<1>2. Cardinality(MuAt(k) \cup MuAt(l))
        = Cardinality(MuAt(k)) + Cardinality(MuAt(l)) - Cardinality(MuAt(k) \cap MuAt(l))
  BY MuFinite, FS_Union
<1>3. Cardinality(MuAt(k) \cap MuAt(l)) = 0
  BY <1>1, FS_EmptySet
<1>4. Cardinality(MuAt(k)) \in Nat /\ Cardinality(MuAt(l)) \in Nat
  BY MuFinite DEF N
<1>5. Cardinality(MuAt(k) \cup MuAt(l)) = Cardinality(MuAt(k)) + Cardinality(MuAt(l))
  BY <1>2, <1>3, <1>4
<1> QED  BY <1>1, <1>5 DEF N

\* The instance counts as this module does.
LEMMA MuCardinality == \A S : Mu!Cardinality(S) = Cardinality(S)
BY DEF Mu!Cardinality, Cardinality

LEMMA MuTyped ==
  ASSUME Mu!TypeOK, NEW c \in Co
  PROVE  /\ st.locked \in BOOLEAN /\ st.woken \in BOOLEAN /\ st.starving \in BOOLEAN
         /\ st.waiters \in Nat /\ sema \in Nat /\ pc[c] \in Mu!Labels
         /\ loc[c].old \in Mu!State /\ loc[c].starving \in BOOLEAN /\ loc[c].awoke \in BOOLEAN
         /\ loc[c].iter \in Nat
BY DEF Mu!TypeOK, Mu!State, Mu!Locals

LEMMA MuInvSafe == MuInv => UmutexSafe
<1> SUFFICES ASSUME MuInv PROVE UmutexSafe
  OBVIOUS
<1> USE DEF MuInv, Modes
<1>1. Mu!Exclusion
  <2> SUFFICES ASSUME NEW c \in Co, NEW d \in Co, pc[c] = "cs", pc[d] = "cs", c # d PROVE FALSE
    BY DEF Mu!Exclusion
  <2>1. c \in MuAt("cs") /\ d \in MuAt("cs") \ {c}
    BY DEF MuAt
  <2>2. /\ IsFiniteSet(MuAt("cs")) /\ IsFiniteSet(MuAt("cs") \ {c})
        /\ Cardinality(MuAt("cs") \ {c}) = N("cs") - 1
    BY <2>1, MuFinite, OneLess, FS_RemoveElement DEF N
  <2>3. Cardinality(MuAt("cs") \ {c}) > 0
    BY <2>1, <2>2, OneLess
  <2>4. N("cs") \in {0, 1}
    BY DEF Bit
  <2> QED  BY <2>2, <2>3, <2>4
<1>2. ASSUME NEW c \in Co PROVE N(pc[c]) # 0
  <2>1. c \in MuAt(pc[c])
    BY DEF MuAt
  <2>2. Cardinality(MuAt(pc[c])) > 0
    BY <2>1, MuFinite, OneLess
  <2> QED  BY <2>2, MuFinite DEF N
<1>3. ASSUME NEW c \in Co, pc[c] = "woke", st.starving
      PROVE  ~st.locked /\ ~st.woken /\ st.waiters # 0
  <2>1. StarvingMode
    BY <1>3
  <2>2. N("woke") # 0 /\ N("woke") \in Nat
    BY <1>2, <1>3, MuFinite
  <2>3. /\ N("sema") \in Nat /\ N("grab") \in Nat /\ N("signal") \in Nat /\ sema \in Nat
    BY MuFinite, MuTyped
  <2>4. st.waiters # 0
    BY <2>1, <2>2, <2>3 DEF StarvingMode
  <2>5. sema + N("signal") + N("woke") + N("grab") # 0
    BY <2>2, <2>3
  <2>6. Bit(~st.locked) # 0
    BY <2>1, <2>5 DEF StarvingMode
  <2> QED  BY <2>1, <2>4, <2>6 DEF StarvingMode, Bit
<1>4. ASSUME NEW c \in Co, pc[c] = "cs" PROVE st.locked
  BY <1>2, <1>4 DEF Bit
<1>5. Mu!NeverFatal
  <2> SUFFICES ASSUME NEW c \in Co
               PROVE  ~Mu!Inconsistent(c) /\ ~Mu!NotHandedOver(c) /\ ~Mu!UnlockUnlocked(c)
    BY DEF Mu!NeverFatal
  <2>1. ~Mu!Inconsistent(c)
    BY DEF Mu!Inconsistent, LocalsFit
  <2>2. ~Mu!NotHandedOver(c)
    BY <1>3 DEF Mu!NotHandedOver
  <2>3. ~Mu!UnlockUnlocked(c)
    BY <1>4 DEF Mu!UnlockUnlocked
  <2> QED  BY <2>1, <2>2, <2>3
<1>6. Mu!HandoverFits
  <2> SUFFICES ASSUME NEW c \in Co, pc[c] = "grab"
               PROVE  ~st.locked /\ st.waiters > 0 /\ st.starving
    BY DEF Mu!HandoverFits
  <2>1. N("grab") # 0 /\ N("grab") \in Nat
    BY <1>2, MuFinite
  <2>2. st.starving /\ StarvingMode
    BY <2>1 DEF NormalMode
  <2>3. /\ N("sema") \in Nat /\ N("woke") \in Nat /\ N("signal") \in Nat /\ sema \in Nat
        /\ st.waiters \in Nat
    BY MuFinite, MuTyped
  <2>4. st.waiters # 0
    BY <2>1, <2>2, <2>3 DEF StarvingMode
  <2>5. sema + N("signal") + N("woke") + N("grab") # 0
    BY <2>1, <2>3
  <2>6. Bit(~st.locked) # 0
    BY <2>2, <2>5 DEF StarvingMode
  <2> QED  BY <2>2, <2>3, <2>4, <2>6 DEF Bit
<1>7. Mu!WaitersCounted
  <2>1. /\ Mu!Cardinality({c \in Co : pc[c] \in {"signal", "woke"}}) = N("signal") + N("woke")
        /\ Mu!Cardinality({c \in Co : pc[c] \in {"woke", "grab"}}) = N("woke") + N("grab")
        /\ Mu!Cardinality(Mu!Waiting) = N("sema")
    <3>1. /\ Cardinality({c \in Co : pc[c] \in {"signal", "woke"}}) = N("signal") + N("woke")
          /\ Cardinality({c \in Co : pc[c] \in {"woke", "grab"}}) = N("woke") + N("grab")
      BY TwoPlaces
    <3>2. Cardinality(Mu!Waiting) = N("sema")
      BY DEF Mu!Waiting, N, MuAt
    <3> QED  BY <3>1, <3>2, MuCardinality
  <2>2. /\ N("signal") \in Nat /\ N("woke") \in Nat /\ N("grab") \in Nat /\ N("sema") \in Nat
        /\ sema \in Nat /\ st.waiters \in Nat
    BY MuFinite DEF Mu!TypeOK, Mu!State
  <2>3. CASE st.starving
    <3>1. N("sema") + N("woke") + N("grab") = st.waiters
      BY <2>3 DEF StarvingMode
    <3>2. N("sema") + (N("woke") + N("grab")) = st.waiters
      BY <2>2, <3>1
    <3> QED  BY <2>1, <2>3, <3>2 DEF Mu!WaitersCounted
  <2>4. CASE ~st.starving
    <3>1. N("grab") = 0 /\ N("sema") = st.waiters + sema + N("signal")
      BY <2>4 DEF NormalMode
    <3>2. N("sema") + (N("woke") + N("grab")) = st.waiters + (sema + (N("signal") + N("woke")))
      BY <2>2, <3>1
    <3> QED  BY <2>1, <2>4, <3>2 DEF Mu!WaitersCounted
  <2> QED  BY <2>3, <2>4
<1> QED  BY <1>1, <1>5, <1>6, <1>7 DEF UmutexSafe

LEMMA FreshTyped ==
  /\ Mu!Zero \in Mu!State /\ Mu!JustLocked \in Mu!State /\ Mu!Fresh \in Mu!Locals
  /\ ~Mu!Zero.locked /\ ~Mu!Zero.woken /\ ~Mu!Zero.starving /\ Mu!Zero.waiters = 0
  /\ Mu!JustLocked.locked /\ ~Mu!JustLocked.woken /\ ~Mu!JustLocked.starving
  /\ Mu!JustLocked.waiters = 0
  /\ ~Mu!Fresh.awoke /\ ~Mu!Fresh.starving
<1>1. PICK f, t : f = FALSE /\ t = TRUE
  OBVIOUS
<1>2. f \in BOOLEAN /\ t \in BOOLEAN
  BY <1>1, Zenon
<1>3. PICK z : z = [locked |-> f, woken |-> f, starving |-> f, waiters |-> 0]
  OBVIOUS
<1>4. z \in Mu!State /\ z.locked = f /\ z.woken = f /\ z.starving = f /\ z.waiters = 0
  BY <1>2, <1>3 DEF Mu!State
<1>5. Mu!Zero = z
  BY <1>1, <1>3 DEF Mu!Zero
<1>6. PICK y : y = [z EXCEPT !.locked = t]
  OBVIOUS
<1>7. y \in Mu!State /\ y.locked = t /\ y.woken = f /\ y.starving = f /\ y.waiters = 0
  BY <1>2, <1>3, <1>6 DEF Mu!State
<1>8. Mu!JustLocked = y
  BY <1>1, <1>5, <1>6 DEF Mu!JustLocked
<1>9. PICK x : x = [old |-> z, starving |-> f, awoke |-> f, iter |-> 0]
  OBVIOUS
<1>10. x \in Mu!Locals /\ x.starving = f /\ x.awoke = f
  BY <1>2, <1>4, <1>9 DEF Mu!Locals
<1>11. Mu!Fresh = x
  BY <1>1, <1>5, <1>9 DEF Mu!Fresh
<1> QED  BY <1>1, <1>4, <1>5, <1>7, <1>8, <1>10, <1>11

LEMMA MuInitially == Mu!Init => MuInv
<1> SUFFICES ASSUME Mu!Init PROVE MuInv
  OBVIOUS
<1> USE DEF Mu!Init
<1>1. Mu!TypeOK
  BY FreshTyped DEF Mu!TypeOK, Mu!Labels
<1>2. \A c \in Co : pc[c] = "idle" /\ ~loc[c].awoke /\ ~loc[c].starving
  BY FreshTyped
<1>3. \A l : l # "idle" => N(l) = 0
  BY <1>2, FS_EmptySet DEF N, MuAt
<1>4. Cardinality(Awake) = 0
  BY <1>2, FS_EmptySet DEF Awake
<1>5. N("cs") = Bit(st.locked)
  BY <1>3, FreshTyped DEF Bit
<1>6. ~st.starving /\ NormalMode
  <2>1. N("grab") = 0 /\ N("sema") = 0 /\ N("signal") = 0 /\ N("woke") = 0
    BY <1>3
  <2>2. st.waiters = 0 /\ ~st.woken /\ ~st.starving /\ sema = 0
    BY FreshTyped
  <2> QED  BY <1>4, <2>1, <2>2 DEF NormalMode, Bit
<1>7. \A c \in Co : LocalsFit(c)
  BY <1>2 DEF LocalsFit
<1> QED  BY <1>1, <1>5, <1>6, <1>7 DEF MuInv, Modes

LEMMA MuGoes ==
  ASSUME Mu!TypeOK, NEW c \in Co, NEW l \in Mu!Labels, Mu!Goes(c, l)
  PROVE  /\ pc' \in [Co -> Mu!Labels] /\ pc'[c] = l
         /\ \A d \in Co : d # c => pc'[d] = pc[d]
BY DEF Mu!TypeOK, Mu!Goes

LEMMA MuForgets ==
  ASSUME Mu!TypeOK, NEW c \in Co, Mu!Forgets(c)
  PROVE  /\ loc' \in [Co -> Mu!Locals] /\ ~loc'[c].awoke /\ ~loc'[c].starving
         /\ \A d \in Co : d # c => loc'[d] = loc[d]
<1>1. PICK x : x = Mu!Fresh
  OBVIOUS
<1>2. x \in Mu!Locals /\ ~x.awoke /\ ~x.starving
  BY <1>1, FreshTyped
<1>3. loc' = [loc EXCEPT ![c] = x]
  BY <1>1 DEF Mu!Forgets
<1> QED  BY <1>2, <1>3 DEF Mu!TypeOK

\* A step that changes neither iState nor the semaphore nor a place that is
\* counted.
LEMMA ModesKept ==
  ASSUME Modes, UNCHANGED <<st, sema>>,
         \A l \in {"cs", "sema", "signal", "woke", "grab"} : N(l)' = N(l),
         Cardinality(Awake') = Cardinality(Awake)
  PROVE  Modes'
BY DEF Modes, NormalMode, StarvingMode

LEMMA OthersFit ==
  ASSUME NEW c \in Co, \A d \in Co : LocalsFit(d),
         \A d \in Co : d # c => pc'[d] = pc[d] /\ loc'[d] = loc[d],
         LocalsFit(c)'
  PROVE  \A d \in Co : LocalsFit(d)'
BY DEF LocalsFit

\* A coroutine that was woken and competes again does so under the woken bit.
LEMMA AwakeWoken ==
  ASSUME MuInv, NEW c \in Co, loc[c].awoke
  PROVE  /\ ~st.starving /\ st.woken
         /\ sema = 0 /\ N("signal") = 0 /\ N("woke") = 0 /\ Cardinality(Awake) = 1
<1>1. c \in Awake
  BY DEF Awake
<1>2. Cardinality(Awake) > 0
  BY <1>1, MuFinite, OneLess
<1>3. ~st.starving /\ NormalMode
  BY <1>2 DEF MuInv, Modes, StarvingMode
<1>4. sema + N("signal") + N("woke") + Cardinality(Awake) = Bit(st.woken)
  BY <1>3 DEF NormalMode
<1>5. /\ sema \in Nat /\ N("signal") \in Nat /\ N("woke") \in Nat /\ Cardinality(Awake) \in Nat
  BY MuFinite DEF MuInv, Mu!TypeOK
<1>6. st.woken
  BY <1>2, <1>4, <1>5 DEF Bit
<1>7. sema + N("signal") + N("woke") + Cardinality(Awake) = 1
  BY <1>4, <1>6 DEF Bit
<1> QED  BY <1>2, <1>3, <1>5, <1>6, <1>7

LEMMA QuietStep ==
  ASSUME MuInv, NEW c \in Co,
         \/ Mu!LockSlow(c) \/ Mu!Load(c) \/ Mu!CasFail(c)
         \/ Mu!UnlockDone(c) \/ Mu!UnlockRetry(c)
  PROVE  MuInv'
<1> USE DEF MuInv
<1>1. UNCHANGED <<st, sema>> /\ pc[c] \in {"idle", "load", "loop", "uloop"}
  BY DEF Mu!LockSlow, Mu!Load, Mu!CasFail, Mu!UnlockDone, Mu!UnlockRetry, Mu!Proposes
<1>2. PICK l \in {"idle", "load", "loop", "uloop"} : Mu!Goes(c, l)
  BY DEF Mu!LockSlow, Mu!Load, Mu!CasFail, Mu!UnlockDone, Mu!UnlockRetry, Mu!Goes, Mu!TypeOK
<1>3. /\ pc' \in [Co -> Mu!Labels] /\ pc'[c] = l
      /\ \A d \in Co : d # c => pc'[d] = pc[d]
  BY <1>2, MuGoes DEF Mu!Labels
<1>4. /\ loc' \in [Co -> Mu!Locals]
      /\ \A d \in Co : d # c => loc'[d] = loc[d]
      /\ loc'[c].awoke <=> loc[c].awoke
      /\ loc'[c].starving <=> loc[c].starving
      /\ pc'[c] = "loop" /\ loc'[c].awoke => loc'[c].old.woken
      /\ loc[c].awoke => pc'[c] \in {"load", "loop"}
  <2>1. CASE Mu!LockSlow(c)
    <3>1. ~loc[c].awoke
      BY <2>1 DEF Mu!LockSlow, LocalsFit
    <3> QED  BY <2>1, <3>1 DEF Mu!LockSlow, Mu!TypeOK
  <2>2. CASE Mu!Load(c)
    <3>1. loc' = [loc EXCEPT ![c].old = st] /\ pc[c] = "load" /\ pc'[c] = "loop"
      BY <2>2, MuGoes DEF Mu!Load, Mu!Labels
    <3>2. /\ loc' \in [Co -> Mu!Locals] /\ loc'[c] = [loc[c] EXCEPT !.old = st]
          /\ \A d \in Co : d # c => loc'[d] = loc[d]
      BY <3>1 DEF Mu!TypeOK, Mu!Locals
    <3>3. /\ loc'[c].old = st /\ loc'[c].awoke = loc[c].awoke
          /\ loc'[c].starving = loc[c].starving
      BY <3>2 DEF Mu!TypeOK, Mu!Locals
    <3> QED  BY <3>1, <3>2, <3>3, AwakeWoken
  <2>3. CASE Mu!CasFail(c)
    <3>1. pc'[c] = "load" /\ loc' = loc
      BY <2>3, MuGoes DEF Mu!CasFail, Mu!Labels
    <3> QED  BY <3>1 DEF Mu!TypeOK
  <2>4. CASE Mu!UnlockDone(c)
    <3>1. ~loc[c].awoke /\ ~loc[c].starving
      BY <2>4 DEF Mu!UnlockDone, LocalsFit
    <3> QED  BY <2>4, <3>1, MuForgets DEF Mu!UnlockDone
  <2>5. CASE Mu!UnlockRetry(c)
    <3>1. ~loc[c].awoke /\ ~loc[c].starving
      BY <2>5 DEF Mu!UnlockRetry, LocalsFit
    <3>2. /\ loc' \in [Co -> Mu!Locals] /\ loc'[c] = [loc[c] EXCEPT !.old = st]
          /\ \A d \in Co : d # c => loc'[d] = loc[d]
      BY <2>5 DEF Mu!UnlockRetry, Mu!TypeOK, Mu!Locals
    <3>3. /\ loc'[c].awoke = loc[c].awoke
          /\ loc'[c].starving = loc[c].starving
      BY <3>2 DEF Mu!TypeOK, Mu!Locals
    <3> QED  BY <3>1, <3>2, <3>3
  <2> QED  BY <2>1, <2>2, <2>3, <2>4, <2>5
<1>5. Mu!TypeOK'
  BY <1>1, <1>3, <1>4 DEF Mu!TypeOK
<1>6. Modes'
  <2>1. \A k \in {"cs", "sema", "signal", "woke", "grab"} : N(k)' = N(k)
    <3> TAKE k \in {"cs", "sema", "signal", "woke", "grab"}
    <3>1. N(k)' = N(k) + Is(pc'[c], k) - Is(pc[c], k)
      BY <1>3, MuMoves
    <3>2. Is(pc'[c], k) = 0 /\ Is(pc[c], k) = 0
      BY <1>1, <1>3 DEF Is
    <3> QED  BY <3>1, <3>2, MuFinite
  <2>2. Cardinality(Awake') = Cardinality(Awake)
    BY <1>4, AwakeMoves, MuFinite DEF Bit
  <2> QED  BY <1>1, <2>1, <2>2, ModesKept
<1>7. LocalsFit(c)'
  BY <1>1, <1>3, <1>4 DEF LocalsFit
<1> QED  BY <1>3, <1>4, <1>5, <1>6, <1>7, OthersFit

\* The four places that the modes count are left as they were.
Resting == /\ N("sema")' = N("sema") /\ N("signal")' = N("signal")
           /\ N("woke")' = N("woke") /\ N("grab")' = N("grab")
           /\ sema' = sema /\ Cardinality(Awake') = Cardinality(Awake)

LEMMA NormalKept ==
  ASSUME NormalMode, Resting, st'.waiters = st.waiters, st'.woken <=> st.woken
  PROVE  NormalMode'
BY DEF NormalMode, Resting, Bit

LEMMA LockFastStep ==
  ASSUME MuInv, NEW c \in Co, Mu!LockFast(c)
  PROVE  MuInv'
<1> USE DEF MuInv
<1>1. /\ pc[c] = "idle" /\ st = Mu!Zero /\ st' = Mu!JustLocked /\ UNCHANGED <<sema, loc>>
      /\ Mu!Goes(c, "cs")
  BY DEF Mu!LockFast
<1>2. /\ pc' \in [Co -> Mu!Labels] /\ pc'[c] = "cs"
      /\ \A d \in Co : d # c => pc'[d] = pc[d]
  BY <1>1, MuGoes DEF Mu!Labels
<1>3. Mu!TypeOK'
  BY <1>1, <1>2, FreshTyped DEF Mu!TypeOK
<1>4. \A k : N(k) \in Nat /\ N(k)' = N(k) + Is(pc'[c], k) - Is(pc[c], k)
  BY <1>2, MuMoves, MuFinite
<1>5. /\ Resting
      /\ N("cs")' = N("cs") + 1
  BY <1>1, <1>2, <1>4 DEF Is, Awake, Resting
<1>6. Modes'
  <2>1. N("cs") = 0 /\ NormalMode
    BY <1>1, FreshTyped DEF Modes, Bit
  <2>2. NormalMode'
    BY <1>1, <1>5, <2>1, FreshTyped, NormalKept
  <2> QED  BY <1>1, <1>5, <2>1, <2>2, FreshTyped DEF Modes, Bit
<1>7. LocalsFit(c)'
  BY <1>1, <1>2 DEF LocalsFit
<1> QED  BY <1>1, <1>2, <1>3, <1>6, <1>7, OthersFit

LEMMA UnlockStep ==
  ASSUME MuInv, NEW c \in Co, Mu!Unlock(c)
  PROVE  MuInv'
<1> USE DEF MuInv
<1>1. /\ pc[c] = "cs" /\ st' = [st EXCEPT !.locked = FALSE] /\ UNCHANGED sema
      /\ st.locked
  BY DEF Mu!Unlock, Mu!UnlockUnlocked
<1>2. /\ st' \in Mu!State /\ ~st'.locked /\ st'.waiters = st.waiters
      /\ st'.woken = st.woken /\ st'.starving = st.starving
  <2>1. PICK f : f = FALSE
    OBVIOUS
  <2>2. f \in BOOLEAN
    BY <2>1, Zenon
  <2>3. st' = [st EXCEPT !.locked = f]
    BY <1>1, <2>1
  <2>4. /\ st' \in Mu!State /\ st'.locked = f /\ st'.waiters = st.waiters
        /\ st'.woken = st.woken /\ st'.starving = st.starving
    BY <2>2, <2>3 DEF Mu!TypeOK, Mu!State
  <2> QED  BY <2>1, <2>4
<1>3. PICK l \in {"idle", "signal", "uloop"} :
        Mu!Goes(c, l) /\ (l = "signal" <=> st.starving)
  BY FreshTyped DEF Mu!Unlock
<1>4. /\ pc' \in [Co -> Mu!Labels] /\ pc'[c] = l
      /\ \A d \in Co : d # c => pc'[d] = pc[d]
  BY <1>3, MuGoes DEF Mu!Labels
<1>5. /\ loc' \in [Co -> Mu!Locals]
      /\ \A d \in Co : d # c => loc'[d] = loc[d]
      /\ loc'[c].awoke = loc[c].awoke /\ loc'[c].starving = loc[c].starving
  <2>1. CASE loc' = loc
    BY <2>1 DEF Mu!TypeOK
  <2>2. CASE loc' = [loc EXCEPT ![c].old = st']
    <3>1. /\ loc' \in [Co -> Mu!Locals] /\ loc'[c] = [loc[c] EXCEPT !.old = st']
          /\ \A d \in Co : d # c => loc'[d] = loc[d]
      BY <1>2, <2>2 DEF Mu!TypeOK, Mu!Locals
    <3>2. loc'[c].awoke = loc[c].awoke /\ loc'[c].starving = loc[c].starving
      BY <3>1 DEF Mu!TypeOK, Mu!Locals
    <3> QED  BY <3>1, <3>2
  <2> QED  BY <2>1, <2>2 DEF Mu!Unlock
<1>6. ~loc[c].awoke /\ ~loc[c].starving
  BY <1>1 DEF LocalsFit
<1>7. Mu!TypeOK'
  BY <1>1, <1>2, <1>4, <1>5 DEF Mu!TypeOK
<1>8. \A k : N(k) \in Nat /\ N(k)' = N(k) + Is(pc'[c], k) - Is(pc[c], k)
  BY <1>4, MuMoves, MuFinite
<1>9. /\ N("sema")' = N("sema") /\ N("woke")' = N("woke") /\ N("grab")' = N("grab")
      /\ N("signal")' = N("signal") + Is(l, "signal")
      /\ N("cs")' = N("cs") - 1 /\ N("cs") = 1
  BY <1>1, <1>4, <1>8 DEF Is, Modes, Bit
<1>10. Cardinality(Awake') = Cardinality(Awake)
  BY <1>5, AwakeMoves, MuFinite DEF Bit
<1>11. Modes'
  <2>1. CASE ~st.starving
    <3>1. N("signal")' = N("signal")
      BY <1>3, <1>8, <1>9, <2>1 DEF Is
    <3>2. NormalMode'
      BY <1>1, <1>2, <1>9, <1>10, <2>1, <3>1, NormalKept DEF Modes, Resting
    <3> QED  BY <1>2, <1>9, <2>1, <3>2 DEF Modes, Bit
  <2>2. CASE st.starving
    <3>1. N("signal")' = N("signal") + 1
      BY <1>3, <1>9, <2>2 DEF Is
    <3>2. StarvingMode /\ sema + N("signal") + N("woke") + N("grab") = 0
      BY <1>1, <2>2 DEF Modes, StarvingMode, Bit
    <3>3. sema \in Nat /\ N("signal") \in Nat /\ N("woke") \in Nat /\ N("grab") \in Nat
      BY <1>8 DEF Mu!TypeOK
    <3>4. sema + N("signal")' + N("woke") + N("grab") = 1
      BY <3>1, <3>2, <3>3
    <3>5. StarvingMode'
      BY <1>1, <1>2, <1>9, <1>10, <3>2, <3>4 DEF StarvingMode, Bit
    <3> QED  BY <1>2, <1>9, <2>2, <3>5 DEF Modes, Bit
  <2> QED  BY <2>1, <2>2
<1>12. LocalsFit(c)'
  BY <1>5, <1>6 DEF LocalsFit
<1> QED  BY <1>4, <1>5, <1>7, <1>11, <1>12, OthersFit

LEMMA UnlockPassStep ==
  ASSUME MuInv, NEW c \in Co, Mu!UnlockPass(c)
  PROVE  MuInv'
<1> USE DEF MuInv
<1>1. /\ pc[c] = "uloop" /\ UNCHANGED sema /\ Mu!Goes(c, "signal") /\ Mu!Forgets(c)
      /\ st' = [st EXCEPT !.waiters = @ - 1, !.woken = TRUE]
      /\ st.waiters # 0 /\ ~st.locked /\ ~st.woken /\ ~st.starving
  BY DEF Mu!UnlockPass, Mu!SomebodyElse
<1>2. /\ st' \in Mu!State /\ st'.woken /\ st'.waiters = st.waiters - 1
      /\ st'.locked = st.locked /\ st'.starving = st.starving
  <2>1. PICK t : t = TRUE
    OBVIOUS
  <2>2. t \in BOOLEAN
    BY <2>1, Zenon
  <2>3. st' = [st EXCEPT !.waiters = st.waiters - 1, !.woken = t]
    BY <1>1, <2>1
  <2>4. st.waiters - 1 \in Nat
    BY <1>1 DEF Mu!TypeOK, Mu!State
  <2>5. /\ st' \in Mu!State /\ st'.woken = t /\ st'.waiters = st.waiters - 1
        /\ st'.locked = st.locked /\ st'.starving = st.starving
    BY <2>2, <2>3, <2>4 DEF Mu!TypeOK, Mu!State
  <2> QED  BY <2>1, <2>5
<1>3. /\ pc' \in [Co -> Mu!Labels] /\ pc'[c] = "signal"
      /\ \A d \in Co : d # c => pc'[d] = pc[d]
  BY <1>1, MuGoes DEF Mu!Labels
<1>4. /\ loc' \in [Co -> Mu!Locals] /\ ~loc'[c].awoke /\ ~loc'[c].starving
      /\ \A d \in Co : d # c => loc'[d] = loc[d]
  BY <1>1, MuForgets
<1>5. Mu!TypeOK'
  BY <1>1, <1>2, <1>3, <1>4 DEF Mu!TypeOK
<1>6. \A k : N(k) \in Nat /\ N(k)' = N(k) + Is(pc'[c], k) - Is(pc[c], k)
  BY <1>3, MuMoves, MuFinite
<1>7. /\ N("sema")' = N("sema") /\ N("woke")' = N("woke") /\ N("grab")' = N("grab")
      /\ N("signal")' = N("signal") + 1 /\ N("cs")' = N("cs")
  BY <1>1, <1>3, <1>6 DEF Is
<1>8. Cardinality(Awake') = Cardinality(Awake)
  <2>1. ~loc[c].awoke
    BY <1>1 DEF LocalsFit
  <2> QED  BY <1>4, <2>1, AwakeMoves, MuFinite DEF Bit
<1>9. Modes'
  <2>1. NormalMode
    BY <1>1 DEF Modes
  <2>2. /\ sema \in Nat /\ N("signal") \in Nat /\ N("woke") \in Nat
        /\ Cardinality(Awake) \in Nat /\ st.waiters \in Nat
    BY <1>6, MuFinite DEF Mu!TypeOK, Mu!State
  <2>3. N("sema") = (st.waiters - 1) + sema + N("signal")'
    <3>1. N("sema") = st.waiters + sema + N("signal")
      BY <2>1 DEF NormalMode
    <3> QED  BY <1>7, <2>2, <3>1
  <2>4. sema + N("signal")' + N("woke") + Cardinality(Awake) = 1
    <3>1. sema + N("signal") + N("woke") + Cardinality(Awake) = 0
      BY <1>1, <2>1 DEF NormalMode, Bit
    <3> QED  BY <1>7, <2>2, <3>1
  <2>5. NormalMode'
    BY <1>1, <1>2, <1>7, <1>8, <2>1, <2>3, <2>4 DEF NormalMode, Bit
  <2> QED  BY <1>1, <1>2, <1>7, <2>5 DEF Modes
<1>10. LocalsFit(c)'
  BY <1>4 DEF LocalsFit
<1> QED  BY <1>3, <1>4, <1>5, <1>9, <1>10, OthersFit

LEMMA SignalStep ==
  ASSUME MuInv, NEW c \in Co, Mu!Signal(c)
  PROVE  MuInv'
<1> USE DEF MuInv
<1>1. /\ pc[c] = "signal" /\ sema' = sema + 1 /\ UNCHANGED <<st, loc>> /\ Mu!Goes(c, "idle")
  BY DEF Mu!Signal
<1>2. /\ pc' \in [Co -> Mu!Labels] /\ pc'[c] = "idle"
      /\ \A d \in Co : d # c => pc'[d] = pc[d]
  BY <1>1, MuGoes DEF Mu!Labels
<1>3. Mu!TypeOK'
  BY <1>1, <1>2 DEF Mu!TypeOK
<1>4. \A k : N(k) \in Nat /\ N(k)' = N(k) + Is(pc'[c], k) - Is(pc[c], k)
  BY <1>2, MuMoves, MuFinite
<1>5. /\ N("sema")' = N("sema") /\ N("woke")' = N("woke") /\ N("grab")' = N("grab")
      /\ N("signal")' = N("signal") - 1 /\ N("cs")' = N("cs")
  BY <1>1, <1>2, <1>4 DEF Is
<1>6. Awake' = Awake
  BY <1>1 DEF Awake
<1>7. sema \in Nat /\ N("signal") \in Nat /\ st.waiters \in Nat
  BY <1>4 DEF Mu!TypeOK, Mu!State
<1>8. sema' + N("signal")' = sema + N("signal")
  BY <1>1, <1>5, <1>7
<1>9. Modes'
  <2>1. st.waiters + sema' + N("signal")' = st.waiters + sema + N("signal")
    BY <1>1, <1>5, <1>7
  <2> QED  BY <1>1, <1>5, <1>6, <1>8, <2>1 DEF Modes, NormalMode, StarvingMode
<1>10. LocalsFit(c)'
  BY <1>1, <1>2 DEF LocalsFit
<1> QED  BY <1>1, <1>2, <1>3, <1>9, <1>10, OthersFit

LEMMA WakeStep ==
  ASSUME MuInv, NEW c \in Co, Mu!Wake(c)
  PROVE  MuInv'
<1> USE DEF MuInv
<1>1. /\ pc[c] = "sema" /\ sema > 0 /\ sema' = sema - 1 /\ UNCHANGED st /\ Mu!Goes(c, "woke")
  BY DEF Mu!Wake
<1>2. PICK long \in BOOLEAN : loc' = [loc EXCEPT ![c].starving = loc[c].starving \/ long]
  BY DEF Mu!Wake
<1>3. /\ loc' \in [Co -> Mu!Locals] /\ loc'[c].awoke = loc[c].awoke
      /\ \A d \in Co : d # c => loc'[d] = loc[d]
  <2>1. PICK h : h = (loc[c].starving \/ long)
    OBVIOUS
  <2>2. h \in BOOLEAN
    BY <2>1, Zenon
  <2>3. /\ loc' \in [Co -> Mu!Locals] /\ loc'[c] = [loc[c] EXCEPT !.starving = h]
        /\ \A d \in Co : d # c => loc'[d] = loc[d]
    BY <1>2, <2>1, <2>2 DEF Mu!TypeOK, Mu!Locals
  <2>4. loc'[c].awoke = loc[c].awoke
    BY <2>3 DEF Mu!TypeOK, Mu!Locals
  <2> QED  BY <2>3, <2>4
<1>4. /\ pc' \in [Co -> Mu!Labels] /\ pc'[c] = "woke"
      /\ \A d \in Co : d # c => pc'[d] = pc[d]
  BY <1>1, MuGoes DEF Mu!Labels
<1>5. sema \in Nat /\ sema' \in Nat /\ st.waiters \in Nat
  BY <1>1 DEF Mu!TypeOK, Mu!State
<1>6. Mu!TypeOK'
  BY <1>1, <1>3, <1>4, <1>5 DEF Mu!TypeOK
<1>7. \A k : N(k) \in Nat /\ N(k)' = N(k) + Is(pc'[c], k) - Is(pc[c], k)
  BY <1>4, MuMoves, MuFinite
<1>8. /\ N("sema")' = N("sema") - 1 /\ N("woke")' = N("woke") + 1 /\ N("grab")' = N("grab")
      /\ N("signal")' = N("signal") /\ N("cs")' = N("cs")
  BY <1>1, <1>4, <1>7 DEF Is
<1>9. Cardinality(Awake') = Cardinality(Awake)
  BY <1>3, AwakeMoves, MuFinite DEF Bit
<1>10. /\ N("sema") \in Nat /\ N("signal") \in Nat /\ N("woke") \in Nat /\ N("grab") \in Nat
       /\ Cardinality(Awake) \in Nat
  BY <1>7, MuFinite
<1>11. Modes'
  <2>1. CASE ~st.starving
    <3>1. NormalMode
      BY <2>1 DEF Modes
    <3>2. N("sema")' = st.waiters + sema' + N("signal")
      <4>1. N("sema") = st.waiters + sema + N("signal")
        BY <3>1 DEF NormalMode
      <4> QED  BY <1>1, <1>5, <1>8, <1>10, <4>1
    <3>3. sema' + N("signal") + N("woke")' + Cardinality(Awake)
            = sema + N("signal") + N("woke") + Cardinality(Awake)
      BY <1>1, <1>5, <1>8, <1>10
    <3>4. NormalMode'
      BY <1>1, <1>8, <1>9, <3>1, <3>2, <3>3 DEF NormalMode
    <3> QED  BY <1>1, <1>8, <2>1, <3>4 DEF Modes
  <2>2. CASE st.starving
    <3>1. StarvingMode
      BY <2>2 DEF Modes
    <3>2. N("sema")' + N("woke")' + N("grab") = N("sema") + N("woke") + N("grab")
      BY <1>8, <1>10
    <3>3. sema' + N("signal") + N("woke")' + N("grab") = sema + N("signal") + N("woke") + N("grab")
      BY <1>1, <1>5, <1>8, <1>10
    <3>4. StarvingMode'
      BY <1>1, <1>8, <1>9, <3>1, <3>2, <3>3 DEF StarvingMode
    <3> QED  BY <1>1, <1>8, <2>2, <3>4 DEF Modes
  <2> QED  BY <2>1, <2>2
<1>12. LocalsFit(c)'
  BY <1>1, <1>3, <1>4 DEF LocalsFit
<1> QED  BY <1>3, <1>4, <1>6, <1>11, <1>12, OthersFit

LEMMA SomeAt ==
  ASSUME NEW c \in Co
  PROVE  N(pc[c]) \in Nat /\ N(pc[c]) # 0
<1>1. c \in MuAt(pc[c])
  BY DEF MuAt
<1>2. Cardinality(MuAt(pc[c])) > 0
  BY <1>1, MuFinite, OneLess
<1> QED  BY <1>2, MuFinite DEF N

LEMMA WokeNormalStep ==
  ASSUME MuInv, NEW c \in Co, Mu!WokeNormal(c)
  PROVE  MuInv'
<1> USE DEF MuInv
<1>1. /\ pc[c] = "woke" /\ ~st.starving /\ UNCHANGED <<st, sema>> /\ Mu!Goes(c, "loop")
      /\ loc' = [loc EXCEPT ![c].old = st, ![c].iter = 0, ![c].awoke = TRUE]
  BY DEF Mu!WokeNormal
<1>2. /\ loc' \in [Co -> Mu!Locals] /\ loc'[c].awoke /\ loc'[c].old = st
      /\ \A d \in Co : d # c => loc'[d] = loc[d]
  <2>1. PICK t : t = TRUE
    OBVIOUS
  <2>2. t \in BOOLEAN
    BY <2>1, Zenon
  <2>3. /\ loc' \in [Co -> Mu!Locals]
        /\ loc'[c] = [loc[c] EXCEPT !.old = st, !.iter = 0, !.awoke = t]
        /\ \A d \in Co : d # c => loc'[d] = loc[d]
    <3>1. PICK x : x = [loc[c] EXCEPT !.old = st, !.iter = 0, !.awoke = t]
      OBVIOUS
    <3>2. x \in Mu!Locals
      BY <2>2, <3>1 DEF Mu!TypeOK, Mu!Locals
    <3>3. loc' = [loc EXCEPT ![c] = x]
      BY <1>1, <2>1, <3>1 DEF Mu!TypeOK
    <3> QED  BY <3>1, <3>2, <3>3 DEF Mu!TypeOK
  <2>4. loc'[c].awoke = t /\ loc'[c].old = st
    BY <2>3 DEF Mu!TypeOK, Mu!Locals
  <2> QED  BY <2>1, <2>3, <2>4
<1>3. /\ pc' \in [Co -> Mu!Labels] /\ pc'[c] = "loop"
      /\ \A d \in Co : d # c => pc'[d] = pc[d]
  BY <1>1, MuGoes DEF Mu!Labels
<1>4. Mu!TypeOK'
  BY <1>1, <1>2, <1>3 DEF Mu!TypeOK
<1>5. \A k : N(k) \in Nat /\ N(k)' = N(k) + Is(pc'[c], k) - Is(pc[c], k)
  BY <1>3, MuMoves, MuFinite
<1>6. /\ N("sema")' = N("sema") /\ N("woke")' = N("woke") - 1 /\ N("grab")' = N("grab")
      /\ N("signal")' = N("signal") /\ N("cs")' = N("cs")
  BY <1>1, <1>3, <1>5 DEF Is
<1>7. Cardinality(Awake') = Cardinality(Awake) + 1
  <2>1. ~loc[c].awoke
    BY <1>1 DEF LocalsFit
  <2> QED  BY <1>2, <2>1, AwakeMoves, MuFinite DEF Bit
<1>8. NormalMode
  BY <1>1 DEF Modes
<1>9. /\ sema \in Nat /\ N("signal") \in Nat /\ N("woke") \in Nat /\ Cardinality(Awake) \in Nat
  BY <1>5, MuFinite DEF Mu!TypeOK
<1>10. st.woken
  <2>1. sema + N("signal") + N("woke") + Cardinality(Awake) = Bit(st.woken)
    BY <1>8 DEF NormalMode
  <2>2. N("woke") # 0
    BY <1>1, SomeAt
  <2>3. Bit(st.woken) # 0
    BY <1>9, <2>1, <2>2
  <2> QED  BY <2>3 DEF Bit
<1>11. Modes'
  <2>1. sema + N("signal") + N("woke")' + Cardinality(Awake')
          = sema + N("signal") + N("woke") + Cardinality(Awake)
    BY <1>6, <1>7, <1>9
  <2>2. NormalMode'
    BY <1>1, <1>6, <1>8, <2>1 DEF NormalMode
  <2> QED  BY <1>1, <1>6, <2>2 DEF Modes
<1>12. LocalsFit(c)'
  BY <1>2, <1>3, <1>10 DEF LocalsFit
<1> QED  BY <1>2, <1>3, <1>4, <1>11, <1>12, OthersFit

LEMMA WokeStarvingStep ==
  ASSUME MuInv, NEW c \in Co, Mu!WokeStarving(c)
  PROVE  MuInv'
<1> USE DEF MuInv
<1>1. /\ pc[c] = "woke" /\ st.starving /\ UNCHANGED <<st, sema>> /\ Mu!Goes(c, "grab")
      /\ loc' = [loc EXCEPT ![c].old = st]
  BY DEF Mu!WokeStarving
<1>2. /\ loc' \in [Co -> Mu!Locals] /\ loc'[c].awoke = loc[c].awoke
      /\ \A d \in Co : d # c => loc'[d] = loc[d]
  <2>1. /\ loc' \in [Co -> Mu!Locals] /\ loc'[c] = [loc[c] EXCEPT !.old = st]
        /\ \A d \in Co : d # c => loc'[d] = loc[d]
    BY <1>1 DEF Mu!TypeOK, Mu!Locals
  <2>2. loc'[c].awoke = loc[c].awoke
    BY <2>1 DEF Mu!TypeOK, Mu!Locals
  <2> QED  BY <2>1, <2>2
<1>3. /\ pc' \in [Co -> Mu!Labels] /\ pc'[c] = "grab"
      /\ \A d \in Co : d # c => pc'[d] = pc[d]
  BY <1>1, MuGoes DEF Mu!Labels
<1>4. Mu!TypeOK'
  BY <1>1, <1>2, <1>3 DEF Mu!TypeOK
<1>5. \A k : N(k) \in Nat /\ N(k)' = N(k) + Is(pc'[c], k) - Is(pc[c], k)
  BY <1>3, MuMoves, MuFinite
<1>6. /\ N("sema")' = N("sema") /\ N("woke")' = N("woke") - 1 /\ N("grab")' = N("grab") + 1
      /\ N("signal")' = N("signal") /\ N("cs")' = N("cs")
  BY <1>1, <1>3, <1>5 DEF Is
<1>7. Cardinality(Awake') = Cardinality(Awake)
  BY <1>2, AwakeMoves, MuFinite DEF Bit
<1>8. /\ sema \in Nat /\ N("sema") \in Nat /\ N("signal") \in Nat /\ N("woke") \in Nat
      /\ N("grab") \in Nat
  BY <1>5 DEF Mu!TypeOK
<1>9. Modes'
  <2>1. StarvingMode
    BY <1>1 DEF Modes
  <2>2. N("sema") + N("woke")' + N("grab")' = N("sema") + N("woke") + N("grab")
    BY <1>6, <1>8
  <2>3. sema + N("signal") + N("woke")' + N("grab")' = sema + N("signal") + N("woke") + N("grab")
    BY <1>6, <1>8
  <2>4. StarvingMode'
    BY <1>1, <1>6, <1>7, <2>1, <2>2, <2>3 DEF StarvingMode
  <2> QED  BY <1>1, <1>6, <2>4 DEF Modes
<1>10. LocalsFit(c)'
  BY <1>1, <1>2, <1>3 DEF LocalsFit
<1> QED  BY <1>2, <1>3, <1>4, <1>9, <1>10, OthersFit

LEMMA GrabStep ==
  ASSUME MuInv, NEW c \in Co, Mu!Grab(c)
  PROVE  MuInv'
<1> USE DEF MuInv
<1>1. /\ pc[c] = "grab" /\ UNCHANGED sema /\ Mu!Goes(c, "cs") /\ Mu!Forgets(c)
      /\ st' = [st EXCEPT !.locked = TRUE, !.waiters = @ - 1, !.starving = @ /\ ~Mu!Leaves(c)]
  BY DEF Mu!Grab
<1>2. ~st.locked /\ st.waiters > 0 /\ st.starving
  BY <1>1, MuInvSafe DEF UmutexSafe, Mu!HandoverFits
<1>3. /\ st' \in Mu!State /\ st'.locked /\ st'.waiters = st.waiters - 1
      /\ st'.woken = st.woken
  <2>1. PICK t, h : t = TRUE /\ h = (st.starving /\ ~Mu!Leaves(c))
    OBVIOUS
  <2>2. t \in BOOLEAN /\ h \in BOOLEAN
    BY <2>1, Zenon
  <2>3. st' = [st EXCEPT !.locked = t, !.waiters = st.waiters - 1, !.starving = h]
    BY <1>1, <2>1
  <2>4. st.waiters - 1 \in Nat
    BY <1>2 DEF Mu!TypeOK, Mu!State
  <2>5. /\ st' \in Mu!State /\ st'.locked = t /\ st'.waiters = st.waiters - 1
        /\ st'.woken = st.woken
    BY <2>2, <2>3, <2>4 DEF Mu!TypeOK, Mu!State
  <2> QED  BY <2>1, <2>5
<1>4. /\ pc' \in [Co -> Mu!Labels] /\ pc'[c] = "cs"
      /\ \A d \in Co : d # c => pc'[d] = pc[d]
  BY <1>1, MuGoes DEF Mu!Labels
<1>5. /\ loc' \in [Co -> Mu!Locals] /\ ~loc'[c].awoke /\ ~loc'[c].starving
      /\ \A d \in Co : d # c => loc'[d] = loc[d]
  BY <1>1, MuForgets
<1>6. Mu!TypeOK'
  BY <1>1, <1>3, <1>4, <1>5 DEF Mu!TypeOK
<1>7. \A k : N(k) \in Nat /\ N(k)' = N(k) + Is(pc'[c], k) - Is(pc[c], k)
  BY <1>4, MuMoves, MuFinite
<1>8. /\ N("sema")' = N("sema") /\ N("woke")' = N("woke") /\ N("grab")' = N("grab") - 1
      /\ N("signal")' = N("signal") /\ N("cs")' = N("cs") + 1
  BY <1>1, <1>4, <1>7 DEF Is
<1>9. Cardinality(Awake') = Cardinality(Awake)
  <2>1. ~loc[c].awoke
    BY <1>1 DEF LocalsFit
  <2> QED  BY <1>5, <2>1, AwakeMoves, MuFinite DEF Bit
<1>10. StarvingMode
  BY <1>2 DEF Modes
<1>11. sema = 0 /\ N("signal") = 0 /\ N("woke") = 0 /\ N("grab") = 1
  <2>1. sema + N("signal") + N("woke") + N("grab") = 1
    BY <1>2, <1>10 DEF StarvingMode, Bit
  <2>2. sema \in Nat /\ N("signal") \in Nat /\ N("woke") \in Nat /\ N("grab") \in Nat
    BY <1>7 DEF Mu!TypeOK
  <2>3. N("grab") # 0
    BY <1>1, SomeAt
  <2> QED  BY <2>1, <2>2, <2>3
<1>12. N("sema") = st.waiters - 1
  <2>1. N("sema") + N("woke") + N("grab") = st.waiters
    BY <1>10 DEF StarvingMode
  <2> QED  BY <1>7, <1>11, <2>1
<1>13. Modes'
  <2>1. N("cs")' = 1
    BY <1>2, <1>8 DEF Modes, Bit
  <2>2. N("grab")' = 0 /\ N("sema")' = st'.waiters /\ st'.waiters \in Nat
    BY <1>3, <1>7, <1>8, <1>11, <1>12 DEF Mu!State
  <2>3. sema' = 0 /\ N("signal")' = 0 /\ N("woke")' = 0 /\ Cardinality(Awake') = 0 /\ ~st'.woken
    BY <1>1, <1>3, <1>8, <1>9, <1>10, <1>11 DEF StarvingMode
  <2>4. NormalMode'
    BY <2>2, <2>3 DEF NormalMode, Bit
  <2>5. StarvingMode'
    BY <1>3, <2>2, <2>3 DEF StarvingMode, Bit
  <2> QED  BY <1>3, <2>1, <2>4, <2>5 DEF Modes, Bit
<1>14. LocalsFit(c)'
  BY <1>5 DEF LocalsFit
<1> QED  BY <1>4, <1>5, <1>6, <1>13, <1>14, OthersFit

LEMMA SpinStep ==
  ASSUME MuInv, NEW c \in Co, Mu!Spin(c)
  PROVE  MuInv'
<1> USE DEF MuInv
<1>1. /\ pc[c] = "loop" /\ UNCHANGED sema /\ Mu!Goes(c, "load")
      /\ st' = IF Mu!SetsWoken(c) THEN [st EXCEPT !.woken = TRUE] ELSE st
      /\ loc' = [loc EXCEPT ![c].iter = @ + 1, ![c].awoke = @ \/ Mu!SetsWoken(c)]
      /\ ~loc[c].old.starving
  BY DEF Mu!Spin, Mu!CanSpin
<1>2. /\ loc' \in [Co -> Mu!Locals] /\ loc'[c].starving = loc[c].starving
      /\ loc'[c].awoke <=> loc[c].awoke \/ Mu!SetsWoken(c)
      /\ \A d \in Co : d # c => loc'[d] = loc[d]
  <2>1. PICK t : t = (loc[c].awoke \/ Mu!SetsWoken(c))
    OBVIOUS
  <2>2. t \in BOOLEAN
    BY <2>1, Zenon
  <2>3. loc[c].iter + 1 \in Nat
    BY DEF Mu!TypeOK, Mu!Locals
  <2>4. loc' = [loc EXCEPT ![c] = [loc[c] EXCEPT !.iter = loc[c].iter + 1, !.awoke = t]]
    BY <1>1, <2>1 DEF Mu!TypeOK, Mu!Locals
  <2>5. /\ loc' \in [Co -> Mu!Locals]
        /\ loc'[c] = [loc[c] EXCEPT !.iter = loc[c].iter + 1, !.awoke = t]
        /\ \A d \in Co : d # c => loc'[d] = loc[d]
    BY <2>2, <2>3, <2>4 DEF Mu!TypeOK, Mu!Locals
  <2>6. loc'[c].awoke = t /\ loc'[c].starving = loc[c].starving
    BY <2>5 DEF Mu!TypeOK, Mu!Locals
  <2> QED  BY <2>1, <2>5, <2>6
<1>3. /\ pc' \in [Co -> Mu!Labels] /\ pc'[c] = "load"
      /\ \A d \in Co : d # c => pc'[d] = pc[d]
  BY <1>1, MuGoes DEF Mu!Labels
<1>4. \A k : N(k) \in Nat /\ N(k)' = N(k) + Is(pc'[c], k) - Is(pc[c], k)
  BY <1>3, MuMoves, MuFinite
<1>5. /\ N("sema")' = N("sema") /\ N("woke")' = N("woke") /\ N("grab")' = N("grab")
      /\ N("signal")' = N("signal") /\ N("cs")' = N("cs")
  BY <1>1, <1>3, <1>4 DEF Is
<1>6. LocalsFit(c)'
  BY <1>1, <1>2, <1>3 DEF LocalsFit
<1>7. CASE ~Mu!SetsWoken(c)
  <2>1. UNCHANGED <<st, sema>>
    BY <1>1, <1>7
  <2>2. Cardinality(Awake') = Cardinality(Awake)
    BY <1>2, <1>7, AwakeMoves, MuFinite DEF Bit
  <2>3. Modes'
    BY <1>5, <2>1, <2>2, ModesKept
  <2>4. Mu!TypeOK'
    BY <1>2, <1>3, <2>1 DEF Mu!TypeOK
  <2> QED  BY <1>2, <1>3, <1>6, <2>3, <2>4, OthersFit
<1>8. CASE Mu!SetsWoken(c)
  <2>1. ~loc[c].awoke /\ ~st.woken /\ ~st.starving
    BY <1>1, <1>8 DEF Mu!SetsWoken
  <2>2. /\ st' \in Mu!State /\ st'.woken /\ st'.waiters = st.waiters
        /\ st'.locked = st.locked /\ st'.starving = st.starving
    <3>1. PICK t : t = TRUE
      OBVIOUS
    <3>2. t \in BOOLEAN
      BY <3>1, Zenon
    <3>3. st' = [st EXCEPT !.woken = t]
      BY <1>1, <1>8, <3>1
    <3>4. /\ st' \in Mu!State /\ st'.woken = t /\ st'.waiters = st.waiters
          /\ st'.locked = st.locked /\ st'.starving = st.starving
      BY <3>2, <3>3 DEF Mu!TypeOK, Mu!State
    <3> QED  BY <3>1, <3>4
  <2>3. Mu!TypeOK'
    BY <1>1, <1>2, <1>3, <2>2 DEF Mu!TypeOK
  <2>4. Cardinality(Awake') = Cardinality(Awake) + 1
    BY <1>2, <1>8, <2>1, AwakeMoves, MuFinite DEF Bit
  <2>5. NormalMode
    BY <2>1 DEF Modes
  <2>6. sema + N("signal") + N("woke") + Cardinality(Awake') = 1
    <3>1. sema + N("signal") + N("woke") + Cardinality(Awake) = 0
      BY <2>1, <2>5 DEF NormalMode, Bit
    <3>2. sema \in Nat /\ N("signal") \in Nat /\ N("woke") \in Nat /\ Cardinality(Awake) \in Nat
      BY MuFinite DEF Mu!TypeOK
    <3> QED  BY <2>4, <3>1, <3>2
  <2>7. NormalMode'
    BY <1>1, <1>5, <2>2, <2>5, <2>6 DEF NormalMode, Bit
  <2>8. Modes'
    BY <1>5, <2>1, <2>2, <2>7 DEF Modes
  <2> QED  BY <1>2, <1>3, <1>6, <2>3, <2>8, OthersFit
<1> QED  BY <1>7, <1>8

\* The word that lock() proposes.
LEMMA NewStateFacts ==
  ASSUME Mu!TypeOK, NEW h \in BOOLEAN, NEW w \in BOOLEAN, NEW n, n = Mu!NewState(st, h, w)
  PROVE  /\ n \in Mu!State
         /\ n.locked <=> st.locked \/ ~st.starving
         /\ n.starving <=> st.starving \/ (h /\ st.locked)
         /\ n.woken <=> st.woken /\ ~w
         /\ n.waiters = IF st.locked \/ st.starving THEN st.waiters + 1 ELSE st.waiters
<1>1. PICK a, b, d : /\ a = (st.locked \/ ~st.starving)
                     /\ b = (st.starving \/ (h /\ st.locked))
                     /\ d = (st.woken /\ ~w)
  OBVIOUS
<1>2. a \in BOOLEAN /\ b \in BOOLEAN /\ d \in BOOLEAN
  BY <1>1, Zenon
<1>3. PICK m : m = IF st.locked \/ st.starving THEN st.waiters + 1 ELSE st.waiters
  OBVIOUS
<1>4. m \in Nat
  BY <1>3 DEF Mu!TypeOK, Mu!State
<1>5. n = [locked |-> a, starving |-> b, woken |-> d, waiters |-> m]
  BY <1>1, <1>3 DEF Mu!NewState, Mu!Busy
<1>6. n \in Mu!State /\ n.locked = a /\ n.starving = b /\ n.woken = d /\ n.waiters = m
  BY <1>2, <1>4, <1>5 DEF Mu!State
<1> QED  BY <1>1, <1>3, <1>6

\* A coroutine that goes to acquire or to queue gives the woken bit back if it
\* holds it.
LEMMA GivesWokenBack ==
  ASSUME MuInv, NEW c \in Co, ~st.starving, ~loc'[c].awoke,
         \A d \in Co : d # c => loc'[d] = loc[d],
         st'.woken <=> st.woken /\ ~loc[c].awoke
  PROVE  sema + N("signal") + N("woke") + Cardinality(Awake') = Bit(st'.woken)
<1>1. Cardinality(Awake') = Cardinality(Awake) - Bit(loc[c].awoke)
  BY AwakeMoves, MuFinite DEF Bit
<1>2. sema + N("signal") + N("woke") + Cardinality(Awake) = Bit(st.woken)
  BY DEF MuInv, Modes, NormalMode
<1>3. CASE loc[c].awoke
  <2>1. sema = 0 /\ N("signal") = 0 /\ N("woke") = 0 /\ Cardinality(Awake) = 1
    BY <1>3, AwakeWoken
  <2>2. Cardinality(Awake') = 0 /\ Bit(st'.woken) = 0
    BY <1>1, <1>3, <2>1 DEF Bit
  <2> QED  BY <2>1, <2>2
<1>4. CASE ~loc[c].awoke
  <2>1. Cardinality(Awake') = Cardinality(Awake) /\ Bit(st'.woken) = Bit(st.woken)
    BY <1>1, <1>4, MuFinite DEF Bit
  <2> QED  BY <1>2, <2>1
<1> QED  BY <1>3, <1>4

LEMMA CasAcquireStep ==
  ASSUME MuInv, NEW c \in Co, Mu!CasAcquire(c)
  PROVE  MuInv'
<1> USE DEF MuInv
<1>1. /\ pc[c] = "loop" /\ UNCHANGED sema /\ Mu!Goes(c, "cs") /\ Mu!Forgets(c)
      /\ st' = Mu!NewState(st, loc[c].starving, loc[c].awoke)
      /\ ~st.locked /\ ~st.starving
  BY DEF Mu!CasAcquire, Mu!Proposes, Mu!Busy
<1>2. loc[c].starving \in BOOLEAN /\ loc[c].awoke \in BOOLEAN
  BY MuTyped
<1>3. /\ st' \in Mu!State /\ st'.locked /\ ~st'.starving /\ st'.waiters = st.waiters
      /\ st'.woken <=> st.woken /\ ~loc[c].awoke
  BY <1>1, <1>2, NewStateFacts
<1>4. /\ pc' \in [Co -> Mu!Labels] /\ pc'[c] = "cs"
      /\ \A d \in Co : d # c => pc'[d] = pc[d]
  BY <1>1, MuGoes DEF Mu!Labels
<1>5. /\ loc' \in [Co -> Mu!Locals] /\ ~loc'[c].awoke /\ ~loc'[c].starving
      /\ \A d \in Co : d # c => loc'[d] = loc[d]
  BY <1>1, MuForgets
<1>6. Mu!TypeOK'
  BY <1>1, <1>3, <1>4, <1>5 DEF Mu!TypeOK
<1>7. \A k : N(k) \in Nat /\ N(k)' = N(k) + Is(pc'[c], k) - Is(pc[c], k)
  BY <1>4, MuMoves, MuFinite
<1>8. /\ N("sema")' = N("sema") /\ N("woke")' = N("woke") /\ N("grab")' = N("grab")
      /\ N("signal")' = N("signal") /\ N("cs")' = N("cs") + 1
  BY <1>1, <1>4, <1>7 DEF Is
<1>9. Modes'
  <2>1. sema + N("signal") + N("woke") + Cardinality(Awake') = Bit(st'.woken)
    BY <1>1, <1>3, <1>5, GivesWokenBack
  <2>2. NormalMode'
    BY <1>1, <1>3, <1>8, <2>1 DEF Modes, NormalMode
  <2>3. N("cs")' = 1
    BY <1>1, <1>8 DEF Modes, Bit
  <2> QED  BY <1>3, <2>2, <2>3 DEF Modes, Bit
<1>10. LocalsFit(c)'
  BY <1>5 DEF LocalsFit
<1> QED  BY <1>4, <1>5, <1>6, <1>9, <1>10, OthersFit

LEMMA CasQueueStep ==
  ASSUME MuInv, NEW c \in Co, Mu!CasQueue(c)
  PROVE  MuInv'
<1> USE DEF MuInv
<1>1. /\ pc[c] = "loop" /\ UNCHANGED sema /\ Mu!Goes(c, "sema")
      /\ loc' = [loc EXCEPT ![c] = [Mu!Fresh EXCEPT !.starving = loc[c].starving]]
      /\ st' = Mu!NewState(st, loc[c].starving, loc[c].awoke)
      /\ st.locked \/ st.starving
  BY DEF Mu!CasQueue, Mu!Proposes, Mu!Busy
<1>2. loc[c].starving \in BOOLEAN /\ loc[c].awoke \in BOOLEAN
  BY MuTyped
<1>3. /\ st' \in Mu!State
      /\ st'.locked <=> st.locked
      /\ st'.starving <=> st.starving \/ (loc[c].starving /\ st.locked)
      /\ st'.woken <=> st.woken /\ ~loc[c].awoke
      /\ st'.waiters = st.waiters + 1
  BY <1>1, <1>2, NewStateFacts
<1>4. /\ pc' \in [Co -> Mu!Labels] /\ pc'[c] = "sema"
      /\ \A d \in Co : d # c => pc'[d] = pc[d]
  BY <1>1, MuGoes DEF Mu!Labels
<1>5. /\ loc' \in [Co -> Mu!Locals] /\ ~loc'[c].awoke
      /\ \A d \in Co : d # c => loc'[d] = loc[d]
  <2>1. PICK f : f = Mu!Fresh
    OBVIOUS
  <2>2. f \in Mu!Locals /\ ~f.awoke
    BY <2>1, FreshTyped
  <2>3. PICK x : x = [f EXCEPT !.starving = loc[c].starving]
    OBVIOUS
  <2>4. x \in Mu!Locals /\ x.awoke = f.awoke
    BY <1>2, <2>2, <2>3 DEF Mu!Locals
  <2>5. loc' = [loc EXCEPT ![c] = x]
    BY <1>1, <2>1, <2>3
  <2> QED  BY <2>2, <2>4, <2>5 DEF Mu!TypeOK
<1>6. Mu!TypeOK'
  BY <1>1, <1>3, <1>4, <1>5 DEF Mu!TypeOK
<1>7. \A k : N(k) \in Nat /\ N(k)' = N(k) + Is(pc'[c], k) - Is(pc[c], k)
  BY <1>4, MuMoves, MuFinite
<1>8. /\ N("sema")' = N("sema") + 1 /\ N("woke")' = N("woke") /\ N("grab")' = N("grab")
      /\ N("signal")' = N("signal") /\ N("cs")' = N("cs")
  BY <1>1, <1>4, <1>7 DEF Is
<1>9. /\ sema \in Nat /\ N("sema") \in Nat /\ N("signal") \in Nat /\ N("woke") \in Nat
      /\ N("grab") \in Nat /\ st.waiters \in Nat
  BY <1>7 DEF Mu!TypeOK, Mu!State
<1>10. N("cs")' = Bit(st'.locked)
  BY <1>3, <1>8 DEF Modes, Bit
<1>11. ASSUME ~st.starving PROVE Modes'
  <2>1. NormalMode /\ st.locked
    BY <1>1, <1>11 DEF Modes
  <2>2. sema + N("signal") + N("woke") + Cardinality(Awake') = Bit(st'.woken)
    BY <1>3, <1>5, <1>11, GivesWokenBack
  <2>3. N("sema")' = (st.waiters + 1) + sema + N("signal")
    <3>1. N("sema") = st.waiters + sema + N("signal")
      BY <2>1 DEF NormalMode
    <3> QED  BY <1>8, <1>9, <3>1
  <2>4. CASE ~loc[c].starving
    <3>1. NormalMode'
      BY <1>1, <1>3, <1>8, <2>1, <2>2, <2>3 DEF NormalMode
    <3> QED  BY <1>3, <1>10, <1>11, <2>4, <3>1 DEF Modes
  <2>5. CASE loc[c].starving
    <3>1. loc[c].awoke
      BY <1>1, <2>5 DEF LocalsFit
    <3>2. sema = 0 /\ N("signal") = 0 /\ N("woke") = 0 /\ ~st'.woken
      BY <1>3, <3>1, AwakeWoken
    <3>3. Cardinality(Awake') = 0
      <4>1. Cardinality(Awake') \in Nat
        <5>1. Awake' \ {c} = Awake \ {c}
          BY <1>5 DEF Awake
        <5> QED  BY <5>1, MuFinite, OneMoves
      <4> QED  BY <2>2, <3>2, <4>1 DEF Bit
    <3>4. N("grab") = 0
      BY <2>1 DEF NormalMode
    <3>5. N("sema")' + N("woke")' + N("grab")' = st'.waiters
      BY <1>3, <1>8, <1>9, <2>3, <3>2, <3>4
    <3>6. sema' + N("signal")' + N("woke")' + N("grab")' = Bit(~st'.locked)
      BY <1>1, <1>3, <1>8, <2>1, <3>2, <3>4 DEF Bit
    <3>7. StarvingMode'
      BY <3>2, <3>3, <3>5, <3>6 DEF StarvingMode
    <3> QED  BY <1>3, <1>10, <2>1, <2>5, <3>7 DEF Modes
  <2> QED  BY <2>4, <2>5
<1>12. ASSUME st.starving PROVE Modes'
  <2>1. StarvingMode
    BY <1>12 DEF Modes
  <2>2. ~loc[c].awoke
    BY <1>12, AwakeWoken
  <2>3. Cardinality(Awake') = Cardinality(Awake)
    BY <1>5, <2>2, AwakeMoves, MuFinite DEF Bit
  <2>4. N("sema")' + N("woke") + N("grab") = st.waiters + 1
    <3>1. N("sema") + N("woke") + N("grab") = st.waiters
      BY <2>1 DEF StarvingMode
    <3> QED  BY <1>8, <1>9, <3>1
  <2>5. sema + N("signal") + N("woke") + N("grab") = Bit(~st'.locked)
    BY <1>3, <2>1 DEF StarvingMode, Bit
  <2>6. StarvingMode'
    BY <1>1, <1>3, <1>8, <2>1, <2>3, <2>4, <2>5 DEF StarvingMode
  <2> QED  BY <1>3, <1>10, <1>12, <2>6 DEF Modes
<1>13. LocalsFit(c)'
  BY <1>4, <1>5 DEF LocalsFit
<1> QED  BY <1>4, <1>5, <1>6, <1>11, <1>12, <1>13, OthersFit

LEMMA MuStep == MuInv /\ [Mu!Next]_muVars => MuInv'
<1> SUFFICES ASSUME MuInv, [Mu!Next]_muVars PROVE MuInv'
  OBVIOUS
<1>1. CASE UNCHANGED muVars
  <2>1. Awake' = Awake /\ \A l : N(l)' = N(l)
    BY <1>1 DEF muVars, Awake, N, MuAt
  <2>2. Modes'
    BY <1>1, <2>1, ModesKept DEF muVars, MuInv
  <2> QED  BY <1>1, <2>2 DEF muVars, MuInv, Mu!TypeOK, LocalsFit
<1>2. ASSUME NEW c \in Co, Mu!Contend(c) PROVE MuInv'
  BY <1>2, QuietStep, SpinStep, CasAcquireStep, CasQueueStep, WokeNormalStep,
     WokeStarvingStep, GrabStep DEF Mu!Contend
<1>3. ASSUME NEW c \in Co, Mu!Leave(c) PROVE MuInv'
  BY <1>3, QuietStep, UnlockStep, UnlockPassStep, SignalStep DEF Mu!Leave
<1> QED  BY <1>1, <1>2, <1>3, QuietStep, LockFastStep, WakeStep DEF Mu!Next

\* A step of the core is one of the mutex, or leaves the mutex alone.
LEMMA MuOwnStep == [CoreNext]_coreVars => [Mu!Next]_muVars
BY DEF CoreNext, UsharedMutexPart, UmutexPart, UchanPart, CobatchPart, Ends, coreVars

(* Whatever mix of fast path, spinning, normal wakeup and starving handover *)
(* coroutines take through lock() and unlock(): umutex has one holder at    *)
(* most, its three SYSFTL are unreachable, the blind addition of a handover *)
(* carries from no bit of iState into another, and the waiters it counts    *)
(* are those that wait.                                                     *)
THEOREM MutexSafe == CoreSpec => []UmutexSafe
<1>1. CoreInit => MuInv
  BY MuInitially DEF CoreInit
<1>2. MuInv /\ [CoreNext]_coreVars => MuInv'
  BY MuStep, MuOwnStep
<1> QED  BY <1>1, <1>2, MuInvSafe, PTL DEF CoreSpec, coreVars

-----------------------------------------------------------------------------
(* The refinement of Mutex, without its fairness *)

absVars == <<Mu!Wanting, Mu!Holding>>
AbsStep == [Mu!Abs!Next]_absVars
MutexSteps == Mu!Abs!Init /\ [][Mu!Abs!Next]_absVars

\* Where a coroutine stands in the abstract mutex.
Within(l) == l \in {"load", "loop", "sema", "woke", "grab"}

LEMMA HoldersEmpty ==
  ASSUME MuInv, ~st.locked
  PROVE  Mu!Holding = {}
<1>1. Cardinality(MuAt("cs")) = 0 /\ IsFiniteSet(MuAt("cs"))
  BY MuFinite DEF MuInv, Modes, N, Bit
<1> QED  BY <1>1, FS_EmptySet DEF MuAt, Mu!Holding

\* What a step of c does to the two sets.
LEMMA AbsMoves ==
  ASSUME NEW c \in Co, \A d \in Co : d # c => pc'[d] = pc[d]
  PROVE  /\ Mu!Wanting' = IF Within(pc'[c]) THEN Mu!Wanting \cup {c} ELSE Mu!Wanting \ {c}
         /\ Mu!Holding' = IF pc'[c] = "cs" THEN Mu!Holding \cup {c} ELSE Mu!Holding \ {c}
         /\ c \in Mu!Wanting <=> Within(pc[c])
         /\ c \in Mu!Holding <=> pc[c] = "cs"
BY DEF Mu!Wanting, Mu!Holding, Within

\* A step that goes neither into nor out of lock(), and does not unlock.
LEMMA AbsStutter ==
  ASSUME NEW c \in Co, \A d \in Co : d # c => pc'[d] = pc[d],
         Within(pc'[c]) <=> Within(pc[c]), pc'[c] = "cs" <=> pc[c] = "cs"
  PROVE  AbsStep
<1>1. Mu!Wanting' = Mu!Wanting /\ Mu!Holding' = Mu!Holding
  BY AbsMoves
<1> QED  BY <1>1 DEF AbsStep, absVars

\* A step that gets the free mutex, from within lock() or at the first
\* compare-and-swap.
LEMMA AbsAcquire ==
  ASSUME MuInv, NEW c \in Co, \A d \in Co : d # c => pc'[d] = pc[d],
         Within(pc[c]) \/ pc[c] = "idle", pc'[c] = "cs", ~st.locked
  PROVE  AbsStep
<1>1. Mu!Holding = {}
  BY HoldersEmpty
<1>2. Mu!Wanting' = Mu!Wanting \ {c} /\ Mu!Holding' = {c}
  BY <1>1, AbsMoves DEF Within
<1>3. CASE Within(pc[c])
  <2>1. c \in Mu!Wanting
    BY <1>3, AbsMoves
  <2>2. Mu!Abs!Acquire(c)
    BY <1>1, <1>2, <2>1 DEF Mu!Abs!Acquire
  <2> QED  BY <2>2 DEF AbsStep, Mu!Abs!Next
<1>4. CASE pc[c] = "idle"
  <2>1. c \notin Mu!Wanting
    BY <1>4, AbsMoves DEF Within
  <2>2. Mu!Wanting' = Mu!Wanting
    BY <1>2, <2>1
  <2>3. Mu!Abs!TryAcquire(c)
    BY <1>1, <1>2, <2>1, <2>2 DEF Mu!Abs!TryAcquire
  <2> QED  BY <2>3 DEF AbsStep, Mu!Abs!Next
<1> QED  BY <1>3, <1>4

LEMMA AbsWant ==
  ASSUME NEW c \in Co, \A d \in Co : d # c => pc'[d] = pc[d], pc[c] = "idle", pc'[c] = "load"
  PROVE  AbsStep
<1>1. /\ c \notin Mu!Wanting /\ c \notin Mu!Holding
      /\ Mu!Wanting' = Mu!Wanting \cup {c} /\ Mu!Holding' = Mu!Holding
  BY AbsMoves DEF Within
<1>2. Mu!Abs!Want(c)
  BY <1>1 DEF Mu!Abs!Want
<1> QED  BY <1>2 DEF AbsStep, Mu!Abs!Next

LEMMA AbsUnlock ==
  ASSUME NEW c \in Co, \A d \in Co : d # c => pc'[d] = pc[d], pc[c] = "cs",
         ~Within(pc'[c]), pc'[c] # "cs"
  PROVE  AbsStep
<1>1. /\ c \in Mu!Holding /\ Mu!Wanting' = Mu!Wanting /\ Mu!Holding' = Mu!Holding \ {c}
  BY AbsMoves DEF Within
<1>2. Mu!Abs!Unlock(c)
  BY <1>1 DEF Mu!Abs!Unlock
<1> QED  BY <1>2 DEF AbsStep, Mu!Abs!Next

LEMMA MuSimulates == MuInv /\ [Mu!Next]_muVars => AbsStep
<1> SUFFICES ASSUME MuInv, [Mu!Next]_muVars PROVE AbsStep
  OBVIOUS
<1>1. CASE UNCHANGED muVars
  BY <1>1 DEF muVars, AbsStep, absVars, Mu!Wanting, Mu!Holding
<1>2. ASSUME NEW c \in Co, NEW l \in Mu!Labels, Mu!Goes(c, l)
      PROVE  pc'[c] = l /\ \A d \in Co : d # c => pc'[d] = pc[d]
  BY <1>2, MuGoes DEF MuInv
<1>3. ASSUME NEW c \in Co, Mu!LockFast(c) \/ Mu!CasAcquire(c) \/ Mu!Grab(c)
      PROVE  AbsStep
  <2>1. pc[c] \in {"idle", "loop", "grab"} /\ Mu!Goes(c, "cs")
    BY <1>3 DEF Mu!LockFast, Mu!CasAcquire, Mu!Proposes, Mu!Grab
  <2>2. ~st.locked
    <3>1. CASE Mu!LockFast(c)
      BY <3>1, FreshTyped DEF Mu!LockFast
    <3>2. CASE Mu!CasAcquire(c)
      BY <3>2 DEF Mu!CasAcquire, Mu!Busy
    <3>3. CASE Mu!Grab(c)
      BY <3>3, MuInvSafe DEF UmutexSafe, Mu!HandoverFits, Mu!Grab
    <3> QED  BY <1>3, <3>1, <3>2, <3>3
  <2>3. pc'[c] = "cs" /\ \A d \in Co : d # c => pc'[d] = pc[d]
    BY <1>2, <2>1 DEF Mu!Labels
  <2> QED  BY <2>1, <2>2, <2>3, AbsAcquire DEF Within
<1>4. ASSUME NEW c \in Co, Mu!LockSlow(c) PROVE AbsStep
  <2>1. pc'[c] = "load" /\ \A d \in Co : d # c => pc'[d] = pc[d]
    BY <1>2, <1>4 DEF Mu!LockSlow, Mu!Labels
  <2> QED  BY <1>4, <2>1, AbsWant DEF Mu!LockSlow
<1>5. ASSUME NEW c \in Co, Mu!Unlock(c) PROVE AbsStep
  <2>1. PICK l \in {"idle", "signal", "uloop"} : Mu!Goes(c, l)
    BY <1>5 DEF Mu!Unlock
  <2>2. pc'[c] = l /\ \A d \in Co : d # c => pc'[d] = pc[d]
    BY <1>2, <2>1 DEF Mu!Labels
  <2> QED  BY <1>5, <2>2, AbsUnlock DEF Mu!Unlock, Within
<1>6. ASSUME NEW c \in Co,
             \/ Mu!Load(c) \/ Mu!Spin(c) \/ Mu!CasFail(c) \/ Mu!CasQueue(c)
             \/ Mu!Wake(c) \/ Mu!WokeNormal(c) \/ Mu!WokeStarving(c)
      PROVE  AbsStep
  <2>1. Within(pc[c])
    BY <1>6 DEF Mu!Load, Mu!Spin, Mu!CasFail, Mu!CasQueue, Mu!Proposes, Mu!Wake, Mu!WokeNormal,
                Mu!WokeStarving, Within
  <2>2. PICK l \in {"load", "loop", "sema", "woke", "grab"} : Mu!Goes(c, l)
    BY <1>6 DEF Mu!Load, Mu!Spin, Mu!CasFail, Mu!CasQueue, Mu!Wake, Mu!WokeNormal,
                Mu!WokeStarving
  <2>3. pc'[c] = l /\ \A d \in Co : d # c => pc'[d] = pc[d]
    BY <1>2, <2>2 DEF Mu!Labels
  <2> QED  BY <2>1, <2>3, AbsStutter DEF Within
<1>7. ASSUME NEW c \in Co,
             Mu!UnlockDone(c) \/ Mu!UnlockPass(c) \/ Mu!UnlockRetry(c) \/ Mu!Signal(c)
      PROVE  AbsStep
  <2>1. pc[c] \in {"uloop", "signal"}
    BY <1>7 DEF Mu!UnlockDone, Mu!UnlockPass, Mu!UnlockRetry, Mu!Signal
  <2>2. CASE Mu!UnlockRetry(c)
    BY <2>2, AbsStutter DEF Mu!UnlockRetry
  <2>3. CASE ~Mu!UnlockRetry(c)
    <3>1. PICK l \in {"idle", "signal"} : Mu!Goes(c, l)
      BY <1>7, <2>3 DEF Mu!UnlockDone, Mu!UnlockPass, Mu!Signal
    <3>2. pc'[c] = l /\ \A d \in Co : d # c => pc'[d] = pc[d]
      BY <1>2, <3>1 DEF Mu!Labels
    <3> QED  BY <2>1, <3>2, AbsStutter DEF Within
  <2> QED  BY <2>2, <2>3
<1> QED  BY <1>1, <1>3, <1>4, <1>5, <1>6, <1>7 DEF Mu!Next, Mu!Contend, Mu!Leave

(* Every step of umutex is a step of Mutex or is invisible to its callers:  *)
(* lock() takes the mutex only while nobody holds it, and nothing but       *)
(* unlock() gives it up.                                                    *)
THEOREM MutexStepsRefined == CoreSpec => MutexSteps
<1>1. CoreInit => MuInv /\ Mu!Abs!Init
  <2>1. Mu!Init => Mu!Wanting = {} /\ Mu!Holding = {}
    BY DEF Mu!Init, Mu!Wanting, Mu!Holding
  <2> QED  BY <2>1, MuInitially DEF CoreInit, Mu!Abs!Init
<1>2. MuInv /\ [CoreNext]_coreVars => MuInv' /\ [Mu!Abs!Next]_absVars
  BY MuStep, MuOwnStep, MuSimulates DEF AbsStep
<1> QED  BY <1>1, <1>2, PTL DEF CoreSpec, coreVars, MutexSteps
==============================================================================
