------------------------------- MODULE Usleeper ------------------------------
(***************************************************************************)
(* usleeper (core/usync.h, core/usync.cpp) on one uco thread: the sleep    *)
(* slots, the thread's timer infrastructure and its scheduling loop        *)
(* (core/uco.cpp), the io_uring it submits to, and wake() from other       *)
(* threads.                                                                *)
(*                                                                         *)
(* The uco thread is sequential: it is in a phase ph of schedule(), and    *)
(* while cur is a coroutine it runs that coroutine on top of the phase     *)
(* that resumed it.  Other threads and the kernel interleave with it at    *)
(* every atomic operation of the slots, of the sync list and of the ring.  *)
(* The heap is the set of its nodes; TimerHeap shows that the array in the *)
(* code is that set with a minimum at the front.                           *)
(***************************************************************************)
EXTENDS Integers, Sequences, FiniteSets, FiniteSetsExt

CONSTANTS Sleeper,    \* usleeper objects
          Co,         \* coroutines of the uco thread
          Waker,      \* other threads; each calls wake() once
          None,
          MaxNow,     \* bound: horizon of the clock, later deadlines are cut to it
          MaxDur,     \* bound: longest sleep
          Calls,      \* bound: usleeper calls of a coroutine before it returns
          SqSize      \* entries of the submission queue

ASSUME NoneIsNobody == None \notin Co \cup Sleeper
ASSUME SqSizeAssumption == SqSize \in Nat /\ SqSize > 1
ASSUME ClockAssumption == MaxNow \in Nat /\ MaxDur \in Nat

VARIABLES
  now,        \* CLOCK_MONOTONIC
  node,       \* timer_node of each usleeper: st, deadline_ns, prom
  wakes,      \* pending_wakes_ > 0
  env,        \* the timer fields and counters of thread_co_env, see Env
  kernel,     \* the ring behind the submission queue, see Kernel
  sync,       \* sync_list: coroutines other threads want resumed
  yield,      \* yield_list
  ph,         \* where schedule() is
  cur,        \* the coroutine it runs
  fireNow,    \* local now of timer_on_fire
  pc, on,     \* where each coroutine is, and the usleeper it uses
  calls,      \* usleeper calls it has left
  waker       \* where each waker is, and the coroutine it hands over

slots == <<node, wakes>>
coros == <<pc, on, calls>>
vars == <<now, node, wakes, env, kernel, sync, yield, ph, cur, fireNow,
          pc, on, calls, waker>>

Ids == 1..(2 * SqSize + 2)

\* heap: timer_heap.  io, inflight: io_event_count, timer_inflight.  armed,
\* armedDl: the timeout request last prepared and its deadline.  ts: the one
\* buffer for the durations of such requests.
\* armPending: timer_arm_pending.  sq: prepared and not yet submitted.
\* retry: retry_register_read_syncfd.
Env == [heap : SUBSET Sleeper, io : Int, inflight : Int,
        armed : Ids \cup {0}, armedDl : 0..MaxNow, ts : 0..MaxNow,
        armPending : BOOLEAN, retry : BOOLEAN,
        sq : Seq([op : {"timeout", "cancel", "read"}, id : Ids \cup {0}])]

\* req: timeout requests ticking.  timer, other: completions of timeouts and
\* of cancellations.  efd: the eventfd has been written.  reading: a read of
\* it is submitted.
Kernel == [req : SUBSET [id : Ids, due : 0..MaxNow], timer : Nat, other : Nat,
           efd : BOOLEAN, reading : BOOLEAN]

Init == /\ now = 0
        /\ node = [s \in Sleeper |-> [st |-> "IDLE", dl |-> 0, prom |-> None]]
        /\ wakes = [s \in Sleeper |-> FALSE]
        /\ env = [heap |-> {}, io |-> 0, inflight |-> 0, armed |-> 0, armedDl |-> 0,
                  ts |-> 0, armPending |-> FALSE, retry |-> FALSE, sq |-> <<>>]
        /\ kernel = [req |-> {}, timer |-> 0, other |-> 0,
                     efd |-> FALSE, reading |-> TRUE]
        /\ sync = {}
        /\ yield = Co
        /\ ph = "top"
        /\ cur = None
        /\ fireNow = 0
        /\ pc = [c \in Co |-> "ready"]
        /\ on = [c \in Co |-> None]
        /\ calls = [c \in Co |-> Calls]
        /\ waker = [w \in Waker |-> [pc |-> "idle", co |-> None]]

----------------------------------------------------------------------------
(* timer_refresh, on the thread's state e *)

Full(e) == Len(e.sq) >= SqSize
Deadline(s) == node[s].dl

\* get_sqe and a preparation.
Prep(e, op, id) == [e EXCEPT !.sq = Append(@, [op |-> op, id |-> id]), !.io = @ + 1]

\* ++timer_gen: a number no request still around carries.
FreshId(e) == Min(Ids \ ({e.sq[i].id : i \in 1..Len(e.sq)} \cup
                         {q.id : q \in kernel.req}))

\* Cancel the request in flight, if the queue has room.
CancelArmed(e) == IF e.inflight > 0 /\ ~Full(e) THEN Prep(e, "cancel", e.armed) ELSE e

\* Prepare a timeout for the front of the heap, or remember to.
Arm(e, top) ==
  IF Full(e) THEN [e EXCEPT !.armPending = TRUE]
  ELSE LET id == FreshId(e)
       IN  [Prep(e, "timeout", id) EXCEPT
              !.armed = id, !.armedDl = top, !.ts = IF top > now THEN top - now ELSE 0,
              !.inflight = @ + 1, !.armPending = FALSE]

\* Bug: an earlier front does not replace the request in flight.
RefreshLazy(e, dl) ==
  IF e.heap = {}
  THEN IF e.inflight > 0 /\ Full(e) THEN [e EXCEPT !.armPending = TRUE]
       ELSE [CancelArmed(e) EXCEPT !.armPending = FALSE]
  ELSE LET top == Min({dl[s] : s \in e.heap})
       IN  IF e.inflight > 0 THEN e ELSE Arm(CancelArmed(e), top)

\* dl: the deadlines of the nodes, as a function.
Refresh(e, dl) ==
  IF e.heap = {}
  THEN IF e.inflight > 0 /\ Full(e) THEN [e EXCEPT !.armPending = TRUE]
       ELSE [CancelArmed(e) EXCEPT !.armPending = FALSE]
  ELSE LET top == Min({dl[s] : s \in e.heap})
       IN  IF e.inflight > 0 /\ top >= e.armedDl /\ ~e.armPending
           THEN e
           ELSE Arm(CancelArmed(e), top)

Deadlines == [s \in Sleeper |-> Deadline(s)]

----------------------------------------------------------------------------
(* A coroutine of the thread *)

Runs(c) == cur = c
Goes(c, l) == pc' = [pc EXCEPT ![c] = l]
Suspends == cur' = None

\* sleep_for: a wake() that came while nobody slept makes it return at once, and
\* so does a duration that is not positive, after using up such a wake().
SleepFor(c, s, positive) ==
  /\ Runs(c) /\ pc[c] = "run" /\ calls[c] > 0
  /\ calls' = [calls EXCEPT ![c] = @ - 1]
  /\ wakes' = [wakes EXCEPT ![s] = FALSE]
  /\ IF wakes[s] \/ ~positive
     THEN UNCHANGED <<pc, on>>
     ELSE Goes(c, "claim") /\ on' = [on EXCEPT ![c] = s]
  /\ UNCHANGED <<now, node, env, kernel, sync, yield, ph, cur, fireNow, waker>>

\* The slot is taken, BUSY: nothing is written.
ClaimBusy(c) ==
  /\ Runs(c) /\ pc[c] = "claim" /\ node[on[c]].st # "IDLE"
  /\ Goes(c, "run")
  /\ on' = [on EXCEPT ![c] = None]
  /\ UNCHANGED <<now, slots, env, kernel, sync, yield, ph, cur, fireNow, calls, waker>>

\* Bug: the slot is taken over from a coroutine that sleeps there.
ClaimSteals(c) ==
  /\ Runs(c) /\ pc[c] = "claim"
  /\ node' = [node EXCEPT ![on[c]].st = "REGISTERING"]
  /\ Goes(c, "register")
  /\ UNCHANGED <<now, wakes, env, kernel, sync, yield, ph, cur, fireNow, on, calls, waker>>

\* CAS IDLE -> REGISTERING.
Claim(c) ==
  /\ Runs(c) /\ pc[c] = "claim" /\ node[on[c]].st = "IDLE"
  /\ node' = [node EXCEPT ![on[c]].st = "REGISTERING"]
  /\ Goes(c, "register")
  /\ UNCHANGED <<now, wakes, env, kernel, sync, yield, ph, cur, fireNow, on, calls, waker>>

\* Fill the node in, publish PARKED, timer_push and suspend.
Park(c, d) ==
  LET s == on[c]
      dl == Min({now + d, MaxNow})
      push == [env EXCEPT !.heap = @ \cup {s}]
  IN  /\ Runs(c) /\ pc[c] = "register"
      /\ node' = [node EXCEPT ![s] = [st |-> "PARKED", dl |-> dl, prom |-> c]]
      /\ env' = Refresh(push, [Deadlines EXCEPT ![s] = dl])
      /\ Goes(c, "parked") /\ Suspends
      /\ UNCHANGED <<now, wakes, kernel, sync, yield, ph, fireNow, on, calls, waker>>

\* await_resume: timer_remove if the node is still in the heap, free the slot.
AwaitResume(c) ==
  LET s == on[c]
      rest == [env EXCEPT !.heap = @ \ {s}]
  IN  /\ Runs(c) /\ pc[c] = "resumed"
      /\ env' = IF s \in env.heap THEN Refresh(rest, Deadlines) ELSE env
      /\ node' = [node EXCEPT ![s].st = "IDLE", ![s].prom = None]
      /\ Goes(c, "run") /\ on' = [on EXCEPT ![c] = None]
      /\ UNCHANGED <<now, wakes, kernel, sync, yield, ph, cur, fireNow, calls, waker>>

\* wake() by a coroutine of the same thread: no eventfd is needed.
CoWake(c, s) ==
  /\ Runs(c) /\ pc[c] = "run" /\ calls[c] > 0
  /\ calls' = [calls EXCEPT ![c] = @ - 1]
  /\ IF node[s].st = "PARKED"
     THEN /\ node' = [node EXCEPT ![s].st = "WOKEN"]
          /\ sync' = sync \cup {node[s].prom}
          /\ UNCHANGED wakes
     ELSE /\ wakes' = [wakes EXCEPT ![s] = TRUE]
          /\ UNCHANGED <<node, sync>>
  /\ UNCHANGED <<now, env, kernel, yield, ph, cur, fireNow, pc, on, waker>>

Finish(c) ==
  /\ Runs(c) /\ pc[c] = "run"
  /\ Goes(c, "done") /\ Suspends
  /\ UNCHANGED <<now, slots, env, kernel, sync, yield, ph, fireNow, on, calls, waker>>

----------------------------------------------------------------------------
(* schedule(), while it runs no coroutine *)

At(l) == ph = l /\ cur = None
Idle == <<now, slots, kernel, sync, yield, fireNow, coros, waker>>

NothingToDo == env.io = 0 /\ sync = {} /\ yield = {}
TimerActive == env.heap # {} \/ env.inflight > 0 \/ env.armPending

\* The exit test at the head of the loop.
Top == /\ At("top")
       /\ ph' = IF NothingToDo /\ ~TimerActive THEN "exit" ELSE "sync"
       /\ env' = IF NothingToDo /\ TimerActive THEN Refresh(env, Deadlines) ELSE env
       /\ UNCHANGED <<cur, Idle>>

\* Resume a coroutine of the sync list.
ResumeSync(c) == /\ At("sync") /\ c \in sync
                 /\ sync' = sync \ {c}
                 /\ cur' = c
                 /\ Goes(c, "resumed")
                 /\ UNCHANGED <<now, slots, env, kernel, yield, ph, fireNow,
                                on, calls, waker>>

\* pop() finds nothing: sync_list_empty is set, and the list not looked at again.
SyncEmpty == /\ At("sync") /\ sync = {}
             /\ ph' = "yield"
             /\ UNCHANGED <<env, cur, Idle>>

\* The yield list is drained, whatever arrives in the sync list meanwhile.
ResumeYield(c) == /\ At("yield") /\ c \in yield
                  /\ yield' = yield \ {c}
                  /\ cur' = c
                  /\ Goes(c, "run")
                  /\ UNCHANGED <<now, slots, env, kernel, sync, ph, fireNow,
                                 on, calls, waker>>

\* Prepare the read of the eventfd, or set the retry flag.
RegisterRead(e) == IF Full(e) THEN [e EXCEPT !.retry = TRUE]
                   ELSE [Prep(e, "read", 0) EXCEPT !.io = e.io, !.retry = FALSE]

\* The inner loop ends on the flag set before the yield list ran.  Retry what the
\* full submission queue has refused.
Retry == /\ At("yield") /\ yield = {}
         /\ LET e == IF env.armPending THEN Refresh(env, Deadlines) ELSE env
            IN  env' = IF e.retry THEN RegisterRead(e) ELSE e
         /\ ph' = "io"
         /\ UNCHANGED <<cur, Idle>>

Entries(op) == {env.sq[i].id : i \in {j \in 1..Len(env.sq) : env.sq[j].op = op}}
Count(op) == Cardinality({j \in 1..Len(env.sq) : env.sq[j].op = op})

\* io_uring_submit_and_wait: the kernel takes the entries.  A timeout reads its
\* duration from the shared buffer, and begins to tick, only now; a cancellation
\* completes, and so does the request it finds.
Submit ==
  LET due == Min({now + env.ts, MaxNow})
      all == kernel.req \cup {[id |-> i, due |-> due] : i \in Entries("timeout")}
      hit == {q \in all : q.id \in Entries("cancel")}
  IN  /\ At("io") /\ env.io > 0
      /\ kernel' = [kernel EXCEPT !.req = all \ hit,
                                  !.timer = @ + Cardinality(hit),
                                  !.other = @ + Count("cancel"),
                                  !.reading = @ \/ Count("read") > 0]
      /\ env' = [env EXCEPT !.sq = <<>>]
      /\ ph' = "wait"
      /\ UNCHANGED <<now, slots, sync, yield, cur, fireNow, coros, waker>>

\* No request is out: do not enter the kernel.
SkipIo == /\ At("io") /\ env.io = 0
          /\ ph' = "top"
          /\ UNCHANGED <<env, cur, Idle>>

EfdReady == kernel.reading /\ kernel.efd
Ready == kernel.timer > 0 \/ kernel.other > 0 \/ EfdReady

\* Blocked until a completion; with the eventfd unread, for 1 ms at most.
Waited == /\ At("wait")
          /\ Ready \/ env.retry
          /\ ph' = "cqe"
          /\ UNCHANGED <<env, cur, Idle>>

\* A completion of a cancellation.
CqeOther == /\ At("cqe") /\ kernel.other > 0
            /\ kernel' = [kernel EXCEPT !.other = @ - 1]
            /\ env' = [env EXCEPT !.io = @ - 1]
            /\ UNCHANGED <<now, slots, sync, yield, ph, cur, fireNow, coros, waker>>

\* The eventfd was read: read it again, next time.
CqeSync == /\ At("cqe") /\ EfdReady
           /\ kernel' = [kernel EXCEPT !.efd = FALSE, !.reading = FALSE]
           /\ env' = RegisterRead(env)
           /\ UNCHANGED <<now, slots, sync, yield, ph, cur, fireNow, coros, waker>>

\* Bug: the completion is counted, and timer_on_fire is left out.
CqeTimerOnlyCounted ==
  /\ At("cqe") /\ kernel.timer > 0
  /\ kernel' = [kernel EXCEPT !.timer = @ - 1]
  /\ env' = [env EXCEPT !.io = @ - 1, !.inflight = @ - 1]
  /\ UNCHANGED <<now, slots, sync, yield, ph, cur, fireNow, coros, waker>>

\* A timeout is over, expired or cancelled: timer_on_fire begins.
CqeTimer == /\ At("cqe") /\ kernel.timer > 0
            /\ kernel' = [kernel EXCEPT !.timer = @ - 1]
            /\ env' = [env EXCEPT !.io = @ - 1, !.inflight = @ - 1]
            /\ fireNow' = now
            /\ ph' = "fire"
            /\ UNCHANGED <<now, slots, sync, yield, cur, coros, waker>>

Front(s) == s \in env.heap /\ \A u \in env.heap : Deadline(s) <= Deadline(u)

\* Pop the front; CAS PARKED -> EXPIRED and resume it, unless wake() was first.
Fire(s) ==
  /\ At("fire") /\ Front(s) /\ Deadline(s) <= fireNow
  /\ env' = [env EXCEPT !.heap = @ \ {s}]
  /\ IF node[s].st = "PARKED"
     THEN /\ node' = [node EXCEPT ![s].st = "EXPIRED"]
          /\ cur' = node[s].prom
          /\ Goes(node[s].prom, "resumed")
     ELSE UNCHANGED <<node, cur, pc>>
  /\ UNCHANGED <<now, wakes, kernel, sync, yield, ph, fireNow, on, calls, waker>>

FireDone == /\ At("fire")
            /\ \A s \in env.heap : Deadline(s) > fireNow
            /\ env' = Refresh(env, Deadlines)
            /\ ph' = "cqe"
            /\ UNCHANGED <<cur, Idle>>

CqeDone == /\ At("cqe") /\ ~Ready
           /\ ph' = "top"
           /\ UNCHANGED <<env, cur, Idle>>

----------------------------------------------------------------------------
(* Other threads, and the kernel *)

\* wake(): CAS PARKED -> WOKEN, or count the wake for the next sleep_for.
Wake(w, s) ==
  /\ waker[w].pc = "idle"
  /\ IF node[s].st = "PARKED"
     THEN /\ node' = [node EXCEPT ![s].st = "WOKEN"]
          /\ waker' = [waker EXCEPT ![w] = [pc |-> "push", co |-> node[s].prom]]
          /\ UNCHANGED wakes
     ELSE /\ wakes' = [wakes EXCEPT ![s] = TRUE]
          /\ waker' = [waker EXCEPT ![w].pc = "done"]
          /\ UNCHANGED node
  /\ UNCHANGED <<now, env, kernel, sync, yield, ph, cur, fireNow, coros>>

\* push_sync_node_to_thread.
WakePush(w) == /\ waker[w].pc = "push"
               /\ sync' = sync \cup {waker[w].co}
               /\ waker' = [waker EXCEPT ![w] = [pc |-> "write", co |-> None]]
               /\ UNCHANGED <<now, slots, env, kernel, yield, ph, cur, fireNow, coros>>

WakeWrite(w) == /\ waker[w].pc = "write"
                /\ kernel' = [kernel EXCEPT !.efd = TRUE]
                /\ waker' = [waker EXCEPT ![w].pc = "done"]
                /\ UNCHANGED <<now, slots, env, sync, yield, ph, cur, fireNow, coros>>

Tick == /\ now < MaxNow
        /\ now' = now + 1
        /\ UNCHANGED <<slots, env, kernel, sync, yield, ph, cur, fireNow, coros, waker>>

\* A timeout expires.
Expire(q) == /\ q \in kernel.req /\ q.due <= now
             /\ kernel' = [kernel EXCEPT !.req = @ \ {q}, !.timer = @ + 1]
             /\ UNCHANGED <<now, slots, env, sync, yield, ph, cur, fireNow, coros, waker>>

----------------------------------------------------------------------------
CoStep(c) == \/ \E s \in Sleeper : \/ CoWake(c, s)
                                   \/ \E positive \in BOOLEAN : SleepFor(c, s, positive)
             \/ ClaimBusy(c) \/ Claim(c)
             \/ \E d \in 1..MaxDur : Park(c, d)
             \/ AwaitResume(c) \/ Finish(c)

Schedule == \/ Top \/ (\E c \in Co : ResumeSync(c) \/ ResumeYield(c))
            \/ SyncEmpty \/ Retry \/ Submit \/ SkipIo \/ Waited
            \/ CqeOther \/ CqeSync \/ CqeTimer
            \/ (\E s \in Sleeper : Fire(s)) \/ FireDone \/ CqeDone

Thread == Schedule \/ \E c \in Co : CoStep(c)

WakerStep(w) == WakePush(w) \/ WakeWrite(w)

Next == \/ Thread
        \/ \E w \in Waker : WakerStep(w) \/ \E s \in Sleeper : Wake(w, s)
        \/ Tick
        \/ \E q \in kernel.req : Expire(q)

(***************************************************************************)
(* The uco thread runs, time passes, the kernel expires what is due and a  *)
(* thread inside wake() finishes it.  Nobody has to call wake().           *)
(***************************************************************************)
Fairness == /\ WF_vars(Thread)
            /\ WF_vars(Tick)
            /\ WF_vars(\E q \in kernel.req : Expire(q))
            /\ \A w \in Waker : WF_vars(WakerStep(w))

Spec == Init /\ [][Next]_vars /\ Fairness

----------------------------------------------------------------------------
TypeOK == /\ now \in 0..MaxNow
          /\ node \in [Sleeper -> [st : {"IDLE", "REGISTERING", "PARKED", "WOKEN", "EXPIRED"},
                                   dl : 0..MaxNow, prom : Co \cup {None}]]
          /\ wakes \in [Sleeper -> BOOLEAN]
          /\ env.heap \subseteq Sleeper /\ env.io \in Nat /\ env.inflight \in Nat
          /\ kernel.timer \in Nat /\ kernel.other \in Nat
          /\ sync \subseteq Co /\ yield \subseteq Co
          /\ cur \in Co \cup {None}
          /\ on \in [Co -> Sleeper \cup {None}]

(***************************************************************************)
(* At most one sleep per usleeper, and every suspended one has exactly one *)
(* waker: a PARKED slot is in the heap, a WOKEN one is with its waker or   *)
(* in the sync list, never both, and nobody else is handed over.           *)
(***************************************************************************)
OneWakeup ==
  /\ \A c, d \in Co : on[c] = on[d] /\ pc[c] \in {"register", "parked", "resumed"}
                                    /\ pc[d] \in {"register", "parked", "resumed"} => c = d
  /\ \A c \in Co : pc[c] = "parked" =>
       LET s == on[c]
           handing == Cardinality({w \in Waker : waker[w].co = c})
       IN  /\ node[s].prom = c
           /\ \/ node[s].st = "PARKED" /\ s \in env.heap /\ handing = 0 /\ c \notin sync
              \/ node[s].st = "WOKEN" /\ handing + (IF c \in sync THEN 1 ELSE 0) = 1
  /\ \A c \in sync : pc[c] = "parked"
  /\ \A s \in env.heap : node[s].st \in {"PARKED", "WOKEN"}

(***************************************************************************)
(* io_event_count and timer_inflight are exactly the requests prepared,    *)
(* ticking or completed and not yet seen: the thread neither blocks with   *)
(* nothing to wait for nor leaves with something outstanding.              *)
(***************************************************************************)
CountersExact ==
  LET ticking == Cardinality(kernel.req)
      timeouts == Count("timeout") + ticking + kernel.timer
  IN  /\ env.inflight = timeouts
      /\ env.io = timeouts + Count("cancel") + kernel.other

\* c is woken, but its waker has not put it into the sync list yet.
InTransit(c) == \E w \in Waker : waker[w].co = c

(***************************************************************************)
(* schedule() returns only when no coroutine sleeps, except one that       *)
(* wake() has taken and not yet put into the sync list.                    *)
(***************************************************************************)
ExitLeavesNoSleeper ==
  ph = "exit" => /\ \A c \in Co : pc[c] = "done" \/ pc[c] = "parked"
                 /\ \A c \in Co : pc[c] = "parked" => node[on[c]].st = "WOKEN"

(***************************************************************************)
(* Every sleep ends, by wake() or by its deadline, although one timeout    *)
(* request serves all sleeps of the thread, is replaced when the front     *)
(* changes, and may be refused by a full submission queue.  (What a thread *)
(* that has left schedule() does with a sleeper is ExitLeavesNoSleeper.)   *)
(***************************************************************************)
SleepsEnd == \A c \in Co : pc[c] = "parked" ~> pc[c] # "parked" \/ ph = "exit"

Blocked == At("wait") /\ ~Ready /\ ~env.retry

(***************************************************************************)
(* A thread blocked in the kernel with sleepers in its heap waits there    *)
(* for a request made for the first of them or for an earlier deadline,    *)
(* unless the submission queue was full when the front changed: schedule() *)
(* retries before it submits, so the retry can fail again, and the thread  *)
(* blocks on the old request.                                              *)
(***************************************************************************)
NoOversleep ==
  Blocked /\ ~env.armPending /\ env.heap # {}
    => /\ \E q \in kernel.req : q.id = env.armed
       /\ \A s \in env.heap : env.armedDl <= Deadline(s)

Writing == \E w \in Waker : waker[w].pc = "write"

(***************************************************************************)
(* A coroutine that is runnable while the thread blocks is about to be     *)
(* announced by its waker's write of the eventfd, or a coroutine of the    *)
(* yield list woke it, and then its sleep is still in the heap: its own    *)
(* deadline, that of NoOversleep, ends the block at the latest.            *)
(***************************************************************************)
LeftoverIsTimed == Blocked => \A c \in sync : Writing \/ on[c] \in env.heap

(***************************************************************************)
(* The loop can trust its own books: they count what the ring owes it;     *)
(* when it blocks, no later than the first deadline of its sleepers ends   *)
(* it, the woken ones included, unless a retry of the timeout request is   *)
(* pending; and when it leaves, only sleepers that wake() has taken and    *)
(* not yet handed over are left.                                           *)
(***************************************************************************)
LoopExact == CountersExact /\ NoOversleep /\ LeftoverIsTimed /\ ExitLeavesNoSleeper

(***************************************************************************)
(* usync.h: the winner of the arbitration is responsible for the one       *)
(* wakeup, without a race, and no wakeup is lost.  A woken sleeper         *)
(* therefore resumes.                                                      *)
(***************************************************************************)
WokenResumes ==
  \A c \in Co : pc[c] = "parked" /\ InTransit(c) ~> pc[c] # "parked"
==============================================================================
