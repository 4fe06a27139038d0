# Verification of uco

uco is a C++20 coroutine runtime over io_uring with an HTTP server, Redis and
MySQL clients and a small user application on top. This directory holds TLA+
models of its core and of the services on it, TLC configurations that check them on small instances, and
TLAPS proofs. `PROJECT.json` maps every definition to the source lines it models
and lists the runs, the mutants (a plausible bug for every property, which TLC
must find), the findings and the hazards.

    tlc -config MCUsema.cfg MCUsema        # one run; the others likewise
    tlapm UsemaProofs.tla                  # the proofs; the other *Proofs likewise

## 1. Inventory

A *uco thread* is an operating-system thread with a `thread_co_env`: it runs
coroutines one at a time from `schedule()`. Two coroutines of one thread switch
only at `co_await`; coroutines of different threads interleave at every atomic
operation. What crosses threads: the synchronisation objects of `usync`, the
lock-free `sync_list` of a thread (coroutines other threads want resumed), its
eventfd, and ordinary `std::mutex`es in the pools, sessions and limiters.

| Component | State | Operations | What is hard | Correct when |
|---|---|---|---|---|
| `usema` (core/usync) | count, nwait, waiter list, killed, spin lock | wait, try_wait, signal, kill_broadcast | unlocked look at nwait against the re-check of count; kill against late waiters | no lost wakeup, one owner per suspended coroutine, every wait of a killed semaphore returns |
| `umutex` | one word: locked, woken, starving, waiters; a usema | lock, try_lock, unlock | three ways in (fast, spinning, woken), blind addition on handover | exclusion, fatal branches unreachable, nobody stranded |
| `ushared_mutex` | a umutex, two counters, two usema | lock, lock_shared, try_*, unlock* | writer registers while readers leave; permits without owner | writer alone, counters exact, both sides make progress |
| `usleeper` and the timer of a thread | slot state and node; heap, one timeout request, counters | sleep_for, wake; push, remove, fire, refresh | wake against expiry against reuse of the slot, full submission queue | each sleep is woken once and ends; no thread blocks past a deadline or leaves a sleeper |
| `schedule()` | yield and sync lists, io_event_count, pending requests | exit test, resume, submit, completions | exit test against other threads' pushes; counter of requests | never blocks for nothing, never leaves early |
| `uredis::upool`, `usql::upool` | permits, idle, all, closed, announced waits | Acquire, Release, Close, reaper | connecting without the lock, Close in the middle of everything | permits conserved, at most max_size, one borrower, Close frees all |
| `uchan` | slot or ring, two or three semaphores, closed | write, read, close | close against blocked writers, permits taken by another waiter | every slot accounted for, end of file is final, close ends every read |
| `cobatch` (with `ucond`, `uthread` around it) | a thread's flag, slots, tasks | add, start, wait, run, dispatch | batches nested in tasks of batches | bound kept, run() covers all tasks, every batch ends |
| `thread_pool` | one queue, closed flag, workers | addtask, execute, worker loop, close | submission against close, two closers | every accepted task is run or answered once, close is final |
| `uredis::ulock` | token, key with a time to live, watchdog | TryAcquire, Acquire, Release, renew, Close | commands that arrive late, expiry, Close in flight | only the own key is deleted, a lost lock is noticed |
| Redis/MySQL clients, `utransaction` | connection: error number, unread answer, open transaction | statement, begin/commit/rollback | a timeout or a lost answer in the middle | a connection reused is in step; success means done |
| `ulog`, `ulogshm`, `ulogcsm` | shared-memory ring | append, consume, rotate | writers in several processes, a crash between reserve and publish | no torn or lost record |
| HTTP server | workers, descriptors, client count; routes | accept, serve, signal, shut down; register, match | shutdown against closing clients; overlapping routes | shuts down only its own clients, returns after the last; the best route is found |
| HTTP connection, request, response | buffer and offsets, handler chain, content | read, parse, chain, header, send | requests cut by reads, content set twice, ranges | parsing independent of the cut, Content-length is what is sent |
| file cache | LRU, opens in flight, descriptors | GetResource, put, evict | eviction while sending, callers that join an open | a descriptor is open on its path; one opener per path |
| sessions, CSRF | cookie id, flags, values; Redis | load, issue, check, Rotate, Destroy, Save | concurrent requests of one session, failing store | a login that was answered stays; login only under a new id |
| rate limiter | counter and window per key | Allow, reject | window read before the lock | limit per window, up to late requests |
| user application | users, password hashes, sessions | register, login | unique names by concurrent requests | one account per name, no false success |
| config, strings, buffers, rendering, daemon, hooks, lint plug-in | | | | data handling and process set-up |

`PROJECT.json` gives every component its status and the reason when it is left
out. All rows but logging and the last are modelled, some as far as the rows
above use them (`ucond`, the clients).

## 2. Modules

    Semaphore  <--implements--  Usema
       ^  used by Umutex, UsharedMutex, ConnPool
    Mutex      <--implements--  Umutex
       ^  used by UsharedMutex
    TimerSet   <--implements--  TimerHeap
       ^  used by Usleeper
    UsharedMutex    Usleeper    ConnPool
    SemaValue: a usema as a value (permits and killed), for modules with several
       ^  used by Uchan, Cobatch, HttpServer
    ThreadPool    RedisLock
    HttpRequest -> RouteTree -> HttpConnection -> ResourcePool
    Session    RateLimit    UserStore
    UsemaProofs, MutexProofs (umutex, ushared_mutex), CoreProofs (uchan, cobatch),
    UsleeperProofs, ConnPoolProofs, ServicesProofs and RequestsProofs hold the
    proofs; they share Counting, lemmas on the size of a set one member of which
    moves and on queues

Composition is by contract. A detailed module is shown to implement an abstract
one, and the modules above it are written over the abstract one: a
`usema` inside another primitive is a number of permits that goes to *any*
waiting coroutine. This matters: in the code a permit can be taken by a
`try_wait` or by a newcomer's spin before the coroutine it was meant for runs.

**Semaphore / Usema.** Variables are the fields of `usema_impl` plus a program
counter per waiter and signaller and the coroutines a signaller has popped and
not yet pushed (`hand`). `wait()` is spin (`SpinTake`, `SpinFail`), lock
(`WaitKilled`, `WaitRegister`), recheck (`RecheckTake`, `RecheckFail`), push
and suspend (`Enqueue`, at either end); `signal()` is `SigPublish`, the
unlocked look `SigCheck`, then `SigNobody` or `SigPop` and `Push`;
`kill_broadcast()` is `Kill` and its pushes. The spin lock is held between
`WaitRegister` and the end of `wait()`.

**Mutex / Umutex.** `iState` is a record of its bits. One action per atomic
operation: `LockFast`, `Load`, `Spin`, the three outcomes of the
compare-and-swap, `Wake` from the semaphore, the normal and the starving
wakeup, the blind addition (`Grab`), and `unlock()` with its loop. Whether a
wait exceeded 1 ms is a free choice at the wakeup.

**UsharedMutex.** Writers take `w_`, register by turning `readers_` negative,
add the readers they found to `reader_wait_`, and wait; readers leave through
`ReadUnlock`, `CountDown`, `SignalWriter`. `behind` is a history variable.

**TimerSet / TimerHeap.** The array and the `idx` fields. An action starts each
member function, and each round of its loops (`SiftUp`, `SiftDown`, `FirePops`) is a
step; `sift` says which loop is at which entry, and nothing but that loop moves
until it ends. The firing is the exception: it resumes a coroutine in each round, and
that coroutine may push its node again before the next one.

**Usleeper.** One uco thread, its ring and other threads that call `wake()`. `ph`
is the place in `schedule()`, `cur` the coroutine it runs. `env` is
`thread_co_env`'s timer fields, counters and submission queue, `kernel` the ring
behind it (external). The sync list is drained until `pop()` finds nothing
(`SyncEmpty`), then the yield list, and then the loop goes on to block without
another look at the sync list, as the flag in the code has it. One eventfd, one shared buffer for the duration of timeout
requests, and the retry flags are as in the code.

**ConnPool.** One module for both pools, which have the same critical sections
in the same order (usql uses `mysql_errno` where uredis has `broken`).
Connections are addresses that `uconnect` may allocate again after `uclose`.

**Uchan.** Buffered and unbuffered channel in one module (size 0 is the
rendezvous): every semaphore operation and every critical section of a write, a
read and `close()` is a step. A writer caught by `close()` ends the process
(`Terminated`), as the `SYSFTL` in the code does.

**Cobatch.** The batches of one thread: `dispatch` submits up to the limit,
collects and finishes; with the thread's flag set it runs the tasks serially.
Which task starts which batch is a constant.

**ThreadPool.** `addTask` and the worker loop under the mutex and the condition
variable (with spurious wakeups), the semaphore of `execute()`, and `close()`.

**RedisLock.** Lock objects on one key. A command is sent, may be delivered
at any later time or never (`wire`), and its answer may be lost; the server and
the expiry of the key are external. `cmd_mtx` is the place `InCommand`.

**HttpServer.** Workers with their accept loop, client routines and
`peek_exit()`. The coroutines of a worker share a thread, so a step runs from one
suspension to the next; descriptor numbers are reused as the kernel does.

**RouteTree.** `__insert` as a map from node paths to handlers, `dfsMatch` as a
recursive function, compared with a reference that only knows which patterns fit
and which is preferred.

**HttpRequest.** A byte stream over x, CR, LF and a few header marks, handed over
in reads of any length; `ParseLine` with its saved offset, the state machine of
`Parse`, and a reference that reads the stream in one piece.

**HttpConnection.** One request on a connection from its dispatch to its
answer: redirect and error pages, the handler chain with `Next()` and
`Abort()`, each content a handler may set, ranges, the header, and `usendfile()`
through its pipe. Contents are numbers; a file is its size.

**ResourcePool.** `GetResource` with the joined opens, the LRU list and reference
counts: a descriptor is closed when the last holder lets go of it.

**Session.** Requests of one browser that overlap; each suspends at its Redis
commands, which may fail before or after the server applied them. The handlers
of `csrf.cpp` and `controller/user.cpp` are the chain. `alive`, `made`,
`unrotated` and `blind` are history variables.

**RateLimit.** Threads read the clock, then take the mutex; `newest` and `late`
are history variables that say how many requests came with an old window.

**UserStore.** Service, DAO and SQL client over pooled connections. A connection is
the error number, the unread answer and the open transaction, which is what
decides on its reuse.

## 3. Runs

Modules that share no state are checked by one run: a variable `part` says which
of them moves, and the others stay in their initial states (MCCore, MCServices,
MCRequests). The sizes are constants of these modules, given in the cfg files; the
proofs leave them open. Where fairness is assumed no fair step of a resting part is enabled
in its initial state, so the fairness of the moving part is all there is.

| Run | Bounds | Shows |
|---|---|---|
| usema | 3 waiters, 2 signallers, 1 permit, count at most 2 | `OneOwner`, `NwaitCounts`, `NoLostWakeup`; `KilledWaitsReturn`; `ImplementsSemaphore`, with progress |
| core | ushared_mutex: 2 writers, 3 readers; umutex: 3 coroutines, 1 spin round; uchan: sizes 0, 1, 2, 2 senders, 2 receivers, 1 write each; cobatch: 4 batches of 3 tasks, 2 at a time | `RwExclusion`, `NeverFatal`, `DrainCounts`, `RwProgress`; `UmutexSafe`, `ImplementsMutex` with progress; `UchanSafe`, `CloseEndsReads`; `CobatchSafe`, `BatchesEnd` |
| services | 2 workers, 2 clients, 2 descriptors; pool of 2 threads with a queue of 1, 2 callers, 2 closers; 2 locks, one with a watchdog | `HttpServerSafe`, `SignalEndsServer`; `ThreadPoolSafe`, `CallsEnd`; `OwnershipHonest`, `NoForeignDelete`, `LossNoticed` |
| usleeper | 2 sleepers, 2 coroutines with 2 calls each, 1 waker, clock to 2, submission queue of 2 | `OneWakeup`, `LoopExact` (counters exact, no oversleep, what is left in the sync list has a deadline, exit leaves no sleeper); `SleepsEnd` |
| conn_pool | 3 clients, 3 addresses, max_size 2, min_idle 0 | `PermitsConserved`, `AtMostMaxSize`, `OnePlace`; `CloseFreesWaiters`, `CloseClosesAll` |
| requests | see the head of MCRequests and its cfg; timers: 6 nodes, 2 deadlines | `SplitIndependent`, `MatchIsBest`, `ResponseExact`, `ResourcesShared`, `SessionKept`, `LoginKeyed`, `WindowBounded`, `AccountsSafe`; `WellFormed`, `ImplementsTimerSet` |
| shared_mutex_note, usleeper_exit, conn_pool_close, session_login, session_load, sql_result | the least that shows it | the findings of section 6, one each |

Why the bounds are enough for the interesting cases. Two signallers and three
waiters are needed for a signal to pop while another is between the publication
and its look at nwait, with a third coroutine that takes the permit by
spinning. Three coroutines let a newcomer spin against a starving handover
while another waits. Two writers are needed for a permit released by one to be
taken behind the other. Two senders compete for the rendezvous of an unbuffered
channel and for the one slot of the smallest ring; three tasks over a limit of two make a
slot be reused, and a batch is nested in a serial one. Two workers and two
descriptor numbers let the exit of one meet the number another has just been
given. A queue of one is full with one task. Two locks on one key make a late
command of the first meet the key of the second. Six nodes are the least with
which a replacement taken from the end belongs under another subtree and must
move *up*. A submission queue of two is full after one cancellation and one
timeout, so deferred arming happens. Three clients on two permits make one wait
while others connect and release. Three requests of a browser are the login with
its token and one that overlaps it or follows; a file of seven bytes over a pipe of two and
chunks of four takes several rounds of splices, of one byte or two each; a cache of one entry evicts on
every second path. The lock with the watchdog has one token in TLC, since two multiply
the states under fairness; that a late delete spares a later acquisition of the
same lock is proved for any number (`OnlyOwnDelete`).

In requests the timer nodes are interchangeable, and `RequestsView` tells TLC so:
it keeps every field of every node and forgets only which node is which. The
other parts have no symmetry declared.

Named bounds: `MaxCount` stops `signal()`, `MaxSpin` stands for MAX_SPIN = 32,
`MaxReaders` for kMaxReaders (any value above the number of readers), `MaxNow`,
`MaxDur`, `Calls` and `SqSize` in Usleeper, `MaxDl` in TimerHeap. In Usleeper
deadlines are cut to the horizon of the clock, which only makes
sleeps end together more often. `MaxWrites` in Uchan, `MaxTokens` in RedisLock,
`MaxRoutes` in RouteTree, `MaxSets` in HttpConnection, `MaxFresh` and `MaxReqs` in
Session and `MaxWindow` and `MaxCalls` in RateLimit bound calls of the
environment.

Deadlock is checked except where the program may stop: the usleeper runs (the
thread leaves `schedule()`), the pool runs (a closed pool with nobody inside) and
requests (all requests of the bound are answered). In core and services the parts
that may come to an end have a step that does nothing (`Ends`); that they end in
the right place is what the liveness properties say.

The fault sets of `requests` leave two faults out, each because the code does not
survive it: `poll` in UserStore (finding 6) and `rollback` (section 6, notes).

## 4. Fairness

Weak with one exception, and only for what must happen by itself: a coroutine that is not
suspended runs on its thread, a thread inside `signal()` or `wake()` finishes it,
the kernel expires a timeout that is due, the clock advances, a connect returns
(it has a timeout), a holder or borrower gives back. For a semaphore the
fairness is that *somebody* waiting is served when a permit is there, never a
given coroutine: spinning newcomers may overtake. A handler of the HTTP server
returns and a read of a socket that was shut down returns; a command to Redis is
answered or times out; a worker of the pool that is notified runs. Nobody has to
call an operation, and no peer or server has to answer.
The exception is `RedisLock`: an actor that asks for `cmd_mtx` finds it free only now
and then, and its steps are strongly fair because `cmd_mtx` is a umutex, whose
starving mode hands the mutex over to a waiter. `LossNoticed` needs it.
`KilledWaitsReturn` needs weak fairness of each waiter's own steps only, since
the lock of the semaphore is not held for ever.

## 5. Proofs

`UsemaProofs` proves, for every finite set of waiters and signallers and every
number of permits (assumptions `FiniteActors` and `PermitsNat` of `Usema`):

- `TypeCorrect`: `Spec => []TypeOK`;
- `SingleOwnership`: `Spec => []OneOwner`, a suspended coroutine is queued once or
  in one signaller's hand;
- `NwaitExact`: `Spec => []NwaitCounts`;
- `WakeupsKept`: `Spec => []NoLostWakeup`;
- `SemaphoreSafety`: the initial states and every step of `Usema` are those
  of `Semaphore` under the refinement mapping, or stutter.

The inductive invariant `IInv` conjoins the four properties with what they need:
`OneHolder` (one coroutine has the spin lock: otherwise two registrations could
be between ++nwait and the push), `HandInPush` (a hand is non-empty only
while its signaller pushes: otherwise an idle signaller's next pop would drop
coroutines) and `KilledQueueEmpty` (after the kill nobody enters the queue; it is
the reason nwait = 0 stays exact). The proof of `NoLostWakeup` counts: for a
queue that is not empty, the permits are at most the signallers that will still come for the
lock plus the waiters that will look at count again. `AddOne` and `RemoveOne`
are the two cardinality facts each action needs; a signaller that leaves in
`SigCheck` or `SigNobody` does so when nobody is queued, and `RecheckCounted`
shows that nwait > 0 whenever somebody is.

`ConnPoolProofs` proves, for every finite set of clients and addresses and every
`MaxSize > 0` and `MinIdle` (assumptions `SizesAssumption`, `ClientsFinite` and
`NoneIsNoConn` of `ConnPool`):

- `TypeCorrect`, `PermitsKept` (`PermitsConserved`), `SizeBounded`
  (`AtMostMaxSize`) and `SinglePlace` (`OnePlace`).

Its invariant adds to these properties `OnlyCloseCloses` (an open pool owes no
signal and has no victim: needed when Close() sets wake to the announced waits),
`HasWhenHeld` (which places in the code come with a connection) and `HeldLive`
(what a client or the reaper has is a live connection: a fresh address
therefore collides with none of them). `OneMoves` of `Counting` says how the
number of clients in a set of places changes when one client moves; with it each
action is one line of arithmetic. The size bound is the interesting one:
it needs that *all* is the idle connections and the lent ones (`OnePlace`), so
that with nothing idle there are at most as many connections as borrowers
(`RoomForOneMore`), each of whom has a permit, and so has the client that is
about to connect.

`MutexProofs` proves of `ushared_mutex`, for every finite set of writers and readers and every
`MaxReaders` above the number of readers (assumptions `ActorsFinite`,
`MaxReadersLarge` and `NoneIsNoWriter` of `UsharedMutex`):

- `TypeCorrect`, `CountsExact` (`DrainCounts`), `WriterAlone` (`RwExclusion`) and
  `FatalUnreachable` (`NeverFatal`).

`DrainCounts` alone is not inductive: it says that a writer is inside only when
reader_wait_ has come down to zero, if nothing else lets it in. `OneSignal` says
that nothing does: before the writer has added r the count is not positive, so
no reader signals early; while it waits, exactly one signal is on its way or in
the semaphore once the count is zero, and none before; at all other times there
is none left over. `OneHolder` (the contract of `w_`) makes the stage of *the*
writer well defined, so each step of a writer becomes a change of stage
(`WriterMoves`) and each step of a reader a change of four sizes (`Counts`).
Exclusion follows: a writer inside means reader_wait_ = 0, which counts the
readers inside. That kMaxReaders exceeds the readers is what makes the sign of
readers_ tell whether a writer is registered.

`MutexProofs` proves of `umutex`, for every finite set of coroutines (`CoreFinite` of
`MCCore`) and any bound on spinning:

- `MutexSafe` (`UmutexSafe`: exclusion, no fatal branch, no carry in the blind
  addition, waiters counted);
- `MutexStepsRefined`: the initial states and every step are those of `Mutex`, or
  stutter.

The invariant `MuInv` reads the word `iState` as an account. In normal mode the
woken bit is worth exactly one coroutine on its way back: a permit still to be
signalled, a permit in the semaphore, a coroutine that took it, or one that
competes again with `awoke` set; and every coroutine in the semaphore is in the
waiter count or has been released. In starving mode a clear locked bit is worth
one coroutine to which the mutex is being handed, and the waiter count includes
it, which is why the blind addition finds what it subtracts. `LocalsFit` ties the
local copies to these modes: without it a stale `old` could clear a woken bit
that belongs to another coroutine. Each action is one change of the counts
(`OneMoves`), and the change of mode in the two wakeups is where the two accounts
have to agree.

`CoreProofs` proves, for any finite number of coroutines, any channel size, any
number of tasks and any nesting of batches (`CoreFinite`, `CoreNumbers`):

- `ChanSafe` (`UchanSafe`). `Slots` is the account of a channel that is open:
  every slot is a permit, a writer that has one, an item or a reader that gives
  one back, and every item is announced or about to be. It stops at `close()`,
  which kills the semaphores (`KillsAfterClose`); what remains true for ever is
  the bound and `Delivered`: whatever a write accepted is in the channel or was
  taken, and a reader sees end of file only on a closed, empty channel;
- `BatchSafe` (`CobatchSafe`). `FlagExact` says that the thread's flag is set exactly
  while one batch dispatches concurrently, `InOrder` that a batch has submitted a
  prefix of its tasks, `SlotsExact` that a slot is free or has a running task and
  that a task that ended is collected or its signal is there, and `NestedFirst`
  that a task with a batch inside it ends after that batch.

`ServicesProofs` proves, for any number of workers, descriptors, callers, closers,
locks, users and watchdogs and any finite number of clients (`ClientsFinite`,
`PoolHasWorker`, `LockActors` of `MCServices`):

- `ServerSafe` (`HttpServerSafe`). Two clients that hold a descriptor hold
  different ones (`FdsApart`), a worker's set is exactly the descriptors of the
  clients it serves (`SetHolds`), so the exit of a worker shuts down nothing that
  was given out again; `RoutinesCounted` makes the client count exact, and by
  `ExitOrder` a worker stops accepting only after `peek_exit()` and returns at
  count zero;
- `PoolSafe` (`ThreadPoolSafe`). A task is in the queue once or in one worker's hand
  (`TasksApart`, `Hands`), `TaskStates` relates the place of a caller to where its
  task is and how often it ran, and `Closing` says that a closed pool has a
  closer at work or no thread left;
- `LockHonest` (`OwnershipHonest`) and `OnlyOwnDelete` (`NoForeignDelete`, an action
  property). A lock has one command at a time (`OneCommand`); the token it owns is
  its own and that of the key, unless that key has expired (`TokensStored`), and there is one
  key (`OneKey`), so of two locks that own one an expiry is to blame; a command carries a
  token its lock generated before, while it is sent (`SendsOwn`) and for as long as it
  is on the wire, where it may arrive after its sender gave up (`WireOld`). So a
  new token meets no command under way, and while TryAcquire awaits the reply
  to its SET no other command carries that token: a positive reply means that
  the server stored it and only expiry can have taken it since (`RepliesMean`). A delete on
  the wire carries a token no lock owns (`DelsForgotten`): Release forgets it first, and
  tokens are not made twice, so the key it takes belongs to nobody, the lock that
  sent it included.

The objects of one run share no variable, so each has an inductive invariant of its own and a step
of another object leaves it alone.

`UsleeperProofs` proves, for any number of usleepers, coroutines and waking
threads, any submission queue of more than one entry and any horizon of the
clock (`NoneIsNobody`, `SqSizeAssumption`, `ClockAssumption` of `Usleeper`):

- `TypeCorrect`, `WakeupOnce` (`OneWakeup`) and `LoopBooks` (`LoopExact`).

`WakeInv`, for the first, says for each place of a coroutine which state its slot
is in and who owes the wakeup (`CoInv`, `SlotInv`, `WakerInv`); `OneHolder` gives
a slot one coroutine and `OneWinner` lets one thread win a compare-and-swap.
`LoopInv`, for the second, is an account of requests: the two counters are the
entries prepared, in the kernel and completed (`Books`), and timeouts have distinct numbers,
every one but the armed one being cancelled (`Named`). So the kernel
never holds more than one timeout over a submission, numbers cannot run out
(`Fresh`: the 2 * SqSize + 2 of `Ids` are no bound on the behaviour), and the
armed request is in time for the first deadline whenever no retry is pending
(`Served`). `RefreshKeeps` is the lemma all of them rest on: each outcome of
`refresh_timer`, with room in the submission queue or without, keeps the account.
`LeftInv` is about a thread that goes on to block although a coroutine of the yield list
has put a woken one into its sync list: either a write of the eventfd is under way or
seen, or the sleep of the coroutine is still in the heap, where `Served` bounds the wait
by its deadline. `LoopBooks` has one exception, stated in it: a retry of the timeout
request that is pending.

`RequestsProofs` proves, for every value of the constants of `MCRequests`, the parts of
the run requests that are state machines. They share no variable; each has an
inductive invariant of its own.

- `LimitKeptPerWindow` (`WindowBounded`; any threads, keys, limit and table, by
  `LimitNumbers`). The bound of a window is not inductive, since an entry may be thrown
  out, overwritten by an older window or made again. `Accounted` keeps for every
  window and key what more than the late requests can account for: the count of the
  entry, nothing if the entry of the newest window is gone, one limit in an older one.
- `HeapStaysWellFormed` (`WellFormed`) and `HeapImplementsSet` (`ImplementsTimerSet`, the
  whole refinement; any nodes and deadlines, by `DeadlineNumbers`). `TimerInv` says what
  is true between two rounds of a loop: the array is in order but for the entry on its
  way, which may be earlier than its parent or later than its children, and what is
  above that entry is in order with what is below it. The last clause is why
  a node that replaces one in the middle may move either way and nothing else has to.
  That the front is the earliest of all, which the firing relies on, is proved from
  the order by a least counterexample.
- `OpenFilesShared` (`ResourcesShared`; any callers, paths, descriptors and capacity). A
  path in flight has exactly one opener and is not cached from the miss to the put; who
  waits has an opener that has yet to set done; and what refers to a descriptor, the
  list or a caller, finds it open on its path, so closing what nobody refers to
  closes nothing in use.
- `AccountsStaySafe` (`AccountsSafe`; any clients, names, vids and passwords), for faults among
  error, lost and timeout. The two faults left out are those the library does not
  report, and with them the property is false (finding 6 and the note on ROLLBACK).
  `CallsOk` says that a connection with an answer to come carries a client error, by
  which `Release` destroys it, and what a call at each place knows of the table;
  `RowsDistinct` includes the rows of open transactions.
- `LoginSurvives` (`SessionKept`) and `LoginUnderItsKey` (`LoginKeyed`; any requests
  in flight, whichever commands fail, by `FreshNumber`). `RequestOk` says what a request
  knows between two Redis commands: a session that was loaded carries the login of its id,
  one not found has no login to lose, what is about to be written has the age of its
  kind. `RotatingSecret` says that the id a Rotate() in progress has made is known to no
  other request: without it another save could reach the key before the login is answered.
- `ResponsesExact` (`ResponseExact`; any chain, requests, file, pipe, chunk and keep-alive
  count, by `ConnectionNumbers`: the size of a file is a size_t, a connection serves at
  least one request). `ContentInv` says that while handlers run the response is what
  the last of them set; `InOrder` that every handler entered is behind
  m_iCurHandleIndex, so none runs twice; `SendInv` follows `usendfile()`: what was sent
  lies between the start of the range and `offset`, which never passes the end of the file.
  So when the end point is the end of the file the bytes are exactly those promised, in
  whatever parts they went; a range that ends before it is out in full, and more may follow.

Only model-checked, and why:

- every liveness property (`KilledWaitsReturn`, `RwProgress`, `CloseEndsReads`,
  `BatchesEnd`, `SignalEndsServer`, `CallsEnd`, `LossNoticed`, `SleepsEnd`,
  `CloseFreesWaiters`, `CloseClosesAll`) and the fairness half of the refinements
  (`ImplementsSemaphore`, `ImplementsMutex`): the prover has no rules for fairness;
- `MatchIsBest` and `SplitIndependent`, which compare `dfsMatch` and the parser with a
  reference over every path and every stream: what a recursive function computes
  for all inputs takes induction over data, which the provers do not have;
- `NewReadersWait`, `WokenResumes`, `ReleasedOnce` and the other properties of the
  violation runs, which do not hold.

## 6. Findings

1. **Readers overtake a registered writer** (`usync.h:88`, run
   shared_mutex_note). A reader that arrives behind the second writer takes the
   permit that the first writer's unlock released for a reader which had counted
   itself and not yet reached the semaphore. Exclusion and the counters
   hold all the same: `DrainCounts` is stated so that it holds through it.
2. **A woken sleeper can be abandoned** (`uco.cpp:327`, run usleeper_exit). The
   deadline passes between the compare-and-swap of `wake()` and its push; the
   firing pops the node and leaves the resumption to `wake()`; nothing counts the
   coroutine, and the thread leaves `schedule()`.
3. **`upool::Close` and `Release` both delete a lent connection**
   (`uredis.cpp:715` and 671, run conn_pool_close; usql the same).
4. **A failed Rotate() leaves login state under the old id** (`session.cpp:901`,
   run session_login). Rotate() puts the old id back and the session stays dirty;
   Login answers 500 and returns, and the save at the end of the chain stores it.
5. **A failed load does not keep Save() from overwriting** (`session.cpp:823`, run
   session_load). The two flags Save() looks at change only together, so its test
   never holds; the token of SessionIssue is then saved over the login.
   `SessionKept` shows that this is the only way a request loses another's login.
6. **A failed poll is reported as success** (`usql.cpp:78`, run sql_result).

Noted and not a finding of a run; for most of them no line of the repository says
otherwise, or the line says too little:

- `schedule()` retries a deferred timeout before it submits, so with the queue
  still full the thread may block on the old, later request; `LoopExact` excludes
  the states with the retry pending and `SleepsEnd` shows that the sleep ends.
- A thread can block with a runnable coroutine in its sync list. A coroutine of the
  yield list that calls `wake()` for a sleeper of its own thread writes no eventfd
  (`uco.cpp:694`), and the loop tests a flag set before the yield list ran
  (`uco.cpp:366`, 384), so the comment above the blocking call ("sync_co_list 已经排空",
  drained, `uco.cpp:407`) does not hold then. TLC finds the state when asked for
  `Blocked => \A c \in sync : Writing`; `LoopExact` and `SleepsEnd` show what remains:
  the sleep ends at its own deadline at the latest.
- The watchdog of a lock closes its connection outside `cmd_mtx` (`uredis.cpp:802`), so
  after `Close()` a command of a user may still await its reply on it, though the
  comment at `uredis.cpp:786` says that none is in progress.
- The comment at `usync.h:416` says a non-positive duration does not use up a
  pending wake; the code uses it up first.
- A write to an unbuffered channel can return before its own value was taken: the
  permit of `_M_read_done` goes to any writer.
- `ulock::Acquire` without a deadline goes on after `Close()`.
- `usendfile()` asks splice for its whole count after each part
  (`uio.cpp:558`). Whenever a part was smaller than the range, which a splice may be even if
  the range fits the pipe, bytes behind the range can be sent. `ResponseExact` says
  that what ends with its file is exact and of other ranges that no byte is missing.
- bytes=0-0 leaves the two range fields at the value for no range: the status is 206
  and the whole file is sent, with its own length.
- `HttpRequest::Reset` drops what was read beyond the request, so a client that
  sends the next request early loses it.
- A ROLLBACK that times out passes no `fill_error`, and the connection goes back
  with an answer to come (`usql.cpp:825`; the fault `rollback` of UserStore).
- A DEL that fails in `Save()` returns before the cookie is expired, though
  `controller/user.cpp:183` expects the cookie to be cleared in any case.
- The rate limiter adds Retry-After to any `HttpException` of the chain behind it,
  also of a request it let through (`ratelimit.cpp:132`).

## 7. What could follow

1. The rest of `schedule()`: `wait_sqe_list`, `sync_event_count`, ordinary I/O.
2. The shared-memory log ring between processes.
3. Connections of ConnPool under UserStore, so that the pool's bounds and the state
   of a connection meet in one module.
4. `MatchIsBest` and `SplitIndependent` for all inputs, with a prover that has induction.

## 8. Not modelled

Formatting, rendering, JSON and templates, configuration, logging, process set-up, interposed
library calls and the lint plug-in: sequential data handling without a property a
model checker adds to. The older `ushared_mutex` is compiled out. Memory
ordering weaker than sequential consistency is not modelled: `usema` and
`umutex` use the default order on the words the argument is about. The grain below
a coroutine (promises, frames) is abstracted to a program counter. Of the user
application change of password, QueryByVid and `main` are left out; of the HTTP
layer, cookies, forms and multipart bodies are data that no property tells apart, and
numbers of a range too large for the int they are stored in are not sent. `MatchIsBest`
takes the names of parameters from the tree, where the first route registered at a place
decides them.
