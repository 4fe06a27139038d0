------------------------------ MODULE RedisLock ------------------------------
(***************************************************************************)
(* core/uredis.cpp, ulock: a lock that is a key of a redis server with a   *)
(* time to live.  Several lock objects compete for one key; each has user  *)
(* coroutines and, if armed, a watchdog that renews the key.               *)
(*                                                                         *)
(*   TryAcquire  cmd_mtx { stopped? owned? -> connect -> SET NX PX -> reply}*)
(*   Acquire     TryAcquire until it succeeds, or its deadline passes      *)
(*   Release     cmd_mtx { stopped? -> forget token -> EVAL del -> reply } *)
(*   do_renew    cmd_mtx { stopped? owned? -> EVAL pexpire -> reply }      *)
(*   watchdog    sleep -> stopped? close the connection, exit : do_renew   *)
(*   Close       stopped -> forget token -> close, or wake the watchdog    *)
(*                                                                         *)
(* The network delays commands: one that timed out at the client may still *)
(* reach the server, or never does.  Expiry can come at any time.  A       *)
(* critical section of token_mtx is part of the step around it.            *)
(***************************************************************************)
EXTENDS Naturals, FiniteSets

CONSTANTS Lock, User, Watchdog,
          LockOf,      \* the lock a user or a watchdog works on
          Calls,       \* what a user calls: "acquire", "release", "renew"
          MaxTokens    \* bound, per lock: attempts that send SET

VARIABLES key,        \* the server's key: the tokens stored there (0 or 1)
          wire,       \* commands the server has not seen yet
          reply,      \* answers on their way, per actor a set
          token, conn, stopped,
          attempts,   \* tokens gen_token() has made for each lock
          pc, op,
          sending,    \* the token of an actor's command, as a set
          expired     \* history: tokens whose key has expired

lockVars == <<key, wire, reply, token, conn, stopped, attempts, pc, op, sending,
              expired>>
serverVars == <<key, wire, reply, expired>>

Actor == User \union Watchdog
Armed(l) == \E w \in Watchdog : LockOf[w] = l

Init == /\ key = {}
        /\ wire = {}
        /\ reply = [a \in Actor |-> {}]
        /\ token = [l \in Lock |-> {}]
        /\ conn = [l \in Lock |-> "none"]
        /\ stopped = [l \in Lock |-> FALSE]
        /\ attempts = [l \in Lock |-> 0]
        /\ pc = [a \in Actor |-> IF a \in Watchdog THEN "sleep" ELSE "idle"]
        /\ op = [a \in Actor |-> IF a \in Watchdog THEN "renew" ELSE "none"]
        /\ sending = [a \in Actor |-> {}]
        /\ expired = {}

Goes(a, l) == pc' = [pc EXCEPT ![a] = l]

Idles(u) == /\ Goes(u, "idle")
            /\ op' = [op EXCEPT ![u] = "none"]

\* A call ends with the given result; Acquire tries again after a failure.
Returns(a, ok) ==
  IF a \in Watchdog THEN Goes(a, "sleep") /\ UNCHANGED op
  ELSE IF ~ok /\ op[a] = "acquire" THEN Goes(a, "retry") /\ UNCHANGED op
  ELSE Idles(a)

InCommand(l) == {a \in Actor : LockOf[a] = l /\ pc[a] \in {"connect", "command"}}

Acquiring(a) == op[a] = "acquire"

\* The command goes out; the coroutine waits for its reply.
Sends(a, cmd, t) == /\ wire' = wire \union {[by |-> a, cmd |-> cmd, token |-> t]}
                    /\ sending' = [sending EXCEPT ![a] = {t}]
                    /\ Goes(a, "command")
                    /\ UNCHANGED <<key, reply, expired>>

SendsSet(a) == LET l == LockOf[a]
               IN  /\ attempts[l] < MaxTokens[l]
                   /\ attempts' = [attempts EXCEPT ![l] = @ + 1]
                   /\ Sends(a, "set", <<l, attempts'[l]>>)

----------------------------------------------------------------------------
(* Calls: Acquire, Release and ReNew.  TryAcquire is an Acquire that gives   *)
(* up after its first attempt.                                             *)

Call(u) == /\ pc[u] = "idle"
           /\ \E o \in Calls[u] :
                op' = [op EXCEPT ![u] = o]
           /\ Goes(u, "mtx")
           /\ UNCHANGED <<serverVars, token, conn, stopped, attempts, sending>>

\* Bug: cmd_mtx is not taken.
EntersUnlocked(a) == pc[a] = "mtx"

\* cmd_mtx is free: only its holder connects or awaits a reply.
Enters(a) == pc[a] = "mtx" /\ InCommand(LockOf[a]) = {}

\* The early returns of TryAcquire, Release and do_renew.
EnterStopped(a) == /\ Enters(a)
                   /\ stopped[LockOf[a]]
                   /\ Returns(a, FALSE)
                   /\ UNCHANGED <<serverVars, token, conn, stopped, attempts, sending>>

EnterOwned(a) == /\ Enters(a)
                 /\ ~stopped[LockOf[a]]
                 /\ Acquiring(a) <=> token[LockOf[a]] # {}
                 /\ Returns(a, Acquiring(a))
                 /\ UNCHANGED <<serverVars, token, conn, stopped, attempts, sending>>

\* TryAcquire: a missing or broken connection is closed and made anew.
EnterConnect(a) == LET l == LockOf[a]
                   IN  /\ Enters(a)
                       /\ ~stopped[l]
                       /\ Acquiring(a) /\ token[l] = {}
                       /\ conn[l] # "ok"
                       /\ conn' = [conn EXCEPT ![l] = "none"]
                       /\ Goes(a, "connect")
                       /\ UNCHANGED <<serverVars, token, stopped, attempts, op,
                                      sending>>

EnterSet(a) == LET l == LockOf[a]
               IN  /\ Enters(a)
                   /\ ~stopped[l]
                   /\ Acquiring(a) /\ token[l] = {}
                   /\ conn[l] = "ok"
                   /\ SendsSet(a)
                   /\ UNCHANGED <<token, conn, stopped, op>>

\* uconnect() returns; nothing looks at stopped again.
Connected(a) == LET l == LockOf[a]
                IN  /\ pc[a] = "connect"
                    /\ conn' = [conn EXCEPT ![l] = "ok"]
                    /\ SendsSet(a)
                    /\ UNCHANGED <<token, stopped, op>>

ConnectFails(a) == /\ pc[a] = "connect"
                   /\ Returns(a, FALSE)
                   /\ UNCHANGED <<serverVars, token, conn, stopped, attempts, sending>>

\* Release forgets the token before the command goes out, do_renew keeps it;
\* without a usable connection both forget it and nothing is sent.
EnterOwner(a) ==
  LET l == LockOf[a]
  IN  /\ Enters(a)
      /\ ~stopped[l]
      /\ ~Acquiring(a) /\ token[l] # {}
      /\ token' = IF op[a] = "release" \/ conn[l] # "ok"
                  THEN [token EXCEPT ![l] = {}] ELSE token
      /\ IF conn[l] = "ok"
         THEN \E t \in token[l] : Sends(a, IF op[a] = "release" THEN "del" ELSE "renew", t)
              /\ UNCHANGED op
         ELSE Returns(a, FALSE) /\ UNCHANGED <<serverVars, sending>>
      /\ UNCHANGED <<conn, stopped, attempts>>

----------------------------------------------------------------------------
(* Replies *)

\* Bug: a renewal the server refuses leaves the token in place.
RepliedKeeps(a) ==
  LET l == LockOf[a]
  IN  /\ pc[a] = "command"
      /\ \E ok \in reply[a] :
           /\ reply' = [reply EXCEPT ![a] = {}]
           /\ token' = [token EXCEPT ![l] = IF Acquiring(a) /\ ok THEN sending[a] ELSE @]
           /\ Returns(a, ok)
      /\ sending' = [sending EXCEPT ![a] = {}]
      /\ UNCHANGED <<key, wire, expired, conn, stopped, attempts>>

Replied(a) ==
  LET l == LockOf[a]
  IN  /\ pc[a] = "command"
      /\ \E ok \in reply[a] :
           /\ reply' = [reply EXCEPT ![a] = {}]
           /\ token' = [token EXCEPT ![l] = IF Acquiring(a) /\ ok THEN sending[a]
                                            ELSE IF op[a] = "renew" /\ ~ok THEN {}
                                            ELSE @]
           /\ Returns(a, ok)
      /\ sending' = [sending EXCEPT ![a] = {}]
      /\ UNCHANGED <<key, wire, expired, conn, stopped, attempts>>

\* Timeout or error: the connection is broken and a late reply is dropped.
CommandFails(a) ==
  LET l == LockOf[a]
  IN  /\ pc[a] = "command"
      /\ conn' = [conn EXCEPT ![l] = IF @ = "ok" THEN "broken" ELSE @]
      /\ token' = IF op[a] = "renew" THEN [token EXCEPT ![l] = {}] ELSE token
      /\ Returns(a, FALSE)
      /\ reply' = [reply EXCEPT ![a] = {}]
      /\ sending' = [sending EXCEPT ![a] = {}]
      /\ UNCHANGED <<key, wire, expired, stopped, attempts>>

\* The pause of Acquire; its deadline may have passed.
Retry(u) == /\ pc[u] = "retry"
            /\ \/ Goes(u, "mtx") /\ UNCHANGED op
               \/ Idles(u)
            /\ UNCHANGED <<serverVars, token, conn, stopped, attempts, sending>>

----------------------------------------------------------------------------
(* The watchdog and Close *)

WatchdogTick(w) ==
  LET l == LockOf[w]
  IN  /\ pc[w] = "sleep"
      /\ ~stopped[l]
      /\ Goes(w, IF token[l] = {} THEN "sleep" ELSE "mtx")
      /\ UNCHANGED <<serverVars, token, conn, stopped, attempts, op, sending>>

\* Without cmd_mtx.
WatchdogStops(w) ==
  LET l == LockOf[w]
  IN  /\ pc[w] = "sleep"
      /\ stopped[l]
      /\ conn' = [conn EXCEPT ![l] = "none"]
      /\ Goes(w, "exit")
      /\ UNCHANGED <<serverVars, token, stopped, attempts, op, sending>>

Close(l) == /\ ~stopped[l]
            /\ stopped' = [stopped EXCEPT ![l] = TRUE]
            /\ token' = [token EXCEPT ![l] = {}]
            /\ conn' = IF Armed(l) THEN conn ELSE [conn EXCEPT ![l] = "none"]
            /\ UNCHANGED <<serverVars, attempts, pc, op, sending>>

----------------------------------------------------------------------------
(* The server (external) *)

Answer(c, ok) ==
  reply' = IF pc[c.by] = "command" /\ c.token \in sending[c.by]
           THEN [reply EXCEPT ![c.by] = {ok}] ELSE reply

\* Bug: the release script deletes the key whoever holds it.
ServeUnchecked == \E c \in wire :
         /\ wire' = wire \ {c}
         /\ key' = CASE c.cmd = "set" /\ key = {} -> {c.token}
                     [] c.cmd = "del" -> {}
                     [] OTHER -> key
         /\ Answer(c, IF c.cmd = "set" THEN key = {} ELSE c.token \in key)
         /\ UNCHANGED <<expired, token, conn, stopped, attempts, pc, op, sending>>

\* SET NX, and the scripts that compare the token first.
Serve == \E c \in wire :
         /\ wire' = wire \ {c}
         /\ key' = CASE c.cmd = "set" /\ key = {} -> {c.token}
                     [] c.cmd = "del" -> key \ {c.token}
                     [] OTHER -> key
         /\ Answer(c, IF c.cmd = "set" THEN key = {} ELSE c.token \in key)
         /\ UNCHANGED <<expired, token, conn, stopped, attempts, pc, op, sending>>

Expire == /\ key # {}
          /\ key' = {}
          /\ expired' = expired \union key
          /\ UNCHANGED <<wire, reply, token, conn, stopped, attempts, pc,
                         op, sending>>

----------------------------------------------------------------------------
Step(a) == \/ EnterStopped(a)
           \/ EnterOwned(a)
           \/ EnterConnect(a)
           \/ EnterSet(a)
           \/ Connected(a)
           \/ ConnectFails(a)
           \/ EnterOwner(a)
           \/ Replied(a)
           \/ CommandFails(a)

WatchdogStep(w) == WatchdogTick(w) \/ WatchdogStops(w)

Next == \/ \E u \in User : Call(u) \/ Retry(u)
        \/ \E a \in Actor : Step(a)
        \/ \E w \in Watchdog : WatchdogStep(w)
        \/ \E l \in Lock : Close(l)
        \/ Serve
        \/ Expire

\* Coroutines are resumed, every command ends with a reply or its timeout,
\* cmd_mtx is granted to a coroutine that keeps asking (umutex hands over).
Fairness == /\ \A a \in Actor : SF_lockVars(Step(a))
            /\ \A w \in Watchdog : WF_lockVars(WatchdogStep(w))

Spec == Init /\ [][Next]_lockVars /\ Fairness

----------------------------------------------------------------------------
(* Properties *)

(***************************************************************************)
(* One command at a time uses a lock's connection.  A lock object that     *)
(* believes it holds the key holds it, unless the key has expired; so of   *)
(* two that believe it one is right at most, the other has an expiry to    *)
(* learn of.  Replies and deletes may come late (TryAcquire, Release).     *)
(***************************************************************************)
OwnershipHonest ==
  /\ \A l \in Lock : /\ Cardinality(InCommand(l)) <= 1
                     /\ token[l] \subseteq {t \in key \union expired : t[1] = l}
  /\ \A k, l \in Lock : k # l /\ token[k] # {} /\ token[l] # {}
                         => (token[k] \union token[l]) \intersect expired # {}

(***************************************************************************)
(* A key that a command takes from the server was set by the lock whose    *)
(* actor sent that command, and no lock object owns it any more: however   *)
(* late the delete of Release arrives, it takes the key neither from       *)
(* another lock nor from a later acquisition of its own.                   *)
(***************************************************************************)
NoForeignDelete ==
  [][wire' # wire =>
       \A t \in key \ key' : /\ \E c \in wire \ wire' : LockOf[c.by] = t[1]
                             /\ \A l \in Lock : t \notin token[l]]_lockVars

Lost(l) == token[l] # {} /\ token[l] # key

\* An armed lock whose key is gone learns of it.
LossNoticed == \A l \in {k \in Lock : Armed(k)} : Lost(l) ~> (~Lost(l) \/ stopped[l])
==============================================================================
