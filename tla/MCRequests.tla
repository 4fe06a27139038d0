----------------------------- MODULE MCRequests ------------------------------
(***************************************************************************)
(* What is checked without fairness: the parts that serve one request, the *)
(* request parser, the routes, a connection, the file cache, sessions, the *)
(* rate limiter and the user table, and the timer heap of a thread.  They  *)
(* share no state, so a behaviour is a behaviour of one of them (part)     *)
(* while the others rest in their initial states.                          *)
(*                                                                         *)
(*   parser      every stream of three to six bytes of x, CR and LF, and   *)
(*               requests with headers, bodies and a successor, cut up by  *)
(*               reads of any length                                       *)
(*   routes      literals, parameters and wildcards that overlap, in a     *)
(*               group with middleware and outside; up to three of them    *)
(*   connection  three handlers; a file of several pipes and of more than  *)
(*               one chunk; a wrapping counter; two requests a connection  *)
(*   resources   three callers, two paths and a cache of one entry         *)
(*   session     two requests of one browser in flight, three in all       *)
(*   limiter     two threads, three keys and a table of two, two windows   *)
(*   users       two clients that want the same name                       *)
(*   timers      six nodes and two deadlines, the least with which a node  *)
(*               that replaces a removed one has to move up                *)
(***************************************************************************)
EXTENDS Integers, Sequences, FiniteSets

CONSTANTS Parts,
          Handlers, FileSize, Pipe, Chunk, SizeMod, KeepAliveCount, Request, MaxSets,
          FileCaller, FilePath, Fd, Cap,
          Req, SessionFaults, MaxFresh, MaxReqs,
          Thread, Key, Limit, MaxKeys, MaxWindow, MaxCalls,
          Client, User, Password, Vid, SqlFaults,
          Node, MaxDl

\* Sizes of the rate limiter; its clock has started.
ASSUME LimitNumbers == Limit \in Nat /\ MaxKeys \in Nat /\ MaxWindow \in Nat \ {0}

\* There is a deadline.
ASSUME DeadlineNumbers == MaxDl \in Nat \ {0}

\* A connection serves a request; a file's size is a size_t; parts are not
\* empty; -1 is a number that is left out of a range.
ASSUME ConnectionNumbers ==
  /\ {FileSize, SizeMod, Pipe, Chunk, KeepAliveCount} \subseteq Nat
  /\ FileSize < SizeMod /\ Pipe > 0 /\ Chunk > 0 /\ KeepAliveCount > 0
  /\ \A q \in Request : {q.range.lo, q.range.hi} \subseteq Nat \union {-1}

\* How many ids and tokens a behaviour generates.
ASSUME FreshNumber == MaxFresh \in Nat

VARIABLES part,
          stream, got, base, rd, scan, state, lines, contentLength, reqKeeps, result,
          names, handles, added,
          pc, req, rsp, keepAlive, reqCount, idx, depth, entered, sets, last, length,
          sent, offset, total, remain,
          lru, inFlight, file, cs,
          store, jar, fresh, sliding, begun, rs, alive, made, unrotated, blind,
          window, entries, th, calls, passed, newest, late,
          rows, idle, cl, told,
          heap, nodeIdx, dl, inHeap, sift, firing

-----------------------------------------------------------------------------
(* The instances *)

R == "R"
N == "N"
Blank == <<"x", R, N>>
MCStreams ==
  {Blank} \union UNION {[1..n -> {"x", R, N}] : n \in 4..6} \union
  {<<"x", R, N, "L", R, N, R, N, "b">>, <<"x", R, N, "C", R, N, R, N, "x">>,
   <<"x", R, N, "y", R, N, R, N>>, <<"x", R, N, R, N, "x", R, N, R, N>>}
Prs == INSTANCE HttpRequest WITH Streams <- MCStreams, offset <- scan, keepAlive <- reqKeeps

Lit(v) == [k |-> "s", v |-> v]
Par(v) == [k |-> "p", v |-> v]
Wld(v) == [k |-> "w", v |-> v]
MCGroup == {[prefix |-> <<>>, middleware |-> <<>>],
            [prefix |-> <<Lit("a")>>, middleware |-> <<101, 102>>]}
MCRoute == {<<>>, <<Lit("a")>>, <<Par("p")>>, <<Wld("r")>>, <<Lit("a"), Lit("b")>>,
            <<Par("p"), Lit("b")>>, <<Lit("a"), Par("q")>>, <<Par("q"), Wld("r")>>}
MCPath == UNION {[1..n -> {"a", "b"}] : n \in 0..3}
Tree == INSTANCE RouteTree WITH Group <- MCGroup, Route <- MCRoute, Path <- MCPath,
          MaxRoutes <- 3

Asks(good, path, head, keep, range) ==
  [good |-> good, path |-> path, head |-> head, keep |-> keep, range |-> range]
Whole == [given |-> FALSE, ok |-> TRUE, lo |-> 0, hi |-> 0]
Plain == Asks(TRUE, "routed", FALSE, TRUE, Whole)
MCRanges == [given : {TRUE}, ok : {TRUE}, lo : {-1, 0, 6}, hi : {-1, 0, 2, 9}]
            \union [given : {TRUE}, ok : {FALSE}, lo : {0}, hi : {0}]
MCRequest ==
  {Asks(FALSE, "routed", FALSE, TRUE, Whole)}
  \union {Asks(TRUE, path, FALSE, TRUE, Whole) : path \in {"unsafe", "slash", "unknown"}}
  \union {Asks(TRUE, "routed", head, keep, Whole) : head, keep \in BOOLEAN}
  \union {Asks(TRUE, "routed", FALSE, TRUE, g) : g \in MCRanges}
Con == INSTANCE HttpConnection
Res == INSTANCE ResourcePool WITH Caller <- FileCaller, Path <- FilePath
Ses == INSTANCE Session WITH Faults <- SessionFaults,
         Ops <- {"issue", "login", "register", "logout", "page"}
Lim == INSTANCE RateLimit
Usr == INSTANCE UserStore WITH Faults <- SqlFaults, Ops <- {"register", "login", "txn"}
Tmr == INSTANCE TimerHeap WITH idx <- nodeIdx

-----------------------------------------------------------------------------
(* One of them runs *)

parserVars == <<stream, got, base, rd, scan, state, lines, contentLength, reqKeeps, result>>
treeVars == <<names, handles, added>>
connVars == <<pc, req, rsp, keepAlive, reqCount, idx, depth, entered, sets, last, length,
              sent, offset, total, remain>>
cacheVars == <<lru, inFlight, file, cs>>
sessVars == <<store, jar, fresh, sliding, begun, rs, alive, made, unrotated, blind>>
limitVars == <<window, entries, th, calls, passed, newest, late>>
userVars == <<rows, idle, cl, told>>
timerVars == <<heap, nodeIdx, dl, inHeap, sift, firing>>

RequestsInit ==
  /\ part \in Parts
  /\ Prs!Init /\ Tree!Init /\ Con!Init /\ Res!Init /\ Ses!Init /\ Lim!Init /\ Usr!Init
  /\ Tmr!Init
  /\ part # "parser" => stream = Blank
  /\ part # "connection" => req = Plain
  /\ part # "session" => ~sliding

ParserPart == /\ part = "parser" /\ Prs!Next
              /\ UNCHANGED <<part, treeVars, connVars, cacheVars, sessVars, limitVars, userVars, timerVars>>
RoutesPart == /\ part = "routes" /\ Tree!Next
              /\ UNCHANGED <<part, parserVars, connVars, cacheVars, sessVars, limitVars, userVars, timerVars>>
ConnectionPart == /\ part = "connection" /\ Con!Next
                  /\ UNCHANGED <<part, parserVars, treeVars, cacheVars, sessVars, limitVars, userVars, timerVars>>
ResourcesPart == /\ part = "resources" /\ Res!Next
                 /\ UNCHANGED <<part, parserVars, treeVars, connVars, sessVars, limitVars, userVars, timerVars>>
SessionPart == /\ part = "session" /\ Ses!Next
               /\ UNCHANGED <<part, parserVars, treeVars, connVars, cacheVars, limitVars, userVars, timerVars>>
LimiterPart == /\ part = "limiter" /\ Lim!Next
               /\ UNCHANGED <<part, parserVars, treeVars, connVars, cacheVars, sessVars, userVars, timerVars>>
UsersPart == /\ part = "users" /\ Usr!Next
             /\ UNCHANGED <<part, parserVars, treeVars, connVars, cacheVars, sessVars, limitVars, timerVars>>
TimersPart == /\ part = "timers" /\ Tmr!Next
              /\ UNCHANGED <<part, parserVars, treeVars, connVars, cacheVars, sessVars, limitVars, userVars>>

RequestsNext == \/ ParserPart \/ RoutesPart \/ ConnectionPart \/ ResourcesPart
                \/ SessionPart \/ LimiterPart \/ UsersPart \/ TimersPart

RequestsSpec == RequestsInit /\ [][RequestsNext]_<<part, parserVars, treeVars, connVars,
                                   cacheVars, sessVars, limitVars, userVars, timerVars>>

\* Timer nodes are interchangeable: two states are the same for TLC when they
\* differ only in which node is which.
FieldsOf(n) == <<dl[n], nodeIdx[n], inHeap[n]>>
Anonymous ==
  LET outside == Node \ {heap[i] : i \in DOMAIN heap}
  IN  <<sift, firing, [i \in DOMAIN heap |-> FieldsOf(heap[i])],
        [f \in {FieldsOf(n) : n \in outside} |-> Cardinality({n \in outside : FieldsOf(n) = f})]>>
RequestsView == <<part, parserVars, treeVars, connVars, cacheVars, sessVars, limitVars,
                  userVars, Anonymous>>

-----------------------------------------------------------------------------
(* A request that is well formed in one piece is accepted, with the same    *)
(* lines, however reads cut it up.                                          *)
SplitIndependent == Prs!SplitIndependent

(* The search of the prefix tree finds the preferred route that fits, its   *)
(* own parameters and the chain of handlers in order.                       *)
MatchIsBest == Tree!MatchIsBest

(* A later content replaces an earlier one entirely, every handler runs at  *)
(* most once and in order, and the bytes Content-length promises go out: no *)
(* more of them unless a range ends inside its file.                        *)
ResponseExact == Con!LastContentWins /\ Con!FramingExact

(* A resource handed out is open on its own path for as long as it is held, *)
(* and of the callers of a path that is not cached one opens it.            *)
ResourcesShared == Res!ResourcesShared

(* A login that was answered with success stays logged in until something   *)
(* ends it, whatever writes and deletes fail, unless a request that could   *)
(* not load the session saved it.                                           *)
SessionKept == Ses!SessionKept

(* Login state is never under an id somebody knew before the login, unless  *)
(* the change of the id failed.                                             *)
LoginKeyed == Ses!LoginKeyed

(* The rate limiter lets at most its limit through per key and window, plus *)
(* what requests of an older window reset.                                  *)
WindowBounded == Lim!WindowBounded

(* Connections given back to the pool have nothing unread and no open       *)
(* transaction, and a call that reports success did what it says.           *)
AccountsSafe == Usr!AccountsSafe

(* The array of the timer heap stays a heap with exact indices, whatever is *)
(* removed from its middle.                                                 *)
WellFormed == Tmr!WellFormed

(* The timer heap implements a set of deadlines.                            *)
ImplementsTimerSet == Tmr!ImplementsTimerSet

(* "Redis 故障时老会话拒绝覆盖式保存": a request that could not load a session does  *)
(* not overwrite the login in it.                                           *)
LoadErrorKeepsLogin == Ses!LoadErrorKeepsLogin

(* "登录态永不落旧 key": login state is stored only under an id Rotate() made.   *)
LoginOnlyUnderNewKey == Ses!LoginOnlyUnderNewKey

(* "0 成功; !0 失败": a statement that returns 0 was carried out.                *)
SuccessIsReal == Usr!SuccessIsReal
==============================================================================
