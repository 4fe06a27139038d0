------------------------------ MODULE RateLimit -----------------------------
(***************************************************************************)
(* http/ratelimit.cpp: the fixed-window counter and its middleware.        *)
(* Counter::Allow reads the clock first and takes the mutex after it, so   *)
(* requests may enter the table in another order than the one of their     *)
(* windows.  The rest of Allow runs under m_mutex and is one step.         *)
(***************************************************************************)
EXTENDS Naturals, FiniteSets

CONSTANTS Thread, Key,
          Limit,      \* m_limit
          MaxKeys,    \* kMaxKeys
          MaxWindow,  \* bound on the clock, in windows
          MaxCalls    \* bound on the requests of a behaviour

VARIABLES window,     \* now / m_windowMs
          entries,    \* m_entries: key -> {} or {[window, count]}
          th,         \* thread -> its request: stage, key, window read, header
          calls,
          passed,     \* history: window -> key -> requests let through in it
          newest,     \* history: the newest window the table has seen
          late        \* history: key -> requests of an older window than that

limitVars == <<window, entries, th, calls, passed, newest, late>>

NoCall == [stage |-> "idle", key |-> {}, win |-> 0, retryAfter |-> FALSE]

Init == /\ window = 1
        /\ entries = [k \in Key |-> {}]
        /\ th = [t \in Thread |-> NoCall]
        /\ calls = 0
        /\ passed = [w \in 1..MaxWindow |-> [k \in Key |-> 0]]
        /\ newest = 1
        /\ late = [k \in Key |-> 0]

Used == {k \in Key : entries[k] # {}}

Tick == /\ window < MaxWindow
        /\ window' = window + 1
        /\ UNCHANGED <<entries, th, calls, passed, newest, late>>

\* The middleware asks its key; the default RejectHandler lets an empty key
\* pass without a count.
KeyGetter(t) ==
  /\ th[t].stage = "idle"
  /\ calls < MaxCalls
  /\ calls' = calls + 1
  /\ \/ \E k \in Key :
          th' = [th EXCEPT ![t] = [NoCall EXCEPT !.stage = "locking", !.key = {k}, !.win = window]]
     \/ th' = [th EXCEPT ![t] = [NoCall EXCEPT !.stage = "next"]]
  /\ UNCHANGED <<window, entries, passed, newest, late>>

\* The table once old windows are thrown out, when a new key finds it full.
Cleaned(k, w) ==
  IF entries[k] = {} /\ Cardinality(Used) >= MaxKeys
  THEN [j \in Key |-> {e \in entries[j] : e.window >= w}]
  ELSE entries

Full(es, k) == es[k] = {} /\ Cardinality({j \in Key : es[j] # {}}) >= MaxKeys

\* The entry of the key in window w: a new count unless it is of that window.
Current(es, k, w) == IF \E e \in es[k] : e.window = w
                     THEN CHOOSE e \in es[k] : TRUE
                     ELSE [window |-> w, count |-> 0]

\* Bug: the bound is checked before the request is counted.
BelowLimitLoose(c) == c <= Limit

BelowLimit(c) == c < Limit

Allow(t) ==
  /\ th[t].stage = "locking"
  /\ \E k \in th[t].key :
       LET w  == th[t].win
           es == Cleaned(k, w)
           e  == Current(es, k, w)
           ok == ~Full(es, k) /\ BelowLimit(e.count)
       IN  /\ entries' = IF Full(es, k) THEN es
                         ELSE [es EXCEPT ![k] = {IF ok THEN [e EXCEPT !.count = @ + 1] ELSE e}]
           /\ th' = [th EXCEPT ![t].stage = IF ok THEN "next" ELSE "rejected"]
           /\ passed' = IF ok THEN [passed EXCEPT ![w][k] = @ + 1] ELSE passed
           /\ newest' = IF w > newest THEN w ELSE newest
           /\ late' = IF w < newest THEN [late EXCEPT ![k] = @ + 1] ELSE late
  /\ UNCHANGED <<window, calls>>

\* Handle(): SetRetryAfter and Abort.
Rejected(t) ==
  /\ th[t].stage = "rejected"
  /\ th' = [th EXCEPT ![t] = [NoCall EXCEPT !.stage = "answered", !.retryAfter = TRUE]]
  /\ UNCHANGED <<window, entries, calls, passed, newest, late>>

\* The rest of the chain returns, or throws an HttpException of its own,
\* which passes through the same catch.
ChainEnds(t) ==
  /\ th[t].stage = "next"
  /\ \E thrown \in BOOLEAN :
       th' = [th EXCEPT ![t] = [NoCall EXCEPT !.stage = "answered", !.retryAfter = thrown]]
  /\ UNCHANGED <<window, entries, calls, passed, newest, late>>

Answered(t) == /\ th[t].stage = "answered"
               /\ th' = [th EXCEPT ![t] = NoCall]
               /\ UNCHANGED <<window, entries, calls, passed, newest, late>>

Next == \/ Tick
        \/ \E t \in Thread : \/ KeyGetter(t) \/ Allow(t) \/ Rejected(t)
                             \/ ChainEnds(t) \/ Answered(t)

-----------------------------------------------------------------------------
(* Hazard: the window is stale by the time the mutex is taken, and a late   *)
(* request puts the entry of its key back to an older window, or makes one  *)
(* that was cleaned up.  Every late request costs at most one more Limit in *)
(* a window: without one, the limit of a window and key is exact.  The      *)
(* table never outgrows kMaxKeys.                                           *)
WindowBounded ==
  /\ \A k \in Key, w \in 1..MaxWindow : passed[w][k] <= Limit * (1 + late[k])
  /\ Cardinality(Used) <= MaxKeys
=============================================================================
