--------------------------- MODULE ResourcePool ---------------------------
(* StaticResourcePool of src/http/httpresponce.{h,cpp}: the cache of open    *)
(* files that serve static pages.  Callers of one path share one open: the   *)
(* first registers a Call in m_mapInFlight and opens the file, the others    *)
(* wait on the Call.  Results are shared pointers: a descriptor is closed    *)
(* when the last of the cache, the Call and the callers lets go of it, so    *)
(* an eviction does not close what a response still sends.                   *)
(* No section under m_mtx or call->mu holds a suspension point: each is one  *)
(* step.  A result has the descriptor, {} for -1, and a status.              *)
EXTENDS Naturals, Sequences, FiniteSets

CONSTANTS Caller,       \* coroutines that call GetResource
          Path, Fd, Cap \* capacity of the LRU (512 in the code)

VARIABLES lru,          \* m_mapResource, the most recent first: <<path, fd>>
          inFlight,     \* m_mapInFlight: path -> {} or {the caller who opens}
          file,         \* what each descriptor is open on (kernel), {} closed
          cs            \* caller -> where it is in GetResource, and its result
poolVars == <<lru, inFlight, file, cs>>

Nothing == [fd |-> {}, status |-> 0]
Idle == [stage |-> "idle", path |-> {}, call |-> {}, res |-> Nothing, raw |-> {}]

Init == /\ lru = << >>
        /\ inFlight = [p \in Path |-> {}]
        /\ file = [f \in Fd |-> {}]
        /\ cs = [c \in Caller |-> Idle]

Found(p) == {i \in DOMAIN lru : lru[i][1] = p}
Front(i) == <<lru[i]>> \o SubSeq(lru, 1, i - 1) \o SubSeq(lru, i + 1, Len(lru))

(* ~FileCacheI: a descriptor nobody refers to any more is closed.            *)
Reaped(f, q, s) ==
    [d \in Fd |-> IF \/ \E i \in DOMAIN q : q[i][2] = d
                     \/ \E c \in Caller : d \in s[c].res.fd \cup s[c].raw
                  THEN f[d] ELSE {}]

Become(c, r) == /\ cs' = [cs EXCEPT ![c] = r]
                /\ file' = Reaped(file, lru', cs')

Hit(c, p) ==
    \E i \in Found(p) :
       /\ lru' = Front(i)
       /\ Become(c, [Idle EXCEPT !.stage = "holds", !.path = {p},
                                 !.res = [fd |-> {lru[i][2]}, status |-> 200]])
       /\ UNCHANGED inFlight

\* The Call lives while its opener is registered; done before it is erased.
Join(c, p) ==
    /\ Found(p) = {}
    /\ \E o \in inFlight[p] :
          /\ UNCHANGED <<lru, inFlight>>
          /\ Become(c, IF cs[o].stage = "erase"
                       THEN [Idle EXCEPT !.stage = "woken", !.path = {p}, !.res = cs[o].res]
                       ELSE [Idle EXCEPT !.stage = "wait", !.path = {p}, !.call = {o}])

Lead(c, p) ==
    /\ Found(p) = {} /\ inFlight[p] = {}
    /\ inFlight' = [inFlight EXCEPT ![p] = {c}]
    /\ UNCHANGED lru
    /\ Become(c, [Idle EXCEPT !.stage = "open", !.path = {p}])

GetResource(c, p) == cs[c].stage = "idle" /\ (Hit(c, p) \/ Join(c, p) \/ Lead(c, p))

(* do_open: uopen, which takes the lowest free descriptor, ufstat, and       *)
(* uclose when the file may not be served.                                   *)
Open(c) ==
    /\ cs[c].stage = "open"
    /\ UNCHANGED <<lru, inFlight>>
    /\ \/ \E f \in Fd :
             /\ file[f] = {} /\ \A g \in Fd : g < f => file[g] # {}
             /\ cs' = [cs EXCEPT ![c].stage = "stat", ![c].raw = {f}]
             /\ file' = [file EXCEPT ![f] = cs[c].path]
       \/ Become(c, [cs[c] EXCEPT !.stage = "done", !.res.status = 404])

Stat(c) ==
    /\ cs[c].stage = "stat"
    /\ UNCHANGED <<lru, inFlight>>
    /\ \/ Become(c, [cs[c] EXCEPT !.stage = "put", !.raw = {},
                                  !.res = [fd |-> cs[c].raw, status |-> 200]])
       \/ \E s \in {404, 403} : Become(c, [cs[c] EXCEPT !.stage = "close", !.res.status = s])

Close(c) ==
    /\ cs[c].stage = "close"
    /\ UNCHANGED <<lru, inFlight>>
    /\ Become(c, [cs[c] EXCEPT !.stage = "done", !.raw = {}])

Evicted == IF Len(lru) = Cap THEN SubSeq(lru, 1, Len(lru) - 1) ELSE lru

(* LRUCache::put: an entry that is there already wins over the new one.      *)
Put(c) ==
    /\ cs[c].stage = "put"
    /\ UNCHANGED inFlight
    /\ \E p \in cs[c].path :
          IF Found(p) = {}
          THEN /\ \E f \in cs[c].res.fd : lru' = <<<<p, f>>>> \o Evicted
               /\ Become(c, [cs[c] EXCEPT !.stage = "done"])
          ELSE \E i \in Found(p) :
                  /\ lru' = Front(i)
                  /\ Become(c, [cs[c] EXCEPT !.stage = "done", !.res.fd = {lru[i][2]}])

\* Bug: notify_one.
DoneOne(c) ==
    /\ cs[c].stage = "done"
    /\ LET W == {x \in Caller : cs[x].stage = "wait" /\ c \in cs[x].call}
       IN \E T \in SUBSET W :
          /\ Cardinality(T) = IF W = {} THEN 0 ELSE 1
          /\ cs' = [x \in Caller |->
                 IF x = c THEN [cs[c] EXCEPT !.stage = "erase"]
                 ELSE IF x \in T
                 THEN [cs[x] EXCEPT !.stage = "woken", !.call = {}, !.res = cs[c].res]
                 ELSE IF x \in W THEN [cs[x] EXCEPT !.call = {}]
                 ELSE cs[x]]
    /\ UNCHANGED <<lru, inFlight, file>>

(* call->done and notify_all: each waiter can now read call->result.         *)
Done(c) ==
    /\ cs[c].stage = "done"
    /\ cs' = [x \in Caller |->
                 IF x = c THEN [cs[c] EXCEPT !.stage = "erase"]
                 ELSE IF cs[x].stage = "wait" /\ c \in cs[x].call
                 THEN [cs[x] EXCEPT !.stage = "woken", !.call = {}, !.res = cs[c].res]
                 ELSE cs[x]]
    /\ UNCHANGED <<lru, inFlight, file>>

Erase(c) ==
    /\ cs[c].stage = "erase"
    /\ inFlight' = [inFlight EXCEPT ![CHOOSE p \in Path : p \in cs[c].path] = {}]
    /\ UNCHANGED lru
    /\ Become(c, [cs[c] EXCEPT !.stage = "holds"])

Wake(c) == /\ cs[c].stage = "woken"
           /\ UNCHANGED <<lru, inFlight>>
           /\ Become(c, [cs[c] EXCEPT !.stage = "holds"])

\* The response was sent and gives its shared pointer back.
Release(c) == /\ cs[c].stage = "holds"
              /\ UNCHANGED <<lru, inFlight>>
              /\ Become(c, Idle)

Step(c) == Open(c) \/ Stat(c) \/ Close(c) \/ Put(c) \/ Done(c) \/ Erase(c) \/ Wake(c)

Next == \E c \in Caller : Step(c) \/ Release(c) \/ \E p \in Path : GetResource(c, p)

---------------------------------------------------------------------------
(* Hazard: an entry is evicted while a response still sends it, and the      *)
(* descriptor is reused for another file.  Whatever the evictions, opens and *)
(* releases in between, the cache and every caller refer to a descriptor     *)
(* that is open on the file of their own path.                               *)
ServesRightFile ==
    /\ \A i \in DOMAIN lru : file[lru[i][2]] = {lru[i][1]}
    /\ \A c \in Caller : \A f \in cs[c].res.fd : file[f] = cs[c].path

(* Hazard: two callers miss the cache together, or one joins a Call in the   *)
(* moment it ends.  No path is being opened twice or opened while it is      *)
(* cached, from the miss to the put ("duplicate open" is never logged); and  *)
(* who waits on a Call waits on an opener of its path that has yet to set    *)
(* done, so nobody is left behind.                                           *)
SingleFlight ==
    \A c \in Caller :
       /\ cs[c].stage \in {"open", "stat", "put"} =>
            \A p \in cs[c].path :
               /\ Found(p) = {}
               /\ \A d \in Caller \ {c} :
                     cs[d].stage \in {"open", "stat", "put"} => p \notin cs[d].path
       /\ cs[c].stage = "wait" =>
            \E o \in cs[c].call : /\ cs[o].stage \in {"open", "stat", "close", "put", "done"}
                                  /\ cs[o].path = cs[c].path

(* Both, for every order of calls.                                           *)
ResourcesShared == ServesRightFile /\ SingleFlight
=============================================================================
