------------------------------ MODULE Session -------------------------------
(***************************************************************************)
(* http/session.cpp: the sessions middleware, with the handlers that use   *)
(* it: csrf.cpp and server/controller/user.cpp.  Requests of one browser   *)
(* run concurrently; every one                                             *)
(*                                                                         *)
(*   InitLoad   cookie -> id, GET the data of the id                       *)
(*   chain      limiter, SessionCheck, the handler (which may Rotate)      *)
(*   Sessions   Save() what is dirty, unless the chain was aborted         *)
(*                                                                         *)
(* and suspends at every Redis command.  A command may fail before or      *)
(* after the server applied it (Faults).  Session data is a token and a    *)
(* login state; ids and tokens are numbers taken from one counter, 0 for   *)
(* none.  Signatures are abstract: a cookie verifies or counts as absent.  *)
(***************************************************************************)
EXTENDS Naturals

CONSTANTS Req,       \* requests that may be in flight together
          Ops,       \* what they ask: issue, login, register, logout, page
          Faults,    \* commands that may fail, of get, set, del
          MaxFresh,  \* bound: ids and tokens generated
          MaxReqs    \* bound: requests of a behaviour

VARIABLES store,     \* Redis: id -> {} or {[tok, in, ttl]}
          jar,       \* the browser: its cookie and the token it was told
          fresh,     \* numbers generated so far
          sliding,   \* m_sliding
          begun,     \* requests so far
          rs,        \* request -> its Session object and where it is
          alive,     \* history: ids of logins answered with success, not ended
          made,      \* history: ids made by Rotate()
          unrotated, \* history: ids of sessions whose Rotate() failed
          blind      \* history: ids saved by a request that could not load them

history == <<alive, made, unrotated, blind>>
sessVars == <<store, jar, fresh, sliding, begun, rs, alive, made, unrotated, blind>>

Id == 1..MaxFresh
Empty == [tok |-> 0, in |-> FALSE]
NoReq == [op |-> "none", pc |-> "idle", id |-> 0, vals |-> Empty, new |-> TRUE,
          loadOK |-> FALSE, written |-> FALSE, destroy |-> FALSE, age |-> "unset",
          err |-> FALSE, old |-> 0, cookie |-> {}, tok |-> 0]

Init == /\ store = [i \in Id |-> {}]
        /\ jar = [cookie |-> 0, tok |-> 0]
        /\ fresh = 0
        /\ sliding \in BOOLEAN
        /\ rs = [r \in Req |-> NoReq]
        /\ begun = 0
        /\ alive = {} /\ made = {} /\ unrotated = {} /\ blind = {}

Goes(r, s) == rs' = [rs EXCEPT ![r] = s]
At(r, pc) == rs[r].pc = pc

\* What a Redis command may answer: "lost" is a failure seen by the caller
\* only, also a time-out or a broken connection after the command was sent.
Outcome(cmd) == {"ok"} \cup IF cmd \in Faults THEN {"fail", "lost"} ELSE {}

\* EffectiveMaxAge(): the override, or the store's default.
EffectiveMaxAge(s) == IF s.age = "unset" THEN "default" ELSE s.age

-----------------------------------------------------------------------------
(* InitLoad *)

\* A request comes in; a cookie that does not verify counts as none.
Begin(r, op) ==
  /\ At(r, "idle")
  /\ begun < MaxReqs
  /\ begun' = begun + 1
  /\ \E i \in {jar.cookie, 0} :
        Goes(r, [NoReq EXCEPT !.op = op, !.id = i, !.tok = jar.tok,
                              !.pc = IF i = 0 THEN "chain" ELSE "load"])
  /\ UNCHANGED <<store, jar, fresh, sliding, history>>

\* A failed GET (kError, remembered in err by the model only) leaves m_bNew
\* and m_bLoadOK as the constructor set them, as a missing key does.
InitLoad(r) ==
  /\ At(r, "load")
  /\ \E o \in Outcome("get") :
        IF o # "ok" \/ store[rs[r].id] = {}
        THEN Goes(r, [rs[r] EXCEPT !.pc = "chain", !.err = o # "ok"])
        ELSE \E v \in store[rs[r].id] :
                Goes(r, [rs[r] EXCEPT !.vals = [tok |-> v.tok, in |-> v.in],
                                      !.new = FALSE, !.loadOK = TRUE,
                                      !.pc = IF sliding THEN "touch" ELSE "chain"])
  /\ UNCHANGED <<store, jar, fresh, sliding, begun, history>>

\* TouchTTL: EXPIRE with the effective age; a failure is only logged.
TouchTTL(r) ==
  /\ At(r, "touch")
  /\ Goes(r, [rs[r] EXCEPT !.pc = "chain"])
  /\ store' = [store EXCEPT ![rs[r].id] = {[v EXCEPT !.ttl = EffectiveMaxAge(rs[r])] : v \in @}]
  /\ UNCHANGED <<jar, fresh, sliding, begun, history>>

-----------------------------------------------------------------------------
(* The chain *)

\* The limiter, SessionCheck or RequireAnonymous abort: HttpException skips
\* the save.
SessionCheck(r) == rs[r].vals.tok # 0 /\ rs[r].tok = rs[r].vals.tok
Aborts(r) ==
  /\ At(r, "chain")
  /\ \/ rs[r].op = "issue" /\ rs[r].new
     \/ rs[r].op \in {"login", "register", "logout"}
  /\ Goes(r, [rs[r] EXCEPT !.pc = "respond"])
  /\ UNCHANGED <<store, jar, fresh, sliding, begun, history>>

\* The handler answers and leaves the session as it is.
Reads(r) ==
  /\ At(r, "chain")
  /\ Goes(r, [rs[r] EXCEPT !.pc = "save"])
  /\ UNCHANGED <<store, jar, fresh, sliding, begun, history>>

\* CurrentUser and the pages.
Page(r) == rs[r].op = "page" /\ Reads(r)

\* A field is missing, or the service does not accept.
LoginRefused(r) == rs[r].op = "login" /\ SessionCheck(r) /\ Reads(r)
RequireAnonymous(r) == ~rs[r].vals.in
RegisterRefused(r) ==
  rs[r].op = "register" /\ SessionCheck(r) /\ RequireAnonymous(r) /\ Reads(r)

\* Csrf::SessionIssue: a token, and a short life for a session born here.
SessionIssue(r) ==
  /\ At(r, "chain") /\ rs[r].op = "issue"
  /\ IF rs[r].vals.tok # 0
     THEN Goes(r, [rs[r] EXCEPT !.pc = "save"]) /\ UNCHANGED fresh
     ELSE /\ fresh < MaxFresh
          /\ fresh' = fresh + 1
          /\ Goes(r, [rs[r] EXCEPT !.pc = "save", !.vals.tok = fresh', !.written = TRUE,
                                   !.age = IF rs[r].new THEN "short" ELSE @])
  /\ UNCHANGED <<store, jar, sliding, begun, history>>

\* Destroy() marks the session; the save carries it out.
Destroyed(s) == [s EXCEPT !.destroy = TRUE, !.written = TRUE]

Logout(r) ==
  /\ At(r, "chain") /\ rs[r].op = "logout" /\ SessionCheck(r)
  /\ Goes(r, Destroyed([rs[r] EXCEPT !.pc = "save"]))
  /\ alive' = alive \ {rs[r].id}
  /\ UNCHANGED <<store, jar, fresh, sliding, unrotated, begun, made, blind>>

\* The service accepts: EstablishLoginSession clears the data, sets login
\* state and a new token, and Rotate() takes a new id.  Register requires a
\* session without login.
EstablishLoginSession(r) ==
  /\ At(r, "chain") /\ rs[r].op \in {"login", "register"} /\ SessionCheck(r)
  /\ rs[r].op = "register" => RequireAnonymous(r)
  /\ fresh + 1 < MaxFresh
  /\ fresh' = fresh + 2
  /\ Goes(r, [rs[r] EXCEPT !.pc = "rotate", !.vals = [tok |-> fresh + 1, in |-> TRUE],
                           !.old = rs[r].id, !.id = fresh + 2])
  /\ made' = made \cup {fresh + 2}
  /\ UNCHANGED <<store, jar, sliding, begun, alive, unrotated, blind>>

\* SaveValues: SET with the age.
Written(o, i, v, a) == [store EXCEPT ![i] = IF o = "fail" THEN @
                                            ELSE {[tok |-> v.tok, in |-> v.in, ttl |-> a]}]

\* Bug: the old key is overwritten and its id kept.
RotateKeeps(r) ==
  /\ At(r, "rotate")
  /\ store' = Written("ok", rs[r].old, rs[r].vals, "default")
  /\ Goes(r, [rs[r] EXCEPT !.pc = "save", !.id = rs[r].old, !.cookie = {rs[r].old},
                           !.written = FALSE])
  /\ alive' = alive \cup {rs[r].old}
  /\ UNCHANGED <<jar, fresh, sliding, unrotated, begun, made, blind>>

\* Save() inside Rotate(): the new key with the default age; on failure the
\* id is put back and the data, still dirty, is left for the end of the chain.
\* Login then answers 500; Register destroys the session.
Rotate(r) ==
  /\ At(r, "rotate")
  /\ \E o \in Outcome("set") :
        /\ store' = Written(o, rs[r].id, rs[r].vals, "default")
        /\ IF o = "ok"
           THEN /\ Goes(r, [rs[r] EXCEPT !.pc = "unlink", !.cookie = {rs[r].id}, !.age = "unset",
                                         !.new = TRUE, !.written = FALSE])
                /\ alive' = (alive \ {rs[r].old}) \cup {rs[r].id}
                /\ UNCHANGED unrotated
           ELSE /\ LET s == [rs[r] EXCEPT !.pc = "save", !.id = rs[r].old, !.written = TRUE]
                   IN  Goes(r, IF s.op = "register" THEN Destroyed(s) ELSE s)
                /\ unrotated' = unrotated \cup {rs[r].old}
                /\ UNCHANGED alive
  /\ UNCHANGED <<jar, fresh, sliding, begun, made, blind>>

\* Bug: m_sID, which is the new id by now, is deleted.
RotateUnlinksNew(r) ==
  /\ At(r, "unlink")
  /\ \E o \in Outcome("del") :
        store' = [store EXCEPT ![rs[r].id] = IF o = "fail" THEN @ ELSE {}]
  /\ Goes(r, [rs[r] EXCEPT !.pc = "save"])
  /\ UNCHANGED <<jar, fresh, sliding, begun, history>>

\* RemoveKey of the old id; a failure is only logged.
RotateUnlinks(r) ==
  /\ At(r, "unlink")
  /\ \E o \in Outcome("del") :
        store' = [store EXCEPT ![rs[r].old] = IF o = "fail" THEN @ ELSE {}]
  /\ Goes(r, [rs[r] EXCEPT !.pc = "save"])
  /\ UNCHANGED <<jar, fresh, sliding, begun, history>>

-----------------------------------------------------------------------------
(* Save() at the end of Sessions() *)

\* The data is not dirty, or it belongs to an old session that did not load.
SaveSkips(r) ==
  /\ At(r, "save")
  /\ ~rs[r].written \/ (~rs[r].new /\ ~rs[r].loadOK)
  /\ Goes(r, [rs[r] EXCEPT !.pc = "respond"])
  /\ UNCHANGED <<store, jar, fresh, sliding, begun, history>>

Saves(r) == At(r, "save") /\ rs[r].written /\ (rs[r].new \/ rs[r].loadOK)

\* The delete branch: a failed DEL returns before the cookie is expired.
SaveDeletes(r) ==
  /\ Saves(r)
  /\ rs[r].destroy \/ rs[r].vals = Empty
  /\ \E o \in IF rs[r].id = 0 THEN {"ok"} ELSE Outcome("del") :
        /\ store' = [i \in Id |-> IF i = rs[r].id /\ o # "fail" THEN {} ELSE store[i]]
        /\ Goes(r, [rs[r] EXCEPT !.pc = "respond", !.cookie = IF o = "ok" THEN {0} ELSE @])
  /\ UNCHANGED <<jar, fresh, sliding, begun, history>>

SaveWrites(r) ==
  /\ Saves(r)
  /\ ~rs[r].destroy /\ rs[r].vals # Empty
  /\ rs[r].id = 0 => fresh < MaxFresh
  /\ fresh' = IF rs[r].id = 0 THEN fresh + 1 ELSE fresh
  /\ LET i == IF rs[r].id = 0 THEN fresh' ELSE rs[r].id
     IN \E o \in Outcome("set") :
          /\ store' = Written(o, i, rs[r].vals, EffectiveMaxAge(rs[r]))
          /\ Goes(r, [rs[r] EXCEPT !.pc = "respond", !.id = i,
                                   !.cookie = IF o = "ok" THEN {i} ELSE @])
          /\ blind' = IF rs[r].err THEN blind \cup {i} ELSE blind
  /\ UNCHANGED <<jar, sliding, begun, alive, made, unrotated>>

\* The response reaches the browser: its Set-Cookie and, from SessionIssue,
\* the token.
Respond(r) ==
  /\ At(r, "respond")
  /\ jar' = [cookie |-> IF rs[r].cookie = {} THEN jar.cookie
                        ELSE CHOOSE i \in rs[r].cookie : TRUE,
             tok |-> IF rs[r].op = "issue" THEN rs[r].vals.tok ELSE jar.tok]
  /\ Goes(r, NoReq)
  /\ UNCHANGED <<store, fresh, sliding, begun, history>>

\* A key reaches its age.
Expire(i) == /\ store[i] # {}
             /\ store' = [store EXCEPT ![i] = {}]
             /\ alive' = alive \ {i}
             /\ UNCHANGED <<jar, fresh, sliding, rs, unrotated, begun, made, blind>>

Step(r) == \/ InitLoad(r) \/ TouchTTL(r)
           \/ Aborts(r) \/ Page(r) \/ LoginRefused(r) \/ RegisterRefused(r)
           \/ SessionIssue(r) \/ Logout(r)
           \/ EstablishLoginSession(r) \/ Rotate(r) \/ RotateUnlinks(r)
           \/ SaveSkips(r) \/ SaveDeletes(r) \/ SaveWrites(r) \/ Respond(r)

Next == \/ \E r \in Req : Step(r) \/ \E op \in Ops : Begin(r, op)
        \/ \E i \in Id : Expire(i)

Spec == Init /\ [][Next]_sessVars

-----------------------------------------------------------------------------
(* Hazard: requests of one session interleave, and writes and deletes fail  *)
(* half way.  A session whose login was answered with success keeps its     *)
(* login state until it is logged out, replaced by a later login or expires: *)
(* no concurrent issue, register, late save or failed write of another      *)
(* request takes it away, if it could load the session before it saved it.  *)
SessionKept == \A i \in alive \ blind : store[i] # {} /\ \A v \in store[i] : v.in

(* Hazard: "登录态永不落旧 key" depends on Rotate(), Save() and the handlers   *)
(* together.  Login state is stored under a key that was not made for it    *)
(* only by a request whose Rotate() failed; and, without sliding renewal,   *)
(* anonymous data always has the short life and login state the long one.   *)
LoginKeyed ==
  \A i \in Id : \A v \in store[i] :
     /\ v.in => i \in made \cup unrotated
     /\ ~sliding => (v.ttl = "short" <=> ~v.in)

(* session.h:53 "Redis 故障 (区别于 key 过期) 时老会话拒绝覆盖式保存": a request that   *)
(* could not load a session leaves the login in it alone.                   *)
LoadErrorKeepsLogin == \A i \in alive \cap blind : \A v \in store[i] : v.in

(* session.cpp:893 "登录态永不落旧 key": a key that once was given out for an   *)
(* anonymous session never holds login state.                               *)
LoginOnlyUnderNewKey == \A i \in Id : \A v \in store[i] : v.in => i \in made
=============================================================================
