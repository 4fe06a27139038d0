------------------------------ MODULE UserStore -----------------------------
(***************************************************************************)
(* Accounts, from the service to the SQL client: server/service/user.cpp,  *)
(* server/dao/user_mysql.cpp, server/security/password_hasher.cpp and the  *)
(* statements and transactions of core/usql.cpp over pooled connections.   *)
(*                                                                         *)
(* A call of the MySQL library ends in one of the Outcomes; the server is  *)
(* external: it runs a statement, keeps usernames and vids unique, and may *)
(* have run a statement whose answer did not arrive.  A connection is what *)
(* decides its reuse: the error number the client library holds, an answer *)
(* that was not read, and the rows of an open transaction.                 *)
(***************************************************************************)
EXTENDS FiniteSets

CONSTANTS Client, User, Password, Vid,
          Ops,       \* register, login, txn
          Faults     \* error, lost, timeout, poll, rollback

VARIABLES rows,      \* the table: [user, vid, pw]
          idle,      \* connections given back to the pool, by their state
          cl,        \* client -> its call
          told       \* history: rows whose insertion was reported a success

userVars == <<rows, idle, cl, told>>

Clean == [errno |-> "none", unread |-> FALSE, tx |-> FALSE, pend |-> {}]
NoCall == [op |-> "none", pc |-> "idle", row |-> {}, found |-> {}, conn |-> Clean, ret |-> "none"]

Init == rows = {} /\ idle = {} /\ cl = [c \in Client |-> NoCall] /\ told = {}

At(c, pc) == cl[c].pc = pc
Goes(c, r) == cl' = [cl EXCEPT ![c] = r]
Row(c) == CHOOSE r \in cl[c].row : TRUE

-----------------------------------------------------------------------------
(* The service, before a connection is needed *)

\* The checks of the parameters: a malformed name or password (2), and a
\* password with bad characters, the name in it, or on the list (3).
ParamErrors == {"invalid", "weak"}

\* Hash on the thread pool: the pool refused the job, or bcrypt left no hash.
HashErrors == {"failed"}

\* Register: parameters, NewVid and the hash (-1) come first; Login goes to
\* the DAO.
Begin(c, op) ==
  /\ At(c, "idle")
  /\ \E u \in User, p \in Password, v \in Vid :
       LET r == [NoCall EXCEPT !.op = op, !.row = {[user |-> u, vid |-> v, pw |-> p]}]
       IN  \/ Goes(c, [r EXCEPT !.pc = "acquire"])
           \/ /\ op = "register"
              /\ \E e \in ParamErrors \cup HashErrors : Goes(c, [r EXCEPT !.pc = "done", !.ret = e])
  /\ UNCHANGED <<rows, idle, told>>

\* USER_DAO_CONN: a new connection, one of the pool, or none (-2).
Acquire(c) ==
  /\ At(c, "acquire")
  /\ \/ \E k \in idle \cup {Clean} :
           Goes(c, [cl[c] EXCEPT !.conn = k, !.pc = IF cl[c].op = "txn" THEN "begin" ELSE "query"])
     \/ Goes(c, [cl[c] EXCEPT !.pc = "done", !.ret = "failed"])
  /\ UNCHANGED <<rows, idle, told>>

-----------------------------------------------------------------------------
(* usql: one call of the library, and what fill_error makes of it *)

\* wait_fd: the linked timeout fires, or the poll itself fails; a full queue
\* and an interrupt are tried again.
WaitFd == Faults \cap {"timeout", "poll"}

\* How await_call ends.  "stale": an answer left on the connection by an
\* earlier call is taken for this one's.
Outcomes(k) == {"ok"} \cup WaitFd \cup (Faults \cap {"error", "lost"})
               \cup IF k.unread THEN {"stale"} ELSE {}

\* Bug: a timeout leaves the error number alone.
AfterCallQuiet(k, o) ==
  CASE o \in {"ok", "stale"} -> [k EXCEPT !.errno = "none"]
    [] o = "error"           -> [k EXCEPT !.errno = "server"]
    [] o = "lost"            -> [k EXCEPT !.errno = "client", !.pend = {}, !.tx = FALSE]
    [] o = "timeout"         -> [k EXCEPT !.errno = "none", !.unread = TRUE]
    [] o = "poll"            -> [k EXCEPT !.errno = "none", !.unread = TRUE]

\* A new call clears the error number.  A timeout is turned into a client
\* error; a failure of the poll itself is none of the library's.
AfterCall(k, o) ==
  CASE o \in {"ok", "stale"} -> [k EXCEPT !.errno = "none"]
    [] o = "error"           -> [k EXCEPT !.errno = "server"]
    [] o = "lost"            -> [k EXCEPT !.errno = "client", !.pend = {}, !.tx = FALSE]
    [] o = "timeout"         -> [k EXCEPT !.errno = "client", !.unread = TRUE]
    [] o = "poll"            -> [k EXCEPT !.errno = "none", !.unread = TRUE]

\* ret_code = 0: -(int)mysql_errno(mysql).
RetCodeZero(k) == k.errno = "none"

\* The unique keys of the table, as the statement's connection sees it.
Unique(r, T) == \A x \in T : x.user # r.user /\ x.vid # r.vid

\* A row another connection has not committed yet: the statement waits for
\* its lock, and may fail with a lock wait timeout.
Locked(c, r) == \E d \in Client \ {c} : ~Unique(r, cl[d].conn.pend)

\* What the server did with the statement of an outcome.
Applied(o) == CASE o = "ok" -> {TRUE}
                [] o \in {"error", "stale"} -> {FALSE}
                [] OTHER -> BOOLEAN

-----------------------------------------------------------------------------
(* The DAO *)

\* InsertUser: 0, 1 for a duplicate, -2 when Retryable, else -1 ("failed").
InsertUser(c) ==
  /\ At(c, "query") /\ cl[c].op = "register"
  /\ LET r == Row(c)
         k == cl[c].conn
         T == rows \cup k.pend
     IN  IF ~Unique(r, T)
         THEN /\ Goes(c, [cl[c] EXCEPT !.pc = "release", !.ret = "taken",
                                       !.conn = AfterCall(k, "error")])
              /\ UNCHANGED rows
         ELSE IF Locked(c, r)
         THEN /\ Goes(c, [cl[c] EXCEPT !.pc = "release", !.ret = "failed",
                                       !.conn = AfterCall(k, "error")])
              /\ UNCHANGED rows
         ELSE \E o \in Outcomes(k) : \E a \in Applied(o) :
                LET k2 == AfterCall(k, o)
                IN  /\ rows' = IF a /\ ~k.tx THEN rows \cup {r} ELSE rows
                    /\ Goes(c, [cl[c] EXCEPT !.pc = "release",
                              !.conn = IF a /\ k.tx /\ o # "lost" THEN [k2 EXCEPT !.pend = @ \cup {r}] ELSE k2,
                              !.ret = IF RetCodeZero(k2) THEN "ok" ELSE "failed"])
  /\ UNCHANGED <<idle, told>>

\* uselect: the rows of the answer; none when the query or the fetch failed.
Uselect(c, o) == {x \in rows \cup cl[c].conn.pend : o = "ok" /\ x.user = Row(c).user}

\* QueryByUsername: the rows found, of which there is at most one.
QueryByUsername(c) ==
  /\ At(c, "query") /\ cl[c].op = "login"
  /\ \E o \in Outcomes(cl[c].conn) :
       LET k == AfterCall(cl[c].conn, o)
       IN  Goes(c, [cl[c] EXCEPT !.pc = "release", !.conn = k, !.found = Uselect(c, o),
                                 !.ret = IF RetCodeZero(k) THEN "none" ELSE "failed"])
  /\ UNCHANGED <<rows, idle, told>>

-----------------------------------------------------------------------------
(* utransaction: BEGIN, the statement, COMMIT; ROLLBACK when one fails *)

TxnBegin(c) ==
  /\ At(c, "begin")
  /\ \E o \in Outcomes(cl[c].conn) :
       LET k == AfterCall(cl[c].conn, o)
       IN  IF o \in {"ok", "stale"}
           THEN Goes(c, [cl[c] EXCEPT !.pc = "stmt", !.conn = [k EXCEPT !.tx = TRUE]])
           ELSE Goes(c, [cl[c] EXCEPT !.pc = "release", !.conn = k,
                                      !.ret = "failed"])
  /\ UNCHANGED <<rows, idle, told>>

TxnStmt(c) ==
  /\ At(c, "stmt")
  /\ LET r == Row(c)
         k == cl[c].conn
     IN \E o \in IF Unique(r, rows \cup k.pend) /\ ~Locked(c, r) THEN Outcomes(k) ELSE {"error"} :
          LET k2 == AfterCall(k, o)
          IN  IF o \in {"ok", "stale"}
              THEN Goes(c, [cl[c] EXCEPT !.pc = "commit",
                              !.conn = IF o = "ok" THEN [k2 EXCEPT !.pend = @ \cup {r}] ELSE k2])
              ELSE Goes(c, [cl[c] EXCEPT !.pc = "rollback", !.conn = k2, !.ret = "failed"])
  /\ UNCHANGED <<rows, idle, told>>

TxnCommit(c) ==
  /\ At(c, "commit")
  /\ \E o \in Outcomes(cl[c].conn) : \E a \in Applied(o) :
       LET k == cl[c].conn
           ok == o \in {"ok", "stale"}
           k2 == [AfterCall(k, o) EXCEPT !.tx = IF a THEN FALSE ELSE @,
                                         !.pend = IF a THEN {} ELSE @]
       IN  /\ rows' = IF a THEN rows \cup k.pend ELSE rows
           /\ Goes(c, [cl[c] EXCEPT !.conn = k2, !.pc = IF ok THEN "release" ELSE "rollback",
                                    !.ret = IF ok THEN "ok" ELSE "failed"])
  /\ UNCHANGED <<idle, told>>

\* The result of ROLLBACK is dropped, and a timeout of it ("rollback") passes
\* no fill_error.  On a connection that is lost or timed out ROLLBACK fails
\* too, which is assumed of the library, and leaves the client error.
TxnRollback(c) ==
  /\ At(c, "rollback")
  /\ LET k == cl[c].conn
         done == [k EXCEPT !.tx = FALSE, !.pend = {}]
     IN \/ Goes(c, [cl[c] EXCEPT !.pc = "release",
                      !.conn = IF k.errno = "client" THEN done ELSE [done EXCEPT !.errno = "none"]])
        \/ /\ "rollback" \in Faults
           /\ Goes(c, [cl[c] EXCEPT !.pc = "release",
                         !.conn = [k EXCEPT !.errno = "none", !.unread = TRUE]])
  /\ UNCHANGED <<rows, idle, told>>

-----------------------------------------------------------------------------
(* The connection goes back, and the service ends *)

\* UsqlGuard: Release() destroys a connection with a client error; the
\* server rolls its transaction back.
Release(c) ==
  /\ At(c, "release")
  /\ idle' = IF cl[c].conn.errno = "client" THEN idle
             ELSE idle \cup {[cl[c].conn EXCEPT !.errno = "none"]}
  /\ Goes(c, [cl[c] EXCEPT !.conn = Clean,
                           !.pc = IF cl[c].op = "login" /\ cl[c].ret = "none" THEN "verify" ELSE "done"])
  /\ UNCHANGED <<rows, told>>

\* Verify or VerifyDummy on the thread pool, then the answer of Login.
Verify(c) ==
  /\ At(c, "verify")
  /\ \/ Goes(c, [cl[c] EXCEPT !.pc = "done", !.ret = "failed"])
     \/ Goes(c, [cl[c] EXCEPT !.pc = "done",
                   !.ret = IF cl[c].found = {} THEN "nouser"
                           ELSE IF \A x \in cl[c].found : x.pw = Row(c).pw THEN "ok" ELSE "wrong"])
  /\ UNCHANGED <<rows, idle, told>>

Return(c) ==
  /\ At(c, "done")
  /\ told' = IF cl[c].ret = "ok" /\ cl[c].op # "login" THEN told \cup cl[c].row ELSE told
  /\ Goes(c, NoCall)
  /\ UNCHANGED <<rows, idle>>

Step(c) == \/ Acquire(c) \/ InsertUser(c) \/ QueryByUsername(c)
           \/ TxnBegin(c) \/ TxnStmt(c) \/ TxnCommit(c) \/ TxnRollback(c)
           \/ Release(c) \/ Verify(c) \/ Return(c)

Next == \E c \in Client : Step(c) \/ \E op \in Ops : Begin(c, op)

Spec == Init /\ [][Next]_userVars

-----------------------------------------------------------------------------
(* Hazard: a connection with an unread answer or an open transaction goes   *)
(* back to the pool, and the next borrower reads or commits what is not its *)
(* own.  Whatever fails, a connection that is reused is in step with its    *)
(* server; two registrations of a name, or a lost answer, never leave two   *)
(* rows for it.                                                             *)
ConnectionsInStep ==
  /\ \A k \in idle : k = Clean
  /\ \A x, y \in rows : x.user = y.user \/ x.vid = y.vid => x = y

(* usql.h:74 "0 成功; !0 失败": what is reported as inserted is in the table,   *)
(* and a login that succeeds found the password of the account.             *)
SuccessIsReal ==
  /\ told \subseteq rows
  /\ \A c \in Client : cl[c].op = "login" /\ cl[c].ret = "ok" =>
        \E x \in rows : x.user = Row(c).user /\ x.pw = Row(c).pw

(* Both, as far as the client library reports what happened to a call.      *)
AccountsSafe == ConnectionsInStep /\ SuccessIsReal
=============================================================================
