--------------------------- MODULE HttpConnection ----------------------------
(***************************************************************************)
(* http/httpconnection.cpp, with the HttpContext of httpserver.cpp and     *)
(* the HttpResponse it fills: from a parsed request to the last byte of    *)
(* its response, request after request on one connection.                  *)
(*                                                                         *)
(*   Process   bad? error page : HandleRequest -> GenHttpHeader            *)
(*   HandleRequest  redirect, unsafe path, chain of handlers or 404        *)
(*             -> static resource, template, range -> error page           *)
(*   Write     header and body, then usendfile() until the end point       *)
(*             -> count the request, Reset and read on, or close           *)
(*                                                                         *)
(* Handlers are arbitrary programs: the one on top may set content, call   *)
(* Next(), return, Abort() or throw.  Contents are numbered in the order   *)
(* they are set.  A body has one byte, a file FileSize bytes; usendfile()  *)
(* moves at most Pipe bytes at a time, the capacity of its pipe.           *)
(***************************************************************************)
EXTENDS Integers, Sequences, FiniteSets

CONSTANTS Handlers,        \* length of a route's chain
          FileSize, Pipe,
          Chunk,           \* chunksz
          SizeMod,         \* size_t wraps at this number
          KeepAliveCount,  \* m_iKeepAliveCount
          Request,         \* requests: records good, path, head, keep, range
          MaxSets          \* bound: contents the handlers of a request set

VARIABLES pc, req, rsp,
          keepAlive,   \* m_bKeepAlive of the response
          reqCount,    \* m_iCurrentReqCount
          idx,         \* m_iCurHandleIndex + 1
          depth,       \* handlers that are active, nested by Next()
          entered,     \* the handlers run so far
          sets,        \* contents set so far (m_bHasSetRspContent: sets > 0)
          last,        \* the kind of the last one
          length,      \* Content-length of the header
          sent,        \* bytes of content written
          offset, total, remain   \* of Write() and usendfile()

connVars == <<pc, req, rsp, keepAlive, reqCount, idx, depth, entered, sets, last,
              length, sent, offset, total, remain>>
chainVars == <<idx, depth, entered>>
sendVars == <<length, sent, offset, total, remain>>

ErrorPage == 100   \* the number of a generated error page
NoFile == -1

\* HttpResponse::Reset.
Blank == [code |-> 0, path |-> "", tag |-> 0, body |-> 0, file |-> NoFile,
          from |-> 0, to |-> 0, err |-> FALSE]

Init == /\ pc = "read"
        /\ req \in Request
        /\ rsp = Blank
        /\ keepAlive = FALSE
        /\ reqCount = 0
        /\ idx = 0 /\ depth = 0 /\ entered = <<>>
        /\ sets = 0 /\ last = "none"
        /\ length = 0 /\ sent = 0 /\ offset = 0 /\ total = 0 /\ remain = 0

----------------------------------------------------------------------------
(* Error pages *)

\* GenErrorPage(): a static page, the rendered template, an unusable
\* template (no content), or the built-in page.
ErrorPages(code) ==
  {[Blank EXCEPT !.code = code, !.file = FileSize],
   [Blank EXCEPT !.code = code, !.body = ErrorPage],
   [Blank EXCEPT !.code = code]}

ShouldGenErrorPage(code) == [Blank EXCEPT !.code = code, !.err = TRUE]

----------------------------------------------------------------------------
(* Process and the start of HandleRequest *)

Answer(r, keep) == /\ rsp' = r
                   /\ keepAlive' = keep
                   /\ pc' = "header"
                   /\ UNCHANGED <<req, reqCount, chainVars, sets, last, sendVars>>

BadRequest == /\ pc = "read"
              /\ ~req.good \/ req.path = "unsafe"
              /\ \E r \in ErrorPages(400) : Answer(r, FALSE)

SlashRedirect == /\ pc = "read"
                 /\ req.good /\ req.path = "slash"
                 /\ Answer([Blank EXCEPT !.code = 301], req.keep)

NoRoute == /\ pc = "read"
           /\ req.good /\ req.path = "unknown"
           /\ \E r \in ErrorPages(404) : Answer(r, req.keep)

\* ctx.Next() starts the chain.
ChainStart == /\ pc = "read"
              /\ req.good /\ req.path = "routed"
              /\ pc' = "chain"
              /\ rsp' = [Blank EXCEPT !.code = 200]
              /\ keepAlive' = req.keep
              /\ idx' = 1 /\ depth' = 1 /\ entered' = <<1>>
              /\ UNCHANGED <<req, reqCount, sets, last, sendVars>>

----------------------------------------------------------------------------
(* HttpContext: the handler on top of the chain runs *)

\* Bug: content that was set before is left in place.
ClearedNever == rsp

\* OVERWRITE_RSPCONTENT: ResetContent() unless this is the first content.
Cleared == IF sets = 0 THEN rsp
           ELSE [rsp EXCEPT !.err = FALSE, !.file = NoFile, !.path = "", !.body = 0]

Sets(r, kind) == /\ pc = "chain"
                 /\ sets < MaxSets
                 /\ sets' = sets + 1
                 /\ rsp' = r
                 /\ last' = kind
                 /\ UNCHANGED <<pc, req, keepAlive, reqCount, chainVars, sendVars>>

\* Json, String and Data; HTML with arguments; HTML and File without.
SetBody == Sets([Cleared EXCEPT !.body = sets + 1, !.code = 200], "body")
SetTemplate == Sets([Cleared EXCEPT !.path = "template", !.tag = sets + 1, !.code = 200],
                    "template")
SetFile == Sets([Cleared EXCEPT !.path = "file", !.tag = sets + 1], "file")
\* GenErrorPage(), or Json() of a message that cannot be converted.
SetError == Sets(ShouldGenErrorPage(500), "error")
SetRedirect == Sets([Cleared EXCEPT !.code = 302], "redirect")

\* Next() from inside a handler.
CallNext == /\ pc = "chain"
            /\ idx <= Handlers
            /\ idx' = idx + 1
            /\ IF idx' <= Handlers
               THEN depth' = depth + 1 /\ entered' = Append(entered, idx')
               ELSE UNCHANGED <<depth, entered>>
            /\ UNCHANGED <<pc, req, rsp, keepAlive, reqCount, sets, last, sendVars>>

\* A handler returns to the loop of the Next() that called it.
HandlerReturns == /\ pc = "chain"
                  /\ idx' = IF idx <= Handlers THEN idx + 1 ELSE idx
                  /\ IF idx' <= Handlers
                     THEN entered' = Append(entered, idx') /\ UNCHANGED <<pc, depth>>
                     ELSE /\ depth' = depth - 1
                          /\ pc' = IF depth = 1 THEN "resource" ELSE pc
                          /\ UNCHANGED entered
                  /\ UNCHANGED <<req, rsp, keepAlive, reqCount, sets, last, sendVars>>

\* HttpException unwinds the chain, what is set stays.
Abort == /\ pc = "chain"
         /\ pc' = "resource"
         /\ depth' = 0
         /\ UNCHANGED <<req, rsp, keepAlive, reqCount, idx, entered, sets, last, sendVars>>

Throw == /\ pc = "chain"
         /\ pc' = "resource"
         /\ depth' = 0
         /\ keepAlive' = FALSE
         /\ rsp' = ShouldGenErrorPage(500)
         /\ last' = "error"
         /\ UNCHANGED <<req, reqCount, idx, entered, sets, sendVars>>

----------------------------------------------------------------------------
(* HandleRequest after the chain *)

\* parse_range(): a range is [lo, hi] with -1 for a number left out; "bytes="
\* missing, no dash or no number is not ok.  Numbers fit the int they end up in.
ParseRange(g) ==
  LET from == IF g.lo = -1 THEN IF g.hi > FileSize THEN 0 ELSE FileSize - g.hi ELSE g.lo
      to   == IF g.lo = -1 \/ g.hi = -1 THEN FileSize - 1 ELSE g.hi
  IN  IF ~g.ok \/ from > to \/ from >= FileSize THEN {}
      ELSE {<<from, IF to >= FileSize THEN FileSize - 1 ELSE to>>}

\* The 206 for a range, cut to the chunk size.
Partial(r) == LET to == IF r[2] > r[1] + Chunk - 1 THEN r[1] + Chunk - 1 ELSE r[2]
              IN  [rsp EXCEPT !.file = FileSize, !.code = 206, !.from = r[1], !.to = to]

Ends(r) == /\ rsp' = r
           /\ pc' = "header"
           /\ UNCHANGED <<req, keepAlive, reqCount, chainVars, sets, last, sendVars>>

NoResource == /\ pc = "resource"
              /\ rsp.path = ""
              /\ IF rsp.err THEN \E r \in ErrorPages(rsp.code) : Ends(r) ELSE Ends(rsp)

ResourceMissing == /\ pc = "resource"
                   /\ rsp.path # ""
                   /\ \E code \in {403, 404} : \E r \in ErrorPages(code) : Ends(r)

FileFound == /\ pc = "resource"
             /\ rsp.path = "file"
             /\ IF ~req.range.given THEN Ends([rsp EXCEPT !.file = FileSize])
                ELSE IF ParseRange(req.range) = {}
                THEN \E r \in ErrorPages(400) : Ends(r)
                ELSE \E r \in ParseRange(req.range) : Ends(Partial(r))

\* GenHtmlTemplate() renders, or its read fails.
TemplateFound == /\ pc = "resource"
                 /\ rsp.path = "template"
                 /\ \/ Ends([rsp EXCEPT !.body = rsp.tag])
                    \/ \E r \in ErrorPages(500) : Ends(r)

----------------------------------------------------------------------------
(* GenHttpHeader and Write *)

IsPartial == rsp.from # 0 \/ rsp.to # 0

GenHttpHeader == /\ pc = "header"
                 /\ length' = IF rsp.file = NoFile THEN IF rsp.body = 0 THEN 0 ELSE 1
                              ELSE IF IsPartial THEN rsp.to - rsp.from + 1 ELSE rsp.file
                 /\ pc' = "write"
                 /\ UNCHANGED <<req, rsp, keepAlive, reqCount, chainVars, sets, last,
                                sent, offset, total, remain>>

SendFile == ~req.head /\ rsp.file # NoFile

\* The header and a body go out; with a file usendfile() is called next.
WriteHead == /\ pc = "write"
             /\ sent' = IF ~req.head /\ rsp.file = NoFile /\ rsp.body # 0 THEN 1 ELSE 0
             /\ IF SendFile
                THEN /\ offset' = rsp.from
                     /\ total' = IF IsPartial THEN rsp.to - rsp.from + 1 ELSE rsp.file
                     /\ remain' = total'
                     /\ pc' = "splice"
                ELSE pc' = "written" /\ UNCHANGED <<offset, total, remain>>
             /\ UNCHANGED <<req, rsp, keepAlive, reqCount, chainVars, sets, last, length>>

\* usendfile(): it asks for count bytes each time, not for what remains, and
\* gets any number of them: a splice stops at the capacity of the pipe, which is
\* counted in pages and not in bytes, and may stop before.
Splice == /\ pc = "splice"
          /\ remain > 0
          /\ LET left == FileSize - offset
                 want == IF total < Pipe THEN total ELSE Pipe
             IN  \E m \in 0..left :
                   /\ m <= want /\ (m = 0 => left = 0)
                   /\ offset' = offset + m
                   /\ sent' = sent + m
                   /\ remain' = IF m = 0 THEN 0 ELSE (remain - m) % SizeMod
          /\ UNCHANGED <<pc, req, rsp, keepAlive, reqCount, chainVars, sets, last, length,
                         total>>

\* It returns; Write() calls it again while offset is short of the end point.
SendfileReturns ==
  LET endpoint == IF IsPartial THEN rsp.to + 1 ELSE rsp.file
  IN  /\ pc = "splice"
      /\ remain = 0
      /\ total' = (total + (offset - rsp.from)) % SizeMod
      /\ IF offset < endpoint THEN remain' = total' /\ UNCHANGED pc
         ELSE pc' = "written" /\ UNCHANGED remain
      /\ UNCHANGED <<req, rsp, keepAlive, reqCount, chainVars, sets, last, length, sent,
                     offset>>

\* A timeout or an error of any write: the connection is closed.
WriteFails == /\ pc \in {"write", "splice"}
              /\ pc' = "closed"
              /\ UNCHANGED <<req, rsp, keepAlive, reqCount, chainVars, sets, last, sendVars>>

Written == /\ pc = "written"
           /\ IF keepAlive /\ reqCount + 1 < KeepAliveCount
              THEN /\ pc' = "read"
                   /\ reqCount' = reqCount + 1
                   /\ req' \in Request
                   /\ rsp' = Blank
              ELSE pc' = "closed" /\ UNCHANGED <<reqCount, req, rsp>>
           /\ idx' = 0 /\ depth' = 0 /\ entered' = <<>>
           /\ sets' = 0 /\ last' = "none"
           /\ UNCHANGED <<keepAlive, sendVars>>

\* Read() returns false: the peer is gone or the time is up.
ReadFails == /\ pc = "read"
             /\ pc' = "closed"
             /\ UNCHANGED <<req, rsp, keepAlive, reqCount, chainVars, sets, last, sendVars>>

Next == \/ BadRequest \/ SlashRedirect \/ NoRoute \/ ChainStart
        \/ SetBody \/ SetTemplate \/ SetFile \/ SetError \/ SetRedirect
        \/ CallNext \/ HandlerReturns \/ Abort \/ Throw
        \/ NoResource \/ ResourceMissing \/ FileFound \/ TemplateFound
        \/ GenHttpHeader \/ WriteHead \/ Splice \/ SendfileReturns
        \/ WriteFails \/ Written \/ ReadFails

Spec == Init /\ [][Next]_connVars

----------------------------------------------------------------------------
(* Properties *)

\* Every handler runs at most once and in its order, whoever calls Next() how
\* often; and "后写覆盖先写" (httpserver.cpp:47): what a later handler sets replaces
\* what an earlier one set, so the response never mixes two contents.
LastContentWins ==
  /\ \A i, j \in DOMAIN entered : i < j => entered[i] < entered[j]
  /\ rsp.file = NoFile \/ rsp.body = 0
  /\ pc = "header" =>
       /\ last = "body" => rsp.body = sets
       /\ last = "file" /\ rsp.code < 400 => rsp.file = FileSize
       /\ last = "template" /\ rsp.code < 400 => rsp.body = sets
       /\ last \in {"none", "redirect"} /\ rsp.code < 400 => rsp.body = 0 /\ rsp.file = NoFile
       /\ last = "error" => rsp.body \in {0, ErrorPage}

\* Nothing of a file follows what is sent of it.
ToEnd == rsp.file = NoFile \/ ~IsPartial \/ rsp.to = FileSize - 1

\* When a response is out the bytes of its content are as many as its
\* Content-length said, so the next response starts where the client expects
\* it, however few bytes each splice moved.  A range that ends before the end
\* of its file is only known to be out in full: usendfile() asks for its count
\* again after each part and may send bytes behind the range.  A connection is
\* reused less than KeepAliveCount times and never after a refused request.
FramingExact ==
  /\ pc = "written" => IF req.head THEN sent = 0
                       ELSE sent >= length /\ (ToEnd => sent = length)
  /\ pc = "read" => reqCount < KeepAliveCount
  /\ pc = "written" /\ (~req.good \/ req.path = "unsafe") => ~keepAlive
==============================================================================
