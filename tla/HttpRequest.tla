----------------------------- MODULE HttpRequest -----------------------------
(***************************************************************************)
(* http/httprequest.cpp: the incremental parser of a connection.  Read()   *)
(* appends what the socket delivers, Parse() then runs ParseLine() and the *)
(* state machine as far as the bytes allow, and continues at the next      *)
(* read.                                                                   *)
(*                                                                         *)
(* A byte is CR "R", LF "N" or the name of another one: a line with an "x" *)
(* is a request line ParseRequestLine() accepts, a header line with "L" is *)
(* a Content-Length of one, one with "C" is a Connection other than        *)
(* keep-alive, one with "y" has no colon.  The stream is what the peer     *)
(* sends; rd counts the bytes retrieved from the buffer.                   *)
(***************************************************************************)
EXTENDS Naturals, Sequences, FiniteSets, FiniteSetsExt

CONSTANT Streams   \* what peers send

VARIABLES stream,
          got,            \* bytes read from the socket so far
          base, rd,       \* where the request began; the read position
          offset,         \* m_iReadPositionOffsetWhenParseLine
          state,          \* m_state
          lines,          \* the lines parsed
          contentLength,  \* m_iHttpRequsetContentLength
          keepAlive,      \* m_bKeepAlive
          result          \* what Parse() returned, "parsing" inside it

reqVars == <<stream, got, base, rd, offset, state, lines, contentLength, keepAlive,
             result>>

Fresh == /\ offset' = 0
         /\ state' = "start"
         /\ lines' = <<>>
         /\ contentLength' = 0
         /\ keepAlive' = TRUE
         /\ result' = "incomplete"

Init == /\ stream \in Streams
        /\ got = 0 /\ base = 0 /\ rd = 0
        /\ offset = 0
        /\ state = "start"
        /\ lines = <<>>
        /\ contentLength = 0
        /\ keepAlive = TRUE
        /\ result = "incomplete"

\* One read of n bytes, then Parse() starts.
Read(n) == /\ result = "incomplete"
           /\ got + n <= Len(stream)
           /\ got' = got + n
           /\ result' = "parsing"
           /\ state' = IF state = "start" THEN "requestLine" ELSE state
           /\ UNCHANGED <<stream, base, rd, offset, lines, contentLength, keepAlive>>

----------------------------------------------------------------------------
(* ParseLine: from the remembered offset on, the first CR or LF decides. *)

Marks == {i \in rd + offset + 1 .. got : stream[i] \in {"R", "N"}}
Mark == Min(Marks)

Open == Marks # {} => (stream[Mark] = "R" /\ Mark = got)

\* Bug: a CR at the end of one read and its LF in the next are not joined.
EndsLineWhole == /\ ~Open
                 /\ stream[Mark] = "R"
                 /\ stream[Mark + 1] = "N"

\* CR LF, or LF whose CR came with an earlier read.
EndsLine == /\ ~Open
            /\ \/ stream[Mark] = "R" /\ stream[Mark + 1] = "N"
               \/ stream[Mark] = "N" /\ Mark > rd + 1 /\ stream[Mark - 1] = "R"

CurLine == SubSeq(stream, rd + 1, IF stream[Mark] = "R" THEN Mark - 1 ELSE Mark - 2)
LineEnd == IF stream[Mark] = "R" THEN Mark + 1 ELSE Mark

Has(line, c) == \E i \in DOMAIN line : line[i] = c

InLine == result = "parsing" /\ state # "body"

LineOpen == /\ InLine
            /\ Open
            /\ offset' = got - rd
            /\ result' = "incomplete"
            /\ UNCHANGED <<stream, got, base, rd, state, lines, contentLength,
                           keepAlive>>

LineBad == /\ InLine
           /\ ~Open /\ ~EndsLine
           /\ offset' = 0
           /\ result' = "bad"
           /\ UNCHANGED <<stream, got, base, rd, state, lines, contentLength, keepAlive>>

----------------------------------------------------------------------------
(* Parse: what a complete line means in each state. *)

Takes == /\ InLine
         /\ EndsLine
         /\ rd' = LineEnd
         /\ offset' = 0
         /\ UNCHANGED <<stream, got, base>>

RequestLine == /\ Takes
               /\ state = "requestLine"
               /\ IF Has(CurLine, "x")
                  THEN /\ state' = "header"
                       /\ lines' = Append(lines, CurLine)
                       /\ UNCHANGED result
                  ELSE result' = "bad" /\ UNCHANGED <<state, lines>>
               /\ UNCHANGED <<contentLength, keepAlive>>

Header == /\ Takes
          /\ state = "header"
          /\ CurLine # <<>>
          /\ IF Has(CurLine, "y")
             THEN result' = "bad" /\ UNCHANGED <<lines, contentLength, keepAlive>>
             ELSE /\ lines' = Append(lines, CurLine)
                  /\ contentLength' = IF Has(CurLine, "L") THEN 1 ELSE contentLength
                  /\ keepAlive' = (keepAlive /\ ~Has(CurLine, "C"))
                  /\ UNCHANGED result
          /\ UNCHANGED state

HeadersEnd == /\ Takes
              /\ state = "header"
              /\ CurLine = <<>>
              /\ state' = "body"
              /\ UNCHANGED <<lines, contentLength, keepAlive, result>>

\* ParseBody.
Body == /\ result = "parsing"
        /\ state = "body"
        /\ IF got - rd >= contentLength
           THEN state' = "finish" /\ result' = "ok"
           ELSE result' = "incomplete" /\ UNCHANGED state
        /\ UNCHANGED <<stream, got, base, rd, offset, lines, contentLength, keepAlive>>

\* Reset for the next request of the connection: the buffer is emptied, with
\* whatever of the next request it already held.
Reset == /\ result = "ok"
         /\ keepAlive
         /\ base' = got
         /\ rd' = got
         /\ Fresh
         /\ UNCHANGED <<stream, got>>

Next == \/ \E n \in 1..Len(stream) : Read(n)
        \/ LineOpen
        \/ LineBad
        \/ RequestLine
        \/ Header
        \/ HeadersEnd
        \/ Body
        \/ Reset

----------------------------------------------------------------------------
(* Reference: what a request is, without reads.                            *)

\* Positions of line ends among the first n bytes of this request.
LineEnds(n) == {i \in base + 2 .. n : stream[i - 1] = "R" /\ stream[i] = "N"}

Starts(n) == {base + 1} \union {i + 1 : i \in LineEnds(n)}
LineAt(s) == LET ends == {i \in base + 2 .. Len(stream) :
                            i > s /\ stream[i - 1] = "R" /\ stream[i] = "N"}
             IN  SubSeq(stream, s, Min(ends) - 2)

\* The first n bytes of the request are complete: the lines before the first
\* empty one are well formed, no CR or LF stands alone in them, and the body
\* is there.
HeadStarts(n) == {s \in Starts(n) : s < Max(Starts(n)) /\ LineAt(s) # <<>>
                                    /\ \A r \in Starts(n) : r < s => LineAt(r) # <<>>}
EmptyAt(n) == {s \in Starts(n) : s < Max(Starts(n)) /\ LineAt(s) = <<>>}
Complete(n) ==
  /\ EmptyAt(n) # {}
  /\ LET e == Min(EmptyAt(n))
     IN  /\ e > base + 1
         /\ Has(LineAt(base + 1), "x")
         /\ \A s \in HeadStarts(n) : s > base + 1 => ~Has(LineAt(s), "y")
         /\ \A i \in base + 1 .. e + 1 :
              /\ stream[i] = "R" => i < Len(stream) /\ stream[i + 1] = "N"
              /\ stream[i] = "N" => i > base + 1 /\ stream[i - 1] = "R"
         /\ (\E s \in HeadStarts(n) : s > base + 1 /\ Has(LineAt(s), "L")) => n > e + 1

\* A request that is well formed in one piece is accepted however the socket
\* cuts it up: never refused on the way, accepted once its bytes are there,
\* with exactly its lines.
SplitIndependent ==
  LET complete == {n \in base + 1 .. Len(stream) : Complete(n)}
  IN  /\ complete # {} => result # "bad"
      /\ (got \in complete /\ result # "parsing") =>
           /\ result = "ok"
           /\ Len(lines) = Cardinality(HeadStarts(got))
           /\ \A s \in HeadStarts(got) : \E k \in DOMAIN lines : lines[k] = LineAt(s)
==============================================================================
