----------------------------- MODULE HttpParse ------------------------------
(***************************************************************************)
(* http_conn's reading side: read() collects what the peer has sent into   *)
(* m_read_buf, and process_read takes it apart line by line, keeping its   *)
(* place between two arrivals. One action is one recv or one turn of       *)
(* process_read's loop. HttpConn adds what happens to a parsed request.    *)
(*                                                                         *)
(* A request is abstracted to its request line, its headers and its body.  *)
(* In the buffer the text of a line is one symbol (where it is cut makes   *)
(* no difference to parse_line); CR, LF and the bytes of the body are      *)
(* symbols of their own.                                                   *)
(***************************************************************************)
EXTENDS Integers, Sequences, SequencesExt

CONSTANTS
  Conversations,   \* what the peer may send: sequences of requests as below
  READ_BUFF_SIZE   \* in symbols

RequestLines == {"GET", "POST", "malformed"}
Headers == {"Connection: keep-alive", "Content-Length", "Host"}
CRLF == <<"CR", "LF">>

BodySymbols == {"x", "CR", "LF"}
Symbols == RequestLines \cup Headers \cup BodySymbols

\* A Content-Length header gives the length of the body. (No body spells a
\* request line: it would be taken for one after a part of it is forgotten.)
Requests ==
  {r \in [line : RequestLines, headers : Seq(Headers),
          eol : {CRLF, <<"LF">>}, body : Seq(BodySymbols)] :
     r.body # <<>> <=> Contains(r.headers, "Content-Length")}
ASSUME RequestsAssumption ==
  Conversations \subseteq Seq(Requests) /\ READ_BUFF_SIZE \in Nat \ {0}

VARIABLES
  requests,      \* history: what the peer sends on this connection
  base,          \* history: the symbols of it that init() has forgotten
  cut,           \* history: the current body has arrived in more than one part
  gone,          \* the peer has closed its side
  m_read_index, m_check_index, m_start_line,
  m_check_state, cgi, m_content_length, m_linger, m_string,
  line_status,
  pc,            \* "recv", "parse" inside process_read, then "do_request" or
                 \* "respond"; "dropped" when main closes the connection
  ret            \* what process_read returns

peerVars == <<requests, base>>
indices == <<m_read_index, m_check_index, m_start_line>>
fields == <<cgi, m_content_length, m_linger, m_string>>
parserVars == <<peerVars, cut, indices, m_check_state, fields, line_status>>

Line(text, r) == <<text>> \o r.eol
HeaderLines(r) == FlattenSeq([i \in 1..Len(r.headers) |-> Line(r.headers[i], r)])
Stream(r) == Line(r.line, r) \o HeaderLines(r) \o r.eol \o r.body
Streams == [c \in Conversations |-> FlattenSeq([k \in 1..Len(c) |-> Stream(c[k])])]

\* Where a request of a conversation ends in its stream, and the next begins.
Ends ==
  [c \in Conversations |->
     [k \in 0..Len(c) |-> Len(FlattenSeq([i \in 1..k |-> Stream(c[i])]))]]
End(k) == Ends[requests][k]
Begin(k) == End(k - 1)
Sent == Len(Streams[requests])

\* The request that begins where m_read_buf does, if one does.
Current == {k \in DOMAIN requests : Begin(k) = base}

\* m_read_buf, indexed from 0; init() has filled it with zeros.
Buf(i) == IF i < m_read_index THEN Streams[requests][base + i + 1] ELSE "NUL"

ParserInit ==
  /\ requests \in Conversations /\ base = 0 /\ cut = FALSE /\ gone = FALSE
  /\ m_read_index = 0 /\ m_check_index = 0 /\ m_start_line = 0
  /\ m_check_state = "REQUESTLINE" /\ cgi = 0 /\ m_content_length = 0
  /\ m_linger = FALSE /\ m_string = <<>>
  /\ line_status = "OK" /\ pc = "recv" /\ ret = "none"

\* init() between two requests: it forgets all that has been received.
init_KeepsFields ==
  /\ base' = base + m_read_index
  /\ m_read_index' = 0 /\ m_check_index' = 0 /\ m_start_line' = 0
  /\ m_check_state' = "REQUESTLINE" /\ m_string' = <<>>
  /\ cut' = FALSE
  /\ UNCHANGED <<requests, gone, cgi, m_content_length, m_linger, line_status, ret>>
init_KeepsBuffer ==
  /\ m_check_index' = 0 /\ m_start_line' = 0
  /\ m_check_state' = "REQUESTLINE" /\ cgi' = 0 /\ m_content_length' = 0
  /\ m_linger' = FALSE /\ m_string' = <<>>
  /\ cut' = FALSE
  /\ UNCHANGED <<peerVars, m_read_index, gone, line_status, ret>>
init ==
  /\ base' = base + m_read_index
  /\ m_read_index' = 0 /\ m_check_index' = 0 /\ m_start_line' = 0
  /\ m_check_state' = "REQUESTLINE" /\ cgi' = 0 /\ m_content_length' = 0
  /\ m_linger' = FALSE /\ m_string' = <<>>
  /\ cut' = FALSE
  /\ UNCHANGED <<requests, gone, line_status, ret>>
-----------------------------------------------------------------------------
InBody(n) ==
  \E k \in Current : base + n > End(k) - Len(requests[k].body) /\ base + n < End(k)

\* read(): recv until nothing is left. The connection is dropped when recv
\* returns 0, whatever has arrived before: at the end of the peer's side, and
\* when the buffer is full and recv is asked for 0 bytes. Otherwise the main
\* thread hands over to a worker, which calls process_read.
Receive ==
  /\ pc = "recv"
  /\ \E n \in m_read_index..READ_BUFF_SIZE, fin \in BOOLEAN :
       /\ base + n <= Sent
       /\ n > m_read_index \/ fin
       /\ m_read_index' = n
       /\ cut' = (cut \/ InBody(n))
       /\ gone' = fin
       /\ pc' = IF fin \/ n = READ_BUFF_SIZE THEN "dropped" ELSE "parse"
  /\ line_status' = "OK"
  /\ UNCHANGED <<peerVars, m_check_index, m_start_line, m_check_state, fields, ret>>

\* parse_line: from m_check_index to the first CR or LF. The index is left on
\* a CR that is the last symbol so far, and on a bad line end.
LineAt(status, index) == [status |-> status, index |-> index]
parse_line_SkipCR ==
  LET ends == {i \in m_check_index..m_read_index - 1 : Buf(i) \in {"CR", "LF"}}
      i == CHOOSE i \in ends : \A j \in ends : i <= j
  IN IF ends = {} THEN LineAt("OPEN", m_read_index)
     ELSE IF Buf(i) = "CR" /\ i + 1 = m_read_index THEN LineAt("OPEN", i + 1)
     ELSE IF Buf(i) = "CR" /\ Buf(i + 1) = "LF" THEN LineAt("OK", i + 2)
     ELSE LineAt("BAD", i)
parse_line ==
  LET ends == {i \in m_check_index..m_read_index - 1 : Buf(i) \in {"CR", "LF"}}
      i == CHOOSE i \in ends : \A j \in ends : i <= j
  IN IF ends = {} THEN LineAt("OPEN", m_read_index)
     ELSE IF Buf(i) = "CR" /\ i + 1 = m_read_index THEN LineAt("OPEN", i)
     ELSE IF Buf(i) = "CR" /\ Buf(i + 1) = "LF" THEN LineAt("OK", i + 2)
     ELSE IF Buf(i) = "LF" /\ i > 1 /\ Buf(i - 1) = "CR" THEN LineAt("OK", i + 1)
     ELSE LineAt("BAD", i)

\* The text of get_line(), which the parsed CR LF ends: "" for an empty line.
Text(start, end) == IF end - start > 2 THEN Buf(start) ELSE ""

Return(code) ==
  pc' = (IF code = "GET_REQUEST" THEN "do_request" ELSE "respond") /\ ret' = code
Continue == UNCHANGED <<pc, ret>>

parse_request_line(text) ==
  /\ cgi' = IF text = "POST" THEN 1 ELSE cgi
  /\ IF text \in {"GET", "POST"}
     THEN m_check_state' = "HEADER" /\ Continue
     ELSE Return("BAD_REQUEST") /\ UNCHANGED m_check_state
  /\ UNCHANGED <<m_content_length, m_linger, m_string>>

\* The empty line ends the headers, and the request if no body is announced.
parse_headers(text) ==
  \/ /\ text = ""
     /\ IF m_content_length # 0 THEN m_check_state' = "CONTENT" /\ Continue
                                ELSE Return("GET_REQUEST") /\ UNCHANGED m_check_state
     /\ UNCHANGED fields
  \/ /\ text # "" /\ Continue
     /\ m_linger' = (m_linger \/ text = "Connection: keep-alive")
     /\ IF text = "Content-Length"
        THEN \E k \in Current : m_content_length' = Len(requests[k].body)
        ELSE UNCHANGED m_content_length
     /\ UNCHANGED <<m_check_state, cgi, m_string>>

\* A turn of the loop on a line that parse_line found.
ParseLine ==
  /\ pc = "parse"
  /\ ~(m_check_state = "CONTENT" /\ line_status = "OK")
  /\ parse_line.status = "OK" /\ m_check_state # "CONTENT"
  /\ line_status' = "OK"
  /\ m_check_index' = parse_line.index /\ m_start_line' = parse_line.index
  /\ LET text == Text(m_start_line, parse_line.index)
     IN IF m_check_state = "REQUESTLINE" THEN parse_request_line(text)
        ELSE parse_headers(text)
  /\ UNCHANGED <<peerVars, cut, gone, m_read_index>>

\* A turn on the body, which parse_line does not look at first; but after a
\* line end inside the body the loop comes here too.
EnoughBody_OneShort(index) == m_read_index + 1 >= index + m_content_length
EnoughBody_Strict(index) == m_read_index > index + m_content_length
EnoughBody(index) == m_read_index >= index + m_content_length

ParseContent ==
  /\ pc = "parse" /\ m_check_state = "CONTENT"
  /\ line_status = "OK" \/ parse_line.status = "OK"
  /\ LET index == IF line_status = "OK" THEN m_check_index ELSE parse_line.index
     IN /\ m_check_index' = index /\ m_start_line' = index
        /\ IF EnoughBody(index)
           THEN /\ m_string' = [k \in 1..m_content_length |-> Buf(m_start_line + k - 1)]
                /\ Return("GET_REQUEST")
                /\ UNCHANGED line_status
           ELSE line_status' = "OPEN" /\ Continue /\ UNCHANGED m_string
  /\ UNCHANGED <<peerVars, cut, gone, m_read_index, m_check_state,
                 cgi, m_content_length, m_linger>>

\* The loop ends when parse_line finds no line, or a bad one: NO_REQUEST, and
\* the worker asks epoll for more. parse_line has moved m_check_index - also
\* when the turn before was on a body that is not complete yet.
EndParse ==
  /\ pc = "parse"
  /\ ~(m_check_state = "CONTENT" /\ line_status = "OK")
  /\ parse_line.status # "OK"
  /\ line_status' = parse_line.status
  /\ m_check_index' = parse_line.index
  /\ pc' = "recv" /\ ret' = "NO_REQUEST"
  /\ UNCHANGED <<peerVars, cut, gone, m_read_index, m_start_line, m_check_state, fields>>

process_read == ParseLine \/ ParseContent \/ EndParse
-----------------------------------------------------------------------------
\* Every variable holds a value of its type.
ParserTypeOK ==
  /\ requests \in Conversations /\ base \in 0..Sent
  /\ cut \in BOOLEAN /\ gone \in BOOLEAN
  /\ m_read_index \in 0..READ_BUFF_SIZE
  /\ m_check_index \in 0..m_read_index /\ m_start_line \in 0..m_check_index
  /\ m_check_state \in {"REQUESTLINE", "HEADER", "CONTENT"}
  /\ cgi \in {0, 1} /\ m_content_length \in Nat /\ m_linger \in BOOLEAN
  /\ m_string \in Seq(Symbols)
  /\ line_status \in {"OK", "OPEN", "BAD"}

\* The request at the start of the buffer has come to its end.
Complete == \E k \in Current : base + m_read_index >= End(k)

\* "NO_REQUEST: the request is incomplete, go on receiving" (http_conn.cpp
\* 206): the peer has more of it to send.
NoRequestMeansIncomplete == pc = "recv" /\ m_read_index > 0 => ~Complete

\* That is right but for a body cut in two: a request with proper line ends is
\* never left waiting for what has already come, wherever else it was cut.
StallsOnCutBodyOnly ==
  ~cut /\ (\A k \in Current : requests[k].eol = CRLF) => NoRequestMeansIncomplete
=============================================================================
