------------------------------ MODULE HttpConn ------------------------------
(***************************************************************************)
(* One http_conn from accept to close: what the peer sends is read and     *)
(* parsed (HttpParse), turned into a response (process), and sent          *)
(* (HttpWrite); a kept connection starts over with init(). While a worker  *)
(* has the request, and while the response is sent, nothing is read: the   *)
(* one-shot event of Server sees to it, so the two sides share one pc.     *)
(***************************************************************************)
EXTENDS HttpParse, FiniteSets

CONSTANTS HeadSizes, FileSizes   \* of HttpWrite

VARIABLES
  m_iv0, m_iv1, m_iv_count,
  m_write_index, bytes_to_send, bytes_have_send,
  st_size, m_file_address, mappings,
  response, delivered, headCuts,
  answers    \* history: the requests whose page has been sent, in order

W == INSTANCE HttpWrite

ASSUME SizesAssumption == W!Sizes

parseVars == <<parserVars, gone>>
buffers ==
  <<m_iv0, m_iv1, m_iv_count, m_write_index, bytes_to_send, bytes_have_send,
    st_size, m_file_address, mappings>>
writeVars == <<buffers, response, delivered, headCuts>>
vars == <<parseVars, writeVars, pc, ret, answers>>

Init == ParserInit /\ W!Init /\ answers = <<>>
-----------------------------------------------------------------------------
\* The main thread at EPOLLIN. (The history of the last response ends here.)
Read ==
  /\ Receive
  /\ response' = <<>> /\ delivered' = <<>> /\ headCuts' = 0
  /\ UNCHANGED <<buffers, answers>>

\* A worker in process(): process_read, which calls do_request for a complete
\* request, then process_write; a response it cannot write closes the
\* connection.
Parse == process_read /\ UNCHANGED <<writeVars, answers>>
DoRequest == W!do_request /\ UNCHANGED <<parseVars, answers>>
Respond == W!process_write /\ UNCHANGED <<parseVars, answers>>

\* BAD_REQUEST from parse_request_line leaves the parser where it was.
IsPage == m_check_state # "REQUESTLINE"

\* init() and the history of answers when a response is out.
Answered == answers' = IF IsPage THEN answers \o SetToSeq(Current) ELSE answers

\* The main thread at EPOLLOUT: write() keeps a connection if m_linger is set.
KeepIt == m_linger

WriteMore(n) == W!WriteMore(n) /\ UNCHANGED <<parseVars, answers>>
WriteLast(n) == ~KeepIt /\ W!WriteLast(n) /\ Answered /\ UNCHANGED parseVars
WriteKept(n) == KeepIt /\ W!WriteKept(n) /\ Answered /\ init
Write == \E n \in 0..Len(W!Offered) : WriteMore(n) \/ WriteLast(n) \/ WriteKept(n)

\* writev fails: the peer is gone.
WriteFails ==
  /\ W!WriteFails
  /\ gone' = TRUE
  /\ UNCHANGED <<parserVars, answers>>

Work == Parse \/ DoRequest \/ Respond

Next == Read \/ Work \/ Write \/ WriteFails

Spec == Init /\ [][Next]_vars

\* The worker and the main thread go on; a peer that has not gone sends its
\* requests to their end, and reads what it gets. Nothing makes it go.
Arrival == Read /\ ~gone'
FairSpec == Spec /\ WF_vars(Arrival) /\ WF_vars(Work) /\ WF_vars(Write)
-----------------------------------------------------------------------------
\* Every variable holds a value of its type.
TypeOK ==
  /\ ParserTypeOK /\ W!TypeOK
  /\ pc \in {"recv", "parse", "do_request", "respond", "sending", "closed", "refused", "dropped"}
  /\ ret \in {"none", "NO_REQUEST", "GET_REQUEST"} \cup W!ErrorCodes
             \cup {"FILE_REQUEST", "NO_RESOURCE"}
  /\ answers \in Seq(DOMAIN requests)

SentIsResponse == W!SentIsResponse
NothingMapped == W!NothingMapped

\* However the requests are cut into arrivals, and whatever was asked on the
\* connection before, what process_read makes of a request is what it says:
\* its method, its Connection header and its whole body. (A body cut in two is
\* answered only if more follows it, and then with whatever stands there.)
OutcomeRight ==
  pc \in {"do_request", "respond", "sending"} =>
    IF ~IsPage THEN \A k \in Current : requests[k].line = "malformed"
    ELSE \E k \in Current :
           /\ Complete /\ requests[k].line # "malformed"
           /\ (cgi = 1) = (requests[k].line = "POST")
           /\ m_linger = Contains(requests[k].headers, "Connection: keep-alive")
           /\ cut \/ m_string = requests[k].body

\* Requests whose lines end in CR LF and that fit into the buffer.
Proper == \A r \in Range(requests) : r.eol = CRLF /\ Len(Stream(r)) < READ_BUFF_SIZE

\* More than the current request has been received.
Overread == \A k \in Current : base + m_read_index > End(k)

\* A peer that sends proper requests, each only when the one before has been
\* answered, and stays, gets an answer to every one of them, unless the server
\* has said that it closes the connection or has refused the request. Needs
\* bodies that are not cut, and headers that are cut at most once.
IsAnswered ==
  Proper ~> \/ Len(answers) = Len(requests)
            \/ pc \in {"closed", "refused"} \/ gone
            \/ Overread \/ cut \/ headCuts = 2

\* The main thread comes out of write(): the loop there is not left until
\* bytes_to_send is 0, and the whole server waits for it. Needs a header that
\* is cut at most once: after a second cut the iovecs can be empty while
\* something is left to send.
WriteEnds == pc = "sending" ~> pc # "sending" \/ headCuts = 2

\* For the peer and for Server this is an Exchange.
Received == base + m_read_index
Begun == {k \in DOMAIN requests : Begin(k) < Received}
Arrived == {k \in DOMAIN requests : End(k) <= Received}
NextTurn == Cardinality({k \in DOMAIN requests : End(k) <= base}) + 1
Phase ==
  CASE pc = "recv" -> "reading"
    [] pc \in {"parse", "do_request", "respond"} -> "working"
    [] pc = "sending" -> "sending"
    [] OTHER -> "closed"
Asked(r) ==
  [good |-> r.line # "malformed", keep |-> Contains(r.headers, "Connection: keep-alive")]

EX == INSTANCE Exchange WITH
        asked <- [k \in DOMAIN requests |-> Asked(requests[k])],
        phase <- Phase,
        begun <- Cardinality(Begun), arrived <- Cardinality(Arrived),
        next <- NextTurn,
        torn <- (base # Begin(NextTurn)),
        reply <- IF pc # "sending" THEN "none" ELSE IF IsPage THEN "page" ELSE "error"
ImplementsExchange == EX!Spec
=============================================================================
