----------------------------- MODULE HttpWrite ------------------------------
(***************************************************************************)
(* http_conn's writing side: do_request maps the file, process_write lays  *)
(* out a response in two pieces of memory, the header buffer and the       *)
(* mapped file, and write() sends them with writev, which may take any     *)
(* part of what it is offered. One action is one of these calls, or one    *)
(* turn of write()'s loop; a writev that would block changes nothing here  *)
(* (Server has it). HttpConn says when they are called.                    *)
(*                                                                         *)
(* Bytes are abstracted to their places: the k-th byte of the buffer or of *)
(* the file.                                                               *)
(***************************************************************************)
EXTENDS Integers, Sequences, SequencesExt

CONSTANTS
  HeadSizes,    \* what a header, with its error page, may come to
  FileSizes     \* m_file_stat.st_size

Sizes == HeadSizes \subseteq Nat \ {0} /\ FileSizes \subseteq Nat

VARIABLES
  m_iv0, m_iv1, m_iv_count,
  m_write_index, bytes_to_send, bytes_have_send,
  st_size,          \* m_file_stat.st_size
  m_file_address,   \* not 0
  mappings,         \* mappings made by mmap and not undone
  response,         \* history: the bytes of the response process_write has laid out
  delivered,        \* history: the bytes writev has taken for it
  headCuts,         \* history: writevs of it that ended inside the header, up to 2
  pc, ret           \* shared with HttpParse

iovs == <<m_iv0, m_iv1, m_iv_count>>
counts == <<m_write_index, bytes_to_send, bytes_have_send>>
fileVars == <<st_size, m_file_address, mappings>>
history == <<response, delivered, headCuts>>
vars == <<iovs, counts, fileVars, history, pc, ret>>

ErrorCodes == {"INTERNAL_ERROR", "BAD_REQUEST", "FORBIDDEN_REQUEST"}

Byte(of, k) == [of |-> of, at |-> k]
Bytes(of, first, n) == [k \in 1..n |-> Byte(of, first + k - 1)]
Iov(start, len) == [start |-> start, len |-> len]   \* the first byte's place

Init ==
  /\ m_iv0 = Iov(1, 0) /\ m_iv1 = Iov(1, 0) /\ m_iv_count = 0
  /\ m_write_index = 0 /\ bytes_to_send = 0 /\ bytes_have_send = 0
  /\ st_size = 0 /\ m_file_address = FALSE /\ mappings = 0
  /\ response = <<>> /\ delivered = <<>> /\ headCuts = 0

\* init() between two requests.
init ==
  /\ m_file_address' = FALSE
  /\ m_write_index' = 0 /\ bytes_to_send' = 0 /\ bytes_have_send' = 0
-----------------------------------------------------------------------------
\* do_request, once it has chosen the file: stat may find nothing, a file that
\* others may not read, or a directory; else the file is mapped. An empty file
\* cannot be mapped, and its address is then MAP_FAILED, which is not 0.
do_request ==
  /\ pc = "do_request" /\ pc' = "respond"
  /\ \/ ret' = "NO_RESOURCE" /\ UNCHANGED fileVars
     \/ /\ ret' \in {"FORBIDDEN_REQUEST", "BAD_REQUEST"}
        /\ st_size' \in FileSizes /\ UNCHANGED <<m_file_address, mappings>>
     \/ /\ ret' = "FILE_REQUEST"
        /\ st_size' \in FileSizes
        /\ m_file_address' = TRUE
        /\ mappings' = IF st_size' > 0 THEN mappings + 1 ELSE mappings
  /\ UNCHANGED <<iovs, counts, history>>

\* What process_write counts on sending.
Promise_OneMore(head, size) == head + size + 1
Promise(head, size) == head + size

\* The header is put behind what is in the buffer, and the buffer is sent.
Header(head) == Bytes("head", m_write_index + 1, head)

\* A file with something in it: header and file are sent.
WriteFile(head) ==
  /\ ret = "FILE_REQUEST" /\ st_size # 0
  /\ m_iv0' = Iov(1, m_write_index') /\ m_iv1' = Iov(1, st_size) /\ m_iv_count' = 2
  /\ bytes_to_send' = Promise(m_write_index', st_size)
  /\ response' = Header(head) \o Bytes("file", 1, st_size)
  /\ pc' = "sending"

\* An error page is written behind the headers in the same buffer.
ErrorPage(head) ==
  /\ ret \in ErrorCodes
  /\ m_iv0' = Iov(1, m_write_index') /\ m_iv_count' = 1
  /\ bytes_to_send' = Promise(m_write_index', 0)
  /\ response' = Header(head)
  /\ pc' = "sending"
  /\ UNCHANGED m_iv1

\* NO_RESOURCE has no case, and the case of an empty file runs into default.
\* process() then closes the connection.
Refuse ==
  /\ ret = "NO_RESOURCE" \/ (ret = "FILE_REQUEST" /\ st_size = 0)
  /\ response' = <<>>
  /\ pc' = "refused"
  /\ UNCHANGED <<iovs, bytes_to_send>>

process_write ==
  /\ pc = "respond"
  /\ \E head \in HeadSizes :
       /\ m_write_index' = m_write_index + head
       /\ WriteFile(head) \/ ErrorPage(head) \/ Refuse
  /\ delivered' = <<>> /\ headCuts' = 0
  /\ UNCHANGED <<bytes_have_send, fileVars, ret>>
-----------------------------------------------------------------------------
\* unmap() has its condition the wrong way round: munmap is called only when
\* the address is 0, where nothing is mapped.
unmap == UNCHANGED <<m_file_address, mappings>>

\* What writev is offered.
Offered ==
  Bytes("head", m_iv0.start, m_iv0.len)
    \o (IF m_iv_count = 2 THEN Bytes("file", m_iv1.start, m_iv1.len) ELSE <<>>)

\* The two iovecs after a writev, have being the bytes sent in all.
Advance_FromStart(have, left) ==
  IF have >= m_iv0.len
  THEN m_iv0' = [m_iv0 EXCEPT !.len = 0] /\ m_iv1' = Iov(1, left)
  ELSE m_iv0' = Iov(1 + have, m_iv0.len - have) /\ UNCHANGED m_iv1
Advance(have, left) ==
  IF have >= m_iv0.len
  THEN /\ m_iv0' = [m_iv0 EXCEPT !.len = 0]
       /\ m_iv1' = Iov(1 + (have - m_write_index), left)
  ELSE m_iv0' = Iov(1 + have, m_iv0.len - have) /\ UNCHANGED m_iv1

\* writev takes n bytes; it takes 0 when it is offered none.
Sends(n) ==
  /\ pc = "sending"
  /\ n > 0 \/ Offered = <<>>
  /\ delivered' = delivered \o SubSeq(Offered, 1, n)
  /\ LET have == bytes_have_send + n
     IN /\ Advance(have, bytes_to_send - n)
        /\ headCuts' = IF have < m_write_index /\ headCuts < 2 THEN headCuts + 1 ELSE headCuts
  /\ UNCHANGED <<m_iv_count, response, st_size, ret>>

\* Something is left: the loop calls writev again.
WriteMore(n) ==
  /\ Sends(n) /\ bytes_to_send - n > 0
  /\ bytes_have_send' = bytes_have_send + n /\ bytes_to_send' = bytes_to_send - n
  /\ UNCHANGED <<m_write_index, m_file_address, mappings, pc>>

\* Everything is sent, and the connection is not kept.
WriteLast(n) ==
  /\ Sends(n) /\ bytes_to_send - n <= 0
  /\ bytes_have_send' = bytes_have_send + n /\ bytes_to_send' = bytes_to_send - n
  /\ unmap
  /\ pc' = "closed"
  /\ UNCHANGED m_write_index

\* Everything is sent, and the connection waits for the next request.
WriteKept(n) ==
  /\ Sends(n) /\ bytes_to_send - n <= 0
  /\ init /\ UNCHANGED mappings   \* unmap(), then init()
  /\ pc' = "recv"

\* writev fails: the main thread closes the connection.
WriteFails ==
  /\ pc = "sending"
  /\ unmap
  /\ pc' = "dropped"
  /\ UNCHANGED <<iovs, counts, st_size, history, ret>>
-----------------------------------------------------------------------------
\* Every variable holds a value of its type.
TypeOK ==
  /\ m_iv0 \in [start : Nat, len : Nat] /\ m_iv1 \in [start : Int, len : Nat]
  /\ m_iv_count \in 0..2
  /\ m_write_index \in Nat /\ bytes_to_send \in Nat /\ bytes_have_send \in Nat
  /\ st_size \in FileSizes \cup {0} /\ m_file_address \in BOOLEAN /\ mappings \in Nat
  /\ response \in Seq([of : {"head", "file"}, at : Int])
  /\ delivered \in Seq([of : {"head", "file"}, at : Int])
  /\ headCuts \in 0..2

\* "All the data sent is the response's header and the file" (http_conn.cpp
\* 334): whatever parts writev takes, the peer gets the response from its
\* start, without a gap, a repetition or a byte of anything else, and has all
\* of it when write() has finished. Needs a header that is cut at most once:
\* iov_len, already reduced, is reduced by the sum of all that was sent, so
\* after a second cut the places are wrong.
SentIsResponse ==
  headCuts < 2 =>
    /\ IsPrefix(delivered, response)
    /\ pc \in {"recv", "closed"} => delivered = response

\* "unmap: cancel the mapping" (http_conn.h 102): once write() is done with a
\* response, no file is mapped any more.
NothingMapped == pc \in {"recv", "closed"} => mappings = 0
=============================================================================
