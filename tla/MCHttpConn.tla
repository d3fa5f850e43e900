----------------------------- MODULE MCHttpConn -----------------------------
(***************************************************************************)
(* Instances of HttpConn for TLC: every request line, up to two headers,   *)
(* bodies of up to four bytes, one with a line end in it (a line that is   *)
(* refused at once need not have much behind it); and                      *)
(* conversations of up to three of the shorter ones. (In one, a body that  *)
(* is cut is completed with the start of the request behind it.)           *)
(***************************************************************************)
EXTENDS HttpConn

HeaderLists ==
  {<<>>} \cup {<<h>> : h \in Headers}
    \cup {<<h, k>> : h \in Headers, k \in {"Content-Length", "Host"}}
Bodies == {<<>>, <<"x">>, <<"x", "x", "x">>, <<"x", "CR", "LF", "x">>}

Request(line, headers, body) ==
  [line |-> line, headers |-> headers, eol |-> <<"CR", "LF">>, body |-> body]
OneRequest ==
  {r \in [line : RequestLines, headers : HeaderLists,
          eol : {<<"CR", "LF">>, <<"LF">>}, body : Bodies] :
     /\ r.body # <<>> <=> Contains(r.headers, "Content-Length")
     /\ r.line = "malformed" \/ r.eol = <<"LF">> => Len(r.headers) < 2}

Single == {<<r>> : r \in OneRequest}
WellFormedSingle == {c \in Single : c[1].eol = <<"CR", "LF">>}

Kept ==
  {Request("GET", <<"Connection: keep-alive">>, <<>>),
   Request("POST", <<"Connection: keep-alive", "Content-Length">>, <<"x">>)}
Ending == {Request("GET", <<>>, <<>>), Request("POST", <<"Content-Length">>, <<"x">>),
         Request("malformed", <<>>, <<>>)}
Longer == {<<r, s>> : r \in Kept, s \in Kept \cup Ending}
            \cup {<<Request("POST", <<"Content-Length">>, <<"x", "x">>), Request("GET", <<>>, <<>>)>>}
            \cup {<<r, s, t>> : r \in Kept, s \in Kept, t \in Ending}

All == Single \cup Longer
=============================================================================
