--------------------------- MODULE MCHttpRequest ---------------------------
(* Requests as a client writes them, and everything else, for TLC. *)
EXTENDS HttpMessages

CONSTANT MaxJunk  \* bound: the length of an arbitrary stream

\* A request: its parts, none of which is empty but the query.
MCRequests ==
  [method : {<<"x">>}, path : {<<"x">>, <<"x", ":">>}, query : {<<>>, <<"x", "?">>},
   protocol : {<<"x">>},
   fields : {<<>>, <<[name |-> <<"T">>, value |-> <<"x", ":">>]>>,
             <<[name |-> <<"L">>, value |-> <<"x">>],
               [name |-> <<"x", "x">>, value |-> <<"x", "SP", "x">>],
               [name |-> <<"T">>, value |-> <<"?">>]>>}]
MCBodies == {<<>>, <<"x", "LF">>}

\* The start of a request line and any bytes; and a request line with one
\* header, any bytes and a LF.
Line == <<"x", "SP", "x", "SP", "x">> \o CRLF
Junk(bytes, max) == UNION {[1 .. n -> bytes] : n \in 0 .. max}
JunkStreams ==
  {<<"x", "SP", "x">> \o j : j \in Junk({"x", "SP", "?", "CR", "LF"}, MaxJunk)}
    \cup {Line \o <<"x", ":", "SP", "x">> \o CRLF \o j \o <<"LF">> :
            j \in Junk({"x", "SP", ":", "CR", "LF"}, MaxJunk)}

AllStreams == RequestStreams \cup JunkStreams
=============================================================================
