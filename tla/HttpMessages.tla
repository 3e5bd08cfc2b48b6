---------------------------- MODULE HttpMessages ----------------------------
(***************************************************************************)
(* What a request is for a client, how it is written, and what the parser  *)
(* makes of a stream that starts with one, if no read of it is `rewound':  *)
(* no read ends right behind the LF of a header line, or behind the CR of  *)
(* the empty line, with more to come.  The next read would then go over a  *)
(* header line that has been cut by NULs, and proper requests are refused  *)
(* or come out wrong.                                                      *)
(***************************************************************************)
EXTENDS HttpRequest

CONSTANTS
  Requests,  \* records of method, path, query, protocol and fields
  Bodies     \* what may follow a request in its stream

\* The parser takes the first byte of a part as it is and ends the part at one
\* of these bytes.
Part(w, ends) ==
  w \in Seq(Bytes) /\ w # <<>> /\ \A i \in 2 .. Len(w) : w[i] \notin ends

ProperField(f) ==
  /\ Part(f.name, {":"}) /\ f.name[1] # "CR"
  /\ Part(f.value, {"CR"}) /\ f.value[1] # "SP"

Proper(q) ==
  /\ Part(q.method, {"SP"})
  /\ Part(q.path, {"SP", "?"})
  /\ q.query = <<>> \/ Part(q.query, {"SP"})
  /\ Part(q.protocol, {"CR"})
  /\ q.fields \in Seq([name : Seq(Bytes), value : Seq(Bytes)])
  /\ \A i \in 1 .. Len(q.fields) : ProperField(q.fields[i])

ASSUME MessagesAssumption ==
  /\ \A q \in Requests : Proper(q)
  /\ Bodies \subseteq Seq(Bytes)

CRLF == <<"CR", "LF">>

WriteField(f) == f.name \o <<":", "SP">> \o f.value \o CRLF

\* written[i] is the first i fields.
WriteFields(fs) ==
  LET written[i \in 0 .. Len(fs)] ==
        IF i = 0 THEN <<>> ELSE written[i - 1] \o WriteField(fs[i])
  IN  written[Len(fs)]

WriteLine(q) ==
  q.method \o <<"SP">> \o q.path \o (IF q.query = <<>> THEN <<>> ELSE <<"?">> \o q.query)
    \o <<"SP">> \o q.protocol \o CRLF

Write(q) == WriteLine(q) \o WriteFields(q.fields) \o CRLF

\* A request, alone or followed by a body.
RequestStreams == {Write(q) \o b : q \in Requests, b \in Bodies}

IsOf(q) == \E b \in Bodies : sent = Write(q) \o b

ContentTypes == {headers[i].value : i \in {j \in 1 .. Len(headers) : Header(j).name = <<"T">>}}
ContentLengths == {headers[i].value : i \in {j \in 1 .. Len(headers) : Header(j).name = <<"L">>}}

\* What the runtime is given for a request is what the client wrote, wherever
\* else the stream was cut into reads, if no read began at a header line that
\* had been parsed (~rewound).  The two headers the server needs are found
\* wherever they stand.
ParsesWhatWasSent ==
  processed > 0 /\ ~rewound /\ sent \in RequestStreams =>
    /\ \E q \in Requests :
         /\ IsOf(q)
         /\ CString(r.method) = q.method /\ CString(r.path_info) = q.path
         /\ QueryString = q.query /\ CString(r.protocol) = q.protocol
         /\ [i \in 1 .. Len(headers) |-> Header(i)] = q.fields
    /\ r.content_type \in IF ContentTypes = {} THEN {NULL} ELSE ContentTypes
    /\ r.content_length \in IF ContentLengths = {} THEN {NULL} ELSE ContentLengths

\* As long as no read has begun at a header line that had been parsed
\* (~rewound), a properly written request is not refused, and when it has
\* arrived completely it is handed to the runtime.  Behind such a read neither
\* is true: the line has NULs where its colon and its CR were, so that it is
\* joined with the next one, or ends in an error (wsgi_http_request.c:163, 208).
NothingLeftOver ==
  ~rewound /\ sent \in RequestStreams =>
    /\ pc # "error"
    /\ pc = "idle" /\ Last = Len(sent) => processed > 0
=============================================================================
