---------------------------- MODULE HttpRequest ----------------------------
(***************************************************************************)
(* The request parser: a stream of bytes reaches the buffer in reads of    *)
(* any size, and after each read r->handle_read goes over what is new.     *)
(* The parser overwrites separators in the buffer with NUL, so that the    *)
(* parts of the request are C strings in place; pointers into the buffer   *)
(* are positions in it, and 0 is NULL.                                     *)
(*                                                                         *)
(* The request line resumes where it stopped.  The headers resume at the   *)
(* start of the last header line the parser has seen.                      *)
(***************************************************************************)
EXTENDS Integers, Sequences

CONSTANT Streams  \* what a peer may send: sequences of Bytes

\* The bytes the parser tells apart.  The names <<"T">> and <<"L">> stand for
\* Content-Type and Content-Length, which it knows by length and two letters.
Bytes == {"x", "T", "L", "SP", "?", ":", "CR", "LF"}
NUL == "NUL"

ASSUME StreamsAssumption == Streams \subseteq Seq(Bytes)

VARIABLES
  sent,         \* the stream
  buffer,       \* buffer_start .. buffer_last
  buffer_pos,   \* buffer_pos
  handle_read,  \* the parser the next read is given to
  r,            \* the parsed fields of wsgi_http_request_t
  headers,      \* r->headers, a sequence of [name, value]
  line_state,   \* r->state
  pc,           \* "idle", a parser that is running, or "error"
  p, state,     \* its locals
  h,            \* the locals name, name_end, value and pos of parse_headers
  processed,    \* calls of runtime->process
  rewound       \* history: a read began at a header line already parsed

vars == <<sent, buffer, buffer_pos, handle_read, r, headers, line_state, pc, p, state, h,
          processed, rewound>>

NULL == 0
Empty == -1  \* the constant "" a missing query string points at

Init ==
  /\ sent \in Streams
  /\ buffer = <<>>
  /\ buffer_pos = 1
  /\ handle_read = "request_line"
  /\ r = [method |-> NULL, path_info |-> NULL, query_string |-> NULL, protocol |-> NULL,
          content_type |-> NULL, content_length |-> NULL]
  /\ headers = <<>>
  /\ line_state = "START"
  /\ pc = "idle"
  /\ p = 1
  /\ state = "START"
  /\ h = [name |-> NULL, name_end |-> NULL, value |-> NULL, value_end |-> NULL, pos |-> NULL]
  /\ processed = 0
  /\ rewound = FALSE

Last == Len(buffer)

\* The header line the parser would resume at is the last one it appended.
Rewinds ==
  /\ handle_read = "headers"
  /\ headers # <<>>
  /\ buffer_pos = headers[Len(headers)].name

StartHeaders(at) ==
  /\ pc' = "headers"
  /\ p' = at
  /\ state' = "START"
  /\ h' = [name |-> NULL, name_end |-> NULL, value |-> NULL, value_end |-> NULL, pos |-> at]

\* recv puts n bytes at buffer_last and r->handle_read is called.
Read(n) ==
  /\ pc = "idle"
  /\ Last + n <= Len(sent)
  /\ buffer' = buffer \o SubSeq(sent, Last + 1, Last + n)
  /\ rewound' = (rewound \/ Rewinds)
  /\ \/ /\ handle_read = "request_line"
        /\ pc' = "request_line"
        /\ p' = buffer_pos
        /\ state' = line_state
        /\ UNCHANGED <<h, processed>>
     \/ /\ handle_read = "headers"
        /\ StartHeaders(buffer_pos)
        /\ UNCHANGED processed
     \/ /\ handle_read = "process"
        /\ processed' = processed + 1
        /\ UNCHANGED <<pc, p, state, h>>
  /\ UNCHANGED <<sent, buffer_pos, handle_read, r, headers, line_state>>

-----------------------------------------------------------------------------
(* wsgi_http_request_parse_request_line, one step per byte. *)

Byte == buffer[p]
Advance(to) == p' = p + 1 /\ state' = to
Terminate(i) == buffer' = [buffer EXCEPT ![i] = NUL]

\* The first byte of a part is taken without being looked at.
Begins(from, field, to) ==
  /\ state = from
  /\ r' = [r EXCEPT ![field] = p]
  /\ Advance(to)
  /\ UNCHANGED buffer

Ends(from, byte, to) ==
  /\ state = from
  /\ Byte = byte
  /\ Terminate(p)
  /\ Advance(to)
  /\ UNCHANGED r

Goes(from, ends) ==
  /\ state = from
  /\ Byte \notin ends
  /\ Advance(from)
  /\ UNCHANGED <<r, buffer>>

LineByte ==
  /\ pc = "request_line"
  /\ p <= Last
  /\ \/ Begins("START", "method", "METHOD")
     \/ Ends("METHOD", "SP", "SPACE1") \/ Goes("METHOD", {"SP"})
     \/ Begins("SPACE1", "path_info", "URI")
     \/ Ends("URI", "?", "MARK") \/ Goes("URI", {"?", "SP"})
     \/ /\ state = "URI"
        /\ Byte = "SP"
        /\ r' = [r EXCEPT !.query_string = Empty]
        /\ Terminate(p)
        /\ Advance("SPACE2")
     \/ Begins("MARK", "query_string", "QUERY")
     \/ Ends("QUERY", "SP", "SPACE2") \/ Goes("QUERY", {"SP"})
     \/ Begins("SPACE2", "protocol", "PROTOCOL")
     \/ Ends("PROTOCOL", "CR", "END") \/ Goes("PROTOCOL", {"CR"})
  /\ UNCHANGED <<sent, buffer_pos, handle_read, headers, line_state, pc, h, processed, rewound>>

LineEnd ==
  /\ pc = "request_line"
  /\ p <= Last
  /\ state = "END"
  /\ IF Byte = "LF"
       THEN /\ buffer_pos' = p + 1
            /\ handle_read' = "headers"
            /\ StartHeaders(p + 1)
       ELSE /\ pc' = "error"
            /\ UNCHANGED <<buffer_pos, handle_read, p, state, h>>
  /\ UNCHANGED <<sent, buffer, r, headers, line_state, processed, rewound>>

\* Mutant: the position is kept and the state is not.
LineStopsForgetful ==
  /\ pc = "request_line"
  /\ p > Last
  /\ buffer_pos' = p
  /\ pc' = "idle"
  /\ UNCHANGED <<sent, buffer, handle_read, r, headers, line_state, p, state, h, processed,
                 rewound>>

\* The line is not complete: keep the position and the state.
LineStops ==
  /\ pc = "request_line"
  /\ p > Last
  /\ buffer_pos' = p
  /\ line_state' = state
  /\ pc' = "idle"
  /\ UNCHANGED <<sent, buffer, handle_read, r, headers, p, state, h, processed, rewound>>

-----------------------------------------------------------------------------
(* wsgi_http_request_parse_headers, one step per byte. *)

Moves(from, bytes, to, locals) ==
  /\ state = from
  /\ Byte \in bytes
  /\ Advance(to)
  /\ h' = locals

Any == Bytes \cup {NUL}

\* Mutant: the start of a value is not kept.
HeaderByteNoValue ==
  /\ pc = "headers"
  /\ p <= Last
  /\ \/ Moves("START", {"CR"}, "DONE", h)
     \/ Moves("START", Any \ {"CR"}, "NAME", [h EXCEPT !.name = p, !.pos = p])
     \/ Moves("NAME", {":"}, "COLON", [h EXCEPT !.name_end = p])
     \/ Moves("NAME", Any \ {":"}, "NAME", h)
     \/ Moves("COLON", {"SP"}, "SPACE", h)
     \/ Moves("SPACE", {"SP"}, "SPACE", h)
     \/ Moves("SPACE", Any \ {"SP"}, "VALUE", h)
     \/ Moves("VALUE", {"CR"}, "END", [h EXCEPT !.value_end = p])
     \/ Moves("VALUE", Any \ {"CR"}, "VALUE", h)
  /\ UNCHANGED <<sent, buffer, buffer_pos, handle_read, r, headers, line_state, pc,
                 processed, rewound>>

HeaderByte ==
  /\ pc = "headers"
  /\ p <= Last
  /\ \/ Moves("START", {"CR"}, "DONE", h)
     \/ Moves("START", Any \ {"CR"}, "NAME", [h EXCEPT !.name = p, !.pos = p])
     \/ Moves("NAME", {":"}, "COLON", [h EXCEPT !.name_end = p])
     \/ Moves("NAME", Any \ {":"}, "NAME", h)
     \/ Moves("COLON", {"SP"}, "SPACE", h)
     \/ Moves("SPACE", {"SP"}, "SPACE", h)
     \/ Moves("SPACE", Any \ {"SP"}, "VALUE", [h EXCEPT !.value = p])
     \/ Moves("VALUE", {"CR"}, "END", [h EXCEPT !.value_end = p])
     \/ Moves("VALUE", Any \ {"CR"}, "VALUE", h)
  /\ UNCHANGED <<sent, buffer, buffer_pos, handle_read, r, headers, line_state, pc,
                 processed, rewound>>

Name == SubSeq(buffer, h.name, h.name_end - 1)

\* Mutant: the value is cut one byte short.
CutHeaderShort == [buffer EXCEPT ![h.name_end] = NUL, ![h.value_end - 1] = NUL]

\* The name and the value become C strings.
CutHeader == [buffer EXCEPT ![h.name_end] = NUL, ![h.value_end] = NUL]

\* Content-Type and Content-Length have a field of the request, too.
KeepContent ==
  [r EXCEPT !.content_type = IF Name = <<"T">> THEN h.value ELSE @,
            !.content_length = IF Name = <<"L">> THEN h.value ELSE @]

\* wsgi_list_append may have no memory for the header, and its NULL is followed;
\* here there is memory.
HeaderEnds ==
  /\ pc = "headers"
  /\ p <= Last
  /\ state = "END"
  /\ Byte = "LF"
  /\ buffer' = CutHeader
  /\ headers' = Append(headers, [name |-> h.name, value |-> h.value])
  /\ r' = KeepContent
  /\ Advance("START")
  /\ UNCHANGED <<sent, buffer_pos, handle_read, line_state, pc, h, processed, rewound>>

\* A colon without a space, or a CR without a LF.
HeaderError ==
  /\ pc = "headers"
  /\ p <= Last
  /\ \/ state = "COLON" /\ Byte # "SP"
     \/ state \in {"END", "DONE"} /\ Byte # "LF"
  /\ pc' = "error"
  /\ UNCHANGED <<sent, buffer, buffer_pos, handle_read, r, headers, line_state, p, state, h,
                 processed, rewound>>

\* Mutant: the next read goes on where this one ended, from the first state.
HeadersStopHere ==
  /\ pc = "headers"
  /\ p > Last
  /\ buffer_pos' = p
  /\ pc' = "idle"
  /\ UNCHANGED <<sent, buffer, handle_read, r, headers, line_state, p, state, h, processed,
                 rewound>>

\* The headers are not complete: the next read goes over the last line again.
HeadersStop ==
  /\ pc = "headers"
  /\ p > Last
  /\ buffer_pos' = h.pos
  /\ pc' = "idle"
  /\ UNCHANGED <<sent, buffer, handle_read, r, headers, line_state, p, state, h, processed,
                 rewound>>

\* The empty line: wsgi_http_request_process, now and at every later read.
HeadersDone ==
  /\ pc = "headers"
  /\ p <= Last
  /\ state = "DONE"
  /\ Byte = "LF"
  /\ handle_read' = "process"
  /\ processed' = processed + 1
  /\ pc' = "idle"
  /\ UNCHANGED <<sent, buffer, buffer_pos, r, headers, line_state, p, state, h, rewound>>

Next ==
  \/ \E n \in 1 .. Len(sent) : Read(n)
  \/ LineByte \/ LineEnd \/ LineStops
  \/ HeaderByte \/ HeaderEnds \/ HeaderError \/ HeadersStop \/ HeadersDone

Spec == Init /\ [][Next]_vars

-----------------------------------------------------------------------------
(* Properties. *)

Positions == 0 .. Len(sent)

\* Every field is a pointer into what the peer sent, or NULL.
TypeOK ==
  /\ buffer \in Seq(Any) /\ Last <= Len(sent)
  /\ buffer_pos \in 1 .. Last + 1
  /\ handle_read \in {"request_line", "headers", "process"}
  /\ \A f \in DOMAIN r : r[f] \in Positions \cup {Empty}
  /\ \A i \in 1 .. Len(headers) : headers[i].name \in Positions /\ headers[i].value \in Positions
  /\ pc \in {"idle", "request_line", "headers", "error"}
  /\ p \in 1 .. Last + 1
  /\ \A f \in DOMAIN h : h[f] \in 0 .. Last + 1
  /\ processed \in Nat /\ rewound \in BOOLEAN

\* The parser writes to the buffer only where the peer sent a separator, also
\* when it goes over a line again that it has already cut into strings.
OverwritesSeparators ==
  \A i \in 1 .. Last :
    buffer[i] # sent[i] => buffer[i] = NUL /\ sent[i] \in {"SP", "?", ":", "CR"}

\* When a header line is cut, the parts lie in the buffer in their order and
\* none is empty: the line's own name, its end, its value and its end.  A line
\* that is gone over again is no exception.
HeaderInOrder ==
  pc = "headers" /\ state = "END" =>
    /\ NULL < h.name /\ h.name < h.name_end /\ h.name_end < h.value
    /\ h.value < h.value_end /\ h.value_end < p

\* The C string at position i: what the runtime reads there.
CString(i) ==
  LET end == CHOOSE e \in i .. Last : buffer[e] = NUL /\ \A j \in i .. e - 1 : buffer[j] # NUL
  IN  SubSeq(buffer, i, end - 1)

QueryString == IF r.query_string = Empty THEN <<>> ELSE CString(r.query_string)

Header(i) == [name |-> CString(headers[i].name), value |-> CString(headers[i].value)]
=============================================================================
