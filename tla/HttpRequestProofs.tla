------------------------- MODULE HttpRequestProofs -------------------------
(***************************************************************************)
(* Streams of every length, cut into reads in every way.  Whatever a peer  *)
(* sends, the parser cuts only at separators and every pointer it keeps is *)
(* a C string that ends in the buffer.  If no read begins at a header line *)
(* that was parsed and cut before (~rewound), what the runtime is given    *)
(* for a request is the request that was written, however long its parts   *)
(* are and however many headers it has.                                    *)
(***************************************************************************)
EXTENDS HttpMessages, FiniteSetTheorems, SequenceTheorems, WellFoundedInduction, TLAPS

-----------------------------------------------------------------------------
(* Any stream: the inductive invariant.                                       *)

LineStates ==
  {"START", "METHOD", "SPACE1", "URI", "MARK", "QUERY", "SPACE2", "PROTOCOL", "END"}
HeaderStates == {"START", "NAME", "COLON", "SPACE", "VALUE", "END", "DONE"}

Pointers == [method : Int, path_info : Int, query_string : Int, protocol : Int,
             content_type : Int, content_length : Int]
Locals == [name : Nat, name_end : Nat, value : Nat, value_end : Nat, pos : Nat]

Shapes ==
  /\ sent \in Seq(Bytes)
  /\ buffer \in Seq(Any)
  /\ Last <= Len(sent)
  /\ buffer_pos \in 1 .. Last + 1
  /\ p \in 1 .. Last + 1
  /\ r \in Pointers
  /\ h \in Locals
  /\ headers \in Seq([name : Nat, value : Nat])
  /\ processed \in Nat
  /\ rewound \in BOOLEAN
  /\ handle_read \in {"request_line", "headers", "process"}

\* Between two reads of the request line the parser is where it stopped.
LinePlace ==
  handle_read = "request_line" =>
    /\ pc \in {"idle", "request_line", "error"}
    /\ state \in LineStates
    /\ pc = "idle" => line_state = state /\ buffer_pos = p
    /\ headers = <<>>

\* The parts of the header line the parser is in.
HeaderPlace ==
  /\ handle_read = "headers" => pc \in {"idle", "headers", "error"}
  /\ handle_read = "process" => pc = "idle"
  /\ pc = "headers" => handle_read = "headers"
  /\ pc = "headers" =>
       /\ state \in HeaderStates
       /\ h.pos \in 1 .. p
       /\ state \in {"NAME", "COLON", "SPACE", "VALUE", "END"} => 0 < h.name /\ h.name < p
       /\ state \in {"COLON", "SPACE", "VALUE", "END"} =>
            h.name < h.name_end /\ h.name_end < p /\ sent[h.name_end] = ":"
       /\ state \in {"VALUE", "END"} => h.name_end < h.value /\ h.value < p
       /\ state = "END" => h.value < h.value_end /\ h.value_end < p /\ sent[h.value_end] = "CR"

\* The bytes from i on are a C string.
Ended(i) == i > 0 /\ \E e \in i .. Last : buffer[e] = NUL

\* The request line is behind one of these states.
Passed(states) == handle_read # "request_line" \/ state \in states

Within(i) == 0 < i /\ i < p

\* The parts of the request line end before the part the parser is in.
LineStrings ==
  /\ Passed({"SPACE1", "URI", "MARK", "QUERY", "SPACE2", "PROTOCOL", "END"}) => Ended(r.method)
  /\ Passed({"MARK", "QUERY", "SPACE2", "PROTOCOL", "END"}) => Ended(r.path_info)
  /\ Passed({"SPACE2", "PROTOCOL", "END"}) => r.query_string = Empty \/ Ended(r.query_string)
  /\ Passed({"END"}) => Ended(r.protocol)
  /\ handle_read = "request_line" =>
       /\ state = "METHOD" => Within(r.method)
       /\ state = "URI" => Within(r.path_info)
       /\ state = "QUERY" => Within(r.query_string)
       /\ state = "PROTOCOL" => Within(r.protocol)

HeaderStrings ==
  \A i \in 1 .. Len(headers) : Ended(headers[i].name) /\ Ended(headers[i].value)

\* A pointer of the request is NULL or one into the buffer.
Pointer(i) == i \in 0 .. Last \/ i = Empty
PointersIn ==
  /\ Pointer(r.method) /\ Pointer(r.path_info) /\ Pointer(r.query_string) /\ Pointer(r.protocol)
  /\ Pointer(r.content_type) /\ Pointer(r.content_length)
  /\ h.name <= Last /\ h.name_end <= Last /\ h.value <= Last /\ h.value_end <= Last
  /\ h.pos <= Last + 1

Inv ==
  /\ Shapes
  /\ LinePlace
  /\ HeaderPlace
  /\ PointersIn
  /\ OverwritesSeparators
  /\ LineStrings
  /\ HeaderStrings

-----------------------------------------------------------------------------
(* Cuts and reads. *)

Separators == {"SP", "?", ":", "CR"}

\* A byte that is not NUL is the byte that was sent.
LEMMA SentByte ==
  ASSUME Shapes, OverwritesSeparators, NEW i \in 1 .. Last, buffer[i] # NUL
  PROVE  sent[i] = buffer[i]
  BY DEF OverwritesSeparators

\* The buffer has grown or stayed, and kept the NULs.
Keeps == Last <= Last' /\ \A e \in 1 .. Last : buffer[e] = NUL => buffer'[e] = NUL

LEMMA EndedStays ==
  ASSUME Shapes, Keeps, NEW i \in Int, Ended(i)
  PROVE  i > 0 /\ \E e \in i .. Last' : buffer'[e] = NUL
  <1>1. PICK e \in i .. Last : buffer[e] = NUL
    BY DEF Ended
  <1>2. Last \in Nat /\ Last' \in Int /\ i > 0
    BY LenProperties DEF Shapes, Last, Ended, Keeps
  <1>3. e \in 1 .. Last /\ e \in i .. Last'
    BY <1>1, <1>2 DEF Keeps
  <1>4. QED
    BY <1>1, <1>2, <1>3 DEF Keeps

\* One byte that was a separator becomes NUL.
LEMMA CutByte ==
  ASSUME Shapes, OverwritesSeparators, NEW i \in 1 .. Last, sent[i] \in Separators,
         NEW b \in {[buffer EXCEPT ![i] = NUL]}
  PROVE  /\ b \in Seq(Any) /\ Len(b) = Last /\ b[i] = NUL
         /\ \A e \in 1 .. Last : b[e] = IF e = i THEN NUL ELSE buffer[e]
         /\ \A e \in 1 .. Last : b[e] # sent[e] => b[e] = NUL /\ sent[e] \in Separators
  <1>1. NUL \in Any /\ buffer \in Seq(Any) /\ i \in 1 .. Len(buffer)
    BY DEF Any, Shapes, Last
  <1>2. b \in Seq(Any) /\ Len(b) = Len(buffer)
        /\ \A e \in 1 .. Len(buffer) : b[e] = IF e = i THEN NUL ELSE buffer[e]
    BY <1>1, ExceptSeq
  <1>3. QED
    BY <1>2 DEF Last, OverwritesSeparators, Separators

-----------------------------------------------------------------------------
(* The request line. *)

LEMMA InLine ==
  ASSUME Inv, pc = "request_line"
  PROVE  handle_read = "request_line" /\ headers = <<>>
  BY DEF Inv, Shapes, HeaderPlace, LinePlace

LEMMA LineMove ==
  ASSUME Inv, pc = "request_line", p <= Last, p' = p + 1,
         NEW to \in LineStates, state' = to,
         UNCHANGED <<sent, buffer_pos, handle_read, headers, line_state, pc, h, processed, rewound>>,
         r' \in Pointers, Pointer(r.method)', Pointer(r.path_info)', Pointer(r.query_string)',
         Pointer(r.protocol)', Pointer(r.content_type)', Pointer(r.content_length)',
         \/ buffer' = buffer
         \/ sent[p] \in Separators /\ buffer' = [buffer EXCEPT ![p] = NUL]
  PROVE  /\ Shapes' /\ LinePlace' /\ HeaderPlace' /\ PointersIn' /\ OverwritesSeparators'
         /\ HeaderStrings' /\ Keeps /\ Last' = Last
  <1>1. handle_read = "request_line" /\ headers = <<>> /\ Shapes /\ OverwritesSeparators
    BY InLine DEF Inv
  <1>2. p \in 1 .. Last /\ Last \in Nat
    BY <1>1, LenProperties DEF Shapes, Last
  <1>3. /\ buffer' \in Seq(Any) /\ Last' = Last /\ Keeps
        /\ \A e \in 1 .. Last : buffer'[e] # sent[e] => buffer'[e] = NUL /\ sent[e] \in Separators
    <2>1. CASE buffer' = buffer
      <3>1. buffer' \in Seq(Any) /\ Last' = Last
        BY <2>1, <1>1 DEF Shapes, Last
      <3>2. Keeps
        BY <2>1, <1>2, <3>1 DEF Keeps
      <3>3. QED
        BY <2>1, <1>1, <3>1, <3>2 DEF OverwritesSeparators, Separators
    <2>2. CASE sent[p] \in Separators /\ buffer' = [buffer EXCEPT ![p] = NUL]
      <3>1. PICK b : b = [buffer EXCEPT ![p] = NUL]
        OBVIOUS
      <3>2. /\ b \in Seq(Any) /\ Len(b) = Last
            /\ \A e \in 1 .. Last : b[e] = IF e = p THEN NUL ELSE buffer[e]
            /\ \A e \in 1 .. Last : b[e] # sent[e] => b[e] = NUL /\ sent[e] \in Separators
        <4>1. b \in {[buffer EXCEPT ![p] = NUL]}
          BY <3>1
        <4>2. QED
          BY <2>2, <1>1, <1>2, <4>1, CutByte
      <3>3. buffer' = b
        BY <3>1, <2>2
      <3>4. QED
        BY <1>2, <3>2, <3>3 DEF Last, Keeps
    <2>3. QED
      BY <2>1, <2>2
  <1>4. Shapes'
    BY <1>1, <1>2, <1>3 DEF Shapes
  <1>5. LinePlace' /\ HeaderStrings'
    <2>1. headers' = <<>> /\ Len(headers') = 0
      BY <1>1
    <2>2. QED
      BY <1>1, <2>1 DEF LinePlace, HeaderStrings
  <1>6. HeaderPlace'
    BY <1>1 DEF HeaderPlace
  <1>7. PointersIn'
    BY <1>3 DEF Inv, PointersIn
  <1>8. OverwritesSeparators'
    BY <1>3 DEF OverwritesSeparators, Separators
  <1>9. QED
    BY <1>3, <1>4, <1>5, <1>6, <1>7, <1>8

\* The first byte of a part.
LEMMA BeginsKeeps ==
  ASSUME Inv, pc = "request_line", p <= Last,
         NEW from \in LineStates, NEW to \in LineStates,
         NEW field \in {"method", "path_info", "query_string", "protocol"},
         Begins(from, field, to),
         UNCHANGED <<sent, buffer_pos, handle_read, headers, line_state, pc, h, processed, rewound>>
  PROVE  /\ Shapes' /\ LinePlace' /\ HeaderPlace' /\ PointersIn' /\ OverwritesSeparators'
         /\ HeaderStrings' /\ Keeps /\ Last' = Last
         /\ r' = [r EXCEPT ![field] = p] /\ state' = to /\ p' = p + 1 /\ p \in 1 .. Last
  <1>1. r' = [r EXCEPT ![field] = p] /\ state' = to /\ p' = p + 1 /\ buffer' = buffer
    BY DEF Begins, Advance
  <1>2. p \in 1 .. Last /\ Last' = Last /\ r \in Pointers
    BY <1>1, LenProperties DEF Inv, Shapes, Last
  <1>3. r' \in Pointers
    BY <1>1, <1>2 DEF Pointers
  <1>4. /\ Pointer(r.method)' /\ Pointer(r.path_info)' /\ Pointer(r.query_string)'
        /\ Pointer(r.protocol)' /\ Pointer(r.content_type)' /\ Pointer(r.content_length)'
    BY <1>1, <1>2 DEF Inv, PointersIn, Pointer, Pointers
  <1>5. QED
    BY <1>1, <1>2, <1>3, <1>4, LineMove

\* The byte that ends a part, or one inside it.
LEMMA EndsKeeps ==
  ASSUME Inv, pc = "request_line", p <= Last,
         NEW to \in LineStates, state' = to, p' = p + 1,
         Byte \in Separators, Terminate(p),
         r' = r \/ r' = [r EXCEPT !.query_string = Empty],
         UNCHANGED <<sent, buffer_pos, handle_read, headers, line_state, pc, h, processed, rewound>>
  PROVE  /\ Shapes' /\ LinePlace' /\ HeaderPlace' /\ PointersIn' /\ OverwritesSeparators'
         /\ HeaderStrings' /\ Keeps /\ Last' = Last /\ buffer'[p] = NUL /\ p \in 1 .. Last
  <1>1. p \in 1 .. Last /\ r \in Pointers /\ Shapes /\ OverwritesSeparators /\ buffer \in Seq(Any)
    BY LenProperties DEF Inv, Shapes, Last
  <1>2. sent[p] \in Separators
    BY <1>1, SentByte DEF Byte, Separators, NUL
  <1>3. PICK b : b = [buffer EXCEPT ![p] = NUL]
    OBVIOUS
  <1>4. b \in Seq(Any) /\ Len(b) = Last /\ b[p] = NUL
    BY <1>1, <1>2, <1>3, CutByte
  <1>5. buffer' = b /\ buffer' = [buffer EXCEPT ![p] = NUL] /\ Last' = Last
    BY <1>3, <1>4 DEF Terminate, Last
  <1>6. /\ r' \in Pointers
        /\ Pointer(r.method)' /\ Pointer(r.path_info)' /\ Pointer(r.query_string)'
        /\ Pointer(r.protocol)' /\ Pointer(r.content_type)' /\ Pointer(r.content_length)'
    BY <1>1, <1>5 DEF Inv, PointersIn, Pointer, Pointers, Empty
  <1>7. QED
    BY <1>1, <1>2, <1>4, <1>5, <1>6, LineMove

LEMMA GoesKeeps ==
  ASSUME Inv, pc = "request_line", p <= Last,
         NEW from \in LineStates, NEW ends, Goes(from, ends),
         UNCHANGED <<sent, buffer_pos, handle_read, headers, line_state, pc, h, processed, rewound>>
  PROVE  /\ Shapes' /\ LinePlace' /\ HeaderPlace' /\ PointersIn' /\ OverwritesSeparators'
         /\ HeaderStrings' /\ Keeps /\ Last' = Last
         /\ r' = r /\ state' = from /\ p' = p + 1 /\ p \in 1 .. Last /\ buffer' = buffer
  <1>1. r' = r /\ state' = from /\ p' = p + 1 /\ buffer' = buffer
    BY DEF Goes, Advance
  <1>2. p \in 1 .. Last /\ Last' = Last /\ r \in Pointers
    BY <1>1, LenProperties DEF Inv, Shapes, Last
  <1>3. /\ Pointer(r.method)' /\ Pointer(r.path_info)' /\ Pointer(r.query_string)'
        /\ Pointer(r.protocol)' /\ Pointer(r.content_type)' /\ Pointer(r.content_length)'
    BY <1>1, <1>2 DEF Inv, PointersIn, Pointer
  <1>4. QED
    BY <1>1, <1>2, <1>3, LineMove

LEMMA PointerInt ==
  ASSUME Shapes
  PROVE  /\ r.method \in Int /\ r.path_info \in Int /\ r.query_string \in Int /\ r.protocol \in Int
         /\ p \in Nat \ {0} /\ Last \in Nat
  BY LenProperties DEF Shapes, Pointers, Last

\* What was a C string is one.
LEMMA StringsStay ==
  ASSUME Shapes, Keeps
  PROVE  /\ r'.method = r.method /\ Ended(r.method) => Ended(r.method)'
         /\ r'.path_info = r.path_info /\ Ended(r.path_info) => Ended(r.path_info)'
         /\ r'.query_string = r.query_string /\ Ended(r.query_string) => Ended(r.query_string)'
         /\ r'.protocol = r.protocol /\ Ended(r.protocol) => Ended(r.protocol)'
  <1>1. \A i \in Int : Ended(i) => i > 0 /\ \E e \in i .. Last' : buffer'[e] = NUL
    BY EndedStays
  <1>2. QED
    BY <1>1, PointerInt DEF Ended

\* A part has been cut off.
LEMMA NowEnded ==
  ASSUME Shapes, Last' = Last, p \in 1 .. Last, buffer'[p] = NUL, NEW i \in Int, Within(i)
  PROVE  i > 0 /\ \E e \in i .. Last' : buffer'[e] = NUL
  <1>1. p \in i .. Last' /\ i > 0
    BY PointerInt DEF Within
  <1>2. QED
    BY <1>1

LEMMA LineByteInv ==
  ASSUME Inv, LineByte
  PROVE  Inv'
  <1>1. /\ pc = "request_line" /\ p <= Last
        /\ UNCHANGED <<sent, buffer_pos, handle_read, headers, line_state, pc, h, processed, rewound>>
    BY DEF LineByte
  <1>2. handle_read = "request_line" /\ handle_read' = "request_line" /\ Shapes /\ LineStrings
    BY <1>1, InLine DEF Inv
  <1>3. /\ r.method \in Int /\ r.path_info \in Int /\ r.query_string \in Int /\ r.protocol \in Int
        /\ p \in Nat \ {0} /\ Last \in Nat /\ r \in Pointers
    BY <1>2, PointerInt DEF Shapes
  <1> DEFINE Kept == /\ Shapes' /\ LinePlace' /\ HeaderPlace' /\ PointersIn' /\ OverwritesSeparators'
                     /\ HeaderStrings' /\ Keeps /\ Last' = Last
  <1>4. ASSUME Kept, LineStrings' PROVE Inv'
    BY <1>4 DEF Inv
  <1>5. ASSUME NEW from \in LineStates, NEW to \in LineStates,
               NEW field \in {"method", "path_info", "query_string", "protocol"},
               Begins(from, field, to)
        PROVE  /\ Kept /\ state = from
               /\ r' = [r EXCEPT ![field] = p] /\ state' = to /\ p' = p + 1
    BY <1>1, <1>5, BeginsKeeps DEF Begins
  <1>6. ASSUME NEW from \in LineStates, NEW ends, Goes(from, ends)
        PROVE  /\ Kept /\ state = from
               /\ r' = r /\ state' = from /\ p' = p + 1
    BY <1>1, <1>6, GoesKeeps DEF Goes
  <1>7. ASSUME NEW from \in LineStates, NEW byte \in Separators, NEW to \in LineStates,
               Ends(from, byte, to)
        PROVE  /\ Kept /\ state = from /\ buffer'[p] = NUL /\ p \in 1 .. Last
               /\ r' = r /\ state' = to /\ p' = p + 1
    BY <1>1, <1>7, EndsKeeps DEF Ends, Advance
  <1> HIDE DEF Kept
  <1>8. Kept => /\ r'.method = r.method /\ Ended(r.method) => Ended(r.method)'
                /\ r'.path_info = r.path_info /\ Ended(r.path_info) => Ended(r.path_info)'
                /\ r'.query_string = r.query_string /\ Ended(r.query_string) => Ended(r.query_string)'
                /\ r'.protocol = r.protocol /\ Ended(r.protocol) => Ended(r.protocol)'
    BY <1>2, StringsStay DEF Kept
  <1>9. Kept /\ buffer'[p] = NUL /\ p \in 1 .. Last =>
          /\ r'.method = r.method /\ Within(r.method) => Ended(r.method)'
          /\ r'.path_info = r.path_info /\ Within(r.path_info) => Ended(r.path_info)'
          /\ r'.query_string = r.query_string /\ Within(r.query_string) => Ended(r.query_string)'
          /\ r'.protocol = r.protocol /\ Within(r.protocol) => Ended(r.protocol)'
    BY <1>2, <1>3, NowEnded DEF Kept, Ended
  <1>10. CASE Begins("START", "method", "METHOD")
    <2>1. /\ Kept /\ state = "START" /\ r' = [r EXCEPT !.method = p] /\ state' = "METHOD" /\ p' = p + 1
      BY <1>5, <1>10 DEF LineStates
    <2>2. LineStrings'
      BY <1>2, <1>3, <2>1 DEF LineStrings, Passed, Within, Pointers
    <2>3. QED
      BY <1>4, <2>1, <2>2
  <1>11. CASE Ends("METHOD", "SP", "SPACE1")
    <2>1. /\ Kept /\ state = "METHOD" /\ buffer'[p] = NUL /\ p \in 1 .. Last
          /\ r' = r /\ state' = "SPACE1" /\ p' = p + 1
      BY <1>7, <1>11 DEF LineStates, Separators
    <2>2. LineStrings'
      BY <1>2, <1>9, <2>1 DEF LineStrings, Passed
    <2>3. QED
      BY <1>4, <2>1, <2>2
  <1>12. CASE Goes("METHOD", {"SP"})
    <2>1. Kept /\ state = "METHOD" /\ r' = r /\ state' = "METHOD" /\ p' = p + 1
      BY <1>6, <1>12 DEF LineStates
    <2>2. LineStrings'
      BY <1>2, <1>3, <2>1 DEF LineStrings, Passed, Within
    <2>3. QED
      BY <1>4, <2>1, <2>2
  <1>13. CASE Begins("SPACE1", "path_info", "URI")
    <2>1. /\ Kept /\ state = "SPACE1" /\ r' = [r EXCEPT !.path_info = p] /\ state' = "URI" /\ p' = p + 1
      BY <1>5, <1>13 DEF LineStates
    <2>2. r'.method = r.method /\ r'.path_info = p
      BY <1>3, <2>1 DEF Pointers
    <2>3. LineStrings'
      BY <1>2, <1>3, <1>8, <2>1, <2>2 DEF LineStrings, Passed, Within
    <2>4. QED
      BY <1>4, <2>1, <2>3
  <1>14. CASE Ends("URI", "?", "MARK")
    <2>1. /\ Kept /\ state = "URI" /\ buffer'[p] = NUL /\ p \in 1 .. Last
          /\ r' = r /\ state' = "MARK" /\ p' = p + 1
      BY <1>7, <1>14 DEF LineStates, Separators
    <2>2. LineStrings'
      BY <1>2, <1>8, <1>9, <2>1 DEF LineStrings, Passed
    <2>3. QED
      BY <1>4, <2>1, <2>2
  <1>15. CASE Goes("URI", {"?", "SP"})
    <2>1. Kept /\ state = "URI" /\ r' = r /\ state' = "URI" /\ p' = p + 1
      BY <1>6, <1>15 DEF LineStates
    <2>2. LineStrings'
      BY <1>2, <1>3, <1>8, <2>1 DEF LineStrings, Passed, Within
    <2>3. QED
      BY <1>4, <2>1, <2>2
  <1>16. CASE /\ state = "URI" /\ Byte = "SP" /\ r' = [r EXCEPT !.query_string = Empty]
              /\ Terminate(p) /\ Advance("SPACE2")
    <2>1. state' = "SPACE2" /\ p' = p + 1 /\ Byte \in Separators /\ "SPACE2" \in LineStates
      BY <1>16 DEF Advance, Separators, LineStates
    <2>2. Kept /\ buffer'[p] = NUL /\ p \in 1 .. Last
      BY <1>1, <1>16, <2>1, EndsKeeps DEF Kept
    <2>3. r'.method = r.method /\ r'.path_info = r.path_info /\ r'.query_string = Empty
      BY <1>3, <1>16 DEF Pointers
    <2>4. LineStrings'
      BY <1>2, <1>8, <1>9, <1>16, <2>1, <2>2, <2>3 DEF LineStrings, Passed
    <2>5. QED
      BY <1>4, <2>2, <2>4
  <1>17. CASE Begins("MARK", "query_string", "QUERY")
    <2>1. /\ Kept /\ state = "MARK" /\ r' = [r EXCEPT !.query_string = p]
          /\ state' = "QUERY" /\ p' = p + 1
      BY <1>5, <1>17 DEF LineStates
    <2>2. r'.method = r.method /\ r'.path_info = r.path_info /\ r'.query_string = p
      BY <1>3, <2>1 DEF Pointers
    <2>3. LineStrings'
      BY <1>2, <1>3, <1>8, <2>1, <2>2 DEF LineStrings, Passed, Within
    <2>4. QED
      BY <1>4, <2>1, <2>3
  <1>18. CASE Ends("QUERY", "SP", "SPACE2")
    <2>1. /\ Kept /\ state = "QUERY" /\ buffer'[p] = NUL /\ p \in 1 .. Last
          /\ r' = r /\ state' = "SPACE2" /\ p' = p + 1
      BY <1>7, <1>18 DEF LineStates, Separators
    <2>2. LineStrings'
      BY <1>2, <1>8, <1>9, <2>1 DEF LineStrings, Passed
    <2>3. QED
      BY <1>4, <2>1, <2>2
  <1>19. CASE Goes("QUERY", {"SP"})
    <2>1. Kept /\ state = "QUERY" /\ r' = r /\ state' = "QUERY" /\ p' = p + 1
      BY <1>6, <1>19 DEF LineStates
    <2>2. LineStrings'
      BY <1>2, <1>3, <1>8, <2>1 DEF LineStrings, Passed, Within
    <2>3. QED
      BY <1>4, <2>1, <2>2
  <1>20. CASE Begins("SPACE2", "protocol", "PROTOCOL")
    <2>1. /\ Kept /\ state = "SPACE2" /\ r' = [r EXCEPT !.protocol = p]
          /\ state' = "PROTOCOL" /\ p' = p + 1
      BY <1>5, <1>20 DEF LineStates
    <2>2. /\ r'.method = r.method /\ r'.path_info = r.path_info
          /\ r'.query_string = r.query_string /\ r'.protocol = p
      BY <1>3, <2>1 DEF Pointers
    <2>3. LineStrings'
      BY <1>2, <1>3, <1>8, <2>1, <2>2 DEF LineStrings, Passed, Within
    <2>4. QED
      BY <1>4, <2>1, <2>3
  <1>21. CASE Ends("PROTOCOL", "CR", "END")
    <2>1. /\ Kept /\ state = "PROTOCOL" /\ buffer'[p] = NUL /\ p \in 1 .. Last
          /\ r' = r /\ state' = "END" /\ p' = p + 1
      BY <1>7, <1>21 DEF LineStates, Separators
    <2>2. LineStrings'
      BY <1>2, <1>8, <1>9, <2>1 DEF LineStrings, Passed
    <2>3. QED
      BY <1>4, <2>1, <2>2
  <1>22. CASE Goes("PROTOCOL", {"CR"})
    <2>1. Kept /\ state = "PROTOCOL" /\ r' = r /\ state' = "PROTOCOL" /\ p' = p + 1
      BY <1>6, <1>22 DEF LineStates
    <2>2. LineStrings'
      BY <1>2, <1>3, <1>8, <2>1 DEF LineStrings, Passed, Within
    <2>3. QED
      BY <1>4, <2>1, <2>2
  <1>23. QED
    BY <1>10, <1>11, <1>12, <1>13, <1>14, <1>15, <1>16, <1>17, <1>18, <1>19, <1>20, <1>21, <1>22
    DEF LineByte

LEMMA StringsSame ==
  ASSUME LineStrings, HeaderStrings,
         UNCHANGED <<r, buffer, headers, p, state, handle_read>>
  PROVE  LineStrings' /\ HeaderStrings'
  <1>1. LineStrings'
    BY DEF LineStrings, Passed, Ended, Last, Within
  <1>2. HeaderStrings'
    BY DEF HeaderStrings, Ended, Last
  <1>3. QED
    BY <1>1, <1>2

\* The headers are parsed from `at' on.
LEMMA StartHeadersPlace ==
  ASSUME NEW at \in 1 .. Last' + 1, StartHeaders(at), handle_read' = "headers"
  PROVE  /\ HeaderPlace' /\ h' \in Locals /\ p' \in 1 .. Last' + 1 /\ LinePlace'
         /\ h'.name = 0 /\ h'.name_end = 0 /\ h'.value = 0 /\ h'.value_end = 0 /\ h'.pos = at
  <1>1. /\ pc' = "headers" /\ p' = at /\ state' = "START"
        /\ h' = [name |-> 0, name_end |-> 0, value |-> 0, value_end |-> 0, pos |-> at]
    BY DEF StartHeaders, NULL
  <1>2. at \in Nat /\ at >= 1
    OBVIOUS
  <1>3. HeaderPlace'
    BY <1>1, <1>2 DEF HeaderPlace, HeaderStates
  <1>4. LinePlace'
    BY DEF LinePlace
  <1>5. h' \in Locals
    BY <1>1, <1>2 DEF Locals
  <1>6. QED
    BY <1>1, <1>3, <1>4, <1>5

LEMMA LineEndInv ==
  ASSUME Inv, LineEnd
  PROVE  Inv'
  <1>1. /\ pc = "request_line" /\ p <= Last /\ state = "END"
        /\ UNCHANGED <<sent, buffer, r, headers, line_state, processed, rewound>>
    BY DEF LineEnd
  <1>2. handle_read = "request_line" /\ headers = <<>> /\ Shapes
    BY <1>1, InLine DEF Inv
  <1>3. Last' = Last /\ p \in 1 .. Last /\ Last \in Nat
    BY <1>1, <1>2, LenProperties DEF Shapes, Last
  <1>4. OverwritesSeparators'
    BY <1>1 DEF Inv, OverwritesSeparators, Last
  <1>5. CASE Byte = "LF"
    <2>1. buffer_pos' = p + 1 /\ handle_read' = "headers" /\ StartHeaders(p + 1) /\ p + 1 \in 1 .. Last' + 1
      BY <1>3, <1>5 DEF LineEnd
    <2>2. /\ HeaderPlace' /\ h' \in Locals /\ p' \in 1 .. Last' + 1 /\ LinePlace'
          /\ h'.name = 0 /\ h'.name_end = 0 /\ h'.value = 0 /\ h'.value_end = 0 /\ h'.pos = p + 1
      BY <2>1, StartHeadersPlace
    <2>3. Shapes'
      BY <1>1, <1>2, <1>3, <2>1, <2>2 DEF Shapes
    <2>4. PointersIn'
      BY <1>1, <1>3, <2>2 DEF Inv, PointersIn, Pointer
    <2>5. LineStrings'
      BY <1>1, <2>1 DEF Inv, LineStrings, Passed, Ended, Last
    <2>6. HeaderStrings'
      <3>1. Len(headers') = 0
        BY <1>1, <1>2
      <3>2. QED
        BY <3>1 DEF HeaderStrings
    <2>7. QED
      BY <1>4, <2>2, <2>3, <2>4, <2>5, <2>6 DEF Inv
  <1>6. CASE Byte # "LF"
    <2>1. pc' = "error" /\ UNCHANGED <<buffer_pos, handle_read, p, state, h>>
      BY <1>6 DEF LineEnd
    <2>2. Shapes' /\ PointersIn'
      BY <1>1, <1>3, <2>1 DEF Inv, Shapes, PointersIn, Pointer
    <2>3. LinePlace' /\ HeaderPlace'
      BY <1>1, <1>2, <2>1 DEF Inv, LinePlace, HeaderPlace
    <2>4. LineStrings' /\ HeaderStrings'
      BY <1>1, <2>1, StringsSame DEF Inv
    <2>5. QED
      BY <1>4, <2>2, <2>3, <2>4 DEF Inv
  <1>7. QED
    BY <1>5, <1>6

LEMMA LineStopsInv ==
  ASSUME Inv, LineStops
  PROVE  Inv'
  <1>1. /\ pc = "request_line" /\ p > Last
        /\ buffer_pos' = p /\ line_state' = state /\ pc' = "idle"
        /\ UNCHANGED <<sent, buffer, handle_read, r, headers, p, state, h, processed, rewound>>
    BY DEF LineStops
  <1>2. handle_read = "request_line" /\ headers = <<>> /\ Shapes
    BY <1>1, InLine DEF Inv
  <1>3. Last' = Last
    BY <1>1 DEF Last
  <1>4. Shapes' /\ PointersIn'
    BY <1>1, <1>3 DEF Inv, Shapes, PointersIn, Pointer
  <1>5. LinePlace' /\ HeaderPlace'
    BY <1>1, <1>2 DEF Inv, LinePlace, HeaderPlace
  <1>6. OverwritesSeparators'
    BY <1>1, <1>3 DEF Inv, OverwritesSeparators
  <1>7. LineStrings' /\ HeaderStrings'
    BY <1>1, StringsSame DEF Inv
  <1>8. QED
    BY <1>4, <1>5, <1>6, <1>7 DEF Inv

-----------------------------------------------------------------------------
(* A read. *)

LEMMA ReadBytes ==
  ASSUME Shapes, NEW n \in 1 .. Len(sent), Last + n <= Len(sent)
  PROVE  \E t \in Seq(Bytes) :
           /\ t = SubSeq(sent, Last + 1, Last + n)
           /\ Len(t) = n
           /\ \A i \in 1 .. n : t[i] = sent[Last + i]
  <1>1. Last \in Nat /\ Len(sent) \in Nat /\ sent \in Seq(Bytes) /\ n \in Nat
    BY LenProperties DEF Shapes, Last
  <1>2. PICK t : t = SubSeq(sent, Last + 1, Last + n)
    OBVIOUS
  <1>3. Last + 1 \in 1 .. Len(sent) + 1 /\ Last + n \in Last .. Len(sent)
    BY <1>1
  <1>4. /\ t \in Seq(Bytes)
        /\ Len(t) = IF Last + 1 <= Last + n THEN (Last + n) - (Last + 1) + 1 ELSE 0
        /\ \A i \in 1 .. (Last + n) - (Last + 1) + 1 : t[i] = sent[(Last + 1) + i - 1]
    BY <1>1, <1>2, <1>3, SubSeqProperties
  <1>5. (Last + n) - (Last + 1) + 1 = n /\ Last + 1 <= Last + n
        /\ \A i \in Nat : (Last + 1) + i - 1 = Last + i
    BY <1>1
  <1>6. Len(t) = n /\ \A i \in 1 .. n : t[i] = sent[(Last + 1) + i - 1]
    BY <1>4, <1>5
  <1>7. \A i \in 1 .. n : t[i] = sent[Last + i]
    BY <1>5, <1>6
  <1>8. QED
    BY <1>2, <1>4, <1>6, <1>7

\* n bytes of the stream are added to the buffer, and nothing else changes in it.
Adds(n) ==
  /\ buffer' \in Seq(Any) /\ Last' = Last + n
  /\ \A i \in 1 .. Last : buffer'[i] = buffer[i]
  /\ \A i \in Last + 1 .. Last' : buffer'[i] = sent[i]

LEMMA ReadAdds ==
  ASSUME Shapes, NEW n \in 1 .. Len(sent), Last + n <= Len(sent),
         NEW t \in Seq(Bytes), Len(t) = n, \A i \in 1 .. n : t[i] = sent[Last + i],
         NEW b, b = buffer \o t, buffer' = b
  PROVE  Adds(n)
  <1>1. Last \in Nat /\ buffer \in Seq(Any) /\ n \in Nat
    BY LenProperties DEF Shapes, Last
  <1>2. t \in Seq(Any)
    BY SeqMonotonic DEF Any
  <1>3. /\ b \in Seq(Any) /\ Len(b) = Last + n
        /\ \A i \in 1 .. Last + n : b[i] = IF i <= Last THEN buffer[i] ELSE t[i - Last]
    BY <1>1, <1>2, ConcatProperties DEF Last
  <1>4. Last' = Last + n
    BY <1>3 DEF Last
  <1>5. \A i \in 1 .. Last : b[i] = buffer[i]
    BY <1>1, <1>3
  <1>6. \A i \in Last + 1 .. Last + n : b[i] = sent[i]
    <2> TAKE i \in Last + 1 .. Last + n
    <2>1. i \in 1 .. Last + n /\ ~(i <= Last) /\ i - Last \in 1 .. n /\ Last + (i - Last) = i
      BY <1>1
    <2>2. QED
      BY <1>3, <2>1
  <1>7. QED
    BY <1>3, <1>4, <1>5, <1>6 DEF Adds

LEMMA AddsKeeps ==
  ASSUME Shapes, OverwritesSeparators, NEW n \in Nat, Adds(n), sent' = sent
  PROVE  Keeps /\ OverwritesSeparators'
  <1>1. Last \in Nat /\ Last' = Last + n
    BY LenProperties DEF Shapes, Last, Adds
  <1>2. Keeps
    BY <1>1 DEF Keeps, Adds
  <1>3. OverwritesSeparators'
    <2> SUFFICES ASSUME NEW i \in 1 .. Last', buffer'[i] # sent[i]
                 PROVE  buffer'[i] = NUL /\ sent[i] \in {"SP", "?", ":", "CR"}
      BY DEF OverwritesSeparators
    <2>1. i \in 1 .. Last /\ buffer'[i] = buffer[i]
      BY <1>1 DEF Adds
    <2>2. QED
      BY <2>1 DEF OverwritesSeparators
  <1>4. QED
    BY <1>2, <1>3

LEMMA HeaderStringsStay ==
  ASSUME Shapes, Keeps, HeaderStrings, headers' = headers
  PROVE  HeaderStrings'
  <1>1. \A i \in Int : Ended(i) => i > 0 /\ \E e \in i .. Last' : buffer'[e] = NUL
    BY EndedStays
  <1>2. \A i \in 1 .. Len(headers) : headers[i].name \in Int /\ headers[i].value \in Int
    <2> TAKE i \in 1 .. Len(headers)
    <2>1. headers[i] \in [name : Nat, value : Nat]
      BY ElementOfSeq DEF Shapes
    <2>2. QED
      BY <2>1
  <1>3. QED
    BY <1>1, <1>2 DEF HeaderStrings, Ended

LEMMA ReadInv ==
  ASSUME Inv, NEW n \in 1 .. Len(sent), Read(n)
  PROVE  Inv'
  <1>1. /\ pc = "idle" /\ Last + n <= Len(sent)
        /\ rewound' = (rewound \/ Rewinds)
        /\ UNCHANGED <<sent, buffer_pos, handle_read, r, headers, line_state>>
    BY DEF Read
  <1>2. Shapes /\ OverwritesSeparators
    BY DEF Inv
  <1>3. Adds(n)
    <2>1. PICK t \in Seq(Bytes) : /\ t = SubSeq(sent, Last + 1, Last + n)
                                 /\ Len(t) = n
                                 /\ \A i \in 1 .. n : t[i] = sent[Last + i]
      BY <1>1, <1>2, ReadBytes
    <2>2. PICK b : b = buffer \o t
      OBVIOUS
    <2>3. buffer' = b
      BY <2>1, <2>2 DEF Read
    <2>4. QED
      BY <1>1, <1>2, <2>1, <2>2, <2>3, ReadAdds
  <1>4. Last \in Nat /\ Last' = Last + n /\ n \in Nat /\ Keeps /\ OverwritesSeparators'
        /\ buffer' \in Seq(Any)
    <2>1. n \in Nat
      OBVIOUS
    <2>2. Keeps /\ OverwritesSeparators'
      BY <1>1, <1>2, <1>3, <2>1, AddsKeeps
    <2>3. QED
      BY <1>2, <1>3, <2>1, <2>2, LenProperties DEF Shapes, Last, Adds
  <1>5. rewound' \in BOOLEAN
    BY <1>1 DEF Rewinds, Inv, Shapes
  <1>6. HeaderStrings'
    BY <1>1, <1>2, <1>4, HeaderStringsStay DEF Inv
  <1>7. (handle_read = "request_line" => state' = state /\ p' = p) => LineStrings'
    <2> SUFFICES ASSUME handle_read = "request_line" => state' = state /\ p' = p
                 PROVE  LineStrings'
      OBVIOUS
    <2>1. /\ Ended(r.method) => Ended(r.method)'
          /\ Ended(r.path_info) => Ended(r.path_info)'
          /\ Ended(r.query_string) => Ended(r.query_string)'
          /\ Ended(r.protocol) => Ended(r.protocol)'
      BY <1>1, <1>2, <1>4, StringsStay
    <2>2. QED
      BY <1>1, <2>1 DEF Inv, LineStrings, Passed, Within
  <1>8. /\ Pointer(r.method)' /\ Pointer(r.path_info)' /\ Pointer(r.query_string)'
        /\ Pointer(r.protocol)' /\ Pointer(r.content_type)' /\ Pointer(r.content_length)'
    BY <1>1, <1>4, SMTT(30) DEF Inv, PointersIn, Pointer
  <1>9. h' = h => /\ h'.name <= Last' /\ h'.name_end <= Last' /\ h'.value <= Last'
                   /\ h'.value_end <= Last' /\ h'.pos <= Last' + 1
    <2>1. /\ h.name \in Nat /\ h.name_end \in Nat /\ h.value \in Nat /\ h.value_end \in Nat
          /\ h.pos \in Nat
      BY <1>2 DEF Shapes, Locals
    <2>2. /\ h.name <= Last /\ h.name_end <= Last /\ h.value <= Last /\ h.value_end <= Last
          /\ h.pos <= Last + 1
      BY DEF Inv, PointersIn
    <2>3. QED
      BY <1>4, <2>1, <2>2, SMTT(30)
  <1>10. p' \in 1 .. Last' + 1 /\ h' \in Locals /\ processed' \in Nat => Shapes'
    BY <1>1, <1>2, <1>4, <1>5 DEF Shapes
  <1>11. CASE /\ handle_read = "request_line"
              /\ pc' = "request_line" /\ p' = buffer_pos /\ state' = line_state
              /\ UNCHANGED <<h, processed>>
    <2>1. p' = p /\ state' = state
      BY <1>1, <1>11 DEF Inv, LinePlace
    <2>2. Shapes' /\ LineStrings'
      BY <1>2, <1>4, <1>7, <1>10, <1>11, <2>1 DEF Shapes
    <2>3. LinePlace' /\ HeaderPlace'
      BY <1>1, <1>11, <2>1 DEF Inv, LinePlace, HeaderPlace
    <2>4. PointersIn'
      BY <1>8, <1>11, <1>9 DEF PointersIn
    <2>5. QED
      BY <1>4, <1>6, <2>2, <2>3, <2>4 DEF Inv
  <1>12. CASE /\ handle_read = "headers"
              /\ StartHeaders(buffer_pos)
              /\ UNCHANGED processed
    <2>1. buffer_pos \in 1 .. Last' + 1
      BY <1>2, <1>4 DEF Shapes
    <2>2. /\ HeaderPlace' /\ h' \in Locals /\ p' \in 1 .. Last' + 1 /\ LinePlace'
          /\ h'.name = 0 /\ h'.name_end = 0 /\ h'.value = 0 /\ h'.value_end = 0
          /\ h'.pos = buffer_pos
      BY <1>1, <1>12, <2>1, StartHeadersPlace
    <2>3. Shapes' /\ LineStrings'
      BY <1>2, <1>7, <1>10, <1>12, <2>2 DEF Shapes
    <2>4. PointersIn'
      BY <1>4, <1>8, <2>1, <2>2 DEF PointersIn
    <2>5. QED
      BY <1>4, <1>6, <2>2, <2>3, <2>4 DEF Inv
  <1>13. CASE /\ handle_read = "process"
              /\ processed' = processed + 1
              /\ UNCHANGED <<pc, p, state, h>>
    <2>1. Shapes' /\ LineStrings'
      BY <1>2, <1>4, <1>7, <1>10, <1>13 DEF Shapes
    <2>2. LinePlace' /\ HeaderPlace'
      BY <1>1, <1>13 DEF LinePlace, HeaderPlace
    <2>3. PointersIn'
      BY <1>8, <1>13, <1>9 DEF PointersIn
    <2>4. QED
      BY <1>4, <1>6, <2>1, <2>2, <2>3 DEF Inv
  <1>14. QED
    BY <1>11, <1>12, <1>13 DEF Read

-----------------------------------------------------------------------------
(* The headers. *)

LEMMA InHeaders ==
  ASSUME Inv, pc = "headers"
  PROVE  /\ handle_read = "headers" /\ state \in HeaderStates /\ h.pos \in 1 .. p
         /\ h.name \in Nat /\ h.name_end \in Nat /\ h.value \in Nat /\ h.value_end \in Nat
         /\ Last \in Nat /\ p \in Nat
  BY LenProperties DEF Inv, HeaderPlace, Shapes, Locals, Last

\* A step of the headers that leaves the buffer and what the request has alone.
LEMMA HeaderMove ==
  ASSUME Inv, pc = "headers", p <= Last, p' = p + 1,
         UNCHANGED <<sent, buffer, buffer_pos, handle_read, r, headers, line_state, pc,
                     processed, rewound>>,
         h' \in Locals, h'.name <= Last, h'.name_end <= Last, h'.value <= Last,
         h'.value_end <= Last, h'.pos <= Last + 1, HeaderPlace'
  PROVE  Inv'
  <1>1. Last' = Last /\ Shapes /\ handle_read = "headers" /\ p \in Nat /\ Last \in Nat /\ p >= 1
    BY InHeaders DEF Inv, Shapes, Last
  <1>2. Shapes'
    BY <1>1 DEF Shapes
  <1>3. LinePlace'
    BY <1>1 DEF LinePlace
  <1>4. PointersIn'
    BY <1>1 DEF Inv, PointersIn, Pointer
  <1>5. OverwritesSeparators'
    BY <1>1 DEF Inv, OverwritesSeparators
  <1>6. LineStrings'
    BY <1>1 DEF Inv, LineStrings, Passed, Ended
  <1>7. HeaderStrings'
    BY <1>1 DEF Inv, HeaderStrings, Ended
  <1>8. QED
    BY <1>2, <1>3, <1>4, <1>5, <1>6, <1>7 DEF Inv

LEMMA HeaderByteInv ==
  ASSUME Inv, HeaderByte
  PROVE  Inv'
  <1>1. /\ pc = "headers" /\ p <= Last
        /\ UNCHANGED <<sent, buffer, buffer_pos, handle_read, r, headers, line_state, pc,
                       processed, rewound>>
    BY DEF HeaderByte
  <1>2. /\ handle_read = "headers" /\ state \in HeaderStates /\ h.pos \in 1 .. p
        /\ h.name \in Nat /\ h.name_end \in Nat /\ h.value \in Nat /\ h.value_end \in Nat
        /\ Last \in Nat /\ p \in Nat /\ p \in 1 .. Last
    BY <1>1, InHeaders
  <1>3. /\ Shapes /\ OverwritesSeparators /\ h \in Locals /\ HeaderPlace
        /\ h.name <= Last /\ h.name_end <= Last /\ h.value <= Last /\ h.value_end <= Last
        /\ h.pos <= Last + 1
    BY DEF Inv, Shapes, PointersIn
  <1>4. Byte = "CR" => sent[p] = "CR"
    BY <1>2, <1>3, SentByte DEF Byte, NUL
  <1>5. Byte = ":" => sent[p] = ":"
    BY <1>2, <1>3, SentByte DEF Byte, NUL
  <1>6. ASSUME NEW from, NEW bytes, NEW to, NEW locals \in Locals, Moves(from, bytes, to, locals),
               locals.name <= Last, locals.name_end <= Last, locals.value <= Last,
               locals.value_end <= Last, locals.pos <= Last + 1, HeaderPlace'
        PROVE  Inv'
    <2>1. p' = p + 1 /\ h' = locals
      BY <1>6 DEF Moves, Advance
    <2>2. /\ h' \in Locals /\ h'.name <= Last /\ h'.name_end <= Last /\ h'.value <= Last
          /\ h'.value_end <= Last /\ h'.pos <= Last + 1
      BY <1>6, <2>1
    <2>3. QED
      BY <1>1, <1>6, <2>1, <2>2, HeaderMove
  <1>7. CASE Moves("START", {"CR"}, "DONE", h)
    <2>1. HeaderPlace'
      BY <1>1, <1>2, <1>7 DEF Moves, Advance, HeaderPlace, HeaderStates
    <2>2. QED
      BY <1>3, <1>6, <1>7, <2>1
  <1>8. CASE Moves("START", Any \ {"CR"}, "NAME", [h EXCEPT !.name = p, !.pos = p])
    <2>1. PICK l : l = [h EXCEPT !.name = p, !.pos = p]
      OBVIOUS
    <2>2. /\ l \in Locals /\ l.name = p /\ l.pos = p /\ l.name_end = h.name_end
          /\ l.value = h.value /\ l.value_end = h.value_end
      BY <1>2, <1>3, <2>1 DEF Locals
    <2>3. Moves("START", Any \ {"CR"}, "NAME", l)
      BY <1>8, <2>1
    <2>4. state' = "NAME" /\ h' = l /\ p' = p + 1
      BY <2>3 DEF Moves, Advance
    <2>5. HeaderPlace'
      BY <1>1, <1>2, <2>2, <2>4 DEF HeaderPlace, HeaderStates
    <2>6. QED
      BY <1>2, <1>3, <1>6, <2>2, <2>3, <2>5
  <1>9. CASE Moves("NAME", {":"}, "COLON", [h EXCEPT !.name_end = p])
    <2>1. PICK l : l = [h EXCEPT !.name_end = p]
      OBVIOUS
    <2>2. /\ l \in Locals /\ l.name = h.name /\ l.pos = h.pos /\ l.name_end = p
          /\ l.value = h.value /\ l.value_end = h.value_end
      BY <1>2, <1>3, <2>1 DEF Locals
    <2>3. Moves("NAME", {":"}, "COLON", l)
      BY <1>9, <2>1
    <2>4. state = "NAME" /\ Byte = ":" /\ state' = "COLON" /\ h' = l /\ p' = p + 1
      BY <2>3 DEF Moves, Advance
    <2>5. HeaderPlace'
      BY <1>1, <1>2, <1>3, <1>5, <2>2, <2>4 DEF HeaderPlace, HeaderStates
    <2>6. QED
      BY <1>2, <1>3, <1>6, <2>2, <2>3, <2>5
  <1>10. CASE Moves("NAME", Any \ {":"}, "NAME", h)
    <2>1. HeaderPlace'
      BY <1>1, <1>2, <1>3, <1>10 DEF Moves, Advance, HeaderPlace, HeaderStates
    <2>2. QED
      BY <1>3, <1>6, <1>10, <2>1
  <1>11. CASE Moves("COLON", {"SP"}, "SPACE", h)
    <2>1. state = "COLON" /\ state' = "SPACE" /\ h' = h /\ p' = p + 1
      BY <1>11 DEF Moves, Advance
    <2>2. /\ 0 < h.name /\ h.name < p /\ h.name < h.name_end /\ h.name_end < p
          /\ sent[h.name_end] = ":"
      BY <1>1, <1>3, <2>1 DEF HeaderPlace
    <2>3. HeaderPlace'
      BY <1>1, <1>2, <2>1, <2>2 DEF HeaderPlace, HeaderStates
    <2>4. QED
      BY <1>3, <1>6, <1>11, <2>3
  <1>12. CASE Moves("SPACE", {"SP"}, "SPACE", h)
    <2>1. state = "SPACE" /\ state' = "SPACE" /\ h' = h /\ p' = p + 1
      BY <1>12 DEF Moves, Advance
    <2>2. /\ 0 < h.name /\ h.name < p /\ h.name < h.name_end /\ h.name_end < p
          /\ sent[h.name_end] = ":"
      BY <1>1, <1>3, <2>1 DEF HeaderPlace
    <2>3. HeaderPlace'
      BY <1>1, <1>2, <2>1, <2>2 DEF HeaderPlace, HeaderStates
    <2>4. QED
      BY <1>3, <1>6, <1>12, <2>3
  <1>13. CASE Moves("SPACE", Any \ {"SP"}, "VALUE", [h EXCEPT !.value = p])
    <2>1. PICK l : l = [h EXCEPT !.value = p]
      OBVIOUS
    <2>2. /\ l \in Locals /\ l.name = h.name /\ l.pos = h.pos /\ l.name_end = h.name_end
          /\ l.value = p /\ l.value_end = h.value_end
      BY <1>2, <1>3, <2>1 DEF Locals
    <2>3. Moves("SPACE", Any \ {"SP"}, "VALUE", l)
      BY <1>13, <2>1
    <2>4. state = "SPACE" /\ state' = "VALUE" /\ h' = l /\ p' = p + 1
      BY <2>3 DEF Moves, Advance
    <2>5. /\ 0 < h.name /\ h.name < p /\ h.name < h.name_end /\ h.name_end < p
          /\ sent[h.name_end] = ":"
      BY <1>1, <1>3, <2>4 DEF HeaderPlace
    <2>6. HeaderPlace'
      BY <1>1, <1>2, <2>2, <2>4, <2>5 DEF HeaderPlace, HeaderStates
    <2>7. /\ l.name <= Last /\ l.name_end <= Last /\ l.value <= Last /\ l.value_end <= Last
          /\ l.pos <= Last + 1
      BY <1>2, <1>3, <2>2
    <2>8. QED
      BY <1>6, <2>2, <2>3, <2>6, <2>7
  <1>14. CASE Moves("VALUE", {"CR"}, "END", [h EXCEPT !.value_end = p])
    <2>1. PICK l : l = [h EXCEPT !.value_end = p]
      OBVIOUS
    <2>2. /\ l \in Locals /\ l.name = h.name /\ l.pos = h.pos /\ l.name_end = h.name_end
          /\ l.value = h.value /\ l.value_end = p
      BY <1>2, <1>3, <2>1 DEF Locals
    <2>3. Moves("VALUE", {"CR"}, "END", l)
      BY <1>14, <2>1
    <2>4. state = "VALUE" /\ Byte = "CR" /\ state' = "END" /\ h' = l /\ p' = p + 1
      BY <2>3 DEF Moves, Advance
    <2>5. HeaderPlace'
      BY <1>1, <1>2, <1>3, <1>4, <2>2, <2>4 DEF HeaderPlace, HeaderStates
    <2>6. QED
      BY <1>2, <1>3, <1>6, <2>2, <2>3, <2>5
  <1>15. CASE Moves("VALUE", Any \ {"CR"}, "VALUE", h)
    <2>1. HeaderPlace'
      BY <1>1, <1>2, <1>3, <1>15 DEF Moves, Advance, HeaderPlace, HeaderStates
    <2>2. QED
      BY <1>3, <1>6, <1>15, <2>1
  <1>16. QED
    BY <1>7, <1>8, <1>9, <1>10, <1>11, <1>12, <1>13, <1>14, <1>15 DEF HeaderByte

\* The parts of a header line, when it is complete.
LEMMA HeaderParts ==
  ASSUME Inv, pc = "headers", state = "END", p <= Last
  PROVE  /\ h.name \in 1 .. Last /\ h.name_end \in 1 .. Last
         /\ h.value \in 1 .. Last /\ h.value_end \in 1 .. Last
         /\ h.name < h.name_end /\ h.name_end < h.value /\ h.value < h.value_end
         /\ sent[h.name_end] = ":" /\ sent[h.value_end] = "CR"
  BY InHeaders DEF Inv, HeaderPlace

\* A second cut, of b, which has had the first.
LEMMA CutAgain ==
  ASSUME NEW b \in Seq(Any), NEW j \in 1 .. Len(b), NEW c \in {[b EXCEPT ![j] = NUL]}
  PROVE  /\ c \in Seq(Any) /\ Len(c) = Len(b)
         /\ \A e \in 1 .. Len(b) : c[e] = IF e = j THEN NUL ELSE b[e]
  <1>1. NUL \in Any
    BY DEF Any
  <1>2. c = [b EXCEPT ![j] = NUL]
    OBVIOUS
  <1>3. QED
    BY <1>1, <1>2, ExceptSeq

\* What the end of a header line writes.
LEMMA HeaderCuts ==
  ASSUME Inv, HeaderEnds
  PROVE  /\ buffer' \in Seq(Any) /\ Last' = Last
         /\ \A e \in 1 .. Last : buffer'[e]
                                  = IF e = h.name_end \/ e = h.value_end THEN NUL ELSE buffer[e]
         /\ headers' \in Seq([name : Nat, value : Nat]) /\ Len(headers') = Len(headers) + 1
         /\ headers'[Len(headers) + 1].name = h.name /\ headers'[Len(headers) + 1].value = h.value
         /\ \A i \in 1 .. Len(headers) : headers'[i] = headers[i]
         /\ r' \in Pointers /\ r'.method = r.method /\ r'.path_info = r.path_info
         /\ r'.query_string = r.query_string /\ r'.protocol = r.protocol
         /\ r'.content_type = IF Name = <<"T">> THEN h.value ELSE r.content_type
         /\ r'.content_length = IF Name = <<"L">> THEN h.value ELSE r.content_length
         /\ Pointer(r.content_type)' /\ Pointer(r.content_length)'
  <1>1. /\ pc = "headers" /\ p <= Last /\ state = "END"
        /\ state' = "START" /\ p' = p + 1
        /\ UNCHANGED <<sent, buffer_pos, handle_read, line_state, pc, h, processed, rewound>>
    BY DEF HeaderEnds, Advance
  <1>2. /\ handle_read = "headers" /\ h.pos \in 1 .. p /\ Last \in Nat /\ p \in Nat
        /\ Shapes /\ OverwritesSeparators
    BY <1>1, InHeaders DEF Inv
  <1>3. /\ h.name \in 1 .. Last /\ h.name_end \in 1 .. Last
        /\ h.value \in 1 .. Last /\ h.value_end \in 1 .. Last
        /\ h.name < h.name_end /\ h.name_end < h.value /\ h.value < h.value_end
        /\ sent[h.name_end] = ":" /\ sent[h.value_end] = "CR"
    BY <1>1, HeaderParts
  <1>4. /\ buffer' \in Seq(Any) /\ Last' = Last
        /\ \A e \in 1 .. Last : buffer'[e]
                                  = IF e = h.name_end \/ e = h.value_end THEN NUL ELSE buffer[e]
    <2>1. PICK i \in 1 .. Last, j \in 1 .. Last : i = h.name_end /\ j = h.value_end
      BY <1>3
    <2>2. PICK b : b = [buffer EXCEPT ![i] = NUL]
      OBVIOUS
    <2>3. /\ b \in Seq(Any) /\ Len(b) = Last
          /\ \A e \in 1 .. Last : b[e] = IF e = i THEN NUL ELSE buffer[e]
      <3>1. b \in {[buffer EXCEPT ![i] = NUL]} /\ sent[i] \in Separators
        BY <1>3, <2>1, <2>2 DEF Separators
      <3>2. QED
        BY <1>2, <3>1, CutByte
    <2>4. PICK c : c = [b EXCEPT ![j] = NUL]
      OBVIOUS
    <2>5. /\ c \in Seq(Any) /\ Len(c) = Last
          /\ \A e \in 1 .. Last : c[e] = IF e = j THEN NUL ELSE b[e]
      <3>1. c \in {[b EXCEPT ![j] = NUL]} /\ j \in 1 .. Len(b)
        BY <2>3, <2>4
      <3>2. QED
        BY <2>3, <3>1, CutAgain
    <2>6. buffer' = c
      BY <2>1, <2>2, <2>4 DEF HeaderEnds, CutHeader
    <2>7. Last' = Last
      BY <2>5, <2>6 DEF Last
    <2>8. \A e \in 1 .. Last : c[e] = IF e = i \/ e = j THEN NUL ELSE buffer[e]
      BY <2>3, <2>5
    <2>9. QED
      BY <2>1, <2>5, <2>6, <2>7, <2>8
  <1>5. PICK record : record = [name |-> h.name, value |-> h.value]
    OBVIOUS
  <1>6. /\ record \in [name : Nat, value : Nat]
        /\ record.name = h.name /\ record.value = h.value
    BY <1>3, <1>5
  <1>7. headers' = Append(headers, record)
    BY <1>5 DEF HeaderEnds
  <1>8. /\ headers' \in Seq([name : Nat, value : Nat]) /\ Len(headers') = Len(headers) + 1
        /\ headers'[Len(headers) + 1] = record
        /\ \A i \in 1 .. Len(headers) : headers'[i] = headers[i]
    BY <1>2, <1>6, <1>7, AppendProperties DEF Shapes
  <1>9. PICK type, len : /\ type = IF Name = <<"T">> THEN h.value ELSE r.content_type
                         /\ len = IF Name = <<"L">> THEN h.value ELSE r.content_length
    OBVIOUS
  <1>10. r' = [r EXCEPT !.content_type = type, !.content_length = len]
    <2>1. r' = KeepContent
      BY DEF HeaderEnds
    <2>2. QED
      BY <1>9, <2>1 DEF KeepContent
  <1>11. /\ type \in Int /\ len \in Int
         /\ type \in 0 .. Last \/ type = Empty
         /\ len \in 0 .. Last \/ len = Empty
    <2>1. /\ r.content_type \in Int /\ r.content_length \in Int
          /\ Pointer(r.content_type) /\ Pointer(r.content_length)
      BY <1>2 DEF Inv, PointersIn, Shapes, Pointers
    <2>2. QED
      BY <1>3, <1>9, <2>1 DEF Pointer
  <1>12. /\ r' \in Pointers /\ r'.method = r.method /\ r'.path_info = r.path_info
         /\ r'.query_string = r.query_string /\ r'.protocol = r.protocol
         /\ r'.content_type = type /\ r'.content_length = len
    BY <1>2, <1>10, <1>11 DEF Shapes, Pointers
  <1>13. Pointer(r.content_type)' /\ Pointer(r.content_length)'
    BY <1>4, <1>11, <1>12 DEF Pointer
  <1>14. QED
    BY <1>4, <1>6, <1>8, <1>9, <1>12, <1>13

LEMMA HeaderEndsInv ==
  ASSUME Inv, HeaderEnds
  PROVE  Inv'
  <1>1. /\ pc = "headers" /\ p <= Last /\ state = "END"
        /\ state' = "START" /\ p' = p + 1
        /\ UNCHANGED <<sent, buffer_pos, handle_read, line_state, pc, h, processed, rewound>>
    BY DEF HeaderEnds, Advance
  <1>2. /\ handle_read = "headers" /\ h.pos \in 1 .. p /\ Last \in Nat /\ p \in Nat
        /\ Shapes /\ OverwritesSeparators
    BY <1>1, InHeaders DEF Inv
  <1>3. /\ h.name \in 1 .. Last /\ h.name_end \in 1 .. Last
        /\ h.value \in 1 .. Last /\ h.value_end \in 1 .. Last
        /\ h.name < h.name_end /\ h.name_end < h.value /\ h.value < h.value_end
        /\ sent[h.name_end] = ":" /\ sent[h.value_end] = "CR"
    BY <1>1, HeaderParts
  <1>4. /\ buffer' \in Seq(Any) /\ Last' = Last
        /\ \A e \in 1 .. Last : buffer'[e]
                                  = IF e = h.name_end \/ e = h.value_end THEN NUL ELSE buffer[e]
    BY HeaderCuts
  <1>5. Keeps
    BY <1>2, <1>4 DEF Keeps
  <1>6. OverwritesSeparators'
    <2> SUFFICES ASSUME NEW i \in 1 .. Last', buffer'[i] # sent[i]
                 PROVE  buffer'[i] = NUL /\ sent[i] \in {"SP", "?", ":", "CR"}
      BY <1>1 DEF OverwritesSeparators
    <2>1. CASE i = h.name_end \/ i = h.value_end
      BY <1>3, <1>4, <2>1
    <2>2. CASE ~(i = h.name_end \/ i = h.value_end)
      BY <1>2, <1>4, <2>2 DEF OverwritesSeparators
    <2>3. QED
      BY <2>1, <2>2
  <1>7. /\ headers' \in Seq([name : Nat, value : Nat]) /\ Len(headers') = Len(headers) + 1
        /\ headers'[Len(headers) + 1].name = h.name /\ headers'[Len(headers) + 1].value = h.value
        /\ \A i \in 1 .. Len(headers) : headers'[i] = headers[i]
    BY HeaderCuts
  <1>8. /\ r' \in Pointers /\ r'.method = r.method /\ r'.path_info = r.path_info
        /\ r'.query_string = r.query_string /\ r'.protocol = r.protocol
        /\ Pointer(r.content_type)' /\ Pointer(r.content_length)'
    BY HeaderCuts
  <1>9. Shapes'
    BY <1>1, <1>2, <1>4, <1>7, <1>8 DEF Shapes
  <1>10. LinePlace'
    BY <1>1, <1>2 DEF LinePlace
  <1>11. HeaderPlace'
    BY <1>1, <1>2 DEF HeaderPlace, HeaderStates
  <1>12. PointersIn'
    <2>1. /\ Pointer(r.method)' /\ Pointer(r.path_info)' /\ Pointer(r.query_string)'
          /\ Pointer(r.protocol)' /\ Pointer(r.content_type)' /\ Pointer(r.content_length)'
      BY <1>4, <1>8, <1>8 DEF Inv, PointersIn, Pointer
    <2>2. QED
      BY <1>1, <1>4, <2>1 DEF Inv, PointersIn
  <1>13. LineStrings'
    <2>1. /\ Ended(r.method) => Ended(r.method)'
          /\ Ended(r.path_info) => Ended(r.path_info)'
          /\ Ended(r.query_string) => Ended(r.query_string)'
          /\ Ended(r.protocol) => Ended(r.protocol)'
      BY <1>2, <1>5, <1>8, StringsStay
    <2>2. QED
      BY <1>1, <1>2, <1>8, <2>1 DEF Inv, LineStrings, Passed
  <1>14. HeaderStrings'
    <2>1. \A i \in Int : Ended(i) => i > 0 /\ \E e \in i .. Last' : buffer'[e] = NUL
      BY <1>2, <1>5, EndedStays
    <2>2. ASSUME NEW i \in 1 .. Len(headers)
          PROVE  /\ headers'[i].name > 0 /\ \E e \in headers'[i].name .. Last' : buffer'[e] = NUL
                 /\ headers'[i].value > 0 /\ \E e \in headers'[i].value .. Last' : buffer'[e] = NUL
      <3>1. headers[i] \in [name : Nat, value : Nat]
        BY <1>2, ElementOfSeq DEF Shapes
      <3>2. Ended(headers[i].name) /\ Ended(headers[i].value)
        BY DEF Inv, HeaderStrings
      <3>3. headers[i].name \in Int /\ headers[i].value \in Int
        BY <3>1
      <3>4. headers'[i] = headers[i]
        BY <1>7
      <3>5. headers[i].name > 0 /\ \E e \in headers[i].name .. Last' : buffer'[e] = NUL
        BY <2>1, <3>2, <3>3
      <3>6. headers[i].value > 0 /\ \E e \in headers[i].value .. Last' : buffer'[e] = NUL
        BY <2>1, <3>2, <3>3
      <3>7. QED
        BY <3>4, <3>5, <3>6
    <2>3. /\ h.name > 0 /\ h.name_end \in h.name .. Last' /\ buffer'[h.name_end] = NUL
          /\ h.value > 0 /\ h.value_end \in h.value .. Last' /\ buffer'[h.value_end] = NUL
      BY <1>2, <1>3, <1>4
    <2>4. ASSUME NEW i \in 1 .. Len(headers') PROVE Ended(headers[i].name)' /\ Ended(headers[i].value)'
      <3>1. i \in 1 .. Len(headers) \/ i = Len(headers) + 1
        BY <1>2, <1>7, LenProperties DEF Shapes
      <3>2. CASE i \in 1 .. Len(headers)
        BY <2>2, <3>2 DEF Ended
      <3>3. CASE i = Len(headers) + 1
        BY <1>7, <2>3, <3>3 DEF Ended
      <3>4. QED
        BY <3>1, <3>2, <3>3
    <2>5. QED
      BY <2>4 DEF HeaderStrings
  <1>15. QED
    BY <1>6, <1>9, <1>10, <1>11, <1>12, <1>13, <1>14 DEF Inv

LEMMA HeaderErrorInv ==
  ASSUME Inv, HeaderError
  PROVE  Inv'
  <1>1. /\ pc = "headers" /\ pc' = "error"
        /\ UNCHANGED <<sent, buffer, buffer_pos, handle_read, r, headers, line_state, p, state, h,
                       processed, rewound>>
    BY DEF HeaderError
  <1>2. handle_read = "headers" /\ Last' = Last
    BY <1>1, InHeaders DEF Last
  <1>3. Shapes' /\ PointersIn'
    BY <1>1, <1>2 DEF Inv, Shapes, PointersIn, Pointer
  <1>4. LinePlace' /\ HeaderPlace'
    BY <1>1, <1>2 DEF LinePlace, HeaderPlace
  <1>5. OverwritesSeparators'
    BY <1>1, <1>2 DEF Inv, OverwritesSeparators
  <1>6. LineStrings' /\ HeaderStrings'
    BY <1>1, StringsSame DEF Inv
  <1>7. QED
    BY <1>3, <1>4, <1>5, <1>6 DEF Inv

LEMMA HeadersStopInv ==
  ASSUME Inv, HeadersStop
  PROVE  Inv'
  <1>1. /\ pc = "headers" /\ pc' = "idle" /\ buffer_pos' = h.pos
        /\ UNCHANGED <<sent, buffer, handle_read, r, headers, line_state, p, state, h,
                       processed, rewound>>
    BY DEF HeadersStop
  <1>2. handle_read = "headers" /\ Last' = Last /\ h.pos \in 1 .. p
    BY <1>1, InHeaders DEF Last
  <1>3. h.pos \in 1 .. Last + 1
    <2>1. p \in 1 .. Last + 1 /\ Last \in Nat /\ p \in Nat
      BY <1>1, InHeaders DEF Inv, Shapes
    <2>2. QED
      BY <1>2, <2>1
  <1>4. Shapes' /\ PointersIn'
    BY <1>1, <1>2, <1>3 DEF Inv, Shapes, PointersIn, Pointer
  <1>5. LinePlace' /\ HeaderPlace'
    BY <1>1, <1>2 DEF LinePlace, HeaderPlace
  <1>6. OverwritesSeparators'
    BY <1>1, <1>2 DEF Inv, OverwritesSeparators
  <1>7. LineStrings' /\ HeaderStrings'
    BY <1>1, StringsSame DEF Inv
  <1>8. QED
    BY <1>4, <1>5, <1>6, <1>7 DEF Inv

LEMMA HeadersDoneInv ==
  ASSUME Inv, HeadersDone
  PROVE  Inv'
  <1>1. /\ pc = "headers" /\ pc' = "idle" /\ handle_read' = "process" /\ processed' = processed + 1
        /\ UNCHANGED <<sent, buffer, buffer_pos, r, headers, line_state, p, state, h, rewound>>
    BY DEF HeadersDone
  <1>2. handle_read = "headers" /\ Last' = Last
    BY <1>1, InHeaders DEF Last
  <1>3. Shapes' /\ PointersIn'
    BY <1>1, <1>2 DEF Inv, Shapes, PointersIn, Pointer
  <1>4. LinePlace' /\ HeaderPlace'
    BY <1>1, <1>2 DEF LinePlace, HeaderPlace
  <1>5. OverwritesSeparators'
    BY <1>1, <1>2 DEF Inv, OverwritesSeparators
  <1>6. LineStrings'
    BY <1>1, <1>2 DEF Inv, LineStrings, Passed, Ended
  <1>7. HeaderStrings'
    BY <1>1, <1>2 DEF Inv, HeaderStrings, Ended
  <1>8. QED
    BY <1>3, <1>4, <1>5, <1>6, <1>7 DEF Inv

LEMMA StutterInv ==
  ASSUME Inv, UNCHANGED vars
  PROVE  Inv'
  <1>1. UNCHANGED <<sent, buffer, buffer_pos, handle_read, r, headers, line_state, pc, p, state, h,
                    processed, rewound>>
    BY DEF vars
  <1>2. Last' = Last
    BY <1>1 DEF Last
  <1>3. Shapes' /\ PointersIn'
    BY <1>1, <1>2 DEF Inv, Shapes, PointersIn, Pointer
  <1>4. LinePlace'
    BY <1>1 DEF Inv, LinePlace
  <1>5. HeaderPlace'
    BY <1>1 DEF Inv, HeaderPlace
  <1>6. OverwritesSeparators'
    BY <1>1, <1>2 DEF Inv, OverwritesSeparators
  <1>7. LineStrings' /\ HeaderStrings'
    BY <1>1, StringsSame DEF Inv
  <1>8. QED
    BY <1>3, <1>4, <1>5, <1>6, <1>7 DEF Inv

LEMMA InitInv == Init => Inv
  <1> SUFFICES ASSUME Init PROVE Inv
    OBVIOUS
  <1>1. /\ sent \in Seq(Bytes) /\ buffer = <<>> /\ headers = <<>> /\ Last = 0 /\ Len(headers) = 0
        /\ buffer_pos = 1 /\ p = 1 /\ handle_read = "request_line" /\ pc = "idle"
        /\ state = "START" /\ line_state = "START" /\ processed = 0 /\ rewound = FALSE
    BY StreamsAssumption DEF Init, Last
  <1>2. /\ r \in Pointers /\ r.method = 0 /\ r.path_info = 0 /\ r.query_string = 0
        /\ r.protocol = 0 /\ r.content_type = 0 /\ r.content_length = 0
    BY DEF Init, Pointers, NULL
  <1>3. /\ h \in Locals /\ h.name = 0 /\ h.name_end = 0 /\ h.value = 0 /\ h.value_end = 0
        /\ h.pos = 0
    BY DEF Init, Locals, NULL
  <1>4. Shapes
    <2>1. Len(sent) \in Nat
      BY <1>1, LenProperties
    <2>2. buffer \in Seq(Any) /\ headers \in Seq([name : Nat, value : Nat])
      BY <1>1
    <2>3. Last <= Len(sent) /\ buffer_pos \in 1 .. Last + 1 /\ p \in 1 .. Last + 1
      BY <1>1, <2>1
    <2>4. processed \in Nat /\ rewound \in BOOLEAN
          /\ handle_read \in {"request_line", "headers", "process"}
      BY <1>1
    <2>5. QED
      BY <1>1, <1>2, <1>3, <2>2, <2>3, <2>4 DEF Shapes
  <1>5. LinePlace /\ HeaderPlace
    BY <1>1 DEF LinePlace, LineStates, HeaderPlace
  <1>6. PointersIn
    BY <1>1, <1>2, <1>3 DEF PointersIn, Pointer
  <1>7. OverwritesSeparators /\ HeaderStrings
    BY <1>1 DEF OverwritesSeparators, HeaderStrings
  <1>8. LineStrings
    BY <1>1 DEF LineStrings, Passed
  <1>9. QED
    BY <1>4, <1>5, <1>6, <1>7, <1>8 DEF Inv

LEMMA StepInv == Inv /\ [Next]_vars => Inv'
  BY ReadInv, LineByteInv, LineEndInv, LineStopsInv, HeaderByteInv, HeaderEndsInv,
     HeaderErrorInv, HeadersStopInv, HeadersDoneInv, StutterInv DEF Next

\* Every pointer the request keeps, and every pointer of a header line that is
\* being parsed, is where it should be.
THEOREM Invariance == Spec => []Inv
  BY StepInv, InitInv, PTL DEF Spec

\* Every pointer the runtime is given is a C string that ends in the buffer.
StringsEnd ==
  handle_read # "request_line" =>
    /\ Ended(r.method) /\ Ended(r.path_info) /\ Ended(r.protocol)
    /\ r.query_string = Empty \/ Ended(r.query_string)
    /\ \A i \in 1 .. Len(headers) : Ended(headers[i].name) /\ Ended(headers[i].value)

LEMMA InvTypeOK == Inv => TypeOK
  <1> SUFFICES ASSUME Inv PROVE TypeOK
    OBVIOUS
  <1>1. Last \in Nat /\ Len(sent) \in Nat /\ Last <= Len(sent) /\ Shapes
    BY LenProperties DEF Inv, Shapes, Last
  <1>2. \A f \in DOMAIN r : r[f] \in Positions \cup {Empty}
    <2>1. DOMAIN r = {"method", "path_info", "query_string", "protocol", "content_type",
                      "content_length"}
      BY <1>1 DEF Shapes, Pointers
    <2>2. \A i : Pointer(i) => i \in Positions \cup {Empty}
      BY <1>1 DEF Pointer, Positions
    <2>3. /\ r["method"] \in Positions \cup {Empty} /\ r["path_info"] \in Positions \cup {Empty}
          /\ r["query_string"] \in Positions \cup {Empty} /\ r["protocol"] \in Positions \cup {Empty}
          /\ r["content_type"] \in Positions \cup {Empty}
          /\ r["content_length"] \in Positions \cup {Empty}
      BY <2>2 DEF Inv, PointersIn
    <2>4. QED
      BY <2>1, <2>3
  <1>3. \A f \in DOMAIN h : h[f] \in 0 .. Last + 1
    <2>1. DOMAIN h = {"name", "name_end", "value", "value_end", "pos"}
      BY <1>1 DEF Shapes, Locals
    <2>2. /\ h["name"] \in 0 .. Last + 1 /\ h["name_end"] \in 0 .. Last + 1
          /\ h["value"] \in 0 .. Last + 1 /\ h["value_end"] \in 0 .. Last + 1
          /\ h["pos"] \in 0 .. Last + 1
      BY <1>1 DEF Inv, PointersIn, Shapes, Locals
    <2>3. QED
      BY <2>1, <2>2
  <1>4. \A i \in 1 .. Len(headers) : headers[i].name \in Positions /\ headers[i].value \in Positions
    <2> TAKE i \in 1 .. Len(headers)
    <2>1. headers[i] \in [name : Nat, value : Nat]
      BY <1>1, ElementOfSeq DEF Shapes
    <2>2. Ended(headers[i].name) /\ Ended(headers[i].value)
      BY DEF Inv, HeaderStrings
    <2>3. QED
      BY <1>1, <2>1, <2>2 DEF Ended, Positions
  <1>5. pc \in {"idle", "request_line", "headers", "error"}
    BY <1>1 DEF Inv, Shapes, LinePlace, HeaderPlace
  <1>6. QED
    BY <1>1, <1>2, <1>3, <1>4, <1>5 DEF TypeOK, Shapes

\* What the request and the parser keep is a position in the stream, whatever
\* the peer sends and however it arrives.
THEOREM TypeCorrectness == Spec => []TypeOK
  BY Invariance, InvTypeOK, PTL

\* The parsers of the request line and of the headers write only where the
\* peer has sent a separator.
THEOREM CutsSeparators == Spec => []OverwritesSeparators
  <1>1. Inv => OverwritesSeparators
    BY DEF Inv
  <1>2. QED
    BY <1>1, Invariance, PTL

\* A header line that is cut has its parts in their order, and none is empty.
THEOREM PartsInOrder == Spec => []HeaderInOrder
  <1>1. Inv => HeaderInOrder
    BY InHeaders DEF Inv, HeaderPlace, HeaderInOrder, NULL
  <1>2. QED
    BY <1>1, Invariance, PTL

\* Once the request line is complete, what wsgi_http_request_process hands out
\* are strings, also if lines have been gone over again.
THEOREM StringsAreStrings == Spec => []StringsEnd
  <1>1. Inv => StringsEnd
    BY DEF Inv, LineStrings, HeaderStrings, Passed, StringsEnd
  <1>2. QED
    BY <1>1, Invariance, PTL

-----------------------------------------------------------------------------
(* Where the parts of a request stand in its stream.                          *)

SaysByte(i, c) == i \in 1 .. Len(sent) /\ sent[i] = c

\* The stream has w at i, and c behind it.
Says(i, w, c) ==
  /\ i > 0
  /\ \A j \in i .. i + Len(w) - 1 : sent[j] = w[j - i + 1]
  /\ SaysByte(i + Len(w), c)

ValueAt(i, f) == i + Len(f.name) + 2

\* A header line from i up to next.
FieldAt(i, f, next) ==
  /\ Says(i, f.name, ":")
  /\ SaysByte(i + Len(f.name) + 1, "SP")
  /\ Says(ValueAt(i, f), f.value, "CR")
  /\ SaysByte(ValueAt(i, f) + Len(f.value) + 1, "LF")
  /\ next = ValueAt(i, f) + Len(f.value) + 2

QueryAt(q, at) ==
  \/ /\ q.query = <<>>
     /\ Says(at.path, q.path, "SP")
     /\ at.protocol = at.path + Len(q.path) + 1
  \/ /\ q.query # <<>>
     /\ Says(at.path, q.path, "?")
     /\ at.query = at.path + Len(q.path) + 1
     /\ Says(at.query, q.query, "SP")
     /\ at.protocol = at.query + Len(q.query) + 1

\* at.line[i] is where the i-th header line starts; the empty line comes last.
Layout(q, at) ==
  /\ at.path \in Nat /\ at.query \in Nat /\ at.protocol \in Nat
  /\ at.line \in [1 .. Len(q.fields) + 1 -> Nat]
  /\ Says(1, q.method, "SP")
  /\ at.path = Len(q.method) + 2
  /\ QueryAt(q, at)
  /\ Says(at.protocol, q.protocol, "CR")
  /\ SaysByte(at.protocol + Len(q.protocol) + 1, "LF")
  /\ at.line[1] = at.protocol + Len(q.protocol) + 2
  /\ \A i \in 1 .. Len(q.fields) : FieldAt(at.line[i], q.fields[i], at.line[i + 1])
  /\ SaysByte(at.line[Len(q.fields) + 1], "CR")
  /\ SaysByte(at.line[Len(q.fields) + 1] + 1, "LF")

-----------------------------------------------------------------------------
(* What has been read of a request: the inductive invariant.                  *)

\* Nothing from i on has been overwritten.
Uncut(i) == \A j \in 1 .. Last : j >= i => buffer[j] = sent[j]

\* The C string at i is w.
StringAt(i, w) ==
  /\ i > 0 /\ i + Len(w) <= Last
  /\ \A j \in i .. i + Len(w) - 1 : buffer[j] = w[j - i + 1]
  /\ buffer[i + Len(w)] = NUL

MethodRead(q) == r.method = 1 /\ StringAt(1, q.method)
PathRead(q, at) == r.path_info = at.path /\ StringAt(at.path, q.path)
QueryRead(q, at) ==
  \/ q.query = <<>> /\ r.query_string = Empty
  \/ q.query # <<>> /\ r.query_string = at.query /\ StringAt(at.query, q.query)
ProtocolRead(q, at) == r.protocol = at.protocol /\ StringAt(at.protocol, q.protocol)

\* The parser of the request line is inside the part that starts at i.
Inside(i, w) == p \in i + 1 .. i + Len(w) /\ Uncut(i)

LineOf(q, at) ==
  /\ state = "START" => p = 1 /\ Uncut(1)
  /\ state = "METHOD" => r.method = 1 /\ Inside(1, q.method)
  /\ state = "SPACE1" => MethodRead(q) /\ p = at.path /\ Uncut(p)
  /\ state = "URI" => MethodRead(q) /\ r.path_info = at.path /\ Inside(at.path, q.path)
  /\ state = "MARK" =>
       q.query # <<>> /\ MethodRead(q) /\ PathRead(q, at) /\ p = at.query /\ Uncut(p)
  /\ state = "QUERY" =>
       /\ q.query # <<>> /\ MethodRead(q) /\ PathRead(q, at)
       /\ r.query_string = at.query /\ Inside(at.query, q.query)
  /\ state = "SPACE2" =>
       MethodRead(q) /\ PathRead(q, at) /\ QueryRead(q, at) /\ p = at.protocol /\ Uncut(p)
  /\ state = "PROTOCOL" =>
       /\ MethodRead(q) /\ PathRead(q, at) /\ QueryRead(q, at)
       /\ r.protocol = at.protocol /\ Inside(at.protocol, q.protocol)
  /\ state = "END" =>
       /\ MethodRead(q) /\ PathRead(q, at) /\ QueryRead(q, at) /\ ProtocolRead(q, at)
       /\ p = at.protocol + Len(q.protocol) + 1 /\ Uncut(p)

\* The next header line, and the parser inside it.
Next1 == Len(headers) + 1
InField == {"NAME", "COLON", "SPACE", "VALUE", "END"}

\* The header line from i on: the name ends at n, the value is from v to e.
InHeader(i, n, v, e) ==
  /\ state = "START" => p = i
  /\ state \in InField => h.name = i /\ h.pos = i
  /\ state = "NAME" => p \in i + 1 .. n
  /\ state \in {"COLON", "SPACE", "VALUE", "END"} => h.name_end = n
  /\ state = "COLON" => p = n + 1
  /\ state = "SPACE" => p = v
  /\ state \in {"VALUE", "END"} => h.value = v
  /\ state = "VALUE" => p \in v + 1 .. e
  /\ state = "END" => h.value_end = e /\ p = e + 1
  /\ state = "DONE" => p = i + 1

NameEnd(i, f) == i + Len(f.name)
ValueEnd(i, f) == ValueAt(i, f) + Len(f.value)

HeaderOf(q, at) ==
  LET i == at.line[Next1]
      f == q.fields[Next1]
  IN  /\ state \in HeaderStates
      /\ InHeader(i, NameEnd(i, f), ValueAt(i, f), ValueEnd(i, f))
      /\ state \in InField => Next1 <= Len(q.fields)
      /\ state = "DONE" => Len(headers) = Len(q.fields)
      /\ h.pos = i \/ (Len(headers) > 0 /\ h.pos = at.line[Len(headers)])

FieldRead(i, f, header) ==
  /\ header.name = i /\ StringAt(i, f.name)
  /\ header.value = ValueAt(i, f) /\ StringAt(ValueAt(i, f), f.value)

\* The field of the request is the value of one of the headers that have been
\* read with this name, and NULL if there is none.
KeptOf(q, at, name, value) ==
  \/ value = NULL /\ \A i \in 1 .. Len(headers) : q.fields[i].name # name
  \/ \E i \in 1 .. Len(headers) :
       q.fields[i].name = name /\ value = ValueAt(at.line[i], q.fields[i])

HeadersRead(q, at) ==
  /\ Len(headers) <= Len(q.fields)
  /\ \A i \in 1 .. Len(headers) : FieldRead(at.line[i], q.fields[i], headers[i])
  /\ Uncut(at.line[Next1])
  /\ \A i \in 1 .. Next1 : at.line[i] <= at.line[Next1]
  /\ KeptOf(q, at, <<"T">>, r.content_type)
  /\ KeptOf(q, at, <<"L">>, r.content_length)

Reads(q, at) ==
  /\ pc # "error"
  /\ handle_read = "request_line" =>
       /\ r.content_type = NULL /\ r.content_length = NULL
       /\ LineOf(q, at)
  /\ handle_read # "request_line" =>
       /\ MethodRead(q) /\ PathRead(q, at) /\ QueryRead(q, at) /\ ProtocolRead(q, at)
       /\ HeadersRead(q, at)
  /\ handle_read = "headers" => HeaderOf(q, at)
  /\ handle_read = "headers" /\ pc = "idle" => buffer_pos = h.pos
  /\ handle_read # "process" => processed = 0 /\ (pc = "idle" => p = Last + 1)
  /\ handle_read = "process" => processed > 0 /\ Len(headers) = Len(q.fields)

\* Only up to the first read that goes over a line that has been cut.
ReadsInv == ~rewound => \A q \in Requests : \A at : Layout(q, at) => Reads(q, at)

-----------------------------------------------------------------------------
(* Strings and parts. *)

LEMMA ProperParts ==
  ASSUME NEW q \in Requests
  PROVE  /\ Part(q.method, {"SP"}) /\ Part(q.path, {"SP", "?"}) /\ Part(q.protocol, {"CR"})
         /\ q.query = <<>> \/ Part(q.query, {"SP"})
         /\ q.fields \in Seq([name : Seq(Bytes), value : Seq(Bytes)])
         /\ \A i \in 1 .. Len(q.fields) : ProperField(q.fields[i])
  BY MessagesAssumption DEF Proper

LEMMA PartLength ==
  ASSUME NEW w, NEW ends, Part(w, ends)
  PROVE  w \in Seq(Bytes) /\ Len(w) \in Nat /\ Len(w) > 0
  BY EmptySeq DEF Part

\* The byte the parser looks at has not been overwritten.
LEMMA ReadByte ==
  ASSUME Shapes, NEW i \in Nat, Uncut(i), p <= Last, i <= p
  PROVE  Byte = sent[p] /\ p \in 1 .. Last /\ Last \in Nat
  BY LenProperties DEF Shapes, Uncut, Byte, Last

\* The parser recognises the end of the part it is inside.
LEMMA InPart ==
  ASSUME Shapes, NEW w, NEW ends, Part(w, ends), NEW c \in ends, NEW i \in Nat,
         Says(i, w, c), Inside(i, w), p <= Last
  PROVE  /\ p \in i + 1 .. i + Len(w) /\ Byte = sent[p] /\ p \in 1 .. Last
         /\ p < i + Len(w) => Byte \notin ends
         /\ p = i + Len(w) => Byte = c
  <1>1. Len(w) \in Nat /\ p \in i + 1 .. i + Len(w) /\ Uncut(i)
    BY PartLength DEF Inside
  <1>2. Byte = sent[p] /\ p \in 1 .. Last
    BY <1>1, ReadByte
  <1>3. p < i + Len(w) => Byte \notin ends
    <2> SUFFICES ASSUME p < i + Len(w) PROVE Byte \notin ends
      OBVIOUS
    <2>1. p \in i .. i + Len(w) - 1 /\ p - i + 1 \in 2 .. Len(w)
      BY <1>1
    <2>2. sent[p] = w[p - i + 1]
      BY <2>1 DEF Says
    <2>3. QED
      BY <1>2, <2>1, <2>2 DEF Part
  <1>4. p = i + Len(w) => Byte = c
    BY <1>2 DEF Says, SaysByte
  <1>5. QED
    BY <1>1, <1>2, <1>3, <1>4

\* A string stays one while nobody writes to it.
LEMMA StringStays ==
  ASSUME NEW i \in Nat, NEW w \in Seq(Bytes), StringAt(i, w), Last \in Nat, Last' \in Nat,
         Last <= Last', \A e \in 1 .. Last : e <= i + Len(w) => buffer'[e] = buffer[e]
  PROVE  StringAt(i, w)'
  <1>1. Len(w) \in Nat /\ i > 0 /\ i + Len(w) <= Last
    BY LenProperties DEF StringAt
  <1>2. buffer'[i + Len(w)] = NUL
    BY <1>1 DEF StringAt
  <1>3. \A j \in i .. i + Len(w) - 1 : buffer'[j] = w[j - i + 1]
    BY <1>1 DEF StringAt
  <1>4. QED
    BY <1>1, <1>2, <1>3 DEF StringAt

\* The cut behind a part makes it a string.
LEMMA StringCut ==
  ASSUME NEW i \in Nat, NEW w \in Seq(Bytes), NEW c, Says(i, w, c), Uncut(i), Last \in Nat,
         i + Len(w) <= Last, Last' = Last,
         \A e \in 1 .. Last : buffer'[e] = IF e = i + Len(w) THEN NUL ELSE buffer[e]
  PROVE  StringAt(i, w)'
  <1>1. Len(w) \in Nat /\ i > 0
    BY LenProperties DEF Says
  <1>2. buffer'[i + Len(w)] = NUL
    BY <1>1
  <1>3. \A j \in i .. i + Len(w) - 1 : buffer'[j] = w[j - i + 1]
    <2> TAKE j \in i .. i + Len(w) - 1
    <2>1. j \in 1 .. Last /\ j >= i /\ j # i + Len(w)
      BY <1>1
    <2>2. buffer'[j] = sent[j]
      BY <2>1 DEF Uncut
    <2>3. QED
      BY <2>2 DEF Says
  <1>4. QED
    BY <1>1, <1>2, <1>3 DEF StringAt

\* What a string reads as.
LEMMA StringIs ==
  ASSUME Shapes, NEW i \in Nat, NEW w \in Seq(Bytes), StringAt(i, w)
  PROVE  CString(i) = w
  <1> DEFINE stop(e) == buffer[e] = NUL /\ \A j \in i .. e - 1 : buffer[j] # NUL
  <1>1. /\ Len(w) \in Nat /\ Last \in Nat /\ i > 0 /\ i + Len(w) <= Last /\ buffer \in Seq(Any)
        /\ buffer[i + Len(w)] = NUL
    BY LenProperties DEF Shapes, Last, StringAt
  <1>2. \A j \in i .. i + Len(w) - 1 : buffer[j] = w[j - i + 1] /\ buffer[j] # NUL
    <2> TAKE j \in i .. i + Len(w) - 1
    <2>1. j - i + 1 \in 1 .. Len(w)
      BY <1>1
    <2>2. w[j - i + 1] \in Bytes
      BY <2>1, ElementOfSeq
    <2>3. QED
      BY <2>2 DEF StringAt, Bytes, NUL
  <1>3. PICK end : end = CHOOSE e \in i .. Last : stop(e)
    OBVIOUS
  <1>4. CString(i) = SubSeq(buffer, i, end - 1)
    BY <1>3 DEF CString
  <1>5. i + Len(w) \in i .. Last /\ stop(i + Len(w))
    <2>1. i + Len(w) \in i .. Last
      BY <1>1
    <2>2. buffer[i + Len(w)] = NUL
      BY <1>1
    <2>3. \A j \in i .. (i + Len(w)) - 1 : buffer[j] # NUL
      BY <1>2
    <2>4. stop(i + Len(w))
      BY <2>2, <2>3
    <2>5. QED
      BY <2>1, <2>4
  <1>6. end \in i .. Last /\ stop(end)
    BY <1>3, <1>5
  <1>7. end = i + Len(w)
    <2>1. CASE end < i + Len(w)
      BY <1>1, <1>2, <1>6, <2>1
    <2>2. CASE end > i + Len(w)
      BY <1>1, <1>6, <2>2
    <2>3. QED
      BY <1>1, <1>6, <2>1, <2>2
  <1>8. CString(i) = SubSeq(buffer, i, i + Len(w) - 1)
    BY <1>4, <1>7
  <1>9. PICK s : s = SubSeq(buffer, i, i + Len(w) - 1)
    OBVIOUS
  <1>10. /\ s \in Seq(Any) /\ Len(s) = Len(w)
         /\ \A k \in 1 .. Len(w) : s[k] = buffer[i + k - 1]
    <2>1. i \in 1 .. Len(buffer) + 1 /\ i + Len(w) - 1 \in i - 1 .. Len(buffer)
      BY <1>1 DEF Last
    <2>2. /\ s \in Seq(Any)
          /\ Len(s) = IF i <= i + Len(w) - 1 THEN (i + Len(w) - 1) - i + 1 ELSE 0
          /\ \A k \in 1 .. (i + Len(w) - 1) - i + 1 : s[k] = buffer[i + k - 1]
      BY <1>1, <1>9, <2>1, SubSeqProperties
    <2>3. (i + Len(w) - 1) - i + 1 = Len(w) /\ (~(i <= i + Len(w) - 1) => Len(w) = 0)
      BY <1>1
    <2>4. QED
      BY <2>2, <2>3
  <1>11. \A k \in 1 .. Len(w) : s[k] = w[k]
    <2> TAKE k \in 1 .. Len(w)
    <2>1. i + k - 1 \in i .. i + Len(w) - 1 /\ (i + k - 1) - i + 1 = k
      BY <1>1
    <2>2. QED
      BY <1>2, <1>10, <2>1
  <1>12. s = w
    <2>1. w \in Seq(Any)
      BY SeqMonotonic DEF Any
    <2>2. QED
      BY <1>10, <1>11, <2>1, SeqEqual
  <1>13. QED
    BY <1>8, <1>9, <1>12

-----------------------------------------------------------------------------
(* Inside a part.                                                             *)

CutAt(i) ==
  /\ Last' = Last
  /\ \A e \in 1 .. Last : buffer'[e] = IF e = i THEN NUL ELSE buffer[e]

LEMMA TerminateCuts ==
  ASSUME Shapes, NEW i \in 1 .. Last, Terminate(i)
  PROVE  CutAt(i)
  <1>1. NUL \in Any /\ buffer \in Seq(Any) /\ i \in 1 .. Len(buffer)
    BY DEF Any, Shapes, Last
  <1>2. PICK b : b = [buffer EXCEPT ![i] = NUL]
    OBVIOUS
  <1>3. Len(b) = Len(buffer) /\ \A e \in 1 .. Len(buffer) : b[e] = IF e = i THEN NUL ELSE buffer[e]
    BY <1>1, <1>2, ExceptSeq
  <1>4. buffer' = b
    BY <1>2 DEF Terminate
  <1>5. QED
    BY <1>3, <1>4 DEF CutAt, Last

\* The first byte of a part is taken without being looked at.
LEMMA PartBegins ==
  ASSUME NEW w, NEW ends, Part(w, ends), NEW i \in Nat, p = i, Uncut(i), Last \in Nat,
         UNCHANGED <<sent, buffer>>, p' = p + 1
  PROVE  Inside(i, w)'
  <1>1. Len(w) \in Nat /\ Len(w) > 0
    BY PartLength
  <1>2. p' \in i + 1 .. i + Len(w)
    BY <1>1
  <1>3. QED
    BY <1>2 DEF Inside, Uncut, Last

LEMMA PartGoes ==
  ASSUME Shapes, NEW w, NEW ends, Part(w, ends), NEW c \in ends, NEW i \in Nat,
         Says(i, w, c), Inside(i, w), p <= Last, Byte \notin ends,
         UNCHANGED <<sent, buffer>>, p' = p + 1
  PROVE  Inside(i, w)'
  <1>1. Len(w) \in Nat /\ Len(w) > 0
    BY PartLength
  <1>2. p \in i + 1 .. i + Len(w) /\ p # i + Len(w)
    BY InPart
  <1>3. p' \in i + 1 .. i + Len(w)
    BY <1>1, <1>2
  <1>4. QED
    BY <1>3 DEF Inside, Uncut, Last

\* A part is cut where it ends and nowhere else.
LEMMA PartEnds ==
  ASSUME Shapes, NEW w, NEW ends, Part(w, ends), NEW c \in ends, NEW i \in Nat,
         Says(i, w, c), Inside(i, w), p <= Last, Byte \in ends,
         sent' = sent, p' = p + 1
  PROVE  /\ Byte = c /\ p = i + Len(w) /\ p \in 1 .. Last
         /\ CutAt(p) => StringAt(i, w)' /\ Uncut(p)'
  <1>1. w \in Seq(Bytes) /\ Len(w) \in Nat /\ Len(w) > 0 /\ Uncut(i)
    BY PartLength DEF Inside
  <1>2. p \in i + 1 .. i + Len(w) /\ p \in 1 .. Last /\ p = i + Len(w) /\ Byte = c
    BY <1>1, InPart
  <1>3. Last \in Nat
    BY LenProperties DEF Shapes, Last
  <1>4. ASSUME CutAt(p) PROVE StringAt(i, w)' /\ Uncut(p)'
    <2>1. StringAt(i, w)'
      BY <1>1, <1>2, <1>3, <1>4, StringCut DEF CutAt
    <2>2. \A j \in 1 .. Last : j >= p + 1 => buffer'[j] = sent[j]
      BY <1>1, <1>2, <1>3, <1>4 DEF CutAt, Uncut
    <2>3. Uncut(p)'
      BY <1>4, <2>2 DEF CutAt, Uncut
    <2>4. QED
      BY <2>1, <2>3
  <1>5. QED
    BY <1>2, <1>4


-----------------------------------------------------------------------------
(* The parts that have been read stay as they are.                            *)

\* Nothing changes in front of i.
Before(i) ==
  /\ Last' \in Nat /\ Last <= Last'
  /\ \A e \in 1 .. Last : e < i => buffer'[e] = buffer[e]

LEMMA StringBefore ==
  ASSUME Shapes, NEW k \in Nat, Before(k), NEW i \in Nat, NEW w \in Seq(Bytes),
         StringAt(i, w), i + Len(w) < k
  PROVE  StringAt(i, w)'
  <1>1. Last \in Nat /\ Len(w) \in Nat
    BY LenProperties DEF Shapes, Last
  <1>2. \A e \in 1 .. Last : e <= i + Len(w) => buffer'[e] = buffer[e]
    BY <1>1 DEF Before
  <1>3. QED
    BY <1>1, <1>2, StringStays DEF Before

\* Where the parts are.
LEMMA Places ==
  ASSUME NEW q \in Requests, NEW at, Layout(q, at)
  PROVE  /\ at.path \in Nat /\ at.query \in Nat /\ at.protocol \in Nat
         /\ \A i \in 1 .. Len(q.fields) + 1 : at.line[i] \in Nat
         /\ Len(q.fields) \in Nat
         /\ at.line[1] \in Nat
         /\ q.method \in Seq(Bytes) /\ q.path \in Seq(Bytes) /\ q.protocol \in Seq(Bytes)
         /\ q.query \in Seq(Bytes)
         /\ Len(q.method) \in Nat /\ Len(q.path) \in Nat /\ Len(q.protocol) \in Nat
         /\ Len(q.query) \in Nat
         /\ at.path = 1 + Len(q.method) + 1
         /\ at.path + Len(q.path) < at.protocol
         /\ q.query = <<>> => Says(at.path, q.path, "SP") /\ at.protocol = at.path + Len(q.path) + 1
         /\ q.query # <<>> =>
              /\ Part(q.query, {"SP"})
              /\ Says(at.path, q.path, "?") /\ at.query = at.path + Len(q.path) + 1
              /\ Says(at.query, q.query, "SP") /\ at.protocol = at.query + Len(q.query) + 1
         /\ at.line[1] = at.protocol + Len(q.protocol) + 2
         /\ Says(1, q.method, "SP")
         /\ Says(at.protocol, q.protocol, "CR")
         /\ Part(q.method, {"SP"}) /\ Part(q.path, {"SP", "?"}) /\ Part(q.protocol, {"CR"})
  <1>1. /\ Part(q.method, {"SP"}) /\ Part(q.path, {"SP", "?"}) /\ Part(q.protocol, {"CR"})
        /\ q.query = <<>> \/ Part(q.query, {"SP"})
        /\ q.fields \in Seq([name : Seq(Bytes), value : Seq(Bytes)])
    BY ProperParts
  <1>2. /\ q.method \in Seq(Bytes) /\ q.path \in Seq(Bytes) /\ q.protocol \in Seq(Bytes)
        /\ q.query \in Seq(Bytes)
    BY <1>1, EmptySeq DEF Part
  <1>3. /\ Len(q.method) \in Nat /\ Len(q.path) \in Nat /\ Len(q.protocol) \in Nat
        /\ Len(q.query) \in Nat /\ Len(q.fields) \in Nat
    BY <1>1, <1>2, LenProperties
  <1>4. /\ at.path \in Nat /\ at.query \in Nat /\ at.protocol \in Nat
        /\ at.line \in [1 .. Len(q.fields) + 1 -> Nat]
        /\ at.line[1] = at.protocol + Len(q.protocol) + 2
        /\ Says(1, q.method, "SP") /\ Says(at.protocol, q.protocol, "CR")
        /\ at.path = Len(q.method) + 2
    BY DEF Layout
  <1>5. /\ q.query = <<>> => Says(at.path, q.path, "SP") /\ at.protocol = at.path + Len(q.path) + 1
        /\ q.query # <<>> =>
              /\ Says(at.path, q.path, "?") /\ at.query = at.path + Len(q.path) + 1
              /\ Says(at.query, q.query, "SP") /\ at.protocol = at.query + Len(q.query) + 1
    BY DEF Layout, QueryAt
  <1>6. at.path + Len(q.path) < at.protocol
    <2>1. CASE q.query = <<>>
      <3>1. at.protocol = at.path + Len(q.path) + 1
        BY <1>5, <2>1
      <3>2. \A x, y \in Nat : x + y < x + y + 1
        OBVIOUS
      <3>3. QED
        BY <1>3, <1>4, <3>1, <3>2
    <2>2. CASE q.query # <<>>
      <3>1. at.query = at.path + Len(q.path) + 1 /\ at.protocol = at.query + Len(q.query) + 1
        BY <1>5, <2>2
      <3>2. \A x, y, z \in Nat : x + y < x + y + 1 + z + 1
        OBVIOUS
      <3>3. at.path + Len(q.path) < at.path + Len(q.path) + 1 + Len(q.query) + 1
        BY <1>3, <1>4, <3>2
      <3>4. QED
        BY <3>1, <3>3
    <2>3. QED
      BY <2>1, <2>2
  <1>7. at.path = 1 + Len(q.method) + 1
    <2>1. \A x \in Nat : x + 2 = 1 + x + 1
      OBVIOUS
    <2>2. QED
      BY <1>3, <1>4, <2>1
  <1>8. 1 \in 1 .. Len(q.fields) + 1
    BY <1>3
  <1>9. QED
    BY <1>1, <1>2, <1>3, <1>4, <1>5, <1>6, <1>7, <1>8

LEMMA MethodStays ==
  ASSUME Shapes, NEW q \in Requests, NEW at, Layout(q, at), NEW k \in Nat, Before(k),
         MethodRead(q), r'.method = r.method, at.path <= k
  PROVE  MethodRead(q)'
  <1>1. StringAt(1, q.method) /\ r.method = 1
    BY DEF MethodRead
  <1>2. q.method \in Seq(Bytes) /\ Len(q.method) \in Nat /\ at.path = 1 + Len(q.method) + 1
    BY Places
  <1>3. \A x \in Nat : 1 + x + 1 <= k => 1 + x < k
    OBVIOUS
  <1>4. 1 + Len(q.method) < k
    BY <1>2, <1>3
  <1>5. StringAt(1, q.method)'
    BY <1>1, <1>2, <1>4, StringBefore
  <1>6. QED
    BY <1>1, <1>5 DEF MethodRead

LEMMA PathStays ==
  ASSUME Shapes, NEW q \in Requests, NEW at, Layout(q, at), NEW k \in Nat, Before(k),
         PathRead(q, at), r'.path_info = r.path_info, at.path + Len(q.path) < k
  PROVE  PathRead(q, at)'
  <1>1. StringAt(at.path, q.path) /\ r.path_info = at.path
    BY DEF PathRead
  <1>2. at.path \in Nat /\ q.path \in Seq(Bytes)
    BY Places
  <1>3. StringAt(at.path, q.path)'
    BY <1>1, <1>2, StringBefore
  <1>4. QED
    BY <1>1, <1>3 DEF PathRead

LEMMA QueryStays ==
  ASSUME Shapes, NEW q \in Requests, NEW at, Layout(q, at), NEW k \in Nat, Before(k),
         QueryRead(q, at), r'.query_string = r.query_string, at.protocol <= k
  PROVE  QueryRead(q, at)'
  <1>1. CASE q.query = <<>>
    BY <1>1 DEF QueryRead
  <1>2. CASE q.query # <<>>
    <2>1. StringAt(at.query, q.query) /\ r.query_string = at.query
      BY <1>2 DEF QueryRead
    <2>2. /\ at.query \in Nat /\ at.protocol \in Nat /\ Len(q.query) \in Nat
          /\ q.query \in Seq(Bytes) /\ at.protocol = at.query + Len(q.query) + 1
      BY <1>2, Places
    <2>3. at.query + Len(q.query) < k
      BY <2>2
    <2>4. StringAt(at.query, q.query)'
      BY <2>1, <2>2, <2>3, StringBefore
    <2>5. QED
      BY <1>2, <2>1, <2>4 DEF QueryRead
  <1>3. QED
    BY <1>1, <1>2

LEMMA ProtocolStays ==
  ASSUME Shapes, NEW q \in Requests, NEW at, Layout(q, at), NEW k \in Nat, Before(k),
         ProtocolRead(q, at), r'.protocol = r.protocol, at.protocol + Len(q.protocol) < k
  PROVE  ProtocolRead(q, at)'
  <1>1. StringAt(at.protocol, q.protocol) /\ r.protocol = at.protocol
    BY DEF ProtocolRead
  <1>2. at.protocol \in Nat /\ q.protocol \in Seq(Bytes)
    BY Places
  <1>3. StringAt(at.protocol, q.protocol)'
    BY <1>1, <1>2, StringBefore
  <1>4. QED
    BY <1>1, <1>3 DEF ProtocolRead

-----------------------------------------------------------------------------
(* The request line of a request.                                             *)

LEMMA NotBelow == \A x \in Nat : x <= x
  OBVIOUS

LEMMA InsideIsAbove == \A x, y, k \in Nat : k \in x + 1 .. x + y => x <= k
  OBVIOUS

LEMMA BehindIsAbove == \A x, y, k \in Nat : k > x + y => x <= k
  OBVIOUS

LEMMA BehindTheNext == \A x, y, z, k \in Nat : x + y < z /\ k >= z => k > x + y
  OBVIOUS

LEMMA LineByteReads ==
  ASSUME Inv, NEW q \in Requests, NEW at, Layout(q, at), Reads(q, at), LineByte
  PROVE  Reads(q, at)'
  <1>1. /\ pc = "request_line" /\ p <= Last
        /\ UNCHANGED <<sent, buffer_pos, handle_read, headers, line_state, pc, h, processed, rewound>>
    BY DEF LineByte
  <1>2. handle_read = "request_line" /\ Shapes
    BY <1>1, InLine DEF Inv
  <1>3. p \in Nat \ {0} /\ p \in 1 .. Last /\ Last \in Nat /\ r \in Pointers
    <2>1. Last \in Nat /\ p \in 1 .. Last + 1
      BY <1>2, LenProperties DEF Shapes, Last
    <2>2. QED
      BY <1>1, <1>2, <2>1 DEF Shapes
  <1>4. /\ LineOf(q, at) /\ processed = 0
        /\ r.content_type = NULL /\ r.content_length = NULL
    BY <1>2 DEF Reads
  <1>5. ASSUME LineOf(q, at)',
               r'.content_type = r.content_type, r'.content_length = r.content_length
        PROVE  Reads(q, at)'
    BY <1>1, <1>2, <1>4, <1>5 DEF Reads
  <1>6. /\ at.path \in Nat /\ at.query \in Nat /\ at.protocol \in Nat /\ at.path = 1 + Len(q.method) + 1
        /\ Len(q.method) \in Nat /\ Len(q.path) \in Nat /\ Len(q.protocol) \in Nat
        /\ Len(q.query) \in Nat /\ at.path + Len(q.path) < at.protocol
        /\ Says(1, q.method, "SP") /\ Says(at.protocol, q.protocol, "CR")
        /\ Part(q.method, {"SP"}) /\ Part(q.path, {"SP", "?"}) /\ Part(q.protocol, {"CR"})
    BY Places
  <1>7. q.query = <<>> => Says(at.path, q.path, "SP") /\ at.protocol = at.path + Len(q.path) + 1
    BY Places
  <1>8. q.query # <<>> =>
          /\ Part(q.query, {"SP"})
          /\ Says(at.path, q.path, "?") /\ at.query = at.path + Len(q.path) + 1
          /\ Says(at.query, q.query, "SP") /\ at.protocol = at.query + Len(q.query) + 1
    BY Places
  <1>9. ASSUME NEW from, NEW to, NEW field \in {"method", "path_info", "query_string", "protocol"},
               Begins(from, field, to)
        PROVE  /\ state = from /\ r' = [r EXCEPT ![field] = p] /\ state' = to /\ p' = p + 1
               /\ UNCHANGED <<sent, buffer>> /\ \A k \in Nat : Before(k)
    BY <1>1, <1>3, <1>9 DEF Begins, Advance, Before, Last
  <1>10. ASSUME NEW from, NEW ends, Goes(from, ends)
         PROVE  /\ state = from /\ r' = r /\ state' = from /\ p' = p + 1 /\ Byte \notin ends
                /\ UNCHANGED <<sent, buffer>> /\ \A k \in Nat : Before(k)
    BY <1>1, <1>3, <1>10 DEF Goes, Advance, Before, Last
  <1>11. ASSUME Terminate(p)
         PROVE  CutAt(p) /\ Before(p)
    <2>1. CutAt(p)
      BY <1>2, <1>3, <1>11, TerminateCuts
    <2>2. QED
      BY <1>3, <2>1 DEF CutAt, Before
  <1>12. ASSUME NEW from, NEW byte, NEW to, Ends(from, byte, to)
         PROVE  /\ state = from /\ r' = r /\ state' = to /\ p' = p + 1 /\ Byte = byte
                /\ CutAt(p) /\ Before(p) /\ sent' = sent
    BY <1>1, <1>11, <1>12 DEF Ends, Advance
  <1>13. CASE Begins("START", "method", "METHOD")
    <2>1. /\ state = "START" /\ r' = [r EXCEPT !.method = p] /\ state' = "METHOD" /\ p' = p + 1
          /\ UNCHANGED <<sent, buffer>>
      BY <1>9, <1>13
    <2>2. p = 1 /\ Uncut(1)
      BY <1>4, <2>1 DEF LineOf
    <2>3. Inside(1, q.method)'
      BY <1>3, <1>6, <2>1, <2>2, PartBegins
    <2>4. /\ r'.method = 1
          /\ r'.content_type = r.content_type /\ r'.content_length = r.content_length
      BY <1>3, <2>1, <2>2 DEF Pointers
    <2>5. LineOf(q, at)'
      BY <2>1, <2>3, <2>4 DEF LineOf
    <2>6. QED
      BY <1>5, <2>4, <2>5
  <1>14. CASE Ends("METHOD", "SP", "SPACE1")
    <2>1. /\ state = "METHOD" /\ r' = r /\ state' = "SPACE1" /\ p' = p + 1 /\ Byte = "SP"
          /\ CutAt(p) /\ sent' = sent
      BY <1>12, <1>14
    <2>2. r.method = 1 /\ Inside(1, q.method)
      BY <1>4, <2>1 DEF LineOf
    <2>3. p = 1 + Len(q.method) /\ StringAt(1, q.method)' /\ Uncut(p)'
      BY <1>1, <1>2, <1>6, <2>1, <2>2, PartEnds
    <2>4. MethodRead(q)'
      BY <2>1, <2>2, <2>3 DEF MethodRead
    <2>5. p' = at.path
      BY <1>6, <2>1, <2>3
    <2>6. LineOf(q, at)'
      BY <2>1, <2>3, <2>4, <2>5 DEF LineOf
    <2>7. QED
      BY <1>5, <2>1, <2>6
  <1>15. CASE Goes("METHOD", {"SP"})
    <2>1. /\ state = "METHOD" /\ r' = r /\ state' = "METHOD" /\ p' = p + 1 /\ Byte \notin {"SP"}
          /\ UNCHANGED <<sent, buffer>>
      BY <1>10, <1>15
    <2>2. r.method = 1 /\ Inside(1, q.method)
      BY <1>4, <2>1 DEF LineOf
    <2>3. Inside(1, q.method)'
      BY <1>1, <1>2, <1>6, <2>1, <2>2, PartGoes
    <2>4. LineOf(q, at)'
      BY <2>1, <2>2, <2>3 DEF LineOf
    <2>5. QED
      BY <1>5, <2>1, <2>4
  <1>16. CASE Begins("SPACE1", "path_info", "URI")
    <2>1. /\ state = "SPACE1" /\ r' = [r EXCEPT !.path_info = p] /\ state' = "URI" /\ p' = p + 1
          /\ UNCHANGED <<sent, buffer>> /\ \A k \in Nat : Before(k)
      BY <1>9, <1>16
    <2>2. MethodRead(q) /\ p = at.path /\ Uncut(p)
      BY <1>4, <2>1 DEF LineOf
    <2>3. Inside(at.path, q.path)'
      BY <1>3, <1>6, <2>1, <2>2, PartBegins
    <2>4. /\ r'.path_info = at.path /\ r'.method = r.method
          /\ r'.content_type = r.content_type /\ r'.content_length = r.content_length
      BY <1>3, <2>1, <2>2 DEF Pointers
    <2>5. MethodRead(q)'
      BY <1>2, <1>6, <2>1, <2>2, <2>4, MethodStays, NotBelow
    <2>6. LineOf(q, at)'
      BY <2>1, <2>3, <2>4, <2>5 DEF LineOf
    <2>7. QED
      BY <1>5, <2>4, <2>6
  <1>17. ASSUME state = "URI"
         PROVE  /\ MethodRead(q) /\ r.path_info = at.path /\ Inside(at.path, q.path)
                /\ p >= at.path
    <2>1. MethodRead(q) /\ r.path_info = at.path /\ Inside(at.path, q.path)
      BY <1>4, <1>17 DEF LineOf
    <2>2. p \in at.path + 1 .. at.path + Len(q.path)
      BY <2>1 DEF Inside
    <2>3. at.path <= p
      BY <1>3, <1>6, <2>2, InsideIsAbove
    <2>4. QED
      BY <1>3, <1>6, <2>1, <2>3
  <1>18. ASSUME state = "URI", Byte \in {"SP", "?"}, CutAt(p), Before(p), p' = p + 1,
                r'.method = r.method, r'.path_info = r.path_info
         PROVE  /\ MethodRead(q)' /\ PathRead(q, at)' /\ Uncut(p)' /\ p = at.path + Len(q.path)
                /\ Byte = "?" <=> q.query # <<>>
    <2>1. MethodRead(q)'
      BY <1>2, <1>3, <1>17, <1>18, MethodStays
    <2>2. PICK c \in {"SP", "?"} : Says(at.path, q.path, c) /\ (c = "?" <=> q.query # <<>>)
      BY <1>7, <1>8
    <2>3. Byte = c /\ p = at.path + Len(q.path) /\ StringAt(at.path, q.path)' /\ Uncut(p)'
      BY <1>1, <1>2, <1>6, <1>17, <1>18, <2>2, PartEnds
    <2>4. PathRead(q, at)'
      BY <1>17, <1>18, <2>3 DEF PathRead
    <2>5. QED
      BY <2>1, <2>2, <2>3, <2>4
  <1>19. CASE Ends("URI", "?", "MARK")
    <2>1. /\ state = "URI" /\ r' = r /\ state' = "MARK" /\ p' = p + 1 /\ Byte = "?"
          /\ CutAt(p) /\ Before(p)
      BY <1>12, <1>19
    <2>2. /\ MethodRead(q)' /\ PathRead(q, at)' /\ Uncut(p)' /\ p = at.path + Len(q.path)
          /\ q.query # <<>>
      BY <1>18, <2>1
    <2>3. p' = at.query
      BY <1>8, <2>1, <2>2
    <2>4. LineOf(q, at)'
      BY <2>1, <2>2, <2>3 DEF LineOf
    <2>5. QED
      BY <1>5, <2>1, <2>4
  <1>20. CASE Goes("URI", {"?", "SP"})
    <2>1. /\ state = "URI" /\ r' = r /\ state' = "URI" /\ p' = p + 1 /\ Byte \notin {"?", "SP"}
          /\ UNCHANGED <<sent, buffer>> /\ \A k \in Nat : Before(k)
      BY <1>10, <1>20
    <2>2. PICK c \in {"SP", "?"} : Says(at.path, q.path, c)
      BY <1>7, <1>8
    <2>3. Inside(at.path, q.path)'
      BY <1>1, <1>2, <1>6, <1>17, <2>1, <2>2, PartGoes
    <2>4. MethodRead(q)'
      BY <1>2, <1>6, <1>17, <2>1, MethodStays, NotBelow
    <2>5. LineOf(q, at)'
      BY <1>17, <2>1, <2>3, <2>4 DEF LineOf
    <2>6. QED
      BY <1>5, <2>1, <2>5
  <1>21. CASE /\ state = "URI" /\ Byte = "SP" /\ r' = [r EXCEPT !.query_string = Empty]
              /\ Terminate(p) /\ Advance("SPACE2")
    <2>1. state' = "SPACE2" /\ p' = p + 1 /\ CutAt(p) /\ Before(p)
      BY <1>11, <1>21 DEF Advance
    <2>2. /\ r'.method = r.method /\ r'.path_info = r.path_info /\ r'.query_string = Empty
          /\ r'.content_type = r.content_type /\ r'.content_length = r.content_length
      BY <1>3, <1>21 DEF Pointers
    <2>3. /\ MethodRead(q)' /\ PathRead(q, at)' /\ Uncut(p)' /\ p = at.path + Len(q.path)
          /\ q.query = <<>>
      BY <1>18, <1>21, <2>1, <2>2
    <2>4. p' = at.protocol /\ QueryRead(q, at)'
      BY <1>7, <2>1, <2>2, <2>3 DEF QueryRead
    <2>5. LineOf(q, at)'
      BY <2>1, <2>3, <2>4 DEF LineOf
    <2>6. QED
      BY <1>5, <2>2, <2>5
  <1>22. ASSUME PathRead(q, at), MethodRead(q), NEW k \in Nat, k > at.path + Len(q.path), Before(k),
                r'.method = r.method, r'.path_info = r.path_info
         PROVE  MethodRead(q)' /\ PathRead(q, at)'
    <2>1. at.path <= k
      BY <1>6, <1>22, BehindIsAbove
    <2>2. QED
      BY <1>2, <1>22, <2>1, MethodStays, PathStays
  <1>23. CASE Begins("MARK", "query_string", "QUERY")
    <2>1. /\ state = "MARK" /\ r' = [r EXCEPT !.query_string = p] /\ state' = "QUERY" /\ p' = p + 1
          /\ UNCHANGED <<sent, buffer>> /\ \A k \in Nat : Before(k)
      BY <1>9, <1>23
    <2>2. q.query # <<>> /\ MethodRead(q) /\ PathRead(q, at) /\ p = at.query /\ Uncut(p)
      BY <1>4, <2>1 DEF LineOf
    <2>3. Inside(at.query, q.query)'
      BY <1>3, <1>6, <1>8, <2>1, <2>2, PartBegins
    <2>4. /\ r'.query_string = at.query /\ r'.method = r.method /\ r'.path_info = r.path_info
          /\ r'.content_type = r.content_type /\ r'.content_length = r.content_length
      BY <1>3, <2>1, <2>2 DEF Pointers
    <2>5. MethodRead(q)' /\ PathRead(q, at)'
      BY <1>6, <1>22, <2>1, <2>2, <2>4
    <2>6. LineOf(q, at)'
      BY <2>1, <2>2, <2>3, <2>4, <2>5 DEF LineOf
    <2>7. QED
      BY <1>5, <2>4, <2>6
  <1>24. ASSUME state = "QUERY"
         PROVE  /\ q.query # <<>> /\ MethodRead(q) /\ PathRead(q, at) /\ r.query_string = at.query
                /\ Inside(at.query, q.query) /\ p > at.path + Len(q.path)
    <2>1. /\ q.query # <<>> /\ MethodRead(q) /\ PathRead(q, at) /\ r.query_string = at.query
          /\ Inside(at.query, q.query)
      BY <1>4, <1>24 DEF LineOf
    <2>2. at.query = at.path + Len(q.path) + 1 /\ p \in at.query + 1 .. at.query + Len(q.query)
      BY <1>8, <2>1 DEF Inside
    <2>3. at.query <= p
      BY <1>3, <1>6, <2>2, InsideIsAbove
    <2>4. \A x, y, k \in Nat : x + y + 1 <= k => k > x + y
      OBVIOUS
    <2>5. p > at.path + Len(q.path)
      BY <1>3, <1>6, <2>2, <2>3, <2>4
    <2>6. QED
      BY <2>1, <2>5
  <1>25. CASE Ends("QUERY", "SP", "SPACE2")
    <2>1. /\ state = "QUERY" /\ r' = r /\ state' = "SPACE2" /\ p' = p + 1 /\ Byte = "SP"
          /\ CutAt(p) /\ Before(p) /\ sent' = sent
      BY <1>12, <1>25
    <2>2. p = at.query + Len(q.query) /\ StringAt(at.query, q.query)' /\ Uncut(p)'
      BY <1>1, <1>2, <1>6, <1>8, <1>24, <2>1, PartEnds
    <2>3. MethodRead(q)' /\ PathRead(q, at)'
      BY <1>3, <1>22, <1>24, <2>1
    <2>4. p' = at.protocol /\ QueryRead(q, at)'
      BY <1>8, <1>24, <2>1, <2>2 DEF QueryRead
    <2>5. LineOf(q, at)'
      BY <2>1, <2>2, <2>3, <2>4 DEF LineOf
    <2>6. QED
      BY <1>5, <2>1, <2>5
  <1>26. CASE Goes("QUERY", {"SP"})
    <2>1. /\ state = "QUERY" /\ r' = r /\ state' = "QUERY" /\ p' = p + 1 /\ Byte \notin {"SP"}
          /\ UNCHANGED <<sent, buffer>> /\ \A k \in Nat : Before(k)
      BY <1>10, <1>26
    <2>2. Inside(at.query, q.query)'
      BY <1>1, <1>2, <1>6, <1>8, <1>24, <2>1, PartGoes
    <2>3. MethodRead(q)' /\ PathRead(q, at)'
      BY <1>3, <1>22, <1>24, <2>1
    <2>4. LineOf(q, at)'
      BY <1>24, <2>1, <2>2, <2>3 DEF LineOf
    <2>5. QED
      BY <1>5, <2>1, <2>4
  <1>27. ASSUME MethodRead(q), PathRead(q, at), QueryRead(q, at), NEW k \in Nat, k >= at.protocol,
                Before(k),
                r'.method = r.method, r'.path_info = r.path_info, r'.query_string = r.query_string
         PROVE  MethodRead(q)' /\ PathRead(q, at)' /\ QueryRead(q, at)'
    <2>1. k > at.path + Len(q.path)
      BY <1>6, <1>27, BehindTheNext
    <2>2. QED
      BY <1>2, <1>22, <1>27, <2>1, QueryStays
  <1>28. CASE Begins("SPACE2", "protocol", "PROTOCOL")
    <2>1. /\ state = "SPACE2" /\ r' = [r EXCEPT !.protocol = p] /\ state' = "PROTOCOL" /\ p' = p + 1
          /\ UNCHANGED <<sent, buffer>> /\ \A k \in Nat : Before(k)
      BY <1>9, <1>28
    <2>2. MethodRead(q) /\ PathRead(q, at) /\ QueryRead(q, at) /\ p = at.protocol /\ Uncut(p)
      BY <1>4, <2>1 DEF LineOf
    <2>3. Inside(at.protocol, q.protocol)'
      BY <1>3, <1>6, <2>1, <2>2, PartBegins
    <2>4. /\ r'.protocol = at.protocol /\ r'.query_string = r.query_string /\ r'.method = r.method
          /\ r'.path_info = r.path_info
          /\ r'.content_type = r.content_type /\ r'.content_length = r.content_length
      BY <1>3, <2>1, <2>2 DEF Pointers
    <2>5. MethodRead(q)' /\ PathRead(q, at)' /\ QueryRead(q, at)'
      BY <1>6, <1>27, <2>1, <2>2, <2>4, NotBelow
    <2>6. LineOf(q, at)'
      BY <2>1, <2>3, <2>4, <2>5 DEF LineOf
    <2>7. QED
      BY <1>5, <2>4, <2>6
  <1>29. ASSUME state = "PROTOCOL"
         PROVE  /\ MethodRead(q) /\ PathRead(q, at) /\ QueryRead(q, at) /\ r.protocol = at.protocol
                /\ Inside(at.protocol, q.protocol) /\ p >= at.protocol
    <2>1. /\ MethodRead(q) /\ PathRead(q, at) /\ QueryRead(q, at) /\ r.protocol = at.protocol
          /\ Inside(at.protocol, q.protocol)
      BY <1>4, <1>29 DEF LineOf
    <2>2. p \in at.protocol + 1 .. at.protocol + Len(q.protocol)
      BY <2>1 DEF Inside
    <2>3. at.protocol <= p
      BY <1>3, <1>6, <2>2, InsideIsAbove
    <2>4. QED
      BY <1>3, <1>6, <2>1, <2>3
  <1>30. CASE Ends("PROTOCOL", "CR", "END")
    <2>1. /\ state = "PROTOCOL" /\ r' = r /\ state' = "END" /\ p' = p + 1 /\ Byte = "CR"
          /\ CutAt(p) /\ Before(p) /\ sent' = sent
      BY <1>12, <1>30
    <2>2. p = at.protocol + Len(q.protocol) /\ StringAt(at.protocol, q.protocol)' /\ Uncut(p)'
      BY <1>1, <1>2, <1>6, <1>29, <2>1, PartEnds
    <2>3. MethodRead(q)' /\ PathRead(q, at)' /\ QueryRead(q, at)'
      BY <1>3, <1>27, <1>29, <2>1
    <2>4. p' = at.protocol + Len(q.protocol) + 1 /\ ProtocolRead(q, at)'
      BY <1>29, <2>1, <2>2 DEF ProtocolRead
    <2>5. LineOf(q, at)'
      BY <2>1, <2>2, <2>3, <2>4 DEF LineOf
    <2>6. QED
      BY <1>5, <2>1, <2>5
  <1>31. CASE Goes("PROTOCOL", {"CR"})
    <2>1. /\ state = "PROTOCOL" /\ r' = r /\ state' = "PROTOCOL" /\ p' = p + 1 /\ Byte \notin {"CR"}
          /\ UNCHANGED <<sent, buffer>> /\ \A k \in Nat : Before(k)
      BY <1>10, <1>31
    <2>2. Inside(at.protocol, q.protocol)'
      BY <1>1, <1>2, <1>6, <1>29, <2>1, PartGoes
    <2>3. MethodRead(q)' /\ PathRead(q, at)' /\ QueryRead(q, at)'
      BY <1>3, <1>27, <1>29, <2>1
    <2>4. LineOf(q, at)'
      BY <1>29, <2>1, <2>2, <2>3 DEF LineOf
    <2>5. QED
      BY <1>5, <2>1, <2>4
  <1>32. QED
    BY <1>13, <1>14, <1>15, <1>16, <1>19, <1>20, <1>21, <1>23, <1>25, <1>26, <1>28, <1>30, <1>31
    DEF LineByte

\* Nothing that has been read changes when the buffer and the fields do not.
LEMMA ReadsSame ==
  ASSUME NEW q \in Requests, NEW at, Layout(q, at), Reads(q, at),
         UNCHANGED <<sent, buffer, handle_read, r, headers, p, state, h, processed>>,
         pc' # "error", pc' = "idle" => pc = "idle" /\ buffer_pos' = buffer_pos
  PROVE  Reads(q, at)'
  <1>1. LineOf(q, at) => LineOf(q, at)'
    BY DEF LineOf, MethodRead, PathRead, QueryRead, ProtocolRead, StringAt, Inside, Uncut, Last
  <1>2. HeaderOf(q, at) => HeaderOf(q, at)'
    BY DEF HeaderOf, InHeader, Next1
  <1>3. HeadersRead(q, at) => HeadersRead(q, at)'
    BY DEF HeadersRead, FieldRead, StringAt, Uncut, KeptOf, Next1, Last
  <1>4. /\ MethodRead(q) => MethodRead(q)'
        /\ PathRead(q, at) => PathRead(q, at)'
        /\ QueryRead(q, at) => QueryRead(q, at)'
        /\ ProtocolRead(q, at) => ProtocolRead(q, at)'
    BY DEF MethodRead, PathRead, QueryRead, ProtocolRead, StringAt, Last
  <1>5. Last' = Last
    BY DEF Last
  <1>6. QED
    BY <1>1, <1>2, <1>3, <1>4, <1>5 DEF Reads

LEMMA LineStopsReads ==
  ASSUME Inv, NEW q \in Requests, NEW at, Layout(q, at), Reads(q, at), LineStops
  PROVE  Reads(q, at)'
  <1>1. /\ pc = "request_line" /\ p > Last /\ pc' = "idle"
        /\ UNCHANGED <<sent, buffer, handle_read, r, headers, p, state, h, processed>>
    BY DEF LineStops
  <1>2. handle_read = "request_line" /\ Shapes
    BY <1>1, InLine DEF Inv
  <1>3. p = Last + 1 /\ Last' = Last
    <2>1. Last \in Nat /\ p \in 1 .. Last + 1
      BY <1>2, LenProperties DEF Shapes, Last
    <2>2. QED
      BY <1>1, <2>1 DEF Last
  <1>4. LineOf(q, at) /\ processed = 0 /\ r.content_type = NULL /\ r.content_length = NULL
    BY <1>2 DEF Reads
  <1>5. LineOf(q, at)'
    BY <1>1, <1>4
    DEF LineOf, MethodRead, PathRead, QueryRead, ProtocolRead, StringAt, Inside, Uncut, Last
  <1>6. QED
    BY <1>1, <1>2, <1>3, <1>4, <1>5 DEF Reads

\* The request line ends where the first header line starts.
LEMMA LineEndReads ==
  ASSUME Inv, NEW q \in Requests, NEW at, Layout(q, at), Reads(q, at), LineEnd
  PROVE  Reads(q, at)'
  <1>1. /\ pc = "request_line" /\ p <= Last /\ state = "END"
        /\ UNCHANGED <<sent, buffer, r, headers, line_state, processed, rewound>>
    BY DEF LineEnd
  <1>2. handle_read = "request_line" /\ headers = <<>> /\ Shapes
    BY <1>1, InLine DEF Inv
  <1>3. p \in Nat /\ Last \in Nat /\ Last' = Last
    BY <1>1, <1>2, LenProperties DEF Shapes, Last
  <1>4. /\ LineOf(q, at) /\ processed = 0
        /\ r.content_type = NULL /\ r.content_length = NULL
    BY <1>2 DEF Reads
  <1>5. /\ MethodRead(q) /\ PathRead(q, at) /\ QueryRead(q, at) /\ ProtocolRead(q, at)
        /\ p = at.protocol + Len(q.protocol) + 1 /\ Uncut(p)
    BY <1>1, <1>4 DEF LineOf
  <1>6. Byte = "LF"
    <2>1. Byte = sent[p]
      BY <1>1, <1>2, <1>3, <1>5, ReadByte
    <2>2. SaysByte(p, "LF")
      BY <1>5 DEF Layout
    <2>3. QED
      BY <2>1, <2>2 DEF SaysByte
  <1>7. handle_read' = "headers" /\ StartHeaders(p + 1)
    BY <1>6 DEF LineEnd
  <1>8. /\ pc' = "headers" /\ p' = p + 1 /\ state' = "START" /\ h'.pos = p + 1
    BY <1>7 DEF StartHeaders
  <1>9. /\ at.line[1] = p + 1 /\ Len(q.fields) \in Nat
    <2>1. /\ at.line[1] = at.protocol + Len(q.protocol) + 2 /\ Len(q.fields) \in Nat
          /\ at.protocol \in Nat /\ Len(q.protocol) \in Nat
      BY Places
    <2>2. \A x, y \in Nat : x + y + 2 = x + y + 1 + 1
      OBVIOUS
    <2>3. QED
      BY <1>5, <2>1, <2>2
  <1>10. Len(headers') = 0 /\ Next1' = 1
    BY <1>1, <1>2 DEF Next1
  <1>11. HeaderOf(q, at)'
    BY <1>8, <1>9, <1>10 DEF HeaderOf, InHeader, InField, HeaderStates
  <1>12. HeadersRead(q, at)'
    <2>1. Uncut(at.line[1])'
      BY <1>1, <1>3, <1>5, <1>9 DEF Uncut, Last
    <2>2. KeptOf(q, at, <<"T">>, r.content_type)' /\ KeptOf(q, at, <<"L">>, r.content_length)'
      BY <1>1, <1>4, <1>10 DEF KeptOf
    <2>3. \A i \in 1 .. Next1' : at.line[i] <= at.line[Next1']
      BY <1>3, <1>9, <1>10
    <2>4. QED
      BY <1>9, <1>10, <2>1, <2>2, <2>3 DEF HeadersRead
  <1>13. MethodRead(q)' /\ PathRead(q, at)' /\ QueryRead(q, at)' /\ ProtocolRead(q, at)'
    BY <1>1, <1>5 DEF MethodRead, PathRead, QueryRead, ProtocolRead, StringAt, Last
  <1>14. QED
    BY <1>1, <1>4, <1>7, <1>8, <1>11, <1>12, <1>13 DEF Reads

-----------------------------------------------------------------------------
(* The next read of a request.                                                *)

LEMMA AddsBefore ==
  ASSUME Shapes, NEW n \in 1 .. Len(sent), Adds(n), sent' = sent
  PROVE  /\ \A k \in Nat : Before(k)
         /\ \A i \in Nat, w \in Seq(Bytes) : StringAt(i, w) => StringAt(i, w)'
         /\ \A i \in Nat : Uncut(i) => Uncut(i)'
  <1>1. /\ Last \in Nat /\ n \in Nat /\ Last' = Last + n /\ Last' \in Nat /\ Last <= Last'
        /\ \A i \in 1 .. Last : buffer'[i] = buffer[i]
        /\ \A i \in Last + 1 .. Last' : buffer'[i] = sent[i]
    BY LenProperties DEF Shapes, Last, Adds
  <1>2. \A k \in Nat : Before(k)
    BY <1>1 DEF Before
  <1>3. ASSUME NEW i \in Nat, NEW w \in Seq(Bytes), StringAt(i, w) PROVE StringAt(i, w)'
    BY <1>1, <1>3, StringStays
  <1>4. ASSUME NEW i \in Nat, Uncut(i) PROVE Uncut(i)'
    <2>1. ASSUME NEW j \in 1 .. Last', j >= i PROVE buffer'[j] = sent[j]
      <3>1. CASE j \in 1 .. Last
        BY <1>1, <1>4, <2>1, <3>1 DEF Uncut
      <3>2. CASE j \in Last + 1 .. Last'
        BY <1>1, <3>2
      <3>3. QED
        BY <1>1, <3>1, <3>2
    <2>2. QED
      BY <2>1 DEF Uncut
  <1>5. QED
    BY <1>2, <1>3, <1>4

LEMMA LineSame ==
  ASSUME NEW q \in Requests, NEW at, Layout(q, at), Shapes,
         NEW n \in 1 .. Len(sent), Adds(n),
         UNCHANGED <<sent, r>>
  PROVE  /\ MethodRead(q) => MethodRead(q)'
         /\ PathRead(q, at) => PathRead(q, at)'
         /\ QueryRead(q, at) => QueryRead(q, at)'
         /\ ProtocolRead(q, at) => ProtocolRead(q, at)'
  <1>1. \A i \in Nat, w \in Seq(Bytes) : StringAt(i, w) => StringAt(i, w)'
    BY AddsBefore
  <1>2. /\ q.method \in Seq(Bytes) /\ q.path \in Seq(Bytes) /\ q.protocol \in Seq(Bytes)
        /\ q.query \in Seq(Bytes)
        /\ at.path \in Nat /\ at.query \in Nat /\ at.protocol \in Nat
    BY Places
  <1>3. /\ StringAt(1, q.method) => StringAt(1, q.method)'
        /\ StringAt(at.path, q.path) => StringAt(at.path, q.path)'
        /\ StringAt(at.query, q.query) => StringAt(at.query, q.query)'
        /\ StringAt(at.protocol, q.protocol) => StringAt(at.protocol, q.protocol)'
    BY <1>1, <1>2
  <1>4. QED
    BY <1>3 DEF MethodRead, PathRead, QueryRead, ProtocolRead

\* What the parser has of the request line and of the headers is there after
\* the read, too.
LEMMA GrownReads ==
  ASSUME NEW q \in Requests, NEW at, Layout(q, at), Shapes,
         NEW n \in 1 .. Len(sent), Adds(n),
         UNCHANGED <<sent, r>>
  PROVE  /\ p' = p /\ state' = state /\ LineOf(q, at) => LineOf(q, at)'
         /\ headers' = headers /\ HeadersRead(q, at) => HeadersRead(q, at)'
  <1>1. /\ \A i \in Nat, w \in Seq(Bytes) : StringAt(i, w) => StringAt(i, w)'
        /\ \A i \in Nat : Uncut(i) => Uncut(i)'
    BY AddsBefore
  <1>2. /\ at.path \in Nat /\ at.query \in Nat /\ at.protocol \in Nat /\ p \in Nat /\ 1 \in Nat
        /\ \A i \in 1 .. Len(q.fields) + 1 : at.line[i] \in Nat
        /\ Len(q.fields) \in Nat
    <2>1. p \in Nat
      BY LenProperties DEF Shapes, Last
    <2>2. QED
      BY <2>1, Places
  <1>3. /\ MethodRead(q) => MethodRead(q)'
        /\ PathRead(q, at) => PathRead(q, at)'
        /\ QueryRead(q, at) => QueryRead(q, at)'
        /\ ProtocolRead(q, at) => ProtocolRead(q, at)'
    BY LineSame
  <1>4. ASSUME p' = p, state' = state, LineOf(q, at) PROVE LineOf(q, at)'
    <2>1. Uncut(p) => Uncut(p)'
      BY <1>1, <1>2, <1>4 DEF Uncut
    <2>2. /\ Inside(1, q.method) => Inside(1, q.method)'
          /\ Inside(at.path, q.path) => Inside(at.path, q.path)'
          /\ Inside(at.query, q.query) => Inside(at.query, q.query)'
          /\ Inside(at.protocol, q.protocol) => Inside(at.protocol, q.protocol)'
      BY <1>1, <1>2, <1>4 DEF Inside
    <2>3. Uncut(1) => Uncut(1)'
      BY <1>1, <1>2
    <2>4. QED
      BY <1>3, <1>4, <2>1, <2>2, <2>3 DEF LineOf
  <1>5. ASSUME headers' = headers, HeadersRead(q, at) PROVE HeadersRead(q, at)'
    <2>1. Len(headers) \in Nat /\ Len(headers) <= Len(q.fields) /\ Next1' = Next1
          /\ Next1 \in 1 .. Len(q.fields) + 1
      BY <1>2, <1>5, LenProperties DEF Shapes, HeadersRead, Next1
    <2>2. Uncut(at.line[Next1])'
      <3>1. PICK i \in Nat : i = at.line[Next1]
        BY <1>2, <2>1
      <3>2. Uncut(i)'
        BY <1>1, <1>5, <3>1 DEF HeadersRead
      <3>3. at.line[Next1'] = i
        BY <2>1, <3>1
      <3>4. QED
        BY <3>2, <3>3 DEF Uncut
    <2>3. ASSUME NEW i \in 1 .. Len(headers)
          PROVE  FieldRead(at.line[i], q.fields[i], headers[i])'
      <3>1. PICK at_i \in Nat : at_i = at.line[i]
        BY <1>2, <1>5, <2>1, <2>3
      <3>2. PICK f, head : f = q.fields[i] /\ head = headers[i] /\ FieldRead(at_i, f, head)
        BY <1>5, <2>1, <2>3, <3>1 DEF HeadersRead
      <3>3. f.name \in Seq(Bytes) /\ f.value \in Seq(Bytes) /\ ValueAt(at_i, f) \in Nat
        <4>1. i \in 1 .. Len(q.fields)
          BY <1>2, <2>1
        <4>2. ProperField(f)
          BY <3>2, <4>1, ProperParts
        <4>3. f.name \in Seq(Bytes) /\ f.value \in Seq(Bytes)
          BY <4>2 DEF ProperField, Part
        <4>4. Len(f.name) \in Nat
          BY <4>3, LenProperties
        <4>5. QED
          BY <4>3, <4>4 DEF ValueAt
      <3>4. StringAt(at_i, f.name)' /\ StringAt(ValueAt(at_i, f), f.value)'
        BY <1>1, <3>1, <3>2, <3>3 DEF FieldRead
      <3>5. headers'[i] = head
        BY <1>5, <3>2
      <3>6. QED
        BY <3>1, <3>2, <3>4, <3>5 DEF FieldRead
    <2>4. KeptOf(q, at, <<"T">>, r.content_type)' /\ KeptOf(q, at, <<"L">>, r.content_length)'
      BY <1>5 DEF HeadersRead, KeptOf
    <2>5. QED
      BY <1>5, <2>1, <2>2, <2>3, <2>4 DEF HeadersRead
  <1>6. QED
    BY <1>4, <1>5

LEMMA ReadReads ==
  ASSUME Inv, NEW q \in Requests, NEW at, Layout(q, at), Reads(q, at),
         NEW n \in 1 .. Len(sent), Read(n), ~rewound'
  PROVE  Reads(q, at)'
  <1>1. /\ pc = "idle" /\ ~Rewinds
        /\ UNCHANGED <<sent, buffer_pos, handle_read, r, headers, line_state>>
    BY DEF Read
  <1>2. Shapes /\ LinePlace
    BY DEF Inv
  <1>3. Adds(n)
    <2>1. Last + n <= Len(sent) /\ buffer' = buffer \o SubSeq(sent, Last + 1, Last + n)
      BY DEF Read
    <2>2. PICK t \in Seq(Bytes) :
            /\ t = SubSeq(sent, Last + 1, Last + n)
            /\ Len(t) = n
            /\ \A i \in 1 .. n : t[i] = sent[Last + i]
      BY <1>2, <2>1, ReadBytes
    <2>3. PICK b : b = buffer \o t
      OBVIOUS
    <2>4. QED
      BY <1>2, <2>1, <2>2, <2>3, ReadAdds
  <1>4. CASE handle_read = "request_line"
    <2>1. /\ pc' = "request_line" /\ p' = buffer_pos /\ state' = line_state
          /\ UNCHANGED <<h, processed>>
      BY <1>4 DEF Read
    <2>2. p' = p /\ state' = state
      BY <1>1, <1>2, <1>4, <2>1 DEF LinePlace
    <2>3. LineOf(q, at) /\ processed = 0 /\ r.content_type = NULL /\ r.content_length = NULL
      BY <1>4 DEF Reads
    <2>4. LineOf(q, at)'
      BY <1>1, <1>2, <1>3, <2>2, <2>3, GrownReads
    <2>5. QED
      BY <1>1, <1>4, <2>1, <2>3, <2>4 DEF Reads
  <1>5. ASSUME handle_read # "request_line"
        PROVE  /\ MethodRead(q)' /\ PathRead(q, at)' /\ QueryRead(q, at)' /\ ProtocolRead(q, at)'
               /\ HeadersRead(q, at)'
    <2>1. /\ MethodRead(q) /\ PathRead(q, at) /\ QueryRead(q, at) /\ ProtocolRead(q, at)
          /\ HeadersRead(q, at)
      BY <1>5 DEF Reads
    <2>2. QED
      BY <1>1, <1>2, <1>3, <2>1, LineSame, GrownReads
  <1>6. CASE handle_read = "headers"
    <2>1. StartHeaders(buffer_pos) /\ processed' = processed
      BY <1>6 DEF Read
    <2>2. /\ pc' = "headers" /\ p' = buffer_pos /\ state' = "START" /\ h'.pos = buffer_pos
      BY <2>1 DEF StartHeaders
    <2>3. buffer_pos = h.pos /\ HeaderOf(q, at) /\ HeadersRead(q, at) /\ processed = 0
      BY <1>1, <1>6 DEF Reads
    <2>4. h.pos = at.line[Next1]
      <3>1. SUFFICES ASSUME Len(headers) > 0, h.pos = at.line[Len(headers)] PROVE FALSE
        BY <2>3 DEF HeaderOf
      <3>2. Len(headers) \in 1 .. Len(headers) /\ headers # <<>>
        BY <1>2, <3>1, LenProperties, EmptySeq DEF Shapes
      <3>3. headers[Len(headers)].name = at.line[Len(headers)]
        BY <2>3, <3>2 DEF HeadersRead, FieldRead
      <3>4. QED
        BY <1>1, <1>6, <2>3, <3>1, <3>2, <3>3 DEF Rewinds
    <2>5. HeaderOf(q, at)'
      BY <1>1, <2>2, <2>3, <2>4 DEF HeaderOf, InHeader, InField, HeaderStates, Next1
    <2>6. QED
      BY <1>1, <1>5, <1>6, <2>1, <2>2, <2>3, <2>5 DEF Reads
  <1>7. CASE handle_read = "process"
    <2>1. processed' = processed + 1 /\ UNCHANGED <<pc, p, state, h>>
      BY <1>7 DEF Read
    <2>2. processed > 0 /\ Len(headers) = Len(q.fields) /\ processed \in Nat
      BY <1>2, <1>7 DEF Reads, Shapes
    <2>3. QED
      BY <1>1, <1>5, <1>7, <2>1, <2>2 DEF Reads
  <1>8. QED
    BY <1>2, <1>4, <1>6, <1>7 DEF Shapes

-----------------------------------------------------------------------------
(* The headers of a request.                                                  *)

\* The line the parser is in is the next header of the request, or the empty line.
LEMMA HeaderLine ==
  ASSUME Shapes, NEW q \in Requests, NEW at, Layout(q, at), HeadersRead(q, at)
  PROVE  /\ Len(headers) \in Nat /\ Len(q.fields) \in Nat /\ Next1 \in 1 .. Len(q.fields) + 1
         /\ at.line[Next1] \in Nat /\ Uncut(at.line[Next1])
         /\ Next1 <= Len(q.fields) =>
              /\ FieldAt(at.line[Next1], q.fields[Next1], at.line[Next1 + 1])
              /\ ProperField(q.fields[Next1])
         /\ ~(Next1 <= Len(q.fields)) =>
              /\ Len(headers) = Len(q.fields)
              /\ SaysByte(at.line[Next1], "CR") /\ SaysByte(at.line[Next1] + 1, "LF")
  <1>1. Len(q.fields) \in Nat /\ \A i \in 1 .. Len(q.fields) + 1 : at.line[i] \in Nat
    BY Places
  <1>2. Len(headers) \in Nat /\ Len(headers) <= Len(q.fields) /\ Uncut(at.line[Next1])
    BY LenProperties DEF Shapes, HeadersRead
  <1>3. Next1 \in 1 .. Len(q.fields) + 1
    BY <1>1, <1>2 DEF Next1
  <1>4. ASSUME Next1 <= Len(q.fields)
        PROVE  /\ FieldAt(at.line[Next1], q.fields[Next1], at.line[Next1 + 1])
               /\ ProperField(q.fields[Next1])
    <2>1. Next1 \in 1 .. Len(q.fields)
      BY <1>1, <1>3, <1>4
    <2>2. FieldAt(at.line[Next1], q.fields[Next1], at.line[Next1 + 1])
      BY <2>1 DEF Layout
    <2>3. ProperField(q.fields[Next1])
      BY <2>1, ProperParts
    <2>4. QED
      BY <2>2, <2>3
  <1>5. ASSUME ~(Next1 <= Len(q.fields))
        PROVE  /\ Len(headers) = Len(q.fields)
               /\ SaysByte(at.line[Next1], "CR") /\ SaysByte(at.line[Next1] + 1, "LF")
    <2>1. Next1 = Len(q.fields) + 1 /\ Len(headers) = Len(q.fields)
      BY <1>1, <1>2, <1>3, <1>5 DEF Next1
    <2>2. QED
      BY <2>1 DEF Layout
  <1>6. QED
    BY <1>1, <1>2, <1>3, <1>4, <1>5

\* The parts of a header line.
LEMMA FieldParts ==
  ASSUME Shapes, NEW i \in Nat, NEW f, NEW next, FieldAt(i, f, next), ProperField(f)
  PROVE  /\ f.name \in Seq(Bytes) /\ f.value \in Seq(Bytes)
         /\ Part(f.name, {":"}) /\ Part(f.value, {"CR"})
         /\ Len(f.name) \in Nat \ {0} /\ Len(f.value) \in Nat \ {0} /\ i > 0
         /\ Says(i, f.name, ":") /\ Says(ValueAt(i, f), f.value, "CR")
         /\ ValueAt(i, f) \in Nat
         /\ i \in 1 .. Len(sent) /\ sent[i] # "CR"
         /\ sent[i + Len(f.name) + 1] = "SP"
         /\ sent[ValueAt(i, f)] # "SP"
         /\ sent[ValueAt(i, f) + Len(f.value) + 1] = "LF"
  <1>1. /\ Part(f.name, {":"}) /\ Part(f.value, {"CR"}) /\ f.name[1] # "CR" /\ f.value[1] # "SP"
    BY DEF ProperField
  <1>2. /\ f.name \in Seq(Bytes) /\ f.value \in Seq(Bytes)
        /\ Len(f.name) \in Nat \ {0} /\ Len(f.value) \in Nat \ {0}
    <2>1. f.name \in Seq(Bytes) /\ Len(f.name) \in Nat /\ Len(f.name) > 0
      BY <1>1, PartLength
    <2>2. f.value \in Seq(Bytes) /\ Len(f.value) \in Nat /\ Len(f.value) > 0
      BY <1>1, PartLength
    <2>3. QED
      BY <2>1, <2>2
  <1>3. /\ Says(i, f.name, ":") /\ Says(ValueAt(i, f), f.value, "CR")
        /\ SaysByte(i + Len(f.name) + 1, "SP") /\ SaysByte(ValueAt(i, f) + Len(f.value) + 1, "LF")
    BY DEF FieldAt
  <1>4. ValueAt(i, f) \in Nat
    BY <1>2 DEF ValueAt
  <1>5. ASSUME NEW k \in Nat, NEW w \in Seq(Bytes), Len(w) \in Nat \ {0}, NEW c, Says(k, w, c)
        PROVE  k > 0 /\ sent[k] = w[1] /\ (Len(sent) \in Nat => k \in 1 .. Len(sent))
    <2>1. k > 0 /\ k \in k .. k + Len(w) - 1 /\ k - k + 1 = 1
      BY <1>5 DEF Says
    <2>2. QED
      BY <1>5, <2>1 DEF Says, SaysByte
  <1>6. Len(sent) \in Nat
    BY LenProperties DEF Shapes
  <1>7. QED
    BY <1>1, <1>2, <1>3, <1>4, <1>5, <1>6 DEF SaysByte

\* The fields of a request that a byte of a header line leaves alone.
LEMMA HeaderSame ==
  ASSUME NEW q \in Requests, NEW at, Reads(q, at), handle_read = "headers", pc = "headers",
         UNCHANGED <<sent, buffer, handle_read, r, headers, pc, processed>>,
         HeaderOf(q, at)'
  PROVE  Reads(q, at)'
  <1>1. /\ MethodRead(q) /\ PathRead(q, at) /\ QueryRead(q, at) /\ ProtocolRead(q, at)
        /\ HeadersRead(q, at) /\ processed = 0
    BY DEF Reads
  <1>2. /\ MethodRead(q)' /\ PathRead(q, at)' /\ QueryRead(q, at)' /\ ProtocolRead(q, at)'
    BY <1>1 DEF MethodRead, PathRead, QueryRead, ProtocolRead, StringAt, Last
  <1>3. HeadersRead(q, at)'
    BY <1>1 DEF HeadersRead, FieldRead, StringAt, Uncut, KeptOf, Next1, Last
  <1>4. QED
    BY <1>1, <1>2, <1>3 DEF Reads

\* What a header line says, with its parts at these places.
LineBytes(i, n, v, e) ==
  /\ 0 < i /\ i < n /\ v = n + 2 /\ v < e
  /\ sent[i] # "CR"
  /\ \A j \in i + 1 .. n - 1 : sent[j] # ":"
  /\ sent[n] = ":" /\ sent[n + 1] = "SP" /\ sent[v] # "SP"
  /\ \A j \in v + 1 .. e - 1 : sent[j] # "CR"
  /\ sent[e] = "CR" /\ sent[e + 1] = "LF"

LEMMA PartBytes ==
  ASSUME NEW i \in Nat, NEW w, NEW c, Part(w, {c}), Says(i, w, c), NEW n \in Nat, n = i + Len(w)
  PROVE  i < n /\ sent[n] = c /\ \A j \in i + 1 .. n - 1 : sent[j] # c
  <1>1. PICK len \in Nat : len = Len(w) /\ len > 0
    BY PartLength
  <1>2. n = i + len /\ i < n
    BY <1>1
  <1>3. sent[n] = c
    BY DEF Says, SaysByte
  <1>4. ASSUME NEW j \in i + 1 .. n - 1 PROVE sent[j] # c
    <2>1. j \in i .. i + len - 1 /\ j - i + 1 \in 2 .. len
      BY <1>2, <1>4
    <2>2. sent[j] = w[j - i + 1]
      BY <1>1, <2>1 DEF Says
    <2>3. QED
      BY <1>1, <2>1, <2>2 DEF Part
  <1>5. QED
    BY <1>2, <1>3, <1>4

LEMMA FieldBytes ==
  ASSUME Shapes, NEW i \in Nat, NEW f, NEW next, FieldAt(i, f, next), ProperField(f)
  PROVE  \E n, v, e \in Nat :
           /\ n = NameEnd(i, f) /\ v = ValueAt(i, f) /\ e = ValueEnd(i, f)
           /\ next = e + 2 /\ LineBytes(i, n, v, e)
  <1>1. PICK a, b \in Nat : a = Len(f.name) /\ b = Len(f.value)
    BY FieldParts
  <1>2. PICK n, v, e \in Nat : n = i + a /\ v = i + a + 2 /\ e = v + b
    OBVIOUS
  <1>3. v = ValueAt(i, f) /\ n = i + Len(f.name) /\ e = v + Len(f.value)
    BY <1>1, <1>2 DEF ValueAt
  <1>4. n = NameEnd(i, f) /\ e = ValueEnd(i, f)
    BY <1>3 DEF NameEnd, ValueEnd
  <1>5. /\ Part(f.name, {":"}) /\ Says(i, f.name, ":")
        /\ Part(f.value, {"CR"}) /\ Says(v, f.value, "CR")
        /\ i > 0 /\ sent[i] # "CR" /\ sent[v] # "SP"
        /\ sent[i + Len(f.name) + 1] = "SP" /\ sent[v + Len(f.value) + 1] = "LF"
    BY <1>3, FieldParts
  <1>6. i < n /\ sent[n] = ":" /\ \A j \in i + 1 .. n - 1 : sent[j] # ":"
    <2>1. Part(f.name, {":"}) /\ Says(i, f.name, ":") /\ n = i + Len(f.name)
      BY <1>3, <1>5
    <2>2. QED
      BY <2>1, PartBytes
  <1>7. v < e /\ sent[e] = "CR" /\ \A j \in v + 1 .. e - 1 : sent[j] # "CR"
    <2>1. Part(f.value, {"CR"}) /\ Says(v, f.value, "CR") /\ e = v + Len(f.value)
      BY <1>3, <1>5
    <2>2. QED
      BY <2>1, PartBytes
  <1>8. sent[n + 1] = "SP" /\ sent[e + 1] = "LF"
    BY <1>1, <1>2, <1>5
  <1>9. next = e + 2
    BY <1>3 DEF FieldAt
  <1>10. LineBytes(i, n, v, e)
    BY <1>2, <1>5, <1>6, <1>7, <1>8 DEF LineBytes
  <1>11. QED
    BY <1>3, <1>4, <1>9, <1>10

LEMMA FieldByte ==
  ASSUME HeaderByte, p \in Nat, h \in Locals,
         NEW i \in Nat, NEW n \in Nat, NEW v \in Nat, NEW e \in Nat, LineBytes(i, n, v, e),
         i <= p => Byte = sent[p],
         InHeader(i, n, v, e), state # "DONE"
  PROVE  /\ InHeader(i, n, v, e)' /\ state' \in InField
         /\ h'.pos = i
  <1>1. ASSUME NEW from, NEW bytes, NEW to, NEW locals, Moves(from, bytes, to, locals)
        PROVE  state = from /\ Byte \in bytes /\ p' = p + 1 /\ state' = to /\ h' = locals
    BY <1>1 DEF Moves, Advance
  <1>2. state \in InField => h.name = i /\ h.pos = i
    BY DEF InHeader
  <1>3. CASE Moves("START", {"CR"}, "DONE", h)
    <2>1. state = "START" /\ Byte = "CR" /\ p = i
      BY <1>1, <1>3 DEF InHeader
    <2>2. QED
      BY <2>1 DEF LineBytes
  <1>4. CASE Moves("START", Any \ {"CR"}, "NAME", [h EXCEPT !.name = p, !.pos = p])
    <2>1. /\ state = "START" /\ p' = p + 1 /\ state' = "NAME" /\ p = i
          /\ h' = [h EXCEPT !.name = p, !.pos = p]
      BY <1>1, <1>4 DEF InHeader
    <2>2. h'.name = i /\ h'.pos = i
      BY <2>1 DEF Locals
    <2>3. p' \in i + 1 .. n
      BY <2>1 DEF LineBytes
    <2>4. QED
      BY <2>1, <2>2, <2>3 DEF InHeader, InField
  <1>5. CASE Moves("NAME", {":"}, "COLON", [h EXCEPT !.name_end = p])
    <2>1. /\ state = "NAME" /\ Byte = ":" /\ p' = p + 1 /\ state' = "COLON"
          /\ h' = [h EXCEPT !.name_end = p] /\ p \in i + 1 .. n
      BY <1>1, <1>5 DEF InHeader
    <2>2. p = n
      BY <2>1 DEF LineBytes
    <2>3. h'.name = i /\ h'.pos = i /\ h'.name_end = n
      BY <1>2, <2>1, <2>2 DEF Locals, InField
    <2>4. QED
      BY <2>1, <2>2, <2>3 DEF InHeader, InField
  <1>6. CASE Moves("NAME", Any \ {":"}, "NAME", h)
    <2>1. state = "NAME" /\ Byte # ":" /\ p' = p + 1 /\ state' = "NAME" /\ h' = h /\ p \in i + 1 .. n
      BY <1>1, <1>6 DEF InHeader
    <2>2. p' \in i + 1 .. n
      BY <2>1 DEF LineBytes
    <2>3. QED
      BY <1>2, <2>1, <2>2 DEF InHeader, InField
  <1>7. CASE Moves("COLON", {"SP"}, "SPACE", h)
    <2>1. state = "COLON" /\ p' = p + 1 /\ state' = "SPACE" /\ h' = h /\ p = n + 1 /\ h.name_end = n
      BY <1>1, <1>7 DEF InHeader
    <2>2. p' = v
      BY <2>1 DEF LineBytes
    <2>3. QED
      BY <1>2, <2>1, <2>2 DEF InHeader, InField
  <1>8. state = "SPACE" => p = v /\ h.name_end = n /\ Byte # "SP"
    <2>1. state = "SPACE" => p = v /\ h.name_end = n
      BY DEF InHeader
    <2>2. QED
      BY <2>1 DEF LineBytes
  <1>9. CASE Moves("SPACE", {"SP"}, "SPACE", h)
    <2>1. state = "SPACE" /\ Byte \in {"SP"}
      BY <1>9 DEF Moves
    <2>2. QED
      BY <1>8, <2>1
  <1>10. CASE Moves("SPACE", Any \ {"SP"}, "VALUE", [h EXCEPT !.value = p])
    <2>1. state = "SPACE" /\ p' = p + 1 /\ state' = "VALUE" /\ h' = [h EXCEPT !.value = p]
      BY <1>1, <1>10
    <2>2. h'.name = i /\ h'.pos = i /\ h'.name_end = n /\ h'.value = v
      BY <1>2, <1>8, <2>1 DEF Locals, InField
    <2>3. p' \in v + 1 .. e
      BY <1>8, <2>1 DEF LineBytes
    <2>4. QED
      BY <2>1, <2>2, <2>3 DEF InHeader, InField
  <1>11. CASE Moves("VALUE", {"CR"}, "END", [h EXCEPT !.value_end = p])
    <2>1. /\ state = "VALUE" /\ Byte = "CR" /\ p' = p + 1 /\ state' = "END"
          /\ h' = [h EXCEPT !.value_end = p] /\ p \in v + 1 .. e /\ h.name_end = n /\ h.value = v
      BY <1>1, <1>11 DEF InHeader
    <2>2. p = e
      BY <2>1 DEF LineBytes
    <2>3. h'.name = i /\ h'.pos = i /\ h'.name_end = n /\ h'.value = v /\ h'.value_end = e
      BY <1>2, <2>1, <2>2 DEF Locals, InField
    <2>4. QED
      BY <2>1, <2>2, <2>3 DEF InHeader, InField
  <1>12. CASE Moves("VALUE", Any \ {"CR"}, "VALUE", h)
    <2>1. /\ state = "VALUE" /\ Byte # "CR" /\ p' = p + 1 /\ state' = "VALUE" /\ h' = h
          /\ p \in v + 1 .. e /\ h.name_end = n /\ h.value = v
      BY <1>1, <1>12 DEF InHeader
    <2>2. p' \in v + 1 .. e
      BY <2>1 DEF LineBytes
    <2>3. QED
      BY <1>2, <2>1, <2>2 DEF InHeader, InField
  <1>13. QED
    BY <1>3, <1>4, <1>5, <1>6, <1>7, <1>9, <1>10, <1>11, <1>12 DEF HeaderByte

LEMMA HeaderByteReads ==
  ASSUME Inv, NEW q \in Requests, NEW at, Layout(q, at), Reads(q, at), HeaderByte
  PROVE  Reads(q, at)'
  <1>1. /\ pc = "headers" /\ p <= Last
        /\ UNCHANGED <<sent, buffer, buffer_pos, handle_read, r, headers, line_state, pc,
                       processed, rewound>>
    BY DEF HeaderByte
  <1>2. handle_read = "headers" /\ Shapes
    BY <1>1, InHeaders DEF Inv
  <1>3. HeaderOf(q, at) /\ HeadersRead(q, at)
    BY <1>2 DEF Reads
  <1>4. SUFFICES HeaderOf(q, at)'
    BY <1>1, <1>2, HeaderSame
  <1>5. p \in Nat /\ p \in 1 .. Last /\ Last \in Nat /\ h \in Locals
    <2>1. Last \in Nat /\ p \in 1 .. Last + 1
      BY <1>2, LenProperties DEF Shapes, Last
    <2>2. QED
      BY <1>1, <1>2, <2>1 DEF Shapes
  <1>6. PICK f, next : f = q.fields[Next1] /\ next = at.line[Next1 + 1]
    OBVIOUS
  <1>7. PICK i \in Nat : i = at.line[Next1]
    BY <1>2, <1>3, HeaderLine
  <1>8. /\ Uncut(i)
        /\ Next1 <= Len(q.fields) => FieldAt(i, f, next) /\ ProperField(f)
        /\ ~(Next1 <= Len(q.fields)) =>
             Len(headers) = Len(q.fields) /\ SaysByte(i, "CR") /\ SaysByte(i + 1, "LF")
    BY <1>2, <1>3, <1>6, <1>7, HeaderLine
  <1>9. PICK n, v, e : n = NameEnd(i, f) /\ v = ValueAt(i, f) /\ e = ValueEnd(i, f)
    OBVIOUS
  <1>10. /\ state \in HeaderStates /\ InHeader(i, n, v, e)
         /\ state \in InField => Next1 <= Len(q.fields)
         /\ state = "DONE" => Len(headers) = Len(q.fields)
         /\ h.pos = i \/ (Len(headers) > 0 /\ h.pos = at.line[Len(headers)])
    BY <1>3, <1>6, <1>7, <1>9 DEF HeaderOf
  <1>11. ASSUME state' \in HeaderStates, InHeader(i, n, v, e)',
               state' \in InField => Next1 <= Len(q.fields),
               state' = "DONE" => Len(headers) = Len(q.fields),
               h'.pos = i \/ h'.pos = h.pos
         PROVE  HeaderOf(q, at)'
    BY <1>1, <1>6, <1>7, <1>9, <1>10, <1>11 DEF HeaderOf, Next1
  <1>12. i <= p => Byte = sent[p]
    BY <1>1, <1>2, <1>8, ReadByte
  <1>13. state # "DONE"
    BY DEF HeaderByte, Moves
  <1>14. CASE Next1 <= Len(q.fields)
    <2>1. n \in Nat /\ v \in Nat /\ e \in Nat /\ LineBytes(i, n, v, e)
      BY <1>2, <1>8, <1>9, <1>14, FieldBytes
    <2>2. InHeader(i, n, v, e)' /\ state' \in InField /\ h'.pos = i
      BY <1>5, <1>10, <1>12, <1>13, <2>1, FieldByte
    <2>3. QED
      BY <1>11, <1>14, <2>2 DEF InField, HeaderStates
  <1>15. CASE ~(Next1 <= Len(q.fields))
    <2>1. state = "START" /\ p = i
      BY <1>10, <1>13, <1>15 DEF InHeader, InField, HeaderStates
    <2>2. Byte = "CR"
      BY <1>8, <1>12, <1>15, <2>1 DEF SaysByte
    <2>3. state' = "DONE" /\ p' = p + 1 /\ h' = h
      BY <2>1, <2>2 DEF HeaderByte, Moves, Advance
    <2>4. InHeader(i, n, v, e)'
      BY <2>1, <2>3 DEF InHeader, InField
    <2>5. QED
      BY <1>8, <1>11, <1>15, <2>3, <2>4 DEF InField, HeaderStates
  <1>16. QED
    BY <1>14, <1>15

\* The name of the header line that ends is the name of the field.
LEMMA NameIs ==
  ASSUME Shapes, NEW i \in Nat, NEW n \in Nat, NEW w \in Seq(Bytes), n = i + Len(w),
         Says(i, w, ":"), Uncut(i), h.name = i, h.name_end = n, n <= Last
  PROVE  Name = w
  <1>1. PICK len \in Nat : len = Len(w)
    BY LenProperties
  <1>2. Last \in Nat /\ buffer \in Seq(Any) /\ i > 0
    BY LenProperties DEF Shapes, Last, Says
  <1>3. PICK s : s = SubSeq(buffer, i, n - 1)
    OBVIOUS
  <1>4. s \in Seq(Any) /\ Len(s) = len /\ \A k \in 1 .. len : s[k] = buffer[i + k - 1]
    <2>1. i \in 1 .. Len(buffer) + 1 /\ n - 1 \in i - 1 .. Len(buffer)
      BY <1>1, <1>2 DEF Last
    <2>2. /\ s \in Seq(Any)
          /\ Len(s) = IF i <= n - 1 THEN (n - 1) - i + 1 ELSE 0
          /\ \A k \in 1 .. (n - 1) - i + 1 : s[k] = buffer[i + k - 1]
      BY <1>2, <1>3, <2>1, SubSeqProperties
    <2>3. (n - 1) - i + 1 = len /\ (~(i <= n - 1) => len = 0)
      BY <1>1
    <2>4. QED
      BY <2>2, <2>3
  <1>5. \A k \in 1 .. len : s[k] = w[k]
    <2> TAKE k \in 1 .. len
    <2>1. i + k - 1 \in i .. i + len - 1 /\ (i + k - 1) - i + 1 = k /\ i + k - 1 \in 1 .. Last
          /\ i + k - 1 >= i
      BY <1>1, <1>2
    <2>2. sent[i + k - 1] = w[k]
      BY <1>1, <2>1 DEF Says
    <2>3. QED
      BY <1>4, <2>1, <2>2 DEF Uncut
  <1>6. w \in Seq(Any)
    BY SeqMonotonic DEF Any
  <1>7. s = w
    BY <1>1, <1>4, <1>5, <1>6, SeqEqual
  <1>8. QED
    BY <1>3, <1>7 DEF Name

\* The cuts make strings of the name and of the value, and leave what is in
\* front of the line and behind it.
LEMMA FieldCut ==
  ASSUME Shapes, NEW i \in Nat, NEW f, NEW next, FieldAt(i, f, next), ProperField(f), Uncut(i),
         NEW n \in Nat, NEW v \in Nat, NEW e \in Nat,
         n = NameEnd(i, f), v = ValueAt(i, f), e = ValueEnd(i, f), e + 1 <= Last, sent' = sent,
         Last' = Last,
         \A j \in 1 .. Last : buffer'[j] = IF j = n \/ j = e THEN NUL ELSE buffer[j]
  PROVE  StringAt(i, f.name)' /\ StringAt(v, f.value)' /\ Uncut(next)' /\ Before(i)
  <1>1. LineBytes(i, n, v, e) /\ next = e + 2
    BY FieldBytes
  <1>2. 0 < i /\ i < n /\ v = n + 2 /\ v < e /\ Last \in Nat
    BY <1>1, LenProperties DEF LineBytes, Shapes, Last
  <1>3. PICK a, b \in Nat : a = Len(f.name) /\ b = Len(f.value)
    BY FieldParts
  <1>4. n = i + a /\ e = v + b
    BY <1>3 DEF NameEnd, ValueEnd
  <1>5. Says(i, f.name, ":") /\ Says(v, f.value, "CR")
    BY FieldParts
  <1>6. StringAt(i, f.name)'
    <2>1. \A j \in i .. i + a - 1 : buffer'[j] = f.name[j - i + 1]
      <3> TAKE j \in i .. i + a - 1
      <3>1. j \in 1 .. Last /\ j >= i /\ j # n /\ j # e
        BY <1>2, <1>4
      <3>2. buffer'[j] = sent[j]
        BY <3>1 DEF Uncut
      <3>3. QED
        BY <1>3, <1>5, <3>2 DEF Says
    <2>2. buffer'[i + a] = NUL /\ i + a <= Last'
      BY <1>2, <1>4
    <2>3. QED
      BY <1>2, <1>3, <2>1, <2>2 DEF StringAt
  <1>7. StringAt(v, f.value)'
    <2>1. \A j \in v .. v + b - 1 : buffer'[j] = f.value[j - v + 1]
      <3> TAKE j \in v .. v + b - 1
      <3>1. j \in 1 .. Last /\ j >= i /\ j # n /\ j # e
        BY <1>2, <1>4
      <3>2. buffer'[j] = sent[j]
        BY <3>1 DEF Uncut
      <3>3. QED
        BY <1>3, <1>5, <3>2 DEF Says
    <2>2. buffer'[v + b] = NUL /\ v + b <= Last' /\ v > 0
      BY <1>2, <1>4
    <2>3. QED
      BY <1>3, <2>1, <2>2 DEF StringAt
  <1>8. Uncut(next)'
    <2>1. \A j \in 1 .. Last : j >= e + 2 => buffer'[j] = sent[j]
      BY <1>2 DEF Uncut
    <2>2. QED
      BY <1>1, <2>1 DEF Uncut
  <1>9. Before(i)
    BY <1>2 DEF Before
  <1>10. QED
    BY <1>6, <1>7, <1>8, <1>9

\* Where the strings in front of a header line end.
LEMMA FrontEnds ==
  ASSUME Shapes, NEW q \in Requests, NEW at, Layout(q, at), HeadersRead(q, at),
         NEW i \in Nat, i = at.line[Next1]
  PROVE  /\ at.path <= i /\ at.path + Len(q.path) < i /\ at.protocol <= i
         /\ at.protocol + Len(q.protocol) < i
         /\ \A k \in 1 .. Len(headers) :
              /\ at.line[k] \in Nat /\ FieldAt(at.line[k], q.fields[k], at.line[k + 1])
              /\ ProperField(q.fields[k]) /\ at.line[k + 1] \in Nat /\ at.line[k + 1] <= i
  <1>1. /\ Len(headers) \in Nat /\ Len(q.fields) \in Nat /\ Next1 \in 1 .. Len(q.fields) + 1
        /\ \A k \in 1 .. Next1 : at.line[k] <= i
    BY HeaderLine DEF HeadersRead
  <1>2. \A k \in 1 .. Len(q.fields) + 1 : at.line[k] \in Nat
    BY Places
  <1>3. PICK pa, lpa, pr, lpr \in Nat :
          pa = at.path /\ lpa = Len(q.path) /\ pr = at.protocol /\ lpr = Len(q.protocol)
    BY Places
  <1>4. pa + lpa < pr /\ pr + lpr + 2 <= i
    <2>1. at.path + Len(q.path) < at.protocol /\ at.line[1] = at.protocol + Len(q.protocol) + 2
      BY Places
    <2>2. at.line[1] <= i
      BY <1>1
    <2>3. QED
      BY <1>3, <2>1, <2>2
  <1>5. at.path <= i /\ at.path + Len(q.path) < i /\ at.protocol <= i
        /\ at.protocol + Len(q.protocol) < i
    <2>1. pa <= i /\ pa + lpa < i /\ pr <= i /\ pr + lpr < i
      BY <1>4
    <2>2. QED
      BY <1>3, <2>1
  <1>6. ASSUME NEW k \in 1 .. Len(headers)
        PROVE  /\ at.line[k] \in Nat /\ FieldAt(at.line[k], q.fields[k], at.line[k + 1])
               /\ ProperField(q.fields[k]) /\ at.line[k + 1] \in Nat /\ at.line[k + 1] <= i
    <2>1. k \in 1 .. Len(q.fields) /\ k + 1 \in 1 .. Next1 /\ k \in 1 .. Len(q.fields) + 1
          /\ k + 1 \in 1 .. Len(q.fields) + 1
      BY <1>1 DEF Next1
    <2>2. FieldAt(at.line[k], q.fields[k], at.line[k + 1])
      BY <2>1 DEF Layout
    <2>3. ProperField(q.fields[k])
      BY <2>1, ProperParts
    <2>4. QED
      BY <1>1, <1>2, <2>1, <2>2, <2>3
  <1>7. QED
    BY <1>5, <1>6

\* A header that has been read stays read while nothing changes in front of i.
LEMMA FieldStays ==
  ASSUME Shapes, NEW k \in Nat, NEW f, NEW next \in Nat, FieldAt(k, f, next), ProperField(f),
         NEW i \in Nat, next <= i, Before(i), NEW header, FieldRead(k, f, header)
  PROVE  FieldRead(k, f, header)'
  <1>1. PICK n, v, e \in Nat :
          /\ n = NameEnd(k, f) /\ v = ValueAt(k, f) /\ e = ValueEnd(k, f)
          /\ next = e + 2 /\ LineBytes(k, n, v, e)
    BY FieldBytes
  <1>2. n < i /\ e < i
    BY <1>1 DEF LineBytes
  <1>3. f.name \in Seq(Bytes) /\ f.value \in Seq(Bytes)
    BY FieldParts
  <1>4. k + Len(f.name) < i /\ v + Len(f.value) < i
    BY <1>1, <1>2 DEF NameEnd, ValueEnd
  <1>5. StringAt(k, f.name) /\ StringAt(v, f.value) /\ header.name = k /\ header.value = v
    BY <1>1 DEF FieldRead
  <1>6. StringAt(k, f.name)' /\ StringAt(v, f.value)'
    BY <1>3, <1>4, <1>5, StringBefore
  <1>7. QED
    BY <1>1, <1>5, <1>6 DEF FieldRead

LEMMA HeaderEndsReads ==
  ASSUME Inv, NEW q \in Requests, NEW at, Layout(q, at), Reads(q, at), HeaderEnds
  PROVE  Reads(q, at)'
  <1>1. /\ pc = "headers" /\ p <= Last /\ state = "END"
        /\ state' = "START" /\ p' = p + 1
        /\ UNCHANGED <<sent, buffer_pos, handle_read, line_state, pc, h, processed, rewound>>
    BY DEF HeaderEnds, Advance
  <1>2. handle_read = "headers" /\ Shapes
    BY <1>1, InHeaders DEF Inv
  <1>3. /\ HeaderOf(q, at) /\ HeadersRead(q, at) /\ processed = 0
        /\ MethodRead(q) /\ PathRead(q, at) /\ QueryRead(q, at) /\ ProtocolRead(q, at)
    BY <1>2 DEF Reads
  <1>4. Next1 <= Len(q.fields)
    BY <1>1, <1>3 DEF HeaderOf, InField
  <1>5. PICK f, next : f = q.fields[Next1] /\ next = at.line[Next1 + 1]
    OBVIOUS
  <1>6. PICK i \in Nat : i = at.line[Next1]
    BY <1>2, <1>3, HeaderLine
  <1>7. Uncut(i) /\ FieldAt(i, f, next) /\ ProperField(f)
    BY <1>2, <1>3, <1>4, <1>5, <1>6, HeaderLine
  <1>8. PICK n, v, e \in Nat :
          /\ n = NameEnd(i, f) /\ v = ValueAt(i, f) /\ e = ValueEnd(i, f)
          /\ next = e + 2 /\ LineBytes(i, n, v, e)
    BY <1>2, <1>7, FieldBytes
  <1>9. 0 < i /\ i < n /\ v = n + 2 /\ v < e
    BY <1>8 DEF LineBytes
  <1>10. InHeader(i, n, v, e)
    BY <1>3, <1>5, <1>6, <1>8 DEF HeaderOf
  <1>11. /\ h.name = i /\ h.pos = i /\ h.name_end = n /\ h.value = v /\ h.value_end = e /\ p = e + 1
    BY <1>1, <1>10 DEF InHeader, InField
  <1>12. /\ Last' = Last
         /\ \A j \in 1 .. Last : buffer'[j] = IF j = n \/ j = e THEN NUL ELSE buffer[j]
    BY <1>11, HeaderCuts
  <1>13. Last \in Nat /\ n <= Last /\ e + 1 <= Last
    <2>1. Last \in Nat
      BY <1>2, LenProperties DEF Shapes, Last
    <2>2. QED
      BY <1>1, <1>9, <1>11, <2>1
  <1>14. StringAt(i, f.name)' /\ StringAt(v, f.value)' /\ Uncut(next)' /\ Before(i)
    BY <1>1, <1>2, <1>7, <1>8, <1>12, <1>13, FieldCut
  <1>15. /\ Len(headers) \in Nat /\ Len(headers') = Len(headers) + 1
         /\ headers'[Len(headers) + 1].name = i /\ headers'[Len(headers) + 1].value = v
         /\ \A k \in 1 .. Len(headers) : headers'[k] = headers[k]
         /\ r'.method = r.method /\ r'.path_info = r.path_info
         /\ r'.query_string = r.query_string /\ r'.protocol = r.protocol
    BY <1>11, HeaderCuts, <1>2, LenProperties DEF Shapes
  <1>16. Next1' = Next1 + 1 /\ Next1 = Len(headers) + 1 /\ Next1 \in Nat
    BY <1>15 DEF Next1
  <1>17. Name = f.name
    <2>1. f.name \in Seq(Bytes) /\ Says(i, f.name, ":")
      BY <1>2, <1>7, FieldParts
    <2>2. n = i + Len(f.name)
      BY <1>8 DEF NameEnd
    <2>3. QED
      BY <1>2, <1>7, <1>11, <1>13, <2>1, <2>2, NameIs
  <1>18. /\ at.path <= i /\ at.path + Len(q.path) < i /\ at.protocol <= i
         /\ at.protocol + Len(q.protocol) < i
         /\ \A k \in 1 .. Len(headers) :
              /\ at.line[k] \in Nat /\ FieldAt(at.line[k], q.fields[k], at.line[k + 1])
              /\ ProperField(q.fields[k]) /\ at.line[k + 1] \in Nat /\ at.line[k + 1] <= i
    BY <1>2, <1>3, <1>5, <1>6, FrontEnds
  <1>19. MethodRead(q)' /\ PathRead(q, at)' /\ QueryRead(q, at)' /\ ProtocolRead(q, at)'
    BY <1>2, <1>3, <1>14, <1>15, <1>18, MethodStays, PathStays, QueryStays, ProtocolStays
  <1>20. ASSUME NEW k \in 1 .. Len(headers')
         PROVE  FieldRead(at.line[k], q.fields[k], headers[k])'
    <2>1. CASE k \in 1 .. Len(headers)
      <3>1. PICK i_k, next_k \in Nat : i_k = at.line[k] /\ next_k = at.line[k + 1]
        BY <1>18, <2>1
      <3>2. PICK f_k, header : f_k = q.fields[k] /\ header = headers[k]
        OBVIOUS
      <3>3. /\ FieldAt(i_k, f_k, next_k) /\ ProperField(f_k) /\ next_k <= i
            /\ FieldRead(i_k, f_k, header)
        BY <1>3, <1>18, <2>1, <3>1, <3>2 DEF HeadersRead
      <3>4. FieldRead(i_k, f_k, header)'
        BY <1>2, <1>14, <3>3, FieldStays
      <3>5. headers'[k] = header
        BY <1>15, <2>1, <3>2
      <3>6. QED
        BY <3>1, <3>2, <3>4, <3>5 DEF FieldRead
    <2>2. CASE k = Next1
      <3>1. headers'[k].name = i /\ headers'[k].value = v
        BY <1>15, <1>16, <2>2
      <3>2. at.line[k] = i /\ q.fields[k] = f
        BY <1>5, <1>6, <2>2
      <3>3. QED
        BY <1>8, <1>14, <3>1, <3>2 DEF FieldRead
    <2>3. QED
      BY <1>15, <1>16, <1>20, <2>1, <2>2
  <1>21. ASSUME NEW name, NEW old, NEW new, KeptOf(q, at, name, old),
                new = IF Name = name THEN h.value ELSE old
         PROVE  KeptOf(q, at, name, new)'
    <2>1. 1 .. Len(headers') = 1 .. Len(headers) \cup {Next1}
      BY <1>15, <1>16
    <2>2. CASE Name = name
      <3>1. q.fields[Next1].name = name /\ new = ValueAt(at.line[Next1], q.fields[Next1])
        BY <1>5, <1>6, <1>8, <1>11, <1>17, <1>21, <2>2
      <3>2. QED
        BY <2>1, <3>1 DEF KeptOf
    <2>3. CASE Name # name
      <3>1. q.fields[Next1].name # name /\ new = old
        BY <1>5, <1>6, <1>17, <1>21, <2>3
      <3>2. QED
        BY <1>21, <2>1, <3>1 DEF KeptOf
    <2>4. QED
      BY <2>2, <2>3
  <1>22. KeptOf(q, at, <<"T">>, r.content_type)' /\ KeptOf(q, at, <<"L">>, r.content_length)'
    <2>1. PICK type, len : type = r'.content_type /\ len = r'.content_length
      OBVIOUS
    <2>2. /\ type = IF Name = <<"T">> THEN h.value ELSE r.content_type
          /\ len = IF Name = <<"L">> THEN h.value ELSE r.content_length
      BY <2>1, HeaderCuts
    <2>3. /\ KeptOf(q, at, <<"T">>, r.content_type)
          /\ KeptOf(q, at, <<"L">>, r.content_length)
      BY <1>3 DEF HeadersRead
    <2>4. KeptOf(q, at, <<"T">>, type)'
      BY <1>21, <2>2, <2>3
    <2>5. KeptOf(q, at, <<"L">>, len)'
      BY <1>21, <2>2, <2>3
    <2>6. QED
      BY <2>1, <2>4, <2>5 DEF KeptOf
  <1>23. \A k \in 1 .. Next1' : at.line[k] <= at.line[Next1']
    <2>1. at.line[Next1'] = next
      BY <1>5, <1>6, <1>16
    <2>2. \A k \in 1 .. Next1 : at.line[k] <= i
      BY <1>3, <1>5, <1>6 DEF HeadersRead
    <2>3. \A k \in 1 .. Next1 : at.line[k] \in Nat
      <3>1. Len(q.fields) \in Nat /\ \A k \in 1 .. Len(q.fields) + 1 : at.line[k] \in Nat
        BY Places
      <3>2. QED
        BY <1>4, <1>16, <3>1
    <2>4. ASSUME NEW k \in 1 .. Next1' PROVE at.line[k] <= next
      <3>1. CASE k \in 1 .. Next1
        <4>1. PICK x \in Nat : x = at.line[k]
          BY <2>3, <3>1
        <4>2. x <= i
          BY <2>2, <3>1, <4>1
        <4>3. x <= next
          BY <1>8, <1>9, <4>2
        <4>4. QED
          BY <4>1, <4>3
      <3>2. CASE k = Next1'
        <4>1. next \in Nat
          BY <1>8
        <4>2. QED
          BY <2>1, <3>2, <4>1
      <3>3. QED
        BY <1>16, <2>4, <3>1, <3>2
    <2>5. QED
      BY <2>1, <2>4
  <1>24. HeadersRead(q, at)'
    <2>1. Uncut(at.line[Next1])'
      BY <1>5, <1>6, <1>14, <1>16 DEF Uncut
    <2>2. Len(headers') <= Len(q.fields)
      BY <1>4, <1>15, <1>16
    <2>3. QED
      BY <1>20, <1>22, <1>23, <2>1, <2>2 DEF HeadersRead
  <1>25. HeaderOf(q, at)'
    <2>1. p' = next
      BY <1>1, <1>8, <1>11
    <2>2. at.line[Next1'] = next /\ at.line[Len(headers')] = i /\ Len(headers') > 0
      BY <1>5, <1>6, <1>15, <1>16
    <2>3. h'.pos = i
      BY <1>1, <1>11
    <2>4. QED
      BY <1>1, <2>1, <2>2, <2>3 DEF HeaderOf, InHeader, InField, HeaderStates
  <1>26. QED
    BY <1>1, <1>2, <1>3, <1>19, <1>24, <1>25 DEF Reads

\* The parser never refuses a request.
LEMMA HeaderErrorNever ==
  ASSUME Inv, NEW q \in Requests, NEW at, Layout(q, at), Reads(q, at), HeaderError
  PROVE  FALSE
  <1>1. /\ pc = "headers" /\ p <= Last
        /\ \/ state = "COLON" /\ Byte # "SP"
           \/ state \in {"END", "DONE"} /\ Byte # "LF"
    BY DEF HeaderError
  <1>2. handle_read = "headers" /\ Shapes
    BY <1>1, InHeaders DEF Inv
  <1>3. HeaderOf(q, at) /\ HeadersRead(q, at)
    BY <1>2 DEF Reads
  <1>4. PICK f, next : f = q.fields[Next1] /\ next = at.line[Next1 + 1]
    OBVIOUS
  <1>5. PICK i \in Nat : i = at.line[Next1]
    BY <1>2, <1>3, HeaderLine
  <1>6. /\ Uncut(i) /\ Len(headers) \in Nat
        /\ Next1 <= Len(q.fields) => FieldAt(i, f, next) /\ ProperField(f)
        /\ ~(Next1 <= Len(q.fields)) => SaysByte(i + 1, "LF")
    BY <1>2, <1>3, <1>4, <1>5, HeaderLine
  <1>7. i <= p => Byte = sent[p]
    BY <1>1, <1>2, <1>6, ReadByte
  <1>8. PICK n, v, e : n = NameEnd(i, f) /\ v = ValueAt(i, f) /\ e = ValueEnd(i, f)
    OBVIOUS
  <1>9. /\ InHeader(i, n, v, e)
        /\ state \in InField => Next1 <= Len(q.fields)
        /\ state = "DONE" => Len(headers) = Len(q.fields)
    BY <1>3, <1>4, <1>5, <1>8 DEF HeaderOf
  <1>10. CASE state \in {"COLON", "END"}
    <2>1. n \in Nat /\ v \in Nat /\ e \in Nat /\ LineBytes(i, n, v, e)
      BY <1>2, <1>6, <1>8, <1>9, <1>10, FieldBytes DEF InField
    <2>2. /\ state = "COLON" => p = n + 1
          /\ state = "END" => p = e + 1
      BY <1>9, <1>10 DEF InHeader
    <2>3. i <= p
      BY <1>10, <2>1, <2>2 DEF LineBytes
    <2>4. QED
      BY <1>1, <1>7, <1>10, <2>1, <2>2, <2>3 DEF LineBytes
  <1>11. CASE state = "DONE"
    <2>1. p = i + 1 /\ Len(headers) = Len(q.fields)
      BY <1>9, <1>11 DEF InHeader
    <2>2. ~(Next1 <= Len(q.fields))
      BY <1>6, <2>1 DEF Next1
    <2>3. sent[p] = "LF" /\ i <= p
      BY <1>6, <2>1, <2>2 DEF SaysByte
    <2>4. QED
      BY <1>1, <1>7, <1>11, <2>3
  <1>12. QED
    BY <1>1, <1>10, <1>11

LEMMA HeadersStopReads ==
  ASSUME Inv, NEW q \in Requests, NEW at, Layout(q, at), Reads(q, at), HeadersStop
  PROVE  Reads(q, at)'
  <1>1. /\ pc = "headers" /\ p > Last /\ buffer_pos' = h.pos /\ pc' = "idle"
        /\ UNCHANGED <<sent, buffer, handle_read, r, headers, p, state, h, processed>>
    BY DEF HeadersStop
  <1>2. handle_read = "headers" /\ Shapes
    BY <1>1, InHeaders DEF Inv
  <1>3. p = Last + 1 /\ Last' = Last
    <2>1. Last \in Nat /\ p \in 1 .. Last + 1
      BY <1>2, LenProperties DEF Shapes, Last
    <2>2. QED
      BY <1>1, <2>1 DEF Last
  <1>4. /\ MethodRead(q) /\ PathRead(q, at) /\ QueryRead(q, at) /\ ProtocolRead(q, at)
        /\ HeadersRead(q, at) /\ processed = 0 /\ HeaderOf(q, at)
    BY <1>2 DEF Reads
  <1>5. /\ MethodRead(q)' /\ PathRead(q, at)' /\ QueryRead(q, at)' /\ ProtocolRead(q, at)'
    BY <1>1, <1>4 DEF MethodRead, PathRead, QueryRead, ProtocolRead, StringAt, Last
  <1>6. HeadersRead(q, at)'
    BY <1>1, <1>4 DEF HeadersRead, FieldRead, StringAt, Uncut, KeptOf, Next1, Last
  <1>7. HeaderOf(q, at)'
    BY <1>1, <1>4 DEF HeaderOf, InHeader, Next1
  <1>8. QED
    BY <1>1, <1>2, <1>3, <1>4, <1>5, <1>6, <1>7 DEF Reads

LEMMA HeadersDoneReads ==
  ASSUME Inv, NEW q \in Requests, NEW at, Layout(q, at), Reads(q, at), HeadersDone
  PROVE  Reads(q, at)'
  <1>1. /\ pc = "headers" /\ state = "DONE" /\ handle_read' = "process" /\ pc' = "idle"
        /\ processed' = processed + 1
        /\ UNCHANGED <<sent, buffer, r, headers, p, state, h>>
    BY DEF HeadersDone
  <1>2. handle_read = "headers" /\ Shapes
    BY <1>1, InHeaders DEF Inv
  <1>3. /\ MethodRead(q) /\ PathRead(q, at) /\ QueryRead(q, at) /\ ProtocolRead(q, at)
        /\ HeadersRead(q, at) /\ processed = 0 /\ HeaderOf(q, at)
    BY <1>2 DEF Reads
  <1>4. Len(headers) = Len(q.fields)
    BY <1>1, <1>3 DEF HeaderOf
  <1>5. /\ MethodRead(q)' /\ PathRead(q, at)' /\ QueryRead(q, at)' /\ ProtocolRead(q, at)'
    BY <1>1, <1>3 DEF MethodRead, PathRead, QueryRead, ProtocolRead, StringAt, Last
  <1>6. HeadersRead(q, at)'
    BY <1>1, <1>3 DEF HeadersRead, FieldRead, StringAt, Uncut, KeptOf, Next1, Last
  <1>7. processed' > 0
    BY <1>1, <1>3
  <1>8. QED
    BY <1>1, <1>4, <1>5, <1>6, <1>7 DEF Reads

-----------------------------------------------------------------------------
(* What has been read of a request, in every state.                           *)

LEMMA ReadsInit ==
  ASSUME Init
  PROVE  ReadsInv
  <1> SUFFICES ASSUME NEW q \in Requests, NEW at, Layout(q, at)
               PROVE  Reads(q, at)
    BY DEF ReadsInv
  <1>1. Last = 0 /\ p = 1 /\ state = "START" /\ pc = "idle" /\ handle_read = "request_line"
    BY DEF Init, Last
  <1>2. Uncut(1)
    BY <1>1 DEF Uncut
  <1>3. LineOf(q, at)
    BY <1>1, <1>2 DEF LineOf
  <1>4. r.content_type = NULL /\ r.content_length = NULL /\ processed = 0
    BY DEF Init
  <1>5. QED
    BY <1>1, <1>3, <1>4 DEF Reads

LEMMA LayoutSame ==
  ASSUME NEW q \in Requests, NEW at, sent' = sent, Layout(q, at)'
  PROVE  Layout(q, at)
  <1>1. ASSUME NEW i, NEW c, SaysByte(i, c)' PROVE SaysByte(i, c)
    BY <1>1 DEF SaysByte
  <1>2. ASSUME NEW i, NEW w, NEW c, Says(i, w, c)' PROVE Says(i, w, c)
    BY <1>1, <1>2 DEF Says
  <1>3. ASSUME NEW i, NEW f, NEW next, FieldAt(i, f, next)' PROVE FieldAt(i, f, next)
    BY <1>1, <1>2, <1>3 DEF FieldAt
  <1>4. QueryAt(q, at)
    BY <1>2 DEF Layout, QueryAt
  <1>5. QED
    BY <1>1, <1>2, <1>3, <1>4 DEF Layout

LEMMA ReadsStep ==
  ASSUME Inv, ReadsInv, [Next]_vars
  PROVE  ReadsInv'
  <1> SUFFICES ASSUME ~rewound', NEW q \in Requests, NEW at, Layout(q, at)'
               PROVE  Reads(q, at)'
    BY DEF ReadsInv
  <1>1. sent' = sent /\ (rewound => rewound')
    <2>1. ASSUME NEW n \in 1 .. Len(sent), Read(n)
          PROVE  sent' = sent /\ (rewound => rewound')
      BY <2>1 DEF Read
    <2>2. LineByte \/ LineEnd \/ LineStops => sent' = sent /\ rewound' = rewound
      BY DEF LineByte, LineEnd, LineStops
    <2>3. HeaderByte \/ HeaderEnds \/ HeaderError => sent' = sent /\ rewound' = rewound
      BY DEF HeaderByte, HeaderEnds, HeaderError
    <2>4. HeadersStop \/ HeadersDone => sent' = sent /\ rewound' = rewound
      BY DEF HeadersStop, HeadersDone
    <2>5. UNCHANGED vars => sent' = sent /\ rewound' = rewound
      BY DEF vars
    <2>6. QED
      BY <2>1, <2>2, <2>3, <2>4, <2>5 DEF Next
  <1>2. Layout(q, at)
    BY <1>1, LayoutSame
  <1>3. Reads(q, at)
    BY <1>1, <1>2 DEF ReadsInv
  <1>4. ASSUME NEW n \in 1 .. Len(sent), Read(n) PROVE Reads(q, at)'
    BY <1>2, <1>3, <1>4, ReadReads
  <1>5. CASE LineByte
    BY <1>2, <1>3, <1>5, LineByteReads
  <1>6. CASE LineEnd
    BY <1>2, <1>3, <1>6, LineEndReads
  <1>7. CASE LineStops
    BY <1>2, <1>3, <1>7, LineStopsReads
  <1>8. CASE HeaderByte
    BY <1>2, <1>3, <1>8, HeaderByteReads
  <1>9. CASE HeaderEnds
    BY <1>2, <1>3, <1>9, HeaderEndsReads
  <1>10. CASE HeaderError
    BY <1>2, <1>3, <1>10, HeaderErrorNever
  <1>11. CASE HeadersStop
    BY <1>2, <1>3, <1>11, HeadersStopReads
  <1>12. CASE HeadersDone
    BY <1>2, <1>3, <1>12, HeadersDoneReads
  <1>13. CASE UNCHANGED vars
    <2>1. /\ UNCHANGED <<sent, buffer, handle_read, r, headers, p, state, h, processed>>
          /\ pc' = pc /\ buffer_pos' = buffer_pos
      BY <1>13 DEF vars
    <2>2. pc # "error"
      BY <1>3 DEF Reads
    <2>3. QED
      BY <1>2, <1>3, <2>1, <2>2, ReadsSame
  <1>14. QED
    BY <1>4, <1>5, <1>6, <1>7, <1>8, <1>9, <1>10, <1>11, <1>12, <1>13 DEF Next

LEMMA ReadsInvariance == Spec => [](Inv /\ ReadsInv)
  <1>1. Init => Inv /\ ReadsInv
    BY InitInv, ReadsInit
  <1>2. Inv /\ ReadsInv /\ [Next]_vars => (Inv /\ ReadsInv)'
    BY StepInv, ReadsStep
  <1>3. QED
    BY <1>1, <1>2, PTL DEF Spec

-----------------------------------------------------------------------------
(* A stream that starts with a request has its parts in their places.         *)

Below == {ss \in Nat \X Nat : ss[1] < ss[2]}

LEMMA BelowWellFounded == IsWellFoundedOn(Below, Nat)
  BY NatLessThanWellFounded DEF OpToRel, Below

LEMMA LeastNatural ==
  ASSUME NEW S, S \subseteq Nat, S # {}
  PROVE  \E n \in S : \A m \in S : n <= m
  <1>1. PICK n \in S : \A m \in S : ~(<<m, n>> \in Below)
    BY BelowWellFounded, WFMin
  <1>2. ASSUME NEW m \in S PROVE n <= m
    <2>1. ~(<<m, n>> \in Below)
      BY <1>1
    <2>2. QED
      BY <2>1 DEF Below
  <1>3. QED
    BY <1>2

\* w stands in the stream at i.
Stands(i, w) == \A j \in i .. i + Len(w) - 1 : j \in 1 .. Len(sent) /\ sent[j] = w[j - i + 1]

LEMMA StandsSplit ==
  ASSUME NEW a \in Seq(Bytes), NEW b \in Seq(Bytes), NEW i \in Nat, NEW c, c = a \o b, Stands(i, c)
  PROVE  /\ Stands(i, a) /\ Stands(i + Len(a), b)
         /\ c \in Seq(Bytes) /\ Len(c) = Len(a) + Len(b)
  <1>1. PICK la, lb \in Nat : la = Len(a) /\ lb = Len(b)
    BY LenProperties
  <1>2. /\ c \in Seq(Bytes) /\ Len(c) = la + lb
        /\ \A k \in 1 .. la + lb : c[k] = IF k <= la THEN a[k] ELSE b[k - la]
    BY <1>1, ConcatProperties
  <1>3. ASSUME NEW j \in i .. i + la - 1
        PROVE  j \in 1 .. Len(sent) /\ sent[j] = a[j - i + 1]
    <2>1. j \in i .. i + (la + lb) - 1 /\ j - i + 1 \in 1 .. la + lb /\ j - i + 1 <= la
      OBVIOUS
    <2>2. QED
      BY <1>2, <2>1 DEF Stands
  <1>4. ASSUME NEW j \in i + la .. i + la + lb - 1
        PROVE  j \in 1 .. Len(sent) /\ sent[j] = b[j - (i + la) + 1]
    <2>1. j \in i .. i + (la + lb) - 1 /\ j - i + 1 \in 1 .. la + lb /\ ~(j - i + 1 <= la)
          /\ (j - i + 1) - la = j - (i + la) + 1
      OBVIOUS
    <2>2. sent[j] = b[(j - i + 1) - la] /\ j \in 1 .. Len(sent)
      BY <1>2, <2>1 DEF Stands
    <2>3. QED
      BY <2>1, <2>2
  <1>5. QED
    BY <1>1, <1>2, <1>3, <1>4 DEF Stands

LEMMA StandsTwo ==
  ASSUME NEW a \in Seq(Bytes), NEW b \in Seq(Bytes), NEW i \in Nat, Stands(i, a \o b)
  PROVE  /\ Stands(i, a) /\ Stands(i + Len(a), b)
         /\ a \o b \in Seq(Bytes) /\ Len(a \o b) = Len(a) + Len(b)
  BY StandsSplit

\* The first byte of what stands at i.
LEMMA StandsByte ==
  ASSUME NEW w \in Seq(Bytes), Len(w) > 0, NEW i \in Nat, Stands(i, w)
  PROVE  SaysByte(i, w[1])
  <1>1. PICK len \in Nat : len = Len(w) /\ len > 0
    BY LenProperties
  <1>2. i \in i .. i + len - 1 /\ i - i + 1 = 1
    BY <1>1
  <1>3. QED
    BY <1>1, <1>2 DEF Stands, SaysByte

\* The second one.
LEMMA StandsNext ==
  ASSUME NEW w \in Seq(Bytes), Len(w) = 2, NEW i \in Nat, Stands(i, w)
  PROVE  SaysByte(i + 1, w[2])
  <1>1. i + 1 \in i .. i + 2 - 1 /\ (i + 1) - i + 1 = 2
    OBVIOUS
  <1>2. QED
    BY <1>1 DEF Stands, SaysByte

LEMMA StandsSays ==
  ASSUME NEW w \in Seq(Bytes), NEW i \in Nat, i > 0, Stands(i, w),
         NEW u \in Seq(Bytes), Len(u) > 0, Stands(i + Len(w), u)
  PROVE  Says(i, w, u[1])
  <1>1. i + Len(w) \in Nat
    BY LenProperties
  <1>2. SaysByte(i + Len(w), u[1])
    BY <1>1, StandsByte
  <1>3. QED
    BY <1>2 DEF Says, Stands

LEMMA Marks ==
  /\ <<"SP">> \in Seq(Bytes) /\ Len(<<"SP">>) = 1 /\ <<"SP">>[1] = "SP"
  /\ <<"?">> \in Seq(Bytes) /\ Len(<<"?">>) = 1 /\ <<"?">>[1] = "?"
  /\ <<":", "SP">> \in Seq(Bytes) /\ Len(<<":", "SP">>) = 2
  /\ <<":", "SP">>[1] = ":" /\ <<":", "SP">>[2] = "SP"
  /\ CRLF \in Seq(Bytes) /\ Len(CRLF) = 2 /\ CRLF[1] = "CR" /\ CRLF[2] = "LF"
  BY DEF Bytes, CRLF

\* A header line that stands at i is one.
LEMMA WrittenField ==
  ASSUME NEW f, f.name \in Seq(Bytes), f.value \in Seq(Bytes), NEW i \in Nat, i > 0,
         NEW w, w = WriteField(f), w \in Seq(Bytes), Stands(i, w)
  PROVE  FieldAt(i, f, i + Len(w))
  <1>1. PICK colon \in Seq(Bytes) :
          /\ colon = <<":", "SP">>
          /\ Len(colon) = 2 /\ colon[1] = ":" /\ colon[2] = "SP"
    BY Marks
  <1>2. PICK crlf \in Seq(Bytes) :
          crlf = CRLF /\ Len(crlf) = 2 /\ crlf[1] = "CR" /\ crlf[2] = "LF"
    BY Marks
  <1>3. PICK name, value \in Seq(Bytes) : name = f.name /\ value = f.value
    OBVIOUS
  <1>4. PICK a \in Seq(Bytes) : a = name \o colon
    BY ConcatProperties
  <1>5. PICK b \in Seq(Bytes) : b = a \o value
    BY ConcatProperties
  <1>6. w = b \o crlf
    BY <1>1, <1>2, <1>3, <1>4, <1>5 DEF WriteField
  <1>7. Stands(i, b) /\ Stands(i + Len(b), crlf) /\ Len(w) = Len(b) + Len(crlf)
    BY <1>6, StandsSplit
  <1>8. Stands(i, a) /\ Stands(i + Len(a), value) /\ Len(b) = Len(a) + Len(value)
    <2>1. Stands(i, b) /\ b = a \o value
      BY <1>5, <1>7
    <2>2. QED
      BY <2>1, StandsSplit
  <1>9. Stands(i, name) /\ Stands(i + Len(name), colon) /\ Len(a) = Len(name) + Len(colon)
    <2>1. Stands(i, a) /\ a = name \o colon
      BY <1>4, <1>8
    <2>2. QED
      BY <2>1, StandsSplit, ZenonT(30)
  <1>10. PICK n, m \in Nat : n = Len(name) /\ m = Len(value)
    BY LenProperties
  <1>11. Len(a) = n + 2 /\ Len(b) = n + 2 + m /\ Len(w) = n + 2 + m + 2
    BY <1>1, <1>2, <1>7, <1>8, <1>9, <1>10
  <1>12. PICK j, v, e \in Nat : j = i + n /\ v = i + (n + 2) /\ e = i + (n + 2 + m)
    OBVIOUS
  <1>13. Stands(j, colon) /\ Stands(v, value) /\ Stands(e, crlf)
    BY <1>7, <1>8, <1>9, <1>10, <1>11, <1>12
  <1>14. v > 0 /\ j = i + Len(name) /\ e = v + Len(value) /\ v = i + n + 2
    BY <1>10, <1>12
  <1>15. v = ValueAt(i, f)
    BY <1>3, <1>10, <1>14 DEF ValueAt
  <1>16. Says(i, name, colon[1])
    <2>1. Len(colon) > 0 /\ Stands(i, name) /\ Stands(i + Len(name), colon)
      BY <1>1, <1>9
    <2>2. QED
      BY <2>1, StandsSays
  <1>17. Says(v, value, crlf[1])
    <2>1. Len(crlf) > 0 /\ v > 0 /\ Stands(v, value) /\ Stands(v + Len(value), crlf)
      BY <1>2, <1>13, <1>14
    <2>2. QED
      BY <2>1, StandsSays
  <1>18. SaysByte(j + 1, "SP") /\ SaysByte(e + 1, "LF")
    BY <1>1, <1>2, <1>13, StandsNext
  <1>19. i + Len(w) = e + 2
    BY <1>11, <1>12
  <1>20. QED
    BY <1>1, <1>2, <1>3, <1>14, <1>15, <1>16, <1>17, <1>18, <1>19 DEF FieldAt

\* W is the recursive function of WriteFields, over the first n fields.
WrittenBy(W, fs, n) ==
  W = [i \in 0 .. n |-> IF i = 0 THEN <<>> ELSE W[i - 1] \o WriteField(fs[i])]

LEMMA WrittenGoesOn ==
  ASSUME NEW fs, NEW n \in Nat \ {0}, NEW v, WrittenBy(v, fs, n - 1)
  PROVE  \E w : WrittenBy(w, fs, n)
  <1> DEFINE w == [i \in 0 .. n |-> IF i = n THEN v[n - 1] \o WriteField(fs[n]) ELSE v[i]]
  <1>1. \A i \in 0 .. n - 1 : v[i] = IF i = 0 THEN <<>> ELSE v[i - 1] \o WriteField(fs[i])
    BY DEF WrittenBy
  <1>2. \A i \in 0 .. n : w[i] = IF i = 0 THEN <<>> ELSE w[i - 1] \o WriteField(fs[i])
    <2> TAKE i \in 0 .. n
    <2>1. CASE i = 0
      <3>1. w[i] = v[i] /\ i \in 0 .. n - 1
        BY <2>1
      <3>2. QED
        BY <3>1, <2>1, <1>1
    <2>2. CASE i # 0 /\ i = n
      <3>1. w[i - 1] = v[i - 1]
        BY <2>2
      <3>2. QED
        BY <3>1, <2>2
    <2>3. CASE i # 0 /\ i # n
      <3>1. w[i - 1] = v[i - 1] /\ w[i] = v[i] /\ i \in 0 .. n - 1
        BY <2>3
      <3>2. QED
        BY <3>1, <2>3, <1>1
    <2>4. QED
      BY <2>1, <2>2, <2>3
  <1>3. w = [i \in 0 .. n |-> IF i = 0 THEN <<>> ELSE w[i - 1] \o WriteField(fs[i])]
    <2> HIDE DEF w
    <2>1. w = [i \in 0 .. n |-> w[i]]
      BY DEF w
    <2>2. QED
      BY <2>1, <1>2
  <1>4. QED
    BY <1>3 DEF WrittenBy

LEMMA WrittenNext ==
  ASSUME NEW fs, NEW w, NEW n \in Nat, WrittenBy(w, fs, n), NEW j \in 1 .. n
  PROVE  w[j] = w[j - 1] \o WriteField(fs[j])
  <1>1. j \in 0 .. n /\ j # 0
    OBVIOUS
  <1>2. QED
    BY <1>1 DEF WrittenBy

\* It is a function, however many fields there are.
LEMMA WrittenExists ==
  ASSUME NEW fs, NEW n \in Nat
  PROVE  \E w : WrittenBy(w, fs, n)
  <1> DEFINE Bad == {m \in Nat : ~\E w : WrittenBy(w, fs, m)}
  <1>1. SUFFICES ASSUME Bad # {} PROVE FALSE
    OBVIOUS
  <1>2. PICK m \in Bad : \A k \in Bad : m <= k
    <2>1. Bad \subseteq Nat
      OBVIOUS
    <2> HIDE DEF Bad
    <2>2. QED
      BY <1>1, <2>1, LeastNatural
  <1>3. CASE m = 0
    <2>1. WrittenBy([i \in 0 .. 0 |-> <<>>], fs, 0)
      BY DEF WrittenBy
    <2>2. QED
      BY <2>1, <1>3
  <1>4. CASE m # 0
    <2>1. m - 1 \in Nat /\ m - 1 \notin Bad
      BY <1>2, <1>4
    <2>2. PICK v : WrittenBy(v, fs, m - 1)
      BY <2>1
    <2>3. QED
      BY <2>2, <1>4, WrittenGoesOn
  <1>5. QED
    BY <1>3, <1>4

LEMMA WrittenFields ==
  ASSUME NEW fs, Len(fs) \in Nat
  PROVE  \E w : WrittenBy(w, fs, Len(fs)) /\ WriteFields(fs) = w[Len(fs)]
  <1>1. \E w : WrittenBy(w, fs, Len(fs))
    BY WrittenExists
  <1>2. PICK w : w = CHOOSE v : WrittenBy(v, fs, Len(fs))
    OBVIOUS
  <1>3. WrittenBy(w, fs, Len(fs))
    BY <1>1, <1>2
  <1>4. WriteFields(fs) = w[Len(fs)]
    BY <1>2 DEF WriteFields, WrittenBy
  <1>5. QED
    BY <1>3, <1>4

LEMMA FieldWritten ==
  ASSUME NEW f, f.name \in Seq(Bytes), f.value \in Seq(Bytes)
  PROVE  WriteField(f) \in Seq(Bytes)
  BY Marks, ConcatProperties DEF WriteField

Fields == Seq([name : Seq(Bytes), value : Seq(Bytes)])

LEMMA WrittenBytes ==
  ASSUME NEW fs \in Fields, NEW w, WrittenBy(w, fs, Len(fs)), NEW i \in 0 .. Len(fs)
  PROVE  w[i] \in Seq(Bytes)
  <1> DEFINE Bad == {m \in 0 .. Len(fs) : w[m] \notin Seq(Bytes)}
  <1>1. SUFFICES ASSUME Bad # {} PROVE FALSE
    OBVIOUS
  <1>2. PICK m \in Bad : \A k \in Bad : m <= k
    <2>1. Bad \subseteq Nat
      BY LenProperties DEF Fields
    <2> HIDE DEF Bad
    <2>2. QED
      BY <1>1, <2>1, LeastNatural
  <1>3. w[m] = IF m = 0 THEN <<>> ELSE w[m - 1] \o WriteField(fs[m])
    BY <1>2 DEF WrittenBy
  <1>4. CASE m = 0
    BY <1>2, <1>3, <1>4, EmptySeq
  <1>5. CASE m # 0
    <2>1. m - 1 \in 0 .. Len(fs) /\ m - 1 \notin Bad /\ m \in 1 .. Len(fs)
      BY <1>2, <1>5, LenProperties DEF Fields
    <2>2. w[m - 1] \in Seq(Bytes)
      BY <2>1
    <2>3. fs[m] \in [name : Seq(Bytes), value : Seq(Bytes)]
      BY <2>1, ElementOfSeq DEF Fields
    <2>4. WriteField(fs[m]) \in Seq(Bytes)
      BY <2>3, FieldWritten
    <2>5. QED
      BY <1>2, <1>3, <1>5, <2>2, <2>4, ConcatProperties, ZenonT(30)
  <1>6. QED
    BY <1>4, <1>5

\* When all fields stand at i, the first ones do.
LEMMA FirstFieldsStand ==
  ASSUME NEW fs \in Fields, NEW w, WrittenBy(w, fs, Len(fs)), NEW i \in Nat,
         Stands(i, w[Len(fs)]), NEW k \in 0 .. Len(fs)
  PROVE  Stands(i, w[k])
  <1>1. PICK n \in Nat : n = Len(fs)
    BY LenProperties DEF Fields
  <1> DEFINE Bad == {m \in 0 .. n : ~Stands(i, w[n - m])}
  <1>2. SUFFICES ASSUME Bad # {} PROVE FALSE
    <2>1. n - k \in 0 .. n /\ n - (n - k) = k
      BY <1>1
    <2>2. CASE Bad = {}
      <3>1. n - k \notin Bad
        BY <2>2
      <3>2. Stands(i, w[n - (n - k)])
        BY <2>1, <3>1
      <3>3. QED
        BY <2>1, <3>2
    <2>3. QED
      BY <1>2, <2>2
  <1>3. PICK m \in Bad : \A o \in Bad : m <= o
    <2>1. Bad \subseteq Nat
      BY <1>1
    <2> HIDE DEF Bad
    <2>2. QED
      BY <1>2, <2>1, LeastNatural
  <1>4. m \in 0 .. n /\ ~Stands(i, w[n - m])
    BY <1>3
  <1>5. m # 0
    BY <1>1, <1>4
  <1>6. PICK j \in 1 .. n : j = n - m + 1 /\ j - 1 = n - m
    BY <1>4, <1>5
  <1>7. m - 1 \in 0 .. n /\ m - 1 \notin Bad /\ n - (m - 1) = j
    BY <1>3, <1>4, <1>5, <1>6
  <1>8. Stands(i, w[j])
    BY <1>7
  <1>9. w[j] = w[j - 1] \o WriteField(fs[j])
    BY <1>1, <1>6, WrittenNext
  <1>10. w[j - 1] \in Seq(Bytes)
    BY <1>1, <1>6, WrittenBytes
  <1>11. WriteField(fs[j]) \in Seq(Bytes)
    <2>1. fs[j] \in [name : Seq(Bytes), value : Seq(Bytes)]
      BY <1>1, <1>6, ElementOfSeq DEF Fields
    <2>2. QED
      BY <2>1, FieldWritten
  <1>12. Stands(i, w[j - 1])
    BY <1>8, <1>9, <1>10, <1>11, StandsSplit
  <1>13. QED
    BY <1>4, <1>6, <1>12

\* All header lines are where they should be.
LEMMA FieldsStand ==
  ASSUME NEW fs \in Fields, NEW i \in Nat, i > 0, Stands(i, WriteFields(fs))
  PROVE  /\ WriteFields(fs) \in Seq(Bytes)
         /\ \E line \in [1 .. Len(fs) + 1 -> Nat] :
              /\ line[1] = i
              /\ line[Len(fs) + 1] = i + Len(WriteFields(fs))
              /\ \A k \in 1 .. Len(fs) : FieldAt(line[k], fs[k], line[k + 1])
  <1>1. PICK n \in Nat : n = Len(fs)
    BY LenProperties DEF Fields
  <1>2. PICK w : WrittenBy(w, fs, n) /\ WriteFields(fs) = w[n]
    BY <1>1, WrittenFields
  <1>3. \A k \in 0 .. n : w[k] \in Seq(Bytes)
    BY <1>1, <1>2, WrittenBytes
  <1>4. \A k \in 0 .. n : Stands(i, w[k])
    BY <1>1, <1>2, FirstFieldsStand
  <1>5. PICK line : line = [k \in 1 .. n + 1 |-> i + Len(w[k - 1])]
    OBVIOUS
  <1>6. line \in [1 .. n + 1 -> Nat]
    <2>1. ASSUME NEW k \in 1 .. n + 1 PROVE i + Len(w[k - 1]) \in Nat
      <3>1. k - 1 \in 0 .. n
        OBVIOUS
      <3>2. Len(w[k - 1]) \in Nat
        BY <3>1, <1>3, LenProperties
      <3>3. QED
        BY <3>2
    <2>2. QED
      BY <1>5, <2>1
  <1>7. line[1] = i
    <2>1. w[0] = <<>>
      BY <1>2 DEF WrittenBy
    <2>2. Len(w[0]) = 0
      BY <2>1, EmptySeq
    <2>3. line[1] = i + Len(w[1 - 1]) /\ 1 - 1 = 0
      BY <1>5
    <2>4. QED
      BY <2>2, <2>3
  <1>8. line[n + 1] = i + Len(w[n])
    <2>1. line[n + 1] = i + Len(w[(n + 1) - 1]) /\ (n + 1) - 1 = n
      BY <1>5
    <2>2. QED
      BY <2>1
  <1>9. ASSUME NEW k \in 1 .. n PROVE FieldAt(line[k], fs[k], line[k + 1])
    <2>1. k - 1 \in 0 .. n /\ k \in 0 .. n /\ k \in 1 .. n + 1 /\ k + 1 \in 1 .. n + 1
          /\ (k + 1) - 1 = k
      OBVIOUS
    <2>2. PICK a \in Seq(Bytes) : a = w[k - 1]
      BY <2>1, <1>3
    <2>3. fs[k] \in [name : Seq(Bytes), value : Seq(Bytes)]
      BY <1>1, ElementOfSeq DEF Fields
    <2>4. PICK b \in Seq(Bytes) : b = WriteField(fs[k])
      BY <2>3, FieldWritten
    <2>5. PICK c : c = w[k] /\ Stands(i, c)
      BY <2>1, <1>4
    <2>6. c = a \o b
      BY <1>2, <2>2, <2>4, <2>5, WrittenNext
    <2>7. Stands(i + Len(a), b) /\ Len(c) = Len(a) + Len(b)
      <3>1. Stands(i, c)
        BY <2>5
      <3>2. QED
        BY <2>6, <3>1, StandsSplit
    <2>8. PICK la, lb \in Nat : la = Len(a) /\ lb = Len(b)
      BY LenProperties
    <2>9. PICK j \in Nat : j = i + la /\ j > 0 /\ j + lb = i + (la + lb)
      OBVIOUS
    <2>10. line[k] = j
      BY <1>5, <2>1, <2>2, <2>8, <2>9
    <2>11. line[k + 1] = i + Len(c)
      BY <1>5, <2>1, <2>5
    <2>12. line[k + 1] = j + lb
      BY <2>7, <2>8, <2>9, <2>11
    <2>13. FieldAt(j, fs[k], j + Len(b))
      <3>1. Stands(j, b)
        BY <2>7, <2>8, <2>9
      <3>2. fs[k].name \in Seq(Bytes) /\ fs[k].value \in Seq(Bytes)
        BY <2>3
      <3>3. j > 0
        BY <2>9
      <3>4. QED
        BY <2>4, <3>1, <3>2, <3>3, WrittenField
    <2>14. QED
      BY <2>8, <2>10, <2>12, <2>13
  <1>10. WriteFields(fs) \in Seq(Bytes)
    BY <1>2, <1>3
  <1>11. /\ line \in [1 .. Len(fs) + 1 -> Nat] /\ line[1] = i
         /\ line[Len(fs) + 1] = i + Len(WriteFields(fs))
         /\ \A k \in 1 .. Len(fs) : FieldAt(line[k], fs[k], line[k + 1])
    BY <1>1, <1>2, <1>6, <1>7, <1>8, <1>9
  <1>12. QED
    BY <1>10, <1>11

QueryPart(q) == IF q.query = <<>> THEN <<>> ELSE <<"?">> \o q.query

\* The path and the query, with the space behind them.
LEMMA QueryStands ==
  ASSUME NEW q, q.path \in Seq(Bytes), q.query \in Seq(Bytes), NEW i \in Nat, i > 0,
         Stands(i, q.path), Stands(i + Len(q.path), QueryPart(q)),
         Stands(i + Len(q.path) + Len(QueryPart(q)), <<"SP">>)
  PROVE  /\ QueryPart(q) \in Seq(Bytes)
         /\ \E query \in Nat :
              \/ /\ q.query = <<>>
                 /\ Says(i, q.path, "SP")
                 /\ i + Len(q.path) + Len(QueryPart(q)) = i + Len(q.path)
              \/ /\ q.query # <<>>
                 /\ Says(i, q.path, "?")
                 /\ query = i + Len(q.path) + 1
                 /\ Says(query, q.query, "SP")
                 /\ i + Len(q.path) + Len(QueryPart(q)) = query + Len(q.query)
  <1>1. PICK space \in Seq(Bytes) : space = <<"SP">> /\ Len(space) = 1 /\ space[1] = "SP"
    BY Marks
  <1>2. PICK mark \in Seq(Bytes) : mark = <<"?">> /\ Len(mark) = 1 /\ mark[1] = "?"
    BY Marks
  <1>3. PICK path, query \in Seq(Bytes) : path = q.path /\ query = q.query
    OBVIOUS
  <1>4. PICK part : part = QueryPart(q)
    OBVIOUS
  <1>5. PICK lp, lq \in Nat : lp = Len(path) /\ lq = Len(query)
    BY LenProperties
  <1>6. PICK j \in Nat : j = i + lp /\ j > 0
    OBVIOUS
  <1>7. Stands(i, path) /\ Stands(i + Len(path), part) /\ Stands(j + Len(part), space)
    BY <1>1, <1>3, <1>4, <1>5, <1>6
  <1>8. CASE query = <<>>
    <2>1. part = <<>> /\ part \in Seq(Bytes) /\ Len(part) = 0
      BY <1>3, <1>4, <1>8, EmptySeq DEF QueryPart
    <2>2. j + Len(part) = j /\ j = i + Len(path)
      BY <1>5, <1>6, <2>1
    <2>3. Stands(i + Len(path), space) /\ Len(space) > 0
      BY <1>1, <1>7, <2>2
    <2>4. Says(i, path, "SP")
      BY <1>1, <1>7, <2>3, StandsSays
    <2>5. i + Len(q.path) + Len(QueryPart(q)) = i + Len(q.path)
      BY <1>3, <1>4, <1>5, <1>6, <2>2
    <2>6. QED
      BY <1>3, <1>4, <1>8, <2>1, <2>4, <2>5
  <1>9. CASE query # <<>>
    <2>1. part = mark \o query
      BY <1>2, <1>3, <1>4, <1>9 DEF QueryPart
    <2>2. Stands(j, part)
      BY <1>5, <1>6, <1>7
    <2>3. /\ Stands(j, mark) /\ Stands(j + Len(mark), query)
          /\ part \in Seq(Bytes) /\ Len(part) = Len(mark) + Len(query)
      BY <2>1, <2>2, StandsSplit, ZenonT(30)
    <2>4. PICK k \in Nat : k = j + 1 /\ k > 0
      OBVIOUS
    <2>5. Stands(k, query)
      BY <1>2, <2>3, <2>4
    <2>6. j + Len(part) = k + Len(query)
      BY <1>2, <1>5, <2>3, <2>4
    <2>7. Stands(k + Len(query), space) /\ Len(space) > 0
      BY <1>1, <1>7, <2>6
    <2>8. Says(k, query, "SP")
      BY <1>1, <2>4, <2>5, <2>7, StandsSays
    <2>9. Stands(i + Len(path), mark) /\ Len(mark) > 0
      BY <1>2, <1>5, <1>6, <2>3
    <2>10. Says(i, path, "?")
      BY <1>2, <1>7, <2>9, StandsSays
    <2>11. k = i + Len(q.path) + 1
      BY <1>3, <1>5, <1>6, <2>4
    <2>12. i + Len(q.path) + Len(QueryPart(q)) = k + Len(q.query)
      BY <1>3, <1>4, <1>5, <1>6, <2>6
    <2>13. QED
      BY <1>3, <1>4, <1>9, <2>3, <2>8, <2>10, <2>11, <2>12
  <1>10. QED
    BY <1>8, <1>9

LEMMA PartOfRequest ==
  ASSUME NEW q \in Requests
  PROVE  /\ q.method \in Seq(Bytes) /\ q.path \in Seq(Bytes) /\ q.query \in Seq(Bytes)
         /\ q.protocol \in Seq(Bytes) /\ q.fields \in Fields
  BY ProperParts, EmptySeq DEF Part, Fields

LEMMA QueryPartBytes ==
  ASSUME NEW q \in Requests
  PROVE  QueryPart(q) \in Seq(Bytes)
  <1>1. PICK mark \in Seq(Bytes) : mark = <<"?">>
    BY Marks
  <1>2. mark \o q.query \in Seq(Bytes)
    BY PartOfRequest, ConcatProperties
  <1>3. QED
    BY <1>1, <1>2, EmptySeq DEF QueryPart

\* The parts of the request line, when it stands at the start.
LEMMA LineStands ==
  ASSUME NEW q \in Requests, NEW w, w = WriteLine(q), Stands(1, w)
  PROVE  /\ w \in Seq(Bytes)
         /\ \E path, query, protocol \in Nat :
              LET at == [path |-> path, query |-> query, protocol |-> protocol]
              IN  /\ Says(1, q.method, "SP")
                  /\ path = Len(q.method) + 2
                  /\ QueryAt(q, at)
                  /\ Says(protocol, q.protocol, "CR")
                  /\ SaysByte(protocol + Len(q.protocol) + 1, "LF")
                  /\ 1 + Len(w) = protocol + Len(q.protocol) + 2
  <1>1. PICK space \in Seq(Bytes) : space = <<"SP">> /\ Len(space) = 1 /\ space[1] = "SP"
    BY Marks
  <1>2. PICK crlf \in Seq(Bytes) :
          crlf = CRLF /\ Len(crlf) = 2 /\ crlf[1] = "CR" /\ crlf[2] = "LF"
    BY Marks
  <1>3. PICK a, b, c, d \in Seq(Bytes) :
          a = q.method /\ b = q.path /\ c = QueryPart(q) /\ d = q.protocol
    BY PartOfRequest, QueryPartBytes
  <1>4. PICK w1 \in Seq(Bytes) : w1 = a \o space
    BY ConcatProperties
  <1>5. PICK w2 \in Seq(Bytes) : w2 = w1 \o b
    BY ConcatProperties
  <1>6. PICK w3 \in Seq(Bytes) : w3 = w2 \o c
    BY ConcatProperties
  <1>7. PICK w4 \in Seq(Bytes) : w4 = w3 \o space
    BY ConcatProperties
  <1>8. PICK w5 \in Seq(Bytes) : w5 = w4 \o d
    BY ConcatProperties
  <1>9. w = w5 \o crlf
    BY <1>1, <1>2, <1>3, <1>4, <1>5, <1>6, <1>7, <1>8 DEF WriteLine, QueryPart
  <1>10. Stands(1, w5) /\ Stands(1 + Len(w5), crlf) /\ w \in Seq(Bytes)
         /\ Len(w) = Len(w5) + Len(crlf)
    BY <1>9, StandsSplit, ZenonT(30)
  <1>11. Stands(1, w4) /\ Stands(1 + Len(w4), d) /\ Len(w5) = Len(w4) + Len(d)
    <2>1. Stands(1, w4 \o d)
      BY <1>10, <1>8
    <2>2. Stands(1, w4) /\ Stands(1 + Len(w4), d) /\ Len(w4 \o d) = Len(w4) + Len(d)
      BY <2>1, StandsTwo
    <2>3. QED
      BY <1>8, <2>2
  <1>12. Stands(1, w3) /\ Stands(1 + Len(w3), space) /\ Len(w4) = Len(w3) + Len(space)
    <2>1. Stands(1, w3 \o space)
      BY <1>11, <1>7
    <2>2. Stands(1, w3) /\ Stands(1 + Len(w3), space) /\ Len(w3 \o space) = Len(w3) + Len(space)
      BY <2>1, StandsTwo
    <2>3. QED
      BY <1>7, <2>2
  <1>13. Stands(1, w2) /\ Stands(1 + Len(w2), c) /\ Len(w3) = Len(w2) + Len(c)
    <2>1. Stands(1, w2 \o c)
      BY <1>12, <1>6
    <2>2. Stands(1, w2) /\ Stands(1 + Len(w2), c) /\ Len(w2 \o c) = Len(w2) + Len(c)
      BY <2>1, StandsTwo
    <2>3. QED
      BY <1>6, <2>2
  <1>14. Stands(1, w1) /\ Stands(1 + Len(w1), b) /\ Len(w2) = Len(w1) + Len(b)
    <2>1. Stands(1, w1 \o b)
      BY <1>13, <1>5
    <2>2. Stands(1, w1) /\ Stands(1 + Len(w1), b) /\ Len(w1 \o b) = Len(w1) + Len(b)
      BY <2>1, StandsTwo
    <2>3. QED
      BY <1>5, <2>2
  <1>15. Stands(1, a) /\ Stands(1 + Len(a), space) /\ Len(w1) = Len(a) + Len(space)
    <2>1. Stands(1, a \o space)
      BY <1>14, <1>4
    <2>2. Stands(1, a) /\ Stands(1 + Len(a), space) /\ Len(a \o space) = Len(a) + Len(space)
      BY <2>1, StandsTwo
    <2>3. QED
      BY <1>4, <2>2
  <1>16. PICK la, lb, lc, ld \in Nat : la = Len(a) /\ lb = Len(b) /\ lc = Len(c) /\ ld = Len(d)
    BY LenProperties
  <1>17. PICK i \in Nat : i = la + 2 /\ i = 1 + Len(w1) /\ i > 0
    BY <1>1, <1>15, <1>16
  <1>18. /\ 1 + Len(w2) = i + lb /\ 1 + Len(w3) = i + lb + lc /\ 1 + Len(w4) = i + lb + lc + 1
         /\ 1 + Len(w5) = i + lb + lc + 1 + ld /\ 1 + Len(w) = i + lb + lc + 1 + ld + 2
    BY <1>1, <1>2, <1>10, <1>11, <1>12, <1>13, <1>14, <1>15, <1>16, <1>17
  <1>19. PICK o, e \in Nat : o = i + lb + lc + 1 /\ e = o + ld /\ o > 0
    OBVIOUS
  <1>20. /\ Stands(i, q.path) /\ Stands(i + Len(q.path), QueryPart(q))
         /\ Stands(i + Len(q.path) + Len(QueryPart(q)), <<"SP">>)
    <2>1. Stands(i, b) /\ Stands(i + lb, c) /\ Stands(i + lb + lc, space)
      BY <1>12, <1>13, <1>14, <1>17, <1>18
    <2>2. QED
      BY <1>1, <1>3, <1>16, <2>1
  <1>21. PICK query \in Nat :
              \/ /\ q.query = <<>>
                 /\ Says(i, q.path, "SP")
                 /\ i + Len(q.path) + Len(QueryPart(q)) = i + Len(q.path)
              \/ /\ q.query # <<>>
                 /\ Says(i, q.path, "?")
                 /\ query = i + Len(q.path) + 1
                 /\ Says(query, q.query, "SP")
                 /\ i + Len(q.path) + Len(QueryPart(q)) = query + Len(q.query)
    BY <1>17, <1>20, PartOfRequest, QueryStands
  <1>22. o = (i + Len(q.path) + Len(QueryPart(q))) + 1
    BY <1>3, <1>16, <1>19
  <1>23. QueryAt(q, [path |-> i, query |-> query, protocol |-> o])
    <2>1. CASE q.query = <<>>
      BY <1>21, <1>22, <2>1 DEF QueryAt
    <2>2. CASE q.query # <<>>
      BY <1>21, <1>22, <2>2 DEF QueryAt
    <2>3. QED
      BY <2>1, <2>2
  <1>24. Says(1, q.method, "SP")
    <2>1. Len(space) > 0 /\ Stands(1, a) /\ Stands(1 + Len(a), space)
      BY <1>1, <1>15
    <2>2. Says(1, a, space[1])
      BY <2>1, StandsSays
    <2>3. QED
      BY <1>1, <1>3, <2>2
  <1>25. Stands(o, d) /\ Stands(e, crlf) /\ e = o + Len(d)
    BY <1>10, <1>11, <1>16, <1>18, <1>19
  <1>26. Says(o, q.protocol, "CR")
    <2>1. Len(crlf) > 0 /\ o > 0
      BY <1>2, <1>19
    <2>2. Stands(o, d) /\ Stands(o + Len(d), crlf)
      BY <1>25
    <2>3. Says(o, d, crlf[1])
      BY <2>1, <2>2, StandsSays
    <2>4. QED
      BY <1>2, <1>3, <2>3
  <1>27. SaysByte(e + 1, "LF")
    BY <1>2, <1>25, StandsNext
  <1>28. i = Len(q.method) + 2 /\ e = o + Len(q.protocol)
    BY <1>3, <1>16, <1>17, <1>19
  <1>29. 1 + Len(w) = e + 2
    BY <1>18, <1>19
  <1>30. QED
    BY <1>10, <1>23, <1>24, <1>26, <1>27, <1>28, <1>29

LEMMA WriteFieldsBytes ==
  ASSUME NEW fs \in Fields
  PROVE  WriteFields(fs) \in Seq(Bytes)
  <1>1. PICK n \in Nat : n = Len(fs)
    BY LenProperties DEF Fields
  <1>2. PICK w : WrittenBy(w, fs, n) /\ WriteFields(fs) = w[n]
    BY <1>1, WrittenFields
  <1>3. n \in 0 .. n
    OBVIOUS
  <1>4. QED
    BY <1>1, <1>2, <1>3, WrittenBytes

LEMMA WriteLineBytes ==
  ASSUME NEW q \in Requests
  PROVE  WriteLine(q) \in Seq(Bytes)
  <1>1. <<"SP">> \in Seq(Bytes) /\ CRLF \in Seq(Bytes)
    BY Marks
  <1>2. WriteLine(q) = q.method \o <<"SP">> \o q.path \o QueryPart(q) \o <<"SP">>
                         \o q.protocol \o CRLF
    BY DEF WriteLine, QueryPart
  <1>3. QED
    BY <1>1, <1>2, PartOfRequest, QueryPartBytes, ConcatProperties

LEMMA LayoutExists ==
  ASSUME NEW q \in Requests, sent \in Seq(Bytes), IsOf(q)
  PROVE  \E at : Layout(q, at)
  <1>1. PICK crlf \in Seq(Bytes) :
          crlf = CRLF /\ Len(crlf) = 2 /\ crlf[1] = "CR" /\ crlf[2] = "LF"
    BY Marks
  <1>2. PICK body \in Seq(Bytes) : sent = Write(q) \o body
    BY MessagesAssumption DEF IsOf
  <1>3. PICK a \in Seq(Bytes) : a = WriteLine(q)
    BY WriteLineBytes
  <1>4. PICK b \in Seq(Bytes) : b = WriteFields(q.fields)
    BY PartOfRequest, WriteFieldsBytes
  <1>5. PICK w1 \in Seq(Bytes) : w1 = a \o b
    BY ConcatProperties
  <1>6. PICK w2 \in Seq(Bytes) : w2 = w1 \o crlf
    BY ConcatProperties
  <1>7. sent = w2 \o body
    BY <1>1, <1>2, <1>3, <1>4, <1>5, <1>6 DEF Write
  <1>8. Stands(1, sent)
    <2>1. PICK n \in Nat : n = Len(sent)
      BY LenProperties
    <2>2. \A j \in 1 .. 1 + n - 1 : j \in 1 .. n /\ j - 1 + 1 = j
      OBVIOUS
    <2>3. QED
      BY <2>1, <2>2 DEF Stands
  <1>9. Stands(1, w2)
    BY <1>7, <1>8, StandsSplit
  <1>10. Stands(1, w1) /\ Stands(1 + Len(w1), crlf)
    BY <1>6, <1>9, StandsSplit
  <1>11. Stands(1, a) /\ Stands(1 + Len(a), b) /\ Len(w1) = Len(a) + Len(b)
    <2>1. Stands(1, a \o b)
      BY <1>10, <1>5
    <2>2. Stands(1, a) /\ Stands(1 + Len(a), b) /\ Len(a \o b) = Len(a) + Len(b)
      BY <2>1, StandsTwo
    <2>3. QED
      BY <1>5, <2>2
  <1>12. PICK path, query, protocol \in Nat :
           LET at == [path |-> path, query |-> query, protocol |-> protocol]
           IN  /\ Says(1, q.method, "SP")
               /\ path = Len(q.method) + 2
               /\ QueryAt(q, at)
               /\ Says(protocol, q.protocol, "CR")
               /\ SaysByte(protocol + Len(q.protocol) + 1, "LF")
               /\ 1 + Len(a) = protocol + Len(q.protocol) + 2
    BY <1>3, <1>11, LineStands
  <1>13. PICK la, lb \in Nat : la = Len(a) /\ lb = Len(b)
    BY LenProperties
  <1>14. PICK i \in Nat : i = 1 + la /\ i > 0 /\ i + lb = 1 + (la + lb)
    OBVIOUS
  <1>15. PICK line \in [1 .. Len(q.fields) + 1 -> Nat] :
           /\ line[1] = i
           /\ line[Len(q.fields) + 1] = i + Len(WriteFields(q.fields))
           /\ \A k \in 1 .. Len(q.fields) : FieldAt(line[k], q.fields[k], line[k + 1])
    <2>1. i > 0 /\ Stands(i, WriteFields(q.fields))
      BY <1>4, <1>11, <1>13, <1>14
    <2>2. QED
      BY <2>1, PartOfRequest, FieldsStand
  <1>16. PICK e \in Nat : e = i + lb
    OBVIOUS
  <1>17. line[Len(q.fields) + 1] = e /\ Stands(e, crlf)
    BY <1>4, <1>10, <1>11, <1>13, <1>14, <1>15, <1>16
  <1>18. SaysByte(e, "CR") /\ SaysByte(e + 1, "LF")
    <2>1. Len(crlf) > 0
      BY <1>1
    <2>2. QED
      BY <1>1, <1>17, <2>1, StandsByte, StandsNext
  <1>19. PICK at : at = [path |-> path, query |-> query, protocol |-> protocol, line |-> line]
    OBVIOUS
  <1>20. at.path = path /\ at.query = query /\ at.protocol = protocol /\ at.line = line
    BY <1>19
  <1>21. QueryAt(q, at)
    BY <1>12, <1>20 DEF QueryAt
  <1>22. i = protocol + Len(q.protocol) + 2
    BY <1>12, <1>13, <1>14
  <1>23. Layout(q, at)
    BY <1>12, <1>15, <1>17, <1>18, <1>20, <1>21, <1>22 DEF Layout
  <1>24. QED
    BY <1>23

-----------------------------------------------------------------------------
(* What the runtime is given is what was written.                             *)

\* The headers of the request are the fields that were written.
LEMMA HeadersGiven ==
  ASSUME Shapes, NEW q \in Requests, NEW at, Layout(q, at), HeadersRead(q, at),
         Len(headers) = Len(q.fields), NEW i \in 1 .. Len(headers)
  PROVE  /\ Header(i) = q.fields[i]
         /\ headers[i].value = ValueAt(at.line[i], q.fields[i])
  <1>1. Len(q.fields) \in Nat /\ i \in 1 .. Len(q.fields) + 1 /\ i \in 1 .. Len(q.fields)
    BY Places
  <1>2. PICK l \in Nat : l = at.line[i]
    BY <1>1, Places
  <1>3. PICK f \in [name : Seq(Bytes), value : Seq(Bytes)] : f = q.fields[i]
    BY <1>1, ProperParts, ElementOfSeq
  <1>4. FieldRead(l, f, headers[i])
    BY <1>2, <1>3 DEF HeadersRead
  <1>5. PICK v \in Nat : v = ValueAt(l, f)
    <2>1. Len(f.name) \in Nat
      BY <1>3, LenProperties
    <2>2. QED
      BY <2>1 DEF ValueAt
  <1>6. /\ headers[i].name = l /\ headers[i].value = v
        /\ StringAt(l, f.name) /\ StringAt(v, f.value)
    BY <1>4, <1>5 DEF FieldRead
  <1>7. f.name \in Seq(Bytes) /\ f.value \in Seq(Bytes)
    BY <1>3
  <1>8. CString(l) = f.name /\ CString(v) = f.value
    BY <1>6, <1>7, StringIs
  <1>9. Header(i) = [name |-> f.name, value |-> f.value]
    BY <1>6, <1>8 DEF Header
  <1>10. f = [name |-> f.name, value |-> f.value]
    BY <1>3
  <1>11. QED
    BY <1>2, <1>3, <1>5, <1>6, <1>9, <1>10

ValuesOf(name) == {headers[i].value : i \in {j \in 1 .. Len(headers) : Header(j).name = name}}

\* A field that is kept for a name is the value of a header with that name.
LEMMA KeptGiven ==
  ASSUME NEW q, NEW at, NEW name, NEW value, KeptOf(q, at, name, value),
         \A i \in 1 .. Len(headers) :
           /\ Header(i) = q.fields[i]
           /\ headers[i].value = ValueAt(at.line[i], q.fields[i])
  PROVE  value \in IF ValuesOf(name) = {} THEN {NULL} ELSE ValuesOf(name)
  <1> DEFINE named == {j \in 1 .. Len(headers) : Header(j).name = name}
  <1>1. CASE value = NULL /\ \A i \in 1 .. Len(headers) : q.fields[i].name # name
    <2>1. named = {}
      BY <1>1
    <2>2. ValuesOf(name) = {}
      BY <2>1 DEF ValuesOf
    <2>3. QED
      BY <1>1, <2>2
  <1>2. ASSUME NEW i \in 1 .. Len(headers), q.fields[i].name = name,
               value = ValueAt(at.line[i], q.fields[i])
        PROVE  value \in ValuesOf(name)
    <2>1. i \in named /\ headers[i].value = value
      BY <1>2
    <2>2. QED
      BY <2>1 DEF ValuesOf
  <1>3. QED
    BY <1>1, <1>2 DEF KeptOf

LEMMA StringsGiven ==
  ASSUME Shapes, NEW q \in Requests, NEW at, Layout(q, at),
         MethodRead(q), PathRead(q, at), QueryRead(q, at), ProtocolRead(q, at)
  PROVE  /\ CString(r.method) = q.method /\ CString(r.path_info) = q.path
         /\ QueryString = q.query /\ CString(r.protocol) = q.protocol
  <1>1. /\ at.path \in Nat /\ at.query \in Nat /\ at.protocol \in Nat
        /\ q.method \in Seq(Bytes) /\ q.path \in Seq(Bytes) /\ q.protocol \in Seq(Bytes)
        /\ q.query \in Seq(Bytes)
    BY Places
  <1>2. CString(r.method) = q.method
    BY <1>1, StringIs DEF MethodRead
  <1>3. CString(r.path_info) = q.path
    BY <1>1, StringIs DEF PathRead
  <1>4. CString(r.protocol) = q.protocol
    BY <1>1, StringIs DEF ProtocolRead
  <1>5. QueryString = q.query
    <2>1. CASE q.query = <<>> /\ r.query_string = Empty
      BY <2>1 DEF QueryString
    <2>2. CASE q.query # <<>> /\ r.query_string = at.query /\ StringAt(at.query, q.query)
      <3>1. r.query_string # Empty
        BY <1>1, <2>2 DEF Empty
      <3>2. CString(at.query) = q.query
        BY <1>1, <2>2, StringIs
      <3>3. QED
        BY <2>2, <3>1, <3>2 DEF QueryString
    <2>3. QED
      BY <2>1, <2>2 DEF QueryRead
  <1>6. QED
    BY <1>2, <1>3, <1>4, <1>5

LEMMA ParsesIt ==
  ASSUME Inv, ReadsInv
  PROVE  ParsesWhatWasSent
  <1> SUFFICES ASSUME processed > 0, ~rewound, sent \in RequestStreams
               PROVE  /\ \E q \in Requests :
                           /\ IsOf(q)
                           /\ CString(r.method) = q.method /\ CString(r.path_info) = q.path
                           /\ QueryString = q.query /\ CString(r.protocol) = q.protocol
                           /\ [i \in 1 .. Len(headers) |-> Header(i)] = q.fields
                      /\ r.content_type \in IF ContentTypes = {} THEN {NULL} ELSE ContentTypes
                      /\ r.content_length \in IF ContentLengths = {} THEN {NULL} ELSE ContentLengths
    BY DEF ParsesWhatWasSent
  <1>1. Shapes /\ sent \in Seq(Bytes)
    BY DEF Inv, Shapes
  <1>2. PICK q \in Requests : IsOf(q)
    BY DEF RequestStreams, IsOf
  <1>3. PICK at : Layout(q, at)
    BY <1>1, <1>2, LayoutExists
  <1>4. Reads(q, at)
    BY <1>3 DEF ReadsInv
  <1>5. handle_read = "process"
    BY <1>4 DEF Reads
  <1>6. /\ MethodRead(q) /\ PathRead(q, at) /\ QueryRead(q, at) /\ ProtocolRead(q, at)
        /\ HeadersRead(q, at) /\ Len(headers) = Len(q.fields)
    BY <1>4, <1>5 DEF Reads
  <1>7. /\ CString(r.method) = q.method /\ CString(r.path_info) = q.path
        /\ QueryString = q.query /\ CString(r.protocol) = q.protocol
    BY <1>1, <1>3, <1>6, StringsGiven
  <1>8. \A i \in 1 .. Len(headers) :
          /\ Header(i) = q.fields[i]
          /\ headers[i].value = ValueAt(at.line[i], q.fields[i])
    BY <1>1, <1>3, <1>6, HeadersGiven
  <1>9. [i \in 1 .. Len(headers) |-> Header(i)] = q.fields
    <2>1. q.fields = [i \in 1 .. Len(q.fields) |-> q.fields[i]]
      BY ProperParts, LenProperties
    <2>2. QED
      BY <1>6, <1>8, <2>1
  <1>10. KeptOf(q, at, <<"T">>, r.content_type) /\ KeptOf(q, at, <<"L">>, r.content_length)
    BY <1>6 DEF HeadersRead
  <1>11. r.content_type \in IF ContentTypes = {} THEN {NULL} ELSE ContentTypes
    <2>1. r.content_type \in IF ValuesOf(<<"T">>) = {} THEN {NULL} ELSE ValuesOf(<<"T">>)
      BY <1>8, <1>10, KeptGiven
    <2>2. ContentTypes = ValuesOf(<<"T">>)
      BY DEF ContentTypes, ValuesOf
    <2>3. QED
      BY <2>1, <2>2
  <1>12. r.content_length \in IF ContentLengths = {} THEN {NULL} ELSE ContentLengths
    <2>1. r.content_length \in IF ValuesOf(<<"L">>) = {} THEN {NULL} ELSE ValuesOf(<<"L">>)
      BY <1>8, <1>10, KeptGiven
    <2>2. ContentLengths = ValuesOf(<<"L">>)
      BY DEF ContentLengths, ValuesOf
    <2>3. QED
      BY <2>1, <2>2
  <1>13. QED
    BY <1>2, <1>7, <1>9, <1>11, <1>12

\* If no read has begun at a header line that had been parsed (~rewound, the
\* condition in ParsesWhatWasSent), what the runtime reads in the buffer is the
\* request that was written: method, path, query, protocol and every header,
\* for requests with parts of any length and any number of headers.
THEOREM RuntimeGetsTheRequest == Spec => []ParsesWhatWasSent
  BY ReadsInvariance, ParsesIt, PTL

-----------------------------------------------------------------------------
(* Nothing of a request is left over.                                         *)

\* A part that is said ends inside the stream.
LEMMA SaysInside ==
  ASSUME NEW i \in Nat, NEW w, NEW c, Says(i, w, c), Len(w) \in Nat, Len(sent) \in Nat
  PROVE  i + Len(w) <= Len(sent)
  BY DEF Says, SaysByte

\* In the request line the parser is in front of a byte of the request.
LEMMA LineInside ==
  ASSUME Inv, NEW q \in Requests, NEW at, Layout(q, at), LineOf(q, at),
         handle_read = "request_line"
  PROVE  p <= Len(sent)
  <1>1. Len(sent) \in Nat
    BY LenProperties DEF Inv, Shapes
  <1>2. /\ at.path \in Nat /\ at.query \in Nat /\ at.protocol \in Nat
        /\ Len(q.method) \in Nat /\ Len(q.path) \in Nat /\ Len(q.protocol) \in Nat
        /\ Len(q.query) \in Nat
        /\ at.path = 1 + Len(q.method) + 1
        /\ Says(1, q.method, "SP") /\ Says(at.protocol, q.protocol, "CR")
    BY Places
  <1>3. 1 + Len(q.method) <= Len(sent) /\ at.protocol + Len(q.protocol) <= Len(sent)
    BY <1>1, <1>2, SaysInside
  <1>4. at.path + Len(q.path) <= Len(sent)
    BY <1>1, <1>2, Places, SaysInside
  <1>5. q.query # <<>> => at.query + Len(q.query) <= Len(sent)
    BY <1>1, <1>2, Places, SaysInside
  <1>6. at.protocol + Len(q.protocol) + 1 <= Len(sent)
    BY DEF Layout, SaysByte
  <1>7. p \in Nat
    BY LenProperties DEF Inv, Shapes, Last
  <1>8. PICK path, query, protocol, m, n, o, e, size \in Nat :
          /\ path = at.path /\ query = at.query /\ protocol = at.protocol
          /\ m = Len(q.method) /\ n = Len(q.path) /\ o = Len(q.query) /\ e = Len(q.protocol)
          /\ size = Len(sent)
    BY <1>1, <1>2
  <1>9. /\ 1 + m <= size /\ path + n <= size /\ protocol + e + 1 <= size
        /\ q.query # <<>> => query + o <= size
    BY <1>3, <1>4, <1>5, <1>6, <1>8
  <1>10. state \in LineStates
    BY DEF Inv, LinePlace
  <1>11. CASE state = "START"
    BY <1>8, <1>9, <1>11 DEF LineOf
  <1>12. CASE state = "METHOD"
    <2>1. p \in 1 + 1 .. 1 + m
      BY <1>8, <1>12 DEF LineOf, Inside
    <2>2. QED
      BY <1>7, <1>8, <1>9, <2>1
  <1>13. CASE state = "SPACE1"
    <2>1. p = path
      BY <1>8, <1>13 DEF LineOf
    <2>2. QED
      BY <1>8, <1>9, <2>1
  <1>14. CASE state = "URI"
    <2>1. p \in path + 1 .. path + n
      BY <1>8, <1>14 DEF LineOf, Inside
    <2>2. QED
      BY <1>7, <1>8, <1>9, <2>1
  <1>15. CASE state = "MARK"
    <2>1. p = query /\ q.query # <<>>
      BY <1>8, <1>15 DEF LineOf
    <2>2. QED
      BY <1>8, <1>9, <2>1
  <1>16. CASE state = "QUERY"
    <2>1. p \in query + 1 .. query + o /\ q.query # <<>>
      BY <1>8, <1>16 DEF LineOf, Inside
    <2>2. QED
      BY <1>7, <1>8, <1>9, <2>1
  <1>17. CASE state = "SPACE2"
    <2>1. p = protocol
      BY <1>8, <1>17 DEF LineOf
    <2>2. QED
      BY <1>8, <1>9, <2>1
  <1>18. CASE state = "PROTOCOL"
    <2>1. p \in protocol + 1 .. protocol + e
      BY <1>8, <1>18 DEF LineOf, Inside
    <2>2. QED
      BY <1>7, <1>8, <1>9, <2>1
  <1>19. CASE state = "END"
    <2>1. p = protocol + e + 1
      BY <1>8, <1>19 DEF LineOf
    <2>2. QED
      BY <1>8, <1>9, <2>1
  <1>20. QED
    BY <1>10, <1>11, <1>12, <1>13, <1>14, <1>15, <1>16, <1>17, <1>18, <1>19 DEF LineStates

\* And so it is in the headers.
LEMMA HeaderInside ==
  ASSUME Inv, NEW q \in Requests, NEW at, Layout(q, at), HeadersRead(q, at), HeaderOf(q, at)
  PROVE  p <= Len(sent)
  <1>1. Shapes /\ Len(sent) \in Nat /\ p \in Nat
    BY LenProperties DEF Inv, Shapes, Last
  <1>2. PICK f, next : f = q.fields[Next1] /\ next = at.line[Next1 + 1]
    OBVIOUS
  <1>3. PICK i \in Nat : i = at.line[Next1]
    BY <1>1, HeaderLine
  <1>4. /\ state \in HeaderStates
        /\ InHeader(i, NameEnd(i, f), ValueAt(i, f), ValueEnd(i, f))
        /\ state \in InField => Next1 <= Len(q.fields)
        /\ state = "DONE" => Len(headers) = Len(q.fields)
    BY <1>2, <1>3 DEF HeaderOf
  <1>5. CASE Next1 <= Len(q.fields)
    <2>1. FieldAt(i, f, next) /\ ProperField(f)
      BY <1>1, <1>2, <1>3, <1>5, HeaderLine
    <2>2. PICK n, v, e \in Nat :
            /\ n = NameEnd(i, f) /\ v = ValueAt(i, f) /\ e = ValueEnd(i, f)
            /\ next = e + 2 /\ LineBytes(i, n, v, e)
      BY <1>1, <2>1, FieldBytes
    <2>3. InHeader(i, n, v, e)
      BY <1>4, <2>2
    <2>4. i < n /\ v = n + 2 /\ v < e
      BY <2>2 DEF LineBytes
    <2>5. e + 1 \in 1 .. Len(sent)
      <3>1. SaysByte(ValueAt(i, f) + Len(f.value) + 1, "LF")
        BY <2>1 DEF FieldAt
      <3>2. e = ValueAt(i, f) + Len(f.value)
        BY <2>2 DEF ValueEnd
      <3>3. QED
        BY <3>1, <3>2 DEF SaysByte
    <2>6. state # "DONE"
      <3>1. Len(headers) \in Nat /\ Len(headers) + 1 <= Len(q.fields) /\ Len(q.fields) \in Nat
        BY <1>1, <1>5, HeaderLine DEF Next1
      <3>2. QED
        BY <1>4, <3>1
    <2>7. p \in i .. e + 1
      <3>1. CASE state = "START" \/ state = "NAME"
        BY <2>3, <2>4, <3>1 DEF InHeader
      <3>2. CASE state = "COLON" \/ state = "SPACE"
        BY <2>3, <2>4, <3>2 DEF InHeader
      <3>3. CASE state = "VALUE" \/ state = "END"
        BY <2>3, <2>4, <3>3 DEF InHeader
      <3>4. QED
        BY <1>4, <2>6, <3>1, <3>2, <3>3 DEF HeaderStates
    <2>8. QED
      BY <1>1, <2>5, <2>7
  <1>6. CASE ~(Next1 <= Len(q.fields))
    <2>1. i + 1 \in 1 .. Len(sent)
      BY <1>1, <1>2, <1>3, <1>6, HeaderLine DEF SaysByte
    <2>2. state \notin InField
      BY <1>4, <1>6
    <2>3. state = "START" \/ state = "DONE"
      BY <1>4, <2>2 DEF HeaderStates, InField
    <2>4. p = i \/ p = i + 1
      BY <1>4, <2>3 DEF InHeader
    <2>5. QED
      BY <1>1, <2>1, <2>4
  <1>7. QED
    BY <1>5, <1>6

LEMMA LeavesNothing ==
  ASSUME Inv, ReadsInv
  PROVE  NothingLeftOver
  <1> SUFFICES ASSUME ~rewound, sent \in RequestStreams
               PROVE  /\ pc # "error"
                      /\ pc = "idle" /\ Last = Len(sent) => processed > 0
    BY DEF NothingLeftOver
  <1>1. Shapes /\ sent \in Seq(Bytes) /\ Len(sent) \in Nat
    BY LenProperties DEF Inv, Shapes
  <1>2. PICK q \in Requests : IsOf(q)
    BY DEF RequestStreams, IsOf
  <1>3. PICK at : Layout(q, at)
    BY <1>1, <1>2, LayoutExists
  <1>4. Reads(q, at)
    BY <1>3 DEF ReadsInv
  <1>5. pc # "error"
    BY <1>4 DEF Reads
  <1>6. ASSUME pc = "idle", Last = Len(sent) PROVE processed > 0
    <2>1. CASE handle_read = "process"
      BY <1>4, <2>1 DEF Reads
    <2>2. CASE handle_read = "request_line"
      <3>1. p = Len(sent) + 1 /\ LineOf(q, at)
        BY <1>4, <1>6, <2>2 DEF Reads
      <3>2. p <= Len(sent)
        BY <1>3, <2>2, <3>1, LineInside
      <3>3. QED
        BY <1>1, <3>1, <3>2
    <2>3. CASE handle_read = "headers"
      <3>1. p = Len(sent) + 1 /\ HeadersRead(q, at) /\ HeaderOf(q, at)
        BY <1>4, <1>6, <2>3 DEF Reads
      <3>2. p <= Len(sent)
        BY <1>3, <3>1, HeaderInside
      <3>3. QED
        BY <1>1, <3>1, <3>2
    <2>4. QED
      BY <1>1, <2>1, <2>2, <2>3 DEF Shapes
  <1>7. QED
    BY <1>5, <1>6

\* Up to the first read that begins at a header line that had been parsed
\* (~rewound, the condition in NothingLeftOver), a proper request of any length
\* is not refused, and once it has arrived it is handed to the runtime.
THEOREM RequestsAreNotRefused == Spec => []NothingLeftOver
  BY ReadsInvariance, LeavesNothing, PTL
=============================================================================
