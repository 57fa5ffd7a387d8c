---------------------------- MODULE RequestBuffer ----------------------------
(***************************************************************************)
(* The input buffer of a worker and what is made of it: wrd_net_read fills *)
(* it from its start, over whatever earlier reads left;                    *)
(* wrd_http_parse_query_headers looks for line ends with strstr, which     *)
(* does not stop where the last read ended; wrd_read_content takes the     *)
(* body.                                                                   *)
(*                                                                         *)
(* A byte string is a sequence of pieces: the text of a request line       *)
(* ("GET", "POST"), of one with a single space ("POST half"), of a header  *)
(* ("length", whose value is Length, or "header"), any other text          *)
(* ("text"), "cr", "lf", and "nul", at which strstr stops.  Places in it   *)
(* count from 1.  What was never written is NUL; what lies behind a buffer *)
(* that is full to its last byte is left out.                              *)
(***************************************************************************)
EXTENDS Integers, Sequences, FiniteSets

CONSTANTS
    BufferSize,    \* config->net_input_buffer.size
    MaxHeaders,    \* WRD_MAX_HEADERS
    Length,        \* the value of Content-Length, in pieces
    Arrivals       \* bound: what one read may return

ASSUME BufferAssumption ==
    /\ BufferSize \in Nat \ {0}
    /\ MaxHeaders \in Nat
    /\ Length \in Nat

RequestLines == {"GET", "POST"}
HeaderTexts == {"length", "header"}
Pieces == RequestLines \cup HeaderTexts
              \cup {"POST half", "text", "cr", "lf", "nul"}

ASSUME ArrivalAssumption ==
    \A bytes \in Arrivals : bytes \in Seq(Pieces) /\ Len(bytes) \in 1..BufferSize

VARIABLES
    pc,         \* "read", or where wrd_http_parse_query_headers is, or "handle"
    buffer,     \* net_input_buffer.buffer, as far as it was ever written
    position,   \* net_input_buffer.position
    pos,        \* the parser's pos: the place of the line it is at
    request,    \* the fields wrd_http_parse_query_headers sets
    content     \* what wrd_read_content gave the handler

vars == <<pc, buffer, position, pos, request, content>>

Requests == [method : RequestLines \cup {"unknown"},
             headers : Seq(Seq(Pieces)), offset : Nat]
Unparsed == [method |-> "unknown", headers |-> <<>>, offset |-> 0]

Init ==
    /\ pc = "read"
    /\ buffer = <<>> /\ position = 0
    /\ pos = 0 /\ request = Unparsed /\ content = <<>>

-------------------------------------------------------------------------------
Least(places) == CHOOSE m \in places : \A n \in places : m <= n
Smaller(m, n) == IF m <= n THEN m ELSE n

CrLf(bytes, i) == i + 1 <= Len(bytes) /\ bytes[i] = "cr" /\ bytes[i + 1] = "lf"

\* strstr(bytes + from, "\r\n"): the first line end, anywhere in the buffer and
\* before the first NUL; 0 for none.
LineEnd(bytes, from) ==
    LET ends == {i \in from..Len(bytes) :
                   CrLf(bytes, i) /\ \A k \in from..i : bytes[k] # "nul"}
    IN  IF ends = {} THEN 0 ELSE Least(ends)

LineAt(bytes, at) == SubSeq(bytes, at, LineEnd(bytes, at) - 1)

\* memchr(pos, ':', ...): a line is a header when something in it has a colon.
HasColon(line) == \E i \in DOMAIN line : line[i] \in HeaderTexts

\* memchr(pos, ' ', ...), once and again behind the first space.
HasSpace(line) == \E i \in DOMAIN line : line[i] \in RequestLines \cup {"POST half"}
HasSpaces(line) ==
    \/ \E i \in DOMAIN line : line[i] \in RequestLines
    \/ \E i, j \in DOMAIN line : i < j /\ line[i] = "POST half" /\ line[j] = "POST half"

\* What comes before the first space.
Method(line) ==
    CASE ~HasSpace(line)            -> "unknown"
      [] line[1] \in RequestLines   -> line[1]
      [] line[1] = "POST half"      -> "POST"
      [] OTHER                      -> "unknown"

\* A slip: the next line is looked for at the line's end.
BehindTooEarly(lineEnd) == lineEnd
\* The line behind a line's end.
Behind(lineEnd) == lineEnd + 2

\* A slip: up to the end of the buffer.
MoreRunsOn(bytes, end, at, found) == at <= Len(bytes) /\ Len(found) < MaxHeaders
\* The condition of the loop over the headers: up to where the read ended, as
\* long as the table has a place.
More(bytes, end, at, found) == at <= end /\ Len(found) < MaxHeaders

\* A slip: the second byte may be behind the read.
BlankRunsOn(bytes, end, at) == CrLf(bytes, at)
\* The blank line, which has to be in the read.
Blank(bytes, end, at) == CrLf(bytes, at) /\ at + 1 <= end

\* wrd_content_length: the header whose name is Content-Length, if there is
\* one.  A name is what comes before the first colon.
ContentLength(headers) ==
    IF \E i \in DOMAIN headers : headers[i][1] = "length" THEN Length ELSE 0

\* A slip: all of the length, with what an earlier read left.
ContentWhole(r, bytes, end) ==
    SubSeq(bytes, r.offset + 1,
           Smaller(r.offset + ContentLength(r.headers), Len(bytes)))

\* wrd_read_content: as much of the length as the read had behind the offset,
\* which is 0 when the parser did not reach the blank line.
Content(r, bytes, end) ==
    SubSeq(bytes, r.offset + 1,
           r.offset + Smaller(ContentLength(r.headers), end - r.offset))

-------------------------------------------------------------------------------
\* wrd_net_read puts what arrived at the start of the buffer.
Read(bytes) ==
    /\ pc = "read"
    /\ buffer' = bytes \o SubSeq(buffer, Len(bytes) + 1, Len(buffer))
    /\ position' = Len(bytes)
    /\ pc' = "parse"
    /\ UNCHANGED <<pos, request, content>>

\* The peer is gone: wrd_net_read leaves the bytes and forgets where they end.
ReadFails ==
    /\ pc = "read"
    /\ position # 0
    /\ position' = 0
    /\ UNCHANGED <<pc, buffer, pos, request, content>>

\* The start of wrd_http_parse_query_headers: the fields are reset; a first space
\* in the request line gives the method, a second one is needed to go on.  A
\* line without an end counts as empty.
RequestLine ==
    LET lineEnd == LineEnd(buffer, 1)
        line == LineAt(buffer, 1)
    IN  /\ pc = "parse"
        /\ request' = [Unparsed EXCEPT !.method = Method(line)]
        /\ IF HasSpaces(line) THEN pos' = Behind(lineEnd) /\ pc' = "headers"
                              ELSE pos' = pos /\ pc' = "handle"
        /\ UNCHANGED <<buffer, position, content>>

AtLine == pc = "headers" /\ More(buffer, position, pos, request.headers)

\* A turn of the loop at the blank line: the body begins behind it.
BlankLine ==
    /\ AtLine
    /\ Blank(buffer, position, pos)
    /\ request' = [request EXCEPT !.offset = pos + 1]
    /\ pc' = "handle"
    /\ UNCHANGED <<buffer, position, pos, content>>

\* A turn of the loop at any other line: a header, if it has a colon.
HeaderLine ==
    LET line == LineAt(buffer, pos)
    IN  /\ AtLine
        /\ ~Blank(buffer, position, pos)
        /\ LineEnd(buffer, pos) # 0
        /\ request' = IF HasColon(line)
                        THEN [request EXCEPT !.headers = Append(@, line)]
                        ELSE request
        /\ pos' = Behind(LineEnd(buffer, pos))
        /\ UNCHANGED <<pc, buffer, position, content>>

\* The loop ends without a blank line: behind the read, at the last place of
\* the table, or at a line without an end.
HeadersEnd ==
    /\ pc = "headers"
    /\ \/ ~More(buffer, position, pos, request.headers)
       \/ ~Blank(buffer, position, pos) /\ LineEnd(buffer, pos) = 0
    /\ pc' = "handle"
    /\ UNCHANGED <<buffer, position, pos, request, content>>

\* The worker dispatches, whatever the parser returned, and the handler of a
\* POST takes the content.
Handle ==
    /\ pc = "handle"
    /\ content' = IF request.method = "POST" THEN Content(request, buffer, position)
                                             ELSE <<>>
    /\ pc' = "read"
    /\ UNCHANGED <<buffer, position, pos, request>>

Next ==
    \/ \E bytes \in Arrivals : Read(bytes)
    \/ ReadFails
    \/ RequestLine \/ BlankLine \/ HeaderLine \/ HeadersEnd
    \/ Handle

Spec == Init /\ [][Next]_vars

-------------------------------------------------------------------------------
\* The types; the read and the offset of its body lie in the buffer, also when
\* a read ends between the two bytes of a line end.
TypeOK ==
    /\ pc \in {"read", "parse", "headers", "handle"}
    /\ buffer \in Seq(Pieces) /\ Len(buffer) <= BufferSize
    /\ position \in 0..Len(buffer)
    /\ pos \in Nat
    /\ request \in Requests
    /\ content \in Seq(Pieces)
    /\ pc = "handle" => request.offset <= position

\* The last read.
Received == SubSeq(buffer, 1, position)

\* What a byte string says, as a whole: a line begins behind every line end, the
\* head ends at the first blank one, and the lines before that are headers when
\* they have a colon.
LineStarts(bytes) == {at \in 3..Len(bytes) : CrLf(bytes, at - 2)}
BlankLines(bytes) == {at \in LineStarts(bytes) : CrLf(bytes, at)}
HeadEnd(bytes) == Least(BlankLines(bytes))
HeaderPlaces(bytes) ==
    {at \in LineStarts(bytes) : at < HeadEnd(bytes) /\ HasColon(LineAt(bytes, at))}
Body(bytes) == SubSeq(bytes, HeadEnd(bytes) + 2, Len(bytes))

\* A whole head that fits the table: a request line, header lines, a blank line,
\* and no NUL before it.
Whole(bytes) ==
    /\ BlankLines(bytes) # {}
    /\ \A i \in 1..HeadEnd(bytes) : bytes[i] # "nul"
    /\ HasSpaces(LineAt(bytes, 1))
    /\ Cardinality(HeaderPlaces(bytes)) < MaxHeaders

\* headers are the lines at these places, from the first to the last.
AreLines(headers, bytes, places) ==
    \E at \in [DOMAIN headers -> places] :
        /\ \A p \in places : \E i \in DOMAIN headers : at[i] = p
        /\ \A i, j \in DOMAIN headers : i < j => at[i] < at[j]
        /\ \A i \in DOMAIN headers : headers[i] = LineAt(bytes, at[i])

\* A request that arrives with its whole head is parsed as what it says,
\* whatever an earlier request left in the buffer.
WholeHeadIsOwn ==
    pc = "handle" /\ Whole(Received) =>
        /\ request.method = Method(LineAt(Received, 1))
        /\ AreLines(request.headers, Received, HeaderPlaces(Received))
        /\ request.offset = HeadEnd(Received) + 1

\* What a handler stores of such a POST is its body, as far as it arrived and
\* Content-Length says: no head, no later bytes, no earlier request.
ContentIsBody ==
    pc = "read" /\ position > 0 /\ Whole(Received) /\ Received[1] = "POST" =>
        LET length == IF \E at \in HeaderPlaces(Received) : Received[at] = "length"
                        THEN Length ELSE 0
            body == Body(Received)
        IN  content = SubSeq(body, 1, Smaller(length, Len(body)))

\* A request that is cut takes at most the end of its last line from what was
\* left in the buffer: all its other headers are lines that arrived with it.
OneLineRunsOn ==
    pc \in {"headers", "handle"} =>
        \A i \in 1..Len(request.headers) - 1 :
            \E at \in LineStarts(Received) :
                LineEnd(Received, at) # 0 /\ LineAt(Received, at) = request.headers[i]
===============================================================================
