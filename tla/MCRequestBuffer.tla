--------------------------- MODULE MCRequestBuffer ---------------------------
EXTENDS RequestBuffer

\* What clients send from its first byte on: one header and a body, two headers,
\* none, a request line with one space, and text that is no request.  Their line
\* ends lie at different places; a NUL is in a header and in a body.
Streams == {
    <<"POST", "cr", "lf", "length", "cr", "lf", "cr", "lf", "text">>,
    <<"POST", "cr", "lf", "header", "cr", "lf", "length", "cr", "lf">>,
    <<"GET", "text", "cr", "lf", "cr", "lf", "header", "cr", "lf">>,
    <<"POST half", "cr", "lf", "length", "cr", "lf", "cr", "lf", "text">>,
    <<"POST", "cr", "lf", "header", "nul", "cr", "lf", "cr", "lf">>,
    <<"POST", "cr", "lf", "length", "cr", "lf", "cr", "lf", "nul">>,
    <<"text", "text", "text", "cr", "lf", "length", "cr", "lf", "GET">>}

\* What a client sends after it: the rest of a request that was cut, in a
\* header or between the two bytes of a line end.
Rests == {
    <<"lf", "length", "cr", "lf", "cr", "lf", "text">>,
    <<"length", "cr", "lf", "cr", "lf", "text">>}

\* A read returns what has arrived of one.
Reads == {SubSeq(s, 1, n) : s \in Streams, n \in 1..BufferSize} \cup Rests
==============================================================================
