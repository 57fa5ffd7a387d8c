------------------------------ MODULE WorkerLoop ------------------------------
(***************************************************************************)
(* One worker process of warudo: the loop of wrd_worker_loop (worker.c),   *)
(* the socket operations of net.c it is made of, the TLS session of tls.c  *)
(* and the response buffers of http.c, together with the kernel's side of  *)
(* the sockets and the clients at the other end.                           *)
(*                                                                         *)
(* The worker is one thread that serves one connection at a time.  A       *)
(* control location (pc) stands for a place where it may block or where    *)
(* the clients' steps matter; the straight-line code between two of them   *)
(* is one action.                                                          *)
(***************************************************************************)
EXTENDS Naturals, Integers, Sequences, FiniteSets

CONSTANTS
    Conns,            \* the clients, each with one connection at a time
    NoConn,           \* client_fd = 0 or tls_ssl = NULL
    TlsEnabled,       \* config->tls_enabled
    Hsts,             \* config->hsts_max_age > 0
    KeepAliveTimeout, \* config->keep_alive_timeout, in seconds
    KeepAliveMax,     \* config->keep_alive_max
    MaxRequests,      \* bound: the requests a client sends on a connection
    WholeRequests,    \* bound: does every request arrive in one segment?
    Pipelining,       \* bound: may a client send before it was answered?
    Outcomes,         \* bound: what handlers do, of "reply", "silent", "crash"
    AcceptMayFail     \* bound: may accept() fail (descriptors, memory)?

ASSUME NoConnAssumption == NoConn \notin Conns
ASSUME ConfigAssumption ==
    /\ TlsEnabled \in BOOLEAN /\ Hsts \in BOOLEAN
    /\ KeepAliveTimeout \in Int /\ KeepAliveMax \in Int
ASSUME BoundsAssumption ==
    /\ MaxRequests \in Nat
    /\ WholeRequests \in BOOLEAN /\ Pipelining \in BOOLEAN
    /\ AcceptMayFail \in BOOLEAN
    /\ Outcomes \subseteq {"reply", "silent", "crash"}

VARIABLES
    \* The worker.
    pc,                 \* where wrd_worker_loop is
    sigpipe_ignored,    \* was signal(SIGPIPE, SIG_IGN) called?
    client_fd,          \* never reset after a close, as in the code
    is_tls_connection,
    tls_ssl,            \* the connection the SSL session is bound to
    net_input_buffer,   \* the bytes below "position"
    residue,            \* whose bytes remain beyond "position"
    request,            \* the request_* fields
    keep_alive,
    request_count,
    net_headers_buffer,
    net_buffer,
    \* The kernel and the clients.
    backlog,            \* the accept queue of each listening socket
    status,             \* of each connection
    proto,              \* what the client speaks: "tls" before its hello
    recv,               \* received and unread
    gone,               \* the client closed its side
    stalled,            \* clients that read nothing: their window is full
    asked,              \* half-requests the client has sent
    replies             \* what the client received on this connection

worker_vars == <<pc, sigpipe_ignored, client_fd, is_tls_connection, tls_ssl,
                 net_input_buffer, residue, request, keep_alive,
                 request_count, net_headers_buffer, net_buffer>>
peer_vars == <<backlog, status, proto, recv, gone, stalled, asked, replies>>
vars == <<pc, sigpipe_ignored, client_fd, is_tls_connection, tls_ssl,
          net_input_buffer, residue, request, keep_alive, request_count,
          net_headers_buffer, net_buffer,
          backlog, status, proto, recv, gone, stalled, asked, replies>>

-------------------------------------------------------------------------------
(* Data: what the clients send, what the parser keeps, what is sent back.  *)

\* A segment as read() or SSL_read() returns it: a ClientHello, a whole
\* request, or one of the two halves of a request.
Segment == [req : 0..MaxRequests, part : {"hello", "whole", "start", "rest"}]
Hello == [req |-> 0, part |-> "hello"]

\* The parsed fields.  from: whose bytes the parser looked at.
Request == [from : SUBSET Conns, req : 0..MaxRequests]
NoRequest == [from |-> {}, req |-> 0]

\* A line of a response and the request it answers.
LineNames == {"200", "301", "location", "keep-alive", "close", "length",
              "body", "redirecting"}
Line == [name : LineNames, of : Request]
Lines(names, r) == [i \in 1..Len(names) |-> [name |-> names[i], of |-> r]]

\* What one send() delivers.
Message == [tls : BOOLEAN, text : Seq(Line)]
IsHead(m) == m.text[Len(m.text)].name = "length"

\* The heads among what client c has received, by their places, how many
\* there are, and which of them the one at place i is.
HeadsAt(c) == {i \in DOMAIN replies[c] : IsHead(replies[c][i])}
Answers(c) == Cardinality(HeadsAt(c))
Which(c, i) == Cardinality({j \in HeadsAt(c) : j <= i})

TwoSockets == TlsEnabled /\ Hsts
Listeners == IF TwoSockets THEN {"server_fd", "server_tls_fd"} ELSE {"server_fd"}
SpeaksTls(l) == IF TwoSockets THEN l = "server_tls_fd" ELSE TlsEnabled

Pending == \E l \in Listeners : backlog[l] # <<>>
Readable(c) == recv[c] # <<>> \/ gone[c]

\* Slip: no receive timeout.
MayReceiveForever == Readable(client_fd)

\* SO_RCVTIMEO is set on a connection only when keep-alive has a timeout:
\* otherwise a read on a silent client waits forever.
MayReceive == Readable(client_fd) \/ KeepAliveTimeout > 0

-------------------------------------------------------------------------------
Init ==
    /\ pc = "start"
    /\ sigpipe_ignored = FALSE
    /\ client_fd = NoConn
    /\ is_tls_connection = FALSE
    /\ tls_ssl = NoConn
    /\ net_input_buffer = <<>>
    /\ residue = {}
    /\ request = NoRequest
    /\ keep_alive = FALSE
    /\ request_count = 0
    /\ net_headers_buffer = <<>>
    /\ net_buffer = <<>>
    /\ backlog = [l \in Listeners |-> <<>>]
    /\ status = [c \in Conns |-> "away"]
    /\ proto = [c \in Conns |-> "http"]
    /\ recv = [c \in Conns |-> <<>>]
    /\ gone = [c \in Conns |-> FALSE]
    /\ stalled = {}
    /\ asked = [c \in Conns |-> 0]
    /\ replies = [c \in Conns |-> <<>>]

-------------------------------------------------------------------------------
(* The worker.                                                             *)

\* Slip: SIGPIPE keeps its default.
StartUnprotected ==
    /\ pc = "start"
    /\ pc' = "accept"
    /\ UNCHANGED <<sigpipe_ignored, client_fd, is_tls_connection, tls_ssl,
                   net_input_buffer, residue, request, keep_alive,
                   request_count, net_headers_buffer, net_buffer, peer_vars>>

\* signal(SIGPIPE, SIG_IGN) on entry of the loop.
Start ==
    /\ pc = "start"
    /\ pc' = "accept"
    /\ sigpipe_ignored' = TRUE
    /\ UNCHANGED <<client_fd, is_tls_connection, tls_ssl, net_input_buffer,
                   residue, request, keep_alive, request_count,
                   net_headers_buffer, net_buffer, peer_vars>>

\* Slip: the plain socket goes first.
ReadyListenerPlainFirst(l) ==
    /\ backlog[l] # <<>>
    /\ TwoSockets /\ l = "server_tls_fd" => backlog["server_fd"] = <<>>

\* With two sockets select() may report both: the TLS one goes first.
ReadyListener(l) ==
    /\ backlog[l] # <<>>
    /\ TwoSockets /\ l = "server_fd" => backlog["server_tls_fd"] = <<>>

\* What the loop does first with a connection: peek at the first byte of a
\* TLS one, redirect a plain one when TLS is on, serve it otherwise.
AfterAccept(l) ==
    IF SpeaksTls(l) THEN "peek" ELSE IF TlsEnabled THEN "redirect" ELSE "poll"

\* wrd_net_accept, and the locals of the keep-alive loop that follows.
Accept(l) ==
    /\ pc = "accept"
    /\ ReadyListener(l)
    /\ client_fd' = Head(backlog[l])
    /\ backlog' = [backlog EXCEPT ![l] = Tail(@)]
    /\ status' = [status EXCEPT ![Head(backlog[l])] = "open"]
    /\ is_tls_connection' = SpeaksTls(l)
    /\ keep_alive' = TRUE
    /\ request_count' = 0
    /\ pc' = AfterAccept(l)
    /\ UNCHANGED <<sigpipe_ignored, tls_ssl, net_input_buffer, residue, request,
                   net_headers_buffer, net_buffer, proto, recv, gone, stalled,
                   asked, replies>>

\* select() or accept() fails: the loop ends, and with it the process.
AcceptError ==
    /\ pc = "accept" /\ AcceptMayFail
    /\ client_fd' = NoConn
    /\ \E l \in Listeners : is_tls_connection' \in {is_tls_connection, SpeaksTls(l)}
    /\ pc' = "exited"
    /\ UNCHANGED <<sigpipe_ignored, tls_ssl, net_input_buffer, residue, request,
                   keep_alive, request_count, net_headers_buffer, net_buffer,
                   peer_vars>>

\* wrd_net_peek_byte: a byte other than 0x16 is plain HTTP on the TLS port;
\* no byte (a timeout, a closed connection) goes on to the handshake.
Peek ==
    /\ pc = "peek"
    /\ MayReceive
    /\ pc' = IF recv[client_fd] # <<>> /\ Head(recv[client_fd]) # Hello
             THEN "redirect" ELSE "handshake"
    /\ UNCHANGED <<sigpipe_ignored, client_fd, is_tls_connection, tls_ssl,
                   net_input_buffer, residue, request, keep_alive,
                   request_count, net_headers_buffer, net_buffer, peer_vars>>

\* SSL_accept succeeds.
HandshakeOk ==
    /\ pc = "handshake"
    /\ recv[client_fd] # <<>> /\ Head(recv[client_fd]) = Hello
    /\ ~gone[client_fd]
    /\ tls_ssl' = client_fd
    /\ recv' = [recv EXCEPT ![client_fd] = Tail(@)]
    /\ pc' = "poll"
    /\ UNCHANGED <<sigpipe_ignored, client_fd, is_tls_connection,
                   net_input_buffer, residue, request, keep_alive,
                   request_count, net_headers_buffer, net_buffer, backlog,
                   status, proto, gone, stalled, asked, replies>>

\* SSL_accept fails: not a hello, no common parameters, a timeout, a closed
\* connection.  The session is freed and tls_ssl stays NULL.
HandshakeError ==
    /\ pc = "handshake"
    /\ MayReceive
    /\ pc' = "finish"
    /\ UNCHANGED <<sigpipe_ignored, client_fd, is_tls_connection, tls_ssl,
                   net_input_buffer, residue, request, keep_alive,
                   request_count, net_headers_buffer, net_buffer, peer_vars>>

\* wrd_net_poll: the client's bytes first, whoever else is waiting.
PollReady ==
    /\ pc = "poll"
    /\ KeepAliveTimeout >= 0 /\ Readable(client_fd)
    /\ pc' = "read"
    /\ UNCHANGED <<sigpipe_ignored, client_fd, is_tls_connection, tls_ssl,
                   net_input_buffer, residue, request, keep_alive,
                   request_count, net_headers_buffer, net_buffer, peer_vars>>

\* wrd_net_poll: a new connection is pending on a listening socket.
PollGivesWay ==
    /\ pc = "poll"
    /\ KeepAliveTimeout >= 0 /\ ~Readable(client_fd) /\ Pending
    /\ pc' = "finish"
    /\ UNCHANGED <<sigpipe_ignored, client_fd, is_tls_connection, tls_ssl,
                   net_input_buffer, residue, request, keep_alive,
                   request_count, net_headers_buffer, net_buffer, peer_vars>>

\* wrd_net_poll: nothing happened for keep_alive_timeout seconds, which may
\* be 0; with a negative timeout select() fails, whatever is readable.
PollTimeout ==
    /\ pc = "poll"
    /\ KeepAliveTimeout >= 0 => ~Readable(client_fd) /\ ~Pending
    /\ pc' = "finish"
    /\ UNCHANGED <<sigpipe_ignored, client_fd, is_tls_connection, tls_ssl,
                   net_input_buffer, residue, request, keep_alive,
                   request_count, net_headers_buffer, net_buffer, peer_vars>>

\* What one read() takes: all that arrived, or one TLS record.  A record is
\* smaller than the input buffer, so SSL_pending() is 0 after it.
Taken(c) ==
    IF recv[c] = <<>> THEN <<>>
    ELSE IF tls_ssl # NoConn THEN <<Head(recv[c])>> ELSE recv[c]
\* Slip: the bytes are only peeked at.
LeftUnread(c) == recv[c]

Left(c) ==
    IF recv[c] = <<>> THEN <<>>
    ELSE IF tls_ssl # NoConn THEN Tail(recv[c]) ELSE <<>>

\* Slip: the end of the stream is not noticed.
AfterReadRetries(taken) == IF taken = <<>> THEN "poll" ELSE "serve"

\* A failed read, or one of 0 bytes, leaves the keep-alive loop.
AfterRead(taken) == IF taken = <<>> THEN "finish" ELSE "serve"

\* wrd_net_read in the keep-alive loop.
Read ==
    /\ pc = "read"
    /\ MayReceive
    /\ net_input_buffer' = Taken(client_fd)
    /\ recv' = [recv EXCEPT ![client_fd] = Left(client_fd)]
    /\ residue' = IF Taken(client_fd) = <<>> THEN residue ELSE residue \cup {client_fd}
    /\ pc' = AfterRead(Taken(client_fd))
    /\ UNCHANGED <<sigpipe_ignored, client_fd, is_tls_connection, tls_ssl,
                   request, keep_alive, request_count, net_headers_buffer,
                   net_buffer, backlog, status, proto, gone, stalled, asked,
                   replies>>

\* Slips: the scan of a whole head is not bounded by what was read; the parser
\* starts at a later request.
ParseRunsOn(input, stale) ==
    IF input = <<>> THEN NoRequest
    ELSE [from |-> {client_fd} \cup stale, req |-> input[1].req]
ParseSkips(input, stale) ==
    IF input = <<>> THEN NoRequest
    ELSE [from |-> {client_fd}, req |-> input[1].req + 1]

\* wrd_http_parse_query_headers.  The fields are reset before anything else;
\* a whole head is parsed from this input alone; the scan of an unfinished
\* one runs on into what earlier reads left in the buffer.
Parse(input, stale) ==
    IF input = <<>> THEN NoRequest
    ELSE IF input[1].part = "whole" \/ (input[1].part = "start" /\ Len(input) > 1)
    THEN [from |-> {client_fd}, req |-> input[1].req]
    ELSE [from |-> {client_fd} \cup stale, req |-> input[1].req]

\* wrd_should_keep_alive.  asks: what the request's Connection header, or
\* else its HTTP version, asks for.
ShouldKeepAlive(asks) == KeepAliveTimeout > 0 /\ asks

\* Slip: one request too many is promised.
KeepsAliveOnceMore(count, asks) == ShouldKeepAlive(asks) /\ count <= KeepAliveMax

\* The keep-alive loop's decision at its count-th request.
KeepsAlive(count, asks) == ShouldKeepAlive(asks) /\ count < KeepAliveMax

\* What a route handler appends to the headers and to the body: a reply, or
\* nothing at all when it returns early.
HandlerHead(outcome) == IF outcome = "reply" THEN <<"200">> ELSE <<>>
HandlerBody(outcome) == IF outcome = "reply" THEN <<"body">> ELSE <<>>

\* Parse, decide on keep-alive, dispatch, add the Connection header and, as
\* wrd_http_flush begins, Content-Length.
Serve(outcome, asks) ==
    /\ pc = "serve"
    /\ request' = Parse(net_input_buffer, residue)
    /\ request_count' = request_count + 1
    /\ keep_alive' = KeepsAlive(request_count', asks)
    /\ LET connection == IF keep_alive' THEN "keep-alive" ELSE "close"
       IN net_headers_buffer' = net_headers_buffer \o
              Lines(HandlerHead(outcome) \o <<connection, "length">>, request')
    /\ net_buffer' = net_buffer \o Lines(HandlerBody(outcome), request')
    /\ pc' = "send_headers"
    /\ UNCHANGED <<sigpipe_ignored, client_fd, is_tls_connection, tls_ssl,
                   net_input_buffer, residue, peer_vars>>

\* A route handler crashes (wrd_add_entries does): the process ends and the
\* kernel closes its connection.
HandlerCrash ==
    /\ pc = "serve" /\ "crash" \in Outcomes
    /\ request' = Parse(net_input_buffer, residue)
    /\ request_count' = request_count + 1
    /\ \E asks \in BOOLEAN : keep_alive' = KeepsAlive(request_count', asks)
    /\ tls_ssl' = NoConn
    /\ status' = [status EXCEPT ![client_fd] = "away"]
    /\ recv' = [recv EXCEPT ![client_fd] = <<>>]
    /\ gone' = [gone EXCEPT ![client_fd] = FALSE]
    /\ stalled' = stalled \ {client_fd}
    /\ pc' = "exited"
    /\ UNCHANGED <<sigpipe_ignored, client_fd, is_tls_connection,
                   net_input_buffer, residue, net_headers_buffer, net_buffer,
                   backlog, proto, asked, replies>>

\* Plain HTTP while TLS is on: read (its result is not looked at), parse,
\* redirect, flush, finish.
RedirectHttps ==
    /\ pc = "redirect"
    /\ MayReceive
    /\ net_input_buffer' = Taken(client_fd)
    /\ recv' = [recv EXCEPT ![client_fd] = Left(client_fd)]
    /\ residue' = IF Taken(client_fd) = <<>> THEN residue ELSE residue \cup {client_fd}
    /\ request' = Parse(net_input_buffer', residue)
    /\ net_headers_buffer' = net_headers_buffer \o
           Lines(<<"301", "location", "close", "length">>, request')
    /\ net_buffer' = net_buffer \o Lines(<<"redirecting">>, request')
    /\ keep_alive' = FALSE
    /\ pc' = "send_headers"
    /\ UNCHANGED <<sigpipe_ignored, client_fd, is_tls_connection, tls_ssl,
                   request_count, backlog, status, proto, gone, stalled, asked,
                   replies>>

\* send() and SSL_write() block while the client's window is full; there is
\* no send timeout.  To a client that is gone they fail.
MaySend == gone[client_fd] \/ client_fd \notin stalled

\* wrd_net_send of one buffer: the result is not looked at.
Deliver(text) ==
    replies' = IF text = <<>> \/ gone[client_fd] THEN replies
               ELSE [replies EXCEPT ![client_fd] =
                        Append(@, [tls |-> tls_ssl # NoConn, text |-> text])]

\* Slip: the buffer is not emptied.
AfterSendKeeps(buffer) == buffer

\* The buffer is emptied whether or not the bytes went out.
AfterSend(buffer) == <<>>

\* A write to a connection that is gone raises SIGPIPE.
Survives(buffer, next) ==
    IF buffer # <<>> /\ gone[client_fd] /\ ~sigpipe_ignored THEN "exited" ELSE next

SendHeaders ==
    /\ pc = "send_headers"
    /\ net_headers_buffer # <<>> => MaySend
    /\ Deliver(net_headers_buffer)
    /\ net_headers_buffer' = AfterSend(net_headers_buffer)
    /\ pc' = Survives(net_headers_buffer, "send_body")
    /\ UNCHANGED <<sigpipe_ignored, client_fd, is_tls_connection, tls_ssl,
                   net_input_buffer, residue, request, keep_alive,
                   request_count, net_buffer, backlog, status, proto, recv,
                   gone, stalled, asked>>

\* The second send of wrd_http_flush, then the keep-alive loop's condition.
SendBody ==
    /\ pc = "send_body"
    /\ net_buffer # <<>> => MaySend
    /\ Deliver(net_buffer)
    /\ net_buffer' = AfterSend(net_buffer)
    /\ pc' = Survives(net_buffer, IF keep_alive THEN "poll" ELSE "finish")
    /\ UNCHANGED <<sigpipe_ignored, client_fd, is_tls_connection, tls_ssl,
                   net_input_buffer, residue, request, keep_alive,
                   request_count, net_headers_buffer, backlog, status, proto,
                   recv, gone, stalled, asked>>

\* Slip: the session is freed but tls_ssl not cleared.
FreedSessionKept == tls_ssl

\* tls_ssl after wrd_tls_finish_request.
FreedSession == NoConn

\* wrd_net_finish_request: SSL_shutdown writes too.  What the client still
\* had in flight is lost with the socket.
Finish ==
    /\ pc = "finish"
    /\ tls_ssl # NoConn => MaySend
    /\ tls_ssl' = FreedSession
    /\ status' = [status EXCEPT ![client_fd] = "away"]
    /\ recv' = [recv EXCEPT ![client_fd] = <<>>]
    /\ gone' = [gone EXCEPT ![client_fd] = FALSE]
    /\ stalled' = stalled \ {client_fd}
    /\ pc' = "accept"
    /\ UNCHANGED <<sigpipe_ignored, client_fd, is_tls_connection,
                   net_input_buffer, residue, request, keep_alive,
                   request_count, net_headers_buffer, net_buffer, backlog,
                   proto, asked, replies>>

-------------------------------------------------------------------------------
(* The clients and the kernel.                                             *)

\* A connection completes and waits in a listening socket's queue.
Connect(c, l) ==
    /\ pc # "exited"
    /\ status[c] = "away"
    /\ status' = [status EXCEPT ![c] = "queued"]
    /\ backlog' = [backlog EXCEPT ![l] = Append(@, c)]
    /\ \E p \in IF SpeaksTls(l) THEN {"http", "tls"} ELSE {"http"} :
           proto' = [proto EXCEPT ![c] = p]
    /\ asked' = [asked EXCEPT ![c] = 0]
    /\ replies' = [replies EXCEPT ![c] = <<>>]
    /\ UNCHANGED <<worker_vars, recv, gone, stalled>>

ClientHello(c) ==
    /\ status[c] # "away" /\ ~gone[c]
    /\ proto[c] = "tls"
    /\ proto' = [proto EXCEPT ![c] = "session"]
    /\ recv' = [recv EXCEPT ![c] = Append(@, Hello)]
    /\ UNCHANGED <<worker_vars, backlog, status, gone, stalled, asked, replies>>

\* A client that waits for its answers before it sends more.
Waited(c) == Pipelining \/ asked[c] = 2 * Answers(c)

\* The next segment of the client's stream: a whole request, the first half
\* of one, or the second half.  On a TLS connection it is one record, and
\* none is sent before the handshake.
ClientSend(c) ==
    /\ status[c] # "away" /\ ~gone[c]
    /\ proto[c] = "http" \/ (proto[c] = "session" /\ tls_ssl = c)
    /\ asked[c] < 2 * MaxRequests
    /\ LET send(part, n) ==
              /\ recv' = [recv EXCEPT ![c] =
                     Append(@, [req |-> (asked[c] \div 2) + 1, part |-> part])]
              /\ asked' = [asked EXCEPT ![c] = @ + n]
       IN \/ asked[c] % 2 = 0 /\ Waited(c) /\ send("whole", 2)
          \/ asked[c] % 2 = 0 /\ Waited(c) /\ ~WholeRequests /\ send("start", 1)
          \/ asked[c] % 2 = 1 /\ send("rest", 1)
    /\ UNCHANGED <<worker_vars, backlog, status, proto, gone, stalled, replies>>

\* The client closes: what it sent can still be read, or is lost to a reset.
ClientClose(c) ==
    /\ status[c] # "away" /\ ~gone[c]
    /\ gone' = [gone EXCEPT ![c] = TRUE]
    /\ \E left \in {recv[c], <<>>} : recv' = [recv EXCEPT ![c] = left]
    /\ UNCHANGED <<worker_vars, backlog, status, proto, stalled, asked, replies>>

ClientStall(c) ==
    /\ status[c] = "open" /\ ~gone[c]
    /\ c \notin stalled
    /\ stalled' = stalled \cup {c}
    /\ UNCHANGED <<worker_vars, backlog, status, proto, recv, gone, asked, replies>>

ClientResume(c) ==
    /\ c \in stalled
    /\ stalled' = stalled \ {c}
    /\ UNCHANGED <<worker_vars, backlog, status, proto, recv, gone, asked, replies>>

-------------------------------------------------------------------------------
\* Everything the worker does by itself.  The two ways it ends are left out:
\* nothing makes them happen.
Worker ==
    \/ Start
    \/ \E l \in Listeners : Accept(l)
    \/ Peek
    \/ HandshakeOk
    \/ HandshakeError
    \/ PollReady
    \/ PollGivesWay
    \/ PollTimeout
    \/ Read
    \/ \E outcome \in Outcomes \ {"crash"}, asks \in BOOLEAN : Serve(outcome, asks)
    \/ RedirectHttps
    \/ SendHeaders
    \/ SendBody
    \/ Finish

Client(c) ==
    \/ \E l \in Listeners : Connect(c, l)
    \/ ClientHello(c)
    \/ ClientSend(c)
    \/ ClientClose(c)
    \/ ClientStall(c)
    \/ ClientResume(c)

Next ==
    \/ Worker
    \/ AcceptError
    \/ HandlerCrash
    \/ \E c \in Conns : Client(c)

\* Only the worker is fair: the process runs and its timeouts fire, and a
\* send gets through to a client that reads again and again, since every
\* time it does the kernel moves a part of a finite response.  Nothing is
\* assumed of the clients.
Fairness ==
    /\ WF_vars(Worker)
    /\ SF_vars(SendHeaders) /\ SF_vars(SendBody) /\ SF_vars(Finish)

Spec == Init /\ [][Next]_vars
FairSpec == Spec /\ Fairness

-------------------------------------------------------------------------------
(* Properties.                                                             *)

Locations == {"start", "accept", "peek", "handshake", "poll", "read", "serve",
              "redirect", "send_headers", "send_body", "finish", "exited"}

\* Every variable stays in its set.
TypeOK ==
    /\ pc \in Locations
    /\ sigpipe_ignored \in BOOLEAN
    /\ client_fd \in Conns \cup {NoConn}
    /\ is_tls_connection \in BOOLEAN
    /\ tls_ssl \in Conns \cup {NoConn}
    /\ net_input_buffer \in Seq(Segment)
    /\ residue \in SUBSET Conns
    /\ request \in Request
    /\ keep_alive \in BOOLEAN
    /\ request_count \in Nat
    /\ net_headers_buffer \in Seq(Line)
    /\ net_buffer \in Seq(Line)
    /\ backlog \in [Listeners -> Seq(Conns)]
    /\ status \in [Conns -> {"away", "queued", "open"}]
    /\ proto \in [Conns -> {"http", "tls", "session"}]
    /\ recv \in [Conns -> Seq(Segment)]
    /\ gone \in [Conns -> BOOLEAN]
    /\ stalled \in SUBSET Conns
    /\ asked \in [Conns -> Nat]
    /\ replies \in [Conns -> Seq(Message)]

\* Locations at which the worker holds a connection.
Holding == pc \notin {"start", "accept", "exited"}

\* The worker holds one connection at a time and gives it back before it
\* accepts another: no descriptor is left open by any of the paths out of
\* the loop, and the TLS session it writes to is the one of the connection
\* it serves, never that of an earlier one.
ConnectionOwned ==
    /\ \A c \in Conns : status[c] = "open" => Holding /\ c = client_fd
    /\ Holding => client_fd \in Conns /\ status[client_fd] = "open"
    /\ tls_ssl # NoConn => Holding /\ tls_ssl = client_fd

Redirecting(text) ==
    \E i \in DOMAIN text : text[i].name \in {"301", "redirecting"}

\* With TLS on, whatever a client receives outside a TLS session is the
\* redirection to https: a failed handshake, plain HTTP on the TLS port and
\* a plain connection never reach a route handler.
NoPlainReply ==
    TlsEnabled =>
        \A c \in Conns : \A i \in DOMAIN replies[c] :
            replies[c][i].tls \/ Redirecting(replies[c][i].text)

\* Why ConnectionOwned, NoPlainReply and PeersDoNotEndWorker hold: what is
\* settled about SIGPIPE, the session and the buffers at each location.
\* Requests are served in the session or with TLS off; what is to be sent
\* without a session is a redirection and ends the connection.
SessionPath ==
    /\ pc # "start" => sigpipe_ignored
    /\ pc \in {"peek", "handshake", "redirect"} => tls_ssl = NoConn
    /\ TlsEnabled /\ tls_ssl = NoConn =>
          /\ pc \notin {"poll", "read", "serve"}
          /\ pc = "send_headers" => Redirecting(net_headers_buffer)
          /\ pc \in {"send_headers", "send_body"} =>
                 Redirecting(net_buffer) /\ ~keep_alive

SafetyInv == ConnectionOwned /\ NoPlainReply /\ SessionPath

\* A response is computed from the bytes of the client it is sent to, even
\* though the buffers and the parsed fields outlive the connections (for
\* clients whose request heads arrive whole).
OwnReplies ==
    \A c \in Conns : \A i \in DOMAIN replies[c] :
        \A j \in DOMAIN replies[c][i].text :
            replies[c][i].text[j].of.from \subseteq {c}

Names(text) == [i \in DOMAIN text |-> text[i].name]
HeadNames == {<<"200", "keep-alive", "length">>, <<"200", "close", "length">>,
              <<"keep-alive", "length">>, <<"close", "length">>,
              <<"301", "location", "close", "length">>}
BodyNames == {<<"body">>, <<"redirecting">>}

\* The bytes on a connection are heads, each followed by at most one body,
\* its own: nothing a failed send left behind is sent later or to another
\* client, and no head is doubled.
WellFramed ==
    \A c \in Conns : \A i \in DOMAIN replies[c] :
        LET text == replies[c][i].text
        IN /\ \A j \in DOMAIN text : text[j].of = text[1].of
           /\ \/ Names(text) \in HeadNames
              \/ /\ Names(text) \in BodyNames
                 /\ i > 1 /\ IsHead(replies[c][i - 1])
                 /\ text[1].of = replies[c][i - 1].text[1].of

\* What the Connection header of a head says.
Says(text) == text[Len(text) - 1].name

\* The Connection header tells the truth: after "close" nothing more is
\* answered, and "keep-alive" is never said to the last request that
\* keep_alive_max allows.
KeepAlivePromises ==
    \A c \in Conns : \A i \in HeadsAt(c) :
        IF Says(replies[c][i].text) = "keep-alive" THEN Which(c, i) < KeepAliveMax
        ELSE \A j \in HeadsAt(c) : j <= i

\* The k-th response a client receives answers its k-th request: none is
\* answered twice, skipped, or answered by a later one's response (for clients
\* that wait for each answer).
AnsweredInOrder ==
    \A c \in Conns : \A i \in HeadsAt(c) :
        LET head == replies[c][i].text
        IN head[1].name # "301" => head[1].of.req = Which(c, i)

\* A broken connection only makes a send fail: the worker ends in accept()
\* or in a handler, never because of what its peers do to their sockets.
PeersDoNotEndWorker == [][pc' = "exited" => pc \in {"accept", "serve"}]_pc

\* A send to a client that reads nothing and does not go away.
Stuck == client_fd \in stalled /\ pc \in {"send_headers", "send_body", "finish"}

\* With a keep-alive timeout no client holds the worker for good: it comes
\* back to accept(), unless it is caught in a send.
WorkerReturns == []<>(pc = "accept") \/ <>[]Stuck

\* The queue that is served first.
FirstListener == IF TwoSockets THEN "server_tls_fd" ELSE "server_fd"
Waiting(c) == \E i \in DOMAIN backlog[FirstListener] : backlog[FirstListener][i] = c

\* Every connection that waits in the queue served first is accepted, even
\* while others keep the worker busy or reconnect.
EveryoneAccepted ==
    (\A c \in Conns : Waiting(c) ~> ~Waiting(c)) \/ <>[]Stuck
=============================================================================
