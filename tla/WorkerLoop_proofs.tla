--------------------------- MODULE WorkerLoop_proofs ---------------------------
(***************************************************************************)
(* Theorems about WorkerLoop, for any set of clients and any               *)
(* configuration of the server.                                            *)
(***************************************************************************)
EXTENDS WorkerLoop, SequenceTheorems, TLAPS

-------------------------------------------------------------------------------
(* Lemmas on the data.                                                     *)

\* Lines written for a parsed request are lines of a response.
LEMMA LinesType ==
    ASSUME NEW names \in Seq(LineNames), NEW r \in Request
    PROVE  Lines(names, r) \in Seq(Line)
BY DEF Lines, Line

\* What a read takes and what it leaves are sequences of segments.
LEMMA TakenType ==
    ASSUME TypeOK, NEW c \in Conns
    PROVE  /\ Taken(c) \in Seq(Segment)
           /\ Left(c) \in Seq(Segment)
BY DEF Taken, Left, TypeOK

\* The parser fills its fields from the input alone, or from nothing.
LEMMA ParseType ==
    ASSUME NEW input \in Seq(Segment), NEW stale \in SUBSET Conns,
           client_fd \in Conns
    PROVE  Parse(input, stale) \in Request
<1>1. NoRequest \in Request
  BY BoundsAssumption DEF NoRequest, Request
<1>2. ASSUME input # <<>> PROVE input[1].req \in 0..MaxRequests
  <2>1. input[1] \in Segment
    BY <1>2
  <2> QED BY <2>1 DEF Segment
<1> QED BY <1>1, <1>2 DEF Parse, Request

\* What is delivered is appended to what the client received.
LEMMA DeliverType ==
    ASSUME TypeOK, NEW text \in Seq(Line), client_fd \in Conns, Deliver(text)
    PROVE  replies' \in [Conns -> Seq(Message)]
<1>1. [tls |-> tls_ssl # NoConn, text |-> text] \in Message
  BY DEF Message
<1>2. Append(replies[client_fd], [tls |-> tls_ssl # NoConn, text |-> text]) \in Seq(Message)
  BY <1>1 DEF TypeOK
<1> QED BY <1>2 DEF Deliver, TypeOK

\* A hello is a segment.
LEMMA HelloType == Hello \in Segment
BY BoundsAssumption DEF Hello, Segment

-------------------------------------------------------------------------------
(* Type correctness.  The type invariant is inductive only together with   *)
(* the fact that the worker holds a connection wherever it uses one.       *)

\* client_fd is a connection wherever the worker reads or writes.
ClientSet == Holding => client_fd \in Conns

LEMMA TypeInit == Init => TypeOK /\ ClientSet
<1>1. NoRequest \in Request
  BY BoundsAssumption DEF NoRequest, Request
<1>2. /\ <<>> \in Seq(Segment) /\ <<>> \in Seq(Line)
      /\ <<>> \in Seq(Conns) /\ <<>> \in Seq(Message)
  BY EmptySeq
<1> SUFFICES ASSUME Init PROVE TypeOK /\ ClientSet
  OBVIOUS
<1>3. /\ backlog \in [Listeners -> Seq(Conns)]
      /\ status \in [Conns -> {"away", "queued", "open"}]
      /\ proto \in [Conns -> {"http", "tls", "session"}]
  BY <1>2 DEF Init
<1>4. /\ recv \in [Conns -> Seq(Segment)]
      /\ gone \in [Conns -> BOOLEAN]
      /\ asked \in [Conns -> Nat]
      /\ replies \in [Conns -> Seq(Message)]
  BY <1>2 DEF Init
<1>5. /\ pc \in Locations /\ client_fd \in Conns \cup {NoConn}
      /\ tls_ssl \in Conns \cup {NoConn}
      /\ net_input_buffer \in Seq(Segment) /\ residue \in SUBSET Conns
      /\ stalled \in SUBSET Conns
  BY <1>2 DEF Init, Locations
<1>6. /\ sigpipe_ignored \in BOOLEAN /\ is_tls_connection \in BOOLEAN
      /\ request \in Request /\ keep_alive \in BOOLEAN /\ request_count \in Nat
      /\ net_headers_buffer \in Seq(Line) /\ net_buffer \in Seq(Line)
      /\ ClientSet
  BY <1>1, <1>2 DEF Init, ClientSet, Holding
<1> QED BY <1>3, <1>4, <1>5, <1>6 DEF TypeOK

LEMMA TypeWorker ==
    ASSUME TypeOK, ClientSet, Worker
    PROVE  TypeOK' /\ ClientSet'
<1> USE DEF ClientSet, Holding, Locations, peer_vars
<1>1. CASE Start
  BY <1>1 DEF Start, TypeOK
<1>2. ASSUME NEW l \in Listeners, Accept(l) PROVE TypeOK' /\ ClientSet'
  <2>1. /\ Head(backlog[l]) \in Conns
        /\ Tail(backlog[l]) \in Seq(Conns)
    BY <1>2 DEF Accept, ReadyListener, TypeOK
  <2>2. SpeaksTls(l) \in BOOLEAN
    BY ConfigAssumption DEF SpeaksTls
  <2>3. AfterAccept(l) \in {"peek", "redirect", "poll"}
    BY DEF AfterAccept
  <2> QED BY <1>2, <2>1, <2>2, <2>3 DEF Accept, TypeOK
<1>3. CASE Peek
  BY <1>3 DEF Peek, TypeOK
<1>4. CASE HandshakeOk
  BY <1>4 DEF HandshakeOk, TypeOK
<1>5. CASE HandshakeError
  BY <1>5 DEF HandshakeError, TypeOK
<1>6. CASE PollReady
  BY <1>6 DEF PollReady, TypeOK
<1>7. CASE PollGivesWay
  BY <1>7 DEF PollGivesWay, TypeOK
<1>8. CASE PollTimeout
  BY <1>8 DEF PollTimeout, TypeOK
<1>9. CASE Read
  <2>1. client_fd \in Conns
    BY <1>9 DEF Read
  <2> QED BY <1>9, <2>1, TakenType DEF Read, AfterRead, TypeOK
<1>10. ASSUME NEW outcome \in Outcomes, NEW asks \in BOOLEAN, Serve(outcome, asks)
       PROVE  TypeOK' /\ ClientSet'
  <2> DEFINE connection == IF keep_alive' THEN "keep-alive" ELSE "close"
  <2>1. client_fd \in Conns
    BY <1>10 DEF Serve
  <2>2. request' \in Request
    BY <1>10, <2>1, ParseType DEF Serve, TypeOK
  <2>3. /\ HandlerHead(outcome) \o <<connection, "length">> \in Seq(LineNames)
        /\ HandlerBody(outcome) \in Seq(LineNames)
    <3>1. /\ HandlerHead(outcome) \in Seq(LineNames)
          /\ HandlerBody(outcome) \in Seq(LineNames)
      <4>1. <<>> \in Seq(LineNames) /\ <<"200">> \in Seq(LineNames) /\ <<"body">> \in Seq(LineNames)
        BY DEF LineNames
      <4> QED BY <4>1 DEF HandlerHead, HandlerBody
    <3>2. <<connection, "length">> \in Seq(LineNames)
      BY DEF LineNames
    <3> QED BY <3>1, <3>2, ConcatProperties
  <2>4. net_headers_buffer' \in Seq(Line) /\ net_buffer' \in Seq(Line)
    <3>1. /\ Lines(HandlerHead(outcome) \o <<connection, "length">>, request') \in Seq(Line)
          /\ Lines(HandlerBody(outcome), request') \in Seq(Line)
      BY <2>2, <2>3, LinesType
    <3>2. net_headers_buffer \in Seq(Line) /\ net_buffer \in Seq(Line)
      BY DEF TypeOK
    <3> QED BY <1>10, <3>1, <3>2, ConcatProperties DEF Serve
  <2>5. request_count' \in Nat /\ keep_alive' \in BOOLEAN
    BY <1>10 DEF Serve, KeepsAlive, ShouldKeepAlive, TypeOK
  <2> QED BY <1>10, <2>2, <2>4, <2>5 DEF Serve, TypeOK
<1>11. CASE RedirectHttps
  <2>1. client_fd \in Conns
    BY <1>11 DEF RedirectHttps
  <2>2. net_input_buffer' \in Seq(Segment) /\ recv' \in [Conns -> Seq(Segment)]
    BY <1>11, <2>1, TakenType DEF RedirectHttps, TypeOK
  <2>3. request' \in Request
    BY <1>11, <2>1, <2>2, ParseType DEF RedirectHttps, TypeOK
  <2>4. /\ <<"301", "location", "close", "length">> \in Seq(LineNames)
        /\ <<"redirecting">> \in Seq(LineNames)
    BY DEF LineNames
  <2>5. net_headers_buffer' \in Seq(Line) /\ net_buffer' \in Seq(Line)
    <3>1. /\ Lines(<<"301", "location", "close", "length">>, request') \in Seq(Line)
          /\ Lines(<<"redirecting">>, request') \in Seq(Line)
      BY <2>3, <2>4, LinesType
    <3>2. net_headers_buffer \in Seq(Line) /\ net_buffer \in Seq(Line)
      BY DEF TypeOK
    <3> QED BY <1>11, <3>1, <3>2, ConcatProperties DEF RedirectHttps
  <2> QED BY <1>11, <2>1, <2>2, <2>3, <2>5 DEF RedirectHttps, TypeOK
<1>12. CASE SendHeaders
  <2>1. replies' \in [Conns -> Seq(Message)]
    BY <1>12, DeliverType DEF SendHeaders, TypeOK
  <2> QED BY <1>12, <2>1 DEF SendHeaders, AfterSend, Survives, TypeOK
<1>13. CASE SendBody
  <2>1. replies' \in [Conns -> Seq(Message)]
    BY <1>13, DeliverType DEF SendBody, TypeOK
  <2> QED BY <1>13, <2>1 DEF SendBody, AfterSend, Survives, TypeOK
<1>14. CASE Finish
  BY <1>14 DEF Finish, FreedSession, TypeOK
<1> QED BY <1>1, <1>2, <1>3, <1>4, <1>5, <1>6, <1>7, <1>8, <1>9, <1>10, <1>11,
           <1>12, <1>13, <1>14 DEF Worker

LEMMA TypeClient ==
    ASSUME TypeOK, ClientSet, NEW c \in Conns, Client(c)
    PROVE  TypeOK' /\ ClientSet'
<1> USE DEF ClientSet, Holding, worker_vars
<1>1. ASSUME NEW l \in Listeners, Connect(c, l) PROVE TypeOK' /\ ClientSet'
  <2>1. Append(backlog[l], c) \in Seq(Conns)
    BY DEF TypeOK
  <2> QED BY <1>1, <2>1 DEF Connect, TypeOK
<1>2. CASE ClientHello(c)
  <2>1. Append(recv[c], Hello) \in Seq(Segment)
    BY HelloType, AppendProperties DEF TypeOK
  <2> QED BY <1>2, <2>1 DEF ClientHello, TypeOK
<1>3. CASE ClientSend(c)
  <2>1. (asked[c] \div 2) + 1 \in 0..MaxRequests
    <3>1. \A n, m \in Nat : n < 2 * m => (n \div 2) + 1 \in 0..m
      OBVIOUS
    <3>2. asked[c] \in Nat /\ MaxRequests \in Nat /\ asked[c] < 2 * MaxRequests
      BY <1>3, BoundsAssumption DEF ClientSend, TypeOK
    <3> QED BY <3>1, <3>2
  <2>2. PICK part \in {"whole", "start", "rest"}, n \in {1, 2} :
             /\ recv' = [recv EXCEPT ![c] =
                    Append(@, [req |-> (asked[c] \div 2) + 1, part |-> part])]
             /\ asked' = [asked EXCEPT ![c] = @ + n]
    BY <1>3 DEF ClientSend
  <2>3. Append(recv[c], [req |-> (asked[c] \div 2) + 1, part |-> part]) \in Seq(Segment)
    <3>1. [req |-> (asked[c] \div 2) + 1, part |-> part] \in Segment
      BY <2>1 DEF Segment
    <3> QED BY <3>1, AppendProperties DEF TypeOK
  <2>4. recv' \in [Conns -> Seq(Segment)]
    <3>1. recv \in [Conns -> Seq(Segment)]
      BY DEF TypeOK
    <3> QED BY <2>2, <2>3, <3>1
  <2>5. asked' \in [Conns -> Nat]
    <3>1. asked \in [Conns -> Nat] /\ asked[c] + n \in Nat
      BY DEF TypeOK
    <3> QED BY <2>2, <3>1
  <2>6. UNCHANGED <<worker_vars, backlog, status, proto, gone, stalled, replies>>
    BY <1>3 DEF ClientSend
  <2> QED BY <2>4, <2>5, <2>6 DEF TypeOK
<1>4. CASE ClientClose(c)
  <2>1. PICK left \in {recv[c], <<>>} : recv' = [recv EXCEPT ![c] = left]
    BY <1>4 DEF ClientClose
  <2>2. recv[c] \in Seq(Segment) /\ <<>> \in Seq(Segment)
    BY EmptySeq DEF TypeOK
  <2>3. recv' \in [Conns -> Seq(Segment)]
    BY <2>1, <2>2 DEF TypeOK
  <2>4. gone' \in [Conns -> BOOLEAN]
    BY <1>4 DEF ClientClose, TypeOK
  <2>5. UNCHANGED <<worker_vars, backlog, status, proto, stalled, asked, replies>>
    BY <1>4 DEF ClientClose
  <2> QED BY <2>3, <2>4, <2>5 DEF TypeOK
<1>5. CASE ClientStall(c)
  BY <1>5 DEF ClientStall, TypeOK
<1>6. CASE ClientResume(c)
  BY <1>6 DEF ClientResume, TypeOK
<1> QED BY <1>1, <1>2, <1>3, <1>4, <1>5, <1>6 DEF Client

LEMMA TypeStep ==
    ASSUME TypeOK, ClientSet, [Next]_vars
    PROVE  TypeOK' /\ ClientSet'
<1>1. CASE Worker
  BY <1>1, TypeWorker
<1>2. CASE AcceptError
  BY <1>2, ConfigAssumption DEF AcceptError, SpeaksTls, peer_vars, TypeOK,
     ClientSet, Holding, Locations
<1>3. ASSUME NEW c \in Conns, Client(c) PROVE TypeOK' /\ ClientSet'
  BY <1>3, TypeClient
<1>4. CASE HandlerCrash
  <2>1. client_fd \in Conns
    BY <1>4 DEF HandlerCrash, ClientSet, Holding
  <2>2. request' \in Request
    BY <1>4, <2>1, ParseType DEF HandlerCrash, TypeOK
  <2>3. request_count' \in Nat /\ keep_alive' \in BOOLEAN
    BY <1>4 DEF HandlerCrash, KeepsAlive, ShouldKeepAlive, TypeOK
  <2> QED BY <1>4, <2>1, <2>2, <2>3 DEF HandlerCrash, TypeOK, ClientSet, Holding, Locations
<1>5. CASE UNCHANGED vars
  BY <1>5 DEF vars, TypeOK, ClientSet, Holding
<1> QED BY <1>1, <1>2, <1>3, <1>4, <1>5 DEF Next

\* Every reachable state is of its type, whatever the clients do.
THEOREM TypeCorrect == Spec => []TypeOK
<1>1. Spec => [](TypeOK /\ ClientSet)
  BY TypeInit, TypeStep, PTL DEF Spec
<1> QED BY <1>1, PTL

-------------------------------------------------------------------------------
(* Safety: SafetyInv is inductive relative to the type invariant.          *)

\* Appending lines that redirect makes a buffer that redirects.
LEMMA RedirectAppended ==
    ASSUME NEW buffer \in Seq(Line), NEW names \in Seq(LineNames), NEW r \in Request,
           Len(names) > 0, names[1] \in {"301", "redirecting"}
    PROVE  Redirecting(buffer \o Lines(names, r))
<1> DEFINE text == Lines(names, r)
<1>1. text \in Seq(Line) /\ Len(text) = Len(names) /\ text[1].name = names[1]
  BY LinesType DEF Lines
<1> HIDE DEF text
<1>2. /\ Len(buffer \o text) = Len(buffer) + Len(text)
      /\ (buffer \o text)[Len(buffer) + 1] = text[1]
      /\ buffer \o text \in Seq(Line)
  <2>1. /\ buffer \o text \in Seq(Line)
        /\ Len(buffer \o text) = Len(buffer) + Len(text)
        /\ \A i \in 1 .. Len(buffer) + Len(text) : (buffer \o text)[i] =
               IF i <= Len(buffer) THEN buffer[i] ELSE text[i - Len(buffer)]
    BY <1>1, ConcatProperties
  <2>2. Len(buffer) \in Nat /\ Len(text) \in Nat /\ Len(text) > 0
    BY <1>1
  <2> HIDE DEF text
  <2> QED BY <2>1, <2>2
<1>3. Len(buffer) + 1 \in DOMAIN (buffer \o text)
  BY <1>1, <1>2
<1>4. Redirecting(buffer \o text)
  BY <1>1, <1>2, <1>3 DEF Redirecting
<1> QED BY <1>4 DEF text

\* Delivering a text over the session, or one that redirects, keeps the
\* promise that nothing else is sent in the clear.
LEMMA DeliverPlain ==
    ASSUME TypeOK, NoPlainReply, client_fd \in Conns, NEW text \in Seq(Line),
           Deliver(text),
           TlsEnabled /\ tls_ssl = NoConn => Redirecting(text)
    PROVE  NoPlainReply'
<1>1. CASE replies' = replies
  BY <1>1 DEF NoPlainReply, Redirecting
<1>2. CASE replies' = [replies EXCEPT ![client_fd] =
              Append(@, [tls |-> tls_ssl # NoConn, text |-> text])]
  <2> DEFINE m == [tls |-> tls_ssl # NoConn, text |-> text]
  <2> SUFFICES ASSUME TlsEnabled, NEW c \in Conns, NEW i \in DOMAIN replies'[c]
               PROVE  replies'[c][i].tls \/ Redirecting(replies'[c][i].text)
    BY DEF NoPlainReply, Redirecting
  <2>1. m \in Message /\ replies[c] \in Seq(Message)
    BY DEF Message, TypeOK
  <2>2. m.tls \/ Redirecting(m.text)
    OBVIOUS
  <2>3. CASE c # client_fd
    <3>1. replies'[c] = replies[c]
      BY <1>2, <2>3 DEF TypeOK
    <3> QED BY <3>1 DEF NoPlainReply
  <2>4. CASE c = client_fd
    <3>1. replies'[c] = Append(replies[c], m)
      BY <1>2, <2>4 DEF TypeOK
    <3>2. /\ Len(replies'[c]) = Len(replies[c]) + 1
          /\ \A j \in 1..Len(replies[c]) : replies'[c][j] = replies[c][j]
          /\ replies'[c][Len(replies[c]) + 1] = m
          /\ replies'[c] \in Seq(Message)
      BY <2>1, <3>1, AppendProperties
    <3>3. i \in 1..Len(replies[c]) \/ i = Len(replies[c]) + 1
      BY <2>1, <3>2
    <3>4. CASE i \in 1..Len(replies[c])
      BY <2>1, <3>2, <3>4 DEF NoPlainReply
    <3>5. CASE i = Len(replies[c]) + 1
      BY <2>2, <3>2, <3>5
    <3> QED BY <3>3, <3>4, <3>5
  <2> QED BY <2>3, <2>4
<1> QED BY <1>1, <1>2 DEF Deliver

LEMMA SafetyInit == Init => SafetyInv
BY DEF Init, SafetyInv, ConnectionOwned, NoPlainReply, SessionPath, Holding

\* The actions that move between two locations of the same connection and
\* touch neither the session nor the buffers.
LEMMA SafetyMove ==
    ASSUME TypeOK, SafetyInv,
           Start \/ Peek \/ HandshakeError \/ PollReady \/ PollGivesWay
                 \/ PollTimeout \/ Read \/ AcceptError
    PROVE  SafetyInv'
<1> USE DEF SafetyInv, Holding, peer_vars
<1>1. NoPlainReply'
  BY DEF NoPlainReply, Redirecting, Start, Peek, HandshakeError, PollReady,
     PollGivesWay, PollTimeout, Read, AcceptError
<1>2. ConnectionOwned'
  BY NoConnAssumption DEF ConnectionOwned, Start, Peek, HandshakeError,
     PollReady, PollGivesWay, PollTimeout, Read, AfterRead, AcceptError
<1>3. SessionPath'
  BY DEF SessionPath, ConnectionOwned, Redirecting, Start, Peek, HandshakeError,
     PollReady, PollGivesWay, PollTimeout, Read, AfterRead, AcceptError
<1> QED BY <1>1, <1>2, <1>3

LEMMA SafetyClient ==
    ASSUME TypeOK, ClientSet, SafetyInv, NEW c \in Conns, Client(c)
    PROVE  SafetyInv'
<1> USE DEF SafetyInv, Holding, worker_vars
<1>1. UNCHANGED worker_vars
  BY DEF Client, Connect, ClientHello, ClientSend, ClientClose, ClientStall,
     ClientResume
<1>2. /\ \A d \in Conns : status'[d] = "open" <=> status[d] = "open"
      /\ \A d \in Conns : replies'[d] = replies[d] \/ replies'[d] = <<>>
  BY DEF Client, Connect, ClientHello, ClientSend, ClientClose, ClientStall,
     ClientResume, TypeOK
<1>3. ConnectionOwned'
  BY <1>1, <1>2 DEF ConnectionOwned
<1>4. NoPlainReply'
  BY <1>2 DEF NoPlainReply, Redirecting
<1>5. SessionPath'
  BY <1>1 DEF SessionPath, Redirecting
<1> QED BY <1>3, <1>4, <1>5

LEMMA SafetyWorker ==
    ASSUME TypeOK, ClientSet, SafetyInv, Worker
    PROVE  SafetyInv'
<1> USE DEF SafetyInv, Holding
<1>1. CASE Start \/ Peek \/ HandshakeError \/ PollReady \/ PollGivesWay
           \/ PollTimeout \/ Read
  BY <1>1, SafetyMove
<1>2. ASSUME NEW l \in Listeners, Accept(l) PROVE SafetyInv'
  <2>1. Head(backlog[l]) \in Conns
    BY <1>2, HeadTailProperties DEF Accept, ReadyListener, TypeOK
  <2>2. ConnectionOwned'
    BY <1>2, <2>1 DEF ConnectionOwned, Accept, AfterAccept, TypeOK
  <2>3. NoPlainReply'
    BY <1>2 DEF NoPlainReply, Redirecting, Accept
  <2>4. SessionPath'
    BY <1>2 DEF SessionPath, ConnectionOwned, Accept, AfterAccept
  <2> QED BY <2>2, <2>3, <2>4
<1>3. CASE HandshakeOk
  <2>1. client_fd \in Conns /\ client_fd # NoConn
    BY <1>3, NoConnAssumption DEF HandshakeOk, ClientSet
  <2>2. ConnectionOwned'
    BY <1>3, <2>1 DEF ConnectionOwned, HandshakeOk
  <2>3. NoPlainReply'
    BY <1>3 DEF NoPlainReply, Redirecting, HandshakeOk
  <2>4. SessionPath'
    BY <1>3, <2>1 DEF SessionPath, HandshakeOk
  <2> QED BY <2>2, <2>3, <2>4
<1>4. ASSUME NEW outcome \in Outcomes, NEW asks \in BOOLEAN, Serve(outcome, asks)
      PROVE  SafetyInv'
  <2>1. ConnectionOwned'
    BY <1>4 DEF ConnectionOwned, Serve, peer_vars
  <2>2. NoPlainReply'
    BY <1>4 DEF NoPlainReply, Redirecting, Serve, peer_vars
  <2>3. SessionPath'
    BY <1>4 DEF SessionPath, Serve
  <2> QED BY <2>1, <2>2, <2>3
<1>5. CASE RedirectHttps
  <2>1. ConnectionOwned'
    BY <1>5 DEF ConnectionOwned, RedirectHttps
  <2>2. NoPlainReply'
    BY <1>5 DEF NoPlainReply, Redirecting, RedirectHttps
  <2>3. TypeOK'
    BY <1>5, TypeWorker DEF Worker
  <2>4. Redirecting(net_headers_buffer') /\ Redirecting(net_buffer')
    <3>1. /\ <<"301", "location", "close", "length">> \in Seq(LineNames)
          /\ <<"redirecting">> \in Seq(LineNames)
      BY DEF LineNames
    <3>2. request' \in Request
      BY <2>3 DEF TypeOK
    <3>3. net_headers_buffer \in Seq(Line) /\ net_buffer \in Seq(Line)
      BY DEF TypeOK
    <3>4. Redirecting(net_headers_buffer \o
              Lines(<<"301", "location", "close", "length">>, request'))
      <4> DEFINE names == <<"301", "location", "close", "length">>
      <4>1. names \in Seq(LineNames) /\ Len(names) > 0 /\ names[1] = "301"
        BY <3>1
      <4> HIDE DEF names
      <4>2. Redirecting(net_headers_buffer \o Lines(names, request'))
        BY <4>1, <3>2, <3>3, RedirectAppended
      <4> QED BY <4>2 DEF names
    <3>5. Redirecting(net_buffer \o Lines(<<"redirecting">>, request'))
      <4> DEFINE names == <<"redirecting">>
      <4>1. names \in Seq(LineNames) /\ Len(names) > 0 /\ names[1] = "redirecting"
        BY <3>1
      <4> HIDE DEF names
      <4>2. Redirecting(net_buffer \o Lines(names, request'))
        BY <4>1, <3>2, <3>3, RedirectAppended
      <4> QED BY <4>2 DEF names
    <3> QED BY <1>5, <3>4, <3>5 DEF RedirectHttps
  <2>5. SessionPath'
    BY <1>5, <2>4 DEF SessionPath, Redirecting, RedirectHttps
  <2> QED BY <2>1, <2>2, <2>5
<1>6. CASE SendHeaders
  <2>1. ConnectionOwned'
    BY <1>6 DEF ConnectionOwned, SendHeaders, Survives, SessionPath
  <2>2. NoPlainReply'
    <3>1. client_fd \in Conns /\ net_headers_buffer \in Seq(Line)
      BY <1>6 DEF SendHeaders, ClientSet, TypeOK
    <3>2. Deliver(net_headers_buffer)
      BY <1>6 DEF SendHeaders
    <3>3. TlsEnabled /\ tls_ssl = NoConn => Redirecting(net_headers_buffer)
      BY <1>6 DEF SendHeaders, SessionPath
    <3> QED BY <3>1, <3>2, <3>3, DeliverPlain
  <2>3. SessionPath'
    BY <1>6 DEF SessionPath, SendHeaders, Survives, Redirecting
  <2> QED BY <2>1, <2>2, <2>3
<1>7. CASE SendBody
  <2>1. ConnectionOwned'
    BY <1>7 DEF ConnectionOwned, SendBody, Survives, SessionPath
  <2>2. NoPlainReply'
    <3>1. client_fd \in Conns /\ net_buffer \in Seq(Line)
      BY <1>7 DEF SendBody, ClientSet, TypeOK
    <3>2. Deliver(net_buffer)
      BY <1>7 DEF SendBody
    <3>3. TlsEnabled /\ tls_ssl = NoConn => Redirecting(net_buffer)
      BY <1>7 DEF SendBody, SessionPath
    <3> QED BY <3>1, <3>2, <3>3, DeliverPlain
  <2>3. SessionPath'
    BY <1>7 DEF SessionPath, SendBody, Survives
  <2> QED BY <2>1, <2>2, <2>3
<1>8. CASE Finish
  <2>1. ConnectionOwned'
    BY <1>8 DEF ConnectionOwned, Finish, FreedSession, TypeOK
  <2>2. NoPlainReply'
    BY <1>8 DEF NoPlainReply, Redirecting, Finish
  <2>3. SessionPath'
    BY <1>8 DEF SessionPath, Finish
  <2> QED BY <2>1, <2>2, <2>3
<1> QED BY <1>1, <1>2, <1>3, <1>4, <1>5, <1>6, <1>7, <1>8 DEF Worker

LEMMA SafetyStep ==
    ASSUME TypeOK, ClientSet, SafetyInv, [Next]_vars
    PROVE  SafetyInv'
<1>1. CASE Worker
  BY <1>1, SafetyWorker
<1>2. CASE AcceptError
  BY <1>2, SafetyMove
<1>3. ASSUME NEW c \in Conns, Client(c) PROVE SafetyInv'
  BY <1>3, SafetyClient
<1>4. CASE HandlerCrash
  <2>1. ConnectionOwned'
    BY <1>4 DEF ConnectionOwned, Holding, HandlerCrash, SafetyInv, TypeOK
  <2>2. NoPlainReply'
    BY <1>4 DEF NoPlainReply, Redirecting, HandlerCrash, SafetyInv
  <2>3. SessionPath'
    BY <1>4 DEF SessionPath, HandlerCrash, SafetyInv
  <2> QED BY <2>1, <2>2, <2>3 DEF SafetyInv
<1>5. CASE UNCHANGED vars
  BY <1>5 DEF vars, SafetyInv, ConnectionOwned, NoPlainReply, SessionPath,
     Holding, Redirecting
<1> QED BY <1>1, <1>2, <1>3, <1>4, <1>5 DEF Next

\* The worker owns one connection at a time and one session on it, and with
\* TLS on nothing but the redirection leaves in the clear.
THEOREM SafetyCorrect == Spec => []SafetyInv
<1>1. Init => TypeOK /\ ClientSet /\ SafetyInv
  BY TypeInit, SafetyInit
<1>2. TypeOK /\ ClientSet /\ SafetyInv /\ [Next]_vars =>
          (TypeOK /\ ClientSet /\ SafetyInv)'
  BY TypeStep, SafetyStep
<1> QED BY <1>1, <1>2, PTL DEF Spec

\* No client's step and no broken connection ends the worker: only a failed
\* accept or a handler does.
THEOREM WorkerOutlivesPeers == Spec => PeersDoNotEndWorker
<1>1. TypeOK /\ SafetyInv /\ [Next]_vars => [pc' = "exited" => pc \in {"accept", "serve"}]_pc
  <2> SUFFICES ASSUME TypeOK, SafetyInv, [Next]_vars, pc' = "exited", pc' # pc
               PROVE  pc \in {"accept", "serve"}
    OBVIOUS
  <2>1. ASSUME NEW c \in Conns, Client(c) PROVE pc' = pc
    BY <2>1 DEF Client, Connect, ClientHello, ClientSend, ClientClose,
       ClientStall, ClientResume, worker_vars
  <2>2. CASE Worker
    <3>1. pc # "start" => sigpipe_ignored
      BY DEF SafetyInv, SessionPath
    <3> QED BY <2>2, <3>1 DEF Worker, Start, Accept, AfterAccept, Peek, HandshakeOk,
               HandshakeError, PollReady, PollGivesWay, PollTimeout, Read,
               AfterRead, Serve, RedirectHttps, SendHeaders, SendBody, Survives,
               Finish
  <2>3. CASE AcceptError
    BY <2>3 DEF AcceptError
  <2>4. CASE HandlerCrash
    BY <2>4 DEF HandlerCrash
  <2>5. CASE UNCHANGED vars
    BY <2>5 DEF vars
  <2> QED BY <2>1, <2>2, <2>3, <2>4, <2>5 DEF Next
<1>2. Spec => []TypeOK /\ []SafetyInv
  BY TypeCorrect, SafetyCorrect
<1> QED BY <1>1, <1>2, PTL DEF Spec, PeersDoNotEndWorker
=============================================================================
