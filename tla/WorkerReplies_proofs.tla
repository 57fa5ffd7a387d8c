------------------------- MODULE WorkerReplies_proofs -------------------------
(***************************************************************************)
(* Theorems about what the clients of a worker receive: how their bytes    *)
(* are framed, whose requests they answer, in which order, and what the    *)
(* Connection headers promise.                                             *)
(*                                                                         *)
(* One invariant stands on the other: who waits in a queue (QueueInv),     *)
(* what the output buffers hold (FrameInv), what the loop has decided      *)
(* (PromiseInv), what is in flight (StreamInv), whose it is (OwnInv) and   *)
(* which request is next (OrderInv).                                       *)
(***************************************************************************)
EXTENDS WorkerLoop_proofs, FiniteSetTheorems

-------------------------------------------------------------------------------
(* Lemmas on the data.                                                     *)

\* The lines of a head: their names, their request, and what they say.
LEMMA HeadText ==
    ASSUME NEW names \in HeadNames, NEW r \in Request
    PROVE  LET text == Lines(names, r)
           IN /\ names \in Seq(LineNames) /\ text \in Seq(Line)
              /\ text # <<>> /\ Len(text) = Len(names) /\ Len(names) > 1
              /\ Names(text) = names
              /\ text[Len(text)].name = "length"
              /\ Says(text) = names[Len(names) - 1]
              /\ text[1].name = names[1]
              /\ \A j \in DOMAIN text : text[j].of = r
              /\ 1 \in DOMAIN text
<1> DEFINE text == Lines(names, r)
<1>a. /\ names \in Seq(LineNames)
      /\ Len(names) \in Nat /\ Len(names) > 1
      /\ names[Len(names)] = "length"
  <2>1. CASE names = <<"200", "keep-alive", "length">>
    BY <2>1 DEF LineNames
  <2>2. CASE names = <<"200", "close", "length">>
    BY <2>2 DEF LineNames
  <2>3. CASE names = <<"keep-alive", "length">>
    BY <2>3 DEF LineNames
  <2>4. CASE names = <<"close", "length">>
    BY <2>4 DEF LineNames
  <2>5. CASE names = <<"301", "location", "close", "length">>
    BY <2>5 DEF LineNames
  <2> QED BY <2>1, <2>2, <2>3, <2>4, <2>5 DEF HeadNames
<1>1. names \in Seq(LineNames)
  BY <1>a
<1>2. text \in Seq(Line)
  BY <1>1, LinesType
<1>3. /\ Len(names) \in Nat /\ Len(names) > 1
      /\ names[Len(names)] = "length"
  BY <1>a
<1>4. DOMAIN text = 1..Len(names) /\ Len(text) = Len(names)
  BY <1>3 DEF Lines
<1>5. \A j \in 1..Len(names) : text[j] = [name |-> names[j], of |-> r]
  BY DEF Lines
<1>6. Len(names) \in 1..Len(names) /\ Len(names) - 1 \in 1..Len(names)
      /\ 1 \in 1..Len(names)
  BY <1>3
<1>7. Names(text) = names
  <2>1. DOMAIN names = 1..Len(names) /\ names = [j \in 1..Len(names) |-> names[j]]
    BY <1>1
  <2>2. Names(text) = [j \in 1..Len(names) |-> names[j]]
    BY <1>4, <1>5 DEF Names
  <2> QED BY <2>1, <2>2
<1>8. text # <<>>
  BY <1>3, <1>4
<1>9. /\ text[Len(text)].name = "length"
      /\ Says(text) = names[Len(names) - 1]
      /\ text[1].name = names[1]
  BY <1>3, <1>4, <1>5, <1>6 DEF Says
<1>10. \A j \in DOMAIN text : text[j].of = r
  BY <1>4, <1>5
<1> HIDE DEF text
<1>11. /\ names \in Seq(LineNames) /\ text \in Seq(Line)
       /\ text # <<>> /\ Len(text) = Len(names) /\ Len(names) > 1
       /\ Names(text) = names
       /\ text[Len(text)].name = "length"
       /\ Says(text) = names[Len(names) - 1]
       /\ text[1].name = names[1]
       /\ \A j \in DOMAIN text : text[j].of = r
       /\ 1 \in DOMAIN text
  BY <1>1, <1>2, <1>3, <1>4, <1>6, <1>7, <1>8, <1>9, <1>10
<1> QED BY <1>11 DEF text

\* The one line of a body.
LEMMA BodyText ==
    ASSUME NEW names \in BodyNames, NEW r \in Request
    PROVE  LET text == Lines(names, r)
           IN /\ names \in Seq(LineNames) /\ text \in Seq(Line)
              /\ Len(text) = 1 /\ text # <<>>
              /\ Names(text) = names
              /\ text[Len(text)].name # "length"
              /\ text[1].of = r
              /\ \A j \in DOMAIN text : text[j].of = r
<1> DEFINE text == Lines(names, r)
<1>1. names \in Seq(LineNames) /\ Len(names) = 1 /\ names[1] # "length"
  <2>1. CASE names = <<"body">>
    BY <2>1 DEF LineNames
  <2>2. CASE names = <<"redirecting">>
    BY <2>2 DEF LineNames
  <2> QED BY <2>1, <2>2 DEF BodyNames
<1>2. text \in Seq(Line)
  BY <1>1, LinesType
<1>3. DOMAIN text = 1..1 /\ Len(text) = 1 /\ text[1] = [name |-> names[1], of |-> r]
  BY <1>1 DEF Lines
<1>6. text[1].name = names[1] /\ text[1].of = r /\ \A j \in 1..1 : j = 1
  BY <1>3
<1>4. Names(text) = names
  <2>1. names = [j \in 1..1 |-> names[j]]
    BY <1>1
  <2>2. Names(text) = [j \in 1..1 |-> names[j]]
    BY <1>3 DEF Names
  <2> QED BY <2>1, <2>2
<1> HIDE DEF text
<1>5. /\ names \in Seq(LineNames) /\ text \in Seq(Line)
      /\ Len(text) = 1 /\ text # <<>>
      /\ Names(text) = names
      /\ text[Len(text)].name # "length"
      /\ text[1].of = r
      /\ \A j \in DOMAIN text : text[j].of = r
  <2>1. text # <<>>
    BY <1>2, <1>3, EmptySeq
  <2>2. text[Len(text)].name # "length"
    BY <1>1, <1>3, <1>6
  <2>3. \A j \in DOMAIN text : text[j].of = r
    BY <1>3, <1>6
  <2> QED BY <1>1, <1>2, <1>3, <1>4, <1>6, <2>1, <2>2, <2>3
<1> QED BY <1>5 DEF text

\* What c received is a finite sequence, and so are its heads.
LEMMA HeadsFinite ==
    ASSUME TypeOK, NEW c \in Conns
    PROVE  /\ Len(replies[c]) \in Nat /\ DOMAIN replies[c] = 1..Len(replies[c])
           /\ HeadsAt(c) \subseteq 1..Len(replies[c])
           /\ \A S \in SUBSET HeadsAt(c) : IsFiniteSet(S) /\ Cardinality(S) \in Nat
           /\ Answers(c) \in Nat
           /\ \A i \in HeadsAt(c) : Which(c, i) \in Nat
<1>1. replies[c] \in Seq(Message)
  BY DEF TypeOK
<1>2. Len(replies[c]) \in Nat /\ DOMAIN replies[c] = 1..Len(replies[c])
  BY <1>1
<1>3. HeadsAt(c) \subseteq 1..Len(replies[c])
  BY <1>2 DEF HeadsAt
<1>4. IsFiniteSet(1..Len(replies[c]))
  BY <1>2, FS_Interval
<1>5. \A S \in SUBSET HeadsAt(c) : IsFiniteSet(S) /\ Cardinality(S) \in Nat
  <2> SUFFICES ASSUME NEW S \in SUBSET HeadsAt(c)
               PROVE  IsFiniteSet(S) /\ Cardinality(S) \in Nat
    OBVIOUS
  <2>1. S \in SUBSET (1..Len(replies[c]))
    BY <1>3
  <2>2. IsFiniteSet(S)
    BY <1>4, <2>1, FS_Subset
  <2> QED BY <2>2, FS_CardinalityType
<1>6. Answers(c) \in Nat
  BY <1>5 DEF Answers
<1>7. ASSUME NEW i \in HeadsAt(c) PROVE Which(c, i) \in Nat
  <2>1. {j \in HeadsAt(c) : j <= i} \in SUBSET HeadsAt(c)
    OBVIOUS
  <2> QED BY <1>5, <2>1 DEF Which
<1> QED BY <1>2, <1>3, <1>5, <1>6, <1>7

\* A client that received nothing was answered nothing.
LEMMA NoHeads ==
    ASSUME NEW c \in Conns, replies[c] = <<>>
    PROVE  HeadsAt(c) = {} /\ Answers(c) = 0
<1>1. HeadsAt(c) = {}
  BY DEF HeadsAt
<1> QED BY <1>1, FS_EmptySet DEF Answers

\* While nothing is sent to c its heads and their count stay.
LEMMA HeadsKept ==
    ASSUME NEW c \in Conns, replies'[c] = replies[c]
    PROVE  /\ HeadsAt(c)' = HeadsAt(c) /\ Answers(c)' = Answers(c)
           /\ \A i : Which(c, i)' = Which(c, i)
<1>1. HeadsAt(c)' = HeadsAt(c)
  BY DEF HeadsAt, IsHead
<1> QED BY <1>1 DEF Answers, Which

\* A message that is not a head leaves the heads alone; a head is counted
\* after all the earlier ones, whose numbers stay.
LEMMA HeadAppended ==
    ASSUME TypeOK, NEW c \in Conns, NEW m \in Message,
           replies'[c] = Append(replies[c], m), NEW n, n = Len(replies[c]) + 1
    PROVE  /\ n \in Nat /\ n \notin HeadsAt(c)
           /\ HeadsAt(c)' = IF IsHead(m) THEN HeadsAt(c) \cup {n} ELSE HeadsAt(c)
           /\ Answers(c)' = IF IsHead(m) THEN Answers(c) + 1 ELSE Answers(c)
           /\ IsHead(m) => Which(c, n)' = Answers(c) + 1
           /\ \A i \in HeadsAt(c) :
                  /\ i < n /\ Which(c, i)' = Which(c, i)
                  /\ replies'[c][i] = replies[c][i]
           /\ replies'[c][n] = m
<1>1. replies[c] \in Seq(Message)
  BY DEF TypeOK
<1>2. /\ Len(replies[c]) \in Nat /\ n \in Nat
      /\ DOMAIN replies'[c] = 1..n
      /\ \A i \in 1..Len(replies[c]) : replies'[c][i] = replies[c][i]
      /\ replies'[c][n] = m
  BY <1>1, AppendProperties
<1>3. HeadsAt(c) \subseteq 1..Len(replies[c]) /\ DOMAIN replies[c] = 1..Len(replies[c])
  BY HeadsFinite
<1>4. \A i \in HeadsAt(c) : i < n /\ i # n /\ replies'[c][i] = replies[c][i]
  BY <1>2, <1>3
<1>5. \A i \in 1..n : i = n \/ i \in 1..Len(replies[c])
  BY <1>2
<1>6. HeadsAt(c)' = {i \in 1..n : IsHead(replies'[c][i])}
  BY <1>2 DEF HeadsAt, IsHead
<1>7. HeadsAt(c) = {i \in 1..Len(replies[c]) : IsHead(replies[c][i])}
  BY <1>3 DEF HeadsAt
<1>8. n \in 1..n /\ n \notin 1..Len(replies[c])
      /\ \A i \in 1..Len(replies[c]) : i \in 1..n
  BY <1>2
<1>9. HeadsAt(c)' = IF IsHead(m) THEN HeadsAt(c) \cup {n} ELSE HeadsAt(c)
  BY <1>2, <1>5, <1>6, <1>7, <1>8
<1>10. Answers(c)' = IF IsHead(m) THEN Answers(c) + 1 ELSE Answers(c)
  <2>1. IsFiniteSet(HeadsAt(c)) /\ n \notin HeadsAt(c)
    BY <1>4, HeadsFinite
  <2>2. Cardinality(HeadsAt(c) \cup {n}) = Cardinality(HeadsAt(c)) + 1
    BY <2>1, FS_AddElement
  <2> QED BY <1>9, <2>2 DEF Answers
<1>11. IsHead(m) => Which(c, n)' = Answers(c) + 1
  <2>1. ASSUME IsHead(m) PROVE {j \in HeadsAt(c)' : j <= n} = HeadsAt(c)'
    <3>1. \A j \in HeadsAt(c) \cup {n} : j <= n
      BY <1>2, <1>3, <1>4
    <3> QED BY <1>9, <2>1, <3>1
  <2> QED BY <1>10, <2>1 DEF Which, Answers
<1>12. ASSUME NEW i \in HeadsAt(c) PROVE Which(c, i)' = Which(c, i)
  <2>1. i \in Nat /\ i < n /\ n \in Nat
    BY <1>2, <1>3, <1>4
  <2>2. ~(n <= i)
    BY <2>1
  <2>3. {j \in HeadsAt(c)' : j <= i} = {j \in HeadsAt(c) : j <= i}
    BY <1>9, <2>2
  <2> QED BY <2>3 DEF Which
<1> QED BY <1>2, <1>4, <1>9, <1>10, <1>11, <1>12

-------------------------------------------------------------------------------
(* The accept queues.                                                      *)

\* Who waits in a queue is queued, and once only.
QueueInv ==
    /\ \A l \in Listeners : \A i \in DOMAIN backlog[l] :
           status[backlog[l][i]] = "queued"
    /\ \A k, l \in Listeners : \A i \in DOMAIN backlog[k], j \in DOMAIN backlog[l] :
           backlog[k][i] = backlog[l][j] => k = l /\ i = j

LEMMA QueueInit == Init => QueueInv
BY DEF Init, QueueInv

\* Where the queues stay, their members stay queued.
LEMMA QueueKept ==
    ASSUME QueueInv, backlog' = backlog,
           \A d \in Conns : status[d] = "queued" => status'[d] = "queued",
           TypeOK
    PROVE  QueueInv'
<1>1. \A l \in Listeners : \A i \in DOMAIN backlog[l] : backlog[l][i] \in Conns
  BY DEF TypeOK
<1> QED BY <1>1 DEF QueueInv

\* The first of a queue leaves it.
LEMMA QueueAccept ==
    ASSUME TypeOK, QueueInv, NEW l \in Listeners, Accept(l)
    PROVE  /\ QueueInv'
           /\ client_fd' \in Conns /\ status[client_fd'] = "queued"
           /\ \E i \in DOMAIN backlog[l] : backlog[l][i] = client_fd'
<1> DEFINE queue == backlog[l]
<1>1. queue \in Seq(Conns) /\ queue # <<>>
  BY DEF Accept, ReadyListener, TypeOK
<1>2. /\ Len(queue) \in Nat /\ Len(queue) > 0 /\ DOMAIN queue = 1..Len(queue)
      /\ 1 \in DOMAIN queue /\ client_fd' = queue[1] /\ queue[1] \in Conns
  BY <1>1 DEF Accept
<1>3. /\ DOMAIN Tail(queue) = 1..(Len(queue) - 1)
      /\ \A i \in 1..(Len(queue) - 1) : /\ i + 1 \in DOMAIN queue /\ i + 1 # 1
                                        /\ Tail(queue)[i] = queue[i + 1]
  BY <1>1, <1>2, HeadTailProperties
<1>4. /\ backlog'[l] = Tail(queue)
      /\ \A k \in Listeners : k # l => backlog'[k] = backlog[k]
      /\ status' = [status EXCEPT ![client_fd'] = "open"]
  BY DEF Accept, TypeOK
<1>5. \A k \in Listeners : \A i \in DOMAIN backlog[k] : backlog[k][i] \in Conns
  BY DEF TypeOK
<1>6. \A d \in Conns : d # client_fd' => status'[d] = status[d]
  BY <1>4 DEF TypeOK
<1> HIDE DEF queue
<1>7. ASSUME NEW k \in Listeners, NEW i \in DOMAIN backlog'[k]
      PROVE  \E m \in DOMAIN backlog[k] :
                 /\ m = (IF k = l THEN i + 1 ELSE i) /\ (k = l => m # 1)
                 /\ backlog'[k][i] = backlog[k][m]
  <2>1. CASE k = l
    BY <1>3, <1>4, <2>1 DEF queue
  <2>2. CASE k # l
    BY <1>4, <2>2
  <2> QED BY <2>1, <2>2
<1>8. ASSUME NEW k \in Listeners, NEW i \in DOMAIN backlog'[k]
      PROVE  status'[backlog'[k][i]] = "queued"
  <2>1. PICK m \in DOMAIN backlog[k] : (k = l => m # 1) /\ backlog'[k][i] = backlog[k][m]
    BY <1>7
  <2>2. backlog[k][m] # client_fd'
    BY <1>2, <2>1 DEF QueueInv, queue
  <2> QED BY <1>5, <1>6, <2>1, <2>2 DEF QueueInv
<1>9. ASSUME NEW k \in Listeners, NEW m \in Listeners, NEW i \in DOMAIN backlog'[k],
             NEW j \in DOMAIN backlog'[m], backlog'[k][i] = backlog'[m][j]
      PROVE  k = m /\ i = j
  <2>1. PICK x \in DOMAIN backlog[k] : /\ x = (IF k = l THEN i + 1 ELSE i)
                                       /\ backlog'[k][i] = backlog[k][x]
    BY <1>7
  <2>2. PICK y \in DOMAIN backlog[m] : /\ y = (IF m = l THEN j + 1 ELSE j)
                                       /\ backlog'[m][j] = backlog[m][y]
    BY <1>7
  <2>3. backlog[k][x] = backlog[m][y]
    BY <1>9, <2>1, <2>2
  <2>4. k = m /\ x = y
    BY <2>3 DEF QueueInv
  <2>5. CASE k # l
    BY <2>1, <2>2, <2>4, <2>5
  <2>6. CASE k = l
    <3>1. DOMAIN backlog'[l] = 1..(Len(queue) - 1)
      BY <1>3, <1>4
    <3>2. i \in Int /\ j \in Int
      <4>1. i \in DOMAIN backlog'[l] /\ j \in DOMAIN backlog'[l]
        BY <2>4, <2>6
      <4> QED BY <3>1, <4>1
    <3> QED BY <2>1, <2>2, <2>4, <2>6, <3>2
  <2> QED BY <2>5, <2>6
<1>10. QueueInv'
  <2>1. DOMAIN backlog' = Listeners \/ TRUE
    OBVIOUS
  <2> QED BY <1>8, <1>9 DEF QueueInv
<1>11. status[queue[1]] = "queued"
  BY <1>2 DEF QueueInv, queue
<1> QED BY <1>2, <1>10, <1>11 DEF queue

\* A client that was away is the last of the queue it joins.
LEMMA QueueConnect ==
    ASSUME TypeOK, QueueInv, NEW c \in Conns, NEW l \in Listeners, Connect(c, l)
    PROVE  QueueInv'
<1> DEFINE n == Len(backlog[l]) + 1
<1>1. backlog[l] \in Seq(Conns)
  BY DEF TypeOK
<1>2. /\ backlog'[l] = Append(backlog[l], c)
      /\ \A k \in Listeners : k # l => backlog'[k] = backlog[k]
      /\ status[c] = "away" /\ status'[c] = "queued"
      /\ \A d \in Conns : d # c => status'[d] = status[d]
  BY DEF Connect, TypeOK
<1>3. /\ DOMAIN backlog'[l] = DOMAIN backlog[l] \cup {n} /\ backlog'[l][n] = c
      /\ \A i \in DOMAIN backlog[l] : i # n /\ backlog'[l][i] = backlog[l][i]
  <2>1. /\ Len(backlog[l]) \in Nat /\ DOMAIN backlog[l] = 1..Len(backlog[l])
        /\ DOMAIN Append(backlog[l], c) = 1..n
        /\ Append(backlog[l], c)[n] = c
        /\ \A i \in 1..Len(backlog[l]) : Append(backlog[l], c)[i] = backlog[l][i]
    BY <1>1, AppendProperties
  <2> QED BY <1>2, <2>1
<1>4. \A k \in Listeners : \A i \in DOMAIN backlog[k] :
          backlog[k][i] \in Conns /\ backlog[k][i] # c
  BY <1>2 DEF QueueInv, TypeOK
<1> HIDE DEF n
<1>5. \A k \in Listeners : \A i \in DOMAIN backlog'[k] :
          \/ i \in DOMAIN backlog[k] /\ backlog'[k][i] = backlog[k][i]
          \/ k = l /\ i = n /\ backlog'[k][i] = c
  BY <1>2, <1>3
<1>6. ASSUME NEW k \in Listeners, NEW i \in DOMAIN backlog'[k]
      PROVE  status'[backlog'[k][i]] = "queued"
  BY <1>2, <1>4, <1>5 DEF QueueInv
<1>7. ASSUME NEW k \in Listeners, NEW m \in Listeners, NEW i \in DOMAIN backlog'[k],
             NEW j \in DOMAIN backlog'[m], backlog'[k][i] = backlog'[m][j]
      PROVE  k = m /\ i = j
  <2>1. CASE backlog'[k][i] = c
    <3>1. k = l /\ i = n
      BY <1>4, <1>5, <2>1
    <3>2. m = l /\ j = n
      BY <1>4, <1>5, <1>7, <2>1
    <3> QED BY <3>1, <3>2
  <2>2. CASE backlog'[k][i] # c
    BY <1>5, <1>7, <2>2 DEF QueueInv
  <2> QED BY <2>1, <2>2
<1> QED BY <1>6, <1>7 DEF QueueInv

LEMMA QueueStep ==
    ASSUME TypeOK, SafetyInv, QueueInv, [Next]_vars
    PROVE  QueueInv'
<1>1. ASSUME NEW l \in Listeners, Accept(l) PROVE QueueInv'
  BY <1>1, QueueAccept
<1>2. CASE HandlerCrash \/ Finish
  <2>1. status[client_fd] = "open"
    BY <1>2 DEF SafetyInv, ConnectionOwned, Holding, HandlerCrash, Finish
  <2>2. /\ backlog' = backlog
        /\ \A d \in Conns : status[d] = "queued" => status'[d] = "queued"
    BY <1>2, <2>1 DEF HandlerCrash, Finish, TypeOK
  <2> QED BY <2>2, QueueKept
<1>3. CASE \/ Start \/ Peek \/ HandshakeOk \/ HandshakeError \/ PollReady
           \/ PollGivesWay \/ PollTimeout \/ Read \/ RedirectHttps
           \/ SendHeaders \/ SendBody \/ AcceptError \/ UNCHANGED vars
           \/ \E outcome \in Outcomes \ {"crash"}, asks \in BOOLEAN :
                  Serve(outcome, asks)
  <2>1. backlog' = backlog /\ status' = status
    BY <1>3 DEF Start, Peek, HandshakeOk, HandshakeError, PollReady,
       PollGivesWay, PollTimeout, Read, RedirectHttps, SendHeaders, SendBody,
       AcceptError, Serve, vars, peer_vars
  <2> QED BY <2>1, QueueKept
<1>4. ASSUME NEW c \in Conns, Client(c) PROVE QueueInv'
  <2>1. CASE \E l \in Listeners : Connect(c, l)
    BY <2>1, QueueConnect
  <2>2. CASE \/ ClientHello(c) \/ ClientSend(c) \/ ClientClose(c)
             \/ ClientStall(c) \/ ClientResume(c)
    <3>1. backlog' = backlog /\ status' = status
      BY <2>2 DEF ClientHello, ClientSend, ClientClose, ClientStall, ClientResume
    <3> QED BY <3>1, QueueKept
  <2> QED BY <1>4, <2>1, <2>2 DEF Client
<1> QED BY <1>1, <1>2, <1>3, <1>4 DEF Next, Worker

-------------------------------------------------------------------------------
(* What a step does to the replies and to the buffers.                     *)

\* The worker's steps that send nothing and write no response.
Moves ==
    \/ Start \/ AcceptError \/ Peek \/ HandshakeOk \/ HandshakeError \/ PollReady
    \/ PollGivesWay \/ PollTimeout \/ Read \/ HandlerCrash \/ Finish
    \/ \E l \in Listeners : Accept(l)

\* Writing a response.
Writes ==
    RedirectHttps \/ \E outcome \in Outcomes \ {"crash"}, asks \in BOOLEAN :
                         Serve(outcome, asks)

\* Every step is of one of these kinds.
LEMMA Kinds ==
    ASSUME [Next]_vars
    PROVE  \/ Moves \/ Writes \/ SendHeaders \/ SendBody
           \/ (\E c \in Conns : Client(c)) \/ UNCHANGED vars
BY DEF Next, Worker, Moves, Writes

LEMMA MovesKeep ==
    ASSUME Moves
    PROVE  /\ replies' = replies
           /\ net_headers_buffer' = net_headers_buffer
           /\ net_buffer' = net_buffer
           /\ pc \notin {"send_headers", "send_body"}
           /\ pc' \notin {"send_headers", "send_body"}
BY DEF Moves, Start, AcceptError, Peek, HandshakeOk, HandshakeError, PollReady,
   PollGivesWay, PollTimeout, Read, AfterRead, HandlerCrash, Finish, Accept,
   AfterAccept, peer_vars

\* A client's steps do not touch the worker, nor the replies of the
\* connection it holds: only a new connection starts with none.
LEMMA ClientKeeps ==
    ASSUME TypeOK, ClientSet, SafetyInv, NEW c \in Conns, Client(c)
    PROVE  /\ UNCHANGED worker_vars
           /\ \A d \in Conns :
                 \/ replies'[d] = <<>>
                 \/ /\ replies'[d] = replies[d]
                    /\ status'[d] = "queued" => status[d] = "queued"
           /\ Holding => /\ replies'[client_fd] = replies[client_fd]
                         /\ gone[client_fd] => gone'[client_fd]
<1>1. UNCHANGED worker_vars
  BY DEF Client, Connect, ClientHello, ClientSend, ClientClose, ClientStall,
     ClientResume
<1>2. \A d \in Conns :
         \/ replies'[d] = <<>> /\ status[d] = "away"
         \/ /\ replies'[d] = replies[d] /\ status'[d] = status[d]
            /\ gone[d] => gone'[d]
  BY DEF Client, Connect, ClientHello, ClientSend, ClientClose, ClientStall,
     ClientResume, TypeOK
<1>3. Holding => client_fd \in Conns /\ status[client_fd] = "open"
  BY DEF SafetyInv, ConnectionOwned
<1>4. Holding => /\ replies'[client_fd] = replies[client_fd]
                 /\ gone[client_fd] => gone'[client_fd]
  BY <1>2, <1>3
<1> QED BY <1>1, <1>2, <1>4

\* A send appends one message to what the client received, if it is there
\* and there is something to send.
LEMMA DeliverEffect ==
    ASSUME TypeOK, NEW text \in Seq(Line), client_fd \in Conns, Deliver(text)
    PROVE  /\ text = <<>> \/ gone[client_fd] => replies' = replies
           /\ text # <<>> /\ ~gone[client_fd] =>
                 /\ \E m \in Message : /\ m.text = text
                                       /\ replies'[client_fd] = Append(replies[client_fd], m)
                 /\ \A d \in Conns : d # client_fd => replies'[d] = replies[d]
<1> DEFINE m == [tls |-> tls_ssl # NoConn, text |-> text]
<1>1. m \in Message /\ m.text = text
  BY DEF Message
<1>2. text = <<>> \/ gone[client_fd] => replies' = replies
  BY DEF Deliver
<1>3. ASSUME text # <<>>, ~gone[client_fd]
      PROVE  /\ replies'[client_fd] = Append(replies[client_fd], m)
             /\ \A d \in Conns : d # client_fd => replies'[d] = replies[d]
  BY <1>3 DEF Deliver, TypeOK
<1> QED BY <1>1, <1>2, <1>3

-------------------------------------------------------------------------------
(* Framing.                                                                *)

\* A sequence of messages is heads, each followed by at most its own body.
Framed(messages) ==
    \A i \in DOMAIN messages :
        LET text == messages[i].text
        IN /\ \A j \in DOMAIN text : text[j].of = text[1].of
           /\ \/ Names(text) \in HeadNames
              \/ /\ Names(text) \in BodyNames
                 /\ i > 1 /\ IsHead(messages[i - 1])
                 /\ text[1].of = messages[i - 1].text[1].of

\* What the buffers hold at each location: nothing but the response being
\* sent, and while its body waits its head was the last thing received.
FrameInv ==
    /\ pc # "send_headers" => net_headers_buffer = <<>>
    /\ pc \notin {"send_headers", "send_body"} => net_buffer = <<>>
    /\ pc = "send_headers" =>
          \E names \in HeadNames : net_headers_buffer = Lines(names, request)
    /\ net_buffer # <<>> =>
          \E names \in BodyNames : net_buffer = Lines(names, request)
    /\ pc = "send_body" /\ ~gone[client_fd] =>
          LET sent == replies[client_fd]
          IN /\ sent # <<>> /\ IsHead(sent[Len(sent)])
             /\ sent[Len(sent)].text[1].of = request
    /\ WellFramed

LEMMA FrameInit == Init => FrameInv
BY DEF Init, FrameInv, WellFramed

LEMMA FramedByClient ==
    WellFramed <=> \A c \in Conns : Framed(replies[c])
BY DEF WellFramed, Framed

\* A head may follow anything; a body follows its own head.
LEMMA FramedAppend ==
    ASSUME NEW messages \in Seq(Message), Framed(messages), NEW m \in Message,
           \A j \in DOMAIN m.text : m.text[j].of = m.text[1].of,
           \/ Names(m.text) \in HeadNames
           \/ /\ Names(m.text) \in BodyNames
              /\ messages # <<>> /\ IsHead(messages[Len(messages)])
              /\ m.text[1].of = messages[Len(messages)].text[1].of
    PROVE  Framed(Append(messages, m))
<1> DEFINE longer == Append(messages, m)
<1>1. /\ Len(messages) \in Nat /\ DOMAIN messages = 1..Len(messages)
      /\ DOMAIN longer = 1..(Len(messages) + 1)
      /\ \A i \in 1..Len(messages) : longer[i] = messages[i]
      /\ longer[Len(messages) + 1] = m
  BY AppendProperties
<1> HIDE DEF longer
<1> SUFFICES ASSUME NEW i \in DOMAIN longer
             PROVE  LET text == longer[i].text
                    IN /\ \A j \in DOMAIN text : text[j].of = text[1].of
                       /\ \/ Names(text) \in HeadNames
                          \/ /\ Names(text) \in BodyNames
                             /\ i > 1 /\ IsHead(longer[i - 1])
                             /\ text[1].of = longer[i - 1].text[1].of
  BY DEF Framed, longer
<1>2. CASE i \in 1..Len(messages)
  <2>1. longer[i] = messages[i] /\ (i > 1 => longer[i - 1] = messages[i - 1])
    BY <1>1, <1>2
  <2>2. i \in DOMAIN messages
    BY <1>1, <1>2
  <2> QED BY <2>1, <2>2 DEF Framed
<1>3. CASE i = Len(messages) + 1
  <2>1. longer[i] = m
    BY <1>1, <1>3
  <2>2. messages # <<>> => i > 1 /\ longer[i - 1] = messages[Len(messages)]
    <3>1. messages # <<>> => Len(messages) \in 1..Len(messages)
      BY <1>1, EmptySeq
    <3>2. i - 1 = Len(messages)
      BY <1>1, <1>3
    <3> QED BY <1>1, <1>3, <3>1, <3>2
  <2> QED BY <2>1, <2>2
<1> QED BY <1>1, <1>2, <1>3

-------------------------------------------------------------------------------
(* What a response written into empty buffers is.                          *)

\* A status line before the two other lines of a head.
LEMMA OneThenTwo ==
    ASSUME NEW S, NEW a \in S, NEW b \in S, NEW c \in S
    PROVE  <<a>> \o <<b, c>> = <<a, b, c>>
<1> DEFINE three == <<a>> \o <<b, c>>
<1>1. <<a>> \in Seq(S) /\ <<b, c>> \in Seq(S)
  OBVIOUS
<1>2. three \in Seq(S) /\ Len(three) = 3
  BY <1>1, ConcatProperties
<1>3. three[1] = a /\ three[2] = b /\ three[3] = c
  OBVIOUS
<1> HIDE DEF three
<1>4. three = <<a, b, c>>
  BY <1>2, <1>3
<1> QED BY <1>4 DEF three

\* A response written into empty buffers is one head and at most one body, of
\* the request just parsed; its head says what the worker decided.
LEMMA WriteEffect ==
    ASSUME TypeOK, ClientSet, Writes,
           net_headers_buffer = <<>>, net_buffer = <<>>
    PROVE  /\ request' \in Request
           /\ \E names \in HeadNames :
                 /\ net_headers_buffer' = Lines(names, request')
                 /\ names[Len(names) - 1] = IF keep_alive' THEN "keep-alive" ELSE "close"
                 /\ pc = "redirect" => names[1] = "301"
           /\ net_buffer' # <<>> =>
                 \E names \in BodyNames : net_buffer' = Lines(names, request')
<1>1. request' \in Request
  <2>1. TypeOK'
    BY TypeWorker DEF Writes, Worker
  <2> QED BY <2>1 DEF TypeOK
<1>2. ASSUME NEW names \in HeadNames \cup BodyNames
      PROVE  <<>> \o Lines(names, request') = Lines(names, request')
  <2>1. Lines(names, request') \in Seq(Line)
    BY <1>1, HeadText, BodyText
  <2> QED BY <2>1, ConcatEmptySeq
<1>3. CASE RedirectHttps
  <2> DEFINE names == <<"301", "location", "close", "length">>
             body == <<"redirecting">>
  <2>1. names \in HeadNames /\ body \in BodyNames
    BY DEF HeadNames, BodyNames
  <2>2. names[Len(names) - 1] = "close" /\ names[1] = "301"
    OBVIOUS
  <2>3. /\ keep_alive' = FALSE
        /\ net_headers_buffer' = <<>> \o Lines(names, request')
        /\ net_buffer' = <<>> \o Lines(body, request')
    BY <1>3 DEF RedirectHttps
  <2> HIDE DEF names, body
  <2>4. /\ net_headers_buffer' = Lines(names, request')
        /\ net_buffer' = Lines(body, request')
    BY <1>2, <2>1, <2>3
  <2> QED BY <1>1, <2>1, <2>2, <2>3, <2>4
<1>4. ASSUME NEW outcome \in Outcomes \ {"crash"}, NEW asks \in BOOLEAN,
             Serve(outcome, asks)
      PROVE  /\ \E names \in HeadNames :
                   /\ net_headers_buffer' = Lines(names, request')
                   /\ names[Len(names) - 1] =
                          IF keep_alive' THEN "keep-alive" ELSE "close"
                   /\ pc = "redirect" => names[1] = "301"
             /\ net_buffer' # <<>> =>
                   \E names \in BodyNames : net_buffer' = Lines(names, request')
  <2> DEFINE connection == IF keep_alive' THEN "keep-alive" ELSE "close"
             names == HandlerHead(outcome) \o <<connection, "length">>
             body == HandlerBody(outcome)
  <2>1. /\ net_headers_buffer' = <<>> \o Lines(names, request')
        /\ net_buffer' = <<>> \o Lines(body, request')
        /\ pc # "redirect"
    BY <1>4 DEF Serve
  <2>2. names \in HeadNames /\ names[Len(names) - 1] = connection
    <3>1. connection \in {"keep-alive", "close"}
      OBVIOUS
    <3> HIDE DEF connection
    <3>2. CASE outcome = "reply"
      <4>1. names = <<"200">> \o <<connection, "length">>
        BY <3>2 DEF HandlerHead
      <4>2. "200" \in LineNames /\ connection \in LineNames /\ "length" \in LineNames
        BY <3>1 DEF LineNames
      <4>3. names = <<"200", connection, "length">>
        BY <4>1, <4>2, OneThenTwo
      <4> QED BY <3>1, <4>3 DEF HeadNames
    <3>3. CASE outcome # "reply"
      <4>1. names = <<connection, "length">>
        BY <3>3 DEF HandlerHead
      <4> QED BY <3>1, <4>1 DEF HeadNames
    <3> QED BY <3>2, <3>3
  <2>3. CASE outcome = "reply"
    <3>1. body \in BodyNames
      BY <2>3 DEF HandlerBody, BodyNames
    <3> HIDE DEF body, names, connection
    <3>2. net_buffer' = Lines(body, request')
      BY <1>2, <2>1, <3>1
    <3>3. net_headers_buffer' = Lines(names, request')
      BY <1>2, <2>1, <2>2
    <3> QED BY <2>1, <2>2, <3>1, <3>2, <3>3 DEF connection
  <2>4. CASE outcome # "reply"
    <3>1. Lines(body, request') = <<>>
      BY <2>4 DEF HandlerBody, Lines
    <3> HIDE DEF body, names, connection
    <3>2. net_buffer' = <<>>
      BY <2>1, <3>1
    <3>3. net_headers_buffer' = Lines(names, request')
      BY <1>2, <2>1, <2>2
    <3> QED BY <2>1, <2>2, <3>2, <3>3 DEF connection
  <2> QED BY <2>3, <2>4
<1> QED BY <1>1, <1>3, <1>4 DEF Writes

LEMMA WritesKeep ==
    ASSUME Writes
    PROVE  /\ UNCHANGED <<client_fd, replies, gone, status, backlog, proto, asked,
                          tls_ssl>>
           /\ pc \in {"serve", "redirect"} /\ pc' = "send_headers"
BY DEF Writes, Serve, RedirectHttps, peer_vars

-------------------------------------------------------------------------------
(* Framing is kept by every step.                                          *)

LEMMA FrameWrites ==
    ASSUME TypeOK, ClientSet, FrameInv, Writes
    PROVE  FrameInv'
<1>1. net_headers_buffer = <<>> /\ net_buffer = <<>>
  BY WritesKeep DEF FrameInv
<1>2. WellFramed'
  BY WritesKeep DEF FrameInv, WellFramed, IsHead
<1> QED BY <1>1, <1>2, WriteEffect, WritesKeep DEF FrameInv

LEMMA FrameSendHeaders ==
    ASSUME TypeOK, ClientSet, SafetyInv, FrameInv, SendHeaders
    PROVE  FrameInv'
<1> DEFINE text == net_headers_buffer
<1>1. /\ client_fd \in Conns /\ client_fd' = client_fd /\ request' = request
      /\ gone' = gone /\ net_buffer' = net_buffer /\ net_headers_buffer' = <<>>
      /\ pc = "send_headers" /\ pc' = "send_body" /\ Deliver(text)
  BY DEF SendHeaders, AfterSend, Survives, SafetyInv, SessionPath, ClientSet, Holding
<1>2. PICK names \in HeadNames : text = Lines(names, request)
  BY <1>1 DEF FrameInv
<1>3. request \in Request
  BY DEF TypeOK
<1>4. /\ text \in Seq(Line) /\ text # <<>> /\ Names(text) \in HeadNames
      /\ text[Len(text)].name = "length"
      /\ \A j \in DOMAIN text : text[j].of = request
      /\ 1 \in DOMAIN text
  BY <1>2, <1>3, HeadText
<1> HIDE DEF text
<1>5. \A c \in Conns : Framed(replies[c]) /\ replies[c] \in Seq(Message)
  BY FramedByClient DEF FrameInv, TypeOK
<1>6. CASE gone[client_fd]
  <2>1. replies' = replies
    BY <1>1, <1>4, <1>6, DeliverEffect
  <2>2. WellFramed'
    BY <2>1 DEF FrameInv, WellFramed, IsHead
  <2> QED BY <1>1, <1>6, <2>2 DEF FrameInv
<1>7. CASE ~gone[client_fd]
  <2>1. PICK m \in Message : m.text = text /\ replies'[client_fd] = Append(replies[client_fd], m)
    BY <1>1, <1>4, <1>7, DeliverEffect
  <2>2. \A d \in Conns : d # client_fd => replies'[d] = replies[d]
    BY <1>1, <1>4, <1>7, DeliverEffect
  <2>3. IsHead(m) /\ m.text[1].of = request
    BY <1>4, <2>1 DEF IsHead
  <2>4. \A j \in DOMAIN m.text : m.text[j].of = m.text[1].of
    BY <1>4, <2>1
  <2>5. Framed(Append(replies[client_fd], m))
    BY <1>1, <1>4, <1>5, <2>1, <2>4, FramedAppend
  <2>6. \A d \in Conns : Framed(replies'[d])
    BY <1>1, <1>5, <2>1, <2>2, <2>5
  <2>7. WellFramed'
    BY <2>6 DEF WellFramed, Framed, IsHead
  <2>8. LET sent == replies'[client_fd]
        IN sent # <<>> /\ sent[Len(sent)] = m
    BY <1>1, <1>5, <2>1, AppendProperties
  <2>9. LET sent == replies'[client_fd]
        IN /\ sent # <<>> /\ IsHead(sent[Len(sent)])
           /\ sent[Len(sent)].text[1].of = request
    BY <2>3, <2>8
  <2> QED BY <1>1, <2>7, <2>9 DEF FrameInv, IsHead
<1> QED BY <1>6, <1>7

LEMMA FrameSendBody ==
    ASSUME TypeOK, ClientSet, SafetyInv, FrameInv, SendBody
    PROVE  FrameInv'
<1> DEFINE text == net_buffer
<1>1. /\ client_fd \in Conns /\ net_headers_buffer = <<>>
      /\ net_buffer' = <<>> /\ net_headers_buffer' = net_headers_buffer
      /\ pc = "send_body" /\ pc' \in {"poll", "finish"} /\ Deliver(text)
      /\ text \in Seq(Line)
  BY DEF SendBody, AfterSend, Survives, SafetyInv, SessionPath, ClientSet, Holding,
     FrameInv, TypeOK
<1>2. \A c \in Conns : Framed(replies[c]) /\ replies[c] \in Seq(Message)
  BY FramedByClient DEF FrameInv, TypeOK
<1>3. CASE text = <<>> \/ gone[client_fd]
  <2>1. replies' = replies
    BY <1>1, <1>3, DeliverEffect
  <2>2. WellFramed'
    BY <2>1 DEF FrameInv, WellFramed, IsHead
  <2> QED BY <1>1, <2>2 DEF FrameInv
<1>4. CASE text # <<>> /\ ~gone[client_fd]
  <2>1. PICK names \in BodyNames : text = Lines(names, request)
    BY <1>4 DEF FrameInv
  <2>2. /\ Names(text) \in BodyNames
        /\ \A j \in DOMAIN text : text[j].of = request
        /\ text[1].of = request
    <3>1. request \in Request
      BY DEF TypeOK
    <3> QED BY <2>1, <3>1, BodyText
  <2>3. LET sent == replies[client_fd]
        IN /\ sent # <<>> /\ IsHead(sent[Len(sent)])
           /\ sent[Len(sent)].text[1].of = request
    BY <1>1, <1>4 DEF FrameInv
  <2> HIDE DEF text
  <2>4. PICK m \in Message : m.text = text /\ replies'[client_fd] = Append(replies[client_fd], m)
    BY <1>1, <1>4, DeliverEffect
  <2>5. \A d \in Conns : d # client_fd => replies'[d] = replies[d]
    BY <1>1, <1>4, DeliverEffect
  <2>6. Framed(Append(replies[client_fd], m))
    <3>1. \A j \in DOMAIN m.text : m.text[j].of = m.text[1].of
      BY <2>2, <2>4
    <3>2. /\ Names(m.text) \in BodyNames
          /\ replies[client_fd] # <<>>
          /\ IsHead(replies[client_fd][Len(replies[client_fd])])
          /\ m.text[1].of = replies[client_fd][Len(replies[client_fd])].text[1].of
      BY <2>2, <2>3, <2>4
    <3> QED BY <1>1, <1>2, <3>1, <3>2, FramedAppend
  <2>7. \A d \in Conns : Framed(replies'[d])
    BY <1>1, <1>2, <2>4, <2>5, <2>6
  <2>8. WellFramed'
    BY <2>7 DEF WellFramed, Framed, IsHead
  <2> QED BY <1>1, <2>8 DEF FrameInv
<1> QED BY <1>3, <1>4

LEMMA FrameStep ==
    ASSUME TypeOK, ClientSet, SafetyInv, FrameInv, [Next]_vars
    PROVE  FrameInv'
<1>1. CASE Moves
  <2>1. replies' = replies
    BY <1>1, MovesKeep
  <2>2. WellFramed'
    BY <2>1 DEF FrameInv, WellFramed, IsHead
  <2> QED BY <1>1, <2>2, MovesKeep DEF FrameInv
<1>2. CASE Writes
  BY <1>2, FrameWrites
<1>3. CASE SendHeaders
  BY <1>3, FrameSendHeaders
<1>4. CASE SendBody
  BY <1>4, FrameSendBody
<1>5. ASSUME NEW c \in Conns, Client(c) PROVE FrameInv'
  <2>1. \A d \in Conns : Framed(replies[d])
    BY FramedByClient DEF FrameInv
  <2>2. \A d \in Conns : Framed(replies'[d])
    <3>1. Framed(<<>>)
      BY DEF Framed
    <3> QED BY <1>5, <2>1, <3>1, ClientKeeps
  <2>3. WellFramed'
    BY <2>2 DEF WellFramed, Framed, IsHead
  <2>4. /\ UNCHANGED worker_vars
        /\ pc = "send_body" => /\ replies'[client_fd] = replies[client_fd]
                               /\ gone[client_fd] => gone'[client_fd]
    BY <1>5, ClientKeeps DEF Holding
  <2> QED BY <2>3, <2>4 DEF FrameInv, IsHead, worker_vars
<1>6. CASE UNCHANGED vars
  BY <1>6 DEF vars, FrameInv, WellFramed, IsHead
<1> QED BY <1>1, <1>2, <1>3, <1>4, <1>5, <1>6, Kinds

\* What a client receives is a sequence of heads, each followed by at most its
\* own body, for any clients, any configuration and any bounds: a failed send
\* leaves nothing behind in the buffers.
THEOREM FramingCorrect == Spec => []WellFramed
<1>1. Init => TypeOK /\ ClientSet /\ SafetyInv /\ FrameInv
  BY TypeInit, SafetyInit, FrameInit
<1>2. TypeOK /\ ClientSet /\ SafetyInv /\ FrameInv /\ [Next]_vars =>
          (TypeOK /\ ClientSet /\ SafetyInv /\ FrameInv)'
  BY TypeStep, SafetyStep, FrameStep
<1>3. FrameInv => WellFramed
  BY DEF FrameInv
<1> QED BY <1>1, <1>2, <1>3, PTL DEF Spec

-------------------------------------------------------------------------------
(* The Connection headers.                                                 *)

\* Nothing was sent yet on a connection that waits or was just accepted.
Fresh == {"peek", "handshake", "redirect"}

\* Another request of the connection may be served, or is being served.
GoesOn == pc \in {"poll", "read", "serve"} \/ (pc = "send_body" /\ keep_alive)

\* What the heads of one client say is true.
Truthful(c) ==
    \A i \in HeadsAt(c) :
        IF Says(replies[c][i].text) = "keep-alive" THEN Which(c, i) < KeepAliveMax
        ELSE \A j \in HeadsAt(c) : j <= i

\* As long as the connection goes on all its heads said so, and it has no more
\* of them than requests were counted.
Promise(c) ==
    /\ status[c] = "queued" => replies[c] = <<>>
    /\ c = client_fd /\ pc \in Fresh => replies[c] = <<>>
    /\ c = client_fd /\ (GoesOn \/ pc = "send_headers") =>
          \A i \in HeadsAt(c) : Says(replies[c][i].text) = "keep-alive"
    /\ c = client_fd /\ GoesOn => Answers(c) <= request_count
    /\ c = client_fd /\ pc = "send_headers" /\ keep_alive => Answers(c) < request_count
    /\ Truthful(c)

\* The head that is written says what the loop will do.
Decision ==
    pc = "send_headers" =>
        /\ Says(net_headers_buffer) = IF keep_alive THEN "keep-alive" ELSE "close"
        /\ keep_alive => request_count < KeepAliveMax

PromiseInv == Decision /\ \A c \in Conns : Promise(c)

LEMMA TruthfulHolds == (\A c \in Conns : Truthful(c)) <=> KeepAlivePromises
BY DEF Truthful, KeepAlivePromises

LEMMA PromiseInit == Init => PromiseInv
<1>1. Init => Decision
  BY DEF Init, Decision
<1>2. ASSUME Init, NEW c \in Conns PROVE Promise(c)
  <2>1. replies[c] = <<>> /\ pc = "start"
    BY <1>2 DEF Init
  <2>2. HeadsAt(c) = {}
    BY <2>1, NoHeads
  <2> QED BY <2>1, <2>2 DEF Promise, Truthful, Fresh, GoesOn
<1> QED BY <1>1, <1>2 DEF PromiseInv

\* What is true of a client stays true while nothing is sent to it, and is
\* true of one that received nothing.
LEMMA TruthKept ==
    ASSUME NEW c \in Conns, Truthful(c),
           replies'[c] = replies[c] \/ replies'[c] = <<>>
    PROVE  Truthful(c)'
<1>1. CASE replies'[c] = replies[c]
  <2>1. HeadsAt(c)' = HeadsAt(c) /\ \A i : Which(c, i)' = Which(c, i)
    BY <1>1, HeadsKept
  <2> QED BY <1>1, <2>1 DEF Truthful, Says
<1>2. CASE replies'[c] = <<>>
  <2>1. HeadsAt(c)' = {}
    BY <1>2 DEF HeadsAt
  <2> QED BY <2>1 DEF Truthful
<1> QED BY <1>1, <1>2

LEMMA PromiseMoves ==
    ASSUME TypeOK, QueueInv, PromiseInv, Moves, NEW c \in Conns
    PROVE  Promise(c)'
<1>1. replies' = replies /\ Promise(c)
  BY MovesKeep DEF PromiseInv
<1>2. /\ HeadsAt(c)' = HeadsAt(c) /\ Answers(c)' = Answers(c)
      /\ Truthful(c)'
  BY <1>1, HeadsKept, TruthKept DEF Promise
<1>3. \A i : Says(replies[c][i].text)' = Says(replies[c][i].text)
  BY <1>1 DEF Says
<1>4. replies[c] = <<>> => HeadsAt(c) = {} /\ Answers(c) = 0
  BY NoHeads
<1>5. request_count \in Nat
  BY DEF TypeOK
<1>6. ASSUME NEW l \in Listeners, Accept(l) PROVE Promise(c)'
  <2>1. /\ status[client_fd'] = "queued"
        /\ client_fd' \in Conns
    BY <1>6, QueueAccept
  <2>2. /\ request_count' = 0 /\ pc' \in {"peek", "redirect", "poll"}
        /\ status'[c] = "queued" => status[c] = "queued"
    BY <1>6 DEF Accept, AfterAccept, TypeOK
  <2>3. c = client_fd' => replies[c] = <<>>
    BY <1>1, <2>1 DEF Promise
  <2> QED BY <1>1, <1>2, <1>3, <1>4, <2>2, <2>3 DEF Promise, Fresh, GoesOn
<1>7. CASE HandshakeOk
  <2>1. /\ client_fd' = client_fd /\ status' = status
        /\ pc = "handshake" /\ pc' = "poll" /\ request_count' = request_count
    BY <1>7 DEF HandshakeOk
  <2> QED BY <1>1, <1>2, <1>3, <1>4, <1>5, <2>1 DEF Promise, Fresh, GoesOn
<1>8. CASE HandlerCrash \/ Finish \/ AcceptError \/ Start
  <2>1. /\ status'[c] = "queued" => status[c] = "queued"
        /\ pc' \in {"accept", "exited"}
    BY <1>8 DEF HandlerCrash, Finish, AcceptError, Start, TypeOK, peer_vars
  <2> QED BY <1>1, <1>2, <2>1 DEF Promise, Fresh, GoesOn
<1>9. CASE Peek \/ HandshakeError \/ PollReady \/ PollGivesWay \/ PollTimeout \/ Read
  <2>1. /\ client_fd' = client_fd /\ status' = status
        /\ request_count' = request_count
        /\ pc' \in Fresh => pc \in Fresh
        /\ GoesOn' => GoesOn
        /\ pc' # "send_headers"
    BY <1>9 DEF Peek, HandshakeError, PollReady, PollGivesWay, PollTimeout, Read,
       AfterRead, Fresh, GoesOn, peer_vars
  <2> QED BY <1>1, <1>2, <1>3, <2>1 DEF Promise
<1> QED BY <1>6, <1>7, <1>8, <1>9 DEF Moves

LEMMA PromiseWrites ==
    ASSUME TypeOK, ClientSet, FrameInv, PromiseInv, Writes
    PROVE  PromiseInv'
<1>1. net_headers_buffer = <<>> /\ net_buffer = <<>>
  BY WritesKeep DEF FrameInv
<1>2. PICK names \in HeadNames :
          /\ net_headers_buffer' = Lines(names, request')
          /\ names[Len(names) - 1] = IF keep_alive' THEN "keep-alive" ELSE "close"
  BY <1>1, WriteEffect
<1>3. request' \in Request
  BY <1>1, WriteEffect
<1>4. Says(net_headers_buffer') = IF keep_alive' THEN "keep-alive" ELSE "close"
  BY <1>2, <1>3, HeadText
<1>5. keep_alive' => /\ pc = "serve" /\ request_count' = request_count + 1
                     /\ request_count' < KeepAliveMax
  BY DEF Writes, RedirectHttps, Serve, KeepsAlive
<1>6. Decision'
  BY <1>4, <1>5 DEF Decision, Says
<1>7. ASSUME NEW c \in Conns PROVE Promise(c)'
  <2>1. /\ client_fd' = client_fd /\ status' = status /\ replies' = replies
        /\ pc \in {"serve", "redirect"} /\ pc' = "send_headers"
    BY WritesKeep
  <2>2. Promise(c)
    BY DEF PromiseInv
  <2>3. /\ HeadsAt(c)' = HeadsAt(c) /\ Answers(c)' = Answers(c)
        /\ Truthful(c)'
        /\ \A i : Says(replies[c][i].text)' = Says(replies[c][i].text)
    BY <2>1, <2>2, HeadsKept, TruthKept DEF Promise, Says
  <2>4. replies[c] = <<>> => HeadsAt(c) = {}
    BY NoHeads
  <2>5. request_count \in Nat /\ Answers(c) \in Nat
    BY HeadsFinite DEF TypeOK
  <2>6. c = client_fd =>
            \A i \in HeadsAt(c) : Says(replies[c][i].text) = "keep-alive"
    BY <2>1, <2>2, <2>4 DEF Promise, Fresh, GoesOn
  <2>7. c = client_fd /\ keep_alive' => Answers(c) < request_count'
    BY <1>5, <2>2, <2>5 DEF Promise, GoesOn
  <2> QED BY <2>1, <2>2, <2>3, <2>6, <2>7 DEF Promise, Fresh, GoesOn
<1> QED BY <1>6, <1>7 DEF PromiseInv

\* A head that says keep-alive is within the limit and follows only such
\* heads; one that says close is the last.
LEMMA PromiseSendHeaders ==
    ASSUME TypeOK, ClientSet, SafetyInv, FrameInv, PromiseInv, SendHeaders
    PROVE  PromiseInv'
<1> DEFINE text == net_headers_buffer
<1>1. /\ client_fd \in Conns /\ client_fd' = client_fd
      /\ gone' = gone /\ status' = status /\ keep_alive' = keep_alive
      /\ request_count' = request_count
      /\ pc = "send_headers" /\ pc' = "send_body" /\ Deliver(text)
  BY DEF SendHeaders, Survives, SafetyInv, SessionPath, ClientSet, Holding
<1>2. Decision'
  BY <1>1 DEF Decision
<1>3. /\ Says(text) = IF keep_alive THEN "keep-alive" ELSE "close"
      /\ keep_alive => request_count < KeepAliveMax
      /\ request_count \in Nat
  BY <1>1 DEF PromiseInv, Decision, TypeOK
<1>4. /\ text \in Seq(Line) /\ text # <<>> /\ text[Len(text)].name = "length"
  <2>1. PICK names \in HeadNames : text = Lines(names, request)
    BY <1>1 DEF FrameInv
  <2>2. request \in Request
    BY DEF TypeOK
  <2> QED BY <2>1, <2>2, HeadText
<1> HIDE DEF text
<1>5. ASSUME NEW c \in Conns, replies'[c] = replies[c] PROVE Promise(c)'
  <2>1. Promise(c)
    BY DEF PromiseInv
  <2>2. /\ HeadsAt(c)' = HeadsAt(c) /\ Answers(c)' = Answers(c)
        /\ Truthful(c)'
        /\ \A i : Says(replies[c][i].text)' = Says(replies[c][i].text)
    BY <1>5, <2>1, HeadsKept, TruthKept DEF Promise, Says
  <2>3. Answers(c) \in Nat
    BY HeadsFinite
  <2> QED BY <1>1, <1>3, <1>5, <2>1, <2>2, <2>3 DEF Promise, Fresh, GoesOn
<1>6. CASE gone[client_fd]
  <2>1. replies' = replies
    BY <1>1, <1>4, <1>6, DeliverEffect
  <2> QED BY <1>2, <1>5, <2>1 DEF PromiseInv
<1>7. CASE ~gone[client_fd]
  <2>1. PICK m \in Message : m.text = text /\ replies'[client_fd] = Append(replies[client_fd], m)
    BY <1>1, <1>4, <1>7, DeliverEffect
  <2>2. \A d \in Conns : d # client_fd => replies'[d] = replies[d]
    BY <1>1, <1>4, <1>7, DeliverEffect
  <2>3. IsHead(m) /\ Says(m.text) = IF keep_alive THEN "keep-alive" ELSE "close"
    BY <1>3, <1>4, <2>1 DEF IsHead
  <2>4. ASSUME NEW c \in Conns, c = client_fd PROVE Promise(c)'
    <3>1. Promise(c) /\ \A i \in HeadsAt(c) : Says(replies[c][i].text) = "keep-alive"
      BY <1>1, <2>4 DEF PromiseInv, Promise
    <3>2. PICK n : n = Len(replies[c]) + 1
      OBVIOUS
    <3>3. /\ n \in Nat /\ n \notin HeadsAt(c)
          /\ HeadsAt(c)' = HeadsAt(c) \cup {n}
          /\ Answers(c)' = Answers(c) + 1
          /\ Which(c, n)' = Answers(c) + 1
          /\ \A i \in HeadsAt(c) :
                 /\ i < n /\ Which(c, i)' = Which(c, i)
                 /\ replies'[c][i] = replies[c][i]
          /\ replies'[c][n] = m
      BY <2>1, <2>3, <2>4, <3>2, HeadAppended
    <3>4. Answers(c) \in Nat /\ HeadsAt(c) \subseteq Nat
      BY HeadsFinite
    <3>5. /\ \A i \in HeadsAt(c) : Says(replies'[c][i].text) = "keep-alive"
          /\ Says(replies'[c][n].text) = IF keep_alive THEN "keep-alive" ELSE "close"
      BY <2>3, <3>1, <3>3
    <3>6. keep_alive => Answers(c) + 1 < KeepAliveMax /\ Answers(c) + 1 <= request_count
      BY <1>1, <1>3, <2>4, <3>1, <3>4, ConfigAssumption DEF Promise
    <3>7. \A i \in HeadsAt(c) : Which(c, i)' < KeepAliveMax
      BY <3>1, <3>3 DEF Promise, Truthful
    <3>8. \A j \in HeadsAt(c)' : j <= n
      BY <3>3, <3>4
    <3>9. ASSUME NEW i \in HeadsAt(c)'
          PROVE  IF Says(replies'[c][i].text) = "keep-alive" THEN Which(c, i)' < KeepAliveMax
                 ELSE \A j \in HeadsAt(c)' : j <= i
      <4>1. CASE i \in HeadsAt(c)
        BY <3>5, <3>7, <4>1
      <4>2. CASE i = n
        BY <3>3, <3>5, <3>6, <3>8, <4>2
      <4> QED BY <3>3, <3>9, <4>1, <4>2
    <3>10. Truthful(c)'
      BY <3>9 DEF Truthful, Says
    <3>11. status[c] = "open"
      BY <1>1, <2>4 DEF SafetyInv, ConnectionOwned, Holding
    <3>12. keep_alive => \A i \in HeadsAt(c)' : Says(replies'[c][i].text) = "keep-alive"
      BY <3>3, <3>5
    <3> QED BY <1>1, <3>3, <3>6, <3>10, <3>11, <3>12 DEF Promise, Fresh, GoesOn, Says
  <2>5. \A c \in Conns : Promise(c)'
    BY <1>5, <2>2, <2>4
  <2> QED BY <1>2, <2>5 DEF PromiseInv
<1> QED BY <1>6, <1>7

\* A body is no head.
LEMMA PromiseSendBody ==
    ASSUME TypeOK, ClientSet, SafetyInv, FrameInv, PromiseInv, SendBody
    PROVE  PromiseInv'
<1> DEFINE text == net_buffer
<1>1. /\ client_fd \in Conns /\ client_fd' = client_fd
      /\ status' = status /\ keep_alive' = keep_alive
      /\ request_count' = request_count
      /\ pc = "send_body" /\ pc' = (IF keep_alive THEN "poll" ELSE "finish")
      /\ Deliver(text) /\ text \in Seq(Line)
  BY DEF SendBody, Survives, SafetyInv, SessionPath, ClientSet, Holding, TypeOK
<1>2. Decision'
  BY <1>1 DEF Decision
<1>3. text # <<>> => text[Len(text)].name # "length"
  <2>1. request \in Request
    BY DEF TypeOK
  <2> QED BY <2>1, BodyText DEF FrameInv
<1> HIDE DEF text
<1>4. ASSUME NEW c \in Conns,
             HeadsAt(c)' = HeadsAt(c), Answers(c)' = Answers(c),
             \A i \in HeadsAt(c) : /\ Which(c, i)' = Which(c, i)
                                   /\ replies'[c][i] = replies[c][i],
             status[c] = "queued" => replies'[c] = replies[c]
      PROVE  Promise(c)'
  <2>1. Promise(c)
    BY DEF PromiseInv
  <2>2. \A i \in HeadsAt(c) : Says(replies'[c][i].text) = Says(replies[c][i].text)
    BY <1>4
  <2>3. Truthful(c)'
    BY <1>4, <2>1, <2>2 DEF Promise, Truthful, Says
  <2>4. GoesOn' => GoesOn
    BY <1>1 DEF GoesOn
  <2>5. pc' \notin Fresh /\ pc' # "send_headers"
    BY <1>1 DEF Fresh
  <2> QED BY <1>1, <1>4, <2>1, <2>2, <2>3, <2>4, <2>5 DEF Promise, Says
<1>5. ASSUME NEW c \in Conns, replies'[c] = replies[c] PROVE Promise(c)'
  BY <1>4, <1>5, HeadsKept
<1>6. CASE text = <<>> \/ gone[client_fd]
  <2>1. replies' = replies
    BY <1>1, <1>6, DeliverEffect
  <2> QED BY <1>2, <1>5, <2>1 DEF PromiseInv
<1>7. CASE text # <<>> /\ ~gone[client_fd]
  <2>1. PICK m \in Message : m.text = text /\ replies'[client_fd] = Append(replies[client_fd], m)
    BY <1>1, <1>7, DeliverEffect
  <2>2. \A d \in Conns : d # client_fd => replies'[d] = replies[d]
    BY <1>1, <1>7, DeliverEffect
  <2>3. ~IsHead(m)
    BY <1>3, <1>7, <2>1 DEF IsHead
  <2>4. ASSUME NEW c \in Conns, c = client_fd PROVE Promise(c)'
    <3>1. PICK n : n = Len(replies[c]) + 1
      OBVIOUS
    <3>2. /\ HeadsAt(c)' = HeadsAt(c) /\ Answers(c)' = Answers(c)
          /\ \A i \in HeadsAt(c) : /\ Which(c, i)' = Which(c, i)
                                    /\ replies'[c][i] = replies[c][i]
      BY <2>1, <2>3, <2>4, <3>1, HeadAppended
    <3>3. status[c] = "open"
      BY <1>1, <2>4 DEF SafetyInv, ConnectionOwned, Holding
    <3> QED BY <1>4, <3>2, <3>3
  <2>5. \A c \in Conns : Promise(c)'
    BY <1>5, <2>2, <2>4
  <2> QED BY <1>2, <2>5 DEF PromiseInv
<1> QED BY <1>6, <1>7

LEMMA PromiseClient ==
    ASSUME TypeOK, ClientSet, SafetyInv, PromiseInv, NEW d \in Conns, Client(d),
           NEW c \in Conns
    PROVE  Promise(c)'
<1>1. UNCHANGED worker_vars
  BY ClientKeeps
<1>2. Promise(c)
  BY DEF PromiseInv
<1>3. GoesOn' <=> GoesOn
  BY <1>1 DEF GoesOn, worker_vars
<1>4. CASE replies'[c] = <<>>
  <2>1. HeadsAt(c)' = {} /\ Truthful(c)'
    BY <1>2, <1>4, TruthKept DEF HeadsAt, Promise
  <2>2. Answers(c)' = 0
    BY <2>1, FS_EmptySet DEF Answers
  <2>3. c = client_fd /\ Holding => replies'[c] = replies[c]
    BY ClientKeeps
  <2>4. replies'[c] = replies[c] => Answers(c)' = Answers(c)
    BY HeadsKept
  <2>5. GoesOn \/ pc = "send_headers" => Holding
    BY DEF GoesOn, Holding
  <2> QED BY <1>1, <1>2, <1>3, <1>4, <2>1, <2>3, <2>4, <2>5 DEF Promise, worker_vars, Says
<1>5. CASE replies'[c] = replies[c] /\ (status'[c] = "queued" => status[c] = "queued")
  <2>1. /\ HeadsAt(c)' = HeadsAt(c) /\ Answers(c)' = Answers(c)
        /\ Truthful(c)'
        /\ \A i : Says(replies[c][i].text)' = Says(replies[c][i].text)
    BY <1>2, <1>5, HeadsKept, TruthKept DEF Promise, Says
  <2> QED BY <1>1, <1>2, <1>3, <1>5, <2>1 DEF Promise, worker_vars
<1> QED BY <1>4, <1>5, ClientKeeps

LEMMA PromiseStep ==
    ASSUME TypeOK, ClientSet, SafetyInv, QueueInv, FrameInv, PromiseInv, [Next]_vars
    PROVE  PromiseInv'
<1>1. CASE Moves
  <2>1. Decision'
    BY <1>1, MovesKeep DEF Decision
  <2> QED BY <1>1, <2>1, PromiseMoves DEF PromiseInv
<1>2. CASE Writes
  BY <1>2, PromiseWrites
<1>3. CASE SendHeaders
  BY <1>3, PromiseSendHeaders
<1>4. CASE SendBody
  BY <1>4, PromiseSendBody
<1>5. ASSUME NEW d \in Conns, Client(d) PROVE PromiseInv'
  <2>1. Decision'
    BY <1>5, ClientKeeps DEF PromiseInv, Decision, worker_vars, Says
  <2> QED BY <1>5, <2>1, PromiseClient DEF PromiseInv
<1>6. CASE UNCHANGED vars
  BY <1>6 DEF vars, PromiseInv, Decision, Promise, Truthful, GoesOn, HeadsAt,
     Answers, Which, Says, IsHead
<1> QED BY <1>1, <1>2, <1>3, <1>4, <1>5, <1>6, Kinds

\* What every step needs to know and keeps.
Base == TypeOK /\ ClientSet /\ SafetyInv /\ QueueInv /\ FrameInv /\ PromiseInv

LEMMA BaseAlways == Spec => []Base
<1>1. Init => Base
  BY TypeInit, SafetyInit, QueueInit, FrameInit, PromiseInit DEF Base
<1>2. Base /\ [Next]_vars => Base'
  BY TypeStep, SafetyStep, QueueStep, FrameStep, PromiseStep DEF Base
<1> QED BY <1>1, <1>2, PTL DEF Spec

\* The Connection headers tell the truth, for any clients, any limit and any
\* timeout: "keep-alive" is never said at the limit, and nothing is answered
\* on a connection after "close".
THEOREM PromisesCorrect == Spec => []KeepAlivePromises
<1>1. Base => KeepAlivePromises
  BY TruthfulHolds DEF Base, PromiseInv, Promise
<1> QED BY <1>1, BaseAlways, PTL

-------------------------------------------------------------------------------
(* The clients' streams, when every request arrives in one segment.        *)

Whole(segments) == \A i \in DOMAIN segments : segments[i].part = "whole"

\* The locations at which the worker reads, serves or answers requests.
HasData == {"redirect", "poll", "read", "serve", "send_headers", "send_body"}

\* What a client may have in flight: whole requests in the clear or in its own
\* session, and at most a hello before that; nothing once it is away.
Stream(c) ==
    /\ proto[c] = "http" => Whole(recv[c])
    /\ proto[c] = "tls" => recv[c] = <<>>
    /\ proto[c] = "session" /\ tls_ssl # c => recv[c] = <<>> \/ recv[c] = <<Hello>>
    /\ tls_ssl = c => proto[c] = "session" /\ Whole(recv[c])
    /\ status[c] = "away" => recv[c] = <<>> /\ ~gone[c]
    /\ c = client_fd /\ pc \in HasData /\ tls_ssl = NoConn => proto[c] = "http"
    /\ asked[c] % 2 = 0

\* Plain HTTP is all that comes through a socket without TLS.
PlainQueues ==
    \A l \in Listeners : \A i \in DOMAIN backlog[l] :
        SpeaksTls(l) \/ proto[backlog[l][i]] = "http"

WholeInput ==
    pc = "serve" => net_input_buffer # <<>> /\ net_input_buffer[1].part = "whole"

StreamInv == PlainQueues /\ WholeInput /\ \A c \in Conns : Stream(c)

LEMMA StreamInit == Init => StreamInv
<1> SUFFICES ASSUME Init PROVE StreamInv
  OBVIOUS
<1>1. PlainQueues /\ WholeInput
  BY DEF Init, PlainQueues, WholeInput
<1>2. ASSUME NEW c \in Conns PROVE Stream(c)
  <2>1. /\ proto[c] = "http" /\ recv[c] = <<>> /\ status[c] = "away" /\ gone[c] = FALSE
        /\ tls_ssl = NoConn /\ pc = "start" /\ asked[c] = 0
    BY <1>2 DEF Init
  <2> QED BY <2>1, NoConnAssumption DEF Stream, Whole, HasData
<1> QED BY <1>1, <1>2 DEF StreamInv

\* A hello is not a whole request.
LEMMA HelloNotWhole ==
    ASSUME NEW segments \in Seq(Segment), Whole(segments), segments # <<>>
    PROVE  Head(segments) # Hello /\ segments[1].part = "whole"
<1>1. 1 \in DOMAIN segments /\ Head(segments) = segments[1]
  OBVIOUS
<1>2. segments[1].part = "whole"
  BY <1>1 DEF Whole
<1>3. Hello.part = "hello"
  BY DEF Hello
<1> QED BY <1>1, <1>2, <1>3

\* The steps that leave the streams and the queues alone.
LEMMA StreamStill ==
    ASSUME StreamInv,
           UNCHANGED <<proto, recv, status, gone, asked, tls_ssl, backlog>>,
           pc' \in HasData => pc \in HasData /\ client_fd' = client_fd,
           WholeInput'
    PROVE  StreamInv'
<1>1. PlainQueues'
  BY DEF StreamInv, PlainQueues
<1>2. ASSUME NEW c \in Conns PROVE Stream(c)'
  <2>1. Stream(c)
    BY DEF StreamInv
  <2> QED BY <2>1 DEF Stream
<1> QED BY <1>1, <1>2 DEF StreamInv

LEMMA StreamAccept ==
    ASSUME TypeOK, ClientSet, SafetyInv, QueueInv, StreamInv,
           NEW l \in Listeners, Accept(l)
    PROVE  StreamInv'
<1>1. /\ UNCHANGED <<proto, recv, gone, asked, tls_ssl>>
      /\ pc = "accept" /\ pc' = AfterAccept(l)
      /\ client_fd' = Head(backlog[l]) /\ backlog[l] # <<>>
      /\ backlog' = [backlog EXCEPT ![l] = Tail(@)]
      /\ status' = [status EXCEPT ![client_fd'] = "open"]
  BY DEF Accept, ReadyListener
<1>2. backlog[l] \in Seq(Conns) /\ client_fd' \in Conns
  BY <1>1, HeadTailProperties DEF TypeOK
<1>3. /\ client_fd' = backlog[l][1] /\ 1 \in DOMAIN backlog[l]
      /\ \A i \in DOMAIN Tail(backlog[l]) : /\ i + 1 \in DOMAIN backlog[l]
                                            /\ Tail(backlog[l])[i] = backlog[l][i + 1]
  BY <1>1, <1>2, HeadTailProperties
<1>4. SpeaksTls(l) \/ proto[client_fd'] = "http"
  BY <1>3 DEF StreamInv, PlainQueues
<1>5. PlainQueues'
  <2> SUFFICES ASSUME NEW k \in Listeners, NEW i \in DOMAIN backlog'[k], ~SpeaksTls(k)
               PROVE  proto[backlog'[k][i]] = "http"
    BY <1>1 DEF PlainQueues, SpeaksTls
  <2>1. CASE k = l
    <3>1. backlog'[k] = Tail(backlog[l])
      BY <1>1, <2>1 DEF TypeOK
    <3> QED BY <1>3, <2>1, <3>1 DEF StreamInv, PlainQueues
  <2>2. CASE k # l
    <3>1. backlog'[k] = backlog[k]
      BY <1>1, <2>2 DEF TypeOK
    <3> QED BY <3>1 DEF StreamInv, PlainQueues
  <2> QED BY <2>1, <2>2
<1>6. pc' # "serve" /\ (pc' \in HasData => ~SpeaksTls(l))
  BY <1>1 DEF AfterAccept, HasData
<1>7. ASSUME NEW c \in Conns PROVE Stream(c)'
  <2>1. Stream(c)
    BY DEF StreamInv
  <2>2. status'[c] = "away" => status[c] = "away"
    BY <1>1 DEF TypeOK
  <2> QED BY <1>1, <1>4, <1>6, <2>1, <2>2 DEF Stream
<1> QED BY <1>5, <1>6, <1>7 DEF StreamInv, WholeInput

\* Only plain HTTP makes the first byte something else than a hello.
LEMMA StreamPeek ==
    ASSUME TypeOK, ClientSet, SafetyInv, StreamInv, Peek
    PROVE  StreamInv'
<1>1. /\ UNCHANGED <<proto, recv, status, gone, asked, tls_ssl, backlog, client_fd>>
      /\ pc = "peek" /\ tls_ssl = NoConn /\ client_fd \in Conns
      /\ pc' \in {"redirect", "handshake"}
      /\ pc' = "redirect" => recv[client_fd] # <<>> /\ Head(recv[client_fd]) # Hello
  BY DEF Peek, peer_vars, SafetyInv, SessionPath, ClientSet, Holding
<1>2. PlainQueues' /\ WholeInput'
  BY <1>1 DEF StreamInv, PlainQueues, WholeInput
<1>3. Head(<<Hello>>) = Hello
  OBVIOUS
<1>4. ASSUME NEW c \in Conns PROVE Stream(c)'
  <2>1. Stream(c)
    BY DEF StreamInv
  <2>2. c = client_fd /\ pc' = "redirect" => proto[c] = "http"
    <3>1. proto[c] \in {"http", "tls", "session"} /\ c # NoConn
      BY NoConnAssumption DEF TypeOK
    <3> QED BY <1>1, <1>3, <2>1, <3>1 DEF Stream
  <2> QED BY <1>1, <2>1, <2>2 DEF Stream, HasData
<1> QED BY <1>2, <1>4 DEF StreamInv

\* The hello is the one thing the handshake reads.
LEMMA StreamHandshake ==
    ASSUME TypeOK, ClientSet, SafetyInv, StreamInv, HandshakeOk
    PROVE  StreamInv'
<1>1. /\ UNCHANGED <<proto, status, gone, asked, backlog, client_fd>>
      /\ pc = "handshake" /\ pc' = "poll" /\ tls_ssl = NoConn /\ client_fd \in Conns
      /\ tls_ssl' = client_fd
      /\ recv[client_fd] # <<>> /\ Head(recv[client_fd]) = Hello
      /\ recv'[client_fd] = Tail(recv[client_fd])
      /\ \A d \in Conns : d # client_fd => recv'[d] = recv[d]
  BY DEF HandshakeOk, SafetyInv, SessionPath, ClientSet, Holding, TypeOK
<1>2. PlainQueues' /\ WholeInput'
  BY <1>1 DEF StreamInv, PlainQueues, WholeInput
<1>3. ASSUME NEW c \in Conns PROVE Stream(c)'
  <2>1. Stream(c) /\ c # NoConn
    BY NoConnAssumption DEF StreamInv
  <2>2. CASE c = client_fd
    <3>1. proto[c] \in {"http", "tls", "session"} /\ recv[c] \in Seq(Segment)
      BY DEF TypeOK
    <3>2. ~Whole(recv[c])
      BY <1>1, <2>2, <3>1, HelloNotWhole
    <3>3. proto[c] = "session" /\ recv[c] = <<Hello>>
      BY <1>1, <2>1, <2>2, <3>1, <3>2 DEF Stream
    <3>4. recv'[c] = <<>>
      BY <1>1, <2>2, <3>3
    <3>5. Whole(recv'[c])
      BY <3>4 DEF Whole
    <3>6. status[c] = "open"
      BY <1>1, <2>2 DEF SafetyInv, ConnectionOwned, Holding
    <3> QED BY <1>1, <2>1, <2>2, <3>3, <3>4, <3>5, <3>6 DEF Stream, Whole
  <2>3. CASE c # client_fd
    BY <1>1, <2>1, <2>3 DEF Stream
  <2> QED BY <2>2, <2>3
<1> QED BY <1>2, <1>3 DEF StreamInv

\* What is read or left of whole requests is whole.
LEMMA TakenWhole ==
    ASSUME TypeOK, NEW c \in Conns, Whole(recv[c])
    PROVE  /\ Whole(Left(c))
           /\ Taken(c) # <<>> => Taken(c)[1].part = "whole"
           /\ Taken(c) = <<>> <=> recv[c] = <<>>
           /\ recv[c] = <<>> => Left(c) = <<>>
<1>1. recv[c] \in Seq(Segment)
  BY DEF TypeOK
<1>2. CASE recv[c] = <<>>
  BY <1>2 DEF Taken, Left, Whole
<1>3. CASE recv[c] # <<>>
  <2>1. Head(recv[c]) = recv[c][1] /\ recv[c][1].part = "whole"
    BY <1>1, <1>3, HelloNotWhole
  <2>2. Taken(c) # <<>> /\ Taken(c)[1] = recv[c][1]
    BY <1>3, <2>1 DEF Taken
  <2>3. Whole(Left(c))
    <3>1. CASE tls_ssl = NoConn
      BY <1>3, <3>1 DEF Left, Whole
    <3>2. CASE tls_ssl # NoConn
      <4>1. Left(c) = Tail(recv[c])
        BY <1>3, <3>2 DEF Left
      <4>2. \A i \in DOMAIN Tail(recv[c]) : /\ i + 1 \in DOMAIN recv[c]
                                            /\ Tail(recv[c])[i] = recv[c][i + 1]
        BY <1>1, <1>3, HeadTailProperties
      <4> QED BY <4>1, <4>2 DEF Whole
    <3> QED BY <3>1, <3>2
  <2> QED BY <1>3, <2>1, <2>2, <2>3
<1> QED BY <1>2, <1>3

\* Where requests are read, they are whole.
LEMMA WholeAtRead ==
    ASSUME TypeOK, ClientSet, SafetyInv, StreamInv, pc \in HasData
    PROVE  client_fd \in Conns /\ Whole(recv[client_fd])
<1>1. client_fd \in Conns /\ (tls_ssl # NoConn => tls_ssl = client_fd)
  BY DEF SafetyInv, ConnectionOwned, ClientSet, Holding, HasData
<1>2. Stream(client_fd)
  BY <1>1 DEF StreamInv
<1> QED BY <1>1, <1>2 DEF Stream

LEMMA StreamRead ==
    ASSUME TypeOK, ClientSet, SafetyInv, StreamInv, Read \/ RedirectHttps
    PROVE  StreamInv'
<1>1. /\ UNCHANGED <<proto, status, gone, asked, backlog, client_fd, tls_ssl>>
      /\ pc \in {"read", "redirect"} /\ pc \in HasData
      /\ recv' = [recv EXCEPT ![client_fd] = Left(client_fd)]
      /\ net_input_buffer' = Taken(client_fd)
      /\ pc' = "serve" => Taken(client_fd) # <<>>
  BY DEF Read, RedirectHttps, AfterRead, HasData
<1>2. client_fd \in Conns /\ Whole(recv[client_fd])
  BY <1>1, WholeAtRead
<1>3. WholeInput'
  BY <1>1, <1>2, TakenWhole DEF WholeInput
<1>4. PlainQueues'
  BY <1>1 DEF StreamInv, PlainQueues
<1>5. ASSUME NEW c \in Conns PROVE Stream(c)'
  <2>1. Stream(c)
    BY DEF StreamInv
  <2>2. CASE c = client_fd
    <3>1. recv'[c] = Left(c) /\ Whole(Left(c)) /\ (recv[c] = <<>> => Left(c) = <<>>)
      BY <1>1, <1>2, <2>2, TakenWhole DEF TypeOK
    <3>2. Whole(recv'[c]) /\ (recv[c] = <<>> => recv'[c] = <<>>)
      BY <3>1
    <3>3. tls_ssl = NoConn \/ tls_ssl = c
      BY <2>2 DEF SafetyInv, ConnectionOwned
    <3>4. proto[c] = "http" \/ tls_ssl = c
      BY <1>1, <2>1, <2>2, <3>3 DEF Stream
    <3> QED BY <1>1, <2>1, <2>2, <3>2, <3>4 DEF Stream, Whole
  <2>3. CASE c # client_fd
    <3>1. recv'[c] = recv[c]
      BY <1>1, <2>3 DEF TypeOK
    <3> QED BY <1>1, <2>1, <2>3, <3>1 DEF Stream
  <2> QED BY <2>2, <2>3
<1> QED BY <1>3, <1>4, <1>5 DEF StreamInv

LEMMA StreamEnd ==
    ASSUME TypeOK, ClientSet, SafetyInv, StreamInv, Finish \/ HandlerCrash
    PROVE  StreamInv'
<1>1. /\ UNCHANGED <<proto, asked, backlog, client_fd>>
      /\ tls_ssl' = NoConn /\ pc' \in {"accept", "exited"}
      /\ recv' = [recv EXCEPT ![client_fd] = <<>>]
      /\ gone' = [gone EXCEPT ![client_fd] = FALSE]
      /\ status' = [status EXCEPT ![client_fd] = "away"]
      /\ tls_ssl # NoConn => tls_ssl = client_fd
  BY DEF Finish, FreedSession, HandlerCrash, SafetyInv, ConnectionOwned
<1>2. PlainQueues' /\ WholeInput'
  BY <1>1 DEF StreamInv, PlainQueues, WholeInput
<1>3. ASSUME NEW c \in Conns PROVE Stream(c)'
  <2>1. Stream(c) /\ c # NoConn
    BY NoConnAssumption DEF StreamInv
  <2>2. CASE c = client_fd
    <3>1. recv'[c] = <<>> /\ gone'[c] = FALSE /\ Whole(<<>>)
      BY <1>1, <2>2 DEF TypeOK, Whole
    <3> QED BY <1>1, <2>1, <3>1 DEF Stream, HasData, Whole
  <2>3. CASE c # client_fd
    <3>1. recv'[c] = recv[c] /\ gone'[c] = gone[c] /\ status'[c] = status[c]
      BY <1>1, <2>3 DEF TypeOK
    <3> QED BY <1>1, <2>1, <2>3, <3>1 DEF Stream, HasData
  <2> QED BY <2>2, <2>3
<1> QED BY <1>2, <1>3 DEF StreamInv

-------------------------------------------------------------------------------
(* The clients' side of the streams.                                       *)

\* One more whole request, after whole requests.
LEMMA WholeAppend ==
    ASSUME NEW segments \in Seq(Segment), Whole(segments),
           NEW s \in Segment, s.part = "whole"
    PROVE  Whole(Append(segments, s))
<1>1. /\ Len(segments) \in Nat /\ DOMAIN segments = 1..Len(segments)
      /\ DOMAIN Append(segments, s) = 1..(Len(segments) + 1)
      /\ \A i \in 1..Len(segments) : Append(segments, s)[i] = segments[i]
      /\ Append(segments, s)[Len(segments) + 1] = s
  BY AppendProperties
<1>2. \A i \in 1..(Len(segments) + 1) : i \in 1..Len(segments) \/ i = Len(segments) + 1
  BY <1>1
<1> QED BY <1>1, <1>2 DEF Whole

\* What ClientSend appends when requests arrive whole.
LEMMA SendsWhole ==
    ASSUME TypeOK, WholeRequests, NEW c \in Conns, ClientSend(c), asked[c] % 2 = 0
    PROVE  /\ UNCHANGED <<worker_vars, backlog, status, proto, gone, stalled, replies>>
           /\ status[c] # "away"
           /\ proto[c] = "http" \/ (proto[c] = "session" /\ tls_ssl = c)
           /\ [req |-> (asked[c] \div 2) + 1, part |-> "whole"] \in Segment
           /\ recv' = [recv EXCEPT ![c] =
                          Append(@, [req |-> (asked[c] \div 2) + 1, part |-> "whole"])]
           /\ asked' = [asked EXCEPT ![c] = @ + 2]
           /\ Waited(c)
<1>1. asked[c] \in Nat /\ asked[c] < 2 * MaxRequests /\ MaxRequests \in Nat
  BY BoundsAssumption DEF ClientSend, TypeOK
<1>2. (asked[c] \div 2) + 1 \in 0..MaxRequests
  BY <1>1
<1>3. [req |-> (asked[c] \div 2) + 1, part |-> "whole"] \in Segment
  BY <1>2 DEF Segment
<1> QED BY <1>3 DEF ClientSend

LEMMA StreamConnect ==
    ASSUME TypeOK, ClientSet, SafetyInv, QueueInv, StreamInv,
           NEW d \in Conns, NEW l \in Listeners, Connect(d, l)
    PROVE  StreamInv'
<1>1. /\ UNCHANGED <<recv, gone, tls_ssl, pc, client_fd, net_input_buffer>>
      /\ status[d] = "away" /\ status' = [status EXCEPT ![d] = "queued"]
      /\ backlog' = [backlog EXCEPT ![l] = Append(@, d)]
      /\ asked' = [asked EXCEPT ![d] = 0]
  BY DEF Connect, worker_vars
<1>2. PICK p \in IF SpeaksTls(l) THEN {"http", "tls"} ELSE {"http"} :
          proto' = [proto EXCEPT ![d] = p]
  BY DEF Connect
<1>3. WholeInput'
  BY <1>1 DEF StreamInv, WholeInput
<1>4. PlainQueues'
  <2> SUFFICES ASSUME NEW k \in Listeners, NEW i \in DOMAIN backlog'[k], ~SpeaksTls(k)
               PROVE  proto'[backlog'[k][i]] = "http"
    BY DEF PlainQueues, SpeaksTls
  <2>1. \/ i \in DOMAIN backlog[k] /\ backlog'[k][i] = backlog[k][i]
        \/ k = l /\ backlog'[k][i] = d
    <3>1. CASE k = l
      <4>1. /\ backlog[l] \in Seq(Conns) /\ backlog'[l] = Append(backlog[l], d)
        BY <1>1 DEF TypeOK
      <4>2. /\ Len(backlog[l]) \in Nat /\ DOMAIN backlog[l] = 1..Len(backlog[l])
            /\ DOMAIN Append(backlog[l], d) = 1..(Len(backlog[l]) + 1)
            /\ Append(backlog[l], d)[Len(backlog[l]) + 1] = d
            /\ \A j \in 1..Len(backlog[l]) : Append(backlog[l], d)[j] = backlog[l][j]
        BY <4>1, AppendProperties
      <4> QED BY <3>1, <4>1, <4>2
    <3>2. CASE k # l
      BY <1>1, <3>2 DEF TypeOK
    <3> QED BY <3>1, <3>2
  <2>2. i \in DOMAIN backlog[k] => backlog[k][i] \in Conns /\ backlog[k][i] # d
    BY <1>1 DEF QueueInv, TypeOK
  <2>3. k = l => proto'[d] = "http"
    BY <1>2 DEF TypeOK
  <2>4. i \in DOMAIN backlog[k] => proto'[backlog[k][i]] = proto[backlog[k][i]]
    BY <1>2, <2>2 DEF TypeOK
  <2> QED BY <2>1, <2>3, <2>4 DEF StreamInv, PlainQueues
<1>5. ASSUME NEW c \in Conns PROVE Stream(c)'
  <2>1. Stream(c) /\ c # NoConn
    BY NoConnAssumption DEF StreamInv
  <2>2. CASE c = d
    <3>1. tls_ssl # c /\ ~(c = client_fd /\ pc \in HasData)
      BY <1>1, <2>1, <2>2 DEF SafetyInv, ConnectionOwned, Holding, HasData
    <3>2. /\ proto'[c] \in {"http", "tls"} /\ status'[c] = "queued" /\ asked'[c] = 0
          /\ recv'[c] = <<>> /\ Whole(<<>>)
      BY <1>1, <1>2, <2>1, <2>2 DEF TypeOK, Stream, Whole
    <3> QED BY <1>1, <3>1, <3>2 DEF Stream, Whole
  <2>3. CASE c # d
    <3>1. proto'[c] = proto[c] /\ status'[c] = status[c] /\ asked'[c] = asked[c]
      BY <1>1, <1>2, <2>3 DEF TypeOK
    <3> QED BY <1>1, <2>1, <3>1 DEF Stream
  <2> QED BY <2>2, <2>3
<1> QED BY <1>3, <1>4, <1>5 DEF StreamInv

\* A client's own step on its stream, seen from every client.
LEMMA StreamClient ==
    ASSUME TypeOK, ClientSet, SafetyInv, StreamInv, WholeRequests, NEW d \in Conns,
           ClientHello(d) \/ ClientSend(d) \/ ClientClose(d)
    PROVE  StreamInv'
<1>1. /\ UNCHANGED <<worker_vars, backlog, status>>
      /\ \A c \in Conns : c # d => /\ proto'[c] = proto[c] /\ recv'[c] = recv[c]
                                   /\ gone'[c] = gone[c] /\ asked'[c] = asked[c]
      /\ status[d] # "away"
      /\ proto[d] = "http" => proto'[d] = "http"
  BY DEF ClientHello, ClientSend, ClientClose, TypeOK
<1>2. WholeInput'
  BY <1>1 DEF StreamInv, WholeInput, worker_vars
<1>3. PlainQueues'
  <2>1. \A k \in Listeners : \A i \in DOMAIN backlog[k] : backlog[k][i] \in Conns
    BY DEF TypeOK
  <2>2. \A c \in Conns : proto[c] = "http" => proto'[c] = "http"
    BY <1>1
  <2> QED BY <1>1, <2>1, <2>2 DEF StreamInv, PlainQueues
<1>4. Stream(d) /\ d # NoConn /\ recv[d] \in Seq(Segment)
  BY NoConnAssumption DEF StreamInv, TypeOK
<1>5. CASE ClientHello(d)
  <2>1. /\ proto[d] = "tls" /\ proto'[d] = "session" /\ gone' = gone /\ asked' = asked
        /\ recv'[d] = Append(recv[d], Hello)
    BY <1>5 DEF ClientHello, TypeOK
  <2>2. recv'[d] = <<Hello>> /\ tls_ssl # d
    <3>1. recv[d] = <<>> /\ tls_ssl # d
      BY <1>4, <2>1 DEF Stream
    <3>2. Append(<<>>, Hello) = <<Hello>>
      OBVIOUS
    <3> QED BY <2>1, <3>1, <3>2
  <2>3. Stream(d)'
    BY <1>1, <1>4, <2>1, <2>2 DEF Stream, worker_vars
  <2> QED BY <1>1, <1>2, <1>3, <2>3 DEF StreamInv, Stream, worker_vars
<1>6. CASE ClientSend(d)
  <2> DEFINE s == [req |-> (asked[d] \div 2) + 1, part |-> "whole"]
  <2>1. /\ proto' = proto /\ gone' = gone
        /\ proto[d] = "http" \/ (proto[d] = "session" /\ tls_ssl = d)
        /\ s \in Segment /\ recv'[d] = Append(recv[d], s)
        /\ asked'[d] = asked[d] + 2 /\ asked[d] \in Nat
    BY <1>4, <1>6, SendsWhole DEF Stream, TypeOK
  <2>2. s.part = "whole"
    OBVIOUS
  <2> HIDE DEF s
  <2>3. Whole(recv[d])
    BY <1>4, <2>1 DEF Stream
  <2>4. Whole(recv'[d])
    BY <1>4, <2>1, <2>2, <2>3, WholeAppend
  <2>5. asked'[d] % 2 = 0
    BY <1>4, <2>1 DEF Stream
  <2>6. Stream(d)'
    BY <1>1, <1>4, <2>1, <2>4, <2>5 DEF Stream, worker_vars, Whole
  <2> QED BY <1>1, <1>2, <1>3, <2>6 DEF StreamInv, Stream, worker_vars
<1>7. CASE ClientClose(d)
  <2>1. /\ proto' = proto /\ asked' = asked
        /\ recv'[d] = recv[d] \/ recv'[d] = <<>>
    BY <1>7 DEF ClientClose, TypeOK
  <2>2. Whole(<<>>)
    BY DEF Whole
  <2>3. Stream(d)'
    BY <1>1, <1>4, <2>1, <2>2 DEF Stream, worker_vars, Whole
  <2> QED BY <1>1, <1>2, <1>3, <2>3 DEF StreamInv, Stream, worker_vars
<1> QED BY <1>5, <1>6, <1>7

LEMMA StreamStep ==
    ASSUME TypeOK, ClientSet, SafetyInv, QueueInv, StreamInv, WholeRequests, [Next]_vars
    PROVE  StreamInv'
<1>1. ASSUME NEW l \in Listeners, Accept(l) PROVE StreamInv'
  BY <1>1, StreamAccept
<1>2. CASE Peek
  BY <1>2, StreamPeek
<1>3. CASE HandshakeOk
  BY <1>3, StreamHandshake
<1>4. CASE Read \/ RedirectHttps
  BY <1>4, StreamRead
<1>5. CASE Finish \/ HandlerCrash
  BY <1>5, StreamEnd
<1>6. ASSUME NEW c \in Conns, Client(c) PROVE StreamInv'
  <2>1. CASE \E l \in Listeners : Connect(c, l)
    BY <2>1, StreamConnect
  <2>2. CASE ClientHello(c) \/ ClientSend(c) \/ ClientClose(c)
    BY <2>2, StreamClient
  <2>3. CASE ClientStall(c) \/ ClientResume(c)
    <3>1. /\ UNCHANGED <<proto, recv, status, gone, asked, tls_ssl, backlog>>
          /\ pc' = pc /\ client_fd' = client_fd /\ net_input_buffer' = net_input_buffer
      BY <2>3 DEF ClientStall, ClientResume, worker_vars
    <3>2. WholeInput'
      BY <3>1 DEF StreamInv, WholeInput
    <3> QED BY <3>1, <3>2, StreamStill
  <2> QED BY <1>6, <2>1, <2>2, <2>3 DEF Client
<1>7. CASE \/ Start \/ AcceptError \/ HandshakeError \/ PollReady \/ PollGivesWay
           \/ PollTimeout \/ SendHeaders \/ SendBody \/ UNCHANGED vars
           \/ \E outcome \in Outcomes \ {"crash"}, asks \in BOOLEAN :
                  Serve(outcome, asks)
  <2>1. /\ UNCHANGED <<proto, recv, status, gone, asked, tls_ssl, backlog>>
        /\ pc' \in HasData => pc \in HasData /\ client_fd' = client_fd
    BY <1>7 DEF Start, AcceptError, HandshakeError, PollReady, PollGivesWay,
       PollTimeout, SendHeaders, SendBody, Survives, Serve, vars, peer_vars, HasData
  <2>2. pc' = "serve" => pc = "serve" /\ net_input_buffer' = net_input_buffer
    BY <1>7 DEF Start, AcceptError, HandshakeError, PollReady, PollGivesWay,
       PollTimeout, SendHeaders, SendBody, Survives, Serve, vars
  <2>3. WholeInput'
    BY <2>2 DEF StreamInv, WholeInput
  <2> QED BY <2>1, <2>3, StreamStill
<1> QED BY <1>1, <1>2, <1>3, <1>4, <1>5, <1>6, <1>7 DEF Next, Worker

-------------------------------------------------------------------------------
(* Own replies.                                                            *)

\* All a client received was computed from its own bytes.
Own(c) ==
    \A i \in DOMAIN replies[c] : \A j \in DOMAIN replies[c][i].text :
        replies[c][i].text[j].of.from \subseteq {c}

\* What is about to be sent was too.
OwnInv ==
    /\ pc \in {"send_headers", "send_body"} => request.from \subseteq {client_fd}
    /\ \A c \in Conns : Own(c)

LEMMA OwnInit == Init => OwnInv
BY DEF Init, OwnInv, Own

\* A text of one request, computed from c's bytes, is appended to c's own.
LEMMA OwnAppend ==
    ASSUME TypeOK, NEW c \in Conns, Own(c), NEW m \in Message, NEW r \in Request,
           \A j \in DOMAIN m.text : m.text[j].of = r, r.from \subseteq {c},
           replies'[c] = Append(replies[c], m)
    PROVE  Own(c)'
<1>1. replies[c] \in Seq(Message)
  BY DEF TypeOK
<1>2. /\ Len(replies[c]) \in Nat /\ DOMAIN replies[c] = 1..Len(replies[c])
      /\ DOMAIN replies'[c] = 1..(Len(replies[c]) + 1)
      /\ \A i \in 1..Len(replies[c]) : replies'[c][i] = replies[c][i]
      /\ replies'[c][Len(replies[c]) + 1] = m
  BY <1>1, AppendProperties
<1>3. \A i \in DOMAIN replies'[c] : i \in DOMAIN replies[c] \/ i = Len(replies[c]) + 1
  BY <1>2
<1>4. \A j \in DOMAIN m.text : m.text[j].of.from \subseteq {c}
  OBVIOUS
<1>5. ASSUME NEW i \in DOMAIN replies'[c], NEW j \in DOMAIN replies'[c][i].text
      PROVE  replies'[c][i].text[j].of.from \subseteq {c}
  <2>1. CASE i \in DOMAIN replies[c]
    BY <1>2, <1>5, <2>1 DEF Own
  <2>2. CASE i = Len(replies[c]) + 1
    BY <1>2, <1>4, <1>5, <2>2
  <2> QED BY <1>3, <2>1, <2>2
<1> QED BY <1>5 DEF Own

\* The request being parsed is of the connection the worker holds.
LEMMA OwnWrites ==
    ASSUME TypeOK, ClientSet, SafetyInv, FrameInv, StreamInv, Writes
    PROVE  request'.from \subseteq {client_fd}
<1>1. NoRequest.from \subseteq {client_fd}
  BY DEF NoRequest
<1>2. \A input, stale : input # <<>> /\ input[1].part = "whole" =>
          Parse(input, stale).from \subseteq {client_fd}
  BY DEF Parse
<1>3. \A stale : Parse(<<>>, stale) = NoRequest
  BY DEF Parse
<1>4. CASE RedirectHttps
  <2>1. /\ request' = Parse(Taken(client_fd), residue) /\ pc \in HasData
    BY <1>4 DEF RedirectHttps, HasData
  <2>2. client_fd \in Conns /\ Whole(recv[client_fd])
    BY <2>1, WholeAtRead
  <2>3. Taken(client_fd) = <<>> \/ Taken(client_fd)[1].part = "whole"
    BY <2>2, TakenWhole
  <2>4. CASE Taken(client_fd) = <<>>
    BY <1>1, <1>3, <2>1, <2>4
  <2>5. CASE Taken(client_fd) # <<>>
    BY <1>2, <2>1, <2>3, <2>5
  <2> QED BY <2>4, <2>5
<1>5. ASSUME NEW outcome, NEW asks, Serve(outcome, asks)
      PROVE  request'.from \subseteq {client_fd}
  <2>1. request' = Parse(net_input_buffer, residue) /\ pc = "serve"
    BY <1>5 DEF Serve
  <2>2. net_input_buffer # <<>> /\ net_input_buffer[1].part = "whole"
    BY <2>1 DEF StreamInv, WholeInput
  <2> QED BY <1>2, <2>1, <2>2
<1> QED BY <1>4, <1>5 DEF Writes

LEMMA OwnSends ==
    ASSUME TypeOK, ClientSet, SafetyInv, FrameInv, OwnInv, SendHeaders \/ SendBody
    PROVE  OwnInv'
<1>1. /\ client_fd \in Conns /\ client_fd' = client_fd /\ request' = request
      /\ request \in Request /\ request.from \subseteq {client_fd}
  BY DEF SendHeaders, SendBody, ClientSet, Holding, TypeOK, OwnInv
<1>2. PICK text \in Seq(Line) :
          Deliver(text) /\ (text # <<>> => \A j \in DOMAIN text : text[j].of = request)
  <2>1. CASE SendHeaders
    <3>1. Deliver(net_headers_buffer) /\ net_headers_buffer \in Seq(Line)
      BY <2>1 DEF SendHeaders, TypeOK
    <3>2. \A j \in DOMAIN net_headers_buffer : net_headers_buffer[j].of = request
      BY <1>1, <2>1, HeadText DEF SendHeaders, FrameInv
    <3> QED BY <3>1, <3>2
  <2>2. CASE SendBody
    <3>1. Deliver(net_buffer) /\ net_buffer \in Seq(Line)
      BY <2>2 DEF SendBody, TypeOK
    <3>2. net_buffer # <<>> =>
              \A j \in DOMAIN net_buffer : net_buffer[j].of = request
      BY <1>1, <2>2, BodyText DEF SendBody, FrameInv
    <3> QED BY <3>1, <3>2
  <2> QED BY <2>1, <2>2
<1>3. CASE text = <<>> \/ gone[client_fd]
  <2>1. replies' = replies
    BY <1>1, <1>2, <1>3, DeliverEffect
  <2> QED BY <1>1, <2>1 DEF OwnInv, Own
<1>4. CASE text # <<>> /\ ~gone[client_fd]
  <2>1. PICK m \in Message : m.text = text /\ replies'[client_fd] = Append(replies[client_fd], m)
    BY <1>1, <1>2, <1>4, DeliverEffect
  <2>2. \A d \in Conns : d # client_fd => replies'[d] = replies[d]
    BY <1>1, <1>2, <1>4, DeliverEffect
  <2>3. ASSUME NEW c \in Conns PROVE Own(c)'
    <3>1. Own(c)
      BY DEF OwnInv
    <3>2. CASE c = client_fd
      BY <1>1, <1>2, <1>4, <2>1, <3>1, <3>2, OwnAppend
    <3>3. CASE c # client_fd
      BY <2>2, <3>1, <3>3 DEF Own
    <3> QED BY <3>2, <3>3
  <2> QED BY <1>1, <2>3 DEF OwnInv
<1> QED BY <1>3, <1>4

LEMMA OwnStep ==
    ASSUME Base, StreamInv, OwnInv, [Next]_vars
    PROVE  OwnInv'
<1> USE DEF Base
<1>1. CASE Moves
  BY <1>1, MovesKeep DEF OwnInv, Own
<1>2. CASE Writes
  <2>1. request'.from \subseteq {client_fd}
    BY <1>2, OwnWrites
  <2> QED BY <1>2, <2>1, WritesKeep DEF OwnInv, Own
<1>3. CASE SendHeaders \/ SendBody
  BY <1>3, OwnSends
<1>4. ASSUME NEW d \in Conns, Client(d) PROVE OwnInv'
  <2>1. UNCHANGED worker_vars /\ \A c \in Conns : replies'[c] = <<>> \/ replies'[c] = replies[c]
    BY <1>4, ClientKeeps
  <2> QED BY <2>1 DEF OwnInv, Own, worker_vars
<1>5. CASE UNCHANGED vars
  BY <1>5 DEF vars, OwnInv, Own
<1> QED BY <1>1, <1>2, <1>3, <1>4, <1>5, Kinds

LEMMA StreamAlways ==
    ASSUME WholeRequests
    PROVE  Spec => []StreamInv
<1>1. Init => Base /\ StreamInv
  BY TypeInit, SafetyInit, QueueInit, FrameInit, PromiseInit, StreamInit DEF Base
<1>2. Base /\ StreamInv /\ [Next]_vars => (Base /\ StreamInv)'
  BY TypeStep, SafetyStep, QueueStep, FrameStep, PromiseStep, StreamStep DEF Base
<1> QED BY <1>1, <1>2, PTL DEF Spec

\* When every request arrives in one segment, no client ever receives a line
\* computed from another client's bytes, for any clients and configuration.
THEOREM RepliesAreOwn ==
    ASSUME WholeRequests
    PROVE  Spec => []OwnReplies
<1>1. Init => OwnInv
  BY OwnInit
<1>2. Base /\ StreamInv /\ OwnInv /\ [Next]_vars => OwnInv'
  BY OwnStep
<1>3. OwnInv => OwnReplies
  BY DEF OwnInv, Own, OwnReplies
<1>4. Spec => []Base
  BY BaseAlways
<1>5. Spec => []StreamInv
  BY StreamAlways
<1> QED BY <1>1, <1>2, <1>3, <1>4, <1>5, PTL DEF Spec

-------------------------------------------------------------------------------
(* The order of the answers, to clients that wait for each of them.        *)

\* The request a client is to be answered next.
NextAsked(c) == [req |-> Answers(c) + 1, part |-> "whole"]

\* At most the next request is unread, and a client that sent it waits.
OneAsked(c) ==
    \/ recv[c] = <<>>
    \/ recv[c] = <<Hello>>
    \/ recv[c] = <<NextAsked(c)>> /\ asked[c] = 2 * (Answers(c) + 1)

\* The client waits for the answer to the request that was read.
Awaits(c) == recv[c] = <<>> /\ asked[c] = 2 * (Answers(c) + 1)

\* The locations before a request of the connection is read.
Reads ==
    \/ pc \in {"peek", "handshake", "redirect", "poll", "read"}
    \/ pc = "send_body" /\ keep_alive

InOrder(c) ==
    \A i \in HeadsAt(c) :
        replies[c][i].text[1].name # "301" =>
            replies[c][i].text[1].of.req = Which(c, i)

Order(c) ==
    /\ status[c] = "queued" => OneAsked(c)
    /\ c = client_fd /\ Reads => OneAsked(c)
    /\ c = client_fd /\ pc = "serve" =>
          net_input_buffer[1].req = Answers(c) + 1 /\ Awaits(c)
    /\ c = client_fd /\ pc = "send_headers" /\ net_headers_buffer[1].name # "301" =>
          request.req = Answers(c) + 1
    /\ c = client_fd /\ pc = "send_headers" /\ keep_alive => Awaits(c)
    /\ InOrder(c)

OrderInv == \A c \in Conns : Order(c)

\* Everything the order rests on.
Whereabouts == Base /\ StreamInv /\ WholeRequests /\ ~Pipelining

LEMMA OrderInit == Init => OrderInv
<1> SUFFICES ASSUME Init, NEW c \in Conns PROVE Order(c)
  BY DEF OrderInv
<1>1. replies[c] = <<>> /\ pc = "start" /\ status[c] = "away"
  BY DEF Init
<1>2. HeadsAt(c) = {}
  BY <1>1, NoHeads
<1> QED BY <1>1, <1>2 DEF Order, InOrder, Reads

\* What is true of a client while nothing is sent to it and it sends nothing.
LEMMA OrderKept ==
    ASSUME NEW c \in Conns, replies'[c] = replies[c]
    PROVE  /\ HeadsAt(c)' = HeadsAt(c) /\ Answers(c)' = Answers(c)
           /\ InOrder(c) => InOrder(c)'
           /\ recv'[c] = recv[c] /\ asked'[c] = asked[c] =>
                 OneAsked(c)' = OneAsked(c) /\ Awaits(c)' = Awaits(c)
<1>1. /\ HeadsAt(c)' = HeadsAt(c) /\ Answers(c)' = Answers(c)
      /\ \A i : Which(c, i)' = Which(c, i)
  BY HeadsKept
<1>2. InOrder(c) => InOrder(c)'
  BY <1>1 DEF InOrder
<1>3. recv'[c] = recv[c] /\ asked'[c] = asked[c] =>
          OneAsked(c)' = OneAsked(c) /\ Awaits(c)' = Awaits(c)
  BY <1>1 DEF OneAsked, Awaits, NextAsked
<1> QED BY <1>1, <1>2, <1>3

\* What is read of one whole request is that request, and nothing is left.
LEMMA OneTaken ==
    ASSUME TypeOK, NEW c \in Conns, OneAsked(c), Whole(recv[c]), Taken(c) # <<>>
    PROVE  /\ Taken(c)[1].req = Answers(c) + 1
           /\ Left(c) = <<>> /\ asked[c] = 2 * (Answers(c) + 1)
<1>1. recv[c] # <<>> /\ recv[c] \in Seq(Segment)
  BY DEF Taken, TypeOK
<1>2. recv[c] # <<Hello>>
  BY <1>1, HelloNotWhole
<1>3. recv[c] = <<NextAsked(c)>> /\ asked[c] = 2 * (Answers(c) + 1)
  BY <1>1, <1>2 DEF OneAsked
<1> DEFINE s == NextAsked(c)
<1>4. s.req = Answers(c) + 1
  BY DEF NextAsked
<1> HIDE DEF s
<1>5. recv[c] = <<s>>
  BY <1>3 DEF s
<1>6. Head(<<s>>) = s /\ Tail(<<s>>) = <<>> /\ <<s>>[1] = s
  OBVIOUS
<1>7. Taken(c) = <<s>> /\ Left(c) = <<>>
  BY <1>1, <1>5, <1>6 DEF Taken, Left
<1> QED BY <1>3, <1>4, <1>6, <1>7

LEMMA OrderMoves ==
    ASSUME Whereabouts, OrderInv, Moves, NEW c \in Conns
    PROVE  Order(c)'
<1> USE DEF Whereabouts, Base
<1>1. replies' = replies /\ Order(c)
  BY MovesKeep DEF OrderInv
<1>2. pc' # "send_headers" /\ pc # "send_headers" /\ pc # "send_body" /\ pc' # "send_body"
  BY MovesKeep
<1>3. /\ HeadsAt(c)' = HeadsAt(c) /\ Answers(c)' = Answers(c) /\ InOrder(c)'
      /\ recv'[c] = recv[c] /\ asked'[c] = asked[c] =>
            OneAsked(c)' = OneAsked(c) /\ Awaits(c)' = Awaits(c)
  BY <1>1, OrderKept DEF Order
<1>4. ASSUME NEW l \in Listeners, Accept(l) PROVE Order(c)'
  <2>1. status[client_fd'] = "queued" /\ client_fd' \in Conns
    BY <1>4, QueueAccept
  <2>2. /\ recv' = recv /\ asked' = asked /\ pc' # "serve"
        /\ status'[c] = "queued" => status[c] = "queued"
    BY <1>4 DEF Accept, AfterAccept, TypeOK
  <2>3. c = client_fd' => OneAsked(c)
    BY <1>1, <2>1 DEF Order
  <2> QED BY <1>1, <1>2, <1>3, <2>2, <2>3 DEF Order
<1>5. CASE HandshakeOk
  <2>1. /\ client_fd' = client_fd /\ status' = status /\ asked' = asked
        /\ pc' = "poll" /\ pc = "handshake"
        /\ recv' = [recv EXCEPT ![client_fd] = Tail(@)]
        /\ recv[client_fd] # <<>> /\ Head(recv[client_fd]) = Hello
    BY <1>5 DEF HandshakeOk
  <2>2. CASE c # client_fd
    <3>1. recv'[c] = recv[c]
      BY <2>1, <2>2 DEF TypeOK
    <3> QED BY <1>1, <1>2, <1>3, <2>1, <2>2, <3>1 DEF Order
  <2>3. CASE c = client_fd
    <3>1. Stream(c) /\ recv[c] \in Seq(Segment) /\ c # NoConn /\ tls_ssl = NoConn
      BY <2>1, NoConnAssumption DEF StreamInv, TypeOK, SafetyInv, SessionPath
    <3>2. proto[c] \in {"http", "tls", "session"}
      BY DEF TypeOK
    <3>3. ~Whole(recv[c])
      BY <2>1, <2>3, <3>1, HelloNotWhole
    <3>4. recv[c] = <<Hello>>
      BY <2>1, <2>3, <3>1, <3>2, <3>3 DEF Stream
    <3>5. Tail(<<Hello>>) = <<>>
      OBVIOUS
    <3>6. recv'[c] = <<>>
      BY <2>1, <2>3, <3>4, <3>5 DEF TypeOK
    <3>7. OneAsked(c)'
      BY <3>6 DEF OneAsked
    <3> QED BY <1>1, <1>2, <1>3, <2>1, <3>7 DEF Order
  <2> QED BY <2>2, <2>3
<1>6. CASE Read
  <2>1. /\ client_fd' = client_fd /\ status' = status /\ asked' = asked
        /\ pc = "read" /\ pc' \in {"finish", "serve"} /\ pc \in HasData
        /\ recv' = [recv EXCEPT ![client_fd] = Left(client_fd)]
        /\ net_input_buffer' = Taken(client_fd)
        /\ pc' = "serve" => Taken(client_fd) # <<>>
    BY <1>6 DEF Read, AfterRead, HasData
  <2>2. CASE c # client_fd
    <3>1. recv'[c] = recv[c]
      BY <2>1, <2>2 DEF TypeOK
    <3> QED BY <1>1, <1>2, <1>3, <2>1, <2>2, <3>1 DEF Order
  <2>3. CASE c = client_fd
    <3>1. OneAsked(c) /\ Whole(recv[c]) /\ recv'[c] = Left(c)
      BY <1>1, <2>1, <2>3, WholeAtRead DEF Order, Reads, TypeOK
    <3>2. pc' = "serve" => /\ net_input_buffer'[1].req = Answers(c) + 1
                           /\ recv'[c] = <<>> /\ asked'[c] = 2 * (Answers(c) + 1)
      BY <2>1, <2>3, <3>1, OneTaken
    <3>3. pc' = "serve" => Awaits(c)'
      BY <1>3, <3>2 DEF Awaits
    <3>4. status[c] = "open"
      BY <2>1, <2>3 DEF SafetyInv, ConnectionOwned, Holding
    <3> QED BY <1>2, <1>3, <2>1, <3>2, <3>3, <3>4 DEF Order, Reads
  <2> QED BY <2>2, <2>3
<1>7. CASE Finish \/ HandlerCrash
  <2>1. /\ asked' = asked /\ pc' \in {"accept", "exited"}
        /\ recv' = [recv EXCEPT ![client_fd] = <<>>]
        /\ status' = [status EXCEPT ![client_fd] = "away"]
    BY <1>7 DEF Finish, HandlerCrash
  <2>2. status'[c] = "queued" => status[c] = "queued" /\ recv'[c] = recv[c]
    BY <2>1 DEF TypeOK
  <2> QED BY <1>1, <1>2, <1>3, <2>1, <2>2 DEF Order, Reads
<1>8. CASE \/ Start \/ AcceptError \/ Peek \/ HandshakeError \/ PollReady
           \/ PollGivesWay \/ PollTimeout
  <2>1. /\ recv' = recv /\ asked' = asked /\ status' = status
        /\ pc' # "serve"
        /\ pc' \in {"peek", "handshake", "redirect", "poll", "read"} =>
              Reads /\ client_fd' = client_fd
    BY <1>8 DEF Start, AcceptError, Peek, HandshakeError, PollReady, PollGivesWay,
       PollTimeout, Reads, peer_vars
  <2>2. Reads' => Reads /\ client_fd' = client_fd
    BY <1>2, <2>1 DEF Reads
  <2> QED BY <1>1, <1>2, <1>3, <2>1, <2>2 DEF Order
<1> QED BY <1>4, <1>5, <1>6, <1>7, <1>8 DEF Moves

\* The request that was read is the one that is answered.
LEMMA OrderWrites ==
    ASSUME Whereabouts, OrderInv, Writes, NEW c \in Conns
    PROVE  Order(c)'
<1> USE DEF Whereabouts, Base
<1>1. /\ client_fd' = client_fd /\ replies' = replies /\ status' = status
      /\ asked' = asked /\ pc' = "send_headers" /\ pc \in {"serve", "redirect"}
  BY WritesKeep
<1>2. Order(c)
  BY DEF OrderInv
<1>3. /\ HeadsAt(c)' = HeadsAt(c) /\ Answers(c)' = Answers(c) /\ InOrder(c)'
      /\ recv'[c] = recv[c] /\ asked'[c] = asked[c] =>
            OneAsked(c)' = OneAsked(c) /\ Awaits(c)' = Awaits(c)
  BY <1>1, <1>2, OrderKept DEF Order
<1>4. ~Reads'
  BY <1>1 DEF Reads
<1>5. CASE RedirectHttps
  <2>1. /\ pc = "redirect" /\ keep_alive' = FALSE
        /\ recv' = [recv EXCEPT ![client_fd] = Left(client_fd)]
    BY <1>5 DEF RedirectHttps
  <2>2. net_headers_buffer'[1].name = "301"
    <3>1. net_headers_buffer = <<>> /\ net_buffer = <<>>
      BY <2>1 DEF FrameInv
    <3>2. PICK names \in HeadNames :
              net_headers_buffer' = Lines(names, request') /\ names[1] = "301"
      BY <2>1, <3>1, WriteEffect
    <3>3. request' \in Request
      BY <3>1, WriteEffect
    <3> QED BY <3>2, <3>3, HeadText
  <2>3. status[c] = "queued" => recv'[c] = recv[c]
    <3>1. status[client_fd] = "open"
      BY <2>1 DEF SafetyInv, ConnectionOwned, Holding
    <3> QED BY <2>1, <3>1 DEF TypeOK
  <2> QED BY <1>1, <1>2, <1>3, <1>4, <2>1, <2>2, <2>3 DEF Order
<1>6. ASSUME NEW outcome, NEW asks, Serve(outcome, asks) PROVE Order(c)'
  <2>1. /\ pc = "serve" /\ recv' = recv
        /\ request' = Parse(net_input_buffer, residue)
    BY <1>6 DEF Serve, peer_vars
  <2>2. net_input_buffer # <<>>
    BY <2>1 DEF StreamInv, WholeInput
  <2>3. request'.req = net_input_buffer[1].req
    BY <2>1, <2>2 DEF Parse
  <2>4. c = client_fd => request'.req = Answers(c) + 1 /\ Awaits(c)
    BY <1>2, <2>1, <2>3 DEF Order
  <2> QED BY <1>1, <1>2, <1>3, <1>4, <2>1, <2>4 DEF Order
<1> QED BY <1>5, <1>6 DEF Writes

LEMMA OrderSendHeaders ==
    ASSUME Whereabouts, OrderInv, SendHeaders, NEW c \in Conns
    PROVE  Order(c)'
<1> USE DEF Whereabouts, Base
<1> DEFINE text == net_headers_buffer
<1>1. /\ client_fd \in Conns /\ client_fd' = client_fd /\ keep_alive' = keep_alive
      /\ recv' = recv /\ status' = status /\ asked' = asked
      /\ pc = "send_headers" /\ pc' = "send_body" /\ Deliver(text)
  BY DEF SendHeaders, Survives, SafetyInv, SessionPath, ClientSet, Holding
<1>2. Order(c)
  BY DEF OrderInv
<1>3. /\ text \in Seq(Line) /\ text # <<>> /\ text[Len(text)].name = "length"
      /\ text[1].of = request
  <2>1. PICK names \in HeadNames : text = Lines(names, request)
    BY <1>1 DEF FrameInv
  <2>2. request \in Request
    BY DEF TypeOK
  <2> QED BY <2>1, <2>2, HeadText
<1>4. c = client_fd /\ text[1].name # "301" => text[1].of.req = Answers(c) + 1
  BY <1>1, <1>2, <1>3 DEF Order
<1> HIDE DEF text
<1>5. ASSUME OneAsked(c)' = OneAsked(c) \/ c = client_fd, InOrder(c)' PROVE Order(c)'
  <2>1. c = client_fd => status[c] = "open"
    BY <1>1 DEF SafetyInv, ConnectionOwned, Holding
  <2>2. c = client_fd /\ keep_alive => recv'[c] = <<>>
    BY <1>1, <1>2 DEF Order, Awaits
  <2>3. c = client_fd /\ Reads' => OneAsked(c)'
    BY <1>1, <2>2 DEF Reads, OneAsked
  <2> QED BY <1>1, <1>2, <1>5, <2>1, <2>3 DEF Order
<1>6. CASE replies'[c] = replies[c]
  BY <1>1, <1>2, <1>5, <1>6, OrderKept DEF Order
<1>7. CASE c = client_fd /\ ~gone[client_fd]
  <2>1. PICK m \in Message : m.text = text /\ replies'[c] = Append(replies[c], m)
    BY <1>1, <1>3, <1>7, DeliverEffect
  <2>2. IsHead(m)
    BY <1>3, <2>1 DEF IsHead
  <2>3. PICK n : n = Len(replies[c]) + 1
    OBVIOUS
  <2>4. /\ HeadsAt(c)' = HeadsAt(c) \cup {n}
        /\ Which(c, n)' = Answers(c) + 1
        /\ \A i \in HeadsAt(c) : /\ Which(c, i)' = Which(c, i)
                                 /\ replies'[c][i] = replies[c][i]
        /\ replies'[c][n] = m
    BY <2>1, <2>2, <2>3, HeadAppended
  <2>5. ASSUME NEW i \in HeadsAt(c)', replies'[c][i].text[1].name # "301"
        PROVE  replies'[c][i].text[1].of.req = Which(c, i)'
    <3>1. CASE i \in HeadsAt(c)
      BY <1>2, <2>4, <2>5, <3>1 DEF Order, InOrder
    <3>2. CASE i = n
      BY <1>4, <1>7, <2>1, <2>4, <2>5, <3>2
    <3> QED BY <2>4, <2>5, <3>1, <3>2
  <2>6. InOrder(c)'
    BY <2>5 DEF InOrder
  <2> QED BY <1>5, <1>7, <2>6
<1>8. c # client_fd \/ gone[client_fd] => replies'[c] = replies[c]
  BY <1>1, <1>3, DeliverEffect
<1> QED BY <1>6, <1>7, <1>8

LEMMA OrderSendBody ==
    ASSUME Whereabouts, OrderInv, SendBody, NEW c \in Conns
    PROVE  Order(c)'
<1> USE DEF Whereabouts, Base
<1> DEFINE text == net_buffer
<1>1. /\ client_fd \in Conns /\ client_fd' = client_fd /\ keep_alive' = keep_alive
      /\ recv' = recv /\ status' = status /\ asked' = asked
      /\ pc = "send_body" /\ pc' = (IF keep_alive THEN "poll" ELSE "finish")
      /\ Deliver(text) /\ text \in Seq(Line)
  BY DEF SendBody, Survives, SafetyInv, SessionPath, ClientSet, Holding, TypeOK
<1>2. Order(c)
  BY DEF OrderInv
<1>3. text # <<>> => text[Len(text)].name # "length"
  <2>1. request \in Request
    BY DEF TypeOK
  <2> QED BY <2>1, BodyText DEF FrameInv
<1> HIDE DEF text
<1>4. Reads' => Reads
  BY <1>1 DEF Reads
<1>5. ASSUME OneAsked(c)' = OneAsked(c), InOrder(c)' PROVE Order(c)'
  BY <1>1, <1>2, <1>4, <1>5 DEF Order
<1>6. CASE replies'[c] = replies[c]
  BY <1>1, <1>2, <1>5, <1>6, OrderKept DEF Order
<1>7. CASE c = client_fd /\ ~gone[client_fd] /\ text # <<>>
  <2>1. PICK m \in Message : m.text = text /\ replies'[c] = Append(replies[c], m)
    BY <1>1, <1>7, DeliverEffect
  <2>2. ~IsHead(m)
    BY <1>3, <1>7, <2>1 DEF IsHead
  <2>3. PICK n : n = Len(replies[c]) + 1
    OBVIOUS
  <2>4. /\ HeadsAt(c)' = HeadsAt(c) /\ Answers(c)' = Answers(c)
        /\ \A i \in HeadsAt(c) : /\ Which(c, i)' = Which(c, i)
                                 /\ replies'[c][i] = replies[c][i]
    BY <2>1, <2>2, <2>3, HeadAppended
  <2>5. InOrder(c)'
    BY <1>2, <2>4 DEF Order, InOrder
  <2>6. OneAsked(c)' = OneAsked(c)
    BY <1>1, <2>4 DEF OneAsked, NextAsked
  <2> QED BY <1>5, <2>5, <2>6
<1>8. c # client_fd \/ gone[client_fd] \/ text = <<>> => replies'[c] = replies[c]
  BY <1>1, DeliverEffect
<1> QED BY <1>6, <1>7, <1>8

\* A client sends its next request only when the last one was answered.
LEMMA OrderSend ==
    ASSUME Whereabouts, OrderInv, NEW c \in Conns, ClientSend(c)
    PROVE  Order(c)'
<1> USE DEF Whereabouts, Base
<1>1. Stream(c) /\ Order(c) /\ Answers(c) \in Nat /\ asked[c] \in Nat
  BY HeadsFinite DEF StreamInv, OrderInv, TypeOK
<1>2. /\ UNCHANGED <<worker_vars, backlog, status, proto, gone, stalled, replies>>
      /\ proto[c] = "http" \/ (proto[c] = "session" /\ tls_ssl = c)
      /\ recv'[c] = Append(recv[c], [req |-> (asked[c] \div 2) + 1, part |-> "whole"])
      /\ asked'[c] = asked[c] + 2
      /\ asked[c] = 2 * Answers(c)
  BY <1>1, SendsWhole DEF Stream, TypeOK, Waited
<1>3. (asked[c] \div 2) + 1 = Answers(c) + 1 /\ asked'[c] = 2 * (Answers(c) + 1)
  BY <1>1, <1>2
<1>4. recv'[c] = Append(recv[c], NextAsked(c))
  BY <1>2, <1>3 DEF NextAsked
<1>5. Whole(recv[c]) /\ recv[c] \in Seq(Segment)
  BY <1>1, <1>2 DEF Stream, TypeOK
<1>6. asked[c] # 2 * (Answers(c) + 1) /\ ~Awaits(c)
  BY <1>1, <1>2 DEF Awaits
<1>7. HeadsAt(c)' = HeadsAt(c) /\ Answers(c)' = Answers(c) /\ InOrder(c)'
  BY <1>1, <1>2, OrderKept DEF Order
<1>8. OneAsked(c) => OneAsked(c)'
  <2> SUFFICES ASSUME OneAsked(c) PROVE OneAsked(c)'
    OBVIOUS
  <2>1. recv[c] # <<Hello>>
    BY <1>5, HelloNotWhole
  <2>2. recv[c] = <<>>
    BY <1>6, <2>1 DEF OneAsked
  <2> DEFINE s == NextAsked(c)
  <2> HIDE DEF s
  <2>3. Append(<<>>, s) = <<s>>
    OBVIOUS
  <2>4. recv'[c] = <<NextAsked(c)>>
    BY <1>4, <2>2, <2>3 DEF s
  <2> QED BY <1>3, <1>7, <2>4 DEF OneAsked, NextAsked
<1> QED BY <1>1, <1>2, <1>6, <1>7, <1>8 DEF Order, Reads, worker_vars

LEMMA OrderClient ==
    ASSUME Whereabouts, OrderInv, NEW d \in Conns, Client(d), NEW c \in Conns
    PROVE  Order(c)'
<1> USE DEF Whereabouts, Base
<1>1. UNCHANGED worker_vars /\ (Reads' <=> Reads)
  BY ClientKeeps DEF worker_vars, Reads
<1>2. Order(c) /\ Stream(c) /\ c # NoConn
  BY NoConnAssumption DEF OrderInv, StreamInv
<1>3. CASE replies'[c] = replies[c] /\ recv'[c] = recv[c] /\ asked'[c] = asked[c]
           /\ (status'[c] = "queued" => status[c] = "queued")
  BY <1>1, <1>2, <1>3, OrderKept DEF Order, worker_vars
<1>4. c # d => /\ replies'[c] = replies[c] /\ recv'[c] = recv[c]
               /\ asked'[c] = asked[c] /\ status'[c] = status[c]
  BY DEF Client, Connect, ClientHello, ClientSend, ClientClose, ClientStall,
     ClientResume, TypeOK
<1>5. ASSUME NEW l \in Listeners, Connect(c, l) PROVE Order(c)'
  <2>1. status[c] = "away" /\ replies'[c] = <<>> /\ recv' = recv
    BY <1>5 DEF Connect, TypeOK
  <2>2. recv'[c] = <<>> /\ HeadsAt(c)' = {}
    BY <1>2, <2>1 DEF Stream, HeadsAt
  <2>3. OneAsked(c)' /\ InOrder(c)'
    BY <2>2 DEF OneAsked, InOrder
  <2>4. ~(c = client_fd /\ Holding)
    BY <2>1 DEF SafetyInv, ConnectionOwned
  <2>5. Reads \/ pc \in {"serve", "send_headers"} => Holding
    BY DEF Reads, Holding
  <2> QED BY <1>1, <2>3, <2>4, <2>5 DEF Order, worker_vars
<1>6. CASE ClientHello(c)
  <2>1. /\ proto[c] = "tls" /\ replies' = replies /\ status' = status
        /\ recv'[c] = Append(recv[c], Hello)
    BY <1>6 DEF ClientHello, TypeOK
  <2>2. recv[c] = <<>> /\ tls_ssl # c
    BY <1>2, <2>1 DEF Stream
  <2>3. Append(<<>>, Hello) = <<Hello>>
    OBVIOUS
  <2>4. recv'[c] = <<Hello>>
    BY <2>1, <2>2, <2>3
  <2>5. OneAsked(c)'
    BY <2>4 DEF OneAsked
  <2>6. ~(c = client_fd /\ pc \in HasData)
    BY <1>2, <2>1, <2>2 DEF Stream, SafetyInv, ConnectionOwned
  <2>7. InOrder(c)'
    BY <1>2, <2>1, OrderKept DEF Order
  <2> QED BY <1>1, <2>1, <2>5, <2>6, <2>7 DEF Order, worker_vars, HasData
<1>7. CASE ClientSend(c)
  BY <1>7, OrderSend
<1>8. CASE ClientClose(c)
  <2>1. /\ replies' = replies /\ status' = status /\ asked' = asked
        /\ recv'[c] = recv[c] \/ recv'[c] = <<>>
    BY <1>8 DEF ClientClose, TypeOK
  <2>2. CASE recv'[c] = recv[c]
    BY <1>3, <2>1, <2>2
  <2>3. CASE recv'[c] = <<>>
    <3>1. Answers(c)' = Answers(c) /\ InOrder(c)'
      BY <1>2, <2>1, OrderKept DEF Order
    <3>2. OneAsked(c)' /\ (Awaits(c) => Awaits(c)')
      BY <2>1, <2>3, <3>1 DEF OneAsked, Awaits
    <3> QED BY <1>1, <1>2, <2>1, <3>1, <3>2 DEF Order, worker_vars
  <2> QED BY <2>1, <2>2, <2>3
<1>9. CASE ClientStall(c) \/ ClientResume(c)
  BY <1>3, <1>9 DEF ClientStall, ClientResume
<1>10. CASE c = d
  BY <1>5, <1>6, <1>7, <1>8, <1>9, <1>10 DEF Client
<1> QED BY <1>3, <1>4, <1>10

LEMMA OrderStep ==
    ASSUME Whereabouts, OrderInv, [Next]_vars
    PROVE  OrderInv'
<1>1. CASE Moves
  BY <1>1, OrderMoves DEF OrderInv
<1>2. CASE Writes
  BY <1>2, OrderWrites DEF OrderInv
<1>3. CASE SendHeaders
  BY <1>3, OrderSendHeaders DEF OrderInv
<1>4. CASE SendBody
  BY <1>4, OrderSendBody DEF OrderInv
<1>5. ASSUME NEW d \in Conns, Client(d) PROVE OrderInv'
  BY <1>5, OrderClient DEF OrderInv
<1>6. CASE UNCHANGED vars
  <2> SUFFICES ASSUME NEW c \in Conns PROVE Order(c)'
    BY DEF OrderInv
  <2>1. Order(c) /\ UNCHANGED vars /\ (Reads' <=> Reads)
    BY <1>6 DEF OrderInv, vars, Reads
  <2>2. /\ Answers(c)' = Answers(c) /\ InOrder(c)'
        /\ OneAsked(c)' = OneAsked(c) /\ Awaits(c)' = Awaits(c)
    BY <2>1, OrderKept DEF Order, vars
  <2> QED BY <2>1, <2>2 DEF Order, vars
<1> QED BY <1>1, <1>2, <1>3, <1>4, <1>5, <1>6, Kinds

\* To a client that sends its requests whole and waits for each answer, the
\* k-th response answers the k-th request, however long the connection and
\* whatever the other clients do.
THEOREM AnswersAreInOrder ==
    ASSUME WholeRequests, ~Pipelining
    PROVE  Spec => []AnsweredInOrder
<1>1. Init => OrderInv
  BY OrderInit
<1>2. Base /\ StreamInv /\ OrderInv /\ [Next]_vars => OrderInv'
  BY OrderStep DEF Whereabouts
<1>3. OrderInv => AnsweredInOrder
  BY DEF OrderInv, Order, InOrder, AnsweredInOrder
<1>4. Spec => []Base
  BY BaseAlways
<1>5. Spec => []StreamInv
  BY StreamAlways
<1> QED BY <1>1, <1>2, <1>3, <1>4, <1>5, PTL DEF Spec
=============================================================================
