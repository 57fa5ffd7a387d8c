-------------------------- MODULE EntriesApp_proofs --------------------------
(***************************************************************************)
(* For every number of workers, every database and all requests: what      *)
(* reaches a client tells whether its row was inserted, a 201 names that   *)
(* row, and what an ascending listing has shown stays true.                *)
(*                                                                         *)
(* The first two are not inductive: they speak of answers that were sent   *)
(* or written, and what the answer will be is settled at the INSERT.       *)
(* Phase says what is known of a worker between the INSERT and the answer, *)
(* Answered of the answer until it is sent.  That other workers' INSERTs   *)
(* do not disturb it rests on rows being only appended and on              *)
(* last_insert_rowid() being kept per connection.  The third needs the     *)
(* types, that an unfinished answer lists nothing, and that no listing is  *)
(* newer than its table; its heart is SelectedGrows: a new row has the     *)
(* largest id, so it moves no other row to another page.                   *)
(***************************************************************************)
EXTENDS EntriesApp, TLAPS

\* The domains, and as much of the types as the proofs need.
Shape ==
    /\ tables \in [Tables -> Seq(Docs)]
    /\ pc \in [Workers -> {"idle", "step", "created", "done", "ended"}]
    /\ DOMAIN request = Workers
    /\ DOMAIN last_rowid = Workers
    /\ stored \in [Workers -> {0, 1}]
    /\ DOMAIN response = Workers
    /\ DOMAIN told = Workers

\* Before the answer nothing is written, and the client is told nothing;
\* before the INSERT nothing is stored; after it the connection knows the row.
Phase(w) ==
    /\ pc[w] # "done" => response[w] = NoResponse
    /\ pc[w] \in {"step", "created", "done"} => told[w] = <<>>
    /\ pc[w] = "step" => stored[w] = 0
    /\ pc[w] = "created" =>
          /\ stored[w] = 1
          /\ Holds(TableOf(request[w]), last_rowid[w], request[w].body)

\* What an answer that was given says, and what it is worth.
Answered(w) ==
    pc[w] = "done" =>
        /\ stored[w] = (IF response[w].status = <<"201">> THEN 1 ELSE 0)
        /\ response[w].id # 0 =>
               Holds(TableOf(request[w]), response[w].id, request[w].body)

\* What the client of a request was told.
Heard(w) == told[w] # <<>> => stored[w] = (IF told[w] = <<"201">> THEN 1 ELSE 0)

IInv == Shape /\ \A w \in Workers : Phase(w) /\ Answered(w) /\ Heard(w)

-------------------------------------------------------------------------------
\* The answers of the handlers that insert nothing name no row and are not a
\* 201.
Plain(resp) == resp.status # <<"201">> /\ resp.id = 0

LEMMA SayPlain ==
    /\ Plain(NoResponse)
    /\ \A code \in {"200", "400", "404", "405", "500"} :
          Plain(Say(code, NoResponse)) /\ Plain(OnlyHead(code, NoResponse))
<1>1. /\ NoResponse.status = <<>> /\ NoResponse.id = 0
  BY DEF NoResponse
<1>2. ASSUME NEW code \in {"200", "400", "404", "405", "500"}
      PROVE  /\ Say(code, NoResponse).status = <<code>> /\ Say(code, NoResponse).id = 0
             /\ OnlyHead(code, NoResponse).status = <<code>>
             /\ OnlyHead(code, NoResponse).id = 0
  BY DEF NoResponse, Say, OnlyHead
<1>3. ASSUME NEW code \in {"200", "400", "404", "405", "500"}
      PROVE  <<code>> # <<"201">>
  OBVIOUS
<1>4. <<>> # <<"201">>
  OBVIOUS
<1> QED
  BY <1>1, <1>2, <1>3, <1>4 DEF Plain

LEMMA StaticPlain == ASSUME NEW r PROVE Plain(StaticResponse(r))
  BY SayPlain DEF StaticResponse

LEMMA ListPlain ==
    ASSUME NEW rows, NEW q, NEW resp \in ListResponses(rows, q)
    PROVE  Plain(resp)
<1>1. ASSUME NEW some, NEW upto PROVE Plain(Listed(some, upto))
  BY DEF Plain, Listed, Say, NoResponse
<1>2. Plain(Say("400", NoResponse))
  BY SayPlain
<1> QED
  BY <1>1, <1>2 DEF ListResponses

\* A row stays where it is when one is appended to any table.
LEMMA HoldsOn ==
    ASSUME tables \in [Tables -> Seq(Docs)], NEW s \in Tables, NEW doc \in Docs,
           tables' = [tables EXCEPT ![s] = Append(@, doc)],
           NEW t \in Tables, NEW id, NEW d, Holds(t, id, d)
    PROVE  Holds(t, id, d)'
<1>1. CASE t = s
  <2>1. tables'[t] = Append(tables[t], doc) /\ tables[t] \in Seq(Docs)
    BY <1>1
  <2>2. id \in 1..Len(tables[t]) /\ tables[t][id] = d
    BY <2>1 DEF Holds
  <2>3. id \in DOMAIN Append(tables[t], doc) /\ Append(tables[t], doc)[id] = d
    BY <2>1, <2>2
  <2> QED
    BY <2>1, <2>3 DEF Holds
<1>2. CASE t # s
  BY <1>2 DEF Holds
<1> QED
  BY <1>1, <1>2

LEMMA TableIsTable == \A r : TableOf(r) \in Tables
  BY DEF TableOf, Tables

-------------------------------------------------------------------------------
LEMMA InvInit == Init => IInv
<1> SUFFICES ASSUME Init PROVE IInv
  OBVIOUS
<1>1. Shape
  BY DEF Init, Shape
<1>2. ASSUME NEW w \in Workers PROVE Phase(w) /\ Answered(w) /\ Heard(w)
  BY DEF Init, Phase, Answered, Heard
<1> QED
  BY <1>1, <1>2 DEF IInv

\* What a step of worker w leaves to the others, when it inserts nothing.
Others(w) ==
    /\ tables' = tables
    /\ \A v \in Workers \ {w} :
          /\ pc'[v] = pc[v] /\ request'[v] = request[v] /\ response'[v] = response[v]
          /\ stored'[v] = stored[v] /\ last_rowid'[v] = last_rowid[v]
          /\ told'[v] = told[v]

LEMMA OthersKeepInv ==
    ASSUME IInv, NEW w \in Workers, Others(w), Shape', Phase(w)', Answered(w)', Heard(w)'
    PROVE  IInv'
<1>1. ASSUME NEW v \in Workers, v # w PROVE Phase(v)' /\ Answered(v)' /\ Heard(v)'
  <2>1. /\ pc'[v] = pc[v] /\ request'[v] = request[v] /\ response'[v] = response[v]
        /\ stored'[v] = stored[v] /\ last_rowid'[v] = last_rowid[v] /\ tables' = tables
        /\ told'[v] = told[v]
    BY <1>1 DEF Others
  <2>2. Phase(v) /\ Answered(v) /\ Heard(v)
    BY DEF IInv
  <2> QED
    BY <2>1, <2>2 DEF Phase, Answered, Heard, Holds
<1> QED
  BY <1>1 DEF IInv

\* A worker that answers at once.
LEMMA HandledKeepsInv ==
    ASSUME IInv, NEW w \in Workers, NEW r, NEW resp, Handled(w, r, resp), Plain(resp)
    PROVE  IInv'
<1>1. Shape' /\ Others(w)
  BY DEF IInv, Shape, Handled, Takes, Others
<1>2. stored'[w] = 0 /\ response'[w] = resp /\ pc'[w] = "done" /\ told'[w] = <<>>
  BY DEF IInv, Shape, Handled, Takes
<1>3. Phase(w)' /\ Answered(w)' /\ Heard(w)'
  BY <1>2 DEF Phase, Answered, Heard, Plain
<1> QED
  BY <1>1, <1>3, OthersKeepInv

\* A process that ends: what its last client was told stays the truth.
LEMMA EndsKeepsInv ==
    ASSUME IInv, NEW w \in Workers, Ends(w),
           \/ UNCHANGED <<stored, told>>
           \/ /\ stored' = [stored EXCEPT ![w] = 0]
              /\ told' = [told EXCEPT ![w] = <<>>]
    PROVE  IInv'
<1>1. Shape' /\ Others(w)
  BY DEF IInv, Shape, Ends, Others
<1>2. pc'[w] = "ended" /\ response'[w] = NoResponse
  BY DEF IInv, Shape, Ends
<1>3. Heard(w)'
  BY DEF IInv, Shape, Heard
<1> QED
  BY <1>1, <1>2, <1>3, OthersKeepInv DEF Phase, Answered

LEMMA DispatchKeepsInv ==
    ASSUME IInv, NEW w \in Workers, NEW r \in Requests, Dispatch(w, r)
    PROVE  IInv'
<1>1. CASE Home(w, r)
  <2>1. Handled(w, r, Say("500", NoResponse))
    BY <1>1 DEF Home
  <2> QED
    BY <2>1, SayPlain, HandledKeepsInv
<1>2. CASE Static(w, r)
  <2>1. Handled(w, r, StaticResponse(r))
    BY <1>2 DEF Static
  <2> QED
    BY <2>1, StaticPlain, HandledKeepsInv
<1>3. CASE Keys(w, r)
  <2>1. \E code \in {"200", "400", "405"} : Handled(w, r, Say(code, NoResponse))
    BY <1>3 DEF Keys
  <2> QED
    BY <2>1, SayPlain, HandledKeepsInv
<1>4. CASE NotAllowed(w, r)
  <2>1. Handled(w, r, Say("405", NoResponse))
    BY <1>4 DEF NotAllowed
  <2> QED
    BY <2>1, SayPlain, HandledKeepsInv
<1>5. CASE List(w, r)
  <2>1. PICK resp \in ListResponses(tables[TableOf(r)], ParseQuery(r, query[w])) :
            Handled(w, r, resp)
    BY <1>5 DEF List
  <2>2. Plain(resp)
    BY <2>1, ListPlain
  <2> QED
    BY <2>1, <2>2, HandledKeepsInv
<1>6. CASE AddNothing(w, r)
  <2>1. Handled(w, r, NoResponse)
    BY <1>6 DEF AddNothing
  <2> QED
    BY <2>1, SayPlain, HandledKeepsInv
<1>7. CASE AddEntries(w, r)
  BY <1>7, EndsKeepsInv DEF AddEntries
<1>8. CASE AddEntry(w, r)
  <2>1. Shape' /\ Others(w)
    BY <1>8 DEF AddEntry, Takes, IInv, Shape, Others
  <2>2. /\ pc'[w] = "step" /\ stored'[w] = 0 /\ response'[w] = NoResponse
        /\ told'[w] = <<>>
    BY <1>8 DEF AddEntry, Takes, IInv, Shape, Phase
  <2> QED
    BY <2>1, <2>2, OthersKeepInv DEF Phase, Answered, Heard
<1> QED
  BY <1>1, <1>2, <1>3, <1>4, <1>5, <1>6, <1>7, <1>8 DEF Dispatch

\* The one step that other workers can see.
LEMMA InsertKeepsInv ==
    ASSUME IInv, NEW w \in Workers, Insert(w)
    PROVE  IInv'
<1> DEFINE t == TableOf(request[w])
           body == request[w].body
<1>1. /\ t \in Tables /\ body \in Docs
      /\ tables' = [tables EXCEPT ![t] = Append(@, body)]
  BY TableIsTable, DataAssumption DEF Insert
<1>2. tables \in [Tables -> Seq(Docs)]
  BY DEF IInv, Shape
<1>3. Shape'
  <2>1. tables' \in [Tables -> Seq(Docs)]
    BY <1>1, <1>2
  <2>2. stored[w] = 0
    BY DEF IInv, Phase, Insert
  <2> QED
    BY <2>1, <2>2 DEF IInv, Shape, Insert
<1>4. Phase(w)' /\ Answered(w)' /\ Heard(w)'
  <2>1. /\ pc'[w] = "created" /\ stored'[w] = 1 /\ request' = request
        /\ last_rowid'[w] = Len(tables[t]) + 1 /\ response'[w] = NoResponse
        /\ told'[w] = <<>>
    BY DEF Insert, IInv, Shape, Phase
  <2>2. tables'[t] = Append(tables[t], body) /\ tables[t] \in Seq(Docs)
    BY <1>1, <1>2
  <2>3. /\ Len(tables[t]) + 1 \in DOMAIN tables'[t]
        /\ tables'[t][Len(tables[t]) + 1] = body
    BY <1>1, <2>2
  <2>4. request'[w] = request[w] /\ TableOf(request'[w]) = t
    BY <2>1 DEF TableOf
  <2>5. /\ last_rowid'[w] \in DOMAIN tables'[TableOf(request'[w])]
        /\ tables'[TableOf(request'[w])][last_rowid'[w]] = request'[w].body
    BY <2>1, <2>3, <2>4
  <2>6. Holds(TableOf(request[w]), last_rowid[w], request[w].body)'
    BY <2>5 DEF Holds
  <2>7. Phase(w)'
    BY <2>1, <2>6 DEF Phase
  <2>8. Answered(w)' /\ Heard(w)'
    BY <2>1 DEF Answered, Heard
  <2> QED
    BY <2>7, <2>8
<1>5. ASSUME NEW v \in Workers, v # w PROVE Phase(v)' /\ Answered(v)' /\ Heard(v)'
  <2>1. /\ pc'[v] = pc[v] /\ request' = request /\ response' = response
        /\ stored'[v] = stored[v] /\ last_rowid'[v] = last_rowid[v] /\ told' = told
    BY <1>5 DEF Insert, IInv, Shape
  <2>2. Phase(v) /\ Answered(v) /\ Heard(v)
    BY DEF IInv
  <2>3. TableOf(request[v]) \in Tables
    BY TableIsTable
  <2>4. ASSUME NEW id, Holds(TableOf(request[v]), id, request[v].body)
        PROVE  Holds(TableOf(request[v]), id, request[v].body)'
    BY <1>1, <1>2, <2>1, <2>3, <2>4, HoldsOn DEF Holds
  <2> QED
    BY <2>1, <2>2, <2>4 DEF Phase, Answered, Heard
<1> QED
  BY <1>3, <1>4, <1>5 DEF IInv

LEMMA AnswerKeepsInv ==
    ASSUME IInv, NEW w \in Workers,
           InsertFails(w) \/ InsertOverruns(w) \/ Created(w) \/ Flush(w) \/ Killed(w)
    PROVE  IInv'
<1>1. CASE InsertFails(w)
  <2>1. Shape' /\ Others(w)
    BY <1>1 DEF InsertFails, IInv, Shape, Others
  <2>2. /\ pc'[w] = "done" /\ stored'[w] = 0 /\ told'[w] = <<>>
        /\ response'[w] = Say("400", NoResponse)
    BY <1>1 DEF InsertFails, IInv, Shape, Phase
  <2> QED
    BY <2>1, <2>2, SayPlain, OthersKeepInv DEF Phase, Answered, Heard, Plain
<1>2. CASE InsertOverruns(w) \/ Killed(w)
  BY <1>2, EndsKeepsInv DEF InsertOverruns, Killed
<1>3. CASE Created(w)
  <2>1. Shape' /\ Others(w)
    BY <1>3 DEF Created, IInv, Shape, Others
  <2>2. /\ pc[w] = "created" /\ response[w] = NoResponse /\ stored[w] = 1
        /\ told[w] = <<>>
        /\ Holds(TableOf(request[w]), last_rowid[w], request[w].body)
    BY <1>3 DEF Created, IInv, Phase
  <2>3. /\ pc'[w] = "done" /\ stored' = stored /\ tables' = tables
        /\ request' = request /\ told' = told
        /\ response'[w] = [Say("201", NoResponse) EXCEPT !.id = last_rowid[w]]
    BY <1>3, <2>2 DEF Created, IInv, Shape, LastInsertRowid
  <2>4. response'[w].status = <<"201">> /\ response'[w].id = last_rowid[w]
    BY <2>3 DEF Say, NoResponse
  <2>5. Phase(w)' /\ Answered(w)' /\ Heard(w)'
    BY <2>2, <2>3, <2>4 DEF Phase, Answered, Heard, Holds
  <2> QED
    BY <2>1, <2>5, OthersKeepInv
<1>4. CASE Flush(w)
  <2>1. Shape' /\ Others(w)
    BY <1>4 DEF Flush, IInv, Shape, Others
  <2>2. /\ pc'[w] = "idle" /\ response'[w] = NoResponse /\ stored' = stored
        /\ told'[w] \in {response[w].status, <<>>}
    BY <1>4 DEF Flush, IInv, Shape
  <2>3. Heard(w)'
    BY <1>4, <2>2 DEF Flush, IInv, Answered, Heard
  <2> QED
    BY <2>1, <2>2, <2>3, OthersKeepInv DEF Phase, Answered
<1> QED
  BY <1>1, <1>2, <1>3, <1>4

LEMMA InvStep == IInv /\ [Next]_vars => IInv'
<1> SUFFICES ASSUME IInv, [Next]_vars PROVE IInv'
  OBVIOUS
<1>1. CASE UNCHANGED vars
  BY <1>1 DEF IInv, Shape, Phase, Answered, Heard, Holds, vars
<1>2. CASE Next
  BY <1>2, DispatchKeepsInv, InsertKeepsInv, AnswerKeepsInv DEF Next
<1> QED
  BY <1>1, <1>2

LEMMA InvAlways == Spec => []IInv
  BY InvInit, InvStep, PTL DEF Spec

\* A 201 names the row with the posted document, whatever the other workers
\* insert meanwhile: wrd_add_entry and wrd_last_insert_rowid (app/db.c).
THEOREM CreatedCorrect == Spec => []CreatedNamesEntry
<1>1. IInv => CreatedNamesEntry
  BY DEF IInv, Answered, CreatedNamesEntry
<1> QED
  BY <1>1, InvAlways, PTL

\* A client that is told "201" has one new row, one that is told anything
\* else has none (app/db.c, fs.c), although a worker may be killed after the
\* INSERT and an answer may not arrive: then the client is told nothing.
THEOREM AnswerCorrect == Spec => []AnswerTellsOutcome
<1>1. IInv => AnswerTellsOutcome
  BY DEF IInv, Heard, AnswerTellsOutcome
<1> QED
  BY <1>1, InvAlways, PTL

-------------------------------------------------------------------------------
(* Types, and what a listing shows.                                        *)

\* A query is a record: its fields and their sets say everything.
LEMMA QueryFields ==
    ASSUME NEW q
    PROVE  q \in Query <=>
             /\ q = [f \in Fields |-> q[f]]
             /\ q.id \in Nat /\ q.multi \in Nat /\ q.limit \in Int /\ q.offset \in Nat
             /\ q.search \in SUBSET Docs /\ q.order \in {"ASC", "DESC", "created", "invalid"}
BY DEF Query, Fields

\* Parsing leaves exactly what the request's query string says: nothing of the
\* query before it is left.
LEMMA ParsedIsAsked ==
    ASSUME NEW r \in Request, NEW old
    PROVE  ParseQuery(r, old) = r.query
<1>1. r.query \in Query /\ \A f \in Fields \ r.given : r.query[f] = DefaultQuery[f]
  BY DEF Request
<1>2. r.query = [f \in Fields |-> r.query[f]]
  BY <1>1, QueryFields
<1> QED BY <1>1, <1>2 DEF ParseQuery

\* A row with a larger id does not change the place of another.
LEMMA RankStays ==
    ASSUME NEW S, NEW n \in Nat, S \subseteq 1..n, NEW i \in S
    PROVE  Rank(S \cup {n + 1}, i, "ASC") = Rank(S, i, "ASC")
<1>1. {j \in S \cup {n + 1} : j <= i} = {j \in S : j <= i}
  OBVIOUS
<1> QED BY <1>1 DEF Rank

\* What an ascending listing selects, it still selects when a row is appended,
\* and of the others only that row can be new.
LEMMA SelectedGrows ==
    ASSUME NEW rows \in Seq(Docs), NEW doc \in Docs, NEW q \in Query, q.order = "ASC"
    PROVE  /\ Selected(rows, q) \subseteq Selected(Append(rows, doc), q)
           /\ \A row \in Selected(Append(rows, doc), q) \ Selected(rows, q) :
                 row.id = Len(rows) + 1
<1> DEFINE n == Len(rows)
           more == Append(rows, doc)
           S == Matching(rows, q)
           T == Matching(more, q)
           A == IF q.id # 0 THEN {q.id} \cap DOMAIN rows ELSE Page(S, q)
           B == IF q.id # 0 THEN {q.id} \cap DOMAIN more ELSE Page(T, q)
<1>1. /\ n \in Nat /\ DOMAIN rows = 1..n /\ DOMAIN more = 1..(n + 1)
      /\ \A i \in 1..n : more[i] = rows[i]
  OBVIOUS
<1>2. S \subseteq 1..n /\ (T = S \/ T = S \cup {n + 1})
  BY <1>1 DEF Matching
<1>3. ASSUME NEW i \in S PROVE i \in T /\ Rank(T, i, "ASC") = Rank(S, i, "ASC")
  <2>1. i \in T
    BY <1>2
  <2>2. CASE T = S
    BY <2>1, <2>2
  <2>3. CASE T = S \cup {n + 1}
    <3> HIDE DEF n, S, T
    <3> QED BY <1>1, <1>2, <2>3, RankStays
  <2> QED BY <1>2, <2>1, <2>2, <2>3
<1>4. Page(S, q) \subseteq Page(T, q) /\ Page(T, q) \cap S \subseteq Page(S, q)
  BY <1>3 DEF Page
<1>5. Page(S, q) \subseteq S /\ Page(T, q) \subseteq T
  BY DEF Page
<1>6. A \subseteq 1..n /\ A \subseteq B /\ B \ A \subseteq {n + 1}
  <2>1. CASE q.id # 0
    BY <1>1, <2>1
  <2>2. CASE q.id = 0
    <3> HIDE DEF S, T
    <3> QED BY <1>2, <1>4, <1>5, <2>2
  <2> QED BY <2>1, <2>2
<1>7. Selected(rows, q) = RowsOf(rows, A) /\ Selected(more, q) = RowsOf(more, B)
  BY DEF Selected
<1>8. RowsOf(rows, A) = RowsOf(more, A)
  <2> HIDE DEF A, more
  <2> QED BY <1>1, <1>6 DEF RowsOf
<1>9. /\ RowsOf(more, A) \subseteq RowsOf(more, B)
      /\ \A row \in RowsOf(more, B) \ RowsOf(more, A) : row.id = n + 1
  <2> HIDE DEF A, B, n, more
  <2>1. RowsOf(more, A) \subseteq RowsOf(more, B)
    BY <1>6 DEF RowsOf
  <2>2. ASSUME NEW row \in RowsOf(more, B) \ RowsOf(more, A)
        PROVE  row.id = n + 1
    <3>1. PICK i \in B : row = [id |-> i, data |-> more[i]]
      BY DEF RowsOf
    <3>2. i \notin A
      BY <3>1 DEF RowsOf
    <3> QED BY <1>6, <3>1, <3>2
  <2> QED BY <2>1, <2>2
<1> QED BY <1>7, <1>8, <1>9

\* The rows of a query are rows of the table, with the ids of their places.
LEMMA RowsOfTable ==
    ASSUME NEW rows \in Seq(Docs), NEW ids, ids \subseteq DOMAIN rows
    PROVE  /\ RowsOf(rows, ids) \subseteq Row
           /\ \A row \in RowsOf(rows, ids) : row.id \in 1..Len(rows)
<1>1. \A i \in ids : i \in 1..Len(rows) /\ i \in Nat /\ rows[i] \in Docs
  OBVIOUS
<1> QED BY <1>1 DEF RowsOf, Row

LEMMA SelectedInTable ==
    ASSUME NEW rows \in Seq(Docs), NEW q \in Query
    PROVE  /\ Selected(rows, q) \subseteq Row
           /\ \A row \in Selected(rows, q) : row.id \in 1..Len(rows)
<1>1. Page(Matching(rows, q), q) \subseteq DOMAIN rows
  BY DEF Page, Matching
<1> DEFINE ids == IF q.id # 0 THEN {q.id} \cap DOMAIN rows ELSE Page(Matching(rows, q), q)
<1>2. ids \subseteq DOMAIN rows /\ Selected(rows, q) = RowsOf(rows, ids)
  BY <1>1 DEF Selected
<1> HIDE DEF ids
<1> QED BY <1>2, RowsOfTable

\* An answer that lists nothing, and did not come to the end of a listing,
\* agrees with every query.
LEMMA NothingAgrees ==
    ASSUME NEW resp, resp.rows = {}, resp.upto = 0,
           NEW rows \in Seq(Docs), NEW q \in Query
    PROVE  Agrees(resp, rows, q)
<1>1. \A row \in Selected(rows, q) : row.id > 0
  BY SelectedInTable
<1> QED BY <1>1 DEF Agrees

\* A listing that agrees with its table still does when a row is appended.
LEMMA AgreesStays ==
    ASSUME NEW rows \in Seq(Docs), NEW doc \in Docs, NEW q \in Query, q.order = "ASC",
           NEW resp \in Response, resp.upto <= Len(rows), Agrees(resp, rows, q)
    PROVE  Agrees(resp, Append(rows, doc), q)
<1> DEFINE all == Selected(rows, q)
           grown == Selected(Append(rows, doc), q)
<1>1. /\ all \subseteq grown
      /\ \A row \in grown \ all : row.id = Len(rows) + 1
  BY SelectedGrows
<1>2. \A row \in all : row.id \in 1..Len(rows)
  BY SelectedInTable
<1>3. Len(rows) \in Nat /\ resp.upto \in Nat
  BY DEF Response
<1>4. /\ resp.rows \subseteq all
      /\ resp.status = <<"200">> =>
            \A row \in all \ resp.rows :
               row.id > resp.upto /\ \A shown \in resp.rows : row.id > shown.id
  BY DEF Agrees
<1> HIDE DEF all, grown
<1>5. resp.rows \subseteq grown
  BY <1>1, <1>4
<1>6. ASSUME resp.status = <<"200">>, NEW row \in grown \ resp.rows
      PROVE  row.id > resp.upto /\ \A shown \in resp.rows : row.id > shown.id
  <2>1. CASE row \in all
    BY <1>4, <1>6, <2>1
  <2>2. CASE row \notin all
    <3>1. row.id = Len(rows) + 1
      BY <1>1, <2>2
    <3>2. \A shown \in resp.rows : shown.id \in 1..Len(rows)
      BY <1>2, <1>4
    <3> QED BY <1>3, <3>1, <3>2
  <2> QED BY <2>1, <2>2
<1> QED BY <1>5, <1>6 DEF Agrees, grown

LEMMA SayType ==
    /\ NoResponse \in Response
    /\ \A code \in Codes, resp \in Response :
          Say(code, resp) \in Response /\ OnlyHead(code, resp) \in Response
<1>1. NoResponse \in Response
  BY DEF NoResponse, Response
<1>2. ASSUME NEW code \in Codes, NEW resp \in Response
      PROVE  Say(code, resp) \in Response /\ OnlyHead(code, resp) \in Response
  <2>1. /\ resp.status \in Seq(Codes) /\ resp.body \in BOOLEAN
        /\ resp.id \in Nat /\ resp.rows \in SUBSET Row /\ resp.upto \in Nat
    BY DEF Response, Codes
  <2>2. Append(resp.status, code) \in Seq(Codes)
    BY <2>1
  <2> QED BY <2>1, <2>2 DEF Say, OnlyHead, Response, Codes
<1> QED BY <1>1, <1>2

LEMMA StaticType == ASSUME NEW r PROVE StaticResponse(r) \in Response
BY SayType DEF StaticResponse, Codes

LEMMA FreeQueryType == ASSUME NEW q \in Query PROVE FreeQuery(q) \in Query
BY DEF FreeQuery, Query

\* What wrd_get_entries answers.
LEMMA ListAgrees ==
    ASSUME NEW rows \in Seq(Docs), NEW q \in Query, NEW resp \in ListResponses(rows, q)
    PROVE  /\ resp \in Response /\ resp.upto <= Len(rows)
           /\ q.order = "ASC" => Agrees(resp, rows, q)
<1>1. ASSUME NEW all \in Selections(rows, q)
      PROVE  all \subseteq Row /\ (q.order = "ASC" => all = Selected(rows, q))
  <2>1. CASE q.order = "created" /\ q.id = 0
    <3>1. PICK ids \in SUBSET Matching(rows, q) : all = RowsOf(rows, ids)
      BY <2>1 DEF Selections
    <3>2. ids \subseteq DOMAIN rows
      BY DEF Matching
    <3> QED BY <2>1, <3>1, <3>2, RowsOfTable
  <2>2. CASE ~(q.order = "created" /\ q.id = 0)
    BY <2>2, SelectedInTable DEF Selections
  <2> QED BY <2>1, <2>2
<1>2. ASSUME NEW some \in SUBSET Row, NEW upto \in Nat
      PROVE  /\ Listed(some, upto) \in Response
             /\ Listed(some, upto).rows = some /\ Listed(some, upto).upto = upto
  <2>1. Say("200", NoResponse) \in Response
    BY SayType DEF Codes
  <2> QED BY <2>1 DEF Listed, Response
<1>3. Len(rows) \in Nat /\ \A row \in Selected(rows, q) : row.id \in Nat /\ row.id > 0
  BY SelectedInTable
<1>4. CASE resp = Say("400", NoResponse)
  <2>1. resp \in Response /\ resp.rows = {} /\ resp.upto = 0
    BY <1>4, SayType DEF Codes, Say, NoResponse
  <2> QED BY <1>3, <2>1, NothingAgrees
<1>5. CASE \E all \in Selections(rows, q) : resp = Listed(all, Len(rows))
  <2>1. PICK all \in Selections(rows, q) : resp = Listed(all, Len(rows))
    BY <1>5
  <2>2. /\ resp \in Response /\ resp.rows = all /\ resp.upto = Len(rows)
    BY <1>1, <1>2, <1>3, <2>1
  <2> QED BY <1>1, <1>3, <2>2 DEF Agrees
<1>6. CASE \E all \in Selections(rows, q) :
             \E some \in Beginnings(all, q.order) : resp = Listed(some, 0)
  <2>1. PICK all \in Selections(rows, q) :
            \E some \in Beginnings(all, q.order) : resp = Listed(some, 0)
    BY <1>6
  <2> PICK some \in Beginnings(all, q.order) : resp = Listed(some, 0)
    BY <2>1
  <2>2. /\ some \subseteq all
        /\ q.order = "ASC" => \A row \in all \ some, shown \in some : row.id > shown.id
    BY DEF Beginnings
  <2>3. resp \in Response /\ resp.rows = some /\ resp.upto = 0
    BY <1>1, <1>2, <2>1, <2>2
  <2> QED BY <1>1, <1>3, <2>2, <2>3 DEF Agrees
<1> QED BY <1>4, <1>5, <1>6 DEF ListResponses

\* ListingStaysTrue is inductive with the types, with IInv (before the answer
\* nothing is listed), and with no listing being newer than its table.
Dated == \A w \in Workers : response[w].upto <= Len(tables[TableOf(request[w])])

TypedInv == TypeOK /\ IInv /\ ListingStaysTrue /\ Dated

LEMMA NoRequestType == NoRequest \in Request
<1>1. DefaultQuery \in Query
  BY DEF DefaultQuery, Query
<1> QED BY <1>1 DEF NoRequest, Request, Paths, Methods

LEMMA TypedInit == Init => TypedInv
<1> SUFFICES ASSUME Init PROVE TypedInv
  OBVIOUS
<1>1. DefaultQuery \in Query
  BY DEF DefaultQuery, Query
<1>2. TypeOK
  BY <1>1, NoRequestType, SayType DEF Init, TypeOK
<1>3. /\ TableOf(NoRequest) \in Tables /\ NoRequest.query \in Query
      /\ <<>> \in Seq(Docs) /\ NoResponse.rows = {} /\ NoResponse.upto = 0
  BY NoRequestType, TableIsTable DEF Request, NoResponse
<1>4. ASSUME NEW w \in Workers
      PROVE  /\ Agrees(response[w], tables[TableOf(request[w])], request[w].query)
             /\ response[w].upto <= Len(tables[TableOf(request[w])])
  <2>1. /\ response[w] = NoResponse /\ request[w] = NoRequest
        /\ tables[TableOf(NoRequest)] = <<>>
    BY <1>3 DEF Init
  <2>2. Agrees(NoResponse, <<>>, NoRequest.query)
    BY <1>3, NothingAgrees
  <2>3. NoResponse.upto <= Len(<<>>)
    BY <1>3
  <2> QED BY <2>1, <2>2, <2>3
<1>5. ListingStaysTrue /\ Dated
  BY <1>4 DEF ListingStaysTrue, Dated
<1> QED BY <1>2, <1>5, InvInit DEF TypedInv

\* The tables are as they were, and every worker has its request and response
\* as before, or a response that agrees.
LEMMA SameTables ==
    ASSUME TypedInv, UNCHANGED tables,
           \A w \in Workers :
              \/ request'[w] = request[w] /\ response'[w] = response[w]
              \/ /\ response'[w].upto <= Len(tables[TableOf(request'[w])])
                 /\ request'[w].query.order = "ASC" =>
                       Agrees(response'[w], tables[TableOf(request'[w])], request'[w].query)
    PROVE  ListingStaysTrue' /\ Dated'
<1>1. ASSUME NEW w \in Workers
      PROVE  /\ response'[w].upto <= Len(tables[TableOf(request'[w])])
             /\ request'[w].query.order = "ASC" =>
                   Agrees(response'[w], tables[TableOf(request'[w])], request'[w].query)
  <2>1. CASE request'[w] = request[w] /\ response'[w] = response[w]
    BY <2>1 DEF TypedInv, ListingStaysTrue, Dated
  <2> QED BY <2>1
<1>2. Dated'
  BY <1>1 DEF Dated, TableOf
<1>3. ListingStaysTrue'
  BY <1>1 DEF ListingStaysTrue, TableOf, Agrees
<1> QED BY <1>2, <1>3

\* The same, for responses that list nothing.
LEMMA NothingListed ==
    ASSUME TypedInv, UNCHANGED tables, request' \in [Workers -> Request],
           \A w \in Workers :
              \/ request'[w] = request[w] /\ response'[w] = response[w]
              \/ response'[w].rows = {} /\ response'[w].upto = 0
    PROVE  ListingStaysTrue' /\ Dated'
<1>1. ASSUME NEW w \in Workers, response'[w].rows = {}, response'[w].upto = 0
      PROVE  /\ response'[w].upto <= Len(tables[TableOf(request'[w])])
             /\ Agrees(response'[w], tables[TableOf(request'[w])], request'[w].query)
  <2>1. tables[TableOf(request'[w])] \in Seq(Docs)
    BY TableIsTable DEF TypedInv, TypeOK
  <2>2. request'[w].query \in Query
    BY DEF Request
  <2>3. Len(tables[TableOf(request'[w])]) \in Nat
    BY <2>1
  <2> QED BY <1>1, <2>1, <2>2, <2>3, NothingAgrees
<1> QED BY <1>1, SameTables

\* An answer at once, which lists nothing or agrees with the request's query.
LEMMA HandledTyped ==
    ASSUME TypedInv, NEW w \in Workers, NEW r \in Requests, NEW resp \in Response,
           Handled(w, r, resp), query' \in [Workers -> Query],
           \/ resp.rows = {} /\ resp.upto = 0
           \/ /\ resp.upto <= Len(tables[TableOf(r)])
              /\ r.query.order = "ASC" => Agrees(resp, tables[TableOf(r)], r.query)
    PROVE  TypeOK' /\ ListingStaysTrue' /\ Dated'
<1>1. TypeOK'
  <2>1. r \in Request /\ <<>> \in Seq(Codes)
    BY EntriesBounds
  <2>2. /\ pc' \in [Workers -> {"idle", "step", "created", "done", "ended"}]
        /\ request' \in [Workers -> Request] /\ stored' \in [Workers -> {0, 1}]
        /\ told' \in [Workers -> Seq(Codes)]
    BY <2>1 DEF TypedInv, TypeOK, Handled, Takes
  <2>3. /\ response' \in [Workers -> Response]
        /\ UNCHANGED <<tables, last_rowid>>
    BY DEF TypedInv, TypeOK, Handled, Takes
  <2> QED BY <2>2, <2>3 DEF TypedInv, TypeOK
<1>2. /\ request'[w] = r /\ response'[w] = resp /\ tables' = tables
      /\ \A v \in Workers : v # w => request'[v] = request[v] /\ response'[v] = response[v]
  BY DEF TypedInv, TypeOK, Handled, Takes
<1>3. request' \in [Workers -> Request]
  BY <1>1 DEF TypeOK
<1>4. CASE resp.rows = {} /\ resp.upto = 0
  BY <1>1, <1>2, <1>3, <1>4, NothingListed
<1>5. CASE /\ resp.upto <= Len(tables[TableOf(r)])
           /\ r.query.order = "ASC" => Agrees(resp, tables[TableOf(r)], r.query)
  BY <1>1, <1>2, <1>5, SameTables
<1> QED BY <1>4, <1>5

\* A process that ends has no listing.
LEMMA EndsTyped ==
    ASSUME TypedInv, NEW w \in Workers, Ends(w),
           \/ UNCHANGED <<stored, told>>
           \/ /\ stored' = [stored EXCEPT ![w] = 0]
              /\ told' = [told EXCEPT ![w] = <<>>]
    PROVE  TypeOK' /\ ListingStaysTrue' /\ Dated'
<1>1. DefaultQuery \in Query /\ NoRequest \in Request /\ NoResponse \in Response
  BY NoRequestType, SayType DEF DefaultQuery, Query
<1>2. <<>> \in Seq(Codes)
  OBVIOUS
<1>3. TypeOK'
  BY <1>1, <1>2 DEF Ends, TypedInv, TypeOK
<1>4. /\ \A v \in Workers : \/ request'[v] = request[v] /\ response'[v] = response[v]
                            \/ response'[v].rows = {} /\ response'[v].upto = 0
      /\ tables' = tables /\ request' \in [Workers -> Request]
  BY <1>3 DEF Ends, TypedInv, TypeOK, NoResponse
<1> QED BY <1>3, <1>4, NothingListed

LEMMA DispatchTyped ==
    ASSUME TypedInv, NEW w \in Workers, NEW r \in Requests, Dispatch(w, r)
    PROVE  TypeOK' /\ ListingStaysTrue' /\ Dated'
<1>1. r \in Request /\ r.query \in Query
  BY EntriesBounds DEF Request
<1>2. /\ query \in [Workers -> Query]
      /\ ParseQuery(r, query[w]) = r.query
      /\ FreeQuery(r.query) \in Query
  BY <1>1, ParsedIsAsked, FreeQueryType DEF TypedInv, TypeOK
<1>3. /\ \A code \in Codes : /\ Say(code, NoResponse) \in Response
                            /\ Say(code, NoResponse).rows = {}
                            /\ Say(code, NoResponse).upto = 0
      /\ NoResponse \in Response /\ NoResponse.rows = {} /\ NoResponse.upto = 0
      /\ StaticResponse(r) \in Response
      /\ StaticResponse(r).rows = {} /\ StaticResponse(r).upto = 0
  <2>1. \A code : /\ Say(code, NoResponse).rows = {} /\ Say(code, NoResponse).upto = 0
                  /\ OnlyHead(code, NoResponse).rows = {}
                  /\ OnlyHead(code, NoResponse).upto = 0
    BY DEF Say, OnlyHead, NoResponse
  <2> QED BY <2>1, SayType, StaticType DEF StaticResponse, NoResponse
<1>4. CASE Home(w, r)
  <2>1. Handled(w, r, Say("500", NoResponse)) /\ query' = query
    BY <1>4 DEF Home
  <2> QED BY <1>2, <1>3, <2>1, HandledTyped DEF Codes
<1>5. CASE Static(w, r)
  <2>1. Handled(w, r, StaticResponse(r)) /\ query' = query
    BY <1>5 DEF Static
  <2> QED BY <1>2, <1>3, <2>1, HandledTyped
<1>6. CASE Keys(w, r)
  <2>1. /\ \E code \in {"200", "400", "405"} : Handled(w, r, Say(code, NoResponse))
        /\ query' = query
    BY <1>6 DEF Keys
  <2> QED BY <1>2, <1>3, <2>1, HandledTyped DEF Codes
<1>7. CASE NotAllowed(w, r)
  <2>1. /\ Handled(w, r, Say("405", NoResponse))
        /\ query' = [query EXCEPT ![w] = FreeQuery(r.query)]
    BY <1>2, <1>7 DEF NotAllowed
  <2>2. query' \in [Workers -> Query]
    BY <1>2, <2>1
  <2> QED BY <1>3, <2>1, <2>2, HandledTyped DEF Codes
<1>8. CASE List(w, r)
  <2>1. PICK resp \in ListResponses(tables[TableOf(r)], r.query) : Handled(w, r, resp)
    BY <1>2, <1>8 DEF List
  <2>2. query' = [query EXCEPT ![w] = FreeQuery(r.query)]
    BY <1>2, <1>8 DEF List
  <2>3. query' \in [Workers -> Query]
    BY <1>2, <2>2
  <2>4. tables[TableOf(r)] \in Seq(Docs)
    BY TableIsTable DEF TypedInv, TypeOK
  <2>5. /\ resp \in Response /\ resp.upto <= Len(tables[TableOf(r)])
        /\ r.query.order = "ASC" => Agrees(resp, tables[TableOf(r)], r.query)
    BY <1>1, <2>1, <2>4, ListAgrees
  <2> QED BY <2>1, <2>3, <2>5, HandledTyped
<1>9. CASE AddNothing(w, r)
  <2>1. /\ Handled(w, r, NoResponse)
        /\ query' = [query EXCEPT ![w] = FreeQuery(r.query)]
    BY <1>2, <1>9 DEF AddNothing
  <2>2. query' \in [Workers -> Query]
    BY <1>2, <2>1
  <2> QED BY <1>3, <2>1, <2>2, HandledTyped
<1>10. CASE AddEntries(w, r)
  BY <1>10, EndsTyped DEF AddEntries
<1>11. CASE AddEntry(w, r)
  <2>1. /\ Takes(w, r, "step") /\ query' = [query EXCEPT ![w] = r.query]
        /\ response' = response
    BY <1>2, <1>11 DEF AddEntry
  <2>2. TypeOK'
    BY <1>1, <1>2, <2>1 DEF Takes, TypedInv, TypeOK
  <2>3. response[w] = NoResponse
    BY <2>1 DEF Takes, TypedInv, IInv, Phase
  <2>4. /\ \A v \in Workers : v # w => request'[v] = request[v]
        /\ tables' = tables /\ request' \in [Workers -> Request]
    BY <2>1, <2>2 DEF Takes, TypedInv, TypeOK
  <2> QED BY <1>3, <2>1, <2>2, <2>3, <2>4, NothingListed
<1> QED
  BY <1>4, <1>5, <1>6, <1>7, <1>8, <1>9, <1>10, <1>11 DEF Dispatch

LEMMA InsertTyped ==
    ASSUME TypedInv, NEW w \in Workers, Insert(w)
    PROVE  TypeOK' /\ ListingStaysTrue' /\ Dated'
<1> DEFINE t == TableOf(request[w])
           body == request[w].body
<1>1. /\ t \in Tables /\ body \in Docs /\ stored[w] = 0
      /\ tables' = [tables EXCEPT ![t] = Append(@, body)]
      /\ request' = request /\ response' = response
  BY TableIsTable, DataAssumption DEF Insert, TypedInv, IInv, Phase
<1>2. \A s \in Tables : tables[s] \in Seq(Docs)
  BY DEF TypedInv, TypeOK
<1>3. TypeOK'
  <2>1. tables' \in [Tables -> Seq(Docs)]
    BY <1>1, <1>2 DEF TypedInv, TypeOK
  <2>2. Len(tables[t]) + 1 \in Nat
    BY <1>1, <1>2
  <2> QED BY <1>1, <2>1, <2>2 DEF TypedInv, TypeOK, Insert
<1>4. ASSUME NEW v \in Workers
      PROVE  /\ response[v].upto <= Len(tables'[TableOf(request[v])])
             /\ request[v].query.order = "ASC" =>
                   Agrees(response[v], tables'[TableOf(request[v])], request[v].query)
  <2> DEFINE s == TableOf(request[v])
  <2>1. /\ s \in Tables /\ tables[s] \in Seq(Docs)
        /\ response[v] \in Response /\ response[v].upto \in Nat
        /\ request[v].query \in Query
    BY <1>2, TableIsTable DEF TypedInv, TypeOK, Request, Response
  <2>2. /\ response[v].upto <= Len(tables[s])
        /\ request[v].query.order = "ASC" =>
              Agrees(response[v], tables[s], request[v].query)
    BY DEF TypedInv, ListingStaysTrue, Dated
  <2>3. CASE s = t
    <3>1. tables'[s] = Append(tables[s], body)
      BY <1>1, <2>3 DEF TypedInv, TypeOK
    <3>2. Len(Append(tables[s], body)) = Len(tables[s]) + 1 /\ Len(tables[s]) \in Nat
      BY <2>1
    <3> HIDE DEF s, body
    <3>3. response[v].upto <= Len(tables'[s])
      BY <2>1, <2>2, <3>1, <3>2
    <3>4. ASSUME request[v].query.order = "ASC"
          PROVE  Agrees(response[v], tables'[s], request[v].query)
      BY <1>1, <2>1, <2>2, <3>1, <3>4, AgreesStays
    <3> QED BY <3>3, <3>4 DEF s
  <2>4. CASE s # t
    <3>1. tables'[s] = tables[s]
      BY <1>1, <2>1, <2>4 DEF TypedInv, TypeOK
    <3> QED BY <2>2, <3>1
  <2> QED BY <2>3, <2>4
<1>5. ListingStaysTrue'
  BY <1>1, <1>4 DEF ListingStaysTrue, TableOf, Agrees
<1>6. Dated'
  BY <1>1, <1>4 DEF Dated, TableOf
<1> QED BY <1>3, <1>5, <1>6

\* The other steps list nothing and insert nothing.
LEMMA AnswerTyped ==
    ASSUME TypedInv, NEW w \in Workers,
           InsertFails(w) \/ InsertOverruns(w) \/ Created(w) \/ Flush(w) \/ Killed(w)
    PROVE  TypeOK' /\ ListingStaysTrue' /\ Dated'
<1>1. CASE InsertOverruns(w) \/ Killed(w)
  BY <1>1, EndsTyped DEF InsertOverruns, Killed
<1>2. /\ query[w] \in Query /\ FreeQuery(query[w]) \in Query
      /\ response[w] \in Response /\ last_rowid[w] \in Nat
      /\ response[w].status \in Seq(Codes)
  BY FreeQueryType DEF TypedInv, TypeOK, Response
<1>3. CASE InsertFails(w) \/ Created(w)
  <2>1. PICK resp \in {Say("400", NoResponse),
                       [Say("201", NoResponse) EXCEPT !.id = last_rowid[w]]} :
            /\ response' = [response EXCEPT ![w] = resp]
            /\ query' = [query EXCEPT ![w] = FreeQuery(@)]
            /\ pc' = [pc EXCEPT ![w] = "done"]
            /\ UNCHANGED <<tables, request, last_rowid, stored, told>>
    <3>1. response[w] = NoResponse
      BY <1>3 DEF InsertFails, Created, TypedInv, IInv, Phase
    <3> QED BY <1>2, <1>3, <3>1 DEF InsertFails, Created, LastInsertRowid, TypedInv, TypeOK
  <2>2. resp \in Response /\ resp.rows = {} /\ resp.upto = 0
    <3>1. /\ Say("400", NoResponse) \in Response
          /\ Say("201", NoResponse) \in Response
      BY SayType DEF Codes
    <3> QED BY <1>2, <2>1, <3>1 DEF Response, Say, NoResponse
  <2>3. TypeOK'
    BY <1>2, <2>1, <2>2 DEF TypedInv, TypeOK
  <2>4. /\ \A v \in Workers : \/ request'[v] = request[v] /\ response'[v] = response[v]
                              \/ response'[v].rows = {} /\ response'[v].upto = 0
        /\ tables' = tables /\ request' \in [Workers -> Request]
    BY <2>1, <2>2, <2>3 DEF TypedInv, TypeOK
  <2> QED BY <2>3, <2>4, NothingListed
<1>4. CASE Flush(w)
  <2>1. <<>> \in Seq(Codes)
    OBVIOUS
  <2>2. TypeOK'
    BY <1>2, <1>4, <2>1, SayType, NoRequestType DEF Flush, TypedInv, TypeOK
  <2>3. /\ \A v \in Workers : \/ request'[v] = request[v] /\ response'[v] = response[v]
                              \/ response'[v].rows = {} /\ response'[v].upto = 0
        /\ tables' = tables /\ request' \in [Workers -> Request]
    BY <1>4, <2>2 DEF Flush, TypedInv, TypeOK, NoResponse
  <2> QED BY <2>2, <2>3, NothingListed
<1> QED BY <1>1, <1>3, <1>4

LEMMA TypedStep == TypedInv /\ [Next]_vars => TypedInv'
<1> SUFFICES ASSUME TypedInv, [Next]_vars PROVE TypedInv'
  OBVIOUS
<1>1. IInv'
  BY InvStep DEF TypedInv
<1>2. CASE UNCHANGED vars
  BY <1>1, <1>2 DEF TypedInv, TypeOK, ListingStaysTrue, Dated, Agrees, TableOf, vars
<1>3. CASE Next
  BY <1>1, <1>3, DispatchTyped, InsertTyped, AnswerTyped DEF Next, TypedInv
<1> QED BY <1>2, <1>3

LEMMA TypedAlways == Spec => []TypedInv
  BY TypedInit, TypedStep, PTL DEF Spec

\* Every reachable state is of its type: the query fields that outlive a
\* request, the connection's last row id and what was written included.
THEOREM TypeCorrect == Spec => []TypeOK
<1>1. TypedInv => TypeOK
  BY DEF TypedInv
<1> QED BY <1>1, TypedAlways, PTL

\* wrd_get_entries (app/db.c) shows what its own query string asks for and
\* nothing of an earlier request, and rows that stay: whatever the workers
\* insert after it, in any order, the same ascending query still begins with
\* what it has shown, with its LIMIT and OFFSET.
THEOREM ListingCorrect == Spec => []ListingStaysTrue
<1>1. TypedInv => ListingStaysTrue
  BY DEF TypedInv
<1> QED BY <1>1, TypedAlways, PTL
=============================================================================
