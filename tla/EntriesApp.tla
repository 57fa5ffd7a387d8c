------------------------------ MODULE EntriesApp ------------------------------
(***************************************************************************)
(* What the route handlers answer: the entries application (app/app.c,     *)
(* app/db.c) and the static files (fs.c), in several worker processes that *)
(* share one SQLite database.                                              *)
(*                                                                         *)
(* A handler is straight-line code; what other workers can see or disturb  *)
(* of it is its one INSERT, which SQLite runs as a transaction of its own, *)
(* and its one SELECT, which reads one snapshot.  Between the INSERT and   *)
(* the response that names the new row the other workers go on, and the    *)
(* worker itself may be killed: by its master's close, or by anybody.      *)
(***************************************************************************)
EXTENDS Naturals, Integers, Sequences, FiniteSets

CONSTANTS
    Workers,       \* the worker processes
    Docs,          \* request bodies
    WellFormed,    \* those that SQLite's json() accepts
    NoBody,        \* Content-Length is missing, 0 or negative
    DocumentRoot,  \* config->document_root # NULL
    Requests,      \* bound: the requests the clients send
    MaxRows,       \* bound: rows in a table
    DatabaseMayFail \* bound: may SQLite report an error (busy, disk, memory)?

Tables == {"entries", "dashboards"}
Files == {"file", "large file", "missing", "unsafe"}
Paths == {"/", "/app/entries", "/app/keys", "/app/dashboards"} \cup Files
Methods == {"GET", "POST", "HEAD", "OTHER"}

\* The fields of a query string.  limit is what sqlite3_bind_int gets of the
\* unsigned field: from 2^31 on it is negative.  search stands for key and
\* value, by the documents the pattern matches (without them, all).  order is
\* sort for a listing by id; "created" is a listing by created or modified,
\* in either direction.
Fields == {"id", "multi", "limit", "offset", "search", "order"}
Query == [id : Nat, multi : Nat, limit : Int, offset : Nat,
          search : SUBSET Docs, order : {"ASC", "DESC", "created", "invalid"}]
DefaultQuery == [id |-> 0, multi |-> 0, limit |-> 10, offset |-> 0,
                 search |-> Docs, order |-> "ASC"]

\* A request.  given: the fields its query string has.  exact: as many bytes
\* arrived as Content-Length says.
Request == {r \in [path : Paths, method : Methods, given : SUBSET Fields,
                   query : Query, body : Docs \cup {NoBody}, exact : BOOLEAN] :
              \A f \in Fields \ r.given : r.query[f] = DefaultQuery[f]}

\* The request fields before the first request.
NoRequest == [path |-> "/", method |-> "OTHER", given |-> {},
              query |-> DefaultQuery, body |-> NoBody, exact |-> TRUE]

ASSUME DataAssumption ==
    /\ WellFormed \subseteq Docs
    /\ NoBody \notin Docs
    /\ DocumentRoot \in BOOLEAN
ASSUME EntriesBounds ==
    /\ Requests \subseteq Request
    /\ MaxRows \in Nat
    /\ DatabaseMayFail \in BOOLEAN

Row == [id : Nat, data : Docs]

Codes == {"200", "201", "400", "404", "405", "500"}

\* What a handler has written: status lines, and of the body an id, rows, or
\* just whether there is one.  upto: the rows there were when a listing came
\* to its end; 0 when it ended before, or is none (for the properties).
Response == [status : Seq(Codes), body : BOOLEAN, id : Nat, rows : SUBSET Row,
             upto : Nat]
NoResponse == [status |-> <<>>, body |-> FALSE, id |-> 0, rows |-> {}, upto |-> 0]

VARIABLES
    tables,      \* the database: the rows of each table by id
    pc,          \* of each worker
    request,     \* the request it handles
    query,       \* app_data->query, which outlives the request
    last_rowid,  \* what sqlite3_last_insert_rowid() has for its connection
    stored,      \* the rows its last request has inserted
    response,    \* what its handler has written
    told         \* the status lines that reached the client of that request

vars == <<tables, pc, request, query, last_rowid, stored, response, told>>

-------------------------------------------------------------------------------
Init ==
    /\ tables = [t \in Tables |-> <<>>]
    /\ pc = [w \in Workers |-> "idle"]
    /\ request = [w \in Workers |-> NoRequest]
    /\ query = [w \in Workers |-> DefaultQuery]
    /\ last_rowid = [w \in Workers |-> 0]
    /\ stored = [w \in Workers |-> 0]
    /\ response = [w \in Workers |-> NoResponse]
    /\ told = [w \in Workers |-> <<>>]

\* One of the wrd_http_ helpers: a status line and a body.
Say(code, resp) == [resp EXCEPT !.status = Append(@, code), !.body = TRUE]
OnlyHead(code, resp) == [resp EXCEPT !.status = Append(@, code)]

\* A worker that is idle takes a request and goes on at next; what the one
\* before it has stored, and what its client was told, is over.
Takes(w, r, next) ==
    /\ pc[w] = "idle"
    /\ request' = [request EXCEPT ![w] = r]
    /\ pc' = [pc EXCEPT ![w] = next]
    /\ stored' = [stored EXCEPT ![w] = 0]
    /\ told' = [told EXCEPT ![w] = <<>>]
    /\ UNCHANGED <<tables, last_rowid>>

\* Its process is gone, and what it had in memory.
Ends(w) ==
    /\ pc' = [pc EXCEPT ![w] = "ended"]
    /\ request' = [request EXCEPT ![w] = NoRequest]
    /\ query' = [query EXCEPT ![w] = DefaultQuery]
    /\ last_rowid' = [last_rowid EXCEPT ![w] = 0]
    /\ response' = [response EXCEPT ![w] = NoResponse]
    /\ UNCHANGED tables

\* It takes one and has handled it.
Handled(w, r, resp) ==
    /\ Takes(w, r, "done")
    /\ response' = [response EXCEPT ![w] = resp]

\* Slip: the offset is not reset.
ParseQueryKeeps(r, old) ==
    [f \in Fields |-> IF f \in r.given THEN r.query[f]
                      ELSE IF f = "offset" THEN old[f] ELSE DefaultQuery[f]]

\* wrd_app_parse_query_string: every field is reset first.
ParseQuery(r, old) ==
    [f \in Fields |-> IF f \in r.given THEN r.query[f] ELSE DefaultQuery[f]]

\* wrd_app_free_query: the strings are gone, the numbers stay.
FreeQuery(q) == [q EXCEPT !.search = Docs, !.order = "ASC"]

TableOf(r) == IF r.path = "/app/entries" THEN "entries" ELSE "dashboards"
IsApp(r) == r.path \in {"/app/entries", "/app/dashboards"}

-------------------------------------------------------------------------------
(* Handlers that insert nothing.                                           *)

\* wrd_route_home.
Home(w, r) ==
    /\ r.path = "/"
    /\ Handled(w, r, Say("500", NoResponse))
    /\ UNCHANGED query

\* wrd_route_static, for whatever has no route: a file of the document root,
\* which is left out of the body when it is larger than the buffer.
StaticResponse(r) ==
    IF ~DocumentRoot THEN Say("404", NoResponse)
    ELSE IF r.method \notin {"GET", "HEAD"} THEN Say("405", NoResponse)
    ELSE IF r.path \in {"missing", "unsafe"} THEN Say("404", NoResponse)
    ELSE IF r.method = "GET" /\ r.path = "file" THEN Say("200", NoResponse)
    ELSE OnlyHead("200", NoResponse)

Static(w, r) ==
    /\ r.path \in Files
    /\ Handled(w, r, StaticResponse(r))
    /\ UNCHANGED query

\* wrd_route_app_keys: its rows are not modelled.
Keys(w, r) ==
    /\ r.path = "/app/keys"
    /\ \/ r.method = "GET" /\ Handled(w, r, Say("200", NoResponse))
       \/ r.method = "GET" /\ DatabaseMayFail /\ Handled(w, r, Say("400", NoResponse))
       \/ r.method # "GET" /\ Handled(w, r, Say("405", NoResponse))
    /\ UNCHANGED query

\* wrd_route_app with a method other than GET and POST.
NotAllowed(w, r) ==
    /\ IsApp(r) /\ r.method \notin {"GET", "POST"}
    /\ Handled(w, r, Say("405", NoResponse))
    /\ query' = [query EXCEPT ![w] = FreeQuery(ParseQuery(r, query[w]))]

\* The place of i in S, in the order of the query.
Rank(S, i, order) == Cardinality({j \in S : IF order = "DESC" THEN j >= i ELSE j <= i})

\* LIMIT and OFFSET; a negative limit is none.
Page(S, q) ==
    {i \in S : LET rank == Rank(S, i, q.order)
               IN rank > q.offset /\ (q.limit >= 0 => rank <= q.offset + q.limit)}

\* The rows with these ids.
RowsOf(rows, ids) == {[id |-> i, data |-> rows[i]] : i \in ids}
Matching(rows, q) == {i \in DOMAIN rows : rows[i] \in q.search}

\* The rows that the SELECT of wrd_get_entries returns in the order of ids:
\* the one asked for by id, or a page of those that match.
Selected(rows, q) ==
    RowsOf(rows, IF q.id # 0 THEN {q.id} \cap DOMAIN rows
                 ELSE Page(Matching(rows, q), q))

\* The same, in any order.  The clock at an INSERT is not modelled (it may tie
\* rows, or be set back), so a page by created or modified has any rows that
\* match, as many as there are on a page.
Selections(rows, q) ==
    IF q.order = "created" /\ q.id = 0
    THEN {RowsOf(rows, ids) : ids \in
             {S \in SUBSET Matching(rows, q) :
                 Cardinality(S) = Cardinality(Page(Matching(rows, q), q))}}
    ELSE {Selected(rows, q)}

\* Its loop over the rows ends at the last one, or at the first error, which
\* is not reported.
Beginnings(all, order) ==
    {some \in SUBSET all :
        \A row \in all \ some, shown \in some :
            /\ order = "ASC" => row.id > shown.id
            /\ order = "DESC" => row.id < shown.id}

\* wrd_get_entries.
Listed(some, upto) == [Say("200", NoResponse) EXCEPT !.rows = some, !.upto = upto]

ListResponses(rows, q) ==
    IF q.order = "invalid" THEN {Say("400", NoResponse)}
    ELSE {Listed(all, Len(rows)) : all \in Selections(rows, q)} \cup
         (IF DatabaseMayFail
          THEN {Say("400", NoResponse)} \cup
               {Listed(some, 0) : some \in
                   UNION {Beginnings(all, q.order) : all \in Selections(rows, q)}}
          ELSE {})

List(w, r) ==
    /\ IsApp(r) /\ r.method = "GET"
    /\ LET q == ParseQuery(r, query[w])
       IN /\ \E resp \in ListResponses(tables[TableOf(r)], q) : Handled(w, r, resp)
          /\ query' = [query EXCEPT ![w] = FreeQuery(q)]

\* POST without content: wrd_add_entry and wrd_add_entries return before they
\* write anything, and nobody looks at what they return.
AddNothing(w, r) ==
    /\ IsApp(r) /\ r.method = "POST" /\ r.body = NoBody
    /\ Handled(w, r, NoResponse)
    /\ query' = [query EXCEPT ![w] = FreeQuery(ParseQuery(r, query[w]))]

-------------------------------------------------------------------------------
(* Handlers that insert.                                                   *)

IsMulti(w, r) == r.path = "/app/entries" /\ ParseQuery(r, query[w]).multi # 0

\* wrd_add_entries: wrd_http_get_header is given no place for the value, and
\* the NULL pointer is read next.
AddEntries(w, r) ==
    /\ pc[w] = "idle"
    /\ IsApp(r) /\ r.method = "POST" /\ r.body # NoBody /\ IsMulti(w, r)
    /\ Ends(w)
    /\ stored' = [stored EXCEPT ![w] = 0]
    /\ told' = [told EXCEPT ![w] = <<>>]

\* wrd_add_entry up to its sqlite3_step: reset, read the content, bind it.
AddEntry(w, r) ==
    /\ IsApp(r) /\ r.method = "POST" /\ r.body # NoBody /\ ~IsMulti(w, r)
    /\ Takes(w, r, "step")
    /\ query' = [query EXCEPT ![w] = ParseQuery(r, query[w])]
    /\ UNCHANGED response

\* Slip: the statement is stepped again after it was done.
InsertTwice(w) ==
    LET t == TableOf(request[w])
        body == request[w].body
    IN /\ pc[w] = "step"
       /\ body \in WellFormed /\ Len(tables[t]) < MaxRows
       /\ tables' = [tables EXCEPT ![t] = @ \o <<body, body>>]
       /\ last_rowid' = [last_rowid EXCEPT ![w] = Len(tables[t]) + 2]
       /\ stored' = [stored EXCEPT ![w] = @ + 2]
       /\ pc' = [pc EXCEPT ![w] = "created"]
       /\ UNCHANGED <<request, query, response, told>>

\* sqlite3_step inserts the row and commits.  No row is ever deleted, so the
\* new id follows the last one.
Insert(w) ==
    LET t == TableOf(request[w])
        body == request[w].body
    IN /\ pc[w] = "step"
       /\ body \in WellFormed /\ Len(tables[t]) < MaxRows
       /\ tables' = [tables EXCEPT ![t] = Append(@, body)]
       /\ last_rowid' = [last_rowid EXCEPT ![w] = Len(tables[t]) + 1]
       /\ stored' = [stored EXCEPT ![w] = @ + 1]
       /\ pc' = [pc EXCEPT ![w] = "created"]
       /\ UNCHANGED <<request, query, response, told>>

\* Slip: the result of sqlite3_step is not looked at.
InsertFailsUnnoticed(w) ==
    /\ pc[w] = "step"
    /\ DatabaseMayFail \/ request[w].body \notin WellFormed
    /\ pc' = [pc EXCEPT ![w] = "created"]
    /\ UNCHANGED <<tables, request, query, last_rowid, stored, response, told>>

\* WRD_DB_CALL: the document is malformed, the database is locked for too
\* long, the disk is full.
InsertFails(w) ==
    /\ pc[w] = "step"
    /\ DatabaseMayFail \/ request[w].body \notin WellFormed
    /\ response' = [response EXCEPT ![w] = Say("400", @)]
    /\ query' = [query EXCEPT ![w] = FreeQuery(@)]
    /\ pc' = [pc EXCEPT ![w] = "done"]
    /\ UNCHANGED <<tables, request, last_rowid, stored, told>>

\* The text is bound with the length that Content-Length announced: past the
\* end of a shorter body the read may hit memory that is not mapped.
InsertOverruns(w) ==
    /\ pc[w] = "step"
    /\ ~request[w].exact
    /\ Ends(w)
    /\ UNCHANGED <<stored, told>>

\* Slip: the newest row of the table, whoever inserted it.
NewestRowid(w) == Len(tables[TableOf(request[w])])

\* wrd_last_insert_rowid.
LastInsertRowid(w) == last_rowid[w]

\* wrd_http_created, after the INSERT.
Created(w) ==
    /\ pc[w] = "created"
    /\ response' = [response EXCEPT ![w] = [Say("201", @) EXCEPT !.id = LastInsertRowid(w)]]
    /\ query' = [query EXCEPT ![w] = FreeQuery(@)]
    /\ pc' = [pc EXCEPT ![w] = "done"]
    /\ UNCHANGED <<tables, request, last_rowid, stored, told>>

\* wrd_http_flush sends the response and empties the buffers.  It does not
\* look at what wrd_net_send returns: of a send that fails, or of one whose
\* client is gone, nothing arrives.  What the next parse begins with, the
\* reset of the request's fields, is done here.
Flush(w) ==
    /\ pc[w] = "done"
    /\ \E arrived \in {response[w].status, <<>>} :
          told' = [told EXCEPT ![w] = arrived]
    /\ response' = [response EXCEPT ![w] = NoResponse]
    /\ request' = [request EXCEPT ![w] = NoRequest]
    /\ pc' = [pc EXCEPT ![w] = "idle"]
    /\ UNCHANGED <<tables, query, last_rowid, stored>>

\* The worker is killed, by the SIGTERM of wrd_worker_close or by anybody: a
\* transaction that has not committed is gone, one that has stays.
Killed(w) ==
    /\ pc[w] # "ended"
    /\ Ends(w)
    /\ UNCHANGED <<stored, told>>

-------------------------------------------------------------------------------
\* wrd_route_dispatch.
Dispatch(w, r) ==
    \/ Home(w, r)
    \/ Static(w, r)
    \/ Keys(w, r)
    \/ NotAllowed(w, r)
    \/ List(w, r)
    \/ AddNothing(w, r)
    \/ AddEntries(w, r)
    \/ AddEntry(w, r)

Next ==
    \E w \in Workers :
        \/ \E r \in Requests : Dispatch(w, r)
        \/ Insert(w)
        \/ InsertFails(w)
        \/ InsertOverruns(w)
        \/ Created(w)
        \/ Flush(w)
        \/ Killed(w)

Spec == Init /\ [][Next]_vars

-------------------------------------------------------------------------------
(* Properties.                                                             *)

\* Every variable stays in its set.
TypeOK ==
    /\ tables \in [Tables -> Seq(Docs)]
    /\ pc \in [Workers -> {"idle", "step", "created", "done", "ended"}]
    /\ request \in [Workers -> Request]
    /\ query \in [Workers -> Query]
    /\ last_rowid \in [Workers -> Nat]
    /\ stored \in [Workers -> {0, 1}]
    /\ response \in [Workers -> Response]
    /\ told \in [Workers -> Seq(Codes)]

\* Does row id of table t hold the document?
Holds(t, id, doc) == id \in DOMAIN tables[t] /\ tables[t][id] = doc

\* The id in a "201 Created" is that of the row with the posted document, in
\* the table the request addressed, although other workers insert between
\* the INSERT and the question for its id.
CreatedNamesEntry ==
    \A w \in Workers :
        pc[w] = "done" /\ response[w].id # 0 =>
            Holds(TableOf(request[w]), response[w].id, request[w].body)

\* What reaches a client is the truth about its row: one that is told "201"
\* has exactly one new row, and one that is told anything else has none and
\* may safely send its document again.  One that is told nothing may have
\* one: the worker was killed after the INSERT, or the answer did not arrive.
AnswerTellsOutcome ==
    \A w \in Workers :
        told[w] # <<>> => stored[w] = (IF told[w] = <<"201">> THEN 1 ELSE 0)

\* The rows of an ascending listing are the beginning of what the query
\* selects; one that came to its end misses only rows inserted since.
Agrees(resp, rows, q) ==
    LET all == Selected(rows, q)
    IN /\ resp.rows \subseteq all
       /\ resp.status = <<"200">> =>
             \A row \in all \ resp.rows :
                /\ row.id > resp.upto
                /\ \A shown \in resp.rows : row.id > shown.id

\* A listing in ascending order of ids shows what its own query string asks
\* for, whatever earlier requests asked this worker, and it stays true
\* whatever is inserted since: the same request would show these rows again
\* and, before the last of them, no other.
ListingStaysTrue ==
    \A w \in Workers :
        request[w].query.order = "ASC" =>
            Agrees(response[w], tables[TableOf(request[w])], request[w].query)
=============================================================================
