# warudo in TLA+

A verification project for [warudo](https://github.com/zaerl/warudo), a small
pre-forking HTTP/HTTPS server in C with a JSON entries application on top of
SQLite. It contains TLA+ modules translated from the C sources, configurations
that check them with TLC on small instances, and theorems that TLAPS proves for
every value of the constants. `PROJECT.json` maps every definition to the lines
it models and lists runs, mutants, hazards and theorems.

## The system

| component | source | state it keeps | operations |
|---|---|---|---|
| master process | `server.c`, `main.c` | `wrd_shutdown`, the PID file, the table of worker PIDs | claim the PID file, init app and TLS, fork, wait, close |
| worker process | `worker.c` | one connection, the parsed request, keep-alive counters | the accept loop and the keep-alive loop |
| sockets | `net.c` | listening sockets, `client_fd`, three buffers | accept, peek, poll, read, send, finish |
| TLS | `tls.c` | the context, `tls_ssl` of the current connection | handshake, read, write, pending, finish |
| HTTP | `http.c` | request fields, header and body buffers | parse a head, build responses, flush, redirect to https |
| route table | `route.c` | 32 slots, a count | add or replace, find, dispatch |
| entries application | `app/app.c`, `app/db.c` | a SQLite connection, four prepared statements, query fields | entries, dashboards, keys: list and insert |
| static files | `fs.c` | none | serve a file of `document_root` |
| query helpers | `query.c` | none | URL decoding, form data, reading the content |
| configuration | `conf.c`, `env.c` | settings and where each came from | defaults, JSON file, environment, close |
| SQLite (vendored) | `sqlite3/sqlite3.c` | database file, write-ahead log, wal-index, file locks | INSERT, SELECT, checkpoint, close |
| helpers | `auth.c`, `hpack.c`, `timing.c`, `log.c`, `output.c`, `data.c`, `code.c` | little | Base64, HTTP/2 header coding (unused), timing, formatting |

How they interact. `main` starts a master; it forks workers after the
application and TLS were initialised, so workers inherit the routes, the TLS
context and the SQLite connection, and each opens listening sockets of its own
(`SO_REUSEPORT`). From then on master and workers share only the process table
(signals, `wait`), the PID file and the database file. In a worker everything
is one thread: `wrd_worker_loop` calls the socket operations, the parser, the
dispatch to a handler found in the route table, and the flush, in this order,
for one connection at a time. Handlers talk to the loop through the request
fields and the two output buffers, all of which outlive the request.

What is hard about it:

- the worker blocks in `accept`, `recv`, `select`, `SSL_accept` and `send`, and
  whatever a client does in between (nothing, half a request, two requests, a
  close, not reading) must neither hold nor end the worker;
- buffers, request fields, the TLS session pointer and query fields are reused
  for the next request, of another client;
- the master's start-up and shut-down are sequences of system calls that race
  other instances, signals, dying workers and reused PIDs;
- several workers insert into one database between each other's steps;
- the database is opened before the fork and closed, by the master, before the
  workers are killed: locks of the file are per process and not inherited, while
  the open write-ahead log is;
- one `warudo` struct is loaded and closed again and again, and a string in it is
  a constant or a block of the heap depending on where it came from.

## Modules

`WorkerLoop` is one worker with the kernel's side of its sockets and its
clients. `pc` is the place in `wrd_worker_loop` where it may block:

| location | code | actions |
|---|---|---|
| `start` | `worker.c:141-146` | `Start` |
| `accept` | `wrd_net_accept` | `Accept`, `AcceptError` |
| `peek` | `wrd_net_peek_byte`, TLS only | `Peek` |
| `handshake` | `wrd_tls_handshake` | `HandshakeOk`, `HandshakeError` |
| `poll` | `wrd_net_poll` | `PollReady`, `PollGivesWay`, `PollTimeout` |
| `read` | `wrd_net_read` | `Read` |
| `serve` | parse, keep-alive, dispatch, head | `Serve`, `HandlerCrash` |
| `redirect` | plain HTTP while TLS is on | `RedirectHttps` |
| `send_headers`, `send_body` | `wrd_http_flush` | `SendHeaders`, `SendBody` |
| `finish` | `wrd_net_finish_request` | `Finish` |

The clients connect, send a hello, whole or half requests, close (with or
without losing what is unread), stop reading and resume, at any time. Data is
abstract: a request is its number on the connection, a response line is its
name together with the request it was computed from. `residue` is whose bytes
lie in the input buffer beyond its position: the parser's `strstr` may run into
them, which `Parse` allows exactly where the head is not complete.

`ServerLifecycle` is several launches of the program that share the PID file
and the process table. The steps of a master are its system calls
(`open(O_EXCL)`, read, `kill(pid, 0)`, `unlink`, a second `open`, the write,
each `fork`, `sigaction`, the test of the flag, `wait`, the `unlink` and each
`kill` of the close); signals, dying workers, unrelated processes and SIGKILL
come between any two. Workers are processes that may end at any time.
`workers` entries that a failed fork left unassigned hold arbitrary values,
since the array comes from `malloc`. Two history variables record what becomes of
the PID file: `beside`, who was in `wrd_server_save_pid` when an instance wrote its
PID, and `taken`, how its file was removed while it ran: by a close, by a start that
raced it (it was in `beside`, or the PID was not written yet), or by a later start,
which never happens.

`RouteTable` is `route.c` with its slots; `RouteMap` is what it promises, a
bounded map from paths to handlers. `RouteTable` implements `RouteMap`
(`ImplementsMap`), with the map read off the slots in use.

`EntriesApp` is what the handlers answer, in several workers on one database.
A handler is one action, except `wrd_add_entry`: content and binding
(`AddEntry`), the INSERT (`Insert`, `InsertFails`, `InsertOverruns`), and the
response with `last_insert_rowid` (`Created`) are steps of their own. A worker may be
killed at any step (`Killed`), and of a response that is sent nothing may arrive
(`Flush`): `told` is what reached the client, which `stored`, the rows its request
has inserted, is compared with. SQLite is external here: an INSERT is atomic or
fails, a SELECT reads one snapshot (both are what `EntriesStore` shows), the last row
id is kept per connection. A table is the sequence of its rows; documents are model
values; a search is the set of documents its pattern matches. Rows have no times: a
page by `created` or `modified` holds any rows that match, as many as the page takes.

`EntriesStore` is the database below it, in a master and its workers: SQLite's
write-ahead log as this program uses it. Its actions follow a statement through
`sqlite3.c`: the WAL is opened (`OpenWal`), the header of the wal-index copied
(`ReadHeader`), a read mark taken (`BeginRead`), the writer's lock taken and the
copy compared with the header once more (`BeginWrite`), the frame appended, or
the log started again (`Commit`), and a checkpoint made when the log is long
enough (`StartCheckpoint`, `CopyFrames`, `EndCheckpoint`); then the client is
answered (`Acknowledge`). A process dies between any two of them, and the master,
or a worker whose loop ended, closes (`StartClose` .. `CloseUnlink`). What the
processes have after the fork depends on `fresh`. On a database that exists
`wrd_db_init` reads through the WAL, and the workers inherit it open, without
locks; on a new one it sets `journal_mode` last and reads nothing more, so every
process opens the WAL by itself. The database is a set of rows on one page, a
frame of the log an image of it. `RowStore` is what it promises: one row at a time
is added to a set. Once a process has closed it under others (`exposed`) only the
rows stored before that are kept. `EntriesStore` implements `RowStore`
(`ImplementsStore`) with the set read off what a process that opens the files
would find.

`Configuration` is `conf.c` and `env.c`: any sequence of `wrd_config_init` (no
file, unreadable, empty, malformed or valid, with any settings in the file and in
the environment) and `wrd_config_close` on one struct. A setting is where its
value is from; a string has the block its pointer points to, and the heap is the
set of blocks. What is freed is what the recorded status says (`Freed`), also when the
pointer is a constant's; `badFrees` keeps what was freed and was no allocated block.

`RequestBuffer` is the input buffer with its bytes, as pieces of a request: reads
overwrite it from the start (`Read`), `wrd_http_parse_query_headers` takes the
request line (`RequestLine`) and goes through the lines, a turn of its loop a step
(`HeaderLine`, `BlankLine`, `HeadersEnd`), looking for line ends beyond the last
read's end, and `wrd_read_content` takes the content (`Handle`). The two bytes of a
line end are pieces of their own, so a read may end between them; a NUL is one too,
at which `strstr` stops. What the parser
should find is stated without its loop, by the places at which lines begin
(`HeadEnd`, `HeaderPlaces`, `Body`). The module is where the assumption that
`WorkerLoop` makes of the parser (`Parse`: a whole head is parsed from this read
alone) is checked and proved (`WholeHeadIsOwn`).

`WorkerLoop` abstracts a handler to what it writes ("reply", nothing, a crash);
`EntriesApp` shows which handlers do which. The two meet in `Serve` and
`Dispatch`.

Each module contains, next to some definitions, a variant marked "Slip": the
same definition with a mistake one could make in that code. They are not part
of the specification; substituting one for its original must break the property
`PROJECT.json` ("mutants") names with it, which shows that the property depends
on that piece of code.

`MC*` modules instantiate the specifications for TLC.

## What is checked

| run | instance | what it shows |
|---|---|---|
| `worker_plain` | plain HTTP, 2 clients, keep-alive | own replies, framing, keep-alive promises, order of answers; the worker returns to `accept` |
| `worker_hsts` | TLS and plain socket, 2 clients, split requests, failing `accept`, crashing handler | `SafetyInv` (as proved), framing, and that peers cannot end the worker |
| `worker_tls` | TLS and plain socket, 2 pipelining clients | the worker returns; the queue served first does not starve; own replies |
| `server_live` | 1 instance, 2 workers, failing start and forks, a crash of the master, unrelated processes | the PID file names the master; no close leaves a worker; the master ends after its workers, stops at a worker's end, replaces a stale file |
| `server_many` | 3 instances with overlapping starts, crashes, failing `open` | two run side by side only after a close or through a race for the file |
| `server_refused` | 2 instances | disagreement with `warudo.conf.default:27` |
| `routes` | 3 slots, 4 paths, 2 handlers | no duplicate path; implements the map |
| `entries` | 2 workers, 20 requests, 2 rows a table, killed workers, lost answers | what clients are told about rows is true; a listing is its own query's |
| `store` | master, 3 workers, 2 rows, a checkpoint after every commit | stored rows survive, nothing is lost on a new database, snapshots are stable, acknowledged rows are read; implements `RowStore` |
| `store_closed` | the same | disagreement with `sqlite3.c:69326` |
| `config` | 2 strings, 1 integer, 3 loads | ownership and loss of strings, precedence |
| `request_buffer` | 9 pieces, 2 headers, whole and cut requests of 7 kinds | a whole head and its content are the request's own; how far a cut one reads on |

Bounds, and why they are enough:

- Two clients: every hazard of the worker involves the connection it holds and
  one other (the previous one, whose bytes or session are stale, or the next
  one in the queue). Clients reconnect any number of times.
- `MaxRequests = 2` with `KeepAliveMax = 2` (2 and 1 in `worker_tls`): the
  boundary of `keep_alive_max` is reached and passed by what clients send.
- `WholeRequests` and `Pipelining` are off where a property only holds for
  clients whose heads arrive whole or that wait for answers; the comment of the
  property says so. On a plain connection pipelined requests that arrive
  together get one answer. Clients that both pipeline and split requests have
  three times the states and show the same.
- `Pids` has 4 identifiers for a master and two workers in `server_live`, so that
  one is free for an unrelated process and PIDs are reused at once; in `server_many`
  it has 3, so that three masters may run (then without workers) and a PID that
  somebody has read names another process by the time it is checked.
- `server_live`: with two workers a fork may fail after another succeeded, with
  anything in the second slot. `server_many`: three instances are the two that run
  and one whose close or start removes the file of the first; how many workers they
  have does not matter to the file. Unrelated processes are left out there: the
  other instances and the workers of dead ones take PIDs too.
- `FewRequests` in `MCEntriesApp` has a request for every handler and every
  early return; both tables are used so that ids differ between them. Listings with
  and without a limit, an offset, an id and a search follow each other in each
  worker, so every field meets the leftover of another request.
- `store`: a writer, a reader and a checkpoint at a time need three workers; two
  rows are an older and a newer image of the page, and a log that is started
  again. `CheckpointAt = 1` puts a checkpoint behind every commit (the code's
  1000 pages only make them rarer). The log
  is bounded by the rows and by the workers that can die before they answer, so
  nothing else needs a bound.
- `config`: two strings, so that one of them may be overridden and the other not;
  three loads, so that a load follows a close that follows a load.
- `request_buffer`: a read is the beginning of one of seven requests, of any length,
  or the rest of one that was cut in a header or between the bytes of a line end.
  Any number of reads follow each other, so every read meets what several of them
  have left one behind the other. Their line ends lie at different places, one fills
  the header table, which has two, and a NUL is in a header of one and in the body of
  another. The proofs take away the
  bounds.

Fairness. The worker's own steps are weakly fair: the process is scheduled and
its time-outs (`SO_RCVTIMEO`, the `select` of `wrd_net_poll`) fire. The three
steps that send are strongly fair: a client that stops and resumes reading
again and again moves a part of a finite response each time. A client that
stops for good and keeps its connection is excepted (`Stuck`): `send` has no
time-out in the code. Nothing is assumed of clients, of `accept` failing or of
handlers crashing. In `ServerLifecycle` the steps of a master are weakly fair,
those of the environment are not: no worker has to end, nobody has to send a
signal.

Deadlock is not checked where the system does stop: when the worker ends, when
every instance has ended, when every worker has ended.

## What disagrees with the documentation

1. A start that is refused because the server runs removes that server's PID
   file on its way out (`server_refused`).
2. `wrd_server_close` closes the database before it kills the workers. If the
   database existed before the start, the workers hold no lock: SQLite takes the
   master for the only connection, checkpoints without regard to their marks and
   unlinks the WAL (`store_closed`). What a worker commits from then until it is
   killed is acknowledged and lost, and a checkpoint that a worker has begun may
   write an older page over a newer one. Compiled against the vendored SQLite the
   sequence open, fork, close in the parent, insert in the child loses the row.
   A worker that closes by itself after a failed `accept` does the same to its
   siblings, if the master has no lock any more.

Others, seen while modelling and without a run of their own:

- `keep_alive_timeout = 0` ("disabled", `warudo.conf.default:30`) does not only
  disable keep-alive: the poll before the first request waits 0 seconds and drops
  the connection unless its bytes are there already.
- A SIGTERM between the test of the flag and `wait` does not interrupt it
  (`server.c:131` expects that); the model has the step (`StopsAtWorkerExit`).
- The result of the two sends of a response is not looked at: a client whose answer
  is lost, or whose worker is killed before it answers, may have its row
  (`AnswerTellsOutcome` says what an answer that arrives is worth).
- Handlers of a POST without content write nothing, not even a status line
  (`warudo.h:213`); a multi POST to `/app/entries` crashes the worker
  (`db.c:274-280`).
- A request with exactly `WRD_MAX_HEADERS` headers has body offset 0: its content
  is taken from its request line on.
- Two starts that overlap can both pass the PID file: the second finds the file the
  first has created and not yet written, takes it for a stale one and unlinks it
  (`server_many` has the behaviour; `OneInstance` states it as one of its two
  exceptions); a stale file that names the PID the new master happens to get refuses the start,
  since `kill(pid, 0)` succeeds on oneself.
- `WRD_CONFIG_PATH` in the repository's README is `WRD_CONF_PATH` in
  `server.c:33`; without a configuration file, or with an empty one, the
  environment is not read although "every config can be passed as environment
  variable" (`README.md:30`).
- `main` reads the configuration that `wrd_server_init` closed to log the failure,
  and `wrd_config_init` the status of a struct that comes from `malloc`.
- `wrd_get_entries` decodes the search terms and then binds the undecoded ones; a
  static file larger than the response buffer is a 200 without a body; an empty
  one leaks a descriptor (`fs.c:38`).

## What is proved

All proofs are for any values of the constants that satisfy the named
assumptions of the modules.

`WorkerLoop_proofs`
- `TypeCorrect`: `TypeOK`, from the assumptions on the settings and bounds.
- `SafetyCorrect`: `SafetyInv`. `ConnectionOwned` and `NoPlainReply` are not
  inductive: that a reply without a session is a redirection depends on what
  was put into the buffers earlier. `SessionPath` adds what is settled at each
  location: requests are served in a session or with TLS off; what waits in
  the buffers without a session is a redirection and ends the connection.
  `TypeOK /\ SafetyInv` is inductive, one step of the proof per action.
- `WorkerOutlivesPeers`: the action property `PeersDoNotEndWorker`, from the
  conjunct of `SessionPath` that SIGPIPE is ignored.

`RouteTable_proofs`
- `TypeCorrect` and `TableCorrect`: `TypeOK` and `NoDuplicatePath`, which are
  inductive together.
- `TableImplementsMap`: refinement of `RouteMap`; lemmas give the value the
  linear search finds for each path and the cardinality of the map.

`EntriesApp_proofs`
- `CreatedCorrect` and `AnswerCorrect`. Neither is inductive: both speak of
  finished answers, and what the answer will be is settled at the INSERT.
  `Phase` says what is known of a worker between the two, `Answered` that the
  response that waits to be sent agrees with what was stored, and `Heard` that what
  arrived of it does; nothing is said of a worker that ended before. That this
  survives the INSERTs of the other workers (`InsertKeepsInv`) rests on rows being appended
  only (`HoldsOn`) and on the row id being kept per connection.
- `TypeCorrect` and `ListingCorrect`: `ListingStaysTrue`, inductive with the types
  and `Dated` (a listing was not complete later than now). A listing agrees with what
  its query selects (`ListAgrees`), the query is what the request asked whatever the
  one before it left in the fields (`ParsedIsAsked`), and a row that is appended comes
  behind those an ascending query selects already (`SelectedGrows`, `RankStays`), so
  the listing agrees as before (`AgreesStays`).

`WorkerReplies_proofs`
- What a client receives depends on what it sent, on what waits in the queues and
  on both output buffers, so its four theorems are proved in layers, each inductive
  given the ones before it. `QueueInv`: who waits in an accept queue is queued,
  once, so the connection that `accept` returns is not one that is being served.
- `FramingCorrect`: `WellFramed`. `FrameInv` says what the buffers hold at each
  location (the two parts of one response, of the request that was served), and
  that the head of a waiting body was the last thing its client received.
- `PromisesCorrect`: `KeepAlivePromises`. `PromiseInv` ties the head in the buffer
  to the decision the loop took (`Decision`) and counts the answers of a
  connection: while it goes on there are no more than `request_count`, and all of
  them said keep-alive.
- `RepliesAreOwn`: `OwnReplies`, for clients whose heads arrive whole
  (`WholeRequests`). Without that the parser runs on into older bytes, and the
  property is false. `StreamInv` follows what may be in flight: whole requests in
  the clear or in the client's own session, and before it at most a hello, which
  no one reads as a request.
- `AnswersAreInOrder`: `AnsweredInOrder`, for clients that also wait for each
  answer (`~Pipelining`; of requests that arrive together only the first is
  answered). `OrderInv`: what is unread is at most the next request, and the head
  in the buffer answers it.

`ServerLifecycle_proofs`
- `OneInstanceCorrect`: for any number of instances, whose starts may overlap, fail,
  crash and be killed, two run side by side only if the file of one of them was taken
  in one of two ways. The first is a close: with three launches, the second is refused
  and on its way out removes the file of the first (see above), and the third runs.
  The second is the race of two starts at the file. What the theorem excludes is
  everything else, above all a start that begins once the PID is written.
- `PidFileUntilTaken`: a running master is the one the PID file names until one of
  these happens to it (`NamedUntilTaken`, stated in the proof module).
  `PidFileCorrect`: an instance that is alone is named from its start-up to its
  close, whatever stale file it found; with two it is false (`server_refused`).
- They rest on `FileInv`: each master that runs has one PID (`Masters`); the path
  leads to the file of the instance that claimed it until it is taken (`Named`); a
  start that was not at the file when the PID was written is on its way to be refused
  by it (`Respected`: it is not about to unlink it, and the PID it has read is that of
  a process that runs); and a removed file does not come back (`Removed`).
- `TypeCorrect` and `NoWorkerLeftCorrect`. `NoWorkerLeft` only speaks of masters
  that have exited. `Known` adds where the PID of each live worker is to be
  found before: in the slots the fork loop has filled (`ForkFails` keeps them,
  whatever `malloc` left in the others), and during the close in those the kill
  loop has still to go through. A signal can only take workers away
  (`SigtermEffect`), also one that reaches a process that has taken over a PID.

`EntriesStore_proofs`
- `TypeCorrect`, `KeptCorrect`, `FreshCorrect`, `ReadersCorrect`,
  `SnapshotCorrect` and `StoreRefinement`: every property of the run `store`.
  They share one inductive invariant, `IInv`. None of them is inductive: with a
  WAL the stored rows are those of its last frame, without one those of the
  database file, and the invariant says of every place where one takes over from
  the other that the one that takes over has the rows. `Control` is what each
  process has open and locked at its place (on a fresh database an attached
  process always has a lock), `Exclusion` that there is one writer and one
  checkpoint, and no checkpoint beside a reader of the file alone. `Content` is
  the files': the last frame has the rows, and so has the database file when
  everything is backfilled or the WAL is unlinked. `Reader` ties a snapshot to the
  header (one with an unchanged header sees the rows, and its mark keeps the log
  from being started again), `Checkpoint` and `Closed` say that what is copied has
  the rows. `exposed` switches off what a close under running workers destroys;
  `kept` are then the rows no later step can reach.

`Configuration_proofs`
- `TypeCorrect`, `OwnershipCorrect`, `LossCorrect` and `PrecedenceCorrect`. That no
  constant is freed follows from `OwnedStrings` itself, which says in both directions
  that a status is a default's exactly when the pointer is (`FreedOwned`). What is added to make the invariant inductive is `Emptied`: a struct that is not
  loaded is initialised without a close, so it must own nothing, whichever way it
  came to be not loaded.

`RequestBuffer_proofs`, for a buffer of any size, any header table and any reads
- `TypeCorrect`: the offset of the body lies in the read, so that `wrd_read_content`
  computes no negative length; with `Scanning`, that `pos` is behind a line end.
- `RunsOnCorrect`: `OneLineRunsOn`. `EndBefore` says that the headers found so far
  are lines that end before `pos`; the loop's condition then puts all but the last
  into the read (`LineOfRead`).
- `WholeHeadCorrect`: `WholeHeadIsOwn`. The loop invariant is `Found`: the headers
  are the header lines before `pos`, and `pos` has not passed the blank line. The
  loop can end nowhere else: the table has a place because there are not more
  lines than places (`LinesCount`), and no line begins inside a line end
  (`CrLfApart`). That strstr looks beyond the read does no harm there, since
  the first line end of the buffer is that of the read when it has one
  (`LineReceived`).
- `ContentCorrect`: `ContentIsBody`, from `WholeHeadIsOwn` at the handler.

Every safety and action property of the passing runs is proved. Only model-checked are
the liveness properties (`WorkerReturns`, `EveryoneAccepted`, `MasterFollowsWorkers`,
`StopsAtWorkerExit`, `StaleFileIsReplaced`): the prover has no liveness under fairness
and no ENABLED. The two runs that expect a violation refute a sentence of a document
on an instance; there is nothing to prove.

Assumptions: besides the named ones of the modules (`NumWorkersAssumption` and its
like: counts are natural numbers, some of them not 0, constants that name something
are distinct), three theorems have hypotheses of their own, given above
(`RepliesAreOwn`, `AnswersAreInOrder`, `PidFileCorrect`). The instances
that TLC checks satisfy them.

## What is not modelled

Time (time-outs are choices that may always happen; the times of rows, by which a
listing may be ordered, are left out), the sizes of the output
buffers, paths, query strings and header values as texts, certificates and the
TLS record protocol, partial sends, `HEAD`, MIME types, logging.

`hpack.c` and `auth.c` are not called by the server; they, `wrd_url_decode` and
the helpers are pure functions of a text. `wrd_parse_formdata` is reached only
behind a crash (`db.c:276`).

SQLite is 98% of the lines of the repository and vendored; of the other 4260 lines
the definitions stand for about half. Of SQLite only what the
application's use of the write-ahead log depends on is modelled, with one page in
place of a B-tree, no rollback journal, no power loss (`synchronous = NORMAL`
gives up durability there) and no read-only or memory databases. A writer whose
header copy is old starts over; that the busy handler is asked in between, for at
most five seconds, is a choice (`GiveUp`).

A TLS record is smaller than the 1 MiB input buffer, so `SSL_pending` is 0 after
each read and the branch of `wrd_net_poll` that looks at it is never taken.
`config` is allocated with `malloc` and read before it is initialised in
`wrd_config_init`; the models start from a struct that is not loaded.

## Plan

Done, in this order: `WorkerLoop`, `ServerLifecycle`, `RouteMap` and `RouteTable`,
`EntriesApp`, `EntriesStore` and `RowStore`, `Configuration`, `RequestBuffer`, each
with proofs of all its safety properties. Left:

1. The refinement that joins two modules: what `WorkerLoop` lets `Parse` return, as
   an abstraction of what `RequestBuffer` computes.
2. A composition of `ServerLifecycle` and the workers' connections: what clients
   in the queue see when a worker ends.
3. `wrd_url_decode` and the bounds of the output buffers as functions with
   reference definitions.

## Running

    tlc -config WorkerLoop_plain.cfg MCWorkerLoop
    tlapm WorkerLoop_proofs.tla
