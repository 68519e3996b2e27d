# Hermeneus in TLA+

Hermeneus stands in for the ClickHouse server that Coroot expects. It speaks the
ClickHouse wire protocol, translates Coroot's SELECTs and asks StarRocks, and hands the
blocks of Coroot's INSERTs to StarRocks or to Kafka. This directory is its model: TLA+
modules translated from the Go source under `src/`, TLC runs that check them on small
instances, and proofs that TLAPS checks, of the server, the writers, the process made of
both, the answer to a query, the rules that recognise one, and the way of a row.

    tlc -workers 2 -config ChServerInserts.cfg MCChServer
    tlc -workers 2 -config CorootQueries.cfg MCCorootQueries
    tlapm ChServerProofs.tla         # then ChServerServiceProofs, ChServerDialogueProofs
    tlapm HermeneusProofs.tla        # rests on those and on InsertSinkProofs
    tlapm QueryAnswerProofs.tla      # and RecogniseProofs, IngestProofs

`PROJECT.json` maps every definition to the lines it stands for, lists the runs, the
hazards with the properties that cover them, and for each property a plausible bug (a
*mutant*) that breaks it. Operators commented "Mutant of ..." are those bugs; nothing in
the specifications uses them.

## 1. Inventory

| Component | State | Operations | Talks to |
|---|---|---|---|
| Entry point, `cmd/hermeneus/main.go` | the signal context; the sink chosen | start, wait for `ListenAndServe`, deferred closes, exit | server, adapters |
| Wire server, `chserver/server.go` | listener; per connection a reader, `compressed`, the client's version | accept, handshake, packet loop, `handleQuery`, exceptions | clients (packets), translator, query client, writer (calls) |
| INSERT handling, `chserver/insert.go` | the INSERT in hand | header block, read a block, `Write`, `EndOfStream` | client, block decoder, writer |
| System probes, `chserver/system.go` | a fixed table | match by substring, canned block | `handleQuery` |
| Result encoder, `chserver/encode.go` | the columns it is filling | a cell at a time; a block at the end | query client, client |
| Block decoder and insert schemas, `decode.go`, `schema.go` | none | a block to records; a header to columns | INSERT handling |
| Translator, `translate/` | none | parse, recognise one of 15 queries, render | extractor, Reader |
| SQL extractor, `extractor/` | a token position | text to AST | translator |
| INSERT header parser, `extractor/values.go` | none | the text of an INSERT to table and columns | INSERT handling |
| StarRocks Reader, `adapter/starrocks/starrocks.go` | `derivedAliasSeq`, global | AST to StarRocks SQL | translator |
| StarRocks query client, `client.go` | a `*sql.DB`, nil without a host | `Query`, no deadline | StarRocks |
| StarRocks writer, `client.go`, `streamload.go`, `insert.go` | none | `Write`: Stream Load with redirects, or one SQL INSERT | StarRocks |
| Kafka writer, `adapter/kafka/kafka.go` | a franz-go client | `Write`: one message per record; `Close` | brokers |
| Values, `starrocks/values.go`, `kafka/kafka.go` | none | a record to a JSON document or SQL texts | writers |
| Configuration, `config/` | none | the environment to settings | entry point |
| StarRocks schema, `migrations/` | the tables; the offsets of Routine Loads | rows in, by Stream Load or by Routine Load from Kafka | writers, query client |
| Deployment | - | - | - |

A connection has a goroutine; a request is handled by synchronous calls, from the packet
to the reply. Handlers share the database handle, the Kafka client, and
`derivedAliasSeq`. Nothing is persisted by hermeneus itself: what survives a crash is
what StarRocks or Kafka has.

**What is hard.** A TCP stream carries packets without frames: a handler that leaves
bytes unread takes them for the next packet. Client and handler each wait for the
other's next message at several places. A `Write` fails, times out, or succeeds for the
sink and not for the caller, between two blocks of one INSERT. The process ends on a
signal, on a failing `Accept`, or by one handler's panic, amid other handlers' INSERTs.
Queries are recognised by parts of their shape, in order. A query is read by one SQL
parser and what is rendered for it by a second, of another dialect. A row passes four
lists that must agree on names and types: the header of the INSERT, the insert schemas,
the keys and paths of the JSON, the tables.

**What makes each part correct.**

- Wire server: an acknowledged INSERT is stored; a reply answers the request the client
  waits for, in its compression; client and handler never wait for each other; packet
  boundaries are kept; a signal ends the process.
- Writers: nil only for what is durable; `Write` returns, unless a broker leaves a message
  under way unanswered; what is reported as written becomes visible.
- Query path: a known query is translated, and answered with its own shape; a reply with
  rows is the whole result; a probe is answered with its own block.
- Translation: a statement is read as ClickHouse's grammar groups it; the SQL that
  StarRocks is given answers the same; an unmapped function fails.
- Ingest: an INSERT's header is read as it is meant; a row that is acknowledged is in its
  table, or another one of its primary key, each value in its column; what a sink refuses,
  drops or makes NULL is known.

## 2. Modules

    InsertService          what an INSERT promises                      (abstract)
      ^ implemented by
    ChConnection <- ChClient <- ChServer <- ChServerProperties <- ChServerInvariant
      ^                                                      MCChServer --^
      | implemented, with the Writer in the place of the assumed sink, by
    Hermeneus = ChServer and InsertSink  <- HermeneusInvariant <- MCHermeneus
      the sink of ChServer behaves like
    WriteSink              what Writer.Write promises                   (abstract)
      ^ implemented by
    InsertSink  = StarRocksWriter or KafkaWriter  <- InsertSinkInvariant <- MCInsertSink

    Sql <- Extractor, Reader, Recognise <- Translator <- CorootSql <- CorootQueries
     ^              ^------------------------- Meaning <------------------'
                                                     MCCorootQueries --^
    Sql, Records <- InsertHeader <- MCIngest           the text of an INSERT
         Records <- Ingest <- IngestInvariant <- MCIngest    its rows to their tables

    ResultShape <- Recognise               the shapes that both ends agree on
         ^------ QueryAnswer <- MCQueryAnswer, with Translate of CorootSql

    Proofs: ChServerInvariant <- ChServerProofs <- ChServerServiceProofs
                              <- ChServerDialogueProofs <- HermeneusProofs
            InsertSinkInvariant <- InsertSinkProofs <- HermeneusProofs (by INSTANCE)
            QueryAnswer <- QueryAnswerProofs
            Recognise <- RecogniseProofs
            IngestInvariant <- IngestProofs

The invariants have modules of their own, so that TLC checks what TLAPS proves.

### ChConnection, ChClient, ChServer: the wire server

The core, modelled first. `ChConnection` has the state, `ChClient` the clients (external:
ch-go, modelled from what the server expects of it), `ChServer` the server, its process
and its sink.

- `wire[c]` is the log of all packets a client has written; `rd[c]` is the next one the
  handler's reader takes. A log, rather than a queue, lets a property speak of what has
  been read. `replies[c]` is the other direction, a queue. A packet carries its request
  `q` and its block number `n` for the properties; no guard of the server decides by `q`.
- `pc[c]` is the place in `handle` / `handleQuery` / `handleInsert`: `backlog` (not yet
  accepted), `hello`, `addendum` (`handshake`), `loop` (the check of the context), `read`
  (the packet code), `drain` (the blank block behind a Query), `route` (classification),
  `query` (in StarRocks), `insread`, `inswrite` (the loop of `handleInsert`), `closed`.
- `lost` stands for a reader that has lost the packet boundaries: after a failed `Write`
  the handler returns to the packet loop, and takes the code of the next block and then
  its payload for packet codes. `left[c]` is how many of those bytes there are; what they
  say is arbitrary, so that the handler may answer with an exception or a Pong, swallow
  a later packet, wait for more, or close (`Misread`, `SwallowPacket`, `LeaveLost`).
- A flush to a client that has left succeeds or fails: TCP may report it at once or
  only to a later write (`Flush`).
- The process: `Signal`, `CloseListener` (the goroutine of `ListenAndServe`),
  `AcceptAfterClose`, `AcceptError`, `Exit`. Nobody waits for handlers: `Exit` may come
  at any of their steps. `PanicOnQuery` is the nil `*sql.DB` of a process without
  `HERMENEUS_SR_HOST`: it ends the process, not only the handler.
- The sink: `ReadBlock` hands a block over (`inflight`), `Settle` stores or drops it at
  any time, `WriteOk` needs it stored, `WriteFails` does not care. That is `WriteSink`
  with one block for a batch.
- `kind` stands for the text of a query: `probe` (any canned or empty answer), `unknown`,
  `select`, `insert`, `badinsert` (a header that does not parse, or no such table).

`acked`, `confirmed`, `failed` and `desync` are history variables.

### InsertService

Blocks are offered, stored in order, and acknowledged only when all offered ones are
stored. `ChServer` implements it with `offered` as the blocks in the logs. What the service
leaves to its sink, `NeverWrittenAgain` says: the server hands no durable block in again.

### WriteSink, StarRocksWriter, KafkaWriter, InsertSink

`InsertSink` is the one `Writer` of a process, with the sink, the write mode and the
presence of a host left open by its initial states. Several calls of `Write` run
concurrently, as handlers do.

- StarRocks: `Begin` is the body of `Write` up to the first request, with its early
  returns; `Put` the loop of `put`, bounded by `MaxHops` (10 in the code); `ReadAnswer`
  the decoding of the response; `Fails` a broken connection or the deadline. A fresh
  label per call gives a transaction per call, `txn[w]`, that goes on after hermeneus has
  given up. "Publish Timeout" is accepted by the code, and means committed, not visible.
- Kafka: `ProduceSync` waits for an answer per message; `Finish` is `FirstErr`. franz-go
  produces idempotently unless told otherwise, which `New` (`kafka.go:23-26`) does not; it
  then fails a message for the end of its context only before the message is under way.
  `Timeout` therefore fails the messages not sent yet (`Unsent`), and `Write` waits on for
  the others, past its 30 seconds if a broker does not answer. `Close` gives up all
  messages, and those that were sent may still be appended.

### Hermeneus

The process as a whole: `EXTENDS` the server and instantiates `InsertSink` with one call
of `Write` per block. `Begin` of a call needs the handler that has read the block;
`WriteReturned` lets the handler go on with what its call returned (`result`), where
`ChServer` alone has `WriteOk` and `WriteFails`. `stored` becomes a fact of StarRocks'
transactions or of Kafka's log (`StoredBlocks`), which steps of neither server nor handler
can set. `Returns`, `CloseSink` and `MainExits` are the end of `main`: the deferred
`Close` of the Kafka client runs when `ListenAndServe` returns the error of the context,
and not under `log.Fatalf`. When the process has exited its calls stop where they are,
while loads and messages under way go on.

`ImplementsServer` is the specification of `ChServer` as a property: what holds of
`ChServer` holds of the composition. `AckedRowsDurable` is the promise from end to end, of
rows and not of blocks, and `WritesReturn` the assumption of `ChServer`'s fairness that
every `Write` returns: with StarRocks it follows from the deadlines, with Kafka it needs
`BrokersAnswer` besides. `RowsAssumption` leaves out
blocks that have columns and no rows, of which nothing can be lost. `JointInv`
(`HermeneusInvariant`) is how server and writer agree: `stored` is what the writer has made
durable, and no call is under way but for a block that was handed in.

### Sql, Extractor, Reader, Recognise, Translator

The path of a query, as text.

- `Sql`: the AST (`Node`, a `Select` record for a statement), texts, and the levels of
  precedence. A text is a sequence in which words, numbers and operators are one element
  each, and a string literal is its characters with quotes and backslashes, so that the
  lexer has something to get wrong.
- `Extractor`: the lexer, then the recursive-descent parser of `extractor.go`: the levels
  of expressions, IN with lists, tuples and subqueries, BETWEEN with an AND of its own,
  CASE, arrays, indexes, CTEs, derived tables, joins, all clauses. Place 0 is an error.
- `Reader`: the rendering of `starrocks.go`, statement by statement and function by
  function. `Fail` is an element no text of StarRocks has, so that a builder's error is
  seen however deep it is, and `roundDown`'s builder, which drops its own, is a case of
  its own.
- `Recognise`: the rules of `recognise` in their order, each of a statement and its
  leftmost table, and the result shapes (`ResultShape` has what one is). It has no recursion,
  so that it can be reasoned about. Of the table names that `strings.HasPrefix` accepts it
  has the two prefixes and a longer name for each (`ServiceTables`).
- `Translator`: the leftmost table, which is found by descent, and `Translate`: a text is
  parsed, recognised and rendered, or refused.

### CorootSql, Meaning, CorootQueries

`CorootSql` (external) writes a statement as Coroot does, with the parentheses
ClickHouse's grammar needs, and has the catalogue: the queries that the comments of
`extract.go` name, with the shape each is to get. `Meaning` (external) is what both
databases make of SQL: values and rational arithmetic, three-valued logic, terms that stay
as they are, the statement around them; StarRocks' functions are known by their ClickHouse
names. `StarRocks` reads a rendered text back.

`CorootQueries` explores statements in two ways. It edits queries of the catalogue as a
release of Coroot might: a column replaced, swapped, added or dropped, another table,
DISTINCT, another search. And it builds terms and conditions step by step: sums, the
functions with a rendering of their own, comparisons, BETWEEN, IN of lists and of pairs,
AND, OR, NOT.

### QueryAnswer

`handleQuery` from the text to the reply: INSERT, probes, DDL, translation, in the code's
order; then the rows, each cell by its form (what the column's `append` parses), a NULL
as an empty text, and a result that may break off after any row, which `rows.Next`
reports as it does the end. `at` is the index of the inner loop of `encodeRows`, which
appends a row's cells column by column and stops in the middle of a row when one does not
parse.

The Translator is a parameter, `Translated`: the shape of each query it knows, and
`NoShape` for the others. `MCQueryAnswer` gives it `Translate` of `Translator`, over the
texts of the catalogue.

### Records, InsertHeader, Ingest

`Records` has the conversions of a row: `InsertSchemas` with every column and type,
`Decoded` of a block, `JsonValue` and `JsonKey`, a `StreamLoad` of columns, paths and
documents, and a Kafka message (`EncodeRecord`). A conversion is what it does: a dot in a
name is an element, and a path takes it for a level; a number has `Word` bits for 32 and
twice as many for 64; a time is nanoseconds. Types are two levels deep, as the code's are
(an array of times or of maps, a map of strings), so that nothing here is recursive.
`InsertHeader` has the text of an INSERT and `ExtractValues`, which reads it.

`Ingest` takes an INSERT from its header to the tables of `migrations/`: `Start` reads the
environment, `ReadInsert` is `handleInsert` up to the header, `SendBlock` and one of
`WriteToStarRocks` and `WriteToKafka` a block, `Consume` and `Stop` the Routine Load. Rows
and messages have the number their row has in the block (`table` and `topic` are functions
of it), so that nothing is said of an order that nobody keeps. Here a load fails only for
what is in its rows; other failures are the matter of `InsertSink`.

StarRocks is external, and as the loads leave it to be: neither the headers of a Stream
Load (`streamload.go:52-59`) nor the properties of a Routine Load set `strict_mode` or a
share of rows that may be filtered.

- What does not fit its column becomes NULL (`RowOf`): an integer above its range, which a
  column unsigned in `schema.go` and signed in the table may have.
- A row with a NULL in the primary key, whose columns take none, is refused (`Refused`); a
  row with a text longer than its column (`Limits`: VARCHAR(65533), and VARCHAR(1048576)
  of `Body`) may be refused or loaded with NULL for it (`Refusable`), as versions differ.
  Of a Stream Load a refused row fails all rows; a Routine Load is paused (`stopped`).
- `profiling_stacks` has a primary key (`Key`): of the rows of one key the table has one,
  of a Stream Load any, by Kafka the one taken last.
- Messages have no key (`kafka.go:47`), and a Routine Load may have three tasks
  (`desired_concurrent_number`): `Consume(r)` takes any message.

`Sent` is what a row of a block is to become in its table, and `HasFault` what one may be
refused for, both in terms of schema, table and values, not of JSON. What each INSERT is
read as (`Headers`) and the rows (`CorootRows`) are parameters: `MCIngest` gives them
`ExtractValues` of texts, and rows of six forms; the proofs take any. `IngestInvariant` has
the invariant of the proofs.

## 3. Runs

| Run | Shows | Bounds | States, time |
|---|---|---|---|
| `dialogue` | replies match requests; no mutual wait; only a failed INSERT desyncs | 1 connection, 3 requests, 1 block, both compressions and versions; the process is not stopped | 1.2 M, 100 s |
| `inserts` | the inductive invariants `IInv` and `OrderInv`; confirmed means stored; stored in order; no durable block is written again; `InsertService` is implemented; a finished INSERT is answered; only StarRocks stalls a client | 1 connection, 2 requests, INSERT or select, up to 2 blocks | 173 k, 2 min |
| `crash` | an acknowledged INSERT is stored though the process may end at any step | 2 symmetric connections, 1 request each, no host | 460 k, 1 min |
| `hermeneus` | with its real writers the process implements `ChServer`; the rows of an acknowledged INSERT are durable, and all rows become so in block order; the invariant of the composition; every `Write` returns, if the brokers answer; a signal ends the process | 1 INSERT of up to 2 blocks of 2 rows, either sink, 1 hop | 114 k, 1 min |
| `desync` | *violation*: a failed INSERT loses the packet boundaries | 1 connection, 2 requests | seconds |
| `insert_sink` | the writers keep `WriteSink`, and their inductive invariant; every `Write` returns, if the brokers answer; written becomes visible | 3 calls with 2, 1 and 0 records, 2 hops | 49 k, 30 s |
| `query_answer` | a result is whole; probes get their answers | 5 queries, 2 rows, 1 stray probe word | 614 k, 50 s |
| `query_shadow` | *violation*: a literal can turn a search into a probe | 1 query, 1 word | seconds |
| `queries` | queries are read as ClickHouse reads them; the rendered SQL answers the same; catalogue translated; shapes as wide as select lists | 1 edit of each query; 3 building steps | 8 k, 80 s |
| `queries_loud` | *violation*: some edits are answered under old names | 1 edit | seconds |
| `queries_empty` | *violation*: NOT IN () | 2 steps | seconds |
| `ingest` | headers as meant; acknowledged rows arrive; only rows without a key or with long texts are refused; by Kafka only Events are lost; the inductive invariant of these | 4 tables, 4 ways to name them, 6 lists of columns, 2 rows of 6 forms, 5 environments, words of 4 bits, texts of 5 and bodies of 7 elements | 26 k, 15 s |

**Why the bounds are enough.** The handler's memory from one request to the next is
`compressed` and the place in the stream, so that two requests show every effect of one
on the next; `dialogue` has three, as a client that the replies of a desynchronised
connection confuse needs two of them to get there. Its queries are INSERTs, good and bad,
and `select`, whose replies are also those of probes and of unknown queries, and its
constraint `Serving` leaves the end of the process to the other runs. In `inserts`, two
blocks separate "the first", "the next" and "the end", and a failure between them; the
proof of section 5 lifts the bound for what is proved. Connections share only the process
and the sink: a second one matters as the cause of a crash, which `crash` has. `MaxResidue`
bounds how many bytes of a payload are taken for codes. In `insert_sink` two hops separate
a redirect followed from the bound reached. `hermeneus` has one of them, Stream Load and a
topic for every table, as the other modes are in `insert_sink`; two rows separate a batch
stored in part from one stored. Two rows of `query_answer` separate the row from the
column. In `queries`, every rule and every function of the Reader is in the catalogue;
three steps put an operator under an operator under another, which is as far as a
parenthesis can be wrong (four steps were run once, without a difference). Six forms have
a number at both ends of its word, inside it, and, unsigned, just within and just beyond
the signed range; a list and a map of no, one and two elements; a time that is no whole
microsecond; texts of the longest length and of one more, in columns, keys and values of
maps, and lists; and two forms have one primary key.

**Deadlock** is not checked: the clients stop after `MaxRequests` or by leaving, the
process exits, calls of `Write` end, edits run out, rows are stored. `NoMutualWait` is the
check that matters in its place.

**Fairness.** All of it is weak.

- `FairSpec` of `ChServer`: handlers that can read or run do (a goroutine is scheduled),
  `Write` returns, clients read what has arrived and notice a closed connection, the
  listener goroutine and `main` run. Nothing is assumed of a StarRocks query, which has no
  deadline, of the sink's `Settle`, of signals, or of clients asking anything.
- `FairSinkSpec`: the calls run, deadlines pass, and StarRocks publishes what it has
  committed, as its documentation of Publish Timeout says; no answer of StarRocks or of a
  broker is expected. A deadline helps a call of Kafka only with messages not under way:
  `EveryWriteReturns` has `BrokersAnswer`, that none under way stays unanswered, as its
  premise, which concerns no call to StarRocks.
- `HermeneusFairness`: one condition per goroutine: a handler with the call of `Write` it is
  in, a client, `main` and its closer. The deadline of a call is among its steps. Nothing
  is assumed of StarRocks or of brokers, and that `Write` returns is checked, with
  `BrokersAnswer` for Kafka. What `FairSpec` assumes of `Write`, and so `InsertAnswered` and
  `OnlyStarRocksStalls`, has the same premise on that sink.

## 4. Disagreements met

Each of these is a run whose property quotes the repository.

1. **A failed INSERT desynchronises the connection** (`desync`). `server.go:268-270`
   states that what a client sends must be consumed, "else its bytes are misread as the
   next packet code". `handleInsert` answers a failed `Write` with an exception and goes
   back to the packet loop; blocks already under way are then misread.
   `OnlyFailedInsertDesyncs` shows that nothing else has that effect, and
   `RepliesMatchRequests`, `NoMutualWait`, `ConfirmedIsStored` and `InsertAnswered` are
   stated for connections that have not lost their boundaries.
2. **Not every changed query fails loud** (`queries_loud`). `README.md:42-44` says
   anything but the known shapes fails loud. The rules look at some columns only: the
   logs histogram with another third column is answered with that column as "count".
3. **A known SELECT may be answered as a probe** (`query_shadow`). `server.go:126-127`:
   a known SELECT is translated. A log search for the text `system.zookeeper` is not.
4. **NOT IN of the empty list** (`queries_empty`). `starrocks.go:314`: "never matches,
   mirrors CH semantics"; for NOT IN it is ClickHouse that always matches.

These are in `Ingest`, whose properties state the exception:

5. **Events are lost by way of Kafka.** `migrations/0005_routine_loads.sql:1-3` says that
   the JSON keys are mirrored exactly. A message has the flat key `Events.Name`
   (`kafka.go`, `encodeRecord`), and the path `$.Events.Name` goes into an object `Events`.
   `OnlyEventsLost` shows that nothing else is lost. (The Stream Load replaces dots.)
6. **`NetSockPeerAddr` is never filled.** `migrations/0002_traces.sql:25-26` says "populated
   by the ingest path", whose schema has no such column. `Sent` has NULL for it in every
   row, and `RowsArrive` shows that this is what arrives, not that it is right.
7. **`HERMENEUS_DATABASE` has a default for the server only.** `README.md:74` has the
   default `default`; `StarRocks.Database` has none, and without it every Stream Load
   fails. `OnlyKeysAndTextsRefused` excepts it.
8. **Unsigned numbers.** Hashes are `UInt64` in `schema.go:67,77` and `BIGINT` in
   `migrations/0003_profiles.sql:6,20`, the flags of a trace `UInt32` in `schema.go:35` and
   `INT` in `migrations/0001_logs.sql:13`. The flags (2^31 and more) and the hash of a
   sample (2^63 and more) silently become NULL, and the INSERT is acknowledged. The hash
   of a stack is a key: its row, and with it the batch, is refused, and by way of Kafka it
   stops the Routine Load. `OnlyKeysAndTextsRefused` shows that else only texts that are
   too long can do that, and INSERTs that leave a key column out, which
   `insert.go:25-38` lets pass.

## 5. Proofs

All theorems are for every value of the constants: any connections, requests, blocks,
records, calls of `Write`, rows and words, and every interleaving of clients, handlers,
sink and process. Each is `Spec => []P`, or `Spec => A!Spec` for an abstract specification
`A`; those of `RecogniseProofs` are of every statement and table.

| Module | Theorem | States |
|---|---|---|
| `ChServerProofs` | `TypeCorrect`, `Invariance` | `TypeOK`, `IInv` |
| | `AckedIsStored` | `AckedInsertIsStored` |
| `ChServerServiceProofs` | `OrderInvariance`, `OnceInvariance` | `OrderInv`, `OnceInv` |
| | `BlocksStoredInOrder` | `StoredInBlockOrder` |
| | `WrittenOnce` | `NeverWrittenAgain` |
| | `ServiceImplemented` | `ImplementsService` |
| `ChServerDialogueProofs` | `DialogueInvariance` | `SyncInv` |
| | `RepliesMatch` | `RepliesMatchRequests` |
| | `NobodyWaitsForNobody` | `NoMutualWait` |
| | `ConfirmedStored` | `ConfirmedIsStored` |
| | `OnlyFailedInsertsDesync` | `OnlyFailedInsertDesyncs` |
| `InsertSinkProofs` | `SinkTypeCorrect`, `SinkInvariance` | `SinkTypeOK`, `SinkInv` |
| | `WriterImplemented` | `ImplementsSink` |
| `HermeneusProofs` | `JointInvariance` | `JointInv` |
| | `HermeneusServes` | `ImplementsServer` |
| | `RowsDurableInOrder` | `RowsInBlockOrder` |
| | `AckedRowsStored` | `AckedRowsDurable` |
| | `ServerHolds` | all invariants of the server, of the process |
| `QueryAnswerProofs` | `AnswerInvariance` | `AnswerInv` |
| | `ResultsComplete` | `ResultIsComplete` |
| | `ProbesGetTheirAnswers` | `ProbesAnswered` |
| `RecogniseProofs` | `AnswerHasItsColumns` | a shape is as long as the select list, of types `newAppender` knows |
| | `NoRuleTakesAnothers` | at most one of the first twelve rules matches |
| `IngestProofs` | `IngestInvariance` | `IngestInv` |
| | `LoadedAsSent` | `RowsArrive` |
| | `OnlyFaultsRefused` | `OnlyKeysAndTextsRefused` |
| | `KafkaLosesEvents` | `OnlyEventsLost` |

**Assumptions**, all on constants: `BoundsAssumption` (bounds are natural numbers) and
`InputsAssumption` (queries, flags and versions are among those modelled) of
`ChConnection`; `MaxHopsAssumption` (the loop of `put` has a turn) and `ModesAssumption`
of `StarRocksWriter`, and the same as `WriterAssumption` of `Hermeneus`;
`RowsAssumption` (a block has rows); `QueryAnswerAssumption` (a shape has a name and a
type of `newAppender` for each column); `IngestAssumption` (a header has a list of
names, and a row a value of its type for every column of a schema). TLC evaluates each
in a run.

### An acknowledged INSERT is stored

`AckedInsertIsStored` is not inductive: a handler acknowledges when it reads the end of
the INSERT, and that says nothing of blocks unless every block is in front of that end,
was read by this request, and was stored when the handler read on. `IInv` says so, for
each connection `c`:

- `LogInv(c)`, of what the client has written: where the client is (`ClientPlace`),
  requests and their packets in order (`RequestsInOrder`), a blank block behind every
  Query (`BlankBehindQuery`), an INSERT being sent has no end yet (`OpenInsert`), and no
  block stands behind an end (`NothingBehindEnd`);
- `HandlerInv(c)`, of what the handler has done with it: it stands among the packets of
  its request (`HandlerPlace`), what it has read of an INSERT is stored, but for the
  block of a `Write` that has not returned (`ReadBlocksStored`), and an acknowledged
  INSERT is stored and gets no more blocks (`AckedIsFinal`).

The proof follows that split. A step of a handler leaves the log alone (`LogFrame`); a
handler outside an INSERT changes little (`QuietStep` and its corollaries); `InsertSteps`
has the loop of `handleInsert`. A step of a client leaves the handler's place alone, and
the log grows by packets that the handler has not read (`LogAppend`, `LogQuery`,
`HandlerLonger`). `Inductive` puts one lemma per group of actions together.

### Blocks in order, and once

`StoredInBlockOrder` cannot stand alone either: a `Write` that fails may still be stored
later, when the sink settles. `OrderInv` adds that whatever the sink has been handed was
offered and stands behind blocks that are stored already (`HandedInOrder`), that a block
comes behind all earlier ones of its INSERT in the log (`BlocksInOrder`), and that a
client has sent what it has counted (`SentInLog`). With `IInv` it is inductive: the
handler reads block `n` only after the `Write` of block `n - 1` returned nil.

`NeverWrittenAgain` needs that no block stands in the log twice (`BlocksOnce`) and that
what the sink has, its handler has read (`HandedRead`): together `OnceInv`. The refinement
of `InsertService` follows from the three: a client's `SendBlock` is `Offer`, `Settle` is
`Store` in order, `EndInsert` is `Ack` of what is stored, and the rest stutters.

### Client and handler

The properties of the dialogue hold as long as the reader has the packet boundaries.
`SyncInv` says that client and handler are then in one of six phases together: `Greeting`,
`Resting` (nothing asked), `Ahead` (asked and not read), `InHand`, `Answered` (the reply
under way), `CutOff` (closed with the request in hand). A phase fixes what the client
waits for, where the handler is, what lies unread and what replies are on their way; the
first three properties are read off it, and `ConfirmedStored` follows with
`AckedIsStored`. It stays in phase because the handshake comes first, each request begins
with one Query or Ping (`LogSync`), and the reader leaves nothing of an INSERT behind
unless that has failed (`UnreadInsert`); the last is also why nothing else desynchronises
a reader. A step of one connection leaves the phase of another alone (`HandlerStays`), so
that each lemma is about one.

### The writers, and the process

`SinkInv` ties a call of `Write` to what it has caused: for StarRocks, an answer that
`Write` takes for success is on its way only when the load has been committed, and loads
stay so (`AnswerHolds`); for Kafka, what the client takes for acknowledged has been
appended (`AckedInLog`), and a nil result has all messages so. From it follow
`SinkTypeOK`, whose point is that `put` never takes a redirect beyond its loop, and
`WriteSink`: every step is `Begin`, `Keep` or `Return` of it, or a stutter.

`Hermeneus` shares its steps with both. Each is a step of the Writer or leaves it alone, so
that `SinkInv` carries over; and `IInv`, `OrderInv` and `OnceInv` carry over because each is
a step of `ChServer` or leaves it alone, for which `JointInv` is needed in turn. The proof
therefore takes all of them as one invariant, `HermeneusInv`. `OnceInv` is what makes a call
per block possible: a block is handed in once, so that its call has not begun. Then
`HermeneusServes` gives `ServerHolds`, and with what a stored block is (all its rows in the
transactions or the log) the two end-to-end theorems.

### The answer to a query

`AnswerInv` says of a result being read that each column has the cells of the rows
scanned, and one less behind the index of the inner loop (`ColumnsOfRows`), so that a
block is built only of whole rows; and that only a text no probe matches has got as far
as StarRocks (`ProbesFirst`). The first probe that matches is the one meant because no
earlier probe has all its words among those of a later one (`FirstMatch`), which is a fact
about the table of `system.go`.

### The rules of recognise

`ShapeFitsColumns` is checked over one edit of each query. `AnswerHasItsColumns` has its
core for any statement, whatever release sends it: every rule counts the columns of the
statement it matches (`RulesCount`), and its shape has as many (`AnswerList`), so that the
first rule to match gives one that fits. What is left to TLC is that the table is the
leftmost one, and the refusal of statements that the Reader cannot render.

The code asks the rules in an order, and a comment for each says which query it is meant
for. `NoRuleTakesAnothers` shows that the order of the first twelve does not matter: two
of them differ in the number of columns, in the table, or in what the first column is.
The last two look at a CTE called `samples` and at the number of columns only; they would
take statements of other rules, and have to be last.

### The rows of an INSERT

What is proved of a row follows its way. The four schemas and tables agree: a column in
both has types that go together (`Agree`, one lemma per table, `SchemasAgree`). A value,
decoded and written as JSON, is held by the column to the microsecond (`HeldOfOne`,
`HeldOfList`, `CellAsMeant`), and fits it if and only if it is not too large or too long
(`FitsColumn`); with what does not fit made NULL, that is the cell (`CellOfColumn`). The
key of a column in a document has no dot and belongs to no other column (`KeyOfName`,
`KeysDiffer`), so that its path leads back to its value (`AtJsonKey`); the key of a Kafka
message keeps the dot, and the path of the Routine Load takes it for a level, where there
is nothing (`AtField`). From the two come the column of a document (`FoundInLoad`,
`FoundInMessage`) and the row: `RowOfLoad` and `RowOfMessage` say what it is (`Stored`,
`Routed`), and that it may be refused only for a fault.

`RowsArrive` and `OnlyEventsLost` are of the table; until a message is consumed, its row
is in none. `IngestInv` therefore says where every row is: in the block, in the table
itself or by another one of its key, or in the topic as the message of its record
(`ByKafka`); that a row of a block has the columns of the header with values of their types
(`BlockRead`); that nothing is anywhere before it is acknowledged (`NothingYet`); and why a
write has failed or a Routine Load stopped (`FailedFor`). A row taken may replace another
of its key, which is then still in the table by the new one: `ConsumeKeeps` follows who
stands for whom.

### Only model-checked

- **Liveness**: `InsertAnswered`, `OnlyStarRocksStalls`, `EveryWriteReturns`,
  `WrittenBecomesVisible`, `WritesReturn`, `ShutdownCompletes`; the third and the fifth, and
  on the Kafka sink the first two, up to messages that a broker leaves unanswered.
- **Texts and trees**: `ExtractorReads`, `SameAnswer`, `CatalogueTranslated`,
  `ShapeFitsColumns` (but for its core, above) and `HeaderAsMeant`. They are about what
  recursive operators over texts and trees compute, which needs induction over data.
- That the names of a shape are strings: no prover here knows that of a string constant.
  `QueryAnswerAssumption` asks it of shapes, and TLC evaluates it for those of the catalogue.

`OnceInv`, `SyncInv` and `AnswerInv` are proved and in no run; TLC has checked them on the
instances of `inserts`, `dialogue` and `query_answer`.

## 6. Left out, and limits

- **`SameAnswer` and parentheses.** The AST keeps none and the Reader adds them to AND
  and OR only. With sums, as Coroot's filters have, that keeps the meaning; with a
  difference or a product it does not: `(a + b) * c` is rendered `a + b * c`. The terms
  built have `+` only, and the quotients of the catalogue have single columns.
- **`count(DISTINCT x)`** is kept in the AST and rendered `count(x)`. Coroot's queries have
  DISTINCT in `groupArray` only, which keeps it, and no edit adds one to a count.
- **StarRocks' loads.** When a text of a map or an array is too long the whole column is
  taken for a misfit; lengths count elements of a text, not bytes. Which row of a key a
  Stream Load leaves is open. Not modelled: the range of DATETIME, NULL as a partition, the
  limit of 128 bytes to an encoded primary key, an operator who resumes a paused Routine
  Load, and a message taken twice (offsets are committed with the rows, and the producer is
  idempotent).
- **A late Cancel.** The modelled client hangs up when it cancels; one that went on would
  see the exception the packet loop answers it with (`server.go:116`).
- **Times** are compared to the microsecond, which is what StarRocks' DATETIME and the six
  digits of `toDateTime64` keep of nanoseconds.
- **`derivedAliasSeq`** is incremented by concurrent handlers without a lock. The alias is
  rendered without its number; a query of Coroot's has one derived table, so that a lost
  increment gives two statements the same alias, which neither notices.
- **`roundDown`** drops the error of the builder of its own argument: an unmapped function
  in it is rendered `()`, which StarRocks refuses, so that the client still has an
  exception.
- **Letter case, white space, positions in errors**, and the characters of words and
  numbers: a lexeme that is no literal is one element of a text.
- **The SQL of insert mode.** What StarRocks makes of a text bound for an array or a map,
  and of the Links columns its table does not have, is its own matter: the statement fails
  or succeeds (`StarRocksWriter`).
- **Cell values** of results: `QueryAnswer` has whether a cell parses and where it goes,
  not time layouts, control characters or the canned values of probes.
- **Protocol versions**: clients newer than the server are not modelled.
- **Once-only storage** is promised within an INSERT only (`NeverWrittenAgain`): a client
  that repeats an INSERT whose answer it did not get has its blocks stored again, each
  under a fresh label.
- **Configuration**: ports, users, the server's name and version. **Schema**: materialized
  views and lookup tables, which are filled by StarRocks. **Deployment**: no steps.

## 7. Plan

Done, in this order: the wire server and its invariant; the writers; recognition and
query answering; the proof of the core; the composition of server and writers; queries
from text to text and what they mean; rows from INSERT to table; then the proofs of the
server's other safety properties and of the service, of the writers, of the composition,
and of the answer to a query; then of the rows of an INSERT, for which `Records` was freed
of recursion, and of the rules of `recognise`.

Next, by modelling: the negotiated version with newer clients; `derivedAliasSeq` as shared
state of concurrent handlers; the texts of insert mode. For a prover with induction over
data: that the extractor reads what `CorootSql` writes.
