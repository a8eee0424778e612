# A specification of audience-minutes

TLA+ models of the programs in this repository, checked with TLC and, where it
matters most, proved with TLAPS. The heart of the repository is `access2sql`:
it reads a web server's access log from stdin, looks up each visitor's country
and network, streams one row per hit into PostgreSQL through a worker thread,
and serves counters over HTTP. That is where threads, transactions, failures
and half-read input meet, and that is what is modelled first.

## The system

| Part | State it keeps | Operations | Talks to |
|---|---|---|---|
| Log parser (`access2sql.cc`: `Parser`, loop of `main`) | position in stdin, fields of the line | `getWord`, `getDelim`, `getNumber`, `skipToEol`; exceptions for a bad line and for end of file | lookups, writer, counters |
| Lookups (`support.cc`, `IITree.h`, `comboaddress.*`) | sorted array of intervals | load, `getCountry`, `getAS`, `getASName`, `getTimeFromLog` | called by main |
| PostgreSQL writer (`ext/sqlitewriter/psqlwriter.*`, on `minipsql.*`) | pipe of row pointers, batch per table, schema cache, transaction | `addValue`, destructor; worker `commitThread` | any caller, the server |
| SQLite writer (`ext/sqlitewriter/sqlwriter.*`) | open transaction, prepared statements, last signatures, schema cache, one mutex | `addValue`, destructor; `commitThread` that cycles the transaction | no longer linked into `access2sql` |
| Counters (`ac2web.hh`, `access2sql.cc:218-231`) | `g_metrics`, `g_tnus`, `g_metrics_mutex`; per label set a sliding window of addresses (`TimedNumUnique`) | `add`, `count`, `maintenance`, increments | main writes, web reads |
| Web server (`ac2web.cc`, on the vendored `httplib.h`) | accepted connections, queue of jobs, pool of threads | bind, accept, keep-alive, `GET /metrics`, close | clients, counters |
| `resproxy` | hits per address in a window | one query, one report | reads the database |
| `audience-minutes.js`, `repextract.awk`, `audience.ipynb` | activity flag, scroll position, count | events, timer; text extraction; plots | browser, log |

What is hard about it:

- *Threads.* Main, the writer's worker and the web server's pool run at once.
  Main and web share the counters under a mutex; main and worker share only the
  pipe, which blocks main when it is full.
- *Ordering.* Rows go through pipe, batch, per-table groups and a transaction.
- *Failure.* Every query can fail; nothing in the worker catches what then is
  thrown, and an exception that leaves a thread's function ends the process. A
  commit may have been done although its answer is lost. A failed `accept` takes
  the web server down while its threads have connections.
- *Timing.* Commits happen at most once a second and only after an insert; the
  window of addresses depends on a clock that moves between two reads of it.
- *Input.* A log line may be cut, empty or of another format, and the parser
  works on characters and not on lines; a file of ranges may hold anything.
- *Boundaries.* Prefixes that end within a byte, trees that are cut off on their
  right, ranges that are closed in the file and open in the tree, a window whose
  borders are disregarded, zones of half hours.
- *Occupancy.* A connection that is kept alive keeps one of few threads, and so
  does a request whose content goes on: there is no limit to it.

## Modules

| Module | Models | Lines of source |
|---|---|---|
| `DurableTables` | the abstract promise of a writer: rows handed over, a growing prefix of them stored for good | none: it is what `PSQLWriter` and `SQLiteWriter` implement |
| `PSQLWriter` | callers, pipe and worker of the PostgreSQL writer, the server's transaction and its failures, restarts | `psqlwriter.hh`, `psqlwriter.cc`, `minipsql.cc` |
| `PSQLWriterProofs` | theorems about it | |
| `LogParser` | `Parser` and the loop that drives it | `access2sql.cc:50-133, 171-242` |
| `LogParserProofs` | theorems about it | |
| `TimedNumUnique` | the sliding-window counter | `ac2web.hh:15-45` |
| `TimedNumUniqueProofs` | theorems about it | |
| `SQLiteWriter` | `addValue`, the commit thread and the destructor of the SQLite writer, SQLite's transaction, failures, restarts | `sqlwriter.hh`, `sqlwriter.cc` |
| `SQLiteWriterProofs` | theorems about it | |
| `Access2Sql` | main thread, mutex, counters and web threads, composed with an instance of `PSQLWriter` | `access2sql.cc`, `ac2web.cc` |
| `Access2SqlProofs` | theorems about it | |
| `IntervalTree` | building the implicit tree level by level, and its traversal | `IITree.h` |
| `Addresses` | texts and ports, order, truncation, mapped addresses, netmasks | `comboaddress.hh`, `comboaddress.cc` |
| `CountryDB` | loading a file of ranges and looking an address up; extends the two above | `support.cc:7-90` |
| `LogTime` | the time of a stamp in the log | `support.cc:114-136` |
| `ResProxy` | lone hits in a window; extends `Addresses` | `resproxy.cc` |
| `AudienceMinutes` | the script in the visitor's page | `audience-minutes.js` |
| `WebServer` | accept loop, thread pool, connections that are kept alive | `ac2web.cc:33-57`; `httplib.h:921-1004, 4379-4428, 5675-5703, 7026-7037, 8821-9090, 9231-9415, 9626-9849` |
| `IntervalTreeProofs`, `WebServerProofs`, `PartsProofs` | theorems about them; the last is about `CountryDB`, `Addresses`, `LogTime`, `AudienceMinutes` and `ResProxy` | |
| `MCParts` | the parts that stand alone, side by side, with constants for TLC | |
| `MC...` | constants for TLC | |

### PSQLWriter

`caller` is the thread that owns the writer, `pc` where the worker is in
`commitThread`: connecting, collecting a batch (lines 109-133), inserting
(137-244), deciding on a commit (246-250). `pipe`, `tabwork`, `lim`,
`sumparms`, `needWait` and `schemas` are the code's variables; `newSecond` is
the outcome of `prevcommit != time(0)`. `tx*` is the database as the worker's
open transaction sees it and `db*` what is committed. `submitted` is a history
variable: the rows handed over per table, cut back to what the database holds
when a crash loses the rest.

A value is reduced to its kind (REAL, TEXT or BIGINT), a row to the kinds of
its fields: the code looks at nothing else. Every message carries, as a ghost,
its position among the rows of its table, so that order and loss can be told
even among equal rows. Each action is one pass through a piece of the loop:
`Read` one successful `read`, `ReadAgain` the EAGAIN branch, `ReadEof` and
`Finish` the two branches at end of file, `Insert(t)` everything from the
schema lookup to `delete m` for one table, `CommitDue`/`CommitNotDue` the `if`
at line 246. `WorkerThrows` (connection, query or poll fails),
`InsertRefused` (the server rejects the statement) and `CommitUnacknowledged`
(the server commits and the connection dies before the answer) are the ways in
which the process ends with `std::terminate`; `Restart` is the next process on
the same database.

What PostgreSQL does is external: the model has that a transaction is atomic,
that a text parameter must be readable as its column's type, that a column
cannot be added twice and that a statement has at most `ServerMaxParms`
parameters. Left out: PostgreSQL's case folding (the code quotes names in
`ALTER` and not in `CREATE`), a pipe that could not be created (its read error
takes the branch at line 119 and leaves a batch behind), and a signal
interrupting `poll` apart from the exception it causes, which is one of
`WorkerThrows`.

### LogParser

The input is a sequence of tokens: space, newline, brackets and quote, each
character on its own, and runs of other characters by what `stol` and
`inet_aton` make of them (`address`, `number`, `text`). One action reads one
field; `Format` is the list of what `main` asks for, in order. `spans` holds
the fields of the current row by position, `rows` the rows given to
`addValue`. `Throw` is `catch(std::exception&)`, `Eof` the `EofException` that
ends `main`. Exactly which characters are consumed when an operation throws is
what this module is about. Addresses are IPv4 only (`inet_aton` accepts one
that is followed by white space and anything), numbers are in range.

### TimedNumUnique

`store` is `d_store`, one entry per `add`. `add` is two actions, because it
reads the clock twice: `AddExpire` (`maintenance`) and `AddPush`. `seen` and
`counted` are history. Calls do not overlap since both callers hold
`g_metrics_mutex`, which is what `Access2Sql` checks. The clock only goes
forward.

### SQLiteWriter

`stmts`, `lastsig` and `columns` are `d_stmts`, `d_lastsig` and `d_columns`;
`open` is whether SQLite has a transaction open and `intransaction`
(`d_intransaction`) whether the writer believes so, `tx*` and `db*` the database
inside of it and as committed. `d_mutex` covers all of `addValue` and all of
`cycle`, so each is one step, and it does not matter how many threads call
`addValue`. `addValue` has one action for each way in which it ends:
`AddValue`, `ColumnFails` (an `addColumn` throws, those before it are done),
`PrepareFails` (the old statement is gone) and `StepFails` (the statement is
left as it is). The commit thread is `Check`, and a nap that ends in `Nap` or in
`Cycle`; `CycleFails` is the exception that leaves the thread. A cycle commits and
begins by statements of its own and leaves `intransaction` as it was. The destructor
sets the flag (`Destroy`), joins (`Join`) and has its members destroyed:
`~MiniSQLite` commits if `intransaction` says so (`CommitAtEnd`, or
`CommitAtEndFails`), and then closes (`Close`), on which SQLite rolls back what
is not committed. Nothing in the model keeps `Close` from losing rows but that
the commit comes first, and that comes first only if the flag is set.

SQLite is external. The model has that a transaction is atomic; that a failed
statement is undone alone or takes the whole transaction with it (a full disk,
an I/O error), after which statements commit on their own and `commit` fails;
that a `STRICT` column takes values of its type or such as convert to it; that a
statement which was stepped and not reset refuses new bindings, and resets
itself at the next step with the bindings it had. Left out: names that differ
by case only, and a signature in which a name occurs twice, which SQLite
refuses when it prepares the statement. `d_pleasequit` is a plain `bool`; the
calls in the loop (`usleep`, the mutex) make every build read it again, and
that is what `Check` does.

### Access2Sql

The main thread's position `main` follows the loop body from a good line
through `addValue`, the lock, the three updates and the unlock; a malformed
line changes nothing here. Web threads render a page map by map under the
mutex, in the order in which the map is walked. The writer is an instance of
`PSQLWriter` on the same variables: `HandOver` is its `AddValue`, `Eof` its
`Destroy`, `Exit` its `Join`, and the worker and its failures run besides; when
the worker throws, everything ends. A unit of `bytes` is the size of one hit,
so that equal counters are a consistent page. There is no restart in this
module; `PSQLWriter` has it. When `main` returns, the detached web threads are
simply gone: that they may be running while globals are destroyed is undefined
behaviour and not resolved further.

### IntervalTree and CountryDB

`a` is the array with the code's indices from 0 (`Node(i)`), `lvl`, `last_i` and
`last` are the locals of `index_core`, `query`, `stack` and `out` those of
`overlap`. `std::sort` is not stable, and is exchanges of neighbours in any order
until starts are in order. A step of `index_core` is a level: the maxima of its
nodes do not depend on each other. A step of `overlap` is one cell taken from
the stack: `Scan` for a small subtree (`Scanned` is its loop over the array), `GoLeft`
and `GoRight` for the two visits of a larger one. The level up to which subtrees
are scanned is the constant `SmallLevel`, 3 in the code.

`CountryDB` reads any lines from a file, each of them reduced to what the code
looks at: how many commas there are, whether a newline follows, the two
addresses or that they are none, the country. `LoadLine`, `SkipLine` and
`LineThrows` are the ways in which an iteration ends, `GetCountry` begins a
traversal, `Country` is what is returned. The numbers of addresses are those of
both families in one range, as in the code, and `stop + 1` wraps.

### Addresses

An address is its bytes in network order; the number of bits in a byte and of
bytes in an address are constants. A bytewise mask is the number of low bits
that it clears, and an IPv4 netmask, a 32-bit number in the code, likewise. `ca`
is a `ComboAddress` in a program's hands, with an action per operation that
changes it; `nm` is a `Netmask`, constructed in one of three ways and never
changed. A text is a host or none, brackets or none, and what follows the
colon, a number or not; `ToInt` is what is left of a number once it is stored in an
`int` (`comboaddress.cc:95`), which is before its range is looked at: a port of
2^32 + 80 is taken for 80. Two ways to say the same are kept apart as in the code: `Matches` and
`MaskedNetwork` share nothing with `Truncated`, and `NetmaskExact` compares them.
A netmask text that names more bits than an address has is left out, since
`match` then reads past the address. The default `Netmask` has no family: its
address bytes are never initialised, so that two of them need not compare equal
although a comment says so (`comboaddress.hh:319`); nothing here compares them.

### LogTime

A stamp is a day number, three fields and a zone; `bad` is the first field at
which `strptime` stops, and what it has read until then counts. `ReadStamp` is
a stamp as a web server writes it for an instant and a zone, `ReadBroken` one
that is cut or has no zone.

### ResProxy

`db` is what the transaction sees. `Query` takes the rows in the window,
`ReadRow` is the loop over the result, `Judge` the loop over the hash map, in
any order. Addresses are counted by their text and reported by their value:
`Inserted` is `std::set::insert`, equal being what `operator<` cannot tell apart.
Times are whole seconds; the window's start and end are any.

### AudienceMinutes

The four events are actions; the random draw is an input of `ReportOrNot`.
`active` is history: in which intervals the user moved. A report is what the
server gets; whether it arrives is not modelled.

### WebServer

The thread of `launchWeb` is `server`: it binds, accepts and enqueues (`Accept`,
with `Notify` as a step of its own, since the condition variable is notified
after the mutex was given up), and when `accept` fails it shuts the pool down and
joins its threads. A worker of the pool sleeps, takes a job, and with it a
connection until that ends: `KeepAliveEnds`, `NotReadable`, `ReadMore`, `ContentFails`,
`ServeRequest`, `NotWritable` and `CountSpent` are the outcomes of the loop in
`process_server_socket_core`, `CloseSocket` the end of the job. Clients connect,
send and hang up as they like. A request is reduced to what the server can tell
apart in its head, and to whether there is more of its content, and whether that
is there to be read.

The head ends by itself: its lines and their number are limited, and a read waits
no longer than the time-out. The content does not. For POST, PUT, PATCH and DELETE
`routing` reads all of it before it finds that there is no handler and answers
404 (`httplib.h:9366-9415`); `payload_max_length_` is unlimited by default
(line 134), and the time-out is that of each read (5675-5703). So a client sends
a next piece (`SendMore`) as often as it likes, a thread reads it (`ReadMore`),
and when no piece comes, or one that cannot be decoded, that is an error and the
connection is kept (`ContentFails`); what still comes of the content is then a
bad request. A POST that announces no content is answered as one without: the
read that would see whether there is one after all ends by the time-out.

Time-outs have no duration: silence may end at any time in either way. Left out: everything that `launchWeb` does not set up (handlers but
for one path, files, ranges, streaming, TLS, `stop`), and a client that sends its
next request before it has an answer, which the server may lose with the buffer
it was read into.

What happens inside the handler, under its mutex, is `Access2Sql`'s subject; its
`Scrapers` are the workers here.

## Runs

| Run | Checks | Result |
|---|---|---|
| `writer` | two tables, one signature each; pipe of 2, batches of at most 3 messages or 4 values, 3 rows per table, with failures and restarts | `TypeOK`, `EveryRowOnceInOrder`, `CleanExitDurable`, `EveryBatchAccepted` hold; `DestructorReturns` and `BlockedCallerGoesOn` hold under fairness |
| `writer_mixed` | one table, three signatures, one of them with another type for a field | `SchemaCacheFresh` and the refinement `ImplementsDurableTables` hold, refused inserts included |
| `writer_isolation` | "We need isolation from database server failures" (`psqlwriter.hh:10`) | violated: a failing query ends the process |
| `writer_streaming` | "populate a database for you, in streaming fashion" (`access2sql.cc:21`) | violated: the last rows stay uncommitted while the input is silent |
| `writer_mixed_limit` | the limit at `psqlwriter.cc:109` keeps an insert within the protocol, for several signatures (`psqlwriter.hh:15-17`) | violated: padding NULLs are not counted |
| `timed_unique` | two strings, a window of 2 seconds, 5 seconds, up to 4 entries | `TypeOK`, `Window`, `CountExact` hold |
| `log_parser` | all logs of one to four lines out of two good and ten other forms, with and without the last newline | `TypeOK`, `Recovers`, `RowsFromOneLine` hold |
| `log_parser_skip` | "Delimiter not found on line, skipping" (`access2sql.cc:121`) | violated: the next line is skipped as well |
| `access2sql` | two label sets, two web threads, pipe of 1, batches of 2, three hits | `TypeOK`, `PagesConsistent`, `CountsFollowRows`, `ExitComplete`, `ScrapeAnswered` hold |
| `sqlite_writer` | one table, four rows with three lists of fields and a second type for one of them; a cycle every second nap, two rows in the table | `TypeOK`, `StatementMatchesSignature`, `ColumnsFresh`, `NoRowMixed`, `ClosedDurable` and the refinement `ImplementsDurableTables` hold; `InsertedIsCommitted` and `DestructorReturns` hold under fairness |
| `sqlite_writer_step` | "this needs to be an error checking loop" (`sqlwriter.cc:87`) | violated: the row of a failed call is stored in place of the next one |
| `parts` | seven parts that do not interact, one of them per behaviour; bounds below | `MaxOfSubtree`, `OverlapExact`, `StackBounded`, `AnswerRight`, `NetmaskExact`, `TruncateExact`, `SameInstant`, `NoNeighbour`, `ReportsCountIntervals`, `InOnePlace`, `NothingLeftBehind`, `ToldBeforeClosed` hold; `EveryConnectionEnds` holds under fairness |

`parts` is one run because none of its parts shares state with another: its
state space is the sum of theirs and not the product, and each property speaks of
one part.

What the properties say:

- `EveryRowOnceInOrder`: for each table, the rows handed over are, in order,
  those committed, those inserted, those in the batch and those in the pipe;
  nothing is missing, doubled or swapped. `IInv` adds the types and the life
  cycle (a worker that returned left nothing uncommitted) that make it
  inductive.
- `ImplementsDurableTables`: seen from outside, the writer is `DurableTables`,
  also when a commit is not acknowledged. The SQLite writer is too, where a row
  counts as handed over once it is inserted, and one that is inserted without a
  transaction is stored at once (`DirectSpec`): neither a rollback, a failed
  cycle nor a restart takes back, doubles or reorders what is committed.
- `EveryBatchAccepted`: with one signature per table, as `access2sql` has it,
  an insert never has too many parameters, never names a column that is not
  there and never adds one that is. The run takes a batch to its limit in
  values (4, with rows of 2) and the server's limit is just above, as 60000
  and 65535 are. It also relies on every row being smaller than the
  difference.
- `SchemaCacheFresh`: cache and columns agree across widening, commits and
  restarts.
- `Recovers`: whatever was before, of two good lines in a row the second is
  stored exactly once. `SkipsOnlyBadLines`, the stronger claim, is false: what
  ends a line within quotes, brackets or numbers also costs the following one.
- `RowsFromOneLine`: fields of different lines never mix, with the one
  exception that a line of nothing but an address runs into the next, so that
  the address then has two lines in it.
- `PagesConsistent`: a page never shows a hit in one counter and not in
  another. `CountsFollowRows`: counters and rows handed over differ by at most
  the row in progress. `ExitComplete`: at a normal end the database holds
  exactly what was counted.
- `ScrapeAnswered`: a page is rendered even if the database never answers and
  no line ever comes, because main blocks on the pipe outside of the mutex.
- `StatementMatchesSignature` and `ColumnsFresh`: whichever step of an
  `addValue` fails, a statement that will be used again is the one for the
  fields last named, and the cache has the columns of the table; the latter
  only until SQLite rolls back, which the next cycle turns into the end of the
  process. `NoRowMixed` is what they are for: no value lands in another field's
  column and no row is made of two. `StoresOwnRow`, the stronger claim, is
  false after a failed step.
- `InsertedIsCommitted`: rows are committed within a cycle, also when no more
  come. `ClosedDurable`: when the writer is gone, so is its thread, and the
  database has every row that SQLite did not roll back before; that is, no cycle or
  rollback leaves the flag unset while rows are uncommitted, and nothing is
  inserted between the last commit and the close.

- `MaxOfSubtree` and `OverlapExact`: the tree is right wherever the array ends,
  also where a node's right child is outside of it and stands for a subtree that
  is partly inside. `StackBounded`: the 64 cells suffice, since no array has
  2^64 nodes.
- `AnswerRight`: whatever else is in the file, an address gets the range that
  contains it, and the first to start of several. A range that ends in the last
  IPv6 address is never found, since its open end wraps to 0: the property leaves
  such ranges out and so states where the code is exact.
- `TruncateExact`: of any address that a program comes to have, and for any
  length, `truncate` keeps the bits up to it and zeroes the others, and one that is
  as long as the address or longer changes nothing; family and port stay.
  `NetmaskExact`: no bit too many or too few at any length, in both families, by
  each of the constructors.
- `SameInstant`: what `testrunner.cc` has one case of, for zones to both sides
  and by half hours, across midnight.
- `NoNeighbour`: an address that is reported had one hit and no other within the
  border, in the whole database and not only in the window. The query's strict
  bounds and the borders' inclusive ones fit.
- `ReportsCountIntervals`: however the draws fall, a report's count is that of
  the intervals in which there was activity.
- `InOnePlace` and `NothingLeftBehind`: no connection is served or closed twice,
  and none stays open with nobody to serve it, also when `accept` fails while
  jobs are queued and threads asleep. `ToldBeforeClosed`: a connection that has
  had its number of requests is closed after an answer that said so.
  `EveryConnectionEnds`: whatever clients do, a thread comes back from them,
  unless one sends a content without end, which keeps a thread for good. So if
  there are fewer such clients than threads, every other connection ends, those
  that wait in the queue included. Without that condition the claim is false, and
  as many such clients as threads are enough to refute it.

`CHECK_DEADLOCK FALSE` stands where the system stops: at the end of the input,
of the process, or of the bounded clock. The passing runs of the two writers check
deadlock; there, restarts keep things going.

### Bounds

Pipe, batch and table sizes only matter by who reaches them first: with a pipe
of 2, batches of 3 messages or 4 values, and 3 rows per table, the runs see a
full pipe, a batch closed by its message count, one closed by its values, one
closed by an empty pipe and one by end of file, each with work left over and
with none. Values per row are 1 and 2, so that both limits can be the first.
Three rows suffice for a row in each of database, transaction and memory. For
the parser a malformed line can only affect the next one, and four lines hold
every pair of malformed lines followed by two good ones. For the window, 5
seconds are two windows and a bit. In the SQLite writer two rows are what it
takes for a statement to be used again, and again after another; a period of 2
has naps with and without a cycle.

For the parts: addresses have bytes of two bits, two of them for IPv4 and four for
IPv6, so that every prefix length is within a byte, at its end or beyond its
family; the hosts include the first and the last of each, mapped ones, and
neighbours at each byte. Scanning starts below level 1 (`SmallLevel` 0), or no
small tree would be traversed; files of up to 4, 5 and 10 ranges give trees of
every size up to 10, where a root's absent right child needs `last` from a level
above the leaves. The files have the last address, a range the wrong way round,
and every kind of line that is skipped or throws. Two hits in a database suffice
to be neighbours; the times run from before to after both windows, with a border
of 2. Two connections, a backlog of 1, at most 2 requests each and pools of one
and of two threads have connections that wait for a thread and threads that
wait for a connection; with two threads one of the clients may go on for ever,
with one none. Requests are a page asked for with a content that comes in pieces,
one from a client that speaks HTTP/1.0, a head that is cut and a bad one. An `int`
has 12 bits (`IntMod`), with a number that is negative, one that is none, one past the
range of ports and one past that of an `int`. `ZeroDate` is nearer than in the code, whose seconds
would not fit TLC's 32 bits. Every bound is a named constant
(`MaxPerTable`, `MaxTime`, `MaxStore`, `MaxLines`, `MaxHits`, `MaxIntervals` and
`most` of a file, `MaxRows`, `MaxPeriods`; one netmask per behaviour).

### Fairness

`PSQLWriter!FairSpec`: the scheduler runs the worker (`WF(Worker)`) and the
thread that joins it, and the clock goes on. Callers, failures and restarts
have no fairness. Its query calls return: a server that hangs is not in this
specification. `Access2Sql!Spec` assumes less of the writer, namely nothing:
the worker may stand still for ever. It assumes that a thread that holds the
mutex runs on, and that a web thread which finds the mutex free again and again
gets it (strong fairness on the lock; `std::mutex` promises no order, but its
implementations do wake waiters, and handlers are short).

`SQLiteWriter!FairSpec`: the commit thread and the thread that destroys the
writer are run; calls of `addValue` are finite in number, so that the commit
thread gets the mutex.

`MCParts!Spec`: only the web server's threads go on (`WF` of `LaunchWeb` and of each
worker), which a scheduler gives them; that a wait for a silent client ends is
its time-out. `accept` need not fail, and no client has to do anything: that a
content ends is a hypothesis of `EveryConnectionEnds`, for the clients of which
it is true, and no assumption.

## Proofs

`tlapm` checks every proof to the last leaf. All theorems hold for every value
of the constants under the named assumptions (`TablesAssumption`,
`RowsAssumption`, `LimitsAssumption`, `WindowAssumption`, `TreeAssumption`,
`ProxyAssumption`, `WebAssumption`, `RequestsAssumption`, `ScrapersAssumption`,
`TimeAssumption`, `LinesAssumption`, `LabelsAssumption`, `SizesAssumption`,
`HostsAssumption`, `PortsAssumption`, `FilesAssumption`): tables are numbered,
fields are finitely many, rows give each of their fields a kind and are not
empty, limits are natural numbers and positive where the code's are, a host is
of as many bytes as its family says, ports are numbers, and a file of ranges has lines of any kind
but no country called "??", which is the answer for none. A theorem that needs more
says so in its hypotheses; those are discussed where it is.

*The writer.* `EveryRowOnceInOrder` alone is not inductive: `Join` needs to
know that a returned worker left pipe and batch empty and everything committed,
and `Finish` must establish it. `IInv` is the conjunction of the types, the
per-table order and that life cycle. The order is stated for one table over
plain sequences (`InOrder`), and there is a lemma for each thing a step can do
to it: `AddOwn`/`AddOther`, `ReadOwn`/`ReadOther`, `InsertOwn`, `CommitOwn`,
`OnlyStored` (a crash). `NextOrder` then has one step per action, `NextLifeCycle`
likewise, and `Invariant` concludes. From `IInv` follow `OnceInOrder`,
`CleanExit` (lemma `NothingInMemory`: with nothing in memory, all was inserted)
and `Refinement`: each step is a `Submit`, a `Commit`, a `Crash` or a stutter
of `DurableTables`, whose guards are `InOrder`'s two prefixes. `TypeCorrect` has
the limits of pipe and batch in it and `CacheFresh` is an induction of its own
on the types.

*No batch refused.* `BatchesAccepted` has two hypotheses, both true of `access2sql`
and neither of every caller: no field of a table has values of two kinds
(`OneKindPerField`), and for each table either all rows have the same fields, so that
what the limit on values lets through is within the server's, or the limit on
messages is low enough by itself (`BatchesFit`). Without the second, the run
`writer_mixed_limit` refutes the claim. `AcceptInv` has, per table, that values and
messages in the batch are within the worker's limits (`WithinLimits`, `Share` being
the product that `Read` adds to), and that columns, committed or not, have the
kinds of the rows (`KindsKept`).

*The window.* `Window` is inductive with the types: entries are sorted by
expiry because the clock only goes forward (`PushWindow`), so what
`maintenance` drops from the front is all that is expired and nothing else
(`MaintenanceDrops`). `CountCorrect` then equates the strings left with those
recently added.

*The SQLite writer.* The properties of the run `sqlite_writer` that are
invariants are proved, from an inductive invariant of their own (`IInv` in
`SQLiteWriterProofs`). Beyond them it has that the bindings of a statement that
was not reset are those of one row of its fields (`OwnBindings`), which is why a
failed step may store the wrong row but never a mixed one (`OneRow`); that all
that is stored was handed over (`FromRows`); that nothing is uncommitted without
a transaction (`NothingPending`); and that a writer that is gone has neither
transaction nor cache (`ClosedAtRest`), which the next process starts from.
`DestructorCommits` rests on two more. `Ending`: an open transaction is one the writer
knows of, up to the last commit, and from the join on the thread has
returned. `AllAccepted`: every row accepted is in the database that the transaction
sees. With `NothingPending` the close then finds nothing to roll back.
`Refinement` adds that what is committed is a beginning of what was inserted
(`Pending`): `AddValue` is then a `Submit` or, without a transaction, a `Store`,
a cycle and `CommitAtEnd` are a `Commit`, a rollback and a process that dies a
`Crash`, and `Close` is a stutter. The assumption on rows is that each has a field and names each field once.

*Pages.* `ConsistentPages` needs no more of the writer than that its steps leave
the counters alone. `PagesInv` has that whoever is at the counters holds the
mutex alone, how far the counters are apart at each position of main, and that a
page that is being rendered agrees so far with counters that cannot move.

*Access2Sql.* The theorems about the writer are used here, and not proved again:
`UsesWriter` shows that each step of the composition is one of the writer or leaves
it alone, so that the writer's `IInv`, through an instance of `PSQLWriterProofs`,
holds of `Access2Sql` too. `CountsFollow` is about a sum over label sets: `HitsInv`
has rows handed over that are the sum of `queries`, and one more between `addValue`
and the update (`Ahead`), whence also the ranges of the counters in `TypeCorrect`. What
an update does to the sum is a lemma on sums over a finite set. `CompleteExit`
combines it with the writer's `CleanExitDurable`.

*The parser.* `RowsOnOneLine`: the input is lines laid end to end (`Layout`), each
token belongs to one of them, and the reader's operators, which search forward, stop
in the line they are in, unless a word is ended by the newline. `RowsInv` has that the
fields read are on the reader's line (`InLine`), or that a word took the newline with
it and at most two words of the next line were read since (`Broken`): what must come
then opens with a bracket or a quote. The hypothesis `ThreeWords` says that no line
has such a field among its first three words. For arbitrary lines the claim is false,
and a server never writes such a line: address, identity and user stand first.
`MCLogParser` assumes `ThreeWords` of the run's lines, so that TLC evaluates it there.
`TypeCorrect` is the module's type invariant.

`RecoversFromAnyLine` is about every log whose good lines are `InFormat`: from its
first character on, such a line has the twelve fields that the loop asks for, each
with what ends it, and spaces only between them. Of the other lines nothing is
assumed, not even `ThreeWords`. `MCLogParser` gives the positions of the fields of the
run's good lines, and TLC evaluates that they are in format. `RecoverInv` has two parts.
`OnGoodLine` says that on a good line the parser is skipping or right behind
one of its fields (`Reads`): with all of the line's fields so far (`ReadsNext`), or
with up to two of its words counted as fields of a line before (`Astray`), which ends
in an exception before this line does (`ReadsAstray`). No step passes over a good line
(`StepReaches`): its first space ends any word, the newline before it anything else.
So the parser comes to the next line at its first character with no field read, and a
good line there goes from `Ahead` to `Reading` to `Done`. That it is stored once and
not twice is `Done`'s last conjunct: a row that begins later has its first
field behind the line.

*The tree.* `MaximaAreRight` and `OverlapIsExact` are about every array, of any
length. The provers have no induction over data, so statements for every level or
length are proved for the least natural number that would not have them
(`SetInduction`). Levels are about powers of two: a node of level k is
`2^k - 1` modulo `2^(k + 1)` (`LevelForm`), its children, its parent and the range of
nodes below it (`Lo..Hi`) follow from that (`Children`, `Parent`, `SameNode`).
`MaximaInv` has that the levels done have the maxima of their subtrees (`LevelsDone`,
`RightAt`), and what `last` is for: it is the maximum below the node `last_i` of the
level last done, the one, inside the array or not, that has the array's last leaf
below it. That is what the next level takes for a right child which is not there.
`Covered` has that the root has the whole array below it. `TraversalInv` says what a
cell on the stack stands for: one that was not seen before for its subtree, one whose
left side was visited for its node and its right side (`Lo`, `Hi`). Every hit is out
or below some cell, the cells follow each other in the array from the top of the
stack down, and what is out is to the left of them all (`Remaining`, `CellRight`,
`Downwards`); each step replaces the top cell by what is left of it (`Replaced`). That
starts are in order is where a search may end early (`Sorted`), and that a subtree
with too small a maximum is not entered is where `MaxOfSubtree` is needed.

`StackFits`: the nth cell from the bottom of the stack is at least
n - 1 levels below the root (`Falling` in `TreeInv`), so that there are at most
`max_level + 1` cells; that the root's level fits the array is established by
`index_core`'s loop condition.

*The lookup.* `DatabaseIsTree` shows that what `CountryDB` does with its tree is what
a tree may do, so that the theorems above hold of it. `CountryInv` adds that
the array has the lines kept and no others, in whatever order (`Entries`), and that
one number is asked for. `AnswersAreRight` then follows: the first hit of the
traversal is the range that starts first of those that contain the address. A host's
number is below two to the power of its bits (`UptoBound`), so that `stop + 1` wraps
for the last address only, which the property leaves out. That "??" names no country
is an assumption on the file; with it as a name, the answer would say two things.

*Addresses and netmasks.* An address's number is a recursive function of its bytes;
`NumberPrefix` says what its quotient by a power of two is, the whole bytes before the
cut and the high bits of the byte that is cut, and `SamePrefix` that two addresses
agree up to a length exactly if these quotients are equal. `TruncatesExactly` then goes
byte by byte (`TruncatedCells`): bytes before the cut stay, the one cut loses its low
bits (`Cleared`), those after it are 0. `NetmasksExact` rests on `AddressInv`, which
has that the bytes are those of the family and the mask one that a constructor can
make. For IPv4 the code masks a 32-bit number, for IPv6 it goes by bytes; the first is
brought back to bytes by `NumberBytes` (`MaskedTruncated`), and `MatchesPrefix` is the
common ground of `match` and `truncate`.

*The lone hits.* `ReportedAlone`: the counts are those of the rows read
(`ProxyInv` says: a count of 1 means that the row is the only one of its text
that was in the window), and a row outside of the window is a border away from
any that is not near its ends.

*The web server.* `OnePlace` and `NothingLeft` share `WebInv`: the types, which
thread state goes with which connection in hand, and which connections are
in the backlog, the queue or a thread's hands while the client's end is open.
That a thread only leaves the pool when it shuts down and the queue is empty is
what makes the end clean. `CloseIsAnnounced` is a second induction on top of
`WebInv`: a thread whose connection has no request left has told it so (`Told`).

*Small parts.* `ZoneDoesNotMatter` is arithmetic: fields and zone add up again
(`FieldsAddUp`, `ZoneAddsUp`). `ReportsRight`: in `PageInv` the flag says what
the interval under way has seen, and the count is that of the intervals before.

*Only model-checked.* Everything under fairness (`DestructorReturns`
of both writers, `BlockedCallerGoesOn`, `ScrapeAnswered`,
`InsertedIsCommitted`, `EveryConnectionEnds`). Every other property of a passing run
that is an invariant is stated by a theorem.

## Plan

The order is by importance: the writer, what feeds it, what is composed with
it, then the parts that stand alone.

1. Done: `DurableTables`, `PSQLWriter` and proofs; `TimedNumUnique` and proofs;
   `LogParser` and proofs; `Access2Sql` and proofs.
2. Done: `SQLiteWriter` and proofs, its refinement of `DurableTables` with them.
3. Done: `IntervalTree` and proofs, `CountryDB` on top, with its proof.
4. Done: `Addresses` and `LogTime`, both with proofs.
5. Done: `ResProxy` and `AudienceMinutes`, both with proofs; `WebServer` and
   proofs.
6. Left: `getAS` and `getASName`.

## Not modelled

`addMetric`, `repextract.awk` and `audience.ipynb` (text and plots, no state);
`testrunner.cc` and the vendored `doctest.h`; all of the vendored `httplib.h` that
`launchWeb` does not run: clients, TLS, multipart, ranges, streaming, compression
and the parsing of what comes in. These two files are 23,034 of the 25,334 lines
of implementation, so that models of the repository's own code, with the pool and
the connections of the web server, stand for a small share of all lines.
Also left out are the prepared statements of `minipsql.cc` and the orders of
`Netmask` (nothing calls them); `getAS` and `getASName`, which cut a text;
memory use, such as that `g_tnus` and `g_metrics` never lose a key; the build files.
