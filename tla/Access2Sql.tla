----------------------------- MODULE Access2Sql ------------------------------
(***************************************************************************)
(* The program access2sql (access2sql.cc, ac2web.cc): its main thread      *)
(* parses the log and hands rows to the PostgreSQL writer, then counts     *)
(* them under g_metrics_mutex; the web server's threads render /metrics    *)
(* under the same mutex; the writer's worker runs besides.                 *)
(*                                                                         *)
(* A line is abstracted to what main makes of it (LogParser has the rest): *)
(* a hit, something malformed, or the end of the input.  A hit is its      *)
(* label set; all hits have the same row and size.                         *)
(***************************************************************************)
EXTENDS Integers, Sequences, FiniteSets, FiniteSetsExt

CONSTANTS Labels,    \* label sets: host, ipv, bot, status
          Scrapers,  \* threads of the web server
          Fields, Rows, PipeCap, MaxBatch, MaxParms, ServerMaxParms,
          MaxHits    \* bound: good lines in the log

ASSUME ScrapersAssumption == "main" \notin Scrapers

ASSUME LabelsAssumption == IsFiniteSet(Labels)

\* The one table that access2sql writes to.
Data == 1

VARIABLES caller, pc, pipe, tabwork, lim, sumparms, needWait, schemas,
          newSecond, txRows, txCols, dbRows, dbCols, submitted,  \* the writer
          main,     \* where the main thread is
          hit,      \* the labels of its current line
          holder,   \* who holds g_metrics_mutex, as a set
          queries,  \* g_metrics: {"queries", labels}
          bytes,    \* g_metrics: {"bytesSent", labels}, in sizes of a hit
          ips,      \* g_tnus: addresses added
          web,      \* web[s]: where web server thread s is
          page      \* page[s]: what it has rendered

writer == <<caller, pc, pipe, tabwork, lim, sumparms, needWait, schemas,
            newSecond, txRows, txCols, dbRows, dbCols, submitted>>
counts == <<queries, bytes, ips>>
server == <<web, page>>
vars   == <<writer, main, hit, holder, counts, server>>

W == INSTANCE PSQLWriter WITH
       Tables <- {Data},
       Messages <- [table : {Data}, row : Rows],
       MaxPerTable <- MaxHits

\* What the writer assumes of its parameters
ASSUME RowsAssumption ==
  /\ IsFiniteSet(Fields)
  /\ \A r \in Rows : /\ DOMAIN r \subseteq Fields
                     /\ DOMAIN r # {}
                     /\ r \in [DOMAIN r -> W!Kinds]

ASSUME LimitsAssumption ==
  /\ {PipeCap, MaxBatch, MaxParms} \subseteq Nat \ {0}
  /\ {ServerMaxParms, MaxHits} \subseteq Nat

Zero == [l \in Labels |-> 0]
NoPage == [queries |-> Zero, bytes |-> Zero, ips |-> Zero]

TypeOK ==
  LET Counters == [Labels -> 0..MaxHits] IN
  /\ W!TypeOK
  /\ main \in {"reading", "adding", "locking", "ips", "queries", "bytes",
               "unlocking", "closing", "exited", "dead"}
  /\ hit \in Labels
  /\ Cardinality(holder) <= 1 /\ holder \subseteq Scrapers \cup {"main"}
  /\ queries \in Counters /\ bytes \in Counters /\ ips \in Counters
  /\ web \in [Scrapers -> {"idle", "locking", "bytes", "queries", "ips",
                           "gone"}]
  /\ page \in [Scrapers -> [queries : Counters, bytes : Counters,
                            ips : Counters]]

Init ==
  /\ W!Init
  /\ main = "reading"
  /\ hit \in Labels
  /\ holder = {}
  /\ queries = Zero /\ bytes = Zero /\ ips = Zero
  /\ web = [s \in Scrapers |-> "idle"]
  /\ page = [s \in Scrapers |-> NoPage]

-----------------------------------------------------------------------------
(* The main thread *)

\* A good line has been read.
ReadHit(l) ==
  /\ main = "reading"
  /\ Len(submitted[Data]) < MaxHits
  /\ hit' = l
  /\ main' = "adding"
  /\ UNCHANGED <<writer, holder, counts, server>>

\* Faulty (here and below: what the mutation runs put in the place of the
\* definition that follows): the mutex is taken before the row is handed over.
HandOverLocked ==
  /\ main = "adding"
  /\ \/ holder = {} /\ holder' = {"main"} /\ UNCHANGED <<writer, main>>
     \/ /\ holder = {"main"}
        /\ \E r \in Rows : W!AddValue([table |-> Data, row |-> r])
        /\ main' = "ips"
        /\ UNCHANGED holder
  /\ UNCHANGED <<hit, counts, server>>

\* Faulty: a non-blocking pipe, whose full buffer nobody notices.
HandOverOrDrop ==
  /\ main = "adding"
  /\ \/ \E r \in Rows : W!AddValue([table |-> Data, row |-> r])
     \/ Len(pipe) = PipeCap /\ UNCHANGED writer
  /\ main' = "locking"
  /\ UNCHANGED <<hit, holder, counts, server>>

\* sqw.addValue, which waits while the pipe is full.
HandOver ==
  /\ main = "adding"
  /\ \E r \in Rows : W!AddValue([table |-> Data, row |-> r])
  /\ main' = "locking"
  /\ UNCHANGED <<hit, holder, counts, server>>

\* Faulty: no lock.
EnterUnlocked ==
  /\ main = "locking"
  /\ holder' = holder
  /\ main' = "ips"
  /\ UNCHANGED <<writer, hit, counts, server>>

\* lock_guard
Lock ==
  /\ main = "locking"
  /\ holder = {}
  /\ holder' = {"main"}
  /\ main' = "ips"
  /\ UNCHANGED <<writer, hit, counts, server>>

\* g_tnus[labels].add(ip)
CountIp ==
  /\ main = "ips"
  /\ ips' = [ips EXCEPT ![hit] = @ + 1]
  /\ main' = "queries"
  /\ UNCHANGED <<writer, hit, holder, queries, bytes, server>>

CountQuery ==
  /\ main = "queries"
  /\ queries' = [queries EXCEPT ![hit] = @ + 1]
  /\ main' = "bytes"
  /\ UNCHANGED <<writer, hit, holder, bytes, ips, server>>

CountBytes ==
  /\ main = "bytes"
  /\ bytes' = [bytes EXCEPT ![hit] = @ + 1]
  /\ main' = "unlocking"
  /\ UNCHANGED <<writer, hit, holder, queries, ips, server>>

\* The lock_guard goes out of scope, then skipToEol.
Unlock ==
  /\ main = "unlocking"
  /\ holder' = holder \ {"main"}
  /\ main' = "reading"
  /\ UNCHANGED <<writer, hit, counts, server>>

\* EofException: ~PSQLWriter closes the pipe ...
Eof ==
  /\ main = "reading"
  /\ W!Destroy
  /\ main' = "closing"
  /\ UNCHANGED <<hit, holder, counts, server>>

\* Faulty: the process ends without waiting for the worker.
ExitAtOnce ==
  /\ main = "closing"
  /\ main' = "exited"
  /\ web' = [s \in Scrapers |-> "gone"]
  /\ UNCHANGED <<writer, hit, holder, counts, page>>

\* ... and waits for the worker; then main returns, which ends the process.
Exit ==
  /\ main = "closing"
  /\ W!Join
  /\ main' = "exited"
  /\ web' = [s \in Scrapers |-> "gone"]
  /\ UNCHANGED <<hit, holder, counts, page>>

-----------------------------------------------------------------------------
(* The web server: a request for /metrics *)

Request(s) ==
  /\ web[s] = "idle"
  /\ web' = [web EXCEPT ![s] = "locking"]
  /\ page' = [page EXCEPT ![s] = NoPage]
  /\ UNCHANGED <<writer, main, hit, holder, counts>>

\* Faulty: the mutex is taken as a shared one.
LockPageShared(s) ==
  /\ web[s] = "locking"
  /\ holder' = holder \cup {s}
  /\ web' = [web EXCEPT ![s] = "bytes"]
  /\ UNCHANGED <<writer, main, hit, counts, page>>

LockPage(s) ==
  /\ web[s] = "locking"
  /\ holder = {}
  /\ holder' = {s}
  /\ web' = [web EXCEPT ![s] = "bytes"]
  /\ UNCHANGED <<writer, main, hit, counts, page>>

\* g_metrics is walked in the order of its keys: "bytesSent", "queries".
RenderBytes(s) ==
  /\ web[s] = "bytes"
  /\ page' = [page EXCEPT ![s].bytes = bytes]
  /\ web' = [web EXCEPT ![s] = "queries"]
  /\ UNCHANGED <<writer, main, hit, holder, counts>>

RenderQueries(s) ==
  /\ web[s] = "queries"
  /\ page' = [page EXCEPT ![s].queries = queries]
  /\ web' = [web EXCEPT ![s] = "ips"]
  /\ UNCHANGED <<writer, main, hit, holder, counts>>

\* g_tnus, then set_content and the end of the lock_guard's scope.
RenderIps(s) ==
  /\ web[s] = "ips"
  /\ page' = [page EXCEPT ![s].ips = ips]
  /\ holder' = holder \ {s}
  /\ web' = [web EXCEPT ![s] = "idle"]
  /\ UNCHANGED <<writer, main, hit, counts>>

-----------------------------------------------------------------------------
(* The writer's worker and the clock, and what ends the process with them *)

WorkerRuns ==
  /\ W!Worker \/ W!Tick \/ W!WorkerThrows \/ W!CommitUnacknowledged
  /\ IF caller' = "killed"
     THEN /\ main' = "dead"
          /\ web' = [s \in Scrapers |-> "gone"]
          /\ UNCHANGED <<hit, holder, counts, page>>
     ELSE UNCHANGED <<main, hit, holder, counts, server>>

Main ==
  \/ \E l \in Labels : ReadHit(l)
  \/ HandOver \/ Lock \/ CountIp \/ CountQuery \/ CountBytes \/ Unlock
  \/ Eof \/ Exit

Render(s) == LockPage(s) \/ RenderBytes(s) \/ RenderQueries(s) \/ RenderIps(s)

Next == \/ Main
        \/ \E s \in Scrapers : Request(s) \/ Render(s)
        \/ WorkerRuns

\* Both threads that hold the mutex run on, and a thread that time and again
\* finds it free gets it in the end.  Nothing makes lines come in, the worker
\* or the database answer, or anybody ask for a page.
Spec ==
  /\ Init /\ [][Next]_vars
  /\ WF_vars(CountIp \/ CountQuery \/ CountBytes \/ Unlock)
  /\ \A s \in Scrapers : WF_vars(Render(s)) /\ SF_vars(LockPage(s))

-----------------------------------------------------------------------------
(* Properties *)

Total(f) == MapThenSumSet(LAMBDA l : f[l], Labels)

(* A page shows every hit in all its counters or in none: /metrics never     *)
(* catches main between two of its updates (access2sql.cc:218-230 and        *)
(* ac2web.cc:40-48).                                                         *)
PagesConsistent ==
  \A s \in Scrapers : web[s] = "idle" =>
     page[s].queries = page[s].bytes /\ page[s].queries = page[s].ips

(* While the program runs, the counters follow the rows handed over: at most *)
(* the last one is not yet counted (access2sql.cc:213-230).                  *)
CountsFollowRows ==
  main # "dead" =>
     Len(submitted[Data]) - Total(queries) \in
        (IF main \in {"locking", "ips", "queries"} THEN {1} ELSE {0})

(* When the program has ended by itself, the database has all it counted.    *)
ExitComplete ==
  main = "exited" => Len(dbRows[Data]) = Total(queries) /\ dbRows = submitted

(* A request for /metrics is answered, whether the log has lines or not and  *)
(* however long the database takes: main waits for room in the pipe without  *)
(* holding the mutex (access2sql.cc:213-218).                                *)
ScrapeAnswered == \A s \in Scrapers : web[s] = "locking" ~> web[s] \in {"idle", "gone"}

=============================================================================
