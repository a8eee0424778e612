------------------------------ MODULE WebServer ------------------------------
(***************************************************************************)
(* The web server under /metrics: launchWeb (ac2web.cc) runs an            *)
(* httplib::Server with its defaults, whose thread accepts connections and *)
(* queues them for a pool of threads, each of which serves one connection  *)
(* at a time for as long as it is kept alive.  The files are in httplib.h; *)
(* what the handler does under its mutex is in Access2Sql.                 *)
(***************************************************************************)
EXTENDS Integers, Sequences, FiniteSets

CONSTANTS Conns,     \* connections that clients make
          Workers,   \* threads that a pool may have
          Pools,     \* the pools there may be: max(8, cores - 1) threads
          Requests,  \* kinds of requests, see below
          NoConn,    \* no connection
          MaxCount,  \* keep_alive_max_count_ (100)
          Backlog    \* CPPHTTPLIB_LISTEN_BACKLOG (5)

ASSUME WebAssumption == /\ NoConn \notin Conns
                        /\ MaxCount \in Nat \ {0}
                        /\ Backlog \in Nat
                        /\ Pools \subseteq (SUBSET Workers) \ {{}}

\* What the server can tell apart in a request: whether its head is complete
\* and well formed, whether the client asks for the end of the connection in
\* so many words or by speaking HTTP/1.0, whether a handler is registered, and
\* its content: all there (or none announced), some of it there and more to
\* come, or nothing there and more to come.
RequestKinds == [head : {"good", "bad", "partial"},
                 closes : {"no", "asked", "old"},
                 routed : BOOLEAN,
                 body : {"none", "here", "due"}]
Nothing == [head |-> "none"]

\* Only what follows a good head is read as content.
ASSUME RequestsAssumption ==
  Requests \subseteq {r \in RequestKinds : r.body # "none" => r.head = "good"}

VARIABLES server,    \* the thread of launchWeb: where it is in listen
          backlog,   \* connections that the kernel has and accept has not
          jobs,      \* jobs_ of the pool, by connection
          shutdown,  \* shutdown_ of the pool
          thread,    \* per worker: awake, asleep, waiting, done, exited
          held,      \* per worker: the connection in its hands
          count,     \* per worker: count of process_server_socket_core
          client,    \* per connection, its other end: see Clients
          closed     \* connections that the server has closed

webVars == <<server, backlog, jobs, shutdown, thread, held, count, client, closed>>

\* The client's end: connected or not, a request under way, and whether the
\* last answer announced that the connection would be closed.
Clients == [state : {"away", "open", "gone"},
            request : RequestKinds \cup {Nothing},
            told : BOOLEAN]

WebTypeOK ==
  /\ server \in {"start", "listening", "notifying", "failing", "joining", "returned"}
  /\ backlog \subseteq Conns
  /\ jobs \in Seq(Conns)
  /\ shutdown \in BOOLEAN
  /\ thread \in [Workers -> {"awake", "asleep", "waiting", "done", "exited"}]
  /\ held \in [Workers -> Conns \cup {NoConn}]
  /\ count \in [Workers -> 0..MaxCount]
  /\ client \in [Conns -> Clients]
  /\ closed \subseteq Conns

WebInit ==
  /\ server = "start"
  /\ backlog = {}
  /\ jobs = <<>>
  /\ shutdown = FALSE
  /\ \E pool \in Pools :
        thread = [w \in Workers |-> IF w \in pool THEN "awake" ELSE "exited"]
  /\ held = [w \in Workers |-> NoConn]
  /\ count = [w \in Workers |-> 0]
  /\ client = [c \in Conns |-> [state |-> "away", request |-> Nothing, told |-> FALSE]]
  /\ closed = {}

-----------------------------------------------------------------------------
(* Clients.  One that sends its next request before it has the answer to    *)
(* the last is left out: what was read ahead is lost with the stream.       *)

clientsOnly == <<server, jobs, shutdown, thread, held, count, closed>>

Connect(c) ==
  /\ server \in {"listening", "notifying"}
  /\ client[c].state = "away"
  /\ Cardinality(backlog) < Backlog
  /\ backlog' = backlog \cup {c}
  /\ client' = [client EXCEPT ![c].state = "open"]
  /\ UNCHANGED clientsOnly

Send(c, r) ==
  /\ client[c].state = "open"
  /\ client[c].request = Nothing
  /\ c \notin closed
  /\ client' = [client EXCEPT ![c].request = r]
  /\ UNCHANGED <<backlog, clientsOnly>>

\* More of the content, or the last of it: it may be of any length, as there is
\* no limit to what is read (payload_max_length_).
SendMore(c) ==
  /\ client[c].state = "open"
  /\ client[c].request # Nothing
  /\ client[c].request.body # "none"
  /\ c \notin closed
  /\ \E b \in {"here", "none"} : client' = [client EXCEPT ![c].request.body = b]
  /\ UNCHANGED <<backlog, clientsOnly>>

HangUp(c) ==
  /\ client[c].state = "open"
  /\ c \notin closed
  /\ client' = [client EXCEPT ![c].state = "gone"]
  /\ UNCHANGED <<backlog, clientsOnly>>

-----------------------------------------------------------------------------
(* The thread of launchWeb *)

serverOnly == <<thread, held, count, client, closed>>

\* bind_to_port: its failure ends listen, and launchWeb does not look at it.
Bind ==
  /\ server = "start"
  /\ server' \in {"listening", "returned"}
  /\ thread' = IF server' = "returned" THEN [w \in Workers |-> "exited"] ELSE thread
  /\ UNCHANGED <<backlog, jobs, shutdown, held, count, client, closed>>

\* accept, and the first half of enqueue, under the pool's mutex ...
Accept(c) ==
  /\ server = "listening"
  /\ c \in backlog
  /\ backlog' = backlog \ {c}
  /\ jobs' = Append(jobs, c)
  /\ server' = "notifying"
  /\ UNCHANGED <<shutdown, serverOnly>>

\* ... notify_one, which wakes one of the threads that sleep, if one does
Notify ==
  /\ server = "notifying"
  /\ server' = "listening"
  /\ \/ /\ \A w \in Workers : thread[w] # "asleep"
        /\ UNCHANGED thread
     \/ \E w \in Workers : /\ thread[w] = "asleep"
                           /\ thread' = [thread EXCEPT ![w] = "awake"]
  /\ UNCHANGED <<backlog, jobs, shutdown, held, count, client, closed>>

\* Any other error of accept than EMFILE, EINTR and EAGAIN, which it ignores,
\* ends the loop: what is in the backlog is reset.
AcceptFails ==
  /\ server = "listening"
  /\ server' = "failing"
  /\ backlog' = {}
  /\ client' = [c \in Conns |-> IF c \in backlog THEN [client[c] EXCEPT !.state = "gone"]
                                                 ELSE client[c]]
  /\ shutdown' = TRUE
  /\ UNCHANGED <<jobs, thread, held, count, closed>>

NotifyAll ==
  /\ server = "failing"
  /\ server' = "joining"
  /\ thread' = [w \in Workers |-> IF thread[w] = "asleep" THEN "awake" ELSE thread[w]]
  /\ UNCHANGED <<backlog, jobs, shutdown, held, count, client, closed>>

ListenReturns ==
  /\ server = "joining"
  /\ \A w \in Workers : thread[w] = "exited"
  /\ server' = "returned"
  /\ UNCHANGED <<backlog, jobs, shutdown, serverOnly>>

LaunchWeb == \/ Bind \/ (\E c \in Conns : Accept(c)) \/ Notify
             \/ NotifyAll \/ ListenReturns

-----------------------------------------------------------------------------
(* A thread of the pool *)

poolOnly == <<server, backlog, shutdown, client>>

\* Faulty: the pool is left as soon as it shuts down.
MayExitAtOnce == shutdown

MayExit == shutdown /\ jobs = <<>>

Exit(w) ==
  /\ thread[w] = "awake"
  /\ MayExit
  /\ thread' = [thread EXCEPT ![w] = "exited"]
  /\ UNCHANGED <<jobs, held, count, closed, poolOnly>>

\* The condition is looked at under the mutex, and given up with it.
Sleep(w) ==
  /\ thread[w] = "awake"
  /\ jobs = <<>> /\ ~ shutdown
  /\ thread' = [thread EXCEPT ![w] = "asleep"]
  /\ UNCHANGED <<jobs, held, count, closed, poolOnly>>

\* Faulty: the job is left in the queue.
JobsAll == jobs

JobsLeft == Tail(jobs)

Take(w) ==
  /\ thread[w] = "awake"
  /\ jobs # <<>>
  /\ held' = [held EXCEPT ![w] = Head(jobs)]
  /\ jobs' = JobsLeft
  /\ count' = [count EXCEPT ![w] = MaxCount]
  /\ thread' = [thread EXCEPT ![w] = "waiting"]
  /\ UNCHANGED <<closed, poolOnly>>

Holds(w) == thread[w] = "waiting"
Readable(c) == client[c].request # Nothing \/ client[c].state = "gone"

Leave(w) ==
  /\ thread' = [thread EXCEPT ![w] = "done"]
  /\ count' = [count EXCEPT ![w] = 0]

\* Faulty: the wait for a next request has no end.
NoTimeout(c) == FALSE

TimesOut(c) == ~ Readable(c)

\* keep_alive: nothing to read for keep_alive_timeout_sec_.  (That the server
\* socket was closed it would notice in svr_sock_, which only stop changes.)
KeepAliveEnds(w) ==
  /\ Holds(w)
  /\ count[w] > 0
  /\ TimesOut(held[w])
  /\ Leave(w)
  /\ UNCHANGED <<jobs, held, closed, poolOnly>>

\* process_request cannot read a line: the client has hung up, or does not
\* come to the end of it in time.  (A line cut by hanging up is a bad one, and
\* so are headers that do not end in time or are too many or too long.)
NotReadable(w) ==
  LET c == client[held[w]]
  IN /\ Holds(w)
     /\ count[w] > 0
     /\ \/ c.state = "gone" /\ c.request = Nothing
        \/ c.state = "open" /\ c.request.head = "partial"
     /\ Leave(w)
     /\ UNCHANGED <<jobs, held, closed, poolOnly>>

\* Faulty: the answer to the last request does not say that it is.
AnnouncesErrors(r, lastOne) == r.head # "good" \/ r.closes = "asked" \/ ~ r.routed

\* write_response_core: the answer says so if the connection will be closed,
\* if the client asked for that, and in every error.
Announces(r, lastOne) ==
  lastOne \/ r.head # "good" \/ r.closes = "asked" \/ ~ r.routed

\* connection_closed, which is set after the head is parsed
Closes(r) == r.head = "good" /\ r.closes # "no"

\* An answer is sent, and the connection is kept or not.
Answer(w, says) ==
  LET c == held[w]
  IN /\ \E told \in says :
          client' = [client EXCEPT ![c] = [state |-> @.state, request |-> Nothing, told |-> told]]
     /\ IF Closes(client[c].request)
        THEN Leave(w)
        ELSE /\ count' = [count EXCEPT ![w] = @ - 1]
             /\ UNCHANGED thread
     /\ UNCHANGED <<server, backlog, jobs, shutdown, held, closed>>

\* process_request answers: a handler's page, or 400 or 404 without one, or 500
\* if the handler throws.
ServeRequest(w) ==
  LET r == client[held[w]].request
  IN /\ Holds(w)
     /\ count[w] > 0
     /\ r # Nothing
     /\ r.body = "none"
     /\ r.head = "partial" => client[held[w]].state = "gone"
     /\ Answer(w, {Announces(r, count[w] = 1), TRUE})

\* Before that, routing reads all of the content, piece by piece.
ReadMore(w) ==
  LET c == held[w]
  IN /\ Holds(w)
     /\ count[w] > 0
     /\ client[c].request # Nothing
     /\ client[c].request.body = "here"
     /\ client' = [client EXCEPT ![c].request.body = "due"]
     /\ UNCHANGED <<server, backlog, jobs, shutdown, thread, held, count, closed>>

\* It cannot: no next piece comes in time, the client is gone, or the content
\* is of no use.  That is an error, and the connection stays; what the client
\* still sends of the content will be a bad request.
ContentFails(w) ==
  LET r == client[held[w]].request
  IN /\ Holds(w)
     /\ count[w] > 0
     /\ r # Nothing
     /\ r.body # "none"
     /\ Answer(w, {TRUE})

\* The page cannot be written to a client that is gone or does not read.  (Of
\* an answer without a page the code does not look whether it was written.)
NotWritable(w) ==
  LET c == held[w]
  IN /\ Holds(w)
     /\ count[w] > 0
     /\ client[c].request.head = "good"
     /\ client[c].request.routed
     /\ client[c].request.body = "none"
     /\ client' = [client EXCEPT ![c].request = Nothing]
     /\ Leave(w)
     /\ UNCHANGED <<server, backlog, jobs, shutdown, held, closed>>

CountSpent(w) ==
  /\ Holds(w)
  /\ count[w] = 0
  /\ Leave(w)
  /\ UNCHANGED <<jobs, held, closed, poolOnly>>

\* process_and_close_socket, its end; what was sent and not read is lost.
CloseSocket(w) ==
  /\ thread[w] = "done"
  /\ closed' = closed \cup {held[w]}
  /\ held' = [held EXCEPT ![w] = NoConn]
  /\ thread' = [thread EXCEPT ![w] = "awake"]
  /\ client' = [client EXCEPT ![held[w]].request = Nothing]
  /\ UNCHANGED <<server, backlog, jobs, shutdown, count>>

WorkerStep(w) ==
  \/ Exit(w) \/ Sleep(w) \/ Take(w)
  \/ KeepAliveEnds(w) \/ NotReadable(w) \/ ReadMore(w) \/ ContentFails(w)
  \/ ServeRequest(w) \/ NotWritable(w) \/ CountSpent(w) \/ CloseSocket(w)

WebNext ==
  \/ \E c \in Conns : \/ Connect(c) \/ SendMore(c) \/ HangUp(c)
                      \/ \E r \in Requests : Send(c, r)
  \/ LaunchWeb \/ AcceptFails
  \/ \E w \in Workers : WorkerStep(w)

WebSpec == WebInit /\ [][WebNext]_webVars

-----------------------------------------------------------------------------
(* Properties *)

Holders(c) == {w \in Workers : held[w] = c}
Queued(c) == {n \in 1..Len(jobs) : jobs[n] = c}

(* A connection is in one place: in the backlog, once in the queue, in the   *)
(* hands of one thread, or closed.  So no two threads read from it, and none *)
(* closes a descriptor twice, which could be another's by then               *)
(* (httplib.h:935-983, 9321-9344, 9845-9848).                                *)
InOnePlace ==
  /\ \A c \in Conns :
       /\ c \in backlog => Queued(c) = {} /\ Holders(c) = {} /\ c \notin closed
       /\ Queued(c) # {} => Holders(c) = {} /\ c \notin closed
       /\ Holders(c) # {} => c \notin closed
  /\ \A m, n \in 1..Len(jobs) : jobs[m] = jobs[n] => m = n
  /\ \A v, w \in Workers : held[v] = held[w] /\ held[v] # NoConn => v = w

(* When listen returns, after a failed accept or a failed bind, every        *)
(* connection that was accepted has been served and closed: none is left in  *)
(* the queue or open for ever (httplib.h:948-971, 9346).                     *)
NothingLeftBehind ==
  server = "returned" =>
    /\ jobs = <<>>
    /\ \A w \in Workers : held[w] = NoConn
    /\ \A c \in Conns : client[c].state = "open" => c \in closed

(* The server does not close a connection on a client that was not told in   *)
(* the answer before, unless the client asked for it, was silent for the     *)
(* time-out, or broke off: a request sent in time is not lost on a closed    *)
(* connection (httplib.h:4414-4429, 8840-8846).                              *)
ToldBeforeClosed ==
  [][\A w \in Workers : CountSpent(w) => client[held[w]].told]_webVars

\* A piece of a content that has not ended is there to be read.
Sending(c) == client[c].request # Nothing /\ client[c].request.body = "here"

Threads == {w \in Workers : thread[w] # "exited"}

(* A thread of the pool stays with a client for as long as that goes on with *)
(* the content of one request, of which there is no limit; but it gets away  *)
(* from one that says nothing, stops in the middle of a line or of a         *)
(* content, or never stops asking.  So while fewer clients than there are    *)
(* threads send a content without end, every other connection that is made   *)
(* is closed in the end (httplib.h:4379-4411, 4414-4429, 5675-5703,          *)
(* 9366-9415).                                                               *)
EveryConnectionEnds ==
  \A endless \in SUBSET Conns :
     /\ Cardinality(endless) < Cardinality(Threads)
     /\ \A c \in Conns \ endless : <>[] ~ Sending(c)
     => \A c \in Conns \ endless :
           c \in backlog ~> c \in closed \/ client[c].state = "gone"

=============================================================================
