--------------------------- MODULE WebServerProofs ----------------------------
(***************************************************************************)
(* Each connection of the web server is in one place, and none is left     *)
(* behind when listen returns: for any connections, requests, threads and  *)
(* limits.                                                                 *)
(***************************************************************************)
EXTENDS WebServer, SequenceTheorems, TLAPS

-----------------------------------------------------------------------------
(* The inductive invariant *)

InQueue(c) == \E n \in 1..Len(jobs) : jobs[n] = c
InHands(c) == \E w \in Workers : held[w] = c

\* A connection is in one place at most, in none before it is made, and in one
\* while its client is connected.
Places ==
  \A c \in Conns :
     /\ c \in backlog => ~ InQueue(c) /\ ~ InHands(c) /\ c \notin closed
     /\ InQueue(c) => ~ InHands(c) /\ c \notin closed
     /\ InHands(c) => c \notin closed
     /\ client[c].state = "away" =>
          c \notin backlog /\ ~ InQueue(c) /\ ~ InHands(c) /\ c \notin closed
     /\ client[c].state = "open" =>
          c \in backlog \/ InQueue(c) \/ InHands(c) \/ c \in closed

NoneTwice ==
  /\ \A m, n \in 1..Len(jobs) : jobs[m] = jobs[n] => m = n
  /\ \A v, w \in Workers : held[v] = held[w] /\ held[v] # NoConn => v = w

\* A thread has a connection just while it serves and closes it.
HandsFull ==
  \A w \in Workers : held[w] # NoConn <=> thread[w] \in {"waiting", "done"}

AllExited == \A w \in Workers : thread[w] = "exited"

\* The threads leave after the shutdown, the last of them an empty queue, and
\* listen returns after them.
Order ==
  /\ server = "start" => \A c \in Conns : client[c].state = "away"
  /\ server \notin {"listening", "notifying"} => backlog = {}
  /\ shutdown => server \in {"failing", "joining", "returned"}
  /\ server \in {"failing", "joining"} => shutdown
  /\ server = "returned" => AllExited
  /\ AllExited => jobs = <<>> /\ (shutdown \/ server = "returned")

WebInv == WebTypeOK /\ Places /\ NoneTwice /\ HandsFull /\ Order

-----------------------------------------------------------------------------
(* Lemmas *)

LEMMA InvOnePlace == WebInv => InOnePlace
BY DEF WebInv, Places, NoneTwice, InOnePlace, InQueue, InHands, Queued, Holders

LEMMA InvNothingLeft == WebInv => NothingLeftBehind
<1> SUFFICES ASSUME WebInv, server = "returned"
             PROVE  /\ jobs = <<>>
                    /\ \A w \in Workers : held[w] = NoConn
                    /\ \A c \in Conns : client[c].state = "open" => c \in closed
  BY DEF NothingLeftBehind
<1>1. AllExited /\ jobs = <<>> /\ backlog = {}
  BY DEF WebInv, Order
<1>2. \A w \in Workers : held[w] = NoConn
  BY <1>1 DEF WebInv, HandsFull, AllExited
<1>3. \A c \in Conns : ~ InQueue(c) /\ ~ InHands(c)
  <2>1. Len(jobs) = 0
    BY <1>1
  <2> QED BY <2>1, <1>2, WebAssumption DEF InQueue, InHands
<1> QED BY <1>1, <1>2, <1>3 DEF WebInv, Places

\* An answer changes nothing about who is connected.
LEMMA Answered ==
  ASSUME WebTypeOK, NEW c \in Conns, NEW told \in BOOLEAN,
         client' = [client EXCEPT ![c] = [state   |-> client[c].state,
                                          request |-> Nothing, told |-> told]]
  PROVE  /\ client' \in [Conns -> Clients]
         /\ \A d \in Conns : client'[d].state = client[d].state
<1> DEFINE new == [state |-> client[c].state, request |-> Nothing, told |-> told]
<1>1. client \in [Conns -> Clients]
  BY DEF WebTypeOK
<1>2. new \in Clients /\ new.state = client[c].state
  BY <1>1 DEF Clients
<1> HIDE DEF new
<1>3. client' = [client EXCEPT ![c] = new]
  BY DEF new
<1> QED BY <1>1, <1>2, <1>3

LEMMA Requested ==
  ASSUME WebTypeOK, NEW c \in Conns, NEW r \in RequestKinds \cup {Nothing},
         client' = [client EXCEPT ![c].request = r]
  PROVE  /\ client' \in [Conns -> Clients]
         /\ \A d \in Conns : client'[d].state = client[d].state /\ client'[d].told = client[d].told
<1>1. client \in [Conns -> Clients]
  BY DEF WebTypeOK
<1>2. client' = [client EXCEPT ![c] = [client[c] EXCEPT !.request = r]]
  BY <1>1
<1>3. [client[c] EXCEPT !.request = r]
        = [state |-> client[c].state, request |-> r, told |-> client[c].told]
  BY <1>1 DEF Clients
<1>4. [state |-> client[c].state, request |-> r, told |-> client[c].told] \in Clients
  BY <1>1 DEF Clients
<1> QED BY <1>1, <1>2, <1>3, <1>4

\* Nor does a piece of a request's content.
LEMMA Continued ==
  ASSUME WebTypeOK, NEW c \in Conns, client[c].request # Nothing,
         NEW b \in {"none", "here", "due"},
         client' = [client EXCEPT ![c].request.body = b]
  PROVE  /\ client' \in [Conns -> Clients]
         /\ \A d \in Conns : client'[d].state = client[d].state /\ client'[d].told = client[d].told
<1> DEFINE r == [client[c].request EXCEPT !.body = b]
<1>1. client \in [Conns -> Clients]
  BY DEF WebTypeOK
<1>2. client[c].request \in RequestKinds
  BY <1>1 DEF Clients
<1>3. r \in RequestKinds
  BY <1>2 DEF RequestKinds
<1>4. client' = [client EXCEPT ![c].request = r]
  BY <1>1
<1> HIDE DEF r
<1> QED BY <1>3, <1>4, Requested

LEMMA Entered ==
  ASSUME WebTypeOK, NEW c \in Conns, NEW s \in {"away", "open", "gone"},
         client' = [client EXCEPT ![c].state = s]
  PROVE  /\ client' \in [Conns -> Clients]
         /\ client'[c].state = s
         /\ \A d \in Conns \ {c} : client'[d] = client[d]
         /\ \A d \in Conns : client'[d].told = client[d].told
<1>1. client \in [Conns -> Clients]
  BY DEF WebTypeOK
<1>2. client' = [client EXCEPT ![c] = [client[c] EXCEPT !.state = s]]
  BY <1>1
<1>3. [client[c] EXCEPT !.state = s]
        = [state |-> s, request |-> client[c].request, told |-> client[c].told]
  BY <1>1 DEF Clients
<1>4. [state |-> s, request |-> client[c].request, told |-> client[c].told] \in Clients
  BY <1>1 DEF Clients
<1> QED BY <1>1, <1>2, <1>3, <1>4

\* While no connection moves and no client comes back, all stay where they are.
LEMMA PlacesKept ==
  ASSUME WebInv, UNCHANGED <<backlog, jobs, held, closed>>,
         \A d \in Conns : \/ client'[d].state = client[d].state
                          \/ client[d].state = "open" /\ client'[d].state = "gone"
  PROVE  Places' /\ NoneTwice'
<1>1. \A d \in Conns : (InQueue(d)' <=> InQueue(d)) /\ (InHands(d)' <=> InHands(d))
  BY DEF InQueue, InHands
<1>2. \A d \in Conns : /\ client'[d].state = "away" => client[d].state = "away"
                       /\ client'[d].state = "open" => client[d].state = "open"
  OBVIOUS
<1> QED BY <1>1, <1>2 DEF WebInv, Places, NoneTwice

-----------------------------------------------------------------------------
(* The invariant is inductive *)

LEMMA WebInitInv == WebInit => WebInv
<1> SUFFICES ASSUME WebInit PROVE WebInv
  OBVIOUS
<1>1. PICK pool \in Pools :
         thread = [w \in Workers |-> IF w \in pool THEN "awake" ELSE "exited"]
  BY DEF WebInit
<1>2. \E w \in Workers : w \in pool
  BY <1>1, WebAssumption
<1>3. Len(jobs) = 0 /\ jobs \in Seq(Conns)
  BY DEF WebInit
<1>4. client \in [Conns -> Clients] /\ \A c \in Conns : client[c].state = "away"
  BY DEF WebInit, Clients
<1>5. WebTypeOK
  <2>1. /\ thread \in [Workers -> {"awake", "asleep", "waiting", "done", "exited"}]
        /\ held \in [Workers -> Conns \cup {NoConn}]
    BY <1>1 DEF WebInit
  <2>2. 0 \in 0..MaxCount
    BY WebAssumption
  <2>3. count \in [Workers -> 0..MaxCount]
    BY <2>2 DEF WebInit
  <2> QED BY <2>1, <2>3, <1>3, <1>4 DEF WebInit, WebTypeOK
<1>6. \A c \in Conns : ~ InQueue(c) /\ ~ InHands(c)
  BY <1>3, WebAssumption DEF WebInit, InQueue, InHands
<1>7. Places
  BY <1>4, <1>6 DEF WebInit, Places
<1>8. NoneTwice
  BY <1>3 DEF WebInit, NoneTwice
<1>9. HandsFull
  BY <1>1 DEF WebInit, HandsFull
<1>10. ~ AllExited
  BY <1>1, <1>2 DEF AllExited
<1>11. Order
  BY <1>4, <1>10 DEF WebInit, Order
<1> QED BY <1>5, <1>7, <1>8, <1>9, <1>11 DEF WebInv

LEMMA ConnectInv == ASSUME WebInv, NEW c \in Conns, Connect(c) PROVE WebInv'
<1>1. WebTypeOK /\ client[c].state = "away" /\ server \in {"listening", "notifying"}
  BY DEF WebInv, Connect
<1>2. /\ client' \in [Conns -> Clients]
      /\ client'[c].state = "open"
      /\ \A d \in Conns \ {c} : client'[d] = client[d]
  BY <1>1, Entered DEF Connect
<1>3. backlog' = backlog \cup {c} /\ UNCHANGED clientsOnly
  BY DEF Connect
<1>4. WebTypeOK'
  BY <1>1, <1>2, <1>3 DEF WebTypeOK, clientsOnly
<1>5. \A d \in Conns : (InQueue(d)' <=> InQueue(d)) /\ (InHands(d)' <=> InHands(d))
  BY <1>3 DEF InQueue, InHands, clientsOnly
<1>6. Places'
  BY <1>1, <1>2, <1>3, <1>5 DEF WebInv, Places, clientsOnly
<1>7. NoneTwice' /\ HandsFull'
  BY <1>3 DEF WebInv, NoneTwice, HandsFull, clientsOnly
<1>8. Order'
  BY <1>1, <1>3 DEF WebInv, Order, AllExited, clientsOnly
<1> QED BY <1>4, <1>6, <1>7, <1>8 DEF WebInv

LEMMA SendInv == ASSUME WebInv, NEW c \in Conns, NEW r \in Requests, Send(c, r) PROVE WebInv'
<1>1. WebTypeOK /\ r \in RequestKinds \cup {Nothing}
  BY RequestsAssumption DEF WebInv
<1>2. /\ client' \in [Conns -> Clients]
      /\ \A d \in Conns : client'[d].state = client[d].state
  BY <1>1, Requested DEF Send
<1>3. UNCHANGED <<backlog, server, jobs, shutdown, thread, held, count, closed>>
  BY DEF Send, clientsOnly
<1>4. WebTypeOK'
  BY <1>1, <1>2, <1>3 DEF WebTypeOK
<1>5. Places' /\ NoneTwice'
  BY <1>2, <1>3, PlacesKept
<1> QED BY <1>2, <1>3, <1>4, <1>5 DEF WebInv, HandsFull, Order, AllExited

LEMMA SendMoreInv == ASSUME WebInv, NEW c \in Conns, SendMore(c) PROVE WebInv'
<1>1. WebTypeOK
  BY DEF WebInv
<1>2. /\ client' \in [Conns -> Clients]
      /\ \A d \in Conns : client'[d].state = client[d].state
  BY <1>1, Continued DEF SendMore
<1>3. UNCHANGED <<backlog, server, jobs, shutdown, thread, held, count, closed>>
  BY DEF SendMore, clientsOnly
<1>4. WebTypeOK'
  BY <1>1, <1>2, <1>3 DEF WebTypeOK
<1>5. Places' /\ NoneTwice'
  BY <1>2, <1>3, PlacesKept
<1> QED BY <1>2, <1>3, <1>4, <1>5 DEF WebInv, HandsFull, Order, AllExited

LEMMA HangUpInv == ASSUME WebInv, NEW c \in Conns, HangUp(c) PROVE WebInv'
<1>1. WebTypeOK /\ client[c].state = "open"
  BY DEF WebInv, HangUp
<1>2. /\ client' \in [Conns -> Clients]
      /\ client'[c].state = "gone"
      /\ \A d \in Conns \ {c} : client'[d] = client[d]
  BY <1>1, Entered DEF HangUp
<1>3. UNCHANGED <<backlog, server, jobs, shutdown, thread, held, count, closed>>
  BY DEF HangUp, clientsOnly
<1>4. WebTypeOK'
  BY <1>1, <1>2, <1>3 DEF WebTypeOK
<1>5. Places' /\ NoneTwice'
  BY <1>1, <1>2, <1>3, PlacesKept
<1>6. Order'
  BY <1>1, <1>3 DEF WebInv, Order, AllExited
<1> QED BY <1>3, <1>4, <1>5, <1>6 DEF WebInv, HandsFull

LEMMA BindInv == ASSUME WebInv, Bind PROVE WebInv'
<1>1. /\ server = "start" /\ server' \in {"listening", "returned"}
      /\ UNCHANGED <<backlog, jobs, shutdown, held, count, client, closed>>
      /\ thread' = IF server' = "returned" THEN [w \in Workers |-> "exited"] ELSE thread
  BY DEF Bind
<1>2. \A c \in Conns : client[c].state = "away" /\ ~ InQueue(c) /\ ~ InHands(c)
  BY <1>1 DEF WebInv, Order, Places
<1>3. jobs = <<>>
  <2>1. jobs \in Seq(Conns)
    BY DEF WebInv, WebTypeOK
  <2>2. SUFFICES ASSUME jobs # <<>> PROVE FALSE
    OBVIOUS
  <2>3. 1 \in 1..Len(jobs) /\ jobs[1] \in Conns
    BY <2>1, <2>2, EmptySeq, ElementOfSeq
  <2> QED BY <2>3, <1>2 DEF InQueue
<1>4. \A w \in Workers : held[w] = NoConn
  BY <1>2 DEF WebInv, WebTypeOK, InHands
<1>5. WebTypeOK'
  BY <1>1 DEF WebInv, WebTypeOK
<1>6. Places' /\ NoneTwice'
  BY <1>1, PlacesKept
<1>7. HandsFull'
  BY <1>1, <1>4 DEF WebInv, HandsFull
<1>8. Order'
  BY <1>1, <1>3 DEF WebInv, Order, AllExited
<1> QED BY <1>5, <1>6, <1>7, <1>8 DEF WebInv

LEMMA AcceptInv == ASSUME WebInv, NEW c \in Conns, Accept(c) PROVE WebInv'
<1>1. /\ server = "listening" /\ server' = "notifying" /\ c \in backlog
      /\ backlog' = backlog \ {c} /\ jobs' = Append(jobs, c)
      /\ UNCHANGED <<shutdown, thread, held, count, client, closed>>
  BY DEF Accept, serverOnly
<1>2. jobs \in Seq(Conns) /\ Len(jobs) \in Nat
  BY LenProperties DEF WebInv, WebTypeOK
<1>3. /\ jobs' \in Seq(Conns) /\ Len(jobs') = Len(jobs) + 1
      /\ \A n \in 1..Len(jobs) : jobs'[n] = jobs[n]
      /\ jobs'[Len(jobs) + 1] = c
  BY <1>1, <1>2
<1>4. WebTypeOK'
  BY <1>1, <1>3 DEF WebInv, WebTypeOK
<1>5. \A d \in Conns : (InQueue(d)' <=> InQueue(d) \/ d = c) /\ (InHands(d)' <=> InHands(d))
  <2>1. \A n \in 1..Len(jobs') : n \in 1..Len(jobs) \/ n = Len(jobs) + 1
    BY <1>2, <1>3
  <2>2. \A n \in 1..Len(jobs) : n \in 1..Len(jobs')
    BY <1>2, <1>3
  <2>3. Len(jobs) + 1 \in 1..Len(jobs')
    BY <1>2, <1>3
  <2> QED BY <2>1, <2>2, <2>3, <1>1, <1>3 DEF InQueue, InHands
<1>6. Places'
  BY <1>1, <1>5 DEF WebInv, Places
<1>7. NoneTwice'
  <2>1. \A n \in 1..Len(jobs) : jobs[n] # c
    BY <1>1 DEF WebInv, Places, InQueue
  <2>2. \A m, n \in 1..Len(jobs') : jobs'[m] = jobs'[n] => m = n
    BY <1>2, <1>3, <2>1 DEF WebInv, NoneTwice
  <2> QED BY <2>2, <1>1 DEF WebInv, NoneTwice
<1>8. ~ AllExited
  BY <1>1 DEF WebInv, Order
<1>9. HandsFull' /\ Order'
  BY <1>1, <1>8 DEF WebInv, HandsFull, Order, AllExited
<1> QED BY <1>4, <1>6, <1>7, <1>9 DEF WebInv

\* Steps that only wake threads or send them to sleep
LEMMA ThreadsInv ==
  ASSUME WebInv,
         UNCHANGED <<backlog, jobs, held, count, client, closed, shutdown>>,
         server' = server \/ <<server, server'>> \in {<<"notifying", "listening">>,
                                                      <<"failing", "joining">>},
         thread' \in [Workers -> {"awake", "asleep", "waiting", "done", "exited"}],
         \A w \in Workers : \/ thread'[w] = thread[w]
                            \/ {thread[w], thread'[w]} \subseteq {"awake", "asleep"}
  PROVE  WebInv'
<1>1. WebTypeOK'
  BY DEF WebInv, WebTypeOK
<1>2. Places' /\ NoneTwice'
  BY PlacesKept
<1>3. HandsFull'
  BY DEF WebInv, HandsFull
<1>4. AllExited' <=> AllExited
  BY DEF AllExited
<1>5. Order'
  BY <1>4 DEF WebInv, Order
<1> QED BY <1>1, <1>2, <1>3, <1>5 DEF WebInv

LEMMA NotifyInv == ASSUME WebInv, Notify PROVE WebInv'
BY ThreadsInv DEF Notify, WebInv, WebTypeOK

LEMMA NotifyAllInv == ASSUME WebInv, NotifyAll PROVE WebInv'
BY ThreadsInv DEF NotifyAll, WebInv, WebTypeOK

LEMMA SleepInv == ASSUME WebInv, NEW w \in Workers, Sleep(w) PROVE WebInv'
BY ThreadsInv DEF Sleep, poolOnly, WebInv, WebTypeOK

LEMMA AcceptFailsInv == ASSUME WebInv, AcceptFails PROVE WebInv'
<1>1. /\ server = "listening" /\ server' = "failing" /\ backlog' = {} /\ shutdown' = TRUE
      /\ UNCHANGED <<jobs, thread, held, count, closed>>
      /\ client' = [c \in Conns |-> IF c \in backlog THEN [client[c] EXCEPT !.state = "gone"]
                                                     ELSE client[c]]
  BY DEF AcceptFails
<1>2. ASSUME NEW c \in Conns
      PROVE  /\ client'[c] \in Clients
             /\ c \in backlog => client'[c].state = "gone"
             /\ c \notin backlog => client'[c] = client[c]
  <2>1. client[c] \in Clients
    BY DEF WebInv, WebTypeOK
  <2>2. [client[c] EXCEPT !.state = "gone"]
          = [state |-> "gone", request |-> client[c].request, told |-> client[c].told]
    BY <2>1 DEF Clients
  <2>3. [state |-> "gone", request |-> client[c].request, told |-> client[c].told] \in Clients
    BY <2>1 DEF Clients
  <2> QED BY <2>1, <2>2, <2>3, <1>1
<1>3. client' \in [Conns -> Clients]
  BY <1>1, <1>2
<1>4. WebTypeOK'
  BY <1>1, <1>3 DEF WebInv, WebTypeOK
<1>5. \A d \in Conns : (InQueue(d)' <=> InQueue(d)) /\ (InHands(d)' <=> InHands(d))
  BY <1>1 DEF InQueue, InHands
<1>6. Places'
  BY <1>1, <1>2, <1>5 DEF WebInv, Places
<1>7. NoneTwice' /\ HandsFull'
  BY <1>1 DEF WebInv, NoneTwice, HandsFull
<1>8. Order'
  BY <1>1 DEF WebInv, Order, AllExited
<1> QED BY <1>4, <1>6, <1>7, <1>8 DEF WebInv

LEMMA ListenReturnsInv == ASSUME WebInv, ListenReturns PROVE WebInv'
<1>1. /\ server = "joining" /\ server' = "returned" /\ AllExited
      /\ UNCHANGED <<backlog, jobs, shutdown, thread, held, count, client, closed>>
  BY DEF ListenReturns, serverOnly, AllExited
<1>2. WebTypeOK'
  BY <1>1 DEF WebInv, WebTypeOK
<1>3. Places' /\ NoneTwice'
  BY <1>1, PlacesKept
<1>4. HandsFull' /\ Order'
  BY <1>1 DEF WebInv, HandsFull, Order, AllExited
<1> QED BY <1>2, <1>3, <1>4 DEF WebInv

LEMMA ExitInv == ASSUME WebInv, NEW w \in Workers, Exit(w) PROVE WebInv'
<1>1. /\ thread[w] = "awake" /\ shutdown /\ jobs = <<>>
      /\ thread' = [thread EXCEPT ![w] = "exited"]
      /\ UNCHANGED <<jobs, held, count, closed, server, backlog, shutdown, client>>
  BY DEF Exit, MayExit, poolOnly
<1>2. WebTypeOK'
  BY <1>1 DEF WebInv, WebTypeOK
<1>3. Places' /\ NoneTwice'
  BY <1>1, PlacesKept
<1>4. HandsFull'
  BY <1>1 DEF WebInv, WebTypeOK, HandsFull
<1>5. ~ AllExited
  BY <1>1 DEF AllExited
<1>6. Order'
  BY <1>1, <1>5 DEF WebInv, Order
<1> QED BY <1>2, <1>3, <1>4, <1>6 DEF WebInv

LEMMA TakeInv == ASSUME WebInv, NEW w \in Workers, Take(w) PROVE WebInv'
<1> DEFINE h == Head(jobs)
<1>1. /\ thread[w] = "awake" /\ jobs # <<>>
      /\ held' = [held EXCEPT ![w] = h] /\ jobs' = Tail(jobs)
      /\ count' = [count EXCEPT ![w] = MaxCount]
      /\ thread' = [thread EXCEPT ![w] = "waiting"]
      /\ UNCHANGED <<closed, server, backlog, shutdown, client>>
  BY DEF Take, JobsLeft, poolOnly
<1>2. jobs \in Seq(Conns) /\ held \in [Workers -> Conns \cup {NoConn}]
  BY DEF WebInv, WebTypeOK
<1>3. /\ h \in Conns /\ jobs' \in Seq(Conns)
      /\ Len(jobs') = Len(jobs) - 1 /\ Len(jobs) \in Nat \ {0}
      /\ \A n \in 1..Len(jobs') : jobs'[n] = jobs[n + 1]
  BY <1>1, <1>2, HeadTailProperties, EmptySeq
<1>4. jobs[1] = h /\ 1 \in 1..Len(jobs)
  BY <1>2, <1>3
<1>5. \A n \in 1..Len(jobs') : n + 1 \in 1..Len(jobs) /\ n + 1 # 1
  BY <1>3
<1>6. \A n \in 1..Len(jobs) : n = 1 \/ (n - 1 \in 1..Len(jobs') /\ (n - 1) + 1 = n)
  BY <1>3
<1>7. held[w] = NoConn
  BY <1>1 DEF WebInv, HandsFull
<1>8. InQueue(h)
  BY <1>4 DEF InQueue
<1> HIDE DEF h
<1>9. \A d \in Conns : InQueue(d)' <=> InQueue(d) /\ d # h
  <2>1. \A n \in 1..Len(jobs') : jobs'[n] # h
    BY <1>3, <1>4, <1>5 DEF WebInv, NoneTwice
  <2>2. \A d \in Conns : InQueue(d)' => InQueue(d)
    BY <1>3, <1>5 DEF InQueue
  <2>3. \A d \in Conns : InQueue(d) /\ d # h => InQueue(d)'
    <3>1. SUFFICES ASSUME NEW d \in Conns, NEW n \in 1..Len(jobs), jobs[n] = d, d # h
                   PROVE  \E m \in 1..Len(jobs') : jobs'[m] = d
      BY DEF InQueue
    <3>2. n - 1 \in 1..Len(jobs') /\ (n - 1) + 1 = n
      BY <3>1, <1>4, <1>6
    <3>3. jobs'[n - 1] = jobs[(n - 1) + 1]
      BY <3>2, <1>3
    <3> QED BY <3>1, <3>2, <3>3
  <2> QED BY <2>1, <2>2, <2>3 DEF InQueue
<1>10. \A d \in Conns : InHands(d)' <=> InHands(d) \/ d = h
  BY <1>1, <1>2, <1>7, WebAssumption DEF InHands
<1>11. WebTypeOK'
  BY <1>1, <1>3, WebAssumption DEF WebInv, WebTypeOK
<1>12. Places'
  BY <1>1, <1>3, <1>8, <1>9, <1>10 DEF WebInv, Places
<1>13. NoneTwice'
  <2>1. \A m, n \in 1..Len(jobs') : jobs'[m] = jobs'[n] => m = n
    BY <1>3, <1>5 DEF WebInv, NoneTwice
  <2>2. \A v \in Workers : held[v] # h
    BY <1>3, <1>8 DEF WebInv, Places, InHands
  <2>3. \A u, v \in Workers : held'[u] = held'[v] /\ held'[u] # NoConn => u = v
    BY <1>1, <1>2, <2>2 DEF WebInv, NoneTwice
  <2> QED BY <2>1, <2>3 DEF NoneTwice
<1>14. HandsFull'
  <2>1. h # NoConn
    BY <1>3, WebAssumption
  <2> QED BY <2>1, <1>1, <1>2 DEF WebInv, WebTypeOK, HandsFull
<1>15. ~ AllExited /\ ~ AllExited'
  BY <1>1 DEF AllExited, WebInv, WebTypeOK
<1>16. Order'
  BY <1>1, <1>15 DEF WebInv, Order
<1> QED BY <1>11, <1>12, <1>13, <1>14, <1>16 DEF WebInv

\* Steps of a thread with the connection in its hands
LEMMA ServingInv ==
  ASSUME WebInv, NEW w \in Workers, thread[w] = "waiting",
         UNCHANGED <<server, backlog, jobs, shutdown, held, closed>>,
         client' \in [Conns -> Clients],
         \A d \in Conns : client'[d].state = client[d].state,
         count' \in [Workers -> 0..MaxCount],
         thread' = thread \/ thread' = [thread EXCEPT ![w] = "done"]
  PROVE  WebInv'
<1>1. WebTypeOK'
  BY DEF WebInv, WebTypeOK
<1>2. Places' /\ NoneTwice'
  BY PlacesKept
<1>3. HandsFull'
  BY DEF WebInv, WebTypeOK, HandsFull
<1>4. ~ AllExited /\ ~ AllExited'
  BY DEF AllExited, WebInv, WebTypeOK
<1>5. Order'
  BY <1>4 DEF WebInv, Order
<1> QED BY <1>1, <1>2, <1>3, <1>5 DEF WebInv

LEMMA LeaveInv ==
  ASSUME WebInv, NEW w \in Workers, Holds(w), Leave(w),
         UNCHANGED <<jobs, held, closed, poolOnly>>
  PROVE  WebInv'
<1>1. count' \in [Workers -> 0..MaxCount]
  BY WebAssumption DEF Leave, WebInv, WebTypeOK
<1>2. client' \in [Conns -> Clients]
  BY DEF poolOnly, WebInv, WebTypeOK
<1> QED BY <1>1, <1>2, ServingInv DEF Holds, Leave, poolOnly

\* What an answer, of a handler or of an error, may say of the connection's end.
Announced(w) == {Announces(client[held[w]].request, count[w] = 1), TRUE}

LEMMA AnswerCases ==
  ASSUME WebInv, NEW w \in Workers, ServeRequest(w) \/ ContentFails(w)
  PROVE  /\ Holds(w) /\ count[w] > 0 /\ held[w] \in Conns
         /\ Answer(w, Announced(w))
<1>1. Holds(w) /\ count[w] > 0
  BY DEF ServeRequest, ContentFails
<1>2. held[w] \in Conns
  BY <1>1 DEF Holds, WebInv, WebTypeOK, HandsFull
<1>3. CASE ServeRequest(w)
  BY <1>1, <1>2, <1>3 DEF ServeRequest, Announced
<1>4. CASE ContentFails(w)
  <2>1. Answer(w, {TRUE})
    BY <1>4 DEF ContentFails
  <2>2. Answer(w, Announced(w))
    BY <2>1 DEF Answer, Announced
  <2> QED BY <1>1, <1>2, <2>2
<1> QED BY <1>3, <1>4

LEMMA AnswerInv ==
  ASSUME WebInv, NEW w \in Workers, ServeRequest(w) \/ ContentFails(w) PROVE WebInv'
<1> DEFINE c == held[w]
           says == Announced(w)
<1>1. Holds(w) /\ count[w] > 0 /\ c \in Conns /\ WebTypeOK /\ Answer(w, says)
  BY AnswerCases DEF WebInv
<1>2. UNCHANGED <<server, backlog, jobs, shutdown, held, closed>>
  BY <1>1 DEF Answer
<1>3. PICK told \in says :
         client' = [client EXCEPT ![c] = [state   |-> client[c].state,
                                          request |-> Nothing, told |-> told]]
  BY <1>1 DEF Answer
<1>4. told \in BOOLEAN
  BY <1>3 DEF Announced, Announces
<1>5. /\ client' \in [Conns -> Clients]
      /\ \A d \in Conns : client'[d].state = client[d].state
  <2> HIDE DEF c, says
  <2> QED BY <1>1, <1>3, <1>4, Answered
<1>6. \/ Leave(w)
      \/ count' = [count EXCEPT ![w] = count[w] - 1] /\ thread' = thread
  BY <1>1 DEF Answer
<1>7. count' \in [Workers -> 0..MaxCount]
  <2>1. count[w] - 1 \in 0..MaxCount /\ 0 \in 0..MaxCount
    BY <1>1, WebAssumption DEF WebTypeOK
  <2> QED BY <2>1, <1>1, <1>6 DEF Leave, WebTypeOK
<1> QED BY <1>1, <1>2, <1>5, <1>6, <1>7, ServingInv DEF Holds, Leave

LEMMA ReadMoreInv == ASSUME WebInv, NEW w \in Workers, ReadMore(w) PROVE WebInv'
<1> DEFINE c == held[w]
<1>1. /\ Holds(w) /\ client[c].request # Nothing
      /\ client' = [client EXCEPT ![c].request.body = "due"]
      /\ UNCHANGED <<server, backlog, jobs, shutdown, thread, held, count, closed>>
  BY DEF ReadMore
<1>2. c \in Conns /\ WebTypeOK
  BY <1>1 DEF Holds, WebInv, WebTypeOK, HandsFull
<1>3. /\ client' \in [Conns -> Clients]
      /\ \A d \in Conns : client'[d].state = client[d].state
  <2> HIDE DEF c
  <2> QED BY <1>1, <1>2, Continued
<1>4. count' \in [Workers -> 0..MaxCount]
  BY <1>1, <1>2 DEF WebTypeOK
<1> QED BY <1>1, <1>3, <1>4, ServingInv DEF Holds

LEMMA NotWritableInv == ASSUME WebInv, NEW w \in Workers, NotWritable(w) PROVE WebInv'
<1> DEFINE c == held[w]
<1>1. Holds(w) /\ Leave(w) /\ UNCHANGED <<server, backlog, jobs, shutdown, held, closed>>
  BY DEF NotWritable
<1>2. c \in Conns /\ WebTypeOK
  BY <1>1 DEF Holds, WebInv, WebTypeOK, HandsFull
<1>3. client' = [client EXCEPT ![c].request = Nothing]
  BY DEF NotWritable
<1>4. /\ client' \in [Conns -> Clients]
      /\ \A d \in Conns : client'[d].state = client[d].state
  <2> HIDE DEF c
  <2> QED BY <1>2, <1>3, Requested
<1>5. count' \in [Workers -> 0..MaxCount]
  BY <1>1, WebAssumption DEF Leave, WebInv, WebTypeOK
<1> QED BY <1>1, <1>4, <1>5, ServingInv DEF Holds, Leave

LEMMA CloseSocketInv == ASSUME WebInv, NEW w \in Workers, CloseSocket(w) PROVE WebInv'
<1> DEFINE c == held[w]
<1>1. /\ thread[w] = "done" /\ closed' = closed \cup {c}
      /\ held' = [held EXCEPT ![w] = NoConn]
      /\ thread' = [thread EXCEPT ![w] = "awake"]
      /\ client' = [client EXCEPT ![c].request = Nothing]
      /\ UNCHANGED <<server, backlog, jobs, shutdown, count>>
  BY DEF CloseSocket
<1>2. c \in Conns /\ c # NoConn /\ WebTypeOK
  BY <1>1 DEF WebInv, WebTypeOK, HandsFull
<1>3. InHands(c)
  BY DEF InHands
<1> HIDE DEF c
<1>4. /\ client' \in [Conns -> Clients]
      /\ \A d \in Conns : client'[d].state = client[d].state
  BY <1>1, <1>2, Requested
<1>5. WebTypeOK'
  BY <1>1, <1>2, <1>4 DEF WebTypeOK
<1>6. \A d \in Conns : (InQueue(d)' <=> InQueue(d)) /\ (InHands(d)' <=> InHands(d) /\ d # c)
  <2>1. \A v \in Workers : held[v] = c => v = w
    BY <1>2 DEF c, WebInv, NoneTwice
  <2>2. \A v \in Workers : held'[v] = IF v = w THEN NoConn ELSE held[v]
    BY <1>1, <1>2 DEF WebTypeOK
  <2> QED BY <2>1, <2>2, <1>1, <1>2, WebAssumption DEF c, InQueue, InHands
<1>7. Places'
  BY <1>1, <1>2, <1>3, <1>4, <1>6 DEF WebInv, Places
<1>8. NoneTwice' /\ HandsFull'
  BY <1>1, <1>2 DEF WebInv, WebTypeOK, NoneTwice, HandsFull
<1>9. ~ AllExited /\ ~ AllExited'
  BY <1>1, <1>2 DEF AllExited, WebTypeOK
<1>10. Order'
  BY <1>1, <1>4, <1>9 DEF WebInv, Order
<1> QED BY <1>5, <1>7, <1>8, <1>10 DEF WebInv

LEMMA WorkerInv == ASSUME WebInv, NEW w \in Workers, WorkerStep(w) PROVE WebInv'
<1>1. CASE KeepAliveEnds(w) \/ NotReadable(w) \/ CountSpent(w)
  BY <1>1, LeaveInv DEF KeepAliveEnds, NotReadable, CountSpent
<1> QED BY <1>1, ExitInv, SleepInv, TakeInv, ReadMoreInv, AnswerInv, NotWritableInv,
        CloseSocketInv DEF WorkerStep

LEMMA WebStepInv == WebInv /\ [WebNext]_webVars => WebInv'
<1> SUFFICES ASSUME WebInv, [WebNext]_webVars PROVE WebInv'
  OBVIOUS
<1>1. CASE UNCHANGED webVars
  <2>1. Places' /\ NoneTwice'
    BY <1>1, PlacesKept DEF webVars
  <2> QED BY <2>1, <1>1 DEF webVars, WebInv, WebTypeOK, HandsFull, Order, AllExited
<1>2. CASE LaunchWeb
  BY <1>2, BindInv, AcceptInv, NotifyInv, NotifyAllInv, ListenReturnsInv DEF LaunchWeb
<1> QED BY <1>1, <1>2, ConnectInv, SendInv, SendMoreInv, HangUpInv, AcceptFailsInv, WorkerInv DEF WebNext

LEMMA WebInvariant == WebSpec => []WebInv
BY WebInitInv, WebStepInv, PTL DEF WebSpec

(* A connection is in the backlog, in the queue, in one thread's hands or    *)
(* closed, and never in two of these (httplib.h:935-983, 9321-9344).         *)
THEOREM OnePlace == WebSpec => []InOnePlace
BY WebInvariant, InvOnePlace, PTL

(* When listen returns, no connection is queued, held or left open           *)
(* (httplib.h:948-971, 9346).                                                *)
THEOREM NothingLeft == WebSpec => []NothingLeftBehind
BY WebInvariant, InvNothingLeft, PTL

-----------------------------------------------------------------------------
(* A close is announced *)

\* A thread whose connection has had all its requests has said so.
Told == \A w \in Workers : Holds(w) /\ count[w] = 0 => client[held[w]].told

\* Steps that announce nothing and in which no thread gives its last answer
LEMMA ToldKept ==
  ASSUME WebInv, Told,
         \A d \in Conns : client'[d].told = client[d].told,
         \A v \in Workers : thread'[v] = "waiting" /\ count'[v] = 0 =>
            thread[v] = "waiting" /\ count[v] = 0 /\ held'[v] = held[v]
  PROVE  Told'
<1> SUFFICES ASSUME NEW v \in Workers, thread'[v] = "waiting", count'[v] = 0
             PROVE  client'[held'[v]].told
  BY DEF Told, Holds
<1>1. thread[v] = "waiting" /\ count[v] = 0 /\ held'[v] = held[v]
  OBVIOUS
<1>2. held[v] \in Conns /\ client[held[v]].told
  BY <1>1 DEF WebInv, WebTypeOK, HandsFull, Told, Holds
<1> QED BY <1>1, <1>2

LEMMA ClientsTold ==
  ASSUME WebInv, Told, NEW c \in Conns,
         Connect(c) \/ SendMore(c) \/ HangUp(c) \/ \E r \in Requests : Send(c, r)
  PROVE  Told'
<1>1. UNCHANGED <<thread, held, count>>
  BY DEF Connect, HangUp, Send, SendMore, clientsOnly
<1>2. CASE Connect(c) \/ HangUp(c)
  BY <1>1, <1>2, Entered, ToldKept DEF Connect, HangUp, WebInv
<1>3. ASSUME NEW r \in Requests, Send(c, r) PROVE Told'
  BY <1>1, <1>3, Requested, ToldKept, RequestsAssumption DEF Send, WebInv
<1>4. CASE SendMore(c)
  BY <1>1, <1>4, Continued, ToldKept DEF SendMore, WebInv
<1> QED BY <1>2, <1>3, <1>4

LEMMA ServerTold == ASSUME WebInv, Told, LaunchWeb \/ AcceptFails PROVE Told'
<1>1. UNCHANGED <<held, count>>
  BY DEF LaunchWeb, Bind, Accept, Notify, NotifyAll, ListenReturns, AcceptFails, serverOnly
<1>2. \A v \in Workers : thread'[v] = "waiting" => thread[v] = "waiting"
  BY DEF LaunchWeb, Bind, Accept, Notify, NotifyAll, ListenReturns, AcceptFails, serverOnly,
         WebInv, WebTypeOK
<1>3. \A d \in Conns : client'[d].told = client[d].told
  <2>1. CASE LaunchWeb
    BY <2>1 DEF LaunchWeb, Bind, Accept, Notify, NotifyAll, ListenReturns, serverOnly
  <2>2. CASE AcceptFails
    <3> SUFFICES ASSUME NEW d \in Conns PROVE client'[d].told = client[d].told
      OBVIOUS
    <3>1. client[d] \in Clients
      BY DEF WebInv, WebTypeOK
    <3>2. [client[d] EXCEPT !.state = "gone"].told = client[d].told
      BY <3>1 DEF Clients
    <3>3. client'[d] = client[d] \/ client'[d] = [client[d] EXCEPT !.state = "gone"]
      BY <2>2 DEF AcceptFails
    <3> QED BY <3>2, <3>3
  <2> QED BY <2>1, <2>2
<1> QED BY <1>1, <1>2, <1>3, ToldKept

\* The last of MaxCount answers tells the client.
LEMMA AnswerTold ==
  ASSUME WebInv, Told, NEW w \in Workers, ServeRequest(w) \/ ContentFails(w)
  PROVE  Told'
<1> DEFINE c == held[w]
           says == Announced(w)
<1>1. thread[w] = "waiting" /\ count[w] > 0 /\ Answer(w, says) /\ held' = held
  BY AnswerCases DEF Answer, Holds
<1>2. c \in Conns /\ WebTypeOK
  BY <1>1 DEF WebInv, WebTypeOK, HandsFull
<1>3. PICK told \in says :
         client' = [client EXCEPT ![c] = [state   |-> client[c].state,
                                          request |-> Nothing, told |-> told]]
  BY <1>1 DEF Answer
<1>4. count[w] = 1 => told = TRUE
  BY <1>3 DEF Announced, Announces
<1>5. client'[c].told = told /\ \A d \in Conns \ {c} : client'[d] = client[d]
  <2> HIDE DEF c, says
  <2> QED BY <1>2, <1>3 DEF WebTypeOK
<1>6. \/ thread' = [thread EXCEPT ![w] = "done"] /\ count' = [count EXCEPT ![w] = 0]
      \/ thread' = thread /\ count' = [count EXCEPT ![w] = count[w] - 1]
  BY <1>1 DEF Answer, Leave
<1> SUFFICES ASSUME NEW v \in Workers, thread'[v] = "waiting", count'[v] = 0
             PROVE  client'[held[v]].told
  BY <1>1 DEF Told, Holds
<1>7. CASE v = w
  <2>1. count[w] - 1 = 0 /\ count[w] \in Nat
    BY <1>2, <1>6, <1>7 DEF WebTypeOK
  <2> QED BY <1>4, <1>5, <1>7, <2>1
<1>8. CASE v # w
  <2>1. thread[v] = "waiting" /\ count[v] = 0
    BY <1>2, <1>6, <1>8 DEF WebTypeOK
  <2>2. held[v] \in Conns /\ held[v] # NoConn /\ client[held[v]].told
    BY <2>1 DEF WebInv, WebTypeOK, HandsFull, Told, Holds
  <2>3. held[v] # c
    BY <1>8, <2>2 DEF WebInv, NoneTwice
  <2> QED BY <1>5, <2>2, <2>3
<1> QED BY <1>7, <1>8

LEMMA WorkerTold == ASSUME WebInv, Told, NEW w \in Workers, WorkerStep(w) PROVE Told'
<1>1. CASE Exit(w) \/ Sleep(w)
  BY <1>1, ToldKept DEF Exit, Sleep, poolOnly, WebInv, WebTypeOK
<1>2. CASE Take(w)
  <2>1. MaxCount # 0
    BY WebAssumption
  <2>2. client' = client
    BY <1>2 DEF Take, poolOnly
  <2> QED BY <1>2, <2>1, <2>2, ToldKept DEF Take, WebInv, WebTypeOK
<1>3. CASE KeepAliveEnds(w) \/ NotReadable(w) \/ CountSpent(w)
  <2>1. Leave(w) /\ UNCHANGED <<held, client>>
    BY <1>3 DEF KeepAliveEnds, NotReadable, CountSpent, poolOnly
  <2> QED BY <2>1, ToldKept DEF Leave, WebInv, WebTypeOK
<1>4. CASE NotWritable(w) \/ CloseSocket(w)
  <2>1. held[w] \in Conns /\ client' = [client EXCEPT ![held[w]].request = Nothing]
    BY <1>4 DEF NotWritable, CloseSocket, Holds, WebInv, WebTypeOK, HandsFull
  <2>2. \A d \in Conns : client'[d].told = client[d].told
    BY <2>1, Requested DEF WebInv
  <2>3. \A v \in Workers : thread'[v] = "waiting" =>
           thread[v] = "waiting" /\ v # w /\ count'[v] = count[v] /\ held'[v] = held[v]
    BY <1>4 DEF NotWritable, CloseSocket, Leave, WebInv, WebTypeOK
  <2> QED BY <2>2, <2>3, ToldKept
<1>5. CASE ReadMore(w)
  <2>1. /\ held[w] \in Conns /\ client[held[w]].request # Nothing
        /\ client' = [client EXCEPT ![held[w]].request.body = "due"]
    BY <1>5 DEF ReadMore, Holds, WebInv, WebTypeOK, HandsFull
  <2>2. \A d \in Conns : client'[d].told = client[d].told
    BY <2>1, Continued DEF WebInv
  <2> QED BY <1>5, <2>2, ToldKept DEF ReadMore
<1> QED BY <1>1, <1>2, <1>3, <1>4, <1>5, AnswerTold DEF WorkerStep

LEMMA ToldStep == WebInv /\ Told /\ [WebNext]_webVars => Told'
<1> SUFFICES ASSUME WebInv, Told, [WebNext]_webVars PROVE Told'
  OBVIOUS
<1>1. CASE UNCHANGED webVars
  BY <1>1, ToldKept DEF webVars
<1> QED BY <1>1, ClientsTold, ServerTold, WorkerTold DEF WebNext

LEMMA ToldInit == WebInit => Told
<1> SUFFICES ASSUME WebInit PROVE Told
  OBVIOUS
<1>1. \A w \in Workers : thread[w] # "waiting"
  BY DEF WebInit
<1> QED BY <1>1 DEF Told, Holds

(* A connection that has had its number of requests is only closed after an  *)
(* answer that said so (httplib.h:4414-4429, 8836-8838).                     *)
THEOREM CloseIsAnnounced == WebSpec => ToldBeforeClosed
<1>1. WebSpec => []Told
  BY WebInvariant, ToldInit, ToldStep, PTL DEF WebSpec
<1>2. Told => [\A w \in Workers : CountSpent(w) => client[held[w]].told]_webVars
  BY DEF Told, CountSpent
<1> QED BY <1>1, <1>2, PTL DEF ToldBeforeClosed

=============================================================================
