------------------------------- MODULE ResProxy ------------------------------
(***************************************************************************)
(* resproxy (resproxy.cc): looks in a window of the log for addresses with *)
(* a single hit, the mark of a crawler that goes through residential       *)
(* proxies.  A hit near the ends of the window is disregarded, since its   *)
(* neighbours may lie outside.                                             *)
(***************************************************************************)
EXTENDS Addresses, FiniteSets

CONSTANTS Ips,           \* texts in the column ip
          HostOf,        \* the address each converts to: two may be the same
          Visitors,      \* country, language and AS number of a hit
          Times,         \* values of the column timestamp
          Windows,       \* the pairs of start and end there may be
          BorderSeconds, \* borderMinutes * 60
          MaxRows        \* bound: rows in the database

ASSUME ProxyAssumption == /\ Times \subseteq Nat
                          /\ Windows \subseteq [start : Int, end : Int]
                          /\ Windows # {}
                          /\ Visitors # {}
                          /\ BorderSeconds \in Nat
                          /\ MaxRows \in Nat

\* The rows of the view botfree that ask for /tkconv/; rows that are equal
\* otherwise differ in nth.
Rows == [ip : Ips, tstamp : Times, from : Visitors, nth : {1, 2}]

VARIABLES db,        \* rows of the database, as the transaction sees them
          window,    \* start and end
          todo,      \* rows of the result that are still to be read
          ips,       \* per text: count, time of the last hit, its visitor
          unjudged,  \* texts that the second loop has not come to
          singles,
          conlang,   \* singles by country and language
          bastards,  \* what goes into sneaky-crawlers.txt
          nl,        \* those of them that are Dutch, with their AS
          proxyPc

proxyVars == <<db, window, todo, ips, unjudged, singles, conlang, bastards, nl, proxyPc>>

Unseen == [count |-> 0, last |-> 0, from |-> CHOOSE v \in Visitors : TRUE]

ProxyInit ==
  /\ db = {}
  /\ window = CHOOSE w \in Windows : TRUE
  /\ todo = {}
  /\ ips = [i \in Ips |-> Unseen]
  /\ unjudged = {}
  /\ singles = 0
  /\ conlang = [v \in Visitors |-> 0]
  /\ bastards = {}
  /\ nl = {}
  /\ proxyPc = "query"

\* What has been logged so far
Log(r) ==
  /\ proxyPc = "query"
  /\ Cardinality(db) < MaxRows
  /\ db' = db \cup {r}
  /\ UNCHANGED <<window, todo, ips, unjudged, singles, conlang, bastards, nl, proxyPc>>

InWindow(r, w) == w.start < r.tstamp /\ r.tstamp < w.end

Query(w) ==
  /\ proxyPc = "query"
  /\ window' = w
  /\ todo' = {r \in db : InWindow(r, w)}
  /\ proxyPc' = "read"
  /\ UNCHANGED <<db, ips, unjudged, singles, conlang, bastards, nl>>

\* Rows come in the order of their timestamp, equal ones in any.
ReadRow(r) ==
  /\ proxyPc = "read"
  /\ \A s \in todo : r.tstamp <= s.tstamp
  /\ todo' = todo \ {r}
  /\ ips' = [ips EXCEPT ![r.ip] = [count |-> @.count + 1,
                                   last  |-> r.tstamp,
                                   from  |-> r.from]]
  /\ UNCHANGED <<db, window, unjudged, singles, conlang, bastards, nl, proxyPc>>

ReadAll ==
  /\ proxyPc = "read"
  /\ todo = {}
  /\ unjudged' = {i \in Ips : ips[i].count > 0}
  /\ proxyPc' = "judge"
  /\ UNCHANGED <<db, window, todo, ips, singles, conlang, bastards, nl>>

\* Faulty: only the start of the window is looked at.
NearStart(t) == t - window.start < BorderSeconds

NearEdge(t) == t - window.start < BorderSeconds \/ window.end - t < BorderSeconds

Address(i) == Combo(HostOf[i], 0)

\* std::set::insert, which knows equality by its order only
Inserted(set, c) ==
  IF \E d \in set : ~ LessThan(c, d) /\ ~ LessThan(d, c) THEN set ELSE set \cup {c}

Judge(i) ==
  LET hit == ips[i]
  IN /\ proxyPc = "judge"
     /\ i \in unjudged
     /\ unjudged' = unjudged \ {i}
     /\ IF hit.count = 1 /\ ~ NearEdge(hit.last)
        THEN /\ singles' = singles + 1
             /\ conlang' = [conlang EXCEPT ![hit.from] = @ + 1]
             /\ bastards' = Inserted(bastards, Address(i))
             /\ nl' = IF hit.from.country = "NL"
                      THEN nl \cup {<<Address(i), hit.from.asn>>} ELSE nl
        ELSE UNCHANGED <<singles, conlang, bastards, nl>>
     /\ UNCHANGED <<db, window, todo, ips, proxyPc>>

Write ==
  /\ proxyPc = "judge"
  /\ unjudged = {}
  /\ proxyPc' = "written"
  /\ UNCHANGED <<db, window, todo, ips, unjudged, singles, conlang, bastards, nl>>

ProxyNext == \/ \E r \in Rows : Log(r)
             \/ \E r \in todo : ReadRow(r)
             \/ \E w \in Windows : Query(w)
             \/ \E i \in Ips : Judge(i)
             \/ ReadAll \/ Write

ProxySpec == ProxyInit /\ [][ProxyNext]_proxyVars

-----------------------------------------------------------------------------
(* Properties *)

\* Two times are further apart than a border, whichever is first.
Apart(t, u) == t - u >= BorderSeconds \/ u - t >= BorderSeconds

\* A hit that is alone in the whole database, not only in the window.
Alone(r) == \A s \in db : s.ip = r.ip /\ s # r => Apart(s.tstamp, r.tstamp)

(* Every address in sneaky-crawlers.txt stands for a hit that has no         *)
(* neighbour of the same ip within five minutes, neither in the window nor   *)
(* outside of it: that is what the borders are cut off for                   *)
(* (resproxy.cc:36-61, 93-95).                                               *)
NoNeighbour ==
  \A c \in bastards : \E r \in db : c = Address(r.ip) /\ Alone(r)

=============================================================================
