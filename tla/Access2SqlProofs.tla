--------------------------- MODULE Access2SqlProofs ----------------------------
(***************************************************************************)
(* The program access2sql, for any number of threads, labels and lines and *)
(* whatever writer and database do: every page that the web server has     *)
(* rendered is consistent; each step of the program is one that the writer *)
(* may take, so that what is proved of the writer holds within it; and the *)
(* counters follow the rows, up to the end.                                *)
(***************************************************************************)
EXTENDS Access2Sql, FiniteSetTheorems, WellFoundedInduction, TLAPS

-----------------------------------------------------------------------------
(* The inductive invariant *)

Counts == [Labels -> Nat]
Pages == [queries : Counts, bytes : Counts, ips : Counts]

CountTypes ==
  /\ hit \in Labels
  /\ queries \in Counts /\ bytes \in Counts /\ ips \in Counts
  /\ web \in [Scrapers -> {"idle", "locking", "bytes", "queries", "ips", "gone"}]
  /\ page \in [Scrapers -> Pages]

\* Whoever is at the counters has the mutex, alone.
Exclusive ==
  /\ main \in {"ips", "queries", "bytes", "unlocking"} => holder = {"main"}
  /\ \A s \in Scrapers : web[s] \in {"bytes", "queries", "ips"} => holder = {s}

\* How far the counters are apart depends on where main is.
CountersEven ==
  /\ main \notin {"queries", "bytes", "dead"} => queries = bytes /\ bytes = ips
  /\ main = "queries" => queries = bytes /\ ips = [queries EXCEPT ![hit] = @ + 1]
  /\ main = "bytes" => queries = ips /\ queries = [bytes EXCEPT ![hit] = @ + 1]

\* What a page has so far is what the counters are.
PageFollows(s) ==
  /\ web[s] = "idle" => page[s].queries = page[s].bytes /\ page[s].queries = page[s].ips
  /\ web[s] \in {"queries", "ips"} => page[s].bytes = bytes
  /\ web[s] = "ips" => page[s].queries = queries

PagesInv ==
  /\ CountTypes
  /\ Exclusive
  /\ CountersEven
  /\ \A s \in Scrapers : PageFollows(s)
  /\ main \in {"dead", "exited"} => \A s \in Scrapers : web[s] = "gone"

-----------------------------------------------------------------------------
(* Lemmas *)

LEMMA PagesInitInv == Init => PagesInv
<1> SUFFICES ASSUME Init PROVE PagesInv
  OBVIOUS
<1>1. Zero \in Counts
  BY DEF Zero, Counts
<1>2. NoPage \in Pages /\ NoPage.queries = NoPage.bytes /\ NoPage.queries = NoPage.ips
  BY <1>1 DEF NoPage, Pages
<1>3. CountTypes
  BY <1>1, <1>2 DEF Init, CountTypes
<1>4. \A s \in Scrapers : web[s] = "idle" /\ page[s] = NoPage
  BY DEF Init
<1>5. \A s \in Scrapers : PageFollows(s)
  BY <1>2, <1>4 DEF PageFollows
<1> QED BY <1>3, <1>4, <1>5 DEF Init, PagesInv, Exclusive, CountersEven

\* A step of main that leaves counters, mutex and pages alone
LEMMA MainElsewhere ==
  ASSUME PagesInv, hit' \in Labels, UNCHANGED <<holder, counts, server>>,
         main \in {"reading", "adding", "closing"},
         main' \in {"reading", "adding", "locking", "closing"}
  PROVE  PagesInv'
BY DEF counts, server, PagesInv, CountTypes, Exclusive, CountersEven, PageFollows

\* While main has the mutex, no page is being rendered.
LEMMA MainAlone ==
  ASSUME PagesInv, main \in {"ips", "queries", "bytes", "unlocking"}
  PROVE  \A s \in Scrapers : web[s] \notin {"bytes", "queries", "ips"}
<1>1. holder = {"main"}
  BY DEF PagesInv, Exclusive
<1>2. \A s \in Scrapers : holder # {s}
  BY <1>1, ScrapersAssumption
<1> QED BY <1>2 DEF PagesInv, Exclusive

LEMMA CountIpInv == ASSUME PagesInv, CountIp PROVE PagesInv'
<1>1. ips' \in Counts
  BY DEF CountIp, PagesInv, CountTypes, Counts
<1> QED BY <1>1, MainAlone
        DEF CountIp, server, PagesInv, CountTypes, Exclusive, CountersEven, PageFollows

LEMMA CountQueryInv == ASSUME PagesInv, CountQuery PROVE PagesInv'
<1>1. queries' \in Counts
  BY DEF CountQuery, PagesInv, CountTypes, Counts
<1> QED BY <1>1, MainAlone
        DEF CountQuery, server, PagesInv, CountTypes, Exclusive, CountersEven, PageFollows

LEMMA CountBytesInv == ASSUME PagesInv, CountBytes PROVE PagesInv'
<1>1. bytes' \in Counts
  BY DEF CountBytes, PagesInv, CountTypes, Counts
<1> QED BY <1>1, MainAlone
        DEF CountBytes, server, PagesInv, CountTypes, Exclusive, CountersEven, PageFollows

LEMMA MainInv == ASSUME PagesInv, Main PROVE PagesInv'
<1>1. ASSUME NEW l \in Labels, ReadHit(l) PROVE PagesInv'
  BY <1>1, MainElsewhere DEF ReadHit
<1>2. CASE HandOver
  BY <1>2, MainElsewhere DEF HandOver, PagesInv, CountTypes
<1>3. CASE Lock
  BY <1>3 DEF Lock, counts, server, PagesInv, CountTypes, Exclusive, CountersEven, PageFollows
<1>4. CASE Unlock
  BY <1>4, MainAlone
     DEF Unlock, counts, server, PagesInv, CountTypes, Exclusive, CountersEven, PageFollows
<1>5. CASE Eof
  BY <1>5, MainElsewhere DEF Eof, PagesInv, CountTypes
<1>6. CASE Exit
  BY <1>6 DEF Exit, counts, PagesInv, CountTypes, Exclusive, CountersEven, PageFollows
<1> QED BY <1>1, <1>2, <1>3, <1>4, <1>5, <1>6, CountIpInv, CountQueryInv, CountBytesInv DEF Main

\* While a page is rendered, main is not at the counters, nor is another page.
LEMMA ScraperAlone ==
  ASSUME PagesInv, NEW s \in Scrapers, web[s] \in {"bytes", "queries", "ips"}
  PROVE  /\ holder = {s}
         /\ main \notin {"ips", "queries", "bytes", "unlocking", "dead", "exited"}
         /\ queries = bytes /\ bytes = ips
         /\ \A r \in Scrapers \ {s} : web[r] \notin {"bytes", "queries", "ips"}
<1>1. holder = {s}
  BY DEF PagesInv, Exclusive
<1>2. holder # {"main"} /\ \A r \in Scrapers \ {s} : holder # {r}
  BY <1>1, ScrapersAssumption
<1> QED BY <1>1, <1>2 DEF PagesInv, Exclusive, CountersEven

\* A step of thread s changes no other thread's page.
LEMMA OtherPages ==
  ASSUME PagesInv, NEW s \in Scrapers, NEW x, NEW p \in Pages,
         web' = [web EXCEPT ![s] = x], page' = [page EXCEPT ![s] = p],
         UNCHANGED <<main, hit, counts>>,
         x \in {"idle", "locking", "bytes", "queries", "ips"},
         \A r \in Scrapers \ {s} : web[r] \in {"bytes", "queries", "ips"} => holder' = {r},
         main \in {"ips", "queries", "bytes", "unlocking"} => holder' = {"main"},
         x \in {"bytes", "queries", "ips"} => holder' = {s},
         main \notin {"dead", "exited"},
         x = "idle" => p.queries = p.bytes /\ p.queries = p.ips,
         x \in {"queries", "ips"} => p.bytes = bytes,
         x = "ips" => p.queries = queries
  PROVE  PagesInv'
<1>1. /\ web'[s] = x /\ page'[s] = p
      /\ \A r \in Scrapers \ {s} : web'[r] = web[r] /\ page'[r] = page[r]
  BY DEF PagesInv, CountTypes
<1>2. CountTypes'
  BY DEF counts, PagesInv, CountTypes
<1>3. Exclusive'
  BY <1>1 DEF Exclusive
<1>4. CountersEven'
  BY DEF counts, PagesInv, CountersEven
<1>5. \A r \in Scrapers : PageFollows(r)'
  BY <1>1 DEF counts, PagesInv, PageFollows
<1> QED BY <1>2, <1>3, <1>4, <1>5 DEF PagesInv

LEMMA RequestInv == ASSUME PagesInv, NEW s \in Scrapers, Request(s) PROVE PagesInv'
<1>1. NoPage \in Pages
  BY DEF NoPage, Zero, Pages, Counts
<1>2. web[s] = "idle"
  BY DEF Request
<1>3. main \notin {"dead", "exited"}
  BY <1>2 DEF PagesInv
<1> HIDE DEF NoPage
<1> QED BY <1>1, <1>2, <1>3, OtherPages DEF Request, PagesInv, Exclusive

LEMMA LockPageInv == ASSUME PagesInv, NEW s \in Scrapers, LockPage(s) PROVE PagesInv'
<1>1. page \in [Scrapers -> Pages]
  BY DEF PagesInv, CountTypes
<1>2. page' = [page EXCEPT ![s] = page[s]] /\ page[s] \in Pages
  BY <1>1 DEF LockPage
<1>3. main \notin {"dead", "exited", "ips", "queries", "bytes", "unlocking"}
  BY DEF LockPage, PagesInv, Exclusive
<1>4. \A r \in Scrapers : web[r] \notin {"bytes", "queries", "ips"}
  BY DEF LockPage, PagesInv, Exclusive
<1> QED BY <1>2, <1>3, <1>4, OtherPages DEF LockPage

LEMMA RenderInv == ASSUME PagesInv, NEW s \in Scrapers, Render(s) PROVE PagesInv'
<1> DEFINE k == page[s]
<1>1. k \in Pages /\ page \in [Scrapers -> Pages]
      /\ bytes \in Counts /\ queries \in Counts /\ ips \in Counts
  BY DEF PagesInv, CountTypes
<1>2. CASE RenderBytes(s)
  <2>1. page' = [page EXCEPT ![s] = [k EXCEPT !.bytes = bytes]]
    BY <1>1, <1>2 DEF RenderBytes
  <2>2. [k EXCEPT !.bytes = bytes] \in Pages /\ [k EXCEPT !.bytes = bytes].bytes = bytes
    BY <1>1 DEF Pages
  <2> QED BY <2>1, <2>2, <1>2, ScraperAlone, OtherPages DEF RenderBytes
<1>3. CASE RenderQueries(s)
  <2>1. page' = [page EXCEPT ![s] = [k EXCEPT !.queries = queries]]
    BY <1>1, <1>3 DEF RenderQueries
  <2>2. /\ [k EXCEPT !.queries = queries] \in Pages
        /\ [k EXCEPT !.queries = queries].queries = queries
        /\ [k EXCEPT !.queries = queries].bytes = k.bytes
    BY <1>1 DEF Pages
  <2>3. k.bytes = bytes
    BY <1>3 DEF RenderQueries, PagesInv, PageFollows
  <2> QED BY <2>1, <2>2, <2>3, <1>3, ScraperAlone, OtherPages DEF RenderQueries
<1>4. CASE RenderIps(s)
  <2>1. page' = [page EXCEPT ![s] = [k EXCEPT !.ips = ips]]
    BY <1>1, <1>4 DEF RenderIps
  <2>2. /\ [k EXCEPT !.ips = ips] \in Pages
        /\ [k EXCEPT !.ips = ips].ips = ips
        /\ [k EXCEPT !.ips = ips].bytes = k.bytes
        /\ [k EXCEPT !.ips = ips].queries = k.queries
    BY <1>1 DEF Pages
  <2>3. k.bytes = bytes /\ k.queries = queries
    BY <1>4 DEF RenderIps, PagesInv, PageFollows
  <2>4. /\ holder = {s} /\ queries = bytes /\ bytes = ips
        /\ main \notin {"ips", "queries", "bytes", "unlocking", "dead", "exited"}
        /\ \A r \in Scrapers \ {s} : web[r] \notin {"bytes", "queries", "ips"}
    BY <1>4, ScraperAlone DEF RenderIps
  <2>5. web' = [web EXCEPT ![s] = "idle"] /\ UNCHANGED <<main, hit, counts>>
    BY <1>4 DEF RenderIps
  <2> DEFINE p == [k EXCEPT !.ips = ips]
  <2>6. p \in Pages /\ p.queries = p.bytes /\ p.queries = p.ips
    BY <2>2, <2>3, <2>4
  <2>7. page' = [page EXCEPT ![s] = p]
    BY <2>1
  <2> HIDE DEF p
  <2> QED BY <2>4, <2>5, <2>6, <2>7, OtherPages
<1> QED BY <1>2, <1>3, <1>4, LockPageInv DEF Render

LEMMA WorkerRunsInv == ASSUME PagesInv, WorkerRuns PROVE PagesInv'
<1>1. CASE caller' = "killed"
  <2>1. main' = "dead" /\ web' = [s \in Scrapers |-> "gone"] /\ UNCHANGED <<hit, holder, counts, page>>
    BY <1>1 DEF WorkerRuns
  <2> QED BY <2>1 DEF counts, PagesInv, CountTypes, Exclusive, CountersEven, PageFollows
<1>2. CASE caller' # "killed"
  <2>1. UNCHANGED <<main, hit, holder, counts, server>>
    BY <1>2 DEF WorkerRuns
  <2> QED BY <2>1 DEF counts, server, PagesInv, CountTypes, Exclusive, CountersEven, PageFollows
<1> QED BY <1>1, <1>2

LEMMA PagesStepInv == PagesInv /\ [Next]_vars => PagesInv'
<1> SUFFICES ASSUME PagesInv, [Next]_vars PROVE PagesInv'
  OBVIOUS
<1>1. CASE UNCHANGED vars
  BY <1>1 DEF vars, counts, server, PagesInv, CountTypes, Exclusive, CountersEven, PageFollows
<1> QED BY <1>1, MainInv, RequestInv, RenderInv, WorkerRunsInv DEF Next

LEMMA AlwaysPages == Spec => []PagesInv
BY PagesInitInv, PagesStepInv, PTL DEF Spec

(* A page shows every hit in all its counters or in none: main and the       *)
(* threads of the web server exclude each other, and a page is taken and the *)
(* counters are moved within one stay in the mutex                           *)
(* (access2sql.cc:218-230, ac2web.cc:40-53).                                 *)
THEOREM ConsistentPages == Spec => []PagesConsistent
<1>1. PagesInv => PagesConsistent
  BY DEF PagesInv, PageFollows, PagesConsistent
<1> QED BY <1>1, AlwaysPages, PTL

-----------------------------------------------------------------------------
(* Sums over labels *)

\* The sums that Total folds, over each set of labels
SumsEquation(f, g) ==
  g = [s \in SUBSET Labels |->
         IF s = {} THEN 0
         ELSE LET l == CHOOSE l \in s : TRUE
              IN f[l] + g[s \ {l}]]

Sums(f) == CHOOSE g : SumsEquation(f, g)

LEMMA TotalIsSum ==
  ASSUME NEW f
  PROVE  Total(f) = Sums(f)[Labels]
BY DEF Total, MapThenSumSet, MapThenFoldSet, Sums, SumsEquation

\* The units that a counter counts: one pair for each, up to a bound on it
Column(f, l) == {l} \X (1..f[l])
Units(f, s, n) == {u \in s \X (1..n) : u[2] <= f[u[1]]}

\* Without one of the labels there are as many units less as it counts.
LEMMA UnitsOfSet ==
  ASSUME NEW n \in Nat, NEW f \in [Labels -> 0..n], NEW s \in SUBSET Labels
  PROVE  /\ IsFiniteSet(Units(f, s, n))
         /\ Cardinality(Units(f, s, n)) \in Nat
         /\ \A l \in s : Cardinality(Units(f, s, n)) =
                           f[l] + Cardinality(Units(f, s \ {l}, n))
<1>1. IsFiniteSet(1..n)
  BY FS_Interval
<1>2. ASSUME NEW t \in SUBSET Labels
      PROVE  IsFiniteSet(Units(f, t, n)) /\ Cardinality(Units(f, t, n)) \in Nat
  <2>1. IsFiniteSet(t)
    BY LabelsAssumption, FS_Subset
  <2>2. IsFiniteSet(t \X (1..n))
    BY <1>1, <2>1, FS_Product
  <2>3. Units(f, t, n) \in SUBSET (t \X (1..n))
    BY DEF Units
  <2>4. IsFiniteSet(Units(f, t, n))
    BY <2>2, <2>3, FS_Subset
  <2> QED BY <2>4, FS_CardinalityType
<1>3. ASSUME NEW l \in s
      PROVE  Cardinality(Units(f, s, n)) = f[l] + Cardinality(Units(f, s \ {l}, n))
  <2> DEFINE rest == Units(f, s \ {l}, n)
  <2>1. l \in Labels /\ f[l] \in 0..n /\ f[l] \in Nat
    OBVIOUS
  <2>2. /\ IsFiniteSet({l}) /\ Cardinality({l}) = 1
        /\ IsFiniteSet(1..f[l]) /\ Cardinality(1..f[l]) = f[l]
    <3>1. IsFiniteSet({l}) /\ Cardinality({l}) = 1
      BY FS_Singleton
    <3>2. /\ IsFiniteSet(1..f[l])
          /\ Cardinality(1..f[l]) = IF 1 > f[l] THEN 0 ELSE f[l] - 1 + 1
      BY <2>1, 1 \in Int, f[l] \in Int, FS_Interval
    <3> QED BY <2>1, <3>1, <3>2
  <2>3. IsFiniteSet(Column(f, l)) /\ Cardinality(Column(f, l)) = f[l]
    BY <2>1, <2>2, FS_Product DEF Column
  <2>4. Column(f, l) \cap rest = {}
    BY DEF Units, Column
  <2>5. Units(f, s, n) = Column(f, l) \cup rest
    <3>1. ASSUME NEW u \in Units(f, s, n) PROVE u \in Column(f, l) \cup rest
      <4>1. u \in s \X (1..n) /\ u[2] <= f[u[1]]
        BY DEF Units
      <4>2. PICK k \in s, i \in 1..n : u = <<k, i>> /\ i <= f[k]
        BY <4>1
      <4> QED BY <4>1, <4>2, <2>1 DEF Units, Column
    <3>2. ASSUME NEW u \in Column(f, l) \cup rest PROVE u \in Units(f, s, n)
      <4>1. CASE u \in rest
        BY <4>1 DEF Units
      <4>2. CASE u \in Column(f, l)
        <5>1. PICK i \in 1..f[l] : u = <<l, i>>
          BY <4>2 DEF Column
        <5> QED BY <5>1, <2>1 DEF Units
      <4> QED BY <4>1, <4>2
    <3> QED BY <3>1, <3>2
  <2>6. IsFiniteSet(rest) /\ Cardinality(rest) \in Nat
    BY <1>2
  <2> HIDE DEF rest
  <2>7. Cardinality(Units(f, s, n)) = f[l] + Cardinality(rest) - Cardinality({})
    BY <2>3, <2>4, <2>5, <2>6, FS_Union
  <2> QED BY <2>1, <2>6, <2>7, FS_EmptySet DEF rest
<1> QED BY <1>2, <1>3

\* The fold is the number of units.
LEMMA SumsAreUnits ==
  ASSUME NEW n \in Nat, NEW f \in [Labels -> 0..n]
  PROVE  \A s \in SUBSET Labels : Sums(f)[s] = Cardinality(Units(f, s, n))
<1> DEFINE u == [s \in SUBSET Labels |-> Cardinality(Units(f, s, n))]
           g == Sums(f)
           wrong == {s \in SUBSET Labels : g[s] # u[s]}
<1>1. ASSUME NEW s \in SUBSET Labels
      PROVE  u[s] = IF s = {} THEN 0
                    ELSE LET l == CHOOSE l \in s : TRUE IN f[l] + u[s \ {l}]
  <2>1. CASE s = {}
    <3>1. Units(f, s, n) = {}
      BY <2>1 DEF Units
    <3> QED BY <2>1, <3>1, FS_EmptySet
  <2>2. CASE s # {}
    <3> DEFINE l == CHOOSE l \in s : TRUE
    <3>1. l \in s
      BY <2>2
    <3>2. s \ {l} \in SUBSET Labels
      OBVIOUS
    <3> HIDE DEF l
    <3>3. u[s] = f[l] + u[s \ {l}]
      BY <3>1, <3>2, UnitsOfSet
    <3> QED BY <2>2, <3>3 DEF l
  <2> QED BY <2>1, <2>2
<1>2. SumsEquation(f, u)
  <2> DEFINE rhs == [s \in SUBSET Labels |->
                       IF s = {} THEN 0
                       ELSE LET l == CHOOSE l \in s : TRUE IN f[l] + u[s \ {l}]]
  <2>1. \A s \in SUBSET Labels : u[s] = rhs[s]
    BY <1>1
  <2>2. u = [s \in SUBSET Labels |-> u[s]] /\ rhs = [s \in SUBSET Labels |-> rhs[s]]
    OBVIOUS
  <2>3. u = rhs
    <3> HIDE DEF u, rhs
    <3> QED BY <2>1, <2>2
  <2> QED BY <2>3 DEF SumsEquation
<1>3. SumsEquation(f, g)
  <2>1. \E h : SumsEquation(f, h)
    BY <1>2
  <2> QED BY <2>1 DEF Sums
<1>4. ASSUME NEW s \in SUBSET Labels
      PROVE  g[s] = IF s = {} THEN 0
                    ELSE LET l == CHOOSE l \in s : TRUE IN f[l] + g[s \ {l}]
  <2> HIDE DEF g
  <2> QED BY <1>3 DEF SumsEquation
<1>5. wrong = {}
  <2> HIDE DEF u, g
  <2> SUFFICES ASSUME wrong # {} PROVE FALSE
    OBVIOUS
  <2>1. IsWellFoundedOn(StrictSubsetOrdering(Labels), SUBSET Labels)
    BY LabelsAssumption, FS_StrictSubsetOrderingWellFounded, FS_FiniteSubsetsOfFinite
  <2>2. PICK s \in wrong : \A t \in wrong : ~ (<<t, s>> \in StrictSubsetOrdering(Labels))
    <3>1. wrong \subseteq SUBSET Labels
      OBVIOUS
    <3> HIDE DEF wrong
    <3> QED BY <2>1, <3>1, WFMin, Zenon
  <2>3. s # {}
    BY <1>1, <1>4
  <2> DEFINE l == CHOOSE l \in s : TRUE
  <2>4. l \in s
    BY <2>3
  <2>5. g[s] = f[l] + g[s \ {l}] /\ u[s] = f[l] + u[s \ {l}]
    BY <1>1, <1>4, <2>3
  <2> HIDE DEF l
  <2>6. s \ {l} \in wrong
    BY <2>5
  <2>7. <<s \ {l}, s>> \in StrictSubsetOrdering(Labels)
    BY <2>4 DEF StrictSubsetOrdering
  <2> QED BY <2>2, <2>6, <2>7
<1> QED BY <1>5

\* A total is a number, none of its counters is above it, and it counts one
\* more when one of them does.
LEMMA TotalFacts ==
  ASSUME NEW n \in Nat, NEW f \in [Labels -> 0..n]
  PROVE  /\ Total(f) \in Nat
         /\ \A l \in Labels : f[l] <= Total(f)
         /\ \A l \in Labels : Total([f EXCEPT ![l] = @ + 1]) = Total(f) + 1
<1>1. Labels \in SUBSET Labels
  OBVIOUS
<1>2. Total(f) = Cardinality(Units(f, Labels, n))
  BY <1>1, TotalIsSum, SumsAreUnits
<1>3. Total(f) \in Nat
  BY <1>1, <1>2, UnitsOfSet
<1>4. ASSUME NEW l \in Labels
      PROVE  /\ f[l] <= Total(f)
             /\ Total([f EXCEPT ![l] = @ + 1]) = Total(f) + 1
  <2> DEFINE h == [f EXCEPT ![l] = @ + 1]
             rest == Labels \ {l}
             r == Cardinality(Units(f, rest, n))
  <2>1. f[l] \in Nat /\ rest \in SUBSET Labels
    OBVIOUS
  <2>2. Total(f) = f[l] + r /\ r \in Nat
    BY <1>1, <1>2, <2>1, UnitsOfSet
  <2>3. h \in [Labels -> 0..(n + 1)] /\ n + 1 \in Nat /\ h[l] = f[l] + 1
    OBVIOUS
  <2>4. Units(h, rest, n + 1) = Units(f, rest, n)
    BY DEF Units
  <2> HIDE DEF h, rest
  <2>5. Total(h) = Cardinality(Units(h, Labels, n + 1))
    BY <1>1, <2>3, TotalIsSum, SumsAreUnits
  <2>6. Total(h) = h[l] + r
    BY <1>1, <2>3, <2>4, <2>5, UnitsOfSet DEF rest
  <2> HIDE DEF r
  <2> QED BY <2>1, <2>2, <2>3, <2>6 DEF h
<1> QED BY <1>3, <1>4

LEMMA TotalOfZero == Total(Zero) = 0
<1>1. Zero \in [Labels -> 0..0] /\ 0 \in Nat /\ Labels \in SUBSET Labels
  BY DEF Zero
<1>2. Units(Zero, Labels, 0) = {}
  BY DEF Units
<1> HIDE DEF Zero
<1>3. Total(Zero) = Cardinality(Units(Zero, Labels, 0))
  BY <1>1, TotalIsSum, SumsAreUnits
<1> QED BY <1>2, <1>3, FS_EmptySet

-----------------------------------------------------------------------------
(* The writer within the program *)

\* What is proved of the writer, for the one table of access2sql
WP == INSTANCE PSQLWriterProofs WITH
        Tables <- {Data},
        Messages <- [table : {Data}, row : Rows],
        MaxPerTable <- MaxHits

LEMMA WriterTables == WP!TablesAssumption
BY DEF Data, WP!TablesAssumption

LEMMA WriterRows == WP!RowsAssumption
BY RowsAssumption DEF WP!RowsAssumption, IsFiniteSet, WP!IsFiniteSet, W!Kinds, WP!Kinds

LEMMA WriterLimits == WP!LimitsAssumption
BY LimitsAssumption DEF WP!LimitsAssumption

\* The steps of the writer that the program takes are the steps of that
\* instance.
LEMMA WriterUnchanged == UNCHANGED writer => UNCHANGED WP!vars
BY DEF writer, WP!vars, WP!batch, WP!tx, WP!db

LEMMA WriterAdds ==
  ASSUME NEW r \in Rows, W!AddValue([table |-> Data, row |-> r])
  PROVE  WP!AddValue([table |-> Data, row |-> r])
BY DEF W!AddValue, WP!AddValue, W!batch, WP!batch, W!tx, WP!tx, W!db, WP!db

LEMMA WriterEnds ==
  /\ W!Destroy => WP!Destroy
  /\ W!Join => WP!Join
BY DEF W!Destroy, WP!Destroy, W!Join, WP!Join,
       W!batch, WP!batch, W!tx, WP!tx, W!db, WP!db

LEMMA WriterCollects ==
  /\ W!Connect => WP!Connect
  /\ W!Read => WP!Read
  /\ W!ReadAgain => WP!ReadAgain
  /\ W!ReadEof => WP!ReadEof
  /\ W!BatchFull => WP!BatchFull
  /\ W!Finish => WP!Finish
<1>1. W!MayRead = WP!MayRead /\ W!HasWork = WP!HasWork /\ W!AtEnd = WP!AtEnd
  BY DEF W!MayRead, WP!MayRead, W!HasWork, WP!HasWork, W!AtEnd, WP!AtEnd
<1>2. W!Read => WP!Read
  BY DEF W!Read, WP!Read, W!MayRead, WP!MayRead, W!Grouped, WP!Grouped,
         W!Cardinality, WP!Cardinality, W!IsFiniteSet, WP!IsFiniteSet,
         W!tx, WP!tx, W!db, WP!db
<1> QED
  BY <1>1, <1>2
     DEF W!Connect, WP!Connect, W!ReadAgain, WP!ReadAgain, W!ReadEof, WP!ReadEof,
         W!BatchFull, WP!BatchFull, W!Finish, WP!Finish,
         W!batch, WP!batch, W!tx, WP!tx, W!db, WP!db

LEMMA WriterInserts ==
  ASSUME NEW t \in {Data}
  PROVE  /\ W!Insert(t) => WP!Insert(t)
         /\ W!InsertRefused(t) => WP!InsertRefused(t)
<1>1. W!BatchFields(t) = WP!BatchFields(t) /\ W!Known(t) = WP!Known(t)
  BY DEF W!BatchFields, WP!BatchFields, W!Known, WP!Known
<1>2. \A f : W!FirstKind(t, f) = WP!FirstKind(t, f)
  BY DEF W!FirstKind, WP!FirstKind
<1>3. W!Widened(t) = WP!Widened(t)
  BY <1>1, <1>2 DEF W!Widened, WP!Widened
<1>4. W!NumParms(t) = WP!NumParms(t)
  BY <1>1 DEF W!NumParms, WP!NumParms, W!Cardinality, WP!Cardinality,
              W!IsFiniteSet, WP!IsFiniteSet
<1>5. W!ServerAccepts(t) = WP!ServerAccepts(t)
  BY <1>1, <1>3, <1>4 DEF W!ServerAccepts, WP!ServerAccepts, W!Readable, WP!Readable
<1>6. W!NextTable(t) = WP!NextTable(t)
  BY DEF W!NextTable, WP!NextTable
<1>7. W!Insert(t) => WP!Insert(t)
  BY <1>1, <1>3, <1>5, <1>6 DEF W!Insert, WP!Insert, W!db, WP!db
<1>8. W!InsertRefused(t) => WP!InsertRefused(t)
  BY <1>5, <1>6
     DEF W!InsertRefused, WP!InsertRefused, W!ProcessDies, WP!ProcessDies,
         W!NoWork, WP!NoWork, W!NothingCached, WP!NothingCached
<1> QED BY <1>7, <1>8

LEMMA WriterCommits ==
  /\ W!CommitDue => WP!CommitDue
  /\ W!CommitNotDue => WP!CommitNotDue
  /\ W!NextRound => WP!NextRound
  /\ W!Tick => WP!Tick
<1>1. W!HasWork = WP!HasWork
  BY DEF W!HasWork, WP!HasWork
<1> QED
  BY <1>1
     DEF W!CommitDue, WP!CommitDue, W!CommitNotDue, WP!CommitNotDue,
         W!NextRound, WP!NextRound, W!Tick, WP!Tick,
         W!batch, WP!batch, W!tx, WP!tx, W!db, WP!db

LEMMA WriterFails ==
  /\ W!WorkerThrows => WP!WorkerThrows
  /\ W!CommitUnacknowledged => WP!CommitUnacknowledged
<1>1. W!AtEnd = WP!AtEnd
  BY DEF W!MayRead, WP!MayRead, W!HasWork, WP!HasWork, W!AtEnd, WP!AtEnd
<1> QED
  BY <1>1
     DEF W!WorkerThrows, WP!WorkerThrows, W!CommitUnacknowledged,
         WP!CommitUnacknowledged, W!ProcessDies, WP!ProcessDies,
         W!NoWork, WP!NoWork, W!NothingCached, WP!NothingCached

LEMMA WriterInit == Init => WP!Init
BY DEF Init, W!Init, WP!Init, W!NoWork, WP!NoWork, W!NoColumns, WP!NoColumns,
       W!NothingCached, WP!NothingCached

LEMMA WriterNext == [Next]_vars => [WP!Next]_WP!vars
<1> SUFFICES ASSUME [Next]_vars PROVE [WP!Next]_WP!vars
  OBVIOUS
<1>1. CASE HandOver
  <2>1. PICK r \in Rows : W!AddValue([table |-> Data, row |-> r])
    BY <1>1 DEF HandOver
  <2>2. [table |-> Data, row |-> r] \in [table : {Data}, row : Rows]
    OBVIOUS
  <2> QED BY <2>1, <2>2, WriterAdds DEF WP!Next
<1>2. CASE Eof
  BY <1>2, WriterEnds DEF Eof, WP!Next
<1>3. CASE Exit
  BY <1>3, WriterEnds DEF Exit, WP!Next
<1>4. CASE Main /\ ~ HandOver /\ ~ Eof /\ ~ Exit
  BY <1>4, WriterUnchanged
     DEF Main, ReadHit, Lock, CountIp, CountQuery, CountBytes, Unlock
<1>5. ASSUME NEW s \in Scrapers, Request(s) \/ Render(s)
      PROVE  [WP!Next]_WP!vars
  BY <1>5, WriterUnchanged
     DEF Request, Render, LockPage, RenderBytes, RenderQueries, RenderIps
<1>6. CASE WorkerRuns
  <2>1. CASE W!Worker
    BY <2>1, WriterCollects, WriterInserts, WriterCommits DEF W!Worker, WP!Worker, WP!Next
  <2>2. CASE W!Tick \/ W!WorkerThrows \/ W!CommitUnacknowledged
    BY <2>2, WriterCommits, WriterFails DEF WP!Next
  <2> QED BY <1>6, <2>1, <2>2 DEF WorkerRuns
<1>7. CASE UNCHANGED vars
  BY <1>7, WriterUnchanged DEF vars
<1> QED BY <1>1, <1>2, <1>3, <1>4, <1>5, <1>6, <1>7 DEF Next

(* Whatever the program does is something its writer may do, so that all     *)
(* that is proved of the writer holds within the program: main calls it as   *)
(* its specification allows, and no step of the web server touches it        *)
(* (access2sql.cc:157-230, ac2web.cc:35-53).                                 *)
THEOREM UsesWriter == Spec => WP!Spec
BY WriterInit, WriterNext, PTL DEF Spec, WP!Spec

-----------------------------------------------------------------------------
(* The counters and the rows *)

Counters == [Labels -> 0..MaxHits]

\* The rows handed over that g_metrics does not count yet
Ahead == IF main \in {"locking", "ips", "queries"} THEN 1 ELSE 0

\* The counters stay in their range because no more rows are handed over than
\* the bound on them, and because every hit is counted with its row.
HitTypes ==
  /\ main \in {"reading", "adding", "locking", "ips", "queries", "bytes",
               "unlocking", "closing", "exited", "dead"}
  /\ holder = {} \/ \E x \in Scrapers \cup {"main"} : holder = {x}
  /\ queries \in Counters /\ bytes \in Counters /\ ips \in Counters
  /\ page \in [Scrapers -> [queries : Counters, bytes : Counters, ips : Counters]]

HitsInv ==
  /\ HitTypes
  /\ main # "dead" => /\ Len(submitted[Data]) = Total(queries) + Ahead
                      /\ Len(submitted[Data]) <= MaxHits
  /\ main = "exited" => caller = "done"

LEMMA LimitOnHits == MaxHits \in Nat
BY LimitsAssumption

LEMMA CountersAreCounts == Counters \subseteq Counts
BY LimitOnHits DEF Counters, Counts

\* A counter that is at most a total that is within the bound
LEMMA CountedOnce ==
  ASSUME NEW f \in Counters, NEW l \in Labels, Total(f) + 1 <= MaxHits
  PROVE  /\ [f EXCEPT ![l] = @ + 1] \in Counters
         /\ Total([f EXCEPT ![l] = @ + 1]) = Total(f) + 1
<1> DEFINE g == [f EXCEPT ![l] = @ + 1]
<1>1. f \in [Labels -> 0..MaxHits] /\ MaxHits \in Nat
  BY LimitOnHits DEF Counters
<1>2. /\ Total(f) \in Nat
      /\ \A k \in Labels : f[k] <= Total(f)
      /\ Total(g) = Total(f) + 1
  BY <1>1, TotalFacts
<1>3. f[l] + 1 <= MaxHits
  BY <1>1, <1>2
<1> QED BY <1>1, <1>2, <1>3 DEF Counters

LEMMA HitsInit == Init => HitsInv
<1> SUFFICES ASSUME Init PROVE HitsInv
  OBVIOUS
<1>1. Zero \in Counters
  BY LimitOnHits DEF Zero, Counters
<1>2. NoPage \in [queries : Counters, bytes : Counters, ips : Counters]
  BY <1>1 DEF NoPage
<1>3. HitTypes
  BY <1>1, <1>2 DEF Init, HitTypes
<1>4. Total(Zero) = 0
  BY TotalOfZero
<1>5. Len(submitted[Data]) = 0
  BY DEF Init, W!Init, W!NoWork
<1> QED BY <1>3, <1>4, <1>5, LimitOnHits DEF Init, HitsInv, Ahead

LEMMA RowsHandedOver == WP!Types => Len(submitted[Data]) \in Nat
BY DEF WP!Types

\* A step of main that neither hands a row over nor counts one
LEMMA HitsElsewhere ==
  ASSUME HitsInv, UNCHANGED <<submitted, queries, bytes, ips>>,
         page' \in [Scrapers -> [queries : Counters, bytes : Counters, ips : Counters]],
         main' \in {"reading", "adding", "locking", "ips", "queries", "bytes",
                    "unlocking", "closing", "exited", "dead"},
         main' = "dead" \/ (main # "dead" /\ Ahead' = Ahead),
         main' = "exited" => caller' = "done",
         holder' = {} \/ \E x \in Scrapers \cup {"main"} : holder' = {x}
  PROVE  HitsInv'
<1>1. Total(queries)' = Total(queries)
  OBVIOUS
<1> QED BY <1>1 DEF HitsInv, HitTypes

LEMMA HitsMain == ASSUME WP!Types, PagesInv, HitsInv, Main PROVE HitsInv'
<1>1. ASSUME NEW l \in Labels, ReadHit(l) PROVE HitsInv'
  BY <1>1, HitsElsewhere DEF ReadHit, writer, counts, server, HitsInv, HitTypes, Ahead
<1>2. CASE HandOver
  <2>1. PICK r \in Rows : W!AddValue([table |-> Data, row |-> r])
    BY <1>2 DEF HandOver
  <2>2. /\ Len(submitted[Data]) < MaxHits
        /\ submitted' = [submitted EXCEPT ![Data] = Append(@, r)]
    BY <2>1 DEF W!AddValue
  <2>3. submitted \in [{Data} -> Seq(Rows)]
    BY DEF WP!Types
  <2>4. Len(submitted'[Data]) = Len(submitted[Data]) + 1
    BY <2>2, <2>3
  <2>5. Len(submitted'[Data]) <= MaxHits
    BY <2>2, <2>4, RowsHandedOver, LimitOnHits
  <2>6. main = "adding" /\ main' = "locking" /\ UNCHANGED <<holder, queries, bytes, ips, page>>
    BY <1>2 DEF HandOver, counts, server
  <2>7. Total(queries)' = Total(queries)
    BY <2>6
  <2>8. Len(submitted[Data]) = Total(queries)
    <3>1. Len(submitted[Data]) = Total(queries) + 0
      BY <2>6 DEF HitsInv, Ahead
    <3>2. Total(queries) \in Nat
      BY LimitOnHits, TotalFacts DEF HitsInv, HitTypes, Counters
    <3> QED BY <3>1, <3>2
  <2> QED BY <2>4, <2>5, <2>6, <2>7, <2>8 DEF HitsInv, HitTypes, Ahead
<1>3. CASE Lock
  BY <1>3, HitsElsewhere DEF Lock, writer, counts, server, HitsInv, HitTypes, Ahead
<1>4. CASE CountIp
  <2>1. main = "ips" /\ main' = "queries" /\ ips' = [queries EXCEPT ![hit] = @ + 1]
    BY <1>4 DEF CountIp, PagesInv, CountersEven
  <2>2. Total(queries) + 1 <= MaxHits /\ hit \in Labels /\ queries \in Counters
    BY <2>1 DEF HitsInv, HitTypes, Ahead, PagesInv, CountTypes
  <2>3. ips' \in Counters
    BY <2>1, <2>2, CountedOnce
  <2>4. UNCHANGED <<submitted, queries, bytes, holder, page>>
    BY <1>4 DEF CountIp, writer, server
  <2>5. Total(queries)' = Total(queries)
    BY <2>4
  <2> QED BY <2>1, <2>3, <2>4, <2>5 DEF HitsInv, HitTypes, Ahead
<1>5. CASE CountQuery
  <2>1. main = "queries" /\ main' = "bytes" /\ queries' = [queries EXCEPT ![hit] = @ + 1]
    BY <1>5 DEF CountQuery
  <2>2. Total(queries) + 1 = Len(submitted[Data]) /\ Len(submitted[Data]) <= MaxHits
        /\ hit \in Labels /\ queries \in Counters
    BY <2>1 DEF HitsInv, HitTypes, Ahead, PagesInv, CountTypes
  <2>3. queries' \in Counters /\ Total(queries') = Total(queries) + 1
    BY <2>1, <2>2, CountedOnce
  <2>4. UNCHANGED <<submitted, ips, bytes, holder, page>>
    BY <1>5 DEF CountQuery, writer, server
  <2>5. Total(queries)' = Total(queries')
    OBVIOUS
  <2> QED BY <2>1, <2>2, <2>3, <2>4, <2>5, RowsHandedOver DEF HitsInv, HitTypes, Ahead
<1>6. CASE CountBytes
  <2>1. main = "bytes" /\ main' = "unlocking" /\ bytes' = queries
    BY <1>6 DEF CountBytes, PagesInv, CountersEven
  <2>2. UNCHANGED <<submitted, queries, ips, holder, page>>
    BY <1>6 DEF CountBytes, writer, server
  <2>3. Total(queries)' = Total(queries)
    BY <2>2
  <2> QED BY <2>1, <2>2, <2>3 DEF HitsInv, HitTypes, Ahead
<1>7. CASE Unlock
  <2>1. holder' = {}
    BY <1>7 DEF Unlock, PagesInv, Exclusive
  <2> QED BY <1>7, <2>1, HitsElsewhere DEF Unlock, writer, counts, server, HitsInv, HitTypes, Ahead
<1>8. CASE Eof
  BY <1>8, HitsElsewhere DEF Eof, W!Destroy, counts, server, HitsInv, HitTypes, Ahead
<1>9. CASE Exit
  BY <1>9, HitsElsewhere DEF Exit, W!Join, counts, HitsInv, HitTypes, Ahead
<1> QED BY <1>1, <1>2, <1>3, <1>4, <1>5, <1>6, <1>7, <1>8, <1>9 DEF Main

LEMMA HitsScraper ==
  ASSUME PagesInv, HitsInv, NEW s \in Scrapers, Request(s) \/ Render(s)
  PROVE  HitsInv'
<1>1. /\ NoPage \in [queries : Counters, bytes : Counters, ips : Counters]
      /\ page \in [Scrapers -> [queries : Counters, bytes : Counters, ips : Counters]]
      /\ queries \in Counters /\ bytes \in Counters /\ ips \in Counters
  BY LimitOnHits DEF NoPage, Zero, Counters, HitsInv, HitTypes
<1>2. page' \in [Scrapers -> [queries : Counters, bytes : Counters, ips : Counters]]
  <2>1. \E p \in [queries : Counters, bytes : Counters, ips : Counters] :
           page' = [page EXCEPT ![s] = p]
    <3> HIDE DEF NoPage, Counters
    <3>1. page[s] \in [queries : Counters, bytes : Counters, ips : Counters]
      BY <1>1
    <3>2. CASE Request(s)
      BY <1>1, <3>2 DEF Request
    <3>3. CASE LockPage(s)
      BY <1>1, <3>1, <3>3 DEF LockPage
    <3>4. CASE RenderBytes(s)
      <4>1. page' = [page EXCEPT ![s] = [page[s] EXCEPT !.bytes = bytes]]
        BY <1>1, <3>4 DEF RenderBytes
      <4> QED BY <1>1, <3>1, <4>1
    <3>5. CASE RenderQueries(s)
      <4>1. page' = [page EXCEPT ![s] = [page[s] EXCEPT !.queries = queries]]
        BY <1>1, <3>5 DEF RenderQueries
      <4> QED BY <1>1, <3>1, <4>1
    <3>6. CASE RenderIps(s)
      <4>1. page' = [page EXCEPT ![s] = [page[s] EXCEPT !.ips = ips]]
        BY <1>1, <3>6 DEF RenderIps
      <4> QED BY <1>1, <3>1, <4>1
    <3> QED BY <3>2, <3>3, <3>4, <3>5, <3>6 DEF Render
  <2> HIDE DEF Counters
  <2> QED BY <1>1, <2>1
<1>3. web[s] # "gone" /\ UNCHANGED <<submitted, queries, bytes, ips, main, caller>>
  BY DEF Request, Render, LockPage, RenderBytes, RenderQueries, RenderIps, writer, counts
<1>4. main \notin {"dead", "exited"} /\ Ahead' = Ahead
  BY <1>3 DEF PagesInv, Ahead
<1>5. holder' = {} \/ \E x \in Scrapers \cup {"main"} : holder' = {x}
  <2>1. CASE holder' = holder
    BY <2>1 DEF HitsInv, HitTypes
  <2>2. CASE LockPage(s)
    BY <2>2 DEF LockPage
  <2>3. CASE RenderIps(s)
    BY <2>3, ScraperAlone DEF RenderIps
  <2> QED BY <2>1, <2>2, <2>3 DEF Request, Render, RenderBytes, RenderQueries
<1>6. main \in {"reading", "adding", "locking", "ips", "queries", "bytes",
                "unlocking", "closing", "exited", "dead"}
  BY DEF HitsInv, HitTypes
<1> QED BY <1>2, <1>3, <1>4, <1>5, <1>6, HitsElsewhere

\* A step of the worker that does not end the process leaves the callers'
\* side alone.
LEMMA WorkerKeeps ==
  ASSUME W!Worker \/ W!Tick \/ W!WorkerThrows \/ W!CommitUnacknowledged,
         caller' # "killed"
  PROVE  UNCHANGED <<caller, submitted>>
BY DEF W!Worker, W!Connect, W!Read, W!ReadAgain, W!ReadEof, W!BatchFull, W!Finish,
       W!Insert, W!InsertRefused, W!CommitDue, W!CommitNotDue, W!NextRound,
       W!Tick, W!WorkerThrows, W!CommitUnacknowledged, W!ProcessDies

LEMMA HitsWorker == ASSUME HitsInv, WorkerRuns PROVE HitsInv'
<1>1. CASE caller' = "killed"
  <2>1. main' = "dead" /\ UNCHANGED <<holder, queries, bytes, ips, page>>
    BY <1>1 DEF WorkerRuns, counts
  <2> QED BY <2>1 DEF HitsInv, HitTypes
<1>2. CASE caller' # "killed"
  <2>1. UNCHANGED <<main, holder, queries, bytes, ips, page, caller, submitted>>
    BY <1>2, WorkerKeeps DEF WorkerRuns, counts, server
  <2>2. Total(queries)' = Total(queries) /\ Ahead' = Ahead
    BY <2>1 DEF Ahead
  <2> QED BY <2>1, <2>2 DEF HitsInv, HitTypes
<1> QED BY <1>1, <1>2

LEMMA HitsStep == WP!Types /\ PagesInv /\ HitsInv /\ [Next]_vars => HitsInv'
<1> SUFFICES ASSUME WP!Types, PagesInv, HitsInv, [Next]_vars PROVE HitsInv'
  OBVIOUS
<1>1. CASE UNCHANGED vars
  <2>1. UNCHANGED <<main, holder, queries, bytes, ips, page, caller, submitted>>
    BY <1>1 DEF vars, writer, counts, server
  <2>2. Total(queries)' = Total(queries) /\ Ahead' = Ahead
    BY <2>1 DEF Ahead
  <2> QED BY <2>1, <2>2 DEF HitsInv, HitTypes
<1> QED BY <1>1, HitsMain, HitsScraper, HitsWorker DEF Next

LEMMA AlwaysWriter == Spec => []WP!IInv /\ []WP!TypeOK /\ []WP!CleanExitDurable
BY UsesWriter, WriterTables, WriterRows, WriterLimits,
   WP!Invariant, WP!TypeCorrect, WP!CleanExit, PTL

LEMMA AlwaysHits == Spec => []HitsInv
<1>1. WP!IInv => WP!Types
  BY DEF WP!IInv
<1> QED BY <1>1, AlwaysWriter, AlwaysPages, HitsInit, HitsStep, PTL DEF Spec

(* The state is well typed: the mutex has one holder at most, and no counter *)
(* leaves its range, because it never counts more than was handed over       *)
(* (access2sql.cc:166-230).                                                  *)
THEOREM TypeCorrect == Spec => []TypeOK
<1>1. WP!TypeOK => W!TypeOK
  BY DEF WP!TypeOK, W!TypeOK, WP!Types, W!Types, WP!Entries, W!Entries,
         WP!Columns, W!Columns, WP!Kinds, W!Kinds
<1>2. HitTypes => Cardinality(holder) <= 1 /\ holder \subseteq Scrapers \cup {"main"}
  <2>1. Cardinality({}) = 0 /\ \A x : Cardinality({x}) = 1
    BY FS_EmptySet, FS_Singleton
  <2>2. CASE holder = {}
    BY <2>1, <2>2
  <2>3. ASSUME NEW x \in Scrapers \cup {"main"}, holder = {x}
        PROVE  Cardinality(holder) <= 1 /\ holder \subseteq Scrapers \cup {"main"}
    <3>1. Cardinality(holder) = 1
      BY <2>1, <2>3
    <3> QED BY <2>3, <3>1
  <2> QED BY <2>2, <2>3 DEF HitTypes
<1>3. WP!TypeOK /\ PagesInv /\ HitsInv => TypeOK
  BY <1>1, <1>2 DEF TypeOK, PagesInv, CountTypes, HitsInv, HitTypes, Counters
<1> QED BY <1>3, AlwaysWriter, AlwaysPages, AlwaysHits, PTL

(* While the program runs, the counters follow the rows handed over: the row *)
(* and its count are two steps of main, with nothing in between that could   *)
(* lose one of them, and every hit is in one label set's counter             *)
(* (access2sql.cc:213-230).                                                  *)
THEOREM CountsFollow == Spec => []CountsFollowRows
<1>1. PagesInv /\ HitsInv => CountsFollowRows
  <2> SUFFICES ASSUME HitsInv, main # "dead"
               PROVE  Len(submitted[Data]) - Total(queries) = Ahead
    BY DEF CountsFollowRows, Ahead
  <2>1. Total(queries) \in Nat
    BY LimitOnHits, TotalFacts DEF HitsInv, HitTypes, Counters
  <2>2. Ahead \in Nat
    BY DEF Ahead
  <2> QED BY <2>1, <2>2 DEF HitsInv
<1> QED BY <1>1, AlwaysPages, AlwaysHits, PTL

(* When the program has ended by itself, the database has every row that it  *)
(* counted: main returns only once the writer's destructor has, and that     *)
(* waits for the last commit (access2sql.cc:157-230, psqlwriter.hh:44-49).   *)
THEOREM CompleteExit == Spec => []ExitComplete
<1>1. WP!CleanExitDurable /\ HitsInv => ExitComplete
  <2> SUFFICES ASSUME WP!CleanExitDurable, HitsInv, main = "exited"
               PROVE  Len(dbRows[Data]) = Total(queries) /\ dbRows = submitted
    BY DEF ExitComplete
  <2>1. dbRows = submitted
    BY DEF WP!CleanExitDurable, HitsInv
  <2>2. Len(submitted[Data]) = Total(queries) + 0
    BY DEF HitsInv, Ahead
  <2>3. Total(queries) \in Nat
    BY LimitOnHits, TotalFacts DEF HitsInv, HitTypes, Counters
  <2> QED BY <2>1, <2>2, <2>3
<1> QED BY <1>1, AlwaysWriter, AlwaysHits, PTL

=============================================================================
