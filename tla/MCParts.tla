------------------------------- MODULE MCParts -------------------------------
(***************************************************************************)
(* The parts that stand alone, side by side: a behaviour is one of a       *)
(* single part, and the others stay where they begin.                      *)
(***************************************************************************)
EXTENDS CountryDB, ResProxy, LogTime, AudienceMinutes, WebServer

CONSTANTS c1, c2, w1, w2

VARIABLE part

vars == <<part, countryVars, addressVars, proxyVars, timeVars, pageVars, webVars>>

-----------------------------------------------------------------------------
(* Addresses of two and of four bytes, each of two bits: all of IPv4's with *)
(* few bytes, IPv6 ones with every pattern of halves, mapped ones, the      *)
(* first and the last                                                       *)

V4(x, y) == [family |-> INET, addr |-> <<x, y>>]
V6(w, x, y, z) == [family |-> INET6, addr |-> <<w, x, y, z>>]

MCHosts == {V4(x, y) : x, y \in {0, 1, 3}}
           \cup {V6(w, x, y, z) : w, y \in {0, 2}, x \in {0, 3}, z \in {1, 2}}
           \cup {V6(0, 0, 0, 0), V6(3, 3, 3, 3), V6(2, 0, 0, 0), V6(2, 1, 3, 1)}
MCPorts == {NoPort, -1, 0, 80, 1500, 4096 + 80}

\* Files: one with the last address of all, and lines that are cut or no ranges,
\* one with a range the wrong way round, and a longer one
Line(s, e, c) == [commas |-> 2, newline |-> TRUE, start |-> s, stop |-> e, country |-> c]
Low == Line(V4(0, 0), V4(0, 1), "Low")
Mid == Line(V6(2, 0, 0, 0), V6(2, 1, 3, 1), "Mid")
Odd == {[commas |-> 0, newline |-> TRUE, start |-> Junk, stop |-> Junk, country |-> "cut"],
        [commas |-> 1, newline |-> TRUE, start |-> V4(0, 0), stop |-> Junk, country |-> "cut"],
        [commas |-> 2, newline |-> FALSE, start |-> V4(0, 0), stop |-> V4(1, 0), country |-> "cut"],
        Line(V4(0, 0), V4(1, 0), "ZZ"),
        Line(V4(0, 0), Junk, "bad")}
MCFiles == {[lines |-> Odd \cup {Low, Mid, Line(V6(2, 0, 0, 0), V6(3, 3, 3, 3), "Last")},
             most  |-> 4],
            [lines |-> {Low, Mid, Line(V6(2, 1, 3, 1), V6(2, 0, 0, 0), "Reversed")},
             most  |-> 5],
            [lines |-> {Line(V6(0, 0, 0, 1), V6(2, 0, 0, 0), "Wide"), Mid},
             most  |-> 10]}
MCAsked == {V4(0, 1), V6(2, 0, 0, 0), V6(2, 1, 3, 1), V6(3, 3, 3, 3)}
MCPoints == Numbers
MCPayloads == {"Low", "Mid", "Last", "Reversed", "Wide"}

-----------------------------------------------------------------------------
(* Hits of two texts for one address and of another; stamps on both sides   *)
(* of midnight, and testrunner.cc's                                         *)

MCIps == {"::1", "0::1", "1.1.1.1"}
MCHostOf == [i \in MCIps |-> IF i = "1.1.1.1" THEN V4(1, 1) ELSE V6(0, 0, 0, 1)]
MCVisitors == {[country |-> "NL", lang |-> "nl", asn |-> 1136],
               [country |-> "US", lang |-> "en", asn |-> 13335]}
MCTimes == 0..5
MCWindows == {[start |-> 0, end |-> 4], [start |-> 1, end |-> 5]}

MCInstants == {1777201890, 86400 * 20000 + 30, 86400 * 20000 + 86399}
MCOffsets == {-150, -120, -30, 0, 60, 120, 330, 840}

\* -25568 days of seconds are beyond 32 bits, which is what TLC has.
MCZeroDate == -20000

MCPositions == {0, 100}

\* A page that is asked for with a content and kept alive, one for an old
\* client, a head that never ends, and none at all
Kind(head, closes, routed, body) ==
  [head |-> head, closes |-> closes, routed |-> routed, body |-> body]
MCRequests == {Kind("good", "no", TRUE, "due"),
               Kind("good", "old", TRUE, "none"),
               Kind("partial", "no", FALSE, "none"),
               Kind("bad", "no", FALSE, "none")}
MCPools == {{w1}, {w1, w2}}

-----------------------------------------------------------------------------

Init ==
  /\ part \in {"lookup", "address", "proxy", "time", "page", "web"}
  /\ IF part = "lookup" THEN CountryInit
     ELSE /\ TreeInit
          /\ file = [lines |-> {}, most |-> 0] /\ alive = TRUE /\ kept = {}
  /\ AddressInit
  /\ ProxyInit
  /\ TimeInit
  /\ PageInit
  /\ IF part = "web" THEN WebInit
     ELSE WebInit /\ thread = [w \in Workers |-> "awake"]

WebPart == /\ part = "web"
           /\ UNCHANGED <<part, countryVars, addressVars, proxyVars, timeVars, pageVars>>

Next ==
  \/ /\ part = "lookup" /\ CountryNext
     /\ UNCHANGED <<part, addressVars, proxyVars, timeVars, pageVars, webVars>>
  \/ /\ part = "address" /\ AddressNext
     /\ UNCHANGED <<part, countryVars, proxyVars, timeVars, pageVars, webVars>>
  \/ /\ part = "proxy" /\ ProxyNext
     /\ UNCHANGED <<part, countryVars, addressVars, timeVars, pageVars, webVars>>
  \/ /\ part = "time" /\ TimeNext
     /\ UNCHANGED <<part, countryVars, addressVars, proxyVars, pageVars, webVars>>
  \/ /\ part = "page" /\ PageNext
     /\ UNCHANGED <<part, countryVars, addressVars, proxyVars, timeVars, webVars>>
  \/ WebNext /\ WebPart

\* Only the web server's threads are assumed to go on.
Spec ==
  /\ Init /\ [][Next]_vars
  /\ WF_vars(LaunchWeb /\ WebPart)
  /\ \A w \in Workers : WF_vars(WorkerStep(w) /\ WebPart)
=============================================================================
