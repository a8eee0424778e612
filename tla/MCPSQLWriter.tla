---------------------------- MODULE MCPSQLWriter -----------------------------
(* Two tables with one insert signature each, as access2sql uses the writer. *)
EXTENDS PSQLWriter

MCTables == {1, 2}
MCFields == {"ip", "stat"}
Hit  == [ip |-> "TEXT", stat |-> "BIGINT"]
Note == [ip |-> "TEXT"]
MCRows == {Hit, Note}
MCMessages == {[table |-> 1, row |-> Hit], [table |-> 2, row |-> Note]}

\* What BatchesAccepted asks of callers and limits
ASSUME SignaturesAssumption == OneKindPerField /\ \A t \in Tables : BatchesFit(t)
=============================================================================
