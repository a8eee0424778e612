-------------------------- MODULE MCPSQLWriterMixed --------------------------
(* One table whose rows have several insert signatures, one of which gives a *)
(* field another type: the table is widened, and the server may refuse.      *)
EXTENDS PSQLWriter

MCTables == {1}
MCFields == {"host", "size"}
Named  == [host |-> "TEXT"]
Sized  == [size |-> "BIGINT"]
Worded == [host |-> "TEXT", size |-> "TEXT"]
MCRows == {Named, Sized, Worded}
MCMessages == [table : MCTables, row : MCRows]
=============================================================================
