--------------------------- MODULE MCSQLiteWriter ----------------------------
(* One table; two rows of one signature, one with the fields the other way   *)
(* round, and one with another field and another type for a known one.       *)
EXTENDS SQLiteWriter

Cell(n, k, v) == [name |-> n, kind |-> k, val |-> v]

MCTables == {"data"}
MCRows == { <<Cell("ip", "TEXT", 1), Cell("ua", "TEXT", 1)>>,
            <<Cell("ip", "TEXT", 2), Cell("ua", "TEXT", 2)>>,
            <<Cell("ua", "TEXT", 1), Cell("ip", "TEXT", 2)>>,
            <<Cell("ip", "INT", 3), Cell("siz", "REAL", 3)>> }
=============================================================================
