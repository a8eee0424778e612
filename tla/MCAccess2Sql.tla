---------------------------- MODULE MCAccess2Sql -----------------------------
(* Two label sets, two threads of the web server, one kind of row. *)
EXTENDS Access2Sql

MCFields == {"ip", "stat"}
MCRows == {[ip |-> "TEXT", stat |-> "BIGINT"]}
=============================================================================
