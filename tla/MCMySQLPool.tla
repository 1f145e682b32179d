----------------------------- MODULE MCMySQLPool -----------------------------
(* A small instance of MySQLPool: more threads than connections, and one     *)
(* MYSQL object more, so that a stale connection may be replaced by another. *)
EXTENDS MySQLPool
=============================================================================
