-------------------------- MODULE MCPgConnections --------------------------
(* Instance of PgConnections: two threads that may race for the first      *)
(* pool, a pool of one connection, and a server that goes and comes back.  *)
EXTENDS PgConnections
=============================================================================
