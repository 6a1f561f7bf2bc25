--------------------------- MODULE MCConnections ---------------------------
(* A small instance of Connections for TLC: two threads of the store that   *)
(* owns the database and one of the operator's process.                     *)
EXTENDS Connections

CONSTANTS a, b, c, owner, cli

MCStoreOf == [t \in Threads |-> IF t = c THEN cli ELSE owner]

=============================================================================
