------------------------------ MODULE MCBackup ------------------------------
(* A small instance of Backup for TLC: calls b1, b2 and b3, of which the   *)
(* configuration makes b1 and b2 in the process of the owner.               *)
EXTENDS Backup

CONSTANTS db, d1, d2, b1, b2, b3

(* b1 and b2 write to the same path, b3 to another *)
MCDest == [b \in Backups |-> IF b = b3 THEN d2 ELSE d1]

=============================================================================
