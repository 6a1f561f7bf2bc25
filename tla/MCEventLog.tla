----------------------------- MODULE MCEventLog -----------------------------
(* A small instance of EventLog for TLC: two batches that both write to two *)
(* streams, so that pages fall inside them.                                 *)
EXTENDS EventLog, TLC

CONSTANTS t1, t2, s1, s2, r1, r2

MCBatch == (t1 :> <<s1, s2, s1>>) @@ (t2 :> <<s2, s1>>)

MCFollows == (r1 :> All) @@ (r2 :> s1)

=============================================================================
