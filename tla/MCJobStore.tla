----------------------------- MODULE MCJobStore -----------------------------
(* Small instances of JobStore, with the abstract queue, for TLC.          *)
EXTENDS JobQueue, TLC

CONSTANTS q1, q2

JobSpec(q, p, n, m, mode) ==
  [queue |-> q, partition |-> p, notBefore |-> n, maxAttempts |-> m, mode |-> mode]

(* Two partitions, both effect modes, one and two attempts *)
LifecycleSpecs ==
  {JobSpec(q1, 1, 0, 2, "Idempotent"), JobSpec(q1, 1, 0, 2, "Reconcile"),
   JobSpec(q1, 2, 1, 1, "Idempotent")}

(* Three partitions, one of them also a partition of a second queue *)
RotationSpecs ==
  {JobSpec(q1, 1, 0, 1, "Idempotent"), JobSpec(q1, 2, 0, 1, "Idempotent"),
   JobSpec(q1, 3, 0, 1, "Reconcile"), JobSpec(q2, 1, 1, 1, "Reconcile")}

Symmetry == Permutations(JobIds) \cup Permutations(Workers)

=============================================================================
