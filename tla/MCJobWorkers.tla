---------------------------- MODULE MCJobWorkers ----------------------------
(* Small instances of JobWorkers for TLC.                                  *)
EXTENDS JobWorkers, TLC

CONSTANT q1

JobSpec(p, n, m, mode) ==
  [queue |-> q1, partition |-> p, notBefore |-> n, maxAttempts |-> m, mode |-> mode]

(* One partition with a job of each effect mode *)
LeaseSpecs == {JobSpec(1, 0, 2, "Idempotent"), JobSpec(1, 0, 2, "Reconcile")}

(* A job that outlives a repeated resolution *)
LateSpecs == {JobSpec(1, 0, 3, "Reconcile")}

(* Two partitions, a delayed job and a job with a single attempt *)
ProgressSpecs == {JobSpec(1, 0, 2, "Idempotent"), JobSpec(2, 1, 1, "Idempotent")}

Symmetry == Permutations(JobIds) \cup Permutations(Workers)

=============================================================================
