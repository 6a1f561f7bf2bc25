--------------------------- MODULE MCControlPlane ---------------------------
(* A small instance of ControlPlane for TLC.                               *)
EXTENDS ControlPlane

CONSTANTS q1, j1, s1, s2, e1, e2, e3, p1, k1, k2, a, b

Spec1 == [queue |-> q1, partition |-> 1, notBefore |-> 0, maxAttempts |-> 2,
          mode |-> "Reconcile"]

MCSpecs == {Spec1}

Batch(expected, ops) == [expected |-> expected, ops |-> ops, at |-> 1]
AppendTo(s, e) == [kind |-> "AppendEvent", stream |-> s, event |-> e]
Patch(v, ms) == [kind |-> "ProjectionPatch", projection |-> p1, expected |-> v,
                 new |-> v + 1, mutations |-> ms]
Put(k, v) == [kind |-> "Put", key |-> k, value |-> v]

(* Batches that read nothing from the store first: two that race for the    *)
(* same stream version, one that repeats a key, and job operations that     *)
(* need no lease.                                                           *)
FreeBatches ==
  {Batch({<<s1, 0>>}, <<AppendTo(s1, e1), [kind |-> "EnqueueJob", job |-> j1, spec |-> Spec1]>>),
   Batch({<<s1, 0>>}, <<AppendTo(s1, e2), AppendTo(s1, e3),
                        Patch(0, <<Put(k1, a), Put(k2, a)>>)>>),
   Batch({}, <<Patch(0, <<Put(k1, b)>>),
               Patch(1, <<[kind |-> "Delete", key |-> k2],
                          [kind |-> "Replace", entries |-> <<[key |-> k2, value |-> b]>>]>>)>>),
   Batch({}, <<Patch(2, <<[kind |-> "Clear"], Put(k1, a), Put(k1, b)>>)>>),
   Batch({}, <<AppendTo(s2, e3), [kind |-> "CancelJob", job |-> j1, token |-> NULL]>>)}
  \cup {Batch({}, <<[kind |-> "ResolveJob", job |-> j1, resolution |-> r]>>) :
          r \in {"Retry", "MarkSucceeded"}}

(* The batches of workers that hold, or held, a lease *)
LeaseBatches(job, token) ==
  {Batch({}, <<AppendTo(s2, e2), [kind |-> "AckJob", job |-> job, token |-> token]>>),
   Batch({}, <<[kind |-> "ExtendLease", job |-> job, token |-> token, expiry |-> 3],
               [kind |-> "FailJob", job |-> job, token |-> token, retry |-> NULL]>>)}

MCBatches(issued) == FreeBatches \cup UNION {LeaseBatches(jt[1], jt[2]) : jt \in issued}

Symmetry == Permutations(TxIds)

=============================================================================
