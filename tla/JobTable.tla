------------------------------ MODULE JobTable ------------------------------
(***************************************************************************)
(* The rows of the `jobs` and `active_partitions` tables and the           *)
(* operations that rewrite them, as functions from tables to tables        *)
(* (src/jobs.rs, src/store/jobs.rs).  Every operation X of a commit batch  *)
(* has a guard XOk, true when the code does not return an error, and a     *)
(* result.  The guards keep the order of the code's checks only where it   *)
(* can be seen: a refused operation rolls the whole transaction back.      *)
(*                                                                         *)
(* Payloads, digests, error summaries, timestamps of completion and the    *)
(* updating transaction are write-only columns: no operation reads them.   *)
(***************************************************************************)
EXTENDS Integers, FiniteSets

CONSTANTS
  JobIds,       \* job identifiers
  Queues,       \* queue names
  Partitions,   \* partition keys, numbered in the byte order of the keys
  Workers,      \* worker identifiers
  MaxTime,      \* i64::MAX, the last representable millisecond
  RetryDelay,   \* DEFAULT_RETRY_DELAY_MS
  JobSpecs,     \* the job specifications clients enqueue
  NULL          \* SQL NULL

Times == 0..MaxTime

EffectModes == {"Reconcile", "Idempotent"}

SpecType == [queue : Queues, partition : Partitions, notBefore : Times,
             maxAttempts : Nat \ {0}, mode : EffectModes]

ASSUME TableAssumption ==
  /\ Partitions \subseteq Nat \ {0}
  /\ MaxTime \in Nat
  /\ RetryDelay \in Nat \ {0}
  /\ JobSpecs \subseteq SpecType
  /\ NULL \notin Times
  /\ NULL \notin Workers
  /\ NULL \notin Nat \X JobIds

ActiveStates   == {"Pending", "Leased", "RetryWait", "Uncertain"}
TerminalStates == {"Succeeded", "Dead", "Cancelled"}

(* The lease token of a grant: a fresh random Id per transaction and job. *)
Tokens == Nat \X JobIds

RowType == [spec : JobSpecs, seq : Nat, state : ActiveStates \cup TerminalStates,
            attempt : Nat, token : Tokens \cup {NULL},
            worker : Workers \cup {NULL}, expiry : Times \cup {NULL},
            retryAfter : Times \cup {NULL}]

(* JobState::can_transition_to *)
Transitions ==
  {<<"Pending", "Leased">>, <<"Pending", "Cancelled">>, <<"RetryWait", "Leased">>,
   <<"Uncertain", "Pending">>, <<"Uncertain", "Succeeded">>, <<"Uncertain", "Dead">>}
  \cup {<<"Leased", s>> : s \in (ActiveStates \cup TerminalStates)}

CanTransition(job, to) == <<job.state, to>> \in Transitions

Exhausted(job) == job.attempt >= job.spec.maxAttempts

----------------------------------------------------------------------------
(* Partitions                                                              *)

PartitionOf(job) == <<job.spec.queue, job.spec.partition>>

InPartition(jobs, qp) == {j \in DOMAIN jobs : PartitionOf(jobs[j]) = qp}

ActiveIn(jobs, qp) == {j \in InPartition(jobs, qp) : jobs[j].state \in ActiveStates}

(* Mutant: the partition is dropped without looking for other active jobs *)
DrainUnconditionally(jobs, active, S) == active \ {PartitionOf(jobs[j]) : j \in S}

(* Mutant: a partition is never dropped *)
DrainNothing(jobs, active, S) == active

(* drain_partition_if_empty, over the partitions of the jobs in S *)
Drain(jobs, active, S) ==
  active \ {qp \in {PartitionOf(jobs[j]) : j \in S} : ActiveIn(jobs, qp) = {}}

(* Mutant: an uncertain job does not hold back its partition *)
IsHeadPastUncertain(jobs, j) ==
  /\ jobs[j].state \in ActiveStates
  /\ \A k \in ActiveIn(jobs, PartitionOf(jobs[j])) :
       jobs[k].state # "Uncertain" => jobs[j].seq <= jobs[k].seq

(* The job of its partition with the lowest enqueue sequence among those    *)
(* that are not terminal: the only one a claim looks at.                    *)
IsHead(jobs, j) ==
  /\ jobs[j].state \in ActiveStates
  /\ \A k \in ActiveIn(jobs, PartitionOf(jobs[j])) : jobs[j].seq <= jobs[k].seq

----------------------------------------------------------------------------
(* Row updates                                                             *)

NewRow(spec, seq) ==
  [spec |-> spec, seq |-> seq, state |-> "Pending", attempt |-> 0,
   token |-> NULL, worker |-> NULL, expiry |-> NULL, retryAfter |-> NULL]

(* set_nonterminal; set_terminal is the same update with no retry time *)
Unlease(job, state, retry) ==
  [job EXCEPT !.state = state, !.token = NULL, !.worker = NULL,
              !.expiry = NULL, !.retryAfter = retry]

SetState(jobs, j, state, retry) == [jobs EXCEPT ![j] = Unlease(@, state, retry)]

Grant(job, token, worker, expiry) ==
  [spec |-> job.spec, seq |-> job.seq, state |-> "Leased",
   attempt |-> job.attempt + 1, token |-> token, worker |-> worker,
   expiry |-> expiry, retryAfter |-> NULL]

----------------------------------------------------------------------------
(* The job operations of a commit batch                                    *)

EnqueueOk(jobs, j) == j \notin DOMAIN jobs

Enqueue(jobs, j, spec, seq) ==
  [k \in DOMAIN jobs \cup {j} |-> IF k = j THEN NewRow(spec, seq) ELSE jobs[k]]

HoldsToken(jobs, j, token) == j \in DOMAIN jobs /\ jobs[j].token = token

(* Mutant: the lease token is not compared *)
AckOkAnyToken(jobs, j, token) ==
  j \in DOMAIN jobs /\ CanTransition(jobs[j], "Succeeded")

AckOk(jobs, j, token) ==
  /\ HoldsToken(jobs, j, token)
  /\ CanTransition(jobs[j], "Succeeded")

Ack(jobs, j) == SetState(jobs, j, "Succeeded", NULL)

FailTarget(job) == IF Exhausted(job) THEN "Dead" ELSE "RetryWait"

(* Mutant: the default delay is added without checked_add *)
FailOkUnchecked(jobs, j, token, retry, now) ==
  HoldsToken(jobs, j, token) /\ CanTransition(jobs[j], FailTarget(jobs[j]))

(* `retry` is the caller's retry_after_ms or NULL; the default delay is     *)
(* added with checked_add.                                                  *)
FailOk(jobs, j, token, retry, now) ==
  /\ HoldsToken(jobs, j, token)
  /\ CanTransition(jobs[j], FailTarget(jobs[j]))
  /\ ~Exhausted(jobs[j]) /\ retry = NULL => now + RetryDelay <= MaxTime

Fail(jobs, j, retry, now) ==
  SetState(jobs, j, FailTarget(jobs[j]),
           IF Exhausted(jobs[j]) THEN NULL
           ELSE IF retry = NULL THEN now + RetryDelay ELSE retry)

(* A token, when given, must match; none is needed for a pending job. *)
CancelOk(jobs, j, token) ==
  /\ j \in DOMAIN jobs
  /\ CanTransition(jobs[j], "Cancelled")
  /\ IF token = NULL THEN jobs[j].state = "Pending" ELSE jobs[j].token = token

Cancel(jobs, j) == SetState(jobs, j, "Cancelled", NULL)

Resolutions == {"Retry", "MarkSucceeded", "MarkDead"}

(* Mutant: a retry is granted whatever the attempts used *)
ResolveTargetUnbounded(job, resolution) ==
  CASE resolution = "MarkSucceeded" -> "Succeeded"
    [] resolution = "MarkDead"      -> "Dead"
    [] resolution = "Retry"         -> "Pending"

ResolveTarget(job, resolution) ==
  CASE resolution = "MarkSucceeded" -> "Succeeded"
    [] resolution = "MarkDead"      -> "Dead"
    [] resolution = "Retry"         -> IF Exhausted(job) THEN "Dead" ELSE "Pending"

ResolveOk(jobs, j, resolution) ==
  /\ j \in DOMAIN jobs
  /\ CanTransition(jobs[j], ResolveTarget(jobs[j], resolution))

Resolve(jobs, j, resolution) ==
  SetState(jobs, j, ResolveTarget(jobs[j], resolution), NULL)

ExtendOk(jobs, j, token, newExpiry, now) ==
  /\ HoldsToken(jobs, j, token)
  /\ jobs[j].state = "Leased"
  /\ now <= jobs[j].expiry
  /\ newExpiry > jobs[j].expiry

Extend(jobs, j, newExpiry) == [jobs EXCEPT ![j].expiry = newExpiry]

----------------------------------------------------------------------------
(* Claim planning, from the state before the claim writes anything         *)

(* Mutant: a lease that has expired may be taken over *)
ReadyWhenExpired(job, now) ==
  /\ job.spec.notBefore <= now
  /\ \/ job.state = "Pending"
     \/ job.state = "RetryWait" /\ job.retryAfter <= now
     \/ job.state = "Leased" /\ job.expiry < now

Ready(job, now) ==
  /\ job.spec.notBefore <= now
  /\ \/ job.state = "Pending"
     \/ job.state = "RetryWait" /\ job.retryAfter <= now

(* Mutant: a lease is expired in its last millisecond *)
ExpiredInEarly(jobs, q, now) ==
  {j \in DOMAIN jobs : /\ jobs[j].spec.queue = q
                       /\ jobs[j].state = "Leased"
                       /\ jobs[j].expiry <= now}

ExpiredIn(jobs, q, now) ==
  {j \in DOMAIN jobs : /\ jobs[j].spec.queue = q
                       /\ jobs[j].state = "Leased"
                       /\ jobs[j].expiry < now}

(* plan_maintenance: at most `bound` expired leases, the oldest first; SQLite *)
(* breaks ties as it likes.                                                   *)
MaintenancePlans(jobs, q, now, bound) ==
  LET E == ExpiredIn(jobs, q, now)
  IN  {M \in SUBSET E :
         /\ Cardinality(M) <= bound
         /\ M # E => Cardinality(M) = bound
         /\ \A j \in M, k \in E \ M : jobs[j].expiry <= jobs[k].expiry}

(* Mutant: the effect mode is not consulted *)
RepairTargetAnyMode(job) == IF Exhausted(job) THEN "Dead" ELSE "Pending"

RepairTarget(job) ==
  IF job.spec.mode = "Reconcile" THEN "Uncertain"
  ELSE IF Exhausted(job) THEN "Dead" ELSE "Pending"

(* p is visited before r when the scan starts just after the cursor c *)
VisitedBefore(c, p, r) ==
  \/ p > c /\ r <= c
  \/ (p > c <=> r > c) /\ p < r

(* plan_leases: the ready heads of the first `limit` partitions, in the     *)
(* order of the scan, that have one.                                        *)
LeasePlan(jobs, active, c, q, now, limit) ==
  LET R == {j \in DOMAIN jobs : /\ jobs[j].spec.queue = q
                                /\ PartitionOf(jobs[j]) \in active
                                /\ IsHead(jobs, j)
                                /\ Ready(jobs[j], now)}
      Earlier(j) == {k \in R : VisitedBefore(c, jobs[k].spec.partition,
                                                jobs[j].spec.partition)}
  IN  {j \in R : Cardinality(Earlier(j)) < limit}

(* Mutant: the cursor is not advanced *)
NextCursorsKept(jobs, c, L) == {c}

(* The cursor after a claim that leased the jobs in L: the partition among  *)
(* theirs that the scan visited last, or the old cursor if L is empty.      *)
NextCursors(jobs, c, L) ==
  IF L = {} THEN {c}
  ELSE {p \in {jobs[j].spec.partition : j \in L} :
          \A j \in L : jobs[j].spec.partition = p \/ VisitedBefore(c, jobs[j].spec.partition, p)}

=============================================================================
