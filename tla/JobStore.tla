------------------------------ MODULE JobStore ------------------------------
(***************************************************************************)
(* The durable job queue of the control-plane store: tables `jobs`,        *)
(* `active_partitions`, `queue_cursors`, `claim_receipts` and the rows     *)
(* that claims add to `transactions`.  Each action is one BEGIN IMMEDIATE  *)
(* transaction that commits; a call that returns an error rolls back and   *)
(* is a stuttering step.  The single writer connection behind the store's  *)
(* mutex makes the actions atomic.                                         *)
(*                                                                         *)
(* Nothing is assumed of the callers: the time `now` is whatever each      *)
(* caller says it is, tokens may be stale and resolutions arrive at any    *)
(* moment.  JobWorkers adds callers that behave.                           *)
(***************************************************************************)
EXTENDS JobTable

CONSTANTS
  LeaseLengths,      \* the lease_ms values of claim requests
  ClaimLimits,       \* the limit values of claim requests
  MaintenanceLimit,  \* MAINTENANCE_LIMIT
  MaxLost            \* bound on the claims whose COMMIT does not persist

ASSUME StoreAssumption ==
  /\ LeaseLengths \subseteq Nat \ {0}
  /\ ClaimLimits \subseteq Nat
  /\ MaintenanceLimit \in Nat
  /\ MaxLost \in Nat

VARIABLES
  jobs,      \* table jobs: job id -> row, rows are never deleted
  lastSeq,   \* MAX(enqueue_sequence) over the table
  active,    \* table active_partitions: set of <<queue, partition>>
  cursor,    \* table queue_cursors: the partition last leased, 0 for none
  receipts,  \* table claim_receipts
  claimTxs,  \* ids of the claim transactions in table transactions
  lastTx,    \* the last transaction id drawn by a claim
  lost       \* number of claims that drew an id and did not persist

vars == <<jobs, lastSeq, active, cursor, receipts, claimTxs, lastTx, lost>>

ReceiptType == [tx : Nat, job : JobIds, token : Tokens, attempt : Nat,
                worker : Workers, expiry : Times]

TypeOK ==
  /\ DOMAIN jobs \subseteq JobIds
  /\ jobs \in [DOMAIN jobs -> RowType]
  /\ lastSeq \in Nat
  /\ active \subseteq Queues \X Partitions
  /\ cursor \in [Queues -> Partitions \cup {0}]
  /\ receipts \subseteq ReceiptType
  /\ claimTxs \subseteq Nat
  /\ lastTx \in Nat
  /\ lost \in Nat

Init ==
  /\ jobs = [j \in {} |-> NULL]
  /\ lastSeq = 0
  /\ active = {}
  /\ cursor = [q \in Queues |-> 0]
  /\ receipts = {}
  /\ claimTxs = {}
  /\ lastTx = 0
  /\ lost = 0

claimVars == <<cursor, receipts, claimTxs, lastTx, lost>>

----------------------------------------------------------------------------
(* Operations of commit batches                                            *)

EnqueueJob(j, spec) ==
  /\ EnqueueOk(jobs, j)
  /\ jobs' = Enqueue(jobs, j, spec, lastSeq + 1)
  /\ lastSeq' = lastSeq + 1
  /\ active' = active \cup {<<spec.queue, spec.partition>>}
  /\ UNCHANGED claimVars

(* set_terminal and set_nonterminal: terminal rows drain their partition *)
Settle(newJobs, j) ==
  /\ jobs' = newJobs
  /\ active' = IF newJobs[j].state \in TerminalStates
               THEN Drain(newJobs, active, {j}) ELSE active
  /\ UNCHANGED <<lastSeq, claimVars>>

AckJob(j, token) ==
  /\ AckOk(jobs, j, token)
  /\ Settle(Ack(jobs, j), j)

FailJob(j, token, retry, now) ==
  /\ FailOk(jobs, j, token, retry, now)
  /\ Settle(Fail(jobs, j, retry, now), j)

CancelJob(j, token) ==
  /\ CancelOk(jobs, j, token)
  /\ Settle(Cancel(jobs, j), j)

ResolveJob(j, resolution) ==
  /\ ResolveOk(jobs, j, resolution)
  /\ Settle(Resolve(jobs, j, resolution), j)

(* Mutant: the claim receipt keeps the expiry granted at first *)
ExtendLeaseRowOnly(j, token, newExpiry, now) ==
  /\ ExtendOk(jobs, j, token, newExpiry, now)
  /\ jobs' = Extend(jobs, j, newExpiry)
  /\ UNCHANGED <<lastSeq, active, claimVars>>

(* The receipt is rewritten with the row so that recovery reports the       *)
(* extended expiry.                                                         *)
ExtendLease(j, token, newExpiry, now) ==
  /\ ExtendOk(jobs, j, token, newExpiry, now)
  /\ jobs' = Extend(jobs, j, newExpiry)
  /\ receipts' = {IF r.job = j /\ r.token = token
                  THEN [r EXCEPT !.expiry = newExpiry] ELSE r : r \in receipts}
  /\ UNCHANGED <<lastSeq, active, cursor, claimTxs, lastTx, lost>>

----------------------------------------------------------------------------
(* claim_jobs                                                              *)

Token(tx, j) == <<tx, j>>

(* The rows after a claim repaired the jobs in M and then leased those in L *)
Claimed(M, L, tx, w, expiry) ==
  [j \in DOMAIN jobs |->
     IF j \in L THEN Grant(jobs[j], Token(tx, j), w, expiry)
     ELSE IF j \in M THEN Unlease(jobs[j], RepairTarget(jobs[j]), NULL)
     ELSE jobs[j]]

ClaimReceipts(L, tx, w, expiry) ==
  {[tx |-> tx, job |-> j, token |-> Token(tx, j), attempt |-> jobs[j].attempt + 1,
    worker |-> w, expiry |-> expiry] : j \in L}

(* The claim's transaction persisted, whatever COMMIT reported *)
ClaimWith(q, w, expiry, M, L) ==
  /\ lastTx' = lastTx + 1
  /\ claimTxs' = claimTxs \cup {lastTx + 1}
  /\ jobs' = Claimed(M, L, lastTx + 1, w, expiry)
  /\ active' = Drain(jobs', active, {j \in M : jobs'[j].state = "Dead"})
  /\ receipts' = receipts \cup ClaimReceipts(L, lastTx + 1, w, expiry)
  /\ \E p \in NextCursors(jobs, cursor[q], L) : cursor' = [cursor EXCEPT ![q] = p]
  /\ UNCHANGED <<lastSeq, lost>>

(* Both plans are made from the state before any write.  An overflowing     *)
(* expiry is refused up front; a claim with nothing to do is rolled back.   *)
ClaimJobs(q, w, now, len, limit) ==
  /\ now + len <= MaxTime
  /\ \E M \in MaintenancePlans(jobs, q, now, MaintenanceLimit) :
        LET L == LeasePlan(jobs, active, cursor[q], q, now, limit)
        IN  M \cup L # {} /\ ClaimWith(q, w, now + len, M, L)

(* COMMIT failed and nothing persisted: only the drawn id is gone *)
ClaimLost(q, now, len, limit) ==
  /\ lost < MaxLost
  /\ now + len <= MaxTime
  /\ \E M \in MaintenancePlans(jobs, q, now, MaintenanceLimit) :
        M \cup LeasePlan(jobs, active, cursor[q], q, now, limit) # {}
  /\ lastTx' = lastTx + 1
  /\ lost' = lost + 1
  /\ UNCHANGED <<jobs, lastSeq, active, cursor, receipts, claimTxs>>

----------------------------------------------------------------------------
(* recover_claim: what a claim's transaction id leads to                   *)

ReceiptsOf(tx) == {r \in receipts : r.tx = tx /\ r.job \in DOMAIN jobs}

(* Mutant: any lease of the job will do *)
StillCurrentAnyToken(r, now) ==
  jobs[r.job].state = "Leased" /\ jobs[r.job].expiry >= now

(* Mutant: the lease is stale in its last millisecond *)
StillCurrentStrictly(r, now) ==
  /\ jobs[r.job].state = "Leased"
  /\ jobs[r.job].token = r.token
  /\ jobs[r.job].expiry > now

StillCurrent(r, now) ==
  /\ jobs[r.job].state = "Leased"
  /\ jobs[r.job].token = r.token
  /\ jobs[r.job].expiry >= now

RecoverClaim(tx, now) ==
  LET R == ReceiptsOf(tx)
  IN  IF R # {}
      THEN [result |-> "Committed",
            leases |-> {r \in R : StillCurrent(r, now)},
            stale  |-> {r.job : r \in {s \in R : ~StillCurrent(s, now)}}]
      ELSE [result |-> IF tx \in claimTxs THEN "MaintenanceCommitted" ELSE "Absent",
            leases |-> {}, stale |-> {}]

----------------------------------------------------------------------------
(* Any token ever granted may be presented, for as long as anyone likes *)
Issued == {<<r.job, r.token>> : r \in receipts}

Next ==
  \/ \E j \in JobIds, spec \in JobSpecs : EnqueueJob(j, spec)
  \/ \E jt \in Issued : AckJob(jt[1], jt[2])
  \/ \E jt \in Issued, retry \in Times \cup {NULL}, now \in Times :
        FailJob(jt[1], jt[2], retry, now)
  \/ \E j \in JobIds : CancelJob(j, NULL)
  \/ \E jt \in Issued : CancelJob(jt[1], jt[2])
  \/ \E j \in JobIds, resolution \in Resolutions : ResolveJob(j, resolution)
  \/ \E jt \in Issued, newExpiry \in Times, now \in Times :
        ExtendLease(jt[1], jt[2], newExpiry, now)
  \/ \E q \in Queues, w \in Workers, now \in Times, len \in LeaseLengths,
        limit \in ClaimLimits : ClaimJobs(q, w, now, len, limit)
  \/ \E q \in Queues, now \in Times, len \in LeaseLengths, limit \in ClaimLimits :
        ClaimLost(q, now, len, limit)

Spec == Init /\ [][Next]_vars

----------------------------------------------------------------------------
(* Properties                                                              *)

(* Leased rows, and only they, carry a complete lease, and waiting rows a   *)
(* retry time: the CHECK constraints of the second migration, which would   *)
(* turn any operation that breaks them into a storage error.                *)
LeaseColumns ==
  \A j \in DOMAIN jobs :
    /\ jobs[j].state = "Leased"
         => NULL \notin {jobs[j].token, jobs[j].worker, jobs[j].expiry}
    /\ jobs[j].state # "Leased"
         => {jobs[j].token, jobs[j].worker, jobs[j].expiry} = {NULL}
    /\ jobs[j].state = "RetryWait" <=> jobs[j].retryAfter # NULL

(* A partition is served strictly in enqueue order: while a job is not      *)
(* terminal, whatever happens to it (retries, expiry, an uncertain outcome),*)
(* no job enqueued after it in its partition has ever been leased.          *)
PartitionFIFO ==
  \A j, k \in DOMAIN jobs :
    /\ PartitionOf(jobs[j]) = PartitionOf(jobs[k])
    /\ jobs[j].state \in ActiveStates
    /\ jobs[k].state \in ActiveStates
    /\ jobs[j].seq < jobs[k].seq
    => jobs[k].state = "Pending" /\ jobs[k].attempt = 0

(* active_partitions lists exactly the partitions with a job that is not    *)
(* terminal: a missing row would hide work from every claim, and `verify`   *)
(* looks only for superfluous ones.                                         *)
ActivePartitionsExact ==
  active = {PartitionOf(jobs[j]) : j \in {k \in DOMAIN jobs : jobs[k].state \in ActiveStates}}

(* No job is leased more than max_attempts times.  The claim does not check *)
(* the attempts: a job out of attempts must never be left claimable.        *)
AttemptsBounded ==
  \A j \in DOMAIN jobs :
    /\ jobs[j].attempt <= jobs[j].spec.maxAttempts
    /\ jobs[j].state \in {"Pending", "RetryWait"} => ~Exhausted(jobs[j])

(* The claim receipts are the full history of leases: one per attempt of    *)
(* each job, each from a committed claim, and the one of the current lease  *)
(* agrees with the row, extensions included.                                *)
ReceiptsTruthful ==
  /\ \A r \in receipts :
       /\ r.tx \in claimTxs
       /\ r.job \in DOMAIN jobs
       /\ r.attempt \in 1..jobs[r.job].attempt
  /\ \A r, s \in receipts :
       r.job = s.job /\ (r.token = s.token \/ r.attempt = s.attempt) => r = s
  /\ \A j \in DOMAIN jobs : jobs[j].state = "Leased" =>
       \E r \in receipts : /\ r.job = j
                           /\ r.token = jobs[j].token
                           /\ r.attempt = jobs[j].attempt
                           /\ r.worker = jobs[j].worker
                           /\ r.expiry = jobs[j].expiry

(* recover_claim tells the truth whenever it is asked: Absent exactly for a *)
(* claim that did not persist, and every unexpired lease is handed out by   *)
(* the recovery of one claim only, with the row's worker and expiry.        *)
RecoverySound ==
  \A now \in Times :
    /\ \A tx \in 1..lastTx :
         RecoverClaim(tx, now).result = "Absent" <=> tx \notin claimTxs
    /\ \A j \in DOMAIN jobs : jobs[j].state = "Leased" /\ jobs[j].expiry >= now =>
         \E tx \in claimTxs : \A other \in claimTxs :
            {<<r.worker, r.expiry>> : r \in {s \in RecoverClaim(other, now).leases : s.job = j}}
              = IF other = tx THEN {<<jobs[j].worker, jobs[j].expiry>>} ELSE {}

(* The partitions between cursor c and partition p, going round *)
Between(c, p) == {r \in Partitions : IF c < p THEN c < r /\ r < p ELSE r > c \/ r < p}

(* Some job of queue q is leased by this step *)
GrantStep(q) == \E j \in DOMAIN jobs : /\ jobs[j].spec.queue = q
                                       /\ jobs'[j].attempt > jobs[j].attempt

(* Round robin: a claim that grants leases and passes over a partition      *)
(* whose head can be leased at any time brings the cursor strictly closer   *)
(* to that partition, and nothing but a grant moves the cursor.  So no      *)
(* partition is passed over more often than there are partitions.           *)
RotationProgress ==
  [][\A q \in Queues :
       /\ ~GrantStep(q) => cursor'[q] = cursor[q]
       /\ GrantStep(q) =>
            \A j \in DOMAIN jobs :
              LET p == jobs[j].spec.partition
              IN  /\ jobs[j].spec.queue = q
                  /\ IsHead(jobs, j)
                  /\ Ready(jobs[j], 0)
                  /\ jobs'[j].attempt = jobs[j].attempt
                  => /\ Between(cursor'[q], p) \subseteq Between(cursor[q], p)
                     /\ Between(cursor'[q], p) # Between(cursor[q], p)]_vars

=============================================================================
