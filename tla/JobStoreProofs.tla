--------------------------- MODULE JobStoreProofs ---------------------------
(***************************************************************************)
(* Proofs about JobStore, for every set of jobs, queues, partitions and    *)
(* workers, every bound and every behaviour of the callers.                *)
(***************************************************************************)
EXTENDS JobStore, FiniteSetTheorems, TLAPS

States == ActiveStates \cup TerminalStates

----------------------------------------------------------------------------
(* Row updates                                                             *)

(* A fresh row is a row: what apply_enqueue inserts. *)
LEMMA NewRowType ==
  ASSUME NEW spec \in JobSpecs, NEW seq \in Nat
  PROVE  NewRow(spec, seq) \in RowType
BY DEF NewRow, RowType, ActiveStates

(* Taking a lease away keeps the type, the specification, the sequence and  *)
(* the attempts of a row: set_terminal and set_nonterminal.                 *)
LEMMA UnleaseRow ==
  ASSUME NEW job \in RowType, NEW state \in States, NEW retry \in Times \cup {NULL}
  PROVE  LET r == Unlease(job, state, retry)
         IN  /\ r \in RowType
             /\ r.spec = job.spec /\ r.seq = job.seq /\ r.attempt = job.attempt
             /\ r.state = state /\ r.token = NULL /\ r.worker = NULL
             /\ r.expiry = NULL /\ r.retryAfter = retry
BY DEF Unlease, RowType, States

(* A grant keeps the specification and the sequence and adds one attempt. *)
LEMMA GrantRow ==
  ASSUME NEW job \in RowType, NEW token \in Tokens, NEW w \in Workers,
         NEW expiry \in Times
  PROVE  LET r == Grant(job, token, w, expiry)
         IN  /\ r \in RowType
             /\ r.spec = job.spec /\ r.seq = job.seq /\ r.attempt = job.attempt + 1
             /\ r.state = "Leased" /\ r.token = token /\ r.worker = w
             /\ r.expiry = expiry /\ r.retryAfter = NULL
BY DEF Grant, RowType, ActiveStates

----------------------------------------------------------------------------
(* The inductive invariant                                                 *)

(* Enqueue sequences are unique and bounded by the last one given out. *)
SeqsUnique ==
  /\ \A j \in DOMAIN jobs : jobs[j].seq <= lastSeq
  /\ \A j, k \in DOMAIN jobs : jobs[j].seq = jobs[k].seq => j = k

(* A token names the claim and the job it was made for, and no claim has    *)
(* an id that is still to be drawn.                                         *)
TokensFresh ==
  /\ \A tx \in claimTxs : tx <= lastTx
  /\ \A r \in receipts : r.token = Token(r.tx, r.job)

IInv == /\ TypeOK
        /\ LeaseColumns
        /\ SeqsUnique
        /\ PartitionFIFO
        /\ ActivePartitionsExact
        /\ AttemptsBounded
        /\ TokensFresh
        /\ ReceiptsTruthful

----------------------------------------------------------------------------
(* The steps that settle one job, seen alike: acknowledgement, failure,     *)
(* cancellation and resolution take the lease away and leave state s.       *)

SettleStep(j, s, retry) ==
  /\ j \in DOMAIN jobs
  /\ s \in States \ {"Leased", "Uncertain"}
  /\ retry \in Times \cup {NULL}
  /\ s = "RetryWait" <=> retry # NULL
  /\ CanTransition(jobs[j], s)
  /\ s \in {"Pending", "RetryWait"} => ~Exhausted(jobs[j])
  /\ Settle(SetState(jobs, j, s, retry), j)

(* An acknowledgement settles its job as succeeded. *)
LEMMA AckSettles ==
  ASSUME NEW j \in JobIds, NEW token \in Tokens, AckJob(j, token)
  PROVE  SettleStep(j, "Succeeded", NULL)
BY TableAssumption
   DEF AckJob, AckOk, Ack, HoldsToken, SettleStep, States, TerminalStates

(* A failure leaves its job waiting, or dead when it has no attempts left; *)
(* only a leased row has a token to match.                                 *)
LEMMA FailSettles ==
  ASSUME TypeOK, LeaseColumns, NEW j \in JobIds, NEW token \in Tokens,
         NEW retry \in Times \cup {NULL}, NEW now \in Times,
         FailJob(j, token, retry, now)
  PROVE  \E s \in States, again \in Times \cup {NULL} : SettleStep(j, s, again)
<1>1. j \in DOMAIN jobs /\ jobs[j].token = token
  BY DEF FailJob, FailOk, HoldsToken
<1>2. jobs[j].state = "Leased"
  BY <1>1, TableAssumption DEF LeaseColumns, Tokens
<1>3. CASE Exhausted(jobs[j])
  <2>1. SettleStep(j, "Dead", NULL)
    BY <1>1, <1>2, <1>3 DEF FailJob, FailOk, Fail, FailTarget, SettleStep, States,
       TerminalStates
  <2> QED
    BY <2>1 DEF States, TerminalStates
<1>4. CASE ~Exhausted(jobs[j])
  <2> DEFINE again == IF retry = NULL THEN now + RetryDelay ELSE retry
  <2>1. again \in Times
    BY <1>4, TableAssumption DEF FailJob, FailOk, Times
  <2>2. SettleStep(j, "RetryWait", again)
    BY <1>1, <1>2, <1>4, <2>1, TableAssumption DEF FailJob, FailOk, Fail, FailTarget,
       SettleStep, States, ActiveStates
  <2> QED
    BY <2>1, <2>2 DEF States, ActiveStates
<1> QED
  BY <1>3, <1>4

(* A cancellation settles its job as cancelled. *)
LEMMA CancelSettles ==
  ASSUME NEW j \in JobIds, NEW token, CancelJob(j, token)
  PROVE  SettleStep(j, "Cancelled", NULL)
BY TableAssumption
   DEF CancelJob, CancelOk, Cancel, SettleStep, States, TerminalStates

(* A resolution never leaves a job pending that has no attempts left. *)
LEMMA ResolveSettles ==
  ASSUME NEW j \in JobIds, NEW resolution \in Resolutions, ResolveJob(j, resolution)
  PROVE  \E s \in States : SettleStep(j, s, NULL)
<1> DEFINE s == ResolveTarget(jobs[j], resolution)
<1>1. s \in {"Succeeded", "Dead", "Pending"} /\ (s = "Pending" => ~Exhausted(jobs[j]))
  BY DEF ResolveTarget, Resolutions
<1>2. j \in DOMAIN jobs /\ CanTransition(jobs[j], s)
  BY DEF ResolveJob, ResolveOk
<1>3. SettleStep(j, s, NULL)
  BY <1>1, <1>2, TableAssumption
     DEF ResolveJob, Resolve, SettleStep, States, ActiveStates, TerminalStates
<1> QED
  BY <1>1, <1>3 DEF States, ActiveStates, TerminalStates

(* What a settling step does to the rows. *)
LEMMA SettleRows ==
  ASSUME TypeOK, NEW j, NEW s, NEW retry, SettleStep(j, s, retry)
  PROVE  /\ DOMAIN jobs' = DOMAIN jobs
         /\ jobs' \in [DOMAIN jobs -> RowType]
         /\ \A k \in DOMAIN jobs : k # j => jobs'[k] = jobs[k]
         /\ jobs'[j].spec = jobs[j].spec
         /\ jobs'[j].seq = jobs[j].seq
         /\ jobs'[j].attempt = jobs[j].attempt
         /\ jobs'[j].state = s
         /\ jobs'[j].token = NULL
         /\ jobs'[j].worker = NULL
         /\ jobs'[j].expiry = NULL
         /\ jobs'[j].retryAfter = retry
         /\ active' = IF s \in TerminalStates THEN Drain(jobs', active, {j}) ELSE active
         /\ UNCHANGED <<lastSeq, cursor, receipts, claimTxs, lastTx, lost>>
<1>1. /\ j \in DOMAIN jobs /\ jobs \in [DOMAIN jobs -> RowType]
      /\ s \in States /\ retry \in Times \cup {NULL}
  BY DEF TypeOK, SettleStep
<1>2. jobs' = [jobs EXCEPT ![j] = Unlease(jobs[j], s, retry)]
  BY DEF SettleStep, Settle, SetState
<1>3. DOMAIN jobs' = DOMAIN jobs /\ jobs'[j] = Unlease(jobs[j], s, retry)
  BY <1>1, <1>2
<1>4. jobs'[j].state = s
  BY <1>1, <1>3, UnleaseRow
<1>5. active' = IF s \in TerminalStates THEN Drain(jobs', active, {j}) ELSE active
  BY <1>4 DEF SettleStep, Settle
<1> QED
  BY <1>1, <1>2, <1>3, <1>5, UnleaseRow DEF SettleStep, Settle, claimVars

(* A partition drains exactly when its last job that is not terminal ends. *)
LEMMA DrainExact ==
  ASSUME TypeOK, ActivePartitionsExact,
         DOMAIN jobs' = DOMAIN jobs,
         \A k \in DOMAIN jobs : jobs'[k].spec = jobs[k].spec,
         NEW S \in SUBSET DOMAIN jobs,
         \A k \in S : jobs[k].state \in ActiveStates,
         \A k \in DOMAIN jobs \ S :
            jobs'[k].state \in ActiveStates <=> jobs[k].state \in ActiveStates,
         active' = Drain(jobs', active, S)
  PROVE  ActivePartitionsExact'
<1> DEFINE A == {k \in DOMAIN jobs : jobs[k].state \in ActiveStates}
           B == {k \in DOMAIN jobs : jobs'[k].state \in ActiveStates}
<1>1. \A k \in DOMAIN jobs : PartitionOf(jobs'[k]) = PartitionOf(jobs[k])
  BY DEF PartitionOf
<1>2. active = {PartitionOf(jobs[k]) : k \in A}
  BY DEF ActivePartitionsExact
<1>3. B \subseteq A /\ A \ B \subseteq S /\ S \subseteq DOMAIN jobs
  OBVIOUS
<1>4. \A qp : ActiveIn(jobs', qp) = {k \in B : PartitionOf(jobs[k]) = qp}
  BY <1>1 DEF ActiveIn, InPartition
<1>5. ASSUME NEW qp
      PROVE  qp \in active' <=> \E k \in B : PartitionOf(jobs[k]) = qp
  <2>1. qp \in active' <=>
          /\ \E k \in A : PartitionOf(jobs[k]) = qp
          /\ ~(/\ \E k \in S : PartitionOf(jobs[k]) = qp
               /\ ~\E k \in B : PartitionOf(jobs[k]) = qp)
    BY <1>1, <1>2, <1>3, <1>4 DEF Drain
  <2> QED
    BY <2>1, <1>3
<1>6. active' = {PartitionOf(jobs'[k]) : k \in B}
  BY <1>1, <1>5
<1> QED
  BY <1>6 DEF ActivePartitionsExact

(* A settling step preserves the invariant. *)
LEMMA SettleInv ==
  ASSUME IInv, NEW j, NEW s, NEW retry, SettleStep(j, s, retry)
  PROVE  IInv'
<1> USE DEF IInv
<1> DEFINE D == DOMAIN jobs
<1>1. /\ j \in D
      /\ s \in States \ {"Leased", "Uncertain"}
      /\ retry \in Times \cup {NULL}
      /\ s = "RetryWait" <=> retry # NULL
      /\ jobs[j].state \in ActiveStates
      /\ s \in ActiveStates => jobs[j].state \in {"Leased", "Uncertain"}
      /\ s \in {"Pending", "RetryWait"} => ~Exhausted(jobs[j])
  BY DEF SettleStep, CanTransition, Transitions, States, ActiveStates, TerminalStates
<1>2. /\ DOMAIN jobs' = D
      /\ jobs' \in [D -> RowType]
      /\ \A k \in D : k # j => jobs'[k] = jobs[k]
      /\ jobs'[j].spec = jobs[j].spec
      /\ jobs'[j].seq = jobs[j].seq
      /\ jobs'[j].attempt = jobs[j].attempt
      /\ jobs'[j].state = s
      /\ jobs'[j].token = NULL
      /\ jobs'[j].worker = NULL
      /\ jobs'[j].expiry = NULL
      /\ jobs'[j].retryAfter = retry
      /\ active' = IF s \in TerminalStates THEN Drain(jobs', active, {j}) ELSE active
      /\ UNCHANGED <<lastSeq, cursor, receipts, claimTxs, lastTx, lost>>
  BY SettleRows
<1>3. TypeOK'
  <2>1. active' \subseteq active
    BY <1>2 DEF Drain
  <2> QED
    BY <1>2, <2>1 DEF TypeOK
<1>4. LeaseColumns'
  BY <1>1, <1>2 DEF LeaseColumns
<1>5. SeqsUnique'
  BY <1>1, <1>2 DEF SeqsUnique
<1>6. PartitionFIFO'
  <2> SUFFICES ASSUME NEW a \in D, NEW b \in D,
                      PartitionOf(jobs'[a]) = PartitionOf(jobs'[b]),
                      jobs'[a].state \in ActiveStates,
                      jobs'[b].state \in ActiveStates,
                      jobs'[a].seq < jobs'[b].seq
               PROVE  jobs'[b].state = "Pending" /\ jobs'[b].attempt = 0
    BY <1>2 DEF PartitionFIFO
  <2>1. /\ PartitionOf(jobs[a]) = PartitionOf(jobs[b])
        /\ jobs[a].state \in ActiveStates
        /\ jobs[b].state \in ActiveStates
        /\ jobs[a].seq < jobs[b].seq
    BY <1>1, <1>2 DEF PartitionOf
  <2>2. jobs[b].state = "Pending" /\ jobs[b].attempt = 0
    BY <2>1 DEF PartitionFIFO
  <2>3. b # j
    BY <1>1, <1>2, <2>2
  <2> QED
    BY <1>2, <2>2, <2>3
<1>7. ActivePartitionsExact'
  <2>1. \A k \in D : jobs'[k].spec = jobs[k].spec
    BY <1>2
  <2>2. CASE s \in TerminalStates
    <3>1. \A k \in D \ {j} : jobs'[k].state \in ActiveStates <=> jobs[k].state \in ActiveStates
      BY <1>2
    <3> QED
      BY <1>1, <1>2, <2>1, <2>2, <3>1, DrainExact
  <2>3. CASE s \notin TerminalStates
    <3>1. \A k \in D : /\ PartitionOf(jobs'[k]) = PartitionOf(jobs[k])
                       /\ jobs'[k].state \in ActiveStates <=> jobs[k].state \in ActiveStates
      BY <1>1, <1>2, <2>1, <2>3 DEF PartitionOf, States
    <3>2. active' = active
      BY <1>2, <2>3
    <3> QED
      BY <1>2, <3>1, <3>2 DEF ActivePartitionsExact
  <2> QED
    BY <2>2, <2>3
<1>8. AttemptsBounded'
  BY <1>1, <1>2 DEF AttemptsBounded, Exhausted
<1>9. TokensFresh'
  BY <1>2 DEF TokensFresh, Token
<1>10. ReceiptsTruthful'
  <2>1. \A r \in receipts : jobs'[r.job].attempt = jobs[r.job].attempt
    BY <1>2 DEF ReceiptsTruthful
  <2>2. \A k \in D : jobs'[k].state = "Leased" => jobs'[k] = jobs[k]
    BY <1>1, <1>2
  <2> QED
    BY <1>2, <2>1, <2>2 DEF ReceiptsTruthful
<1> QED
  BY <1>3, <1>4, <1>5, <1>6, <1>7, <1>8, <1>9, <1>10

(* Enqueueing preserves the invariant: the new row is the last of its       *)
(* partition and has not been attempted.                                    *)
LEMMA EnqueueInv ==
  ASSUME IInv, NEW j \in JobIds, NEW spec \in JobSpecs, EnqueueJob(j, spec)
  PROVE  IInv'
<1> USE DEF IInv
<1> DEFINE D == DOMAIN jobs
<1>1. /\ j \notin D
      /\ DOMAIN jobs' = D \cup {j}
      /\ \A k \in D : jobs'[k] = jobs[k]
      /\ jobs'[j] = NewRow(spec, lastSeq + 1)
      /\ lastSeq' = lastSeq + 1
      /\ active' = active \cup {<<spec.queue, spec.partition>>}
      /\ UNCHANGED <<cursor, receipts, claimTxs, lastTx, lost>>
  BY DEF EnqueueJob, EnqueueOk, Enqueue, claimVars
<1>2. lastSeq \in Nat /\ lastSeq + 1 \in Nat
  BY DEF TypeOK
<1>3. /\ jobs'[j].spec = spec /\ jobs'[j].seq = lastSeq + 1
      /\ jobs'[j].state = "Pending" /\ jobs'[j].attempt = 0
      /\ jobs'[j].token = NULL /\ jobs'[j].worker = NULL
      /\ jobs'[j].expiry = NULL /\ jobs'[j].retryAfter = NULL
      /\ jobs'[j] \in RowType
  BY <1>1, <1>2, NewRowType DEF NewRow
<1>4. spec \in SpecType
  BY TableAssumption
<1>5. TypeOK'
  <2>1. jobs' \in [DOMAIN jobs' -> RowType]
    <3>1. jobs' = [k \in DOMAIN jobs' |-> jobs'[k]]
      BY DEF EnqueueJob, Enqueue
    <3> QED
      BY <1>1, <1>3, <3>1 DEF TypeOK
  <2>2. <<spec.queue, spec.partition>> \in Queues \X Partitions
    BY <1>4 DEF SpecType
  <2> QED
    BY <1>1, <1>2, <2>1, <2>2 DEF TypeOK
<1>6. LeaseColumns'
  BY <1>1, <1>3 DEF LeaseColumns
<1>7. SeqsUnique'
  <2>1. \A k \in D : jobs[k].seq \in Nat /\ jobs[k].seq <= lastSeq
    BY DEF SeqsUnique, TypeOK, RowType
  <2> QED
    BY <1>1, <1>2, <1>3, <2>1 DEF SeqsUnique
<1>8. PartitionFIFO'
  <2>1. \A k \in D : jobs[k].seq \in Nat /\ jobs[k].seq <= lastSeq
    BY DEF SeqsUnique, TypeOK, RowType
  <2> QED
    BY <1>1, <1>2, <1>3, <2>1 DEF PartitionFIFO, PartitionOf
<1>9. ActivePartitionsExact'
  <2>1. PartitionOf(jobs'[j]) = <<spec.queue, spec.partition>>
    BY <1>3 DEF PartitionOf
  <2>2. jobs'[j].state \in ActiveStates
    BY <1>3 DEF ActiveStates
  <2>3. {k \in DOMAIN jobs' : jobs'[k].state \in ActiveStates}
          = {k \in D : jobs[k].state \in ActiveStates} \cup {j}
    BY <1>1, <2>2
  <2> QED
    BY <1>1, <2>1, <2>3 DEF ActivePartitionsExact
<1>10. AttemptsBounded'
  <2>1. spec.maxAttempts \in Nat \ {0}
    BY <1>4 DEF SpecType
  <2> QED
    BY <1>1, <1>3, <2>1 DEF AttemptsBounded, Exhausted
<1>11. TokensFresh'
  BY <1>1 DEF TokensFresh, Token
<1>12. ReceiptsTruthful'
  BY <1>1, <1>3 DEF ReceiptsTruthful
<1> QED
  BY <1>5, <1>6, <1>7, <1>8, <1>9, <1>10, <1>11, <1>12

(* Extending a lease preserves the invariant: the row and its receipt move  *)
(* together.                                                                *)
LEMMA ExtendInv ==
  ASSUME IInv, NEW j \in JobIds, NEW token \in Tokens, NEW newExpiry \in Times,
         NEW now \in Times, ExtendLease(j, token, newExpiry, now)
  PROVE  IInv'
<1> USE DEF IInv
<1> DEFINE D == DOMAIN jobs
           Moved(r) == IF r.job = j /\ r.token = token
                       THEN [r EXCEPT !.expiry = newExpiry] ELSE r
<1>1. /\ j \in D /\ jobs[j].token = token /\ jobs[j].state = "Leased"
      /\ jobs' = [jobs EXCEPT ![j].expiry = newExpiry]
      /\ receipts' = {Moved(r) : r \in receipts}
      /\ UNCHANGED <<lastSeq, active, cursor, claimTxs, lastTx, lost>>
  BY DEF ExtendLease, ExtendOk, HoldsToken, Extend
<1>2. jobs \in [D -> RowType]
  BY DEF TypeOK
<1>3. /\ DOMAIN jobs' = D
      /\ jobs' \in [D -> RowType]
      /\ \A k \in D : k # j => jobs'[k] = jobs[k]
      /\ jobs'[j].spec = jobs[j].spec /\ jobs'[j].seq = jobs[j].seq
      /\ jobs'[j].state = jobs[j].state /\ jobs'[j].attempt = jobs[j].attempt
      /\ jobs'[j].token = jobs[j].token /\ jobs'[j].worker = jobs[j].worker
      /\ jobs'[j].expiry = newExpiry /\ jobs'[j].retryAfter = jobs[j].retryAfter
  BY <1>1, <1>2 DEF RowType
<1>4. \A r \in receipts :
        /\ Moved(r) \in ReceiptType
        /\ Moved(r).tx = r.tx /\ Moved(r).job = r.job /\ Moved(r).token = r.token
        /\ Moved(r).attempt = r.attempt /\ Moved(r).worker = r.worker
        /\ Moved(r).expiry = IF r.job = j /\ r.token = token THEN newExpiry ELSE r.expiry
  BY DEF TypeOK, ReceiptType
<1> HIDE DEF Moved
<1>5. TypeOK'
  BY <1>1, <1>3, <1>4 DEF TypeOK
<1>6. LeaseColumns'
  BY <1>1, <1>3, TableAssumption DEF LeaseColumns
<1>7. SeqsUnique'
  BY <1>1, <1>3 DEF SeqsUnique
<1>8. PartitionFIFO'
  BY <1>1, <1>3 DEF PartitionFIFO, PartitionOf
<1>9. ActivePartitionsExact'
  <2>1. \A k \in D : /\ PartitionOf(jobs'[k]) = PartitionOf(jobs[k])
                     /\ jobs'[k].state = jobs[k].state
    BY <1>3 DEF PartitionOf
  <2> QED
    BY <1>1, <1>3, <2>1 DEF ActivePartitionsExact
<1>10. AttemptsBounded'
  BY <1>1, <1>3 DEF AttemptsBounded, Exhausted
<1>11. TokensFresh'
  BY <1>1, <1>4 DEF TokensFresh, Token
<1>12. ReceiptsTruthful'
  <2>1. \A r \in receipts' : /\ r.tx \in claimTxs
                             /\ r.job \in DOMAIN jobs'
                             /\ r.attempt \in 1..jobs'[r.job].attempt
    BY <1>1, <1>3, <1>4 DEF ReceiptsTruthful
  <2>2. \A r, s \in receipts' :
          r.job = s.job /\ (r.token = s.token \/ r.attempt = s.attempt) => r = s
    BY <1>1, <1>4 DEF ReceiptsTruthful
  <2>3. ASSUME NEW k \in D, jobs'[k].state = "Leased"
        PROVE  \E r \in receipts' : /\ r.job = k
                                    /\ r.token = jobs'[k].token
                                    /\ r.attempt = jobs'[k].attempt
                                    /\ r.worker = jobs'[k].worker
                                    /\ r.expiry = jobs'[k].expiry
    <3>1. PICK r \in receipts : /\ r.job = k
                                /\ r.token = jobs[k].token
                                /\ r.attempt = jobs[k].attempt
                                /\ r.worker = jobs[k].worker
                                /\ r.expiry = jobs[k].expiry
      BY <1>1, <1>3, <2>3 DEF ReceiptsTruthful
    <3>2. Moved(r) \in receipts'
      BY <1>1
    <3> QED
      BY <1>1, <1>3, <1>4, <3>1, <3>2
  <2> QED
    BY <1>1, <1>3, <2>1, <2>2, <2>3 DEF ReceiptsTruthful
<1> QED
  BY <1>5, <1>6, <1>7, <1>8, <1>9, <1>10, <1>11, <1>12

(* The receipts a claim writes: one for each job it leases. *)
LEMMA ReceiptsOfClaim ==
  ASSUME NEW L, NEW tx, NEW w, NEW expiry
  PROVE  /\ \A r \in ClaimReceipts(L, tx, w, expiry) :
              /\ r.tx = tx /\ r.job \in L /\ r.token = Token(tx, r.job)
              /\ r.attempt = jobs[r.job].attempt + 1
              /\ r.worker = w /\ r.expiry = expiry
         /\ \A r, s \in ClaimReceipts(L, tx, w, expiry) : r.job = s.job => r = s
         /\ \A k \in L : \E r \in ClaimReceipts(L, tx, w, expiry) : r.job = k
<1> DEFINE R(k) == [tx |-> tx, job |-> k, token |-> Token(tx, k),
                    attempt |-> jobs[k].attempt + 1, worker |-> w, expiry |-> expiry]
<1>1. ClaimReceipts(L, tx, w, expiry) = {R(k) : k \in L}
  BY DEF ClaimReceipts
<1>2. \A k : /\ R(k).tx = tx /\ R(k).job = k /\ R(k).token = Token(tx, k)
             /\ R(k).attempt = jobs[k].attempt + 1
             /\ R(k).worker = w /\ R(k).expiry = expiry
  OBVIOUS
<1> HIDE DEF R
<1> QED
  BY <1>1, <1>2

(* What a claim plans: to repair leased rows of its queue that have expired *)
(* and to lease the heads of some of its partitions, and those rows differ. *)
LEMMA ClaimPlans ==
  ASSUME NEW q, NEW now, NEW limit, NEW M \in MaintenancePlans(jobs, q, now, MaintenanceLimit)
  PROVE  LET L == LeasePlan(jobs, active, cursor[q], q, now, limit)
         IN  /\ M \subseteq DOMAIN jobs /\ L \subseteq DOMAIN jobs
             /\ \A k \in M : /\ jobs[k].spec.queue = q /\ jobs[k].state = "Leased"
                             /\ jobs[k].expiry < now
             /\ \A k \in L : /\ jobs[k].spec.queue = q /\ IsHead(jobs, k)
                             /\ jobs[k].state \in {"Pending", "RetryWait"}
             /\ M \cap L = {}
<1>1. /\ M \subseteq DOMAIN jobs
      /\ \A k \in M : /\ jobs[k].spec.queue = q /\ jobs[k].state = "Leased"
                      /\ jobs[k].expiry < now
  BY DEF MaintenancePlans, ExpiredIn
<1> QED
  BY <1>1 DEF LeasePlan, Ready

(* What a claim does to the rows it repairs, to those it leases and to the  *)
(* others.                                                                  *)
ClaimedRows(w, expiry, M, L) ==
  /\ DOMAIN jobs' = DOMAIN jobs
  /\ jobs' \in [DOMAIN jobs -> RowType]
  /\ \A k \in DOMAIN jobs :
       /\ jobs'[k].spec = jobs[k].spec /\ jobs'[k].seq = jobs[k].seq
       /\ PartitionOf(jobs'[k]) = PartitionOf(jobs[k])
  /\ \A k \in L :
       /\ Token(lastTx + 1, k) \in Tokens
       /\ jobs'[k].attempt = jobs[k].attempt + 1
       /\ jobs'[k].state = "Leased" /\ jobs'[k].token = Token(lastTx + 1, k)
       /\ jobs'[k].worker = w /\ jobs'[k].expiry = expiry
       /\ jobs'[k].retryAfter = NULL
  /\ \A k \in M :
       /\ RepairTarget(jobs[k]) \in {"Uncertain", "Dead", "Pending"}
       /\ jobs'[k].attempt = jobs[k].attempt
       /\ jobs'[k].state = RepairTarget(jobs[k]) /\ jobs'[k].token = NULL
       /\ jobs'[k].worker = NULL /\ jobs'[k].expiry = NULL
       /\ jobs'[k].retryAfter = NULL
  /\ \A k \in DOMAIN jobs \ (M \cup L) : jobs'[k] = jobs[k]

(* A claim does that and nothing else to the rows. *)
LEMMA ClaimRows ==
  ASSUME TypeOK, NEW q, NEW w \in Workers, NEW expiry \in Times, NEW M, NEW L,
         M \subseteq DOMAIN jobs, L \subseteq DOMAIN jobs, M \cap L = {},
         ClaimWith(q, w, expiry, M, L)
  PROVE  ClaimedRows(w, expiry, M, L)
<1> DEFINE D == DOMAIN jobs
           tx == lastTx + 1
<1>1. jobs \in [D -> RowType] /\ tx \in Nat
  BY DEF TypeOK
<1>2. jobs' = Claimed(M, L, tx, w, expiry)
  BY DEF ClaimWith
<1>3. DOMAIN jobs' = D
  BY <1>2 DEF Claimed
<1>4. ASSUME NEW k \in L
      PROVE  /\ Token(tx, k) \in Tokens
             /\ jobs'[k] \in RowType
             /\ jobs'[k].spec = jobs[k].spec /\ jobs'[k].seq = jobs[k].seq
             /\ jobs'[k].attempt = jobs[k].attempt + 1
             /\ jobs'[k].state = "Leased" /\ jobs'[k].token = Token(tx, k)
             /\ jobs'[k].worker = w /\ jobs'[k].expiry = expiry
             /\ jobs'[k].retryAfter = NULL
  <2>1. Token(tx, k) \in Tokens
    BY <1>1 DEF Token, Tokens, TypeOK
  <2>2. jobs'[k] = Grant(jobs[k], Token(tx, k), w, expiry)
    BY <1>2 DEF Claimed
  <2> QED
    BY <1>1, <2>1, <2>2, GrantRow
<1>5. ASSUME NEW k \in M
      PROVE  /\ RepairTarget(jobs[k]) \in {"Uncertain", "Dead", "Pending"}
             /\ jobs'[k] \in RowType
             /\ jobs'[k].spec = jobs[k].spec /\ jobs'[k].seq = jobs[k].seq
             /\ jobs'[k].attempt = jobs[k].attempt
             /\ jobs'[k].state = RepairTarget(jobs[k]) /\ jobs'[k].token = NULL
             /\ jobs'[k].worker = NULL /\ jobs'[k].expiry = NULL
             /\ jobs'[k].retryAfter = NULL
  <2>1. RepairTarget(jobs[k]) \in {"Uncertain", "Dead", "Pending"}
    BY DEF RepairTarget
  <2>2. jobs'[k] = Unlease(jobs[k], RepairTarget(jobs[k]), NULL)
    BY <1>2 DEF Claimed
  <2>3. RepairTarget(jobs[k]) \in States
    BY <2>1 DEF States, ActiveStates, TerminalStates
  <2> QED
    BY <1>1, <2>1, <2>2, <2>3, UnleaseRow
<1>6. \A k \in D \ (M \cup L) : jobs'[k] = jobs[k]
  BY <1>2 DEF Claimed
<1>7. \A k \in D : /\ jobs'[k] \in RowType
                   /\ jobs'[k].spec = jobs[k].spec /\ jobs'[k].seq = jobs[k].seq
                   /\ PartitionOf(jobs'[k]) = PartitionOf(jobs[k])
  BY <1>1, <1>4, <1>5, <1>6 DEF PartitionOf
<1>8. jobs' \in [D -> RowType]
  <2>1. jobs' = [k \in D |-> jobs'[k]]
    BY <1>2 DEF Claimed
  <2> QED
    BY <1>7, <2>1
<1> HIDE DEF D, tx
<1> QED
  BY <1>3, <1>4, <1>5, <1>6, <1>7, <1>8 DEF D, tx, ClaimedRows

(* A claim preserves the invariant: it repairs leased rows, and leases only *)
(* heads of partitions that are not exhausted, under a fresh id.            *)
LEMMA ClaimInv ==
  ASSUME IInv, NEW q \in Queues, NEW w \in Workers, NEW now \in Times,
         NEW len \in LeaseLengths, NEW limit \in ClaimLimits,
         ClaimJobs(q, w, now, len, limit)
  PROVE  IInv'
<1> USE DEF IInv
<1> DEFINE D == DOMAIN jobs
           L == LeasePlan(jobs, active, cursor[q], q, now, limit)
           expiry == now + len
           tx == lastTx + 1
<1>1. PICK M \in MaintenancePlans(jobs, q, now, MaintenanceLimit) :
         expiry <= MaxTime /\ ClaimWith(q, w, expiry, M, L)
  BY DEF ClaimJobs
<1>2. /\ M \subseteq D
      /\ \A k \in M : jobs[k].state = "Leased"
  BY ClaimPlans
<1>3. /\ L \subseteq D /\ M \cap L = {}
      /\ \A k \in L : IsHead(jobs, k) /\ jobs[k].state \in {"Pending", "RetryWait"}
  BY ClaimPlans
<1>4. expiry \in Times /\ lastTx \in Nat /\ tx \in Nat
  BY <1>1, StoreAssumption DEF Times, TypeOK
<1>5. jobs \in [D -> RowType]
  BY DEF TypeOK
<1>6. /\ active' = Drain(jobs', active, {k \in M : jobs'[k].state = "Dead"})
      /\ receipts' = receipts \cup ClaimReceipts(L, tx, w, expiry)
      /\ \E p \in NextCursors(jobs, cursor[q], L) : cursor' = [cursor EXCEPT ![q] = p]
      /\ lastTx' = tx
      /\ claimTxs' = claimTxs \cup {tx}
      /\ UNCHANGED <<lastSeq, lost>>
  BY <1>1 DEF ClaimWith
<1> HIDE DEF L
<1>7. /\ DOMAIN jobs' = D
      /\ jobs' \in [D -> RowType]
      /\ \A k \in D : /\ jobs'[k].spec = jobs[k].spec /\ jobs'[k].seq = jobs[k].seq
                      /\ PartitionOf(jobs'[k]) = PartitionOf(jobs[k])
      /\ \A k \in L : /\ Token(tx, k) \in Tokens
                      /\ jobs'[k].attempt = jobs[k].attempt + 1
                      /\ jobs'[k].state = "Leased" /\ jobs'[k].token = Token(tx, k)
                      /\ jobs'[k].worker = w /\ jobs'[k].expiry = expiry
                      /\ jobs'[k].retryAfter = NULL
      /\ \A k \in M : /\ RepairTarget(jobs[k]) \in {"Uncertain", "Dead", "Pending"}
                      /\ jobs'[k].attempt = jobs[k].attempt
                      /\ jobs'[k].state = RepairTarget(jobs[k]) /\ jobs'[k].token = NULL
                      /\ jobs'[k].worker = NULL /\ jobs'[k].expiry = NULL
                      /\ jobs'[k].retryAfter = NULL
      /\ \A k \in D \ (M \cup L) : jobs'[k] = jobs[k]
  <2>1. ClaimedRows(w, expiry, M, L)
    BY <1>1, <1>2, <1>3, <1>4, ClaimRows
  <2> QED
    BY <2>1 DEF ClaimedRows
<1>8. \A k \in D : jobs'[k].state \in ActiveStates => jobs[k].state \in ActiveStates
  BY <1>2, <1>3, <1>7 DEF ActiveStates
<1>9. TypeOK'
  <2>1. active' \subseteq active
    BY <1>6 DEF Drain
  <2>2. cursor' \in [Queues -> Partitions \cup {0}]
    <3>1. NextCursors(jobs, cursor[q], L) \subseteq Partitions \cup {0}
      <4>1. \A k \in L : jobs[k].spec.partition \in Partitions
        BY <1>3, <1>5, TableAssumption DEF RowType, SpecType
      <4>2. cursor[q] \in Partitions \cup {0}
        BY DEF TypeOK
      <4> QED
        BY <4>1, <4>2 DEF NextCursors
    <3> QED
      BY <1>6, <3>1 DEF TypeOK
  <2>3. receipts' \subseteq ReceiptType
    <3>1. \A k \in L : jobs[k].attempt + 1 \in Nat /\ k \in JobIds
      BY <1>3, <1>5 DEF RowType, TypeOK
    <3>2. ClaimReceipts(L, tx, w, expiry) \subseteq ReceiptType
      BY <1>3, <1>4, <1>7, <3>1 DEF ClaimReceipts, ReceiptType
    <3> QED
      BY <1>6, <3>2 DEF TypeOK
  <2> QED
    BY <1>4, <1>6, <1>7, <2>1, <2>2, <2>3 DEF TypeOK
<1>10. LeaseColumns'
  <2>1. \A k \in L : NULL \notin {jobs'[k].token, jobs'[k].worker, jobs'[k].expiry}
    BY <1>3, <1>4, <1>7, TableAssumption DEF Tokens
  <2>2. \A k \in M : jobs'[k].state # "Leased" /\ jobs'[k].state # "RetryWait"
    BY <1>7
  <2> QED
    BY <1>7, <2>1, <2>2 DEF LeaseColumns
<1>11. SeqsUnique'
  BY <1>6, <1>7 DEF SeqsUnique
<1>12. PartitionFIFO'
  <2> SUFFICES ASSUME NEW a \in D, NEW b \in D,
                      PartitionOf(jobs'[a]) = PartitionOf(jobs'[b]),
                      jobs'[a].state \in ActiveStates,
                      jobs'[b].state \in ActiveStates,
                      jobs'[a].seq < jobs'[b].seq
               PROVE  jobs'[b].state = "Pending" /\ jobs'[b].attempt = 0
    BY <1>7 DEF PartitionFIFO
  <2>1. /\ PartitionOf(jobs[a]) = PartitionOf(jobs[b])
        /\ jobs[a].state \in ActiveStates
        /\ jobs[b].state \in ActiveStates
        /\ jobs[a].seq < jobs[b].seq
    BY <1>7, <1>8
  <2>2. jobs[b].state = "Pending" /\ jobs[b].attempt = 0
    BY <2>1 DEF PartitionFIFO
  <2>3. b \notin M
    BY <1>2, <2>2
  <2>4. b \notin L
    <3>1. a \in ActiveIn(jobs, PartitionOf(jobs[b]))
      BY <2>1 DEF ActiveIn, InPartition
    <3>2. ~IsHead(jobs, b)
      <4>1. jobs[a].seq \in Nat /\ jobs[b].seq \in Nat
        BY <1>5 DEF RowType
      <4> QED
        BY <2>1, <3>1, <4>1 DEF IsHead
    <3> QED
      BY <1>3, <3>2
  <2> QED
    BY <1>7, <2>2, <2>3, <2>4
<1>13. ActivePartitionsExact'
  <2> DEFINE S == {k \in M : jobs'[k].state = "Dead"}
  <2>1. /\ S \in SUBSET D
        /\ \A k \in S : jobs[k].state \in ActiveStates
    BY <1>2 DEF ActiveStates
  <2>2. ASSUME NEW k \in D \ S
        PROVE  jobs'[k].state \in ActiveStates <=> jobs[k].state \in ActiveStates
    <3>1. CASE k \in M
      BY <1>2, <1>7, <2>2, <3>1 DEF ActiveStates
    <3>2. CASE k \in L
      BY <1>3, <1>7, <3>2 DEF ActiveStates
    <3> QED
      BY <1>7, <3>1, <3>2
  <2> QED
    BY <1>6, <1>7, <1>7, <2>1, <2>2, DrainExact
<1>14. AttemptsBounded'
  <2>1. \A k \in D : jobs[k].attempt \in Nat /\ jobs[k].spec.maxAttempts \in Nat
    BY <1>5, TableAssumption DEF RowType, SpecType
  <2>2. \A k \in L : jobs[k].attempt < jobs[k].spec.maxAttempts
    BY <1>3, <2>1 DEF AttemptsBounded, Exhausted
  <2>3. \A k \in M : RepairTarget(jobs[k]) = "Pending" => ~Exhausted(jobs[k])
    BY DEF RepairTarget
  <2> QED
    BY <1>2, <1>3, <1>7, <2>1, <2>2, <2>3 DEF AttemptsBounded, Exhausted
<1>15. /\ \A r \in ClaimReceipts(L, tx, w, expiry) :
             /\ r.tx = tx /\ r.job \in L /\ r.token = Token(tx, r.job)
             /\ r.attempt = jobs[r.job].attempt + 1
             /\ r.worker = w /\ r.expiry = expiry
       /\ \A r, s \in ClaimReceipts(L, tx, w, expiry) : r.job = s.job => r = s
       /\ \A k \in L : \E r \in ClaimReceipts(L, tx, w, expiry) : r.job = k
  BY ReceiptsOfClaim
<1>16. TokensFresh'
  BY <1>4, <1>6, <1>15 DEF TokensFresh, Token, TypeOK
<1>17. ReceiptsTruthful'
  <2>1. \A k \in D : jobs[k].attempt \in Nat /\ jobs'[k].attempt \in Nat
    BY <1>5, <1>7 DEF RowType
  <2>2. \A k \in D : jobs[k].attempt <= jobs'[k].attempt
    BY <1>7, <2>1
  <2>3. \A r \in receipts' : /\ r.tx \in claimTxs'
                             /\ r.job \in DOMAIN jobs'
                             /\ r.attempt \in 1..jobs'[r.job].attempt
    <3>1. \A r \in receipts : r.attempt \in Nat
      BY DEF TypeOK, ReceiptType
    <3> QED
      BY <1>3, <1>6, <1>7, <1>15, <2>1, <2>2, <3>1 DEF ReceiptsTruthful
  <2>4. ASSUME NEW r \in receipts, NEW s \in ClaimReceipts(L, tx, w, expiry), r.job = s.job
        PROVE  r.token # s.token /\ r.attempt # s.attempt
    <3>1. r.tx \in Nat /\ r.tx <= lastTx
      BY DEF TokensFresh, ReceiptsTruthful, TypeOK
    <3>2. r.tx # tx
      BY <1>4, <3>1
    <3>3. r.token = Token(r.tx, r.job) /\ s.token = Token(tx, s.job)
      BY <1>15 DEF TokensFresh
    <3>4. r.attempt \in Nat /\ r.attempt <= jobs[r.job].attempt
      BY DEF ReceiptsTruthful, TypeOK, ReceiptType
    <3> QED
      BY <1>3, <1>15, <2>1, <2>4, <3>2, <3>3, <3>4 DEF Token
  <2>5. \A r, s \in receipts' :
          r.job = s.job /\ (r.token = s.token \/ r.attempt = s.attempt) => r = s
    BY <1>6, <1>15, <2>4 DEF ReceiptsTruthful
  <2>6. ASSUME NEW k \in D, jobs'[k].state = "Leased"
        PROVE  \E r \in receipts' : /\ r.job = k
                                    /\ r.token = jobs'[k].token
                                    /\ r.attempt = jobs'[k].attempt
                                    /\ r.worker = jobs'[k].worker
                                    /\ r.expiry = jobs'[k].expiry
    <3>1. CASE k \in L
      BY <1>6, <1>7, <1>15, <3>1
    <3>2. CASE k \notin L
      <4>1. jobs'[k] = jobs[k]
        BY <1>7, <2>6, <3>2
      <4> QED
        BY <1>6, <2>6, <4>1 DEF ReceiptsTruthful
    <3> QED
      BY <3>1, <3>2
  <2> QED
    BY <1>7, <2>3, <2>5, <2>6 DEF ReceiptsTruthful
<1> QED
  BY <1>9, <1>10, <1>11, <1>12, <1>13, <1>14, <1>16, <1>17

----------------------------------------------------------------------------
(* The invariant of the specification                                      *)

(* The empty database satisfies the invariant. *)
LEMMA InitInv == Init => IInv
<1> SUFFICES ASSUME Init PROVE IInv
  OBVIOUS
<1>1. DOMAIN jobs = {} /\ jobs \in [DOMAIN jobs -> RowType]
  BY DEF Init
<1>2. TypeOK
  BY <1>1 DEF Init, TypeOK
<1> QED
  BY <1>1, <1>2
     DEF Init, IInv, LeaseColumns, SeqsUnique, PartitionFIFO, ActivePartitionsExact,
         AttemptsBounded, TokensFresh, ReceiptsTruthful

(* A claim that did not persist only uses up an id. *)
LEMMA LostInv ==
  ASSUME IInv, NEW q, NEW now, NEW len, NEW limit, ClaimLost(q, now, len, limit)
  PROVE  IInv'
<1> USE DEF IInv
<1>1. /\ lastTx \in Nat /\ lost \in Nat /\ claimTxs \subseteq Nat
      /\ lastTx' = lastTx + 1 /\ lost' = lost + 1
      /\ UNCHANGED <<jobs, lastSeq, active, cursor, receipts, claimTxs>>
  BY DEF TypeOK, ClaimLost
<1>2. TypeOK'
  BY <1>1 DEF TypeOK
<1>3. TokensFresh'
  BY <1>1 DEF TokensFresh, Token
<1> QED
  BY <1>1, <1>2, <1>3
     DEF LeaseColumns, SeqsUnique, PartitionFIFO, ActivePartitionsExact,
         AttemptsBounded, ReceiptsTruthful, PartitionOf, Exhausted

(* Every step of the store is one of six kinds. *)
LEMMA StepCases ==
  ASSUME TypeOK, LeaseColumns, [Next]_vars
  PROVE  \/ \E j \in JobIds, spec \in JobSpecs : EnqueueJob(j, spec)
         \/ \E j \in JobIds, s \in States, retry \in Times \cup {NULL} : SettleStep(j, s, retry)
         \/ \E j \in JobIds, token \in Tokens, newExpiry \in Times, now \in Times :
              ExtendLease(j, token, newExpiry, now)
         \/ \E q \in Queues, w \in Workers, now \in Times, len \in LeaseLengths,
               limit \in ClaimLimits : ClaimJobs(q, w, now, len, limit)
         \/ \E q \in Queues, now \in Times, len \in LeaseLengths, limit \in ClaimLimits :
              ClaimLost(q, now, len, limit)
         \/ UNCHANGED vars
<1> DEFINE Settles == \E j \in JobIds, s \in States, retry \in Times \cup {NULL} :
                        SettleStep(j, s, retry)
<1>1. \A jt \in Issued : jt[1] \in JobIds /\ jt[2] \in Tokens
  BY DEF TypeOK, ReceiptType, Issued
<1>2. ASSUME NEW jt \in Issued, AckJob(jt[1], jt[2])
      PROVE  Settles
  BY <1>1, <1>2, AckSettles DEF States, TerminalStates
<1>3. ASSUME NEW jt \in Issued, NEW retry \in Times \cup {NULL}, NEW now \in Times,
             FailJob(jt[1], jt[2], retry, now)
      PROVE  Settles
  <2>1. \E s \in States, again \in Times \cup {NULL} : SettleStep(jt[1], s, again)
    BY <1>1, <1>3, FailSettles
  <2> QED
    BY <1>1, <2>1
<1>4. ASSUME NEW j \in JobIds, CancelJob(j, NULL)
      PROVE  Settles
  BY <1>4, CancelSettles DEF States, TerminalStates
<1>5. ASSUME NEW jt \in Issued, CancelJob(jt[1], jt[2])
      PROVE  Settles
  BY <1>1, <1>5, CancelSettles DEF States, TerminalStates
<1>6. ASSUME NEW j \in JobIds, NEW resolution \in Resolutions, ResolveJob(j, resolution)
      PROVE  Settles
  BY <1>6, ResolveSettles
<1> HIDE DEF Settles
<1>7. ASSUME NEW jt \in Issued, NEW newExpiry \in Times, NEW now \in Times,
             ExtendLease(jt[1], jt[2], newExpiry, now)
      PROVE  \E j \in JobIds, token \in Tokens, e \in Times, n \in Times :
               ExtendLease(j, token, e, n)
  BY <1>1, <1>7
<1> QED
  BY <1>2, <1>3, <1>4, <1>5, <1>6, <1>7 DEF Next, Settles

(* Every step preserves the invariant. *)
LEMMA NextInv == IInv /\ [Next]_vars => IInv'
<1> SUFFICES ASSUME IInv, [Next]_vars PROVE IInv'
  OBVIOUS
<1>1. ASSUME UNCHANGED vars
      PROVE  IInv'
  <2>1. /\ jobs' = jobs /\ lastSeq' = lastSeq /\ active' = active /\ cursor' = cursor
        /\ receipts' = receipts /\ claimTxs' = claimTxs /\ lastTx' = lastTx /\ lost' = lost
    BY <1>1 DEF vars
  <2>2. TypeOK' /\ LeaseColumns' /\ SeqsUnique' /\ TokensFresh' /\ ReceiptsTruthful'
    BY <2>1 DEF IInv, TypeOK, LeaseColumns, SeqsUnique, TokensFresh, ReceiptsTruthful, Token
  <2>3. PartitionFIFO' /\ ActivePartitionsExact' /\ AttemptsBounded'
    BY <2>1 DEF IInv, PartitionFIFO, ActivePartitionsExact, AttemptsBounded, PartitionOf,
       Exhausted
  <2> QED
    BY <2>2, <2>3 DEF IInv
<1>2. TypeOK /\ LeaseColumns
  BY DEF IInv
<1> QED
  BY <1>1, <1>2, StepCases, EnqueueInv, SettleInv, ExtendInv, ClaimInv, LostInv

(* The inductive invariant holds throughout every behaviour of the store. *)
THEOREM StoreInvariant == Spec => []IInv
BY InitInv, NextInv, PTL DEF Spec

(* The tables always have the types the code reads them with. *)
THEOREM StoreTypes == Spec => []TypeOK
<1>1. IInv => TypeOK
  BY DEF IInv
<1> QED
  BY <1>1, StoreInvariant, PTL

(* Partitions are served in enqueue order, for any number of jobs, queues,  *)
(* partitions and workers, and whatever times and tokens callers present.   *)
THEOREM PartitionsServedInOrder == Spec => []PartitionFIFO
<1>1. IInv => PartitionFIFO
  BY DEF IInv
<1> QED
  BY <1>1, StoreInvariant, PTL

(* active_partitions is always exact: no claim overlooks a partition with   *)
(* work, and none visits a drained one.                                     *)
THEOREM ActivePartitionsAreExact == Spec => []ActivePartitionsExact
<1>1. IInv => ActivePartitionsExact
  BY DEF IInv
<1> QED
  BY <1>1, StoreInvariant, PTL

(* No job is ever leased more often than its max_attempts. *)
THEOREM AttemptsNeverExceeded == Spec => []AttemptsBounded
<1>1. IInv => AttemptsBounded
  BY DEF IInv
<1> QED
  BY <1>1, StoreInvariant, PTL

(* The claim receipts are the truthful history of the leases. *)
THEOREM ReceiptsAreTruthful == Spec => [](LeaseColumns /\ ReceiptsTruthful)
<1>1. IInv => LeaseColumns /\ ReceiptsTruthful
  BY DEF IInv
<1> QED
  BY <1>1, StoreInvariant, PTL

----------------------------------------------------------------------------
(* recover_claim                                                           *)

(* What recover_claim hands out: receipts of that claim under which the job *)
(* is leased at that time.                                                  *)
LEMMA RecoveredLeases ==
  ASSUME ReceiptsTruthful, NEW tx, NEW now
  PROVE  /\ RecoverClaim(tx, now).result = "Absent" <=> tx \notin claimTxs
         /\ RecoverClaim(tx, now).leases = {r \in ReceiptsOf(tx) : StillCurrent(r, now)}
<1> DEFINE R == ReceiptsOf(tx)
<1>1. R # {} => tx \in claimTxs
  BY DEF ReceiptsOf, ReceiptsTruthful
<1>2. CASE R # {}
  BY <1>1, <1>2 DEF RecoverClaim
<1>3. CASE R = {}
  BY <1>3 DEF RecoverClaim
<1> QED
  BY <1>2, <1>3

(* recover_claim tells the truth in every state of the store: the receipt   *)
(* of the lease a row is under belongs to one claim, and no other receipt   *)
(* of the job is current.                                                   *)
THEOREM RecoveryIsSound == Spec => []RecoverySound
<1>1. IInv => RecoverySound
  <2> SUFFICES ASSUME IInv, NEW now \in Times
               PROVE  /\ \A tx \in 1..lastTx :
                           RecoverClaim(tx, now).result = "Absent" <=> tx \notin claimTxs
                      /\ \A j \in DOMAIN jobs :
                           jobs[j].state = "Leased" /\ jobs[j].expiry >= now =>
                             \E tx \in claimTxs : \A other \in claimTxs :
                               {<<r.worker, r.expiry>> :
                                  r \in {s \in RecoverClaim(other, now).leases : s.job = j}}
                                 = IF other = tx THEN {<<jobs[j].worker, jobs[j].expiry>>} ELSE {}
    BY DEF RecoverySound
  <2>1. ReceiptsTruthful
    BY DEF IInv
  <2>2. \A tx \in 1..lastTx : RecoverClaim(tx, now).result = "Absent" <=> tx \notin claimTxs
    BY <2>1, RecoveredLeases
  <2>3. ASSUME NEW j \in DOMAIN jobs, jobs[j].state = "Leased", jobs[j].expiry >= now
        PROVE  \E tx \in claimTxs : \A other \in claimTxs :
                 {<<r.worker, r.expiry>> :
                    r \in {s \in RecoverClaim(other, now).leases : s.job = j}}
                   = IF other = tx THEN {<<jobs[j].worker, jobs[j].expiry>>} ELSE {}
    <3>1. PICK c \in receipts : /\ c.job = j /\ c.token = jobs[j].token
                                /\ c.worker = jobs[j].worker /\ c.expiry = jobs[j].expiry
      BY <2>1, <2>3 DEF ReceiptsTruthful
    <3>2. c.tx \in claimTxs
      BY <2>1 DEF ReceiptsTruthful
    <3>3. ASSUME NEW other \in claimTxs
          PROVE  {s \in RecoverClaim(other, now).leases : s.job = j}
                   = IF other = c.tx THEN {c} ELSE {}
      <4>1. \A s \in receipts : s.job = j /\ s.token = c.token => s = c
        BY <2>1, <3>1 DEF ReceiptsTruthful
      <4>2. RecoverClaim(other, now).leases
              = {s \in receipts : s.tx = other /\ s.job \in DOMAIN jobs /\ StillCurrent(s, now)}
        BY <2>1, RecoveredLeases DEF ReceiptsOf
      <4>3. StillCurrent(c, now)
        BY <2>3, <3>1 DEF StillCurrent
      <4>4. \A s : s.job = j /\ StillCurrent(s, now) => s.token = c.token
        BY <3>1 DEF StillCurrent
      <4> QED
        BY <3>1, <4>1, <4>2, <4>3, <4>4
    <3> QED
      BY <3>1, <3>2, <3>3
  <2> QED
    BY <2>2, <2>3
<1> QED
  BY <1>1, StoreInvariant, PTL

----------------------------------------------------------------------------
(* The rotation of the claims                                              *)

(* The table is finite, however many job identifiers there are. *)
LEMMA FiniteTable == Spec => []IsFiniteSet(DOMAIN jobs)
<1>1. Init => IsFiniteSet(DOMAIN jobs)
  <2> SUFFICES ASSUME Init PROVE DOMAIN jobs = {}
    BY FS_EmptySet
  <2> QED
    BY DEF Init
<1>2. ASSUME IInv, IsFiniteSet(DOMAIN jobs), [Next]_vars
      PROVE  IsFiniteSet(DOMAIN jobs)'
  <2>1. TypeOK /\ LeaseColumns
    BY <1>2 DEF IInv
  <2>2. ASSUME NEW j \in JobIds, NEW spec \in JobSpecs, EnqueueJob(j, spec)
        PROVE  DOMAIN jobs' = DOMAIN jobs \cup {j}
    BY <2>2 DEF EnqueueJob, Enqueue
  <2>3. ASSUME NEW j, NEW s, NEW retry, SettleStep(j, s, retry)
        PROVE  DOMAIN jobs' = DOMAIN jobs
    BY <2>1, <2>3, SettleRows
  <2>4. ASSUME NEW j, NEW token, NEW newExpiry, NEW now, ExtendLease(j, token, newExpiry, now)
        PROVE  DOMAIN jobs' = DOMAIN jobs
    BY <2>4 DEF ExtendLease, Extend
  <2>5. ASSUME NEW q, NEW w, NEW now, NEW len, NEW limit, ClaimJobs(q, w, now, len, limit)
        PROVE  DOMAIN jobs' = DOMAIN jobs
    BY <2>5 DEF ClaimJobs, ClaimWith, Claimed
  <2>6. \/ DOMAIN jobs' = DOMAIN jobs
        \/ \E j \in JobIds : DOMAIN jobs' = DOMAIN jobs \cup {j}
    BY <1>2, <2>1, <2>2, <2>3, <2>4, <2>5, StepCases DEF ClaimLost, vars
  <2> QED
    BY <1>2, <2>6, FS_AddElement
<1> QED
  BY <1>1, <1>2, StoreInvariant, PTL DEF Spec

(* The scan visits partitions in a total order. *)
LEMMA VisitedBeforeOrder ==
  ASSUME NEW c \in Nat, NEW p \in Nat, NEW r \in Nat
  PROVE  /\ ~VisitedBefore(c, p, p)
         /\ p = r \/ VisitedBefore(c, p, r) \/ VisitedBefore(c, r, p)
         /\ \A s \in Nat : VisitedBefore(c, p, r) /\ VisitedBefore(c, r, s) => VisitedBefore(c, p, s)
BY DEF VisitedBefore

(* Going on from a partition that the scan visits before p leaves fewer     *)
(* partitions before p.                                                     *)
LEMMA BetweenShrinks ==
  ASSUME NEW c \in Nat, NEW n \in Partitions, NEW p \in Partitions, VisitedBefore(c, n, p)
  PROVE  Between(n, p) \subseteq Between(c, p) /\ Between(n, p) # Between(c, p)
<1>1. Partitions \subseteq Nat
  BY TableAssumption
<1>2. n \in Between(c, p) /\ n \notin Between(n, p)
  BY <1>1 DEF VisitedBefore, Between
<1>3. ASSUME NEW r \in Partitions,
             IF n < p THEN n < r /\ r < p ELSE r > n \/ r < p
      PROVE  IF c < p THEN c < r /\ r < p ELSE r > c \/ r < p
  <2>1. n \in Nat /\ p \in Nat /\ r \in Nat
    BY <1>1
  <2>2. \/ n > c /\ p <= c
        \/ (n > c <=> p > c) /\ n < p
    BY DEF VisitedBefore
  <2> QED
    BY <1>3, <2>1, <2>2
<1>4. Between(n, p) \subseteq Between(c, p)
  BY <1>3 DEF Between
<1> QED
  BY <1>2, <1>4

(* The heads that a claim finds ready, and those it visits before job j *)
ReadyHeads(q, now) ==
  {j \in DOMAIN jobs : /\ jobs[j].spec.queue = q
                       /\ PartitionOf(jobs[j]) \in active
                       /\ IsHead(jobs, j)
                       /\ Ready(jobs[j], now)}

VisitedEarlier(q, now, j) ==
  {k \in ReadyHeads(q, now) :
     VisitedBefore(cursor[q], jobs[k].spec.partition, jobs[j].spec.partition)}

(* A ready head that a claim passes over is visited after all that it       *)
(* leases: the limit cuts the scan off, it does not choose.                 *)
LEMMA PassedOverLater ==
  ASSUME IInv, IsFiniteSet(DOMAIN jobs), NEW q \in Queues, NEW now, NEW limit \in Nat,
         NEW l \in LeasePlan(jobs, active, cursor[q], q, now, limit),
         NEW j \in ReadyHeads(q, now) \ LeasePlan(jobs, active, cursor[q], q, now, limit)
  PROVE  VisitedBefore(cursor[q], jobs[l].spec.partition, jobs[j].spec.partition)
<1> DEFINE R == ReadyHeads(q, now)
           P(k) == jobs[k].spec.partition
           E(k) == VisitedEarlier(q, now, k)
<1>1. LeasePlan(jobs, active, cursor[q], q, now, limit) = {k \in R : Cardinality(E(k)) < limit}
  BY DEF LeasePlan, ReadyHeads, VisitedEarlier
<1>2. /\ l \in R /\ Cardinality(E(l)) < limit
      /\ j \in R /\ ~(Cardinality(E(j)) < limit)
  BY <1>1
<1>3. /\ cursor[q] \in Nat
      /\ \A k \in DOMAIN jobs : P(k) \in Nat /\ jobs[k].seq \in Nat
  BY TableAssumption DEF IInv, TypeOK, RowType, SpecType
<1>4. P(l) # P(j)
  <2> SUFFICES ASSUME P(l) = P(j) PROVE FALSE
    OBVIOUS
  <2>1. PartitionOf(jobs[l]) = PartitionOf(jobs[j])
    BY <1>2 DEF ReadyHeads, PartitionOf
  <2>2. jobs[l].seq <= jobs[j].seq /\ jobs[j].seq <= jobs[l].seq
    BY <1>2, <2>1 DEF ReadyHeads, IsHead, ActiveIn, InPartition
  <2> QED
    BY <1>2, <1>3, <2>2 DEF IInv, SeqsUnique, ReadyHeads
<1>5. SUFFICES ASSUME VisitedBefore(cursor[q], P(j), P(l)) PROVE FALSE
  BY <1>2, <1>3, <1>4, VisitedBeforeOrder DEF ReadyHeads
<1>6. E(j) \in SUBSET E(l) /\ E(l) \in SUBSET DOMAIN jobs
  <2>1. \A k \in R : VisitedBefore(cursor[q], P(k), P(j)) => VisitedBefore(cursor[q], P(k), P(l))
    BY <1>2, <1>3, <1>5, VisitedBeforeOrder DEF ReadyHeads
  <2> QED
    BY <2>1 DEF VisitedEarlier, ReadyHeads
<1>7. /\ Cardinality(E(j)) <= Cardinality(E(l))
      /\ Cardinality(E(j)) \in Nat /\ Cardinality(E(l)) \in Nat
  BY <1>6, FS_Subset, FS_CardinalityType
<1> QED
  BY <1>2, <1>7

(* Steps that grant nothing leave the cursors; a claim that grants leases   *)
(* moves its queue's to the last of the partitions it granted one in.       *)
LEMMA RotationStep ==
  ASSUME IInv, IsFiniteSet(DOMAIN jobs), [Next]_vars, NEW q \in Queues
  PROVE  /\ ~GrantStep(q) => cursor'[q] = cursor[q]
         /\ GrantStep(q) =>
              \A j \in DOMAIN jobs :
                /\ jobs[j].spec.queue = q
                /\ IsHead(jobs, j)
                /\ Ready(jobs[j], 0)
                /\ jobs'[j].attempt = jobs[j].attempt
                => LET p == jobs[j].spec.partition
                   IN  /\ Between(cursor'[q], p) \subseteq Between(cursor[q], p)
                       /\ Between(cursor'[q], p) # Between(cursor[q], p)
<1> DEFINE D == DOMAIN jobs
           Quiet == /\ cursor' = cursor
                    /\ \A k \in D : jobs'[k].attempt = jobs[k].attempt
<1>1. /\ TypeOK /\ LeaseColumns /\ SeqsUnique /\ ActivePartitionsExact
      /\ jobs \in [D -> RowType] /\ \A k \in D : jobs[k].attempt \in Nat
      /\ cursor \in [Queues -> Partitions \cup {0}]
  BY DEF IInv, TypeOK, RowType
<1>2. ASSUME NEW j \in JobIds, NEW spec, EnqueueJob(j, spec)
      PROVE  Quiet
  BY <1>2 DEF EnqueueJob, EnqueueOk, Enqueue, claimVars
<1>3. ASSUME NEW j, NEW s, NEW retry, SettleStep(j, s, retry)
      PROVE  Quiet
  BY <1>1, <1>3, SettleRows
<1>4. ASSUME NEW j, NEW token, NEW newExpiry, NEW now, ExtendLease(j, token, newExpiry, now)
      PROVE  Quiet
  <2>1. jobs' = [jobs EXCEPT ![j] = [jobs[j] EXCEPT !.expiry = newExpiry]] /\ j \in D
    BY <1>4 DEF ExtendLease, Extend, ExtendOk, HoldsToken
  <2>2. \A k \in D : jobs'[k].attempt = jobs[k].attempt
    BY <1>1, <2>1 DEF RowType
  <2> QED
    BY <1>4, <2>2 DEF ExtendLease
<1>5. ASSUME NEW q0, NEW now, NEW len, NEW limit, ClaimLost(q0, now, len, limit)
      PROVE  Quiet
  BY <1>5 DEF ClaimLost
<1>6. ASSUME UNCHANGED vars
      PROVE  Quiet
  BY <1>6 DEF vars
<1>7. CASE Quiet
  BY <1>1, <1>7 DEF GrantStep
<1>8. ASSUME NEW q0 \in Queues, NEW w \in Workers, NEW now \in Times, NEW len \in LeaseLengths,
             NEW limit \in ClaimLimits, ClaimJobs(q0, w, now, len, limit)
      PROVE  /\ ~GrantStep(q) => cursor'[q] = cursor[q]
             /\ GrantStep(q) =>
                  \A j \in D :
                    /\ jobs[j].spec.queue = q
                    /\ IsHead(jobs, j)
                    /\ Ready(jobs[j], 0)
                    /\ jobs'[j].attempt = jobs[j].attempt
                    => LET p == jobs[j].spec.partition
                       IN  /\ Between(cursor'[q], p) \subseteq Between(cursor[q], p)
                           /\ Between(cursor'[q], p) # Between(cursor[q], p)
  <2> DEFINE L == LeasePlan(jobs, active, cursor[q0], q0, now, limit)
             P(k) == jobs[k].spec.partition
  <2>1. PICK M \in MaintenancePlans(jobs, q0, now, MaintenanceLimit) :
          now + len <= MaxTime /\ ClaimWith(q0, w, now + len, M, L)
    BY <1>8 DEF ClaimJobs
  <2>2. /\ M \subseteq D /\ L \subseteq D /\ M \cap L = {}
        /\ \A k \in L : jobs[k].spec.queue = q0
    BY ClaimPlans
  <2>3. L \subseteq ReadyHeads(q0, now)
    BY DEF LeasePlan, ReadyHeads
  <2>4. PICK n \in NextCursors(jobs, cursor[q0], L) : cursor' = [cursor EXCEPT ![q0] = n]
    BY <2>1 DEF ClaimWith
  <2> HIDE DEF L
  <2>5. now + len \in Times
    BY <2>1, StoreAssumption DEF Times
  <2>6. /\ \A k \in L : jobs'[k].attempt = jobs[k].attempt + 1
        /\ \A k \in D \ L : jobs'[k].attempt = jobs[k].attempt
    <3>1. ClaimedRows(w, now + len, M, L)
      BY <1>1, <2>1, <2>2, <2>5, ClaimRows
    <3> QED
      BY <3>1 DEF ClaimedRows
  <2>7. GrantStep(q) <=> q = q0 /\ L # {}
    BY <1>1, <2>2, <2>6 DEF GrantStep
  <2>8. CASE L = {} \/ q # q0
    BY <1>1, <2>4, <2>7, <2>8 DEF NextCursors
  <2>9. CASE L # {} /\ q = q0
    <3> SUFFICES ASSUME NEW j \in D, jobs[j].spec.queue = q, IsHead(jobs, j),
                        Ready(jobs[j], 0), jobs'[j].attempt = jobs[j].attempt
                 PROVE  /\ Between(cursor'[q], P(j)) \subseteq Between(cursor[q], P(j))
                        /\ Between(cursor'[q], P(j)) # Between(cursor[q], P(j))
      BY <2>7, <2>9
    <3>1. cursor'[q] = n /\ \E l \in L : n = P(l)
      BY <1>1, <2>4, <2>9 DEF NextCursors
    <3>2. PICK l \in L : cursor'[q] = P(l)
      BY <3>1
    <3>3. j \in ReadyHeads(q, now)
      <4>1. PartitionOf(jobs[j]) \in active
        BY <1>1 DEF ActivePartitionsExact, IsHead
      <4>2. Ready(jobs[j], now)
        BY <1>1, TableAssumption DEF Ready, Times, RowType, SpecType, LeaseColumns
      <4> QED
        BY <4>1, <4>2 DEF ReadyHeads
    <3>4. j \notin L
      BY <1>1, <2>6
    <3>5. VisitedBefore(cursor[q], P(l), P(j))
      BY <2>9, <3>3, <3>4, StoreAssumption, PassedOverLater DEF L
    <3>6. cursor[q] \in Nat /\ P(l) \in Partitions /\ P(j) \in Partitions
      BY <1>1, <2>2, TableAssumption DEF RowType, SpecType
    <3> QED
      BY <3>2, <3>5, <3>6, BetweenShrinks
  <2> QED
    BY <2>8, <2>9
<1> HIDE DEF Quiet
<1> QED
  BY <1>1, <1>2, <1>3, <1>4, <1>5, <1>6, <1>7, <1>8, StepCases

(* Round robin, for any number of partitions and any limits: whatever the   *)
(* claims' clocks and limits, each that grants leases and passes over a     *)
(* ready head comes closer to its partition.                                *)
THEOREM RotationMakesProgress == Spec => RotationProgress
<1>1. ASSUME IInv, IsFiniteSet(DOMAIN jobs), [Next]_vars
      PROVE  [\A q \in Queues :
               /\ ~GrantStep(q) => cursor'[q] = cursor[q]
               /\ GrantStep(q) =>
                    \A j \in DOMAIN jobs :
                      LET p == jobs[j].spec.partition
                      IN  /\ jobs[j].spec.queue = q
                          /\ IsHead(jobs, j)
                          /\ Ready(jobs[j], 0)
                          /\ jobs'[j].attempt = jobs[j].attempt
                          => /\ Between(cursor'[q], p) \subseteq Between(cursor[q], p)
                             /\ Between(cursor'[q], p) # Between(cursor[q], p)]_vars
  BY <1>1, RotationStep
<1> QED
  BY <1>1, StoreInvariant, FiniteTable, PTL DEF Spec, RotationProgress

=============================================================================
