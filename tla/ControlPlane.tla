---------------------------- MODULE ControlPlane ----------------------------
(***************************************************************************)
(* The commit pipeline (src/store/commit.rs): a client submits a batch of  *)
(* events, projection patches and job operations under a transaction id of *)
(* its own and the store makes all of it durable or nothing.  The job      *)
(* tables, and claims on them, are those of JobStore.                      *)
(*                                                                         *)
(* A batch executes operation by operation inside BEGIN IMMEDIATE: while   *)
(* `open` holds a transaction the table variables are what the writer      *)
(* connection sees, and open.saved is what is durable, what readers see    *)
(* and what a rollback or a crash leaves.  The store's mutex keeps every   *)
(* other call on the writer out until the transaction ends.                *)
(*                                                                         *)
(* A call that is refused before it writes anything (an invalid batch, an  *)
(* expectation that does not hold, a known id with other content) changes  *)
(* nothing and is a stuttering step.                                       *)
(*                                                                         *)
(* The outcome of COMMIT is chosen: it persists and is reported, persists  *)
(* and reports an error, or reports an error without persisting.  The      *)
(* writer connection, dropped after an error and reopened by the next      *)
(* call, has no state of its own.                                          *)
(***************************************************************************)
EXTENDS JobStore, SequencesExt

CONSTANTS
  TxIds,          \* transaction ids of the clients
  Streams,        \* stream ids
  Events,         \* event ids
  Projections,    \* projection names
  Keys, Values,   \* keys and values of projection entries
  MaxOperations,  \* Limits::max_operations_per_commit
  MaxFaults,      \* bound on the COMMIT errors and crashes
  Batches(_)      \* the batches clients build, given the leases issued so far

ASSUME ControlPlaneAssumption ==
  /\ TxIds \cap Nat = {}    \* random ids: a client's is never a claim's
  /\ NULL \notin TxIds
  /\ MaxOperations \in Nat
  /\ MaxFaults \in Nat
  /\ NULL \notin Values

VARIABLES
  streams,   \* table streams: stream -> current_version, 0 without a row
  events,    \* table events, in the order of global_sequence
  versions,  \* table projection_meta: projection -> version, 0 without a row
  entries,   \* table projection_entries: projection -> key -> value or NULL
  txs,       \* table transactions; batch stands for the request digest
  open,      \* the transaction in progress, or Closed
  sent,      \* transaction id -> the batch its client was last answered about
  told,      \* transaction id -> that answer: none, indeterminate, or definite
  faults     \* number of COMMIT errors and crashes

logVars == <<streams, events, versions, entries, txs>>
clientVars == <<sent, told, faults>>
cpVars == <<vars, logVars, open, clientVars>>

EventType == [event : Events, stream : Streams, version : Nat, tx : TxIds]

EntryType == [key : Keys, value : Values]

(* ProjectionMutation *)
MutationType ==
  [kind : {"Put"}, key : Keys, value : Values]
  \cup [kind : {"Delete"}, key : Keys]
  \cup [kind : {"Clear"}]
  \cup [kind : {"Replace"}, entries : Seq(EntryType)]

(* TransactionOperation *)
OperationType ==
  [kind : {"AppendEvent"}, stream : Streams, event : Events]
  \cup [kind : {"ProjectionPatch"}, projection : Projections, expected : Nat, new : Nat,
        mutations : Seq(MutationType)]
  \cup [kind : {"EnqueueJob"}, job : JobIds, spec : JobSpecs]
  \cup [kind : {"AckJob"}, job : JobIds, token : Tokens]
  \cup [kind : {"FailJob"}, job : JobIds, token : Tokens, retry : Times \cup {NULL}]
  \cup [kind : {"CancelJob"}, job : JobIds, token : Tokens \cup {NULL}]
  \cup [kind : {"ResolveJob"}, job : JobIds, resolution : Resolutions]
  \cup [kind : {"ExtendLease"}, job : JobIds, token : Tokens, expiry : Times]

(* TransactionBatch *)
BatchType == [expected : SUBSET (Streams \X Nat), ops : Seq(OperationType), at : Times]

(* No transaction is in progress *)
Closed == [id |-> NULL]

NoRows == [k \in Keys |-> NULL]

CPTypeOK ==
  /\ TypeOK
  /\ streams \in [Streams -> Nat]
  /\ events \in Seq(EventType)
  /\ versions \in [Projections -> Nat]
  /\ \A r \in txs : \/ r.id \in TxIds /\ r.batch \in BatchType
                    \/ r.id \in 1..lastTx /\ r.batch = NULL
  /\ {r.seq : r \in txs} = 1..Cardinality(txs)
  /\ faults \in 0..MaxFaults

CPInit ==
  /\ Init
  /\ streams = [s \in Streams |-> 0]
  /\ events = <<>>
  /\ versions = [p \in Projections |-> 0]
  /\ entries = [p \in Projections |-> NoRows]
  /\ txs = {}
  /\ open = Closed
  /\ sent = [id \in TxIds |-> NULL]
  /\ told = [id \in TxIds |-> [result |-> "Nothing"]]
  /\ faults = 0

----------------------------------------------------------------------------
(* Projection patches (src/projection.rs, src/store/projections.rs)        *)

Touches(m) ==
  CASE m.kind \in {"Put", "Delete"} -> {m.key}
    [] m.kind = "Clear"             -> {}
    [] m.kind = "Replace"           -> {e.key : e \in Range(m.entries)}

(* ProjectionPatch::validate: no key twice since the last Clear or Replace *)
ValidPatch(op) ==
  LET ms == op.mutations
  IN  /\ op.new = op.expected + 1
      /\ \A k \in DOMAIN ms :
           /\ ms[k].kind = "Replace" => Cardinality(Touches(ms[k])) = Len(ms[k].entries)
           /\ \A i \in 1..(k - 1) :
                (\A m \in (i + 1)..k : ms[m].kind \in {"Put", "Delete"})
                  => Touches(ms[i]) \cap Touches(ms[k]) = {}

PutEntry(rows, e) == [rows EXCEPT ![e.key] = e.value]

(* The rows after the entries es have been inserted one by one *)
PutEntries(rows, es) ==
  LET put[n \in 0..Len(es)] == IF n = 0 THEN rows ELSE PutEntry(put[n - 1], es[n])
  IN  put[Len(es)]

(* Mutant: Replace does not clear the projection first *)
ApplyMutationOnTop(rows, m) ==
  CASE m.kind = "Put"     -> PutEntry(rows, m)
    [] m.kind = "Delete"  -> [rows EXCEPT ![m.key] = NULL]
    [] m.kind = "Clear"   -> NoRows
    [] m.kind = "Replace" -> PutEntries(rows, m.entries)

ApplyMutation(rows, m) ==
  CASE m.kind = "Put"     -> PutEntry(rows, m)
    [] m.kind = "Delete"  -> [rows EXCEPT ![m.key] = NULL]
    [] m.kind = "Clear"   -> NoRows
    [] m.kind = "Replace" -> PutEntries(NoRows, m.entries)

(* The rows after the mutations ms, in order *)
ApplyMutations(rows, ms) ==
  LET after[n \in 0..Len(ms)] == IF n = 0 THEN rows ELSE ApplyMutation(after[n - 1], ms[n])
  IN  after[Len(ms)]

PatchOk(op) == versions[op.projection] = op.expected

PatchProjection(op) ==
  /\ versions' = [versions EXCEPT ![op.projection] = op.new]
  /\ entries' = [entries EXCEPT ![op.projection] = ApplyMutations(@, op.mutations)]
  /\ UNCHANGED <<vars, streams, events, txs, clientVars>>

----------------------------------------------------------------------------
(* Events                                                                  *)

(* The version a stream has reached inside the open transaction *)
StreamVersion(s) ==
  IF s \in DOMAIN open.reached THEN open.reached[s] ELSE streams[s]

(* The UNIQUE constraints of table events *)
EventOk(op) ==
  \A i \in DOMAIN events :
    /\ events[i].event # op.event
    /\ events[i].stream = op.stream => events[i].version # StreamVersion(op.stream) + 1

AppendEvent(op) ==
  /\ events' = Append(events, [event |-> op.event, stream |-> op.stream,
                               version |-> StreamVersion(op.stream) + 1, tx |-> open.id])
  /\ UNCHANGED <<vars, streams, versions, entries, txs, clientVars>>

(* Stream versions are kept in memory and written back before COMMIT *)
Reached(op) ==
  IF op.kind = "AppendEvent"
  THEN [s \in DOMAIN open.reached \cup {op.stream} |->
          IF s = op.stream THEN StreamVersion(s) + 1 ELSE open.reached[s]]
  ELSE open.reached

----------------------------------------------------------------------------
(* commit: up to the first operation                                       *)

ValidBatch(b) ==
  /\ Len(b.ops) <= MaxOperations
  /\ \A op \in Range(b.ops) : op.kind = "ProjectionPatch" => ValidPatch(op)

RowsOf(id) == {r \in txs : r.id = id}

(* Mutant: a stream that has moved past the expected version is accepted *)
ExpectationsHoldAtLeast(b) == \A e \in b.expected : streams[e[1]] >= e[2]

(* An expectation is a pair <<stream, version>> *)
ExpectationsHold(b) == \A e \in b.expected : streams[e[1]] = e[2]

NextSequence == Max({0} \cup {r.seq : r \in txs}) + 1

Receipt(r) == [result |-> "Receipt", seq |-> r.seq, at |-> r.batch.at]

Answer(id, b, result) ==
  /\ sent' = [sent EXCEPT ![id] = b]
  /\ told' = [told EXCEPT ![id] = result]

Tables == [jobs |-> jobs, lastSeq |-> lastSeq, active |-> active, receipts |-> receipts,
           streams |-> streams, events |-> events, versions |-> versions,
           entries |-> entries, txs |-> txs]

(* The transaction row is inserted first, then the operations execute *)
Begin(id, b) ==
  /\ open = Closed
  /\ ValidBatch(b)
  /\ RowsOf(id) = {}
  /\ ExpectationsHold(b)
  /\ txs' = txs \cup {[id |-> id, seq |-> NextSequence, batch |-> b]}
  /\ open' = [id |-> id, batch |-> b, todo |-> b.ops, saved |-> Tables,
              reached |-> [s \in {e[1] : e \in b.expected} |-> streams[s]]]
  /\ UNCHANGED <<vars, streams, events, versions, entries, clientVars>>

(* Mutant: the digest is not compared *)
SameContentAssumed(r, b) == TRUE

SameContent(r, b) == r.batch = b

(* A transaction id that has committed already: its original receipt *)
Resubmit(id, b) ==
  /\ open = Closed
  /\ ValidBatch(b)
  /\ \E r \in RowsOf(id) : SameContent(r, b) /\ Answer(id, b, Receipt(r))
  /\ UNCHANGED <<vars, logVars, open, faults>>

----------------------------------------------------------------------------
(* commit: the operations                                                  *)

JobOpOk(op) ==
  CASE op.kind = "EnqueueJob"  -> EnqueueOk(jobs, op.job)
    [] op.kind = "AckJob"      -> AckOk(jobs, op.job, op.token)
    [] op.kind = "FailJob"     -> FailOk(jobs, op.job, op.token, op.retry, open.batch.at)
    [] op.kind = "CancelJob"   -> CancelOk(jobs, op.job, op.token)
    [] op.kind = "ResolveJob"  -> ResolveOk(jobs, op.job, op.resolution)
    [] op.kind = "ExtendLease" -> ExtendOk(jobs, op.job, op.token, op.expiry, open.batch.at)

OperationOk(op) ==
  CASE op.kind = "AppendEvent"     -> EventOk(op)
    [] op.kind = "ProjectionPatch" -> PatchOk(op)
    [] OTHER                       -> JobOpOk(op)

JobOp(op) ==
  /\ \/ op.kind = "EnqueueJob" /\ EnqueueJob(op.job, op.spec)
     \/ op.kind = "AckJob" /\ AckJob(op.job, op.token)
     \/ op.kind = "FailJob" /\ FailJob(op.job, op.token, op.retry, open.batch.at)
     \/ op.kind = "CancelJob" /\ CancelJob(op.job, op.token)
     \/ op.kind = "ResolveJob" /\ ResolveJob(op.job, op.resolution)
     \/ op.kind = "ExtendLease" /\ ExtendLease(op.job, op.token, op.expiry, open.batch.at)
  /\ UNCHANGED <<logVars, clientVars>>

Execute(op) ==
  /\ OperationOk(op)
  /\ \/ op.kind = "AppendEvent" /\ AppendEvent(op)
     \/ op.kind = "ProjectionPatch" /\ PatchProjection(op)
     \/ JobOp(op)

Operate ==
  /\ open # Closed /\ open.todo # <<>>
  /\ Execute(Head(open.todo))
  /\ open' = [open EXCEPT !.todo = Tail(@), !.reached = Reached(Head(open.todo))]

Rollback ==
  /\ jobs' = open.saved.jobs
  /\ lastSeq' = open.saved.lastSeq
  /\ active' = open.saved.active
  /\ receipts' = open.saved.receipts
  /\ streams' = open.saved.streams
  /\ events' = open.saved.events
  /\ versions' = open.saved.versions
  /\ entries' = open.saved.entries
  /\ txs' = open.saved.txs
  /\ open' = Closed
  /\ UNCHANGED <<cursor, claimTxs, lastTx, lost>>

(* Mutant: an operation that fails is skipped *)
OperationFailsAlone ==
  /\ open # Closed /\ open.todo # <<>>
  /\ ~OperationOk(Head(open.todo))
  /\ open' = [open EXCEPT !.todo = Tail(@)]
  /\ UNCHANGED <<vars, logVars, clientVars>>

(* The first operation that fails ends the transaction *)
OperationFails ==
  /\ open # Closed /\ open.todo # <<>>
  /\ ~OperationOk(Head(open.todo))
  /\ Rollback
  /\ UNCHANGED clientVars

----------------------------------------------------------------------------
(* commit: COMMIT                                                          *)

(* Mutant: only the streams with an expectation are written back *)
WriteBackExpected ==
  streams' = [s \in Streams |-> IF s \in {e[1] : e \in open.batch.expected}
                                THEN StreamVersion(s) ELSE streams[s]]

WriteBack == streams' = [s \in Streams |-> StreamVersion(s)]

Persist ==
  /\ open # Closed /\ open.todo = <<>>
  /\ WriteBack
  /\ open' = Closed
  /\ UNCHANGED <<vars, events, versions, entries, txs>>

Commit ==
  /\ Persist
  /\ \E r \in RowsOf(open.id) : Answer(open.id, open.batch, Receipt(r))
  /\ UNCHANGED faults

(* CommitError::Indeterminate, or a crash that leaves the client to ask *)
Fault ==
  /\ open # Closed
  /\ faults < MaxFaults
  /\ faults' = faults + 1
  /\ Answer(open.id, open.batch, [result |-> "Indeterminate"])

CommitUnsure == Fault /\ Persist

(* COMMIT fails, or the process dies at any earlier point *)
CommitLost == Fault /\ Rollback

RecoverTransaction(id) ==
  /\ open = Closed
  /\ told[id].result = "Indeterminate"
  /\ told' = [told EXCEPT ![id] =
       IF RowsOf(id) = {} THEN [result |-> "Absent"]
       ELSE Receipt(CHOOSE r \in RowsOf(id) : TRUE)]
  /\ UNCHANGED <<vars, logVars, open, sent, faults>>

----------------------------------------------------------------------------
(* The other calls on the writer; a lost claim leaves no trace (JobStore)  *)

Claim(q, w, now, len, limit) ==
  /\ open = Closed
  /\ ClaimJobs(q, w, now, len, limit)
  /\ txs' = txs \cup {[id |-> lastTx + 1, seq |-> NextSequence, batch |-> NULL]}
  /\ UNCHANGED <<streams, events, versions, entries, open, clientVars>>

LeaseCall(j, token, newExpiry, now) ==
  /\ open = Closed
  /\ ExtendLease(j, token, newExpiry, now)
  /\ UNCHANGED <<logVars, open, clientVars>>

----------------------------------------------------------------------------
(* verify (src/store/ops.rs): the semantic checks, a statement each, over   *)
(* the durable tables.  A missing row counts as version 0, so "events but   *)
(* no streams row" is the first check too.                                  *)

SemanticFindings ==
  {<<"stream_versions", s>> : s \in {t \in Streams :
      streams[t] # Max({0} \cup {e.version : e \in {f \in Range(events) : f.stream = t}})}}
  \cup {<<"terminal_jobs", j>> : j \in {k \in DOMAIN jobs :
      /\ jobs[k].state \in TerminalStates
      /\ {jobs[k].token, jobs[k].worker, jobs[k].expiry} # {NULL}}}
  \cup {<<"active_partitions", qp>> : qp \in {ap \in active : ActiveIn(jobs, ap) = {}}}
  \cup {<<"leased_jobs", j>> : j \in {k \in DOMAIN jobs :
      /\ jobs[k].state = "Leased"
      /\ NULL \in {jobs[k].token, jobs[k].worker, jobs[k].expiry}}}
  \cup {<<"claim_receipts", r.tx, r.job>> : r \in {c \in receipts :
      c.job \notin DOMAIN jobs \/ RowsOf(c.tx) = {}}}

----------------------------------------------------------------------------
CPNext ==
  \/ \E id \in TxIds, b \in Batches(Issued) :
       Begin(id, b) \/ Resubmit(id, b)
  \/ Operate
  \/ OperationFails
  \/ Commit
  \/ CommitUnsure
  \/ CommitLost
  \/ \E id \in TxIds : RecoverTransaction(id)
  \/ \E q \in Queues, w \in Workers, now \in Times, len \in LeaseLengths,
        limit \in ClaimLimits : Claim(q, w, now, len, limit)
  \/ \E jt \in Issued, newExpiry \in Times, now \in Times :
       LeaseCall(jt[1], jt[2], newExpiry, now)

CPSpec == CPInit /\ [][CPNext]_cpVars

----------------------------------------------------------------------------
(* Properties, of the durable state                                        *)

(* The operations of the batches among rows, each with its place in the     *)
(* order of execution: by transaction sequence, and inside a batch as given *)
Executed(rows) ==
  UNION {{[tx |-> r.id, seq |-> r.seq, pos |-> k, op |-> r.batch.ops[k]] :
            k \in DOMAIN r.batch.ops} : r \in {t \in rows : t.id \in TxIds}}

Earlier(x, y) == x.seq < y.seq \/ (x.seq = y.seq /\ x.pos < y.pos)

Appends(ops) == {x \in ops : x.op.kind = "AppendEvent"}

(* The log holds the events that ops append, in the order of ops *)
LogOf(log, ops) ==
  /\ Len(log) = Cardinality(Appends(ops))
  /\ \A x \in Appends(ops) :
       LET e == log[1 + Cardinality({y \in Appends(ops) : Earlier(y, x)})]
       IN  e.tx = x.tx /\ e.event = x.op.event /\ e.stream = x.op.stream

(* All or nothing, once: the event table holds the events of the committed  *)
(* batches in the order of transaction sequence and, inside a batch, of its *)
(* operations; nothing of a batch that was refused, rolled back or lost,    *)
(* and nothing twice however often a batch is resubmitted.  Claims and      *)
(* batches draw on one sequence of transactions, without a gap (CPTypeOK).  *)
LogIsCommittedBatches ==
  /\ CPTypeOK
  /\ open = Closed => LogOf(events, Executed(txs))

(* Where the events of stream s are in the log, up to position n *)
Positions(log, s, n) == {i \in 1..n : log[i].stream = s}

(* Stream versions have no gap and no duplicate, and the stream row, from   *)
(* which the next commit numbers its events, agrees with the event table.   *)
StreamVersionsContiguous ==
  open = Closed =>
    /\ \A s \in Streams : streams[s] = Cardinality(Positions(events, s, Len(events)))
    /\ \A i \in DOMAIN events :
         events[i].version = Cardinality(Positions(events, events[i].stream, i))

(* The events of stream s that transactions before row r among rows wrote *)
EventsBefore(log, rows, r, s) ==
  {n \in DOMAIN log : /\ log[n].stream = s
                      /\ \E h \in rows : h.id = log[n].tx /\ h.seq < r.seq}

(* Optimistic concurrency: every committed batch found each stream it named *)
(* at the version it expected, so two batches built on the same version of  *)
(* a stream that both append to it never both commit.                       *)
ExpectedVersionsHeld ==
  open = Closed =>
    \A r \in txs : r.id \in TxIds =>
      \A e \in r.batch.expected : Cardinality(EventsBefore(events, txs, r, e[1])) = e[2]

(* The mutations among ms that concern key k, by their places *)
Concerning(ms, k) ==
  {i \in DOMAIN ms : ms[i].kind \in {"Clear", "Replace"} \/ k \in Touches(ms[i])}

(* What a mutation that concerns key k leaves of it *)
ValueLeft(m, k) ==
  IF k \notin Touches(m) \/ m.kind = "Delete" THEN NULL
  ELSE IF m.kind = "Put" THEN m.value
  ELSE (CHOOSE e \in Range(m.entries) : e.key = k).value

(* The patches of projection p among ops *)
Patches(ops, p) == {x \in ops : x.op.kind = "ProjectionPatch" /\ x.op.projection = p}

(* Those of them that concern key k *)
PatchesOn(ops, p, k) == {x \in Patches(ops, p) : Concerning(x.op.mutations, k) # {}}

(* The version of a projection counts the patches that ops apply to it, and *)
(* each was built on the result of the one before.                          *)
PatchesInOrder(version, ops) ==
  \A p \in Projections :
    /\ version[p] = Cardinality(Patches(ops, p))
    /\ \A x \in Patches(ops, p) :
         x.op.expected = Cardinality({y \in Patches(ops, p) : Earlier(y, x)})

(* The rows of projection p hold, at each key, what the last patch on it    *)
(* left there: the value that its last mutation of that key left.           *)
EntriesReplayed(rows, ops, p) ==
  /\ rows \in [Keys -> Values \cup {NULL}]
  /\ \A k \in Keys :
       \/ PatchesOn(ops, p, k) = {} /\ rows[k] = NULL
       \/ \E x \in PatchesOn(ops, p, k) :
            LET ms == x.op.mutations
            IN  /\ \A y \in PatchesOn(ops, p, k) \ {x} : Earlier(y, x)
                /\ rows[k] = ValueLeft(ms[Max(Concerning(ms, k))], k)

(* A projection is the result of the committed patches and of no others:    *)
(* its version counts them, each found the version it expected, and each    *)
(* key has the value the last mutation that concerns it gave it.            *)
ProjectionsReplayPatches ==
  open = Closed =>
    /\ PatchesInOrder(versions, Executed(txs))
    /\ \A p \in Projections : EntriesReplayed(entries[p], Executed(txs), p)

(* What a client was told stays true: a receipt names the durable row of    *)
(* exactly the batch it sent, and Absent means that nothing was or will be  *)
(* written under its id until it submits again.                             *)
ToldTruthful ==
  open = Closed =>
    \A id \in TxIds :
      /\ told[id].result = "Receipt" =>
           \E r \in RowsOf(id) : r.batch = sent[id] /\ told[id] = Receipt(r)
      /\ told[id].result \in {"Nothing", "Absent"} => RowsOf(id) = {}

(* The operations among ops that succeed job j *)
Successes(ops, j) ==
  {x \in ops : \/ x.op.kind = "AckJob" /\ x.op.job = j
               \/ /\ x.op.kind = "ResolveJob" /\ x.op.job = j
                  /\ x.op.resolution = "MarkSucceeded"}

(* The operations among ops that settle a lease *)
Settlements(ops) ==
  {x \in ops : x.op.kind \in {"AckJob", "FailJob", "CancelJob"} /\ x.op.token # NULL}

(* A job has succeeded exactly when one committed batch says so, and only   *)
(* one ever does; a lease is settled by at most one committed batch.  The   *)
(* events committed with an acknowledgement are therefore recorded once,    *)
(* though two workers may have executed the job.                            *)
SettledOnce ==
  open = Closed =>
    /\ \A j \in JobIds :
         IF j \in DOMAIN jobs /\ jobs[j].state = "Succeeded"
         THEN Cardinality(Successes(Executed(txs), j)) = 1
         ELSE Successes(Executed(txs), j) = {}
    /\ \A x, y \in Settlements(Executed(txs)) : x.op.token = y.op.token => x = y

(* verify has nothing to report on a store that only the store's own calls  *)
(* have written: no sequence of commits, rollbacks, crashes and claims      *)
(* leaves a state that one of its semantic checks mistakes for corruption.  *)
VerifyReportsNothing == open = Closed => SemanticFindings = {}

=============================================================================
