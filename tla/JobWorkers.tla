----------------------------- MODULE JobWorkers -----------------------------
(***************************************************************************)
(* The job store with the callers it was written for: workers that poll,   *)
(* execute under a lease, extend it and settle it; claims and extensions   *)
(* whose COMMIT reports an error although it persisted, and claims that    *)
(* are lost; workers that crash; operators that resolve uncertain jobs.    *)
(* All of them read one clock.                                             *)
(*                                                                         *)
(* A worker executes a job only under a lease it was handed by a claim     *)
(* that reported success or by the recovery of one that did not, and only  *)
(* until the expiry it was told.                                           *)
(***************************************************************************)
EXTENDS JobStore

CONSTANTS
  Horizon,          \* bound on the clock
  MaxCrashes,       \* bound on the worker crashes
  MaxUnsure,        \* bound on the persisted writes that report an error
  RetryTimes,       \* the retry_after_ms values of failure reports, or NULL
  PromptOperators   \* whether a resolution arrives while the job is still
                    \* uncertain, or may be delayed and repeated

ASSUME WorkersAssumption ==
  /\ Horizon \in Times
  /\ \A len \in LeaseLengths : Horizon + len <= MaxTime
  /\ MaxCrashes \in Nat
  /\ MaxUnsure \in Nat
  /\ RetryTimes \subseteq Times \cup {NULL}
  /\ PromptOperators \in BOOLEAN

VARIABLES
  clock,      \* the time every caller passes as now_ms
  held,       \* worker -> the leases it may execute under
  unsure,     \* worker -> ids of its claims with unknown outcome
  decided,    \* resolutions the operators have decided on: <<job, resolution>>
  abandoned,  \* tokens known to no one any more (history)
  crashes,    \* number of crashes
  errors      \* number of persisted writes that reported an error

callers == <<clock, held, unsure, decided, abandoned, crashes, errors>>
wvars == <<vars, callers>>

Lease(j, token, expiry) == [job |-> j, token |-> token, expiry |-> expiry]

WTypeOK ==
  /\ TypeOK
  /\ clock \in 0..Horizon
  /\ held \in [Workers -> SUBSET [job : JobIds, token : Tokens, expiry : Times]]
  /\ unsure \in [Workers -> SUBSET (1..lastTx)]
  /\ decided \subseteq JobIds \X Resolutions
  /\ abandoned \subseteq Tokens
  /\ crashes \in 0..MaxCrashes
  /\ errors \in 0..MaxUnsure

WInit ==
  /\ Init
  /\ clock = 0
  /\ held = [w \in Workers |-> {}]
  /\ unsure = [w \in Workers |-> {}]
  /\ decided = {}
  /\ abandoned = {}
  /\ crashes = 0
  /\ errors = 0

Tick ==
  /\ clock < Horizon
  /\ clock' = clock + 1
  /\ UNCHANGED <<vars, held, unsure, decided, abandoned, crashes, errors>>

Submit(j, spec) == EnqueueJob(j, spec) /\ UNCHANGED callers

(* Cancellation by a client, which knows no token *)
Withdraw(j) == CancelJob(j, NULL) /\ UNCHANGED callers

----------------------------------------------------------------------------
(* Claims                                                                  *)

(* What the call returns as ClaimOutcome::Committed *)
GrantedLeases == {Lease(r.job, r.token, r.expiry) : r \in receipts' \ receipts}

Poll(w, q, len, limit) ==
  /\ ClaimJobs(q, w, clock, len, limit)
  /\ held' = [held EXCEPT ![w] = @ \cup GrantedLeases]
  /\ UNCHANGED <<clock, unsure, decided, abandoned, crashes, errors>>

(* ClaimError::Indeterminate names the transaction and hands out no token *)
PollUnsure(w, q, len, limit) ==
  /\ \/ /\ errors < MaxUnsure
        /\ ClaimJobs(q, w, clock, len, limit)
        /\ errors' = errors + 1
     \/ ClaimLost(q, clock, len, limit) /\ UNCHANGED errors
  /\ unsure' = [unsure EXCEPT ![w] = @ \cup {lastTx'}]
  /\ UNCHANGED <<clock, held, decided, abandoned, crashes>>

Recover(w, tx) ==
  /\ tx \in unsure[w]
  /\ held' = [held EXCEPT ![w] = @ \cup {Lease(r.job, r.token, r.expiry) :
                                           r \in RecoverClaim(tx, clock).leases}]
  /\ unsure' = [unsure EXCEPT ![w] = @ \ {tx}]
  /\ UNCHANGED <<vars, clock, decided, abandoned, crashes, errors>>

----------------------------------------------------------------------------
(* Settling and extending a lease                                          *)

Release(w, l) == held' = [held EXCEPT ![w] = @ \ {l}]

(* A worker may settle late: the store checks the token, not the expiry *)
Finish(w, l) ==
  /\ AckJob(l.job, l.token)
  /\ Release(w, l)
  /\ UNCHANGED <<clock, unsure, decided, abandoned, crashes, errors>>

GiveUp(w, l, retry) ==
  /\ FailJob(l.job, l.token, retry, clock)
  /\ Release(w, l)
  /\ UNCHANGED <<clock, unsure, decided, abandoned, crashes, errors>>

Abort(w, l) ==
  /\ CancelJob(l.job, l.token)
  /\ Release(w, l)
  /\ UNCHANGED <<clock, unsure, decided, abandoned, crashes, errors>>

(* The store refuses the token: the worker learns that it lost the lease *)
Discard(w, l) ==
  /\ jobs[l.job].token # l.token
  /\ Release(w, l)
  /\ UNCHANGED <<vars, clock, unsure, decided, abandoned, crashes, errors>>

Renew(w, l, newExpiry) ==
  /\ ExtendLease(l.job, l.token, newExpiry, clock)
  /\ \/ /\ held' = [held EXCEPT ![w] = (@ \ {l}) \cup {Lease(l.job, l.token, newExpiry)}]
        /\ UNCHANGED errors
     \/ /\ errors < MaxUnsure        \* LeaseError::Indeterminate
        /\ errors' = errors + 1
        /\ UNCHANGED held
  /\ UNCHANGED <<clock, unsure, decided, abandoned, crashes>>

Crash(w) ==
  /\ crashes < MaxCrashes
  /\ crashes' = crashes + 1
  /\ abandoned' = abandoned \cup {l.token : l \in held[w]}
                    \cup {r.token : r \in {s \in receipts : s.tx \in unsure[w]}}
  /\ held' = [held EXCEPT ![w] = {}]
  /\ unsure' = [unsure EXCEPT ![w] = {}]
  /\ UNCHANGED <<vars, clock, decided, errors>>

----------------------------------------------------------------------------
(* Operators                                                               *)

(* An operator reads that the job is uncertain and decides what to do *)
Decide(j, resolution) ==
  /\ j \in DOMAIN jobs /\ jobs[j].state = "Uncertain"
  /\ decided' = decided \cup {<<j, resolution>>}
  /\ UNCHANGED <<vars, clock, held, unsure, abandoned, crashes, errors>>

(* The resolution is committed; one whose outcome was not reported is sent  *)
(* again in a new transaction.                                              *)
Deliver(j, resolution) ==
  /\ <<j, resolution>> \in decided
  /\ PromptOperators => jobs[j].state = "Uncertain"
  /\ ResolveJob(j, resolution)
  /\ \/ decided' = decided \ {<<j, resolution>>} /\ UNCHANGED errors
     \/ /\ errors < MaxUnsure
        /\ errors' = errors + 1
        /\ UNCHANGED decided
  /\ UNCHANGED <<clock, held, unsure, abandoned, crashes>>

----------------------------------------------------------------------------
PollQueue(q) ==
  \E w \in Workers, len \in LeaseLengths, limit \in ClaimLimits \ {0} : Poll(w, q, len, limit)

WorkerStep(w) ==
  \/ \E q \in Queues, len \in LeaseLengths, limit \in ClaimLimits :
        Poll(w, q, len, limit) \/ PollUnsure(w, q, len, limit)
  \/ \E tx \in unsure[w] : Recover(w, tx)
  \/ \E l \in held[w] :
       \/ Finish(w, l)
       \/ \E retry \in RetryTimes : GiveUp(w, l, retry)
       \/ Abort(w, l)
       \/ Discard(w, l)
       \/ \E newExpiry \in Times : Renew(w, l, newExpiry)
  \/ Crash(w)

WNext ==
  \/ Tick
  \/ \E j \in JobIds, spec \in JobSpecs : Submit(j, spec)
  \/ \E j \in JobIds : Withdraw(j)
  \/ \E w \in Workers : WorkerStep(w)
  \/ \E j \in JobIds, resolution \in Resolutions : Decide(j, resolution) \/ Deliver(j, resolution)

WSpec == WInit /\ [][WNext]_wvars

(* Time passes, and some worker keeps polling every queue.  Nothing is      *)
(* asked of a worker that was handed a lease, or of the operators.          *)
FairWSpec == WSpec /\ WF_wvars(Tick) /\ \A q \in Queues : WF_wvars(PollQueue(q))

----------------------------------------------------------------------------
(* Properties                                                              *)

(* While the expiry a worker was told has not passed, the job is durably    *)
(* leased to that worker under that token, for at least that long: no       *)
(* claim, maintenance, extension or recovery ever gives an executable lease *)
(* to two workers, and none is executable that did not persist.             *)
LiveLeaseIsCurrent ==
  \A w \in Workers : \A l \in held[w] : l.expiry >= clock =>
    /\ jobs[l.job].state = "Leased"
    /\ jobs[l.job].token = l.token
    /\ jobs[l.job].worker = w
    /\ jobs[l.job].expiry >= l.expiry

(* Every lease in the store can be reached: its worker was handed it, or    *)
(* can still recover the claim that granted it, or has crashed.  An error   *)
(* reported by COMMIT never strands a lease, and no expiry that a worker    *)
(* holds or recovers is out of range.                                       *)
LeaseAccounted ==
  /\ WTypeOK
  /\ \A j \in DOMAIN jobs : jobs[j].state = "Leased" /\ jobs[j].expiry >= clock =>
      \/ \E l \in held[jobs[j].worker] : l.token = jobs[j].token
      \/ \E tx \in unsure[jobs[j].worker] :
           \E r \in RecoverClaim(tx, clock).leases : r.token = jobs[j].token
      \/ jobs[j].token \in abandoned

(* JobState::can_transition_to allows Leased -> Pending "only for           *)
(* expired-lease maintenance of explicitly idempotent jobs".                *)
LeasedToPendingOnlyByExpiry ==
  [][\A j \in DOMAIN jobs :
       jobs[j].state = "Leased" /\ jobs'[j].state = "Pending" =>
         jobs[j].spec.mode = "Idempotent" /\ jobs[j].expiry < clock]_wvars

(* The partition of j cannot move before the horizon: its head waits for an *)
(* operator, for a lease or for a time beyond it.                           *)
Blocked(j) ==
  \E h \in ActiveIn(jobs, PartitionOf(jobs[j])) :
    /\ IsHead(jobs, h)
    /\ \/ jobs[h].state = "Uncertain"
       \/ jobs[h].state = "Leased" /\ jobs[h].expiry >= Horizon
       \/ jobs[h].state = "RetryWait" /\ jobs[h].retryAfter > Horizon
       \/ jobs[h].spec.notBefore > Horizon

(* With pollers alone, every enqueued job ends up terminal or behind a head *)
(* that needs an operator or more time: an expired lease is repaired, a     *)
(* waiting job is leased again and no partition is forgotten.               *)
EveryJobSettles ==
  \A j \in JobIds :
    j \in DOMAIN jobs
      ~> j \in DOMAIN jobs /\ (jobs[j].state \in TerminalStates \/ Blocked(j))

=============================================================================
