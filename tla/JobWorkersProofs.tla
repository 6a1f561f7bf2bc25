-------------------------- MODULE JobWorkersProofs --------------------------
(***************************************************************************)
(* Proofs about JobWorkers, for any number of workers, jobs, crashes and   *)
(* writes of unknown outcome, any lease lengths and any horizon; and that  *)
(* what the workers call, the job store, is the abstract queue of          *)
(* LeaseQueue to them, as to any other caller.                             *)
(***************************************************************************)
EXTENDS JobWorkers, JobQueue, JobStoreProofs

----------------------------------------------------------------------------
(* The inductive invariant: the store's own, and who has which token       *)

(* A worker holds only leases that some claim granted to it *)
HeldIssued ==
  \A w \in Workers : \A l \in held[w] :
    \E r \in receipts : r.job = l.job /\ r.token = l.token /\ r.worker = w

(* No token is held by two workers, or twice by one *)
HeldOnce ==
  \A w, v \in Workers : \A l \in held[w], m \in held[v] : l.token = m.token => w = v /\ l = m

(* A claim of unknown outcome is the business of one worker, and nobody     *)
(* holds a token of it.                                                     *)
UnsureApart ==
  \A w, v \in Workers : \A tx \in unsure[w] :
    /\ tx \in unsure[v] => v = w
    /\ \A l \in held[v] : l.token # Token(tx, l.job)

(* What such a claim leased it leased to that worker *)
UnsureOwn ==
  \A w \in Workers : \A tx \in unsure[w] : \A r \in receipts : r.tx = tx => r.worker = w

Possession == HeldIssued /\ HeldOnce /\ UnsureApart /\ UnsureOwn

WInv == IInv /\ WTypeOK /\ Possession

(* LeaseAccounted in terms of the receipts *)
AccountedFor(j) ==
  \/ \E l \in held[jobs[j].worker] : l.token = jobs[j].token
  \/ \E r \in receipts :
       r.job = j /\ r.token = jobs[j].token /\ r.tx \in unsure[jobs[j].worker]
  \/ jobs[j].token \in abandoned

Accounted ==
  \A j \in DOMAIN jobs : jobs[j].state = "Leased" /\ jobs[j].expiry >= clock => AccountedFor(j)

(* The empty store with idle workers satisfies the invariant. *)
LEMMA WInitInv == WInit => WInv /\ Accounted /\ LiveLeaseIsCurrent
<1> SUFFICES ASSUME WInit PROVE WInv /\ Accounted /\ LiveLeaseIsCurrent
  OBVIOUS
<1>1. IInv
  BY InitInv DEF WInit
<1>2. DOMAIN jobs = {} /\ receipts = {}
  BY DEF WInit, Init
<1>3. WTypeOK
  <2>1. 0 \in 0..Horizon /\ 0 \in 0..MaxCrashes /\ 0 \in 0..MaxUnsure
    BY WorkersAssumption, TableAssumption DEF Times
  <2> QED
    BY <1>1, <2>1 DEF WInit, WTypeOK, IInv
<1> QED
  BY <1>1, <1>2, <1>3
     DEF WInit, WInv, Possession, HeldIssued, HeldOnce, UnsureApart, UnsureOwn, Accounted,
         LiveLeaseIsCurrent

(* The times that callers pass to the store can be represented. *)
LEMMA ClockInTimes ==
  ASSUME WTypeOK
  PROVE  clock \in Times /\ clock \in Nat
BY WorkersAssumption, TableAssumption DEF WTypeOK, Times

(* A lease that is held was issued for a job of the table. *)
LEMMA HeldLease ==
  ASSUME WInv, NEW w \in Workers, NEW l \in held[w]
  PROVE  /\ <<l.job, l.token>> \in Issued
         /\ l.job \in DOMAIN jobs /\ l.job \in JobIds
         /\ l.token \in Tokens /\ l.token # NULL
         /\ l.token[2] = l.job /\ l.token[1] \in Nat /\ l.token[1] <= lastTx
         /\ l.expiry \in Times
         /\ l \in [job : JobIds, token : Tokens, expiry : Times]
<1>1. l \in [job : JobIds, token : Tokens, expiry : Times]
  BY DEF WInv, WTypeOK
<1>2. PICK r \in receipts : r.job = l.job /\ r.token = l.token
  BY DEF WInv, Possession, HeldIssued
<1>3. l.job \in DOMAIN jobs /\ r.tx \in claimTxs
  BY <1>2 DEF WInv, IInv, ReceiptsTruthful
<1>4. l.token = <<r.tx, r.job>> /\ r.tx <= lastTx /\ r.tx \in Nat
  BY <1>2, <1>3 DEF WInv, IInv, TokensFresh, Token, TypeOK, ReceiptType
<1> QED
  BY <1>1, <1>2, <1>3, <1>4, TableAssumption DEF Issued, Tokens

----------------------------------------------------------------------------
(* The steps of the workers and operators as steps of the store            *)

(* A worker that settles a lease settles its job, which is under that lease. *)
LEMMA WorkerSettles ==
  ASSUME WInv, NEW w \in Workers, NEW l \in held[w],
         \/ Finish(w, l)
         \/ Abort(w, l)
         \/ \E retry \in RetryTimes : GiveUp(w, l, retry)
  PROVE  /\ \E s \in States \ {"Pending"}, retry \in Times \cup {NULL} : SettleStep(l.job, s, retry)
         /\ jobs[l.job].token = l.token
         /\ Release(w, l)
         /\ UNCHANGED <<clock, unsure, decided, abandoned, crashes, errors>>
<1>1. /\ l.job \in JobIds /\ l.token \in Tokens /\ l.token # NULL
      /\ TypeOK /\ LeaseColumns /\ clock \in Times
  BY HeldLease, ClockInTimes DEF WInv, IInv
<1>2. CASE Finish(w, l)
  BY <1>1, <1>2, AckSettles
     DEF Finish, AckJob, AckOk, HoldsToken, States, TerminalStates, ActiveStates
<1>3. CASE Abort(w, l)
  BY <1>1, <1>3, CancelSettles
     DEF Abort, CancelJob, CancelOk, States, TerminalStates, ActiveStates
<1>4. ASSUME NEW retry \in RetryTimes, GiveUp(w, l, retry)
      PROVE  /\ \E s \in States \ {"Pending"}, again \in Times \cup {NULL} : SettleStep(l.job, s, again)
             /\ jobs[l.job].token = l.token
             /\ Release(w, l)
             /\ UNCHANGED <<clock, unsure, decided, abandoned, crashes, errors>>
  <2>1. retry \in Times \cup {NULL} /\ FailJob(l.job, l.token, retry, clock)
    BY <1>4, WorkersAssumption DEF GiveUp
  <2>2. PICK s \in States, again \in Times \cup {NULL} : SettleStep(l.job, s, again)
    BY <1>1, <2>1, FailSettles
  <2>3. jobs' = Fail(jobs, l.job, retry, clock) /\ l.job \in DOMAIN jobs
        /\ jobs[l.job].token = l.token /\ jobs \in [DOMAIN jobs -> RowType]
    BY <1>1, <2>1 DEF FailJob, FailOk, HoldsToken, Settle, TypeOK
  <2>4. jobs'[l.job].state \in {"Dead", "RetryWait"}
    BY <2>3 DEF Fail, FailTarget, SetState, Unlease, RowType
  <2>5. s # "Pending"
    BY <1>1, <2>2, <2>4, SettleRows
  <2> QED
    BY <1>4, <2>2, <2>3, <2>5 DEF GiveUp
<1> QED
  BY <1>2, <1>3, <1>4

(* What callers do to the store is what JobStore allows any caller to do. *)
LEMMA WorkersUseStore ==
  ASSUME WInv, [WNext]_wvars
  PROVE  [Next]_vars
<1>1. clock \in Times
  BY ClockInTimes DEF WInv
<1>2. ASSUME NEW w \in Workers, WorkerStep(w) PROVE [Next]_vars
  <2>1. ASSUME NEW q \in Queues, NEW len \in LeaseLengths, NEW limit \in ClaimLimits,
               Poll(w, q, len, limit) \/ PollUnsure(w, q, len, limit)
        PROVE  [Next]_vars
    BY <1>1, <2>1 DEF Poll, PollUnsure, Next
  <2>2. ASSUME NEW l \in held[w],
               \/ Finish(w, l)
               \/ \E retry \in RetryTimes : GiveUp(w, l, retry)
               \/ Abort(w, l)
               \/ \E newExpiry \in Times : Renew(w, l, newExpiry)
        PROVE  [Next]_vars
    <3> DEFINE jt == <<l.job, l.token>>
    <3>1. jt \in Issued /\ jt[1] = l.job /\ jt[2] = l.token
      BY HeldLease
    <3> HIDE DEF jt
    <3>2. RetryTimes \subseteq Times \cup {NULL}
      BY WorkersAssumption
    <3>3. CASE Finish(w, l)
      BY <3>1, <3>3 DEF Finish, Next
    <3>4. CASE \E retry \in RetryTimes : GiveUp(w, l, retry)
      BY <1>1, <3>1, <3>2, <3>4 DEF GiveUp, Next
    <3>5. CASE Abort(w, l)
      BY <3>1, <3>5 DEF Abort, Next
    <3>6. CASE \E newExpiry \in Times : Renew(w, l, newExpiry)
      BY <1>1, <3>1, <3>6 DEF Renew, Next
    <3> QED
      BY <2>2, <3>3, <3>4, <3>5, <3>6
  <2>3. ASSUME (\E tx \in unsure[w] : Recover(w, tx)) \/ (\E l \in held[w] : Discard(w, l)) \/ Crash(w)
        PROVE  [Next]_vars
    BY <2>3 DEF Recover, Discard, Crash
  <2> QED
    BY <1>2, <2>1, <2>2, <2>3 DEF WorkerStep
<1>3. CASE Tick \/ (\E j \in JobIds, resolution \in Resolutions : Decide(j, resolution))
           \/ UNCHANGED wvars
  BY <1>3 DEF Tick, Decide, wvars, callers
<1>4. ASSUME NEW j \in JobIds, NEW spec \in JobSpecs, Submit(j, spec) PROVE [Next]_vars
  BY <1>4 DEF Submit, Next
<1>5. ASSUME NEW j \in JobIds, Withdraw(j) PROVE [Next]_vars
  BY <1>5 DEF Withdraw, Next
<1>6. ASSUME NEW j \in JobIds, NEW resolution \in Resolutions, Deliver(j, resolution) PROVE [Next]_vars
  BY <1>6 DEF Deliver, Next
<1> QED
  BY <1>2, <1>3, <1>4, <1>5, <1>6 DEF WNext

(* Every step of a caller is of one of these kinds. *)
LEMMA CallerCases ==
  ASSUME WInv, [WNext]_wvars
  PROVE  \/ \E w \in Workers, q \in Queues, len \in LeaseLengths, limit \in ClaimLimits :
              Poll(w, q, len, limit) \/ PollUnsure(w, q, len, limit)
         \/ \E w \in Workers : \E tx \in unsure[w] : Recover(w, tx)
         \/ \E w \in Workers : \E l \in held[w] :
              Finish(w, l) \/ Abort(w, l) \/ \E retry \in RetryTimes : GiveUp(w, l, retry)
         \/ \E w \in Workers : \E l \in held[w], newExpiry \in Times : Renew(w, l, newExpiry)
         \/ \E w \in Workers : (\E l \in held[w] : Discard(w, l)) \/ Crash(w)
         \/ \E j \in JobIds, spec \in JobSpecs : Submit(j, spec)
         \/ \E j \in JobIds : Withdraw(j)
         \/ \E j \in JobIds, resolution \in Resolutions : Deliver(j, resolution)
         \/ Tick \/ (\E j \in JobIds, resolution \in Resolutions : Decide(j, resolution))
         \/ UNCHANGED wvars
BY DEF WNext, WorkerStep

(* What a claim of worker w leases and repairs: with fresh tokens, rows that *)
(* were not leased, and rows whose lease has expired.                        *)
ClaimEffect(w, expiry, M, L) ==
  /\ M \subseteq DOMAIN jobs /\ L \subseteq DOMAIN jobs
  /\ \A k \in M : jobs[k].state = "Leased" /\ jobs[k].expiry < clock
  /\ \A k \in L : jobs[k].state \in {"Pending", "RetryWait"}
  /\ ClaimedRows(w, expiry, M, L)
  /\ lastTx' = lastTx + 1
  /\ receipts \subseteq receipts'
  /\ \A r \in receipts' \ receipts :
       /\ r.job \in L /\ r.token = Token(lastTx + 1, r.job) /\ r.tx = lastTx + 1
       /\ r.worker = w /\ r.expiry = expiry
  /\ \A k \in L : \E r \in receipts' \ receipts : r.job = k

LEMMA ClaimTakesEffect ==
  ASSUME WInv, NEW w \in Workers, NEW q \in Queues, NEW len \in LeaseLengths,
         NEW limit \in ClaimLimits, ClaimJobs(q, w, clock, len, limit)
  PROVE  /\ clock + len \in Times /\ clock + len >= clock
         /\ \E M, L : ClaimEffect(w, clock + len, M, L)
<1>1. clock \in Nat /\ len \in Nat /\ clock + len \in Times /\ clock + len >= clock
  BY ClockInTimes, StoreAssumption, TableAssumption DEF ClaimJobs, WInv, Times
<1>2. PICK M \in MaintenancePlans(jobs, q, clock, MaintenanceLimit) :
        ClaimWith(q, w, clock + len, M, LeasePlan(jobs, active, cursor[q], q, clock, limit))
  BY DEF ClaimJobs
<1> DEFINE L == LeasePlan(jobs, active, cursor[q], q, clock, limit)
           R == ClaimReceipts(L, lastTx + 1, w, clock + len)
<1>3. /\ M \subseteq DOMAIN jobs /\ L \subseteq DOMAIN jobs
      /\ \A k \in M : jobs[k].state = "Leased" /\ jobs[k].expiry < clock
      /\ \A k \in L : jobs[k].state \in {"Pending", "RetryWait"}
      /\ M \cap L = {}
  BY ClaimPlans
<1>4. receipts' = receipts \cup R /\ lastTx' = lastTx + 1
  BY <1>2 DEF ClaimWith
<1>5. ClaimWith(q, w, clock + len, M, L) /\ TypeOK
  BY <1>2 DEF WInv, IInv
<1> HIDE DEF L
<1>6. ClaimedRows(w, clock + len, M, L)
  BY <1>1, <1>3, <1>5, ClaimRows
<1>7. /\ \A r \in R : /\ r.job \in L /\ r.token = Token(lastTx + 1, r.job) /\ r.tx = lastTx + 1
                      /\ r.worker = w /\ r.expiry = clock + len
      /\ \A k \in L : \E r \in R : r.job = k
  BY ReceiptsOfClaim
<1>8. \A r \in R : r \notin receipts
  <2>1. \A r \in receipts : r.tx <= lastTx /\ r.tx \in Nat
    BY DEF WInv, IInv, TokensFresh, ReceiptsTruthful, TypeOK, ReceiptType
  <2>2. lastTx \in Nat
    BY DEF WInv, IInv, TypeOK
  <2> QED
    BY <1>7, <2>1, <2>2
<1> HIDE DEF R
<1>9. ClaimEffect(w, clock + len, M, L)
  BY <1>3, <1>4, <1>6, <1>7, <1>8 DEF ClaimEffect
<1> QED
  BY <1>1, <1>9

(* What a successful poll hands to its worker. *)
LEMMA GrantedByPoll ==
  ASSUME NEW w, NEW expiry, NEW M, NEW L, ClaimEffect(w, expiry, M, L)
  PROVE  /\ \A l \in GrantedLeases :
              /\ l.job \in L /\ l.token = Token(lastTx + 1, l.job) /\ l.expiry = expiry
              /\ l = Lease(l.job, Token(lastTx + 1, l.job), expiry)
              /\ \E r \in receipts' : r.job = l.job /\ r.token = l.token /\ r.worker = w
         /\ \A k \in L : \E l \in GrantedLeases : l.job = k
<1>1. \A l \in GrantedLeases : \E r \in receipts' \ receipts : l = Lease(r.job, r.token, r.expiry)
  BY DEF GrantedLeases
<1>2. \A r \in receipts' \ receipts : Lease(r.job, r.token, r.expiry) \in GrantedLeases
  BY DEF GrantedLeases
<1>3. \A j, token, e : /\ Lease(j, token, e).job = j /\ Lease(j, token, e).token = token
                       /\ Lease(j, token, e).expiry = e
  BY DEF Lease
<1> QED
  BY <1>1, <1>2, <1>3 DEF ClaimEffect

----------------------------------------------------------------------------
(* Types                                                                   *)

(* Callers keep to representable times, issued tokens and drawn ids. *)
LEMMA WTypesInv ==
  ASSUME WInv, [WNext]_wvars, IInv'
  PROVE  WTypeOK'
<1> USE DEF WTypeOK, WInv
<1> DEFINE LeaseType == [job : JobIds, token : Tokens, expiry : Times]
<1>1. TypeOK' /\ receipts \subseteq ReceiptType /\ receipts' \subseteq ReceiptType
      /\ lastTx \in Nat /\ lastTx' \in Nat
  BY DEF IInv, TypeOK
<1>2. \A r \in ReceiptType : Lease(r.job, r.token, r.expiry) \in LeaseType /\ r.token \in Tokens
  BY DEF ReceiptType, Lease
<1>3. ASSUME NEW w \in Workers, NEW q \in Queues, NEW len \in LeaseLengths, NEW limit \in ClaimLimits,
             Poll(w, q, len, limit)
      PROVE  WTypeOK'
  <2>1. lastTx' = lastTx + 1
    BY <1>3 DEF Poll, ClaimJobs, ClaimWith
  <2>2. GrantedLeases \subseteq LeaseType
    BY <1>1, <1>2 DEF GrantedLeases
  <2>3. /\ held' = [held EXCEPT ![w] = @ \cup GrantedLeases]
        /\ UNCHANGED <<clock, unsure, decided, abandoned, crashes, errors>>
    BY <1>3 DEF Poll
  <2> HIDE DEF LeaseType
  <2>4. held' \in [Workers -> SUBSET LeaseType]
    BY <2>2, <2>3 DEF LeaseType
  <2>5. unsure' \in [Workers -> SUBSET (1..lastTx')]
    BY <1>1, <2>1, <2>3
  <2> QED
    BY <1>1, <2>3, <2>4, <2>5 DEF LeaseType
<1>4. ASSUME NEW w \in Workers, NEW q \in Queues, NEW len \in LeaseLengths, NEW limit \in ClaimLimits,
             PollUnsure(w, q, len, limit)
      PROVE  WTypeOK'
  <2>1. lastTx' = lastTx + 1
    BY <1>4 DEF PollUnsure, ClaimJobs, ClaimWith, ClaimLost
  <2>2. /\ unsure' = [unsure EXCEPT ![w] = @ \cup {lastTx'}]
        /\ errors' \in {errors, errors + 1} /\ (errors' = errors + 1 => errors < MaxUnsure \/ errors' = errors)
        /\ UNCHANGED <<clock, held, decided, abandoned, crashes>>
    BY <1>4 DEF PollUnsure
  <2>3. unsure' \in [Workers -> SUBSET (1..lastTx')]
    BY <1>1, <2>1, <2>2
  <2>4. errors' \in 0..MaxUnsure
    BY <2>2, WorkersAssumption
  <2> QED
    BY <1>1, <2>2, <2>3, <2>4
<1>5. ASSUME NEW w \in Workers, NEW tx \in unsure[w], Recover(w, tx)
      PROVE  WTypeOK'
  <2> DEFINE N == {Lease(r.job, r.token, r.expiry) : r \in RecoverClaim(tx, clock).leases}
  <2>1. N \subseteq LeaseType
    <3>1. RecoverClaim(tx, clock).leases \subseteq receipts
      BY RecoveredLeases DEF IInv, ReceiptsOf
    <3> QED
      BY <1>1, <1>2, <3>1
  <2>2. /\ held' = [held EXCEPT ![w] = @ \cup N]
        /\ unsure' = [unsure EXCEPT ![w] = @ \ {tx}]
        /\ UNCHANGED <<vars, clock, decided, abandoned, crashes, errors>>
    BY <1>5 DEF Recover
  <2> HIDE DEF N, LeaseType
  <2>3. held' \in [Workers -> SUBSET LeaseType]
    BY <2>1, <2>2 DEF LeaseType
  <2>4. unsure' \in [Workers -> SUBSET (1..lastTx')]
    BY <2>2 DEF vars
  <2> QED
    BY <1>1, <2>2, <2>3, <2>4 DEF LeaseType
<1>6. ASSUME UNCHANGED <<unsure, clock, decided, abandoned, crashes, errors>>, lastTx' = lastTx,
             NEW w \in Workers, NEW l \in held[w], Release(w, l)
      PROVE  WTypeOK'
  BY <1>1, <1>6 DEF Release
<1>7. ASSUME NEW w \in Workers, NEW l \in held[w], NEW newExpiry \in Times, Renew(w, l, newExpiry)
      PROVE  WTypeOK'
  <2>1. Lease(l.job, l.token, newExpiry) \in LeaseType
    BY HeldLease DEF Lease
  <2>2. /\ held' \in {held, [held EXCEPT ![w] = (@ \ {l}) \cup {Lease(l.job, l.token, newExpiry)}]}
        /\ errors' = errors \/ (errors < MaxUnsure /\ errors' = errors + 1)
        /\ lastTx' = lastTx
        /\ UNCHANGED <<clock, unsure, decided, abandoned, crashes>>
    BY <1>7 DEF Renew, ExtendLease
  <2>3. errors' \in 0..MaxUnsure
    BY <2>2, WorkersAssumption
  <2> HIDE DEF LeaseType
  <2>4. held' \in [Workers -> SUBSET LeaseType]
    BY <2>1, <2>2 DEF LeaseType
  <2> QED
    BY <1>1, <2>2, <2>3, <2>4 DEF LeaseType
<1>8. ASSUME NEW w \in Workers, Crash(w)
      PROVE  WTypeOK'
  <2>1. {l.token : l \in held[w]} \subseteq Tokens
    OBVIOUS
  <2>2. {r.token : r \in {s \in receipts : s.tx \in unsure[w]}} \subseteq Tokens
    BY <1>1, <1>2
  <2>3. abandoned' \subseteq Tokens
    BY <1>8, <2>1, <2>2 DEF Crash
  <2>4. crashes' \in 0..MaxCrashes
    BY <1>8, WorkersAssumption DEF Crash
  <2> QED
    BY <1>1, <1>8, <2>3, <2>4 DEF Crash, vars
<1>9. ASSUME NEW j \in JobIds, NEW resolution \in Resolutions, Deliver(j, resolution)
      PROVE  WTypeOK'
  <2>1. /\ decided' \subseteq decided /\ lastTx' = lastTx
        /\ errors' = errors \/ (errors < MaxUnsure /\ errors' = errors + 1)
        /\ UNCHANGED <<clock, held, unsure, abandoned, crashes>>
    BY <1>9 DEF Deliver, ResolveJob, Settle, claimVars
  <2>2. errors' \in 0..MaxUnsure
    BY <2>1, WorkersAssumption
  <2> QED
    BY <1>1, <2>1, <2>2
<1>10. ASSUME Tick \/ (\E j \in JobIds, resolution \in Resolutions : Decide(j, resolution))
                \/ UNCHANGED wvars
       PROVE  WTypeOK'
  <2>1. lastTx' = lastTx /\ clock' \in 0..Horizon
    BY <1>10, WorkersAssumption, TableAssumption DEF Tick, Decide, wvars, vars, callers, Times
  <2>2. decided' \subseteq JobIds \X Resolutions
    BY <1>10 DEF Tick, Decide, wvars, callers
  <2>3. UNCHANGED <<held, unsure, abandoned, crashes, errors>>
    BY <1>10 DEF Tick, Decide, wvars, callers
  <2> QED
    BY <1>1, <2>1, <2>2, <2>3
<1>11. ASSUME NEW j \in JobIds, (\E spec \in JobSpecs : Submit(j, spec)) \/ Withdraw(j)
       PROVE  WTypeOK'
  <2>1. lastTx' = lastTx /\ UNCHANGED callers
    BY <1>11 DEF Submit, EnqueueJob, Withdraw, CancelJob, Settle, claimVars
  <2> QED
    BY <1>1, <2>1 DEF callers
<1>12. ASSUME NEW w \in Workers, NEW l \in held[w],
              Finish(w, l) \/ Abort(w, l) \/ \E retry \in RetryTimes : GiveUp(w, l, retry)
       PROVE  WTypeOK'
  <2>1. lastTx' = lastTx
    BY <1>12 DEF Finish, AckJob, Abort, CancelJob, GiveUp, FailJob, Settle, claimVars
  <2> QED
    BY <1>6, <1>12, <2>1 DEF Finish, Abort, GiveUp
<1>13. ASSUME NEW w \in Workers, NEW l \in held[w], Discard(w, l)
       PROVE  WTypeOK'
  BY <1>6, <1>13 DEF Discard, vars
<1> HIDE DEF WTypeOK, WInv
<1> QED
  BY <1>3, <1>4, <1>5, <1>7, <1>8, <1>9, <1>10, <1>11, <1>12, <1>13, CallerCases

----------------------------------------------------------------------------
(* Who has which token                                                     *)

(* Leases and unknown claims that are only given up, and receipts that keep *)
(* their tokens, change nothing about who has what.                         *)
LEMMA PossessionShrinks ==
  ASSUME WInv,
         \A w \in Workers : held'[w] \subseteq held[w] /\ unsure'[w] \subseteq unsure[w],
         UNCHANGED receipts
  PROVE  Possession'
<1> USE DEF WInv, Possession
<1>1. HeldIssued'
  BY DEF HeldIssued
<1>2. HeldOnce'
  BY DEF HeldOnce
<1>3. UnsureApart'
  <2> SUFFICES ASSUME NEW w \in Workers, NEW v \in Workers, NEW tx \in unsure'[w]
               PROVE  /\ tx \in unsure'[v] => v = w
                      /\ \A l \in held'[v] : l.token # Token(tx, l.job)
    BY DEF UnsureApart, Token
  <2>1. tx \in unsure[w]
    OBVIOUS
  <2> QED
    BY <2>1 DEF UnsureApart
<1>4. UnsureOwn'
  BY DEF UnsureOwn
<1> QED
  BY <1>1, <1>2, <1>3, <1>4

(* An extension that is reported gives its worker the same token for longer. *)
LEMMA RenewPossession ==
  ASSUME WInv, NEW w \in Workers, NEW l \in held[w], NEW newExpiry \in Times, Renew(w, l, newExpiry)
  PROVE  Possession'
<1> USE DEF WInv, Possession
<1> DEFINE n == Lease(l.job, l.token, newExpiry)
<1>1. n.job = l.job /\ n.token = l.token
  BY DEF Lease
<1>2. unsure' = unsure /\ held' \in {held, [held EXCEPT ![w] = (@ \ {l}) \cup {n}]}
  BY DEF Renew
<1>3. /\ \A r \in receipts : \E s \in receipts' : /\ s.tx = r.tx /\ s.job = r.job
                                              /\ s.token = r.token /\ s.worker = r.worker
      /\ \A s \in receipts' : \E r \in receipts : s.tx = r.tx /\ s.worker = r.worker
  <2> DEFINE Ext(r) == IF r.job = l.job /\ r.token = l.token THEN [r EXCEPT !.expiry = newExpiry] ELSE r
  <2>1. receipts' = {Ext(r) : r \in receipts}
    BY DEF Renew, ExtendLease
  <2>2. \A r \in receipts : /\ Ext(r).tx = r.tx /\ Ext(r).job = r.job /\ Ext(r).token = r.token
                            /\ Ext(r).worker = r.worker
    <3>1. receipts \subseteq ReceiptType
      BY DEF IInv, TypeOK
    <3> QED
      BY <3>1 DEF ReceiptType
  <2> HIDE DEF Ext
  <2> QED
    BY <2>1, <2>2
<1> HIDE DEF n
<1>4. \A v \in Workers : \A m \in held'[v] : m \in held[v] \/ (v = w /\ m = n)
  BY <1>2 DEF WTypeOK
<1>5. \A v \in Workers : \A m \in held'[v] :
        \E k \in held[v] : /\ k.job = m.job /\ k.token = m.token
                           /\ m = k \/ (held' # held /\ k = l /\ m = n /\ v = w)
  BY <1>1, <1>2, <1>4
<1>6. HeldIssued'
  BY <1>3, <1>5 DEF HeldIssued
<1>7. HeldOnce'
  <2> SUFFICES ASSUME NEW u \in Workers, NEW v \in Workers,
                      NEW x \in held'[u], NEW y \in held'[v], x.token = y.token
               PROVE  u = v /\ x = y
    BY DEF HeldOnce
  <2>1. CASE held' = held
    BY <2>1 DEF HeldOnce
  <2>2. CASE held' # held
    <3>1. held' = [held EXCEPT ![w] = (@ \ {l}) \cup {n}]
      BY <1>2, <2>2
    <3>2. l \notin held'[w] \/ l = n
      BY <3>1 DEF WTypeOK
    <3>3. PICK k \in held[u] : k.token = x.token /\ (x = k \/ (k = l /\ x = n /\ u = w))
      BY <1>5
    <3>4. PICK m \in held[v] : m.token = y.token /\ (y = m \/ (m = l /\ y = n /\ v = w))
      BY <1>5
    <3>5. u = v /\ k = m
      BY <3>3, <3>4 DEF HeldOnce
    <3> QED
      BY <3>2, <3>3, <3>4, <3>5
  <2> QED
    BY <2>1, <2>2
<1>8. UnsureApart'
  <2> SUFFICES ASSUME NEW u \in Workers, NEW v \in Workers, NEW tx \in unsure[u]
               PROVE  /\ tx \in unsure[v] => v = u
                      /\ \A m \in held'[v] : m.token # Token(tx, m.job)
    BY <1>2 DEF UnsureApart, Token
  <2> QED
    BY <1>5 DEF UnsureApart
<1>9. UnsureOwn'
  BY <1>2, <1>3 DEF UnsureOwn
<1> QED
  BY <1>6, <1>7, <1>8, <1>9

(* A recovery hands its worker the leases of a claim that nobody had been    *)
(* handed, and the claim is no longer in doubt.                             *)
LEMMA RecoverPossession ==
  ASSUME WInv, NEW w \in Workers, NEW tx \in unsure[w], Recover(w, tx)
  PROVE  Possession'
<1> USE DEF WInv, Possession
<1> DEFINE N == {Lease(r.job, r.token, r.expiry) : r \in RecoverClaim(tx, clock).leases}
<1>1. \A m \in N : \E r \in receipts : /\ m = Lease(r.job, r.token, r.expiry) /\ r.tx = tx
                                       /\ m.job = r.job /\ m.token = r.token
                                       /\ m.token = Token(tx, m.job) /\ r.worker = w
  <2>1. \A r \in RecoverClaim(tx, clock).leases : r \in receipts /\ r.tx = tx
    BY RecoveredLeases DEF IInv, ReceiptsOf
  <2>2. \A r \in receipts : r.token = Token(r.tx, r.job)
    BY DEF IInv, TokensFresh
  <2> QED
    BY <2>1, <2>2 DEF Lease, UnsureOwn
<1>2. /\ held' = [held EXCEPT ![w] = @ \cup N]
      /\ unsure' = [unsure EXCEPT ![w] = @ \ {tx}]
      /\ receipts' = receipts
  BY DEF Recover, vars
<1> HIDE DEF N
<1>3. \A v \in Workers : \A m \in held'[v] : m \in held[v] \/ (v = w /\ m \in N)
  BY <1>2 DEF WTypeOK
<1>4. \A v \in Workers : unsure'[v] \subseteq unsure[v] /\ tx \notin unsure'[v]
  BY <1>2 DEF WTypeOK, UnsureApart
<1>5. HeldIssued'
  BY <1>1, <1>2, <1>3 DEF HeldIssued
<1>6. HeldOnce'
  <2> SUFFICES ASSUME NEW u \in Workers, NEW v \in Workers,
                      NEW x \in held'[u], NEW y \in held'[v], x.token = y.token
               PROVE  u = v /\ x = y
    BY DEF HeldOnce
  <2>1. CASE x \in held[u] /\ y \in held[v]
    BY <2>1 DEF HeldOnce
  <2>2. CASE x \in N /\ y \in N /\ u = w /\ v = w
    <3>1. PICK r \in receipts : x = Lease(r.job, r.token, r.expiry) /\ x.token = r.token
                                /\ r.token = Token(tx, r.job)
      BY <1>1, <2>2
    <3>2. PICK s \in receipts : y = Lease(s.job, s.token, s.expiry) /\ y.token = s.token
                                /\ s.token = Token(tx, s.job)
      BY <1>1, <2>2
    <3>3. r.job = s.job
      BY <3>1, <3>2 DEF Token
    <3>4. r = s
      BY <3>1, <3>2, <3>3 DEF IInv, ReceiptsTruthful
    <3> QED
      BY <2>2, <3>1, <3>2, <3>4
  <2>3. ASSUME NEW o \in Workers, NEW m \in held[o], NEW n \in N, m.token = n.token PROVE FALSE
    <3>1. n.token = Token(tx, n.job)
      BY <1>1
    <3>2. m.token[2] = m.job
      BY HeldLease
    <3>3. m.job = n.job
      BY <2>3, <3>1, <3>2 DEF Token
    <3> QED
      BY <2>3, <3>1, <3>3 DEF UnsureApart
  <2> QED
    BY <1>3, <2>1, <2>2, <2>3
<1>7. UnsureApart'
  <2> SUFFICES ASSUME NEW u \in Workers, NEW v \in Workers, NEW t \in unsure'[u]
               PROVE  /\ t \in unsure'[v] => v = u
                      /\ \A m \in held'[v] : m.token # Token(t, m.job)
    BY DEF UnsureApart, Token
  <2>1. t \in unsure[u] /\ t # tx
    BY <1>4
  <2>2. \A m \in held[v] : m.token # Token(t, m.job)
    BY <2>1 DEF UnsureApart
  <2>3. \A m \in N : m.token # Token(t, m.job)
    BY <1>1, <2>1 DEF Token
  <2> QED
    BY <1>3, <1>4, <2>1, <2>2, <2>3 DEF UnsureApart
<1>8. UnsureOwn'
  BY <1>2, <1>4 DEF UnsureOwn
<1> QED
  BY <1>5, <1>6, <1>7, <1>8

(* The tokens of a new claim are nobody's yet, and its id is in no doubt.    *)
LEMMA FreshTokens ==
  ASSUME WInv
  PROVE  /\ \A v \in Workers : \A m \in held[v] : \A j : m.token # Token(lastTx + 1, j)
         /\ \A v \in Workers : lastTx + 1 \notin unsure[v]
         /\ \A r \in receipts : r.tx # lastTx + 1
<1>1. lastTx \in Nat
  BY DEF WInv, IInv, TypeOK
<1>2. \A v \in Workers : \A m \in held[v] : m.token[1] \in Nat /\ m.token[1] <= lastTx
  BY HeldLease
<1>3. \A j : Token(lastTx + 1, j)[1] = lastTx + 1
  BY DEF Token
<1>4. \A v \in Workers : \A m \in held[v] : \A j : m.token # Token(lastTx + 1, j)
  BY <1>1, <1>2, <1>3
<1>5. \A v \in Workers : lastTx + 1 \notin unsure[v]
  BY <1>1 DEF WInv, WTypeOK
<1>6. \A r \in receipts : r.tx <= lastTx /\ r.tx \in Nat
  BY DEF WInv, IInv, TokensFresh, ReceiptsTruthful, TypeOK, ReceiptType
<1>7. \A r \in receipts : r.tx # lastTx + 1
  BY <1>1, <1>6
<1> QED
  BY <1>4, <1>5, <1>7

(* A poll hands out tokens that nobody else has. *)
LEMMA PollPossession ==
  ASSUME WInv, NEW w \in Workers, NEW q \in Queues, NEW len \in LeaseLengths,
         NEW limit \in ClaimLimits, Poll(w, q, len, limit)
  PROVE  Possession'
<1> USE DEF WInv, Possession
<1>1. PICK M, L : ClaimEffect(w, clock + len, M, L)
  BY ClaimTakesEffect DEF Poll
<1>2. /\ held' = [held EXCEPT ![w] = @ \cup GrantedLeases]
      /\ unsure' = unsure
  BY DEF Poll
<1> DEFINE N == GrantedLeases
<1> DEFINE id == lastTx + 1
<1>3. \A m \in N : /\ m = Lease(m.job, Token(id, m.job), clock + len)
                   /\ m.token = Token(id, m.job)
                   /\ \E r \in receipts' : r.job = m.job /\ r.token = m.token /\ r.worker = w
  BY <1>1, GrantedByPoll
<1>a. \A m \in N : m.token = Token(id, m.job) /\ m.token[1] = id /\ m.token[2] = m.job
  <2> SUFFICES ASSUME NEW m \in N
               PROVE  m.token = Token(id, m.job) /\ m.token[1] = id /\ m.token[2] = m.job
    OBVIOUS
  <2>1. m.token = Token(id, m.job)
    BY <1>3
  <2> HIDE DEF N, id
  <2> QED
    BY <2>1 DEF Token
<1>b. \A x, y \in N : x.job = y.job => x = y
  <2> SUFFICES ASSUME NEW x \in N, NEW y \in N, x.job = y.job PROVE x = y
    OBVIOUS
  <2> DEFINE LeaseOn(j) == Lease(j, Token(id, j), clock + len)
  <2>1. x = LeaseOn(x.job) /\ y = LeaseOn(y.job)
    BY <1>3
  <2> HIDE DEF LeaseOn
  <2> QED
    BY <2>1
<1> HIDE DEF N
<1>4. \A v \in Workers : \A m \in held'[v] : m \in held[v] \/ (v = w /\ m \in N)
  BY <1>2 DEF WTypeOK, N
<1>5. receipts \subseteq receipts'
      /\ \A r \in receipts' \ receipts : r.tx = lastTx + 1
  BY <1>1 DEF ClaimEffect
<1>6. HeldIssued'
  <2> SUFFICES ASSUME NEW v \in Workers, NEW m \in held'[v]
               PROVE  \E r \in receipts' : r.job = m.job /\ r.token = m.token /\ r.worker = v
    BY DEF HeldIssued
  <2>1. CASE m \in held[v]
    BY <1>5, <2>1 DEF HeldIssued
  <2>2. CASE v = w /\ m \in N
    BY <1>3, <2>2
  <2> QED
    BY <1>4, <2>1, <2>2
<1>7. HeldOnce'
  <2> SUFFICES ASSUME NEW u \in Workers, NEW v \in Workers,
                      NEW x \in held'[u], NEW y \in held'[v], x.token = y.token
               PROVE  u = v /\ x = y
    BY DEF HeldOnce
  <2>1. CASE x \in held[u] /\ y \in held[v]
    BY <2>1 DEF HeldOnce
  <2>2. CASE x \in N /\ y \in N /\ u = w /\ v = w
    BY <1>a, <1>b, <2>2
  <2>3. ASSUME NEW o \in Workers, NEW m \in held[o], NEW n \in N, m.token = n.token PROVE FALSE
    BY <1>3, <2>3, FreshTokens
  <2> QED
    BY <1>4, <2>1, <2>2, <2>3
<1>8. UnsureApart'
  <2> SUFFICES ASSUME NEW u \in Workers, NEW v \in Workers, NEW t \in unsure[u]
               PROVE  /\ t \in unsure[v] => v = u
                      /\ \A m \in held'[v] : m.token # Token(t, m.job)
    BY <1>2 DEF UnsureApart, Token
  <2>1. t # lastTx + 1
    BY FreshTokens
  <2>2. \A m \in N : m.token # Token(t, m.job)
    <3> SUFFICES ASSUME NEW m \in N PROVE m.token # Token(t, m.job)
      OBVIOUS
    <3>1. m.token[1] = id
      BY <1>a
    <3> HIDE DEF id
    <3> QED
      BY <2>1, <3>1 DEF Token, id
  <2> QED
    BY <1>4, <2>2 DEF UnsureApart
<1>9. UnsureOwn'
  BY <1>2, <1>5, FreshTokens DEF UnsureOwn
<1> QED
  BY <1>6, <1>7, <1>8, <1>9

(* A claim of unknown outcome hands out nothing, and is its worker's to      *)
(* recover.                                                                 *)
LEMMA PollUnsurePossession ==
  ASSUME WInv, NEW w \in Workers, NEW q \in Queues, NEW len \in LeaseLengths,
         NEW limit \in ClaimLimits, PollUnsure(w, q, len, limit)
  PROVE  Possession'
<1> USE DEF WInv, Possession
<1> DEFINE tx == lastTx + 1
<1>1. /\ receipts \subseteq receipts'
      /\ \A r \in receipts' \ receipts : r.tx = tx /\ r.worker = w
      /\ lastTx' = tx
  <2>1. CASE ClaimJobs(q, w, clock, len, limit)
    <3>1. PICK M, L : ClaimEffect(w, clock + len, M, L)
      BY <2>1, ClaimTakesEffect
    <3> QED
      BY <3>1 DEF ClaimEffect
  <2>2. CASE ClaimLost(q, clock, len, limit)
    BY <2>2 DEF ClaimLost
  <2> QED
    BY <2>1, <2>2 DEF PollUnsure
<1>2. held' = held /\ unsure' = [unsure EXCEPT ![w] = @ \cup {tx}]
  BY <1>1 DEF PollUnsure
<1>3. \A v \in Workers : \A t \in unsure'[v] : t \in unsure[v] \/ (v = w /\ t = tx)
  BY <1>2 DEF WTypeOK
<1> HIDE DEF tx
<1>4. /\ \A v \in Workers : \A m \in held[v] : \A j : m.token # Token(tx, j)
      /\ \A v \in Workers : tx \notin unsure[v]
      /\ \A r \in receipts : r.tx # tx
  BY FreshTokens DEF tx
<1>5. HeldIssued' /\ HeldOnce'
  BY <1>1, <1>2 DEF HeldIssued, HeldOnce
<1>6. UnsureApart'
  <2> SUFFICES ASSUME NEW u \in Workers, NEW v \in Workers, NEW t \in unsure'[u]
               PROVE  /\ t \in unsure'[v] => v = u
                      /\ \A m \in held[v] : m.token # Token(t, m.job)
    BY <1>2 DEF UnsureApart, Token
  <2>1. CASE t = tx
    BY <1>3, <1>4, <2>1
  <2>2. CASE t # tx
    BY <1>3, <2>2 DEF UnsureApart
  <2> QED
    BY <2>1, <2>2
<1>7. UnsureOwn'
  <2> SUFFICES ASSUME NEW v \in Workers, NEW t \in unsure'[v], NEW r \in receipts', r.tx = t
               PROVE  r.worker = v
    BY DEF UnsureOwn
  <2>1. CASE r \in receipts
    BY <1>3, <1>4, <2>1 DEF UnsureOwn
  <2>2. CASE r \notin receipts
    BY <1>1, <1>3, <1>4, <2>2
  <2> QED
    BY <2>1, <2>2
<1> QED
  BY <1>5, <1>6, <1>7

(* Every step of a caller preserves the invariant. *)
LEMMA WNextInv == WInv /\ [WNext]_wvars => WInv'
<1> SUFFICES ASSUME WInv, [WNext]_wvars PROVE WInv'
  OBVIOUS
<1>1. IInv'
  BY WorkersUseStore, NextInv DEF WInv
<1>2. WTypeOK'
  BY <1>1, WTypesInv
<1>3. held \in [Workers -> SUBSET [job : JobIds, token : Tokens, expiry : Times]]
      /\ unsure \in [Workers -> SUBSET (1..lastTx)]
  BY DEF WInv, WTypeOK
<1> DEFINE Shrinks == /\ \A w \in Workers : held'[w] \subseteq held[w] /\ unsure'[w] \subseteq unsure[w]
                      /\ UNCHANGED receipts
<1>4. ASSUME NEW w \in Workers, NEW l \in held[w],
             \/ Finish(w, l) \/ Abort(w, l) \/ (\E retry \in RetryTimes : GiveUp(w, l, retry))
             \/ Discard(w, l)
      PROVE  Shrinks
  <2>1. Release(w, l) /\ UNCHANGED <<unsure, receipts>>
    BY <1>4 DEF Finish, AckJob, Abort, CancelJob, GiveUp, FailJob, Discard, Settle, claimVars, vars
  <2> QED
    BY <1>3, <2>1 DEF Release
<1>5. ASSUME NEW w \in Workers, Crash(w)
      PROVE  Shrinks
  BY <1>3, <1>5 DEF Crash, vars
<1>6. ASSUME \/ \E j \in JobIds, spec \in JobSpecs : Submit(j, spec)
             \/ \E j \in JobIds : Withdraw(j)
             \/ \E j \in JobIds, resolution \in Resolutions : Deliver(j, resolution)
             \/ Tick \/ (\E j \in JobIds, resolution \in Resolutions : Decide(j, resolution))
             \/ UNCHANGED wvars
      PROVE  Shrinks
  BY <1>6 DEF Submit, EnqueueJob, Withdraw, CancelJob, Deliver, ResolveJob, Settle, claimVars,
              Tick, Decide, vars, callers, wvars
<1>7. Shrinks => Possession'
  BY PossessionShrinks
<1> HIDE DEF Shrinks
<1>8. Possession'
  BY <1>4, <1>5, <1>6, <1>7, CallerCases, PollPossession, PollUnsurePossession,
     RecoverPossession, RenewPossession
<1> QED
  BY <1>1, <1>2, <1>8 DEF WInv

(* The inductive invariant holds throughout every behaviour of the callers. *)
THEOREM WorkersInvariant == WSpec => []WInv
<1> QED
  BY WInitInv, WNextInv, PTL DEF WSpec

----------------------------------------------------------------------------
(* What the callers' steps do to the rows                                  *)

(* Every step leaves a row alone, settles a row, extends a lease or claims. *)
(* A lease is settled by the worker that holds its token, or never.         *)
LEMMA WithdrawnPending ==
  ASSUME WInv, NEW j \in JobIds, Withdraw(j)
  PROVE  /\ jobs[j].state = "Pending" /\ SettleStep(j, "Cancelled", NULL)
         /\ UNCHANGED callers
BY CancelSettles DEF Withdraw, CancelJob, CancelOk

(* A prompt resolution finds its job uncertain. *)
LEMMA PromptResolution ==
  ASSUME WInv, PromptOperators, NEW j \in JobIds, NEW resolution \in Resolutions,
         Deliver(j, resolution)
  PROVE  /\ jobs[j].state = "Uncertain" /\ \E s \in States : SettleStep(j, s, NULL)
         /\ UNCHANGED <<clock, held, unsure, abandoned>>
BY ResolveSettles DEF Deliver

(* An extension changes one expiry, to a later one. *)
LEMMA ExtensionRows ==
  ASSUME TypeOK, NEW j, NEW token, NEW newExpiry \in Times, NEW now,
         ExtendLease(j, token, newExpiry, now)
  PROVE  /\ j \in DOMAIN jobs /\ jobs[j].token = token /\ jobs[j].state = "Leased"
         /\ now <= jobs[j].expiry /\ newExpiry > jobs[j].expiry
         /\ DOMAIN jobs' = DOMAIN jobs
         /\ \A k \in DOMAIN jobs : k # j => jobs'[k] = jobs[k]
         /\ jobs'[j].state = "Leased" /\ jobs'[j].token = jobs[j].token
         /\ jobs'[j].worker = jobs[j].worker /\ jobs'[j].expiry = newExpiry
         /\ \A r \in receipts : \E s \in receipts' :
              s.tx = r.tx /\ s.job = r.job /\ s.token = r.token
<1>1. /\ jobs \in [DOMAIN jobs -> RowType] /\ receipts \subseteq ReceiptType
      /\ jobs' = [jobs EXCEPT ![j].expiry = newExpiry]
      /\ j \in DOMAIN jobs /\ jobs[j].token = token /\ jobs[j].state = "Leased"
      /\ now <= jobs[j].expiry /\ newExpiry > jobs[j].expiry
  BY DEF TypeOK, ExtendLease, ExtendOk, HoldsToken, Extend
<1>2. /\ DOMAIN jobs' = DOMAIN jobs
      /\ \A k \in DOMAIN jobs : k # j => jobs'[k] = jobs[k]
      /\ jobs'[j].state = "Leased" /\ jobs'[j].token = jobs[j].token
      /\ jobs'[j].worker = jobs[j].worker /\ jobs'[j].expiry = newExpiry
  BY <1>1 DEF RowType
<1> DEFINE Moved(r) == IF r.job = j /\ r.token = token THEN [r EXCEPT !.expiry = newExpiry] ELSE r
<1>3. receipts' = {Moved(r) : r \in receipts}
  BY DEF ExtendLease
<1>4. \A r \in receipts : Moved(r).tx = r.tx /\ Moved(r).job = r.job /\ Moved(r).token = r.token
  BY <1>1 DEF ReceiptType
<1> HIDE DEF Moved
<1>5. \A r \in receipts : \E s \in receipts' : s.tx = r.tx /\ s.job = r.job /\ s.token = r.token
  BY <1>3, <1>4
<1> QED
  BY <1>1, <1>2, <1>5

(* The row of a lease has a worker and an expiry to compare with the clock. *)
LEMMA LeasedRow ==
  ASSUME WInv, NEW j \in DOMAIN jobs, jobs[j].state = "Leased"
  PROVE  jobs[j].worker \in Workers /\ jobs[j].expiry \in Nat /\ jobs[j].token \in Tokens
<1>1. jobs[j] \in RowType /\ NULL \notin {jobs[j].token, jobs[j].worker, jobs[j].expiry}
  BY DEF WInv, IInv, TypeOK, LeaseColumns
<1> QED
  BY <1>1, TableAssumption DEF RowType, Times

(* A job is taken from its worker and made pending only when its lease has   *)
(* expired and its effect may be repeated, and by no other step.             *)
LEMMA BackToPending ==
  ASSUME WInv, PromptOperators, [WNext]_wvars,
         NEW j \in DOMAIN jobs, jobs[j].state = "Leased", jobs'[j].state = "Pending"
  PROVE  jobs[j].spec.mode = "Idempotent" /\ jobs[j].expiry < clock
<1>1. TypeOK
  BY DEF WInv, IInv
<1>2. ASSUME NEW q \in Queues, NEW w \in Workers, NEW len \in LeaseLengths, NEW limit \in ClaimLimits,
             ClaimJobs(q, w, clock, len, limit)
      PROVE  jobs[j].spec.mode = "Idempotent" /\ jobs[j].expiry < clock
  <2>1. PICK M, L : ClaimEffect(w, clock + len, M, L)
    BY <1>2, ClaimTakesEffect
  <2>2. /\ j \notin M => j \in L \/ jobs'[j] = jobs[j]
        /\ j \in M => jobs'[j].state = RepairTarget(jobs[j]) /\ jobs[j].expiry < clock
        /\ j \notin L
    BY <2>1 DEF ClaimEffect, ClaimedRows
  <2>3. jobs[j].spec.mode \in EffectModes
    BY <1>1, TableAssumption DEF TypeOK, RowType, SpecType
  <2> QED
    BY <2>2, <2>3 DEF RepairTarget, EffectModes
<1>3. ASSUME NEW k, NEW s, NEW retry, SettleStep(k, s, retry), s # "Pending" \/ jobs[k].state # "Leased"
      PROVE  FALSE
  <2>1. j # k => jobs'[j] = jobs[j]
    BY <1>1, <1>3, SettleRows
  <2>2. jobs'[k].state = s
    BY <1>1, <1>3, SettleRows
  <2> QED
    BY <1>3, <2>1, <2>2
<1>4. ASSUME NEW w \in Workers, NEW q \in Queues, NEW len \in LeaseLengths, NEW limit \in ClaimLimits,
             Poll(w, q, len, limit) \/ PollUnsure(w, q, len, limit)
      PROVE  jobs[j].spec.mode = "Idempotent" /\ jobs[j].expiry < clock
  <2>1. ClaimJobs(q, w, clock, len, limit) \/ UNCHANGED jobs
    BY <1>4 DEF Poll, PollUnsure, ClaimLost
  <2> QED
    BY <1>2, <2>1
<1>5. ASSUME NEW w \in Workers, NEW l \in held[w],
             Finish(w, l) \/ Abort(w, l) \/ \E retry \in RetryTimes : GiveUp(w, l, retry)
      PROVE  FALSE
  BY <1>3, <1>5, WorkerSettles
<1>6. ASSUME NEW w \in Workers, NEW l \in held[w], NEW newExpiry \in Times, Renew(w, l, newExpiry)
      PROVE  FALSE
  <2>1. ExtendLease(l.job, l.token, newExpiry, clock)
    BY <1>6 DEF Renew
  <2> QED
    BY <1>1, <2>1, ExtensionRows
<1>7. ASSUME NEW k \in JobIds, Withdraw(k)
      PROVE  FALSE
  BY <1>3, <1>7, WithdrawnPending
<1>8. ASSUME NEW k \in JobIds, NEW resolution \in Resolutions, Deliver(k, resolution)
      PROVE  FALSE
  BY <1>3, <1>8, PromptResolution
<1>9. ASSUME NEW k \in JobIds, NEW spec \in JobSpecs, Submit(k, spec)
      PROVE  FALSE
  BY <1>9 DEF Submit, EnqueueJob, EnqueueOk, Enqueue
<1>10. ASSUME \/ \E w \in Workers : \E tx \in unsure[w] : Recover(w, tx)
              \/ \E w \in Workers : (\E l \in held[w] : Discard(w, l)) \/ Crash(w)
              \/ Tick \/ (\E k \in JobIds, resolution \in Resolutions : Decide(k, resolution))
              \/ UNCHANGED wvars
       PROVE  FALSE
  BY <1>10 DEF Recover, Discard, Crash, Tick, Decide, wvars, vars
<1> QED
  BY <1>4, <1>5, <1>6, <1>7, <1>8, <1>9, <1>10, CallerCases

----------------------------------------------------------------------------
(* An executable lease is the current one                                  *)

(* Lease l is the one its job is under, for as long as its worker knows. *)
CurrentFor(w, l) ==
  /\ jobs[l.job].state = "Leased"
  /\ jobs[l.job].token = l.token
  /\ jobs[l.job].worker = w
  /\ jobs[l.job].expiry >= l.expiry

(* The expiry of a lease can be compared with the clock. *)
LEMMA HeldExpiry ==
  ASSUME WInv, NEW w \in Workers, NEW l \in held[w]
  PROVE  l.expiry \in Nat
<1>1. l.expiry \in Times
  BY HeldLease
<1>2. Times \subseteq Nat
  BY TableAssumption DEF Times
<1> QED
  BY <1>1, <1>2

(* The lease of a row that no step touches stays current while it lasts. *)
LEMMA CurrentKept ==
  ASSUME WInv, LiveLeaseIsCurrent, clock' \in Nat, clock' >= clock,
         NEW w \in Workers, NEW l \in held[w], l.expiry >= clock',
         jobs'[l.job] = jobs[l.job]
  PROVE  CurrentFor(w, l)'
<1>1. l.expiry \in Nat /\ clock \in Nat
  BY HeldExpiry, ClockInTimes DEF WInv
<1>2. l.expiry >= clock
  BY <1>1
<1> QED
  BY <1>2 DEF LiveLeaseIsCurrent, CurrentFor

(* While the expiry a worker was told has not passed, no step of another     *)
(* caller takes the lease away.                                             *)
LEMMA LiveStep ==
  ASSUME WInv, PromptOperators, LiveLeaseIsCurrent, [WNext]_wvars
  PROVE  LiveLeaseIsCurrent'
<1>1. TypeOK /\ clock \in Nat /\ clock \in Times
  BY ClockInTimes DEF WInv, IInv
<1>t. held \in [Workers -> SUBSET [job : JobIds, token : Tokens, expiry : Times]]
  BY DEF WInv, WTypeOK
<1>2. SUFFICES ASSUME NEW w \in Workers, NEW l \in held'[w], l.expiry >= clock'
               PROVE  CurrentFor(w, l)'
  BY DEF LiveLeaseIsCurrent, CurrentFor
<1>3. ASSUME l \in held[w], clock' = clock, jobs'[l.job] = jobs[l.job]
      PROVE  CurrentFor(w, l)'
  BY <1>1, <1>2, <1>3, CurrentKept
<1>4. ASSUME l \in held[w], clock' = clock
      PROVE  /\ jobs[l.job].state = "Leased" /\ jobs[l.job].token = l.token
             /\ l.job \in DOMAIN jobs /\ jobs[l.job].expiry >= l.expiry /\ l.expiry >= clock
             /\ jobs[l.job].worker = w
  BY <1>2, <1>4, HeldLease DEF LiveLeaseIsCurrent
<1>5. ASSUME NEW v \in Workers, NEW q \in Queues, NEW len \in LeaseLengths, NEW limit \in ClaimLimits,
             ClaimJobs(q, v, clock, len, limit), clock' = clock, l \in held[w]
      PROVE  CurrentFor(w, l)'
  <2>1. PICK M, L : ClaimEffect(v, clock + len, M, L)
    BY <1>5, ClaimTakesEffect
  <2>2. l.expiry \in Nat /\ jobs[l.job].expiry \in Nat
    BY <1>4, <1>5, HeldExpiry, LeasedRow
  <2>3. ~(jobs[l.job].expiry < clock)
    BY <1>1, <1>4, <1>5, <2>2
  <2>4. l.job \notin M /\ l.job \notin L
    BY <1>4, <1>5, <2>1, <2>3 DEF ClaimEffect
  <2>5. jobs'[l.job] = jobs[l.job]
    BY <1>4, <1>5, <2>1, <2>4 DEF ClaimEffect, ClaimedRows
  <2> QED
    BY <1>3, <1>5, <2>5
<1>6. ASSUME NEW v \in Workers, NEW q \in Queues, NEW len \in LeaseLengths, NEW limit \in ClaimLimits,
             Poll(v, q, len, limit)
      PROVE  CurrentFor(w, l)'
  <2>1. /\ ClaimJobs(q, v, clock, len, limit) /\ clock' = clock
        /\ held' = [held EXCEPT ![v] = @ \cup GrantedLeases]
    BY <1>6 DEF Poll
  <2>2. CASE l \in held[w]
    BY <1>5, <2>1, <2>2
  <2>3. CASE w = v /\ l \in GrantedLeases
    <3>1. PICK M, L : ClaimEffect(v, clock + len, M, L)
      BY <2>1, ClaimTakesEffect
    <3>2. l.job \in L /\ l.token = Token(lastTx + 1, l.job) /\ l.expiry = clock + len
      BY <2>3, <3>1, GrantedByPoll
    <3>3. /\ jobs'[l.job].state = "Leased" /\ jobs'[l.job].token = Token(lastTx + 1, l.job)
          /\ jobs'[l.job].worker = v /\ jobs'[l.job].expiry = clock + len
      BY <3>1, <3>2 DEF ClaimEffect, ClaimedRows
    <3>4. clock + len \in Nat
      BY <2>1, ClaimTakesEffect, TableAssumption DEF Times
    <3> QED
      BY <2>3, <3>2, <3>3, <3>4 DEF CurrentFor
  <2> QED
    BY <1>t, <2>1, <2>2, <2>3
<1>7. ASSUME NEW v \in Workers, NEW q \in Queues, NEW len \in LeaseLengths, NEW limit \in ClaimLimits,
             PollUnsure(v, q, len, limit)
      PROVE  CurrentFor(w, l)'
  <2>1. held' = held /\ clock' = clock /\ (ClaimJobs(q, v, clock, len, limit) \/ jobs' = jobs)
    BY <1>7 DEF PollUnsure, ClaimLost
  <2> QED
    BY <1>3, <1>5, <2>1
<1>8. ASSUME NEW v \in Workers, NEW tx \in unsure[v], Recover(v, tx)
      PROVE  CurrentFor(w, l)'
  <2> DEFINE N == {Lease(r.job, r.token, r.expiry) : r \in RecoverClaim(tx, clock).leases}
  <2>1. jobs' = jobs /\ clock' = clock /\ held' = [held EXCEPT ![v] = @ \cup N]
    BY <1>8 DEF Recover, vars
  <2>2. CASE l \in held[w]
    BY <1>3, <2>1, <2>2
  <2>3. CASE w = v /\ l \in N
    <3>1. PICK r \in receipts : /\ r.tx = tx /\ StillCurrent(r, clock)
                                /\ l.job = r.job /\ l.token = r.token /\ l.expiry = r.expiry
      BY <2>3, RecoveredLeases DEF WInv, IInv, ReceiptsOf, Lease
    <3>2. r.job \in DOMAIN jobs /\ r.worker = v
      BY <3>1 DEF WInv, IInv, ReceiptsTruthful, Possession, UnsureOwn
    <3>3. jobs[r.job].state = "Leased" /\ jobs[r.job].token = r.token
      BY <3>1 DEF StillCurrent
    <3>4. PICK s \in receipts : /\ s.job = r.job /\ s.token = r.token
                                /\ s.worker = jobs[r.job].worker /\ s.expiry = jobs[r.job].expiry
      BY <3>2, <3>3 DEF WInv, IInv, ReceiptsTruthful
    <3>5. s = r
      BY <3>4 DEF WInv, IInv, ReceiptsTruthful
    <3>6. jobs[l.job].expiry = l.expiry /\ l.expiry \in Nat
      BY <3>1, <3>2, <3>3, <3>4, <3>5, LeasedRow
    <3> QED
      BY <2>1, <2>3, <3>1, <3>2, <3>3, <3>4, <3>5, <3>6 DEF CurrentFor
  <2> QED
    BY <1>t, <2>1, <2>2, <2>3
<1>9. ASSUME NEW v \in Workers, NEW k \in held[v],
             Finish(v, k) \/ Abort(v, k) \/ \E retry \in RetryTimes : GiveUp(v, k, retry)
      PROVE  CurrentFor(w, l)'
  <2>1. PICK s, retry : SettleStep(k.job, s, retry)
    BY <1>9, WorkerSettles
  <2>2. jobs[k.job].token = k.token /\ held' = [held EXCEPT ![v] = @ \ {k}] /\ clock' = clock
    BY <1>9, WorkerSettles DEF Release
  <2>3. l \in held[w] /\ ~(w = v /\ l = k)
    BY <1>t, <2>2
  <2>4. l.token # k.token
    BY <2>3 DEF WInv, Possession, HeldOnce
  <2>5. l.job # k.job
    BY <1>4, <2>2, <2>3, <2>4
  <2>6. jobs'[l.job] = jobs[l.job]
    BY <1>1, <1>4, <2>1, <2>2, <2>3, <2>5, SettleRows
  <2> QED
    BY <1>3, <2>2, <2>3, <2>6
<1>10. ASSUME NEW v \in Workers, NEW k \in held[v], NEW newExpiry \in Times, Renew(v, k, newExpiry)
       PROVE  CurrentFor(w, l)'
  <2> DEFINE n == Lease(k.job, k.token, newExpiry)
  <2>1. /\ ExtendLease(k.job, k.token, newExpiry, clock) /\ clock' = clock
        /\ held' \in {held, [held EXCEPT ![v] = (@ \ {k}) \cup {n}]}
    BY <1>10 DEF Renew
  <2>2. /\ k.job \in DOMAIN jobs /\ jobs[k.job].token = k.token /\ jobs[k.job].state = "Leased"
        /\ newExpiry > jobs[k.job].expiry
        /\ \A i \in DOMAIN jobs : i # k.job => jobs'[i] = jobs[i]
        /\ jobs'[k.job].state = "Leased" /\ jobs'[k.job].token = jobs[k.job].token
        /\ jobs'[k.job].worker = jobs[k.job].worker /\ jobs'[k.job].expiry = newExpiry
    BY <1>1, <2>1, ExtensionRows
  <2>3. jobs[k.job].expiry \in Nat /\ newExpiry \in Nat
    BY <2>2, LeasedRow, TableAssumption DEF Times
  <2>4. CASE l \in held[w] /\ l.job # k.job
    BY <1>3, <1>4, <2>1, <2>2, <2>4
  <2>5. CASE l \in held[w] /\ l.job = k.job
    <3>1. jobs[l.job].expiry >= l.expiry /\ jobs[l.job].worker = w /\ jobs[l.job].token = l.token
      BY <1>4, <2>1, <2>5
    <3>2. l.expiry \in Nat
      BY <2>5, HeldExpiry
    <3>3. newExpiry >= l.expiry
      BY <2>2, <2>3, <2>5, <3>1, <3>2
    <3> QED
      BY <2>2, <2>5, <3>1, <3>3 DEF CurrentFor
  <2>6. CASE w = v /\ l = n
    <3>1. l.job = k.job /\ l.token = k.token /\ l.expiry = newExpiry
      BY <2>6 DEF Lease
    <3>2. PICK r \in receipts : r.job = k.job /\ r.token = k.token /\ r.worker = v
      BY DEF WInv, Possession, HeldIssued
    <3>3. PICK s \in receipts : s.job = k.job /\ s.token = k.token /\ s.worker = jobs[k.job].worker
      BY <2>2 DEF WInv, IInv, ReceiptsTruthful
    <3>4. r = s
      BY <3>2, <3>3 DEF WInv, IInv, ReceiptsTruthful
    <3> QED
      BY <2>2, <2>3, <2>6, <3>1, <3>2, <3>3, <3>4 DEF CurrentFor
  <2> QED
    BY <1>t, <2>1, <2>4, <2>5, <2>6
<1>11. ASSUME NEW j, NEW s, NEW retry, SettleStep(j, s, retry), jobs[j].state # "Leased",
              UNCHANGED <<clock, held>>
       PROVE  CurrentFor(w, l)'
  BY <1>1, <1>3, <1>4, <1>11, SettleRows
<1>12. ASSUME NEW j \in JobIds, Withdraw(j)
       PROVE  CurrentFor(w, l)'
  BY <1>11, <1>12, WithdrawnPending DEF callers
<1>13. ASSUME NEW j \in JobIds, NEW resolution \in Resolutions, Deliver(j, resolution)
       PROVE  CurrentFor(w, l)'
  BY <1>11, <1>13, PromptResolution
<1>14. ASSUME NEW j \in JobIds, NEW spec \in JobSpecs, Submit(j, spec)
       PROVE  CurrentFor(w, l)'
  <2>1. clock' = clock /\ held' = held /\ j \notin DOMAIN jobs /\ jobs' = Enqueue(jobs, j, spec, lastSeq + 1)
    BY <1>14 DEF Submit, EnqueueJob, EnqueueOk, callers
  <2>2. jobs'[l.job] = jobs[l.job]
    BY <1>4, <2>1 DEF Enqueue
  <2> QED
    BY <1>3, <2>1, <2>2
<1>15. ASSUME (\E v \in Workers : (\E k \in held[v] : Discard(v, k)) \/ Crash(v))
              \/ (\E j \in JobIds, resolution \in Resolutions : Decide(j, resolution))
              \/ UNCHANGED wvars
       PROVE  CurrentFor(w, l)'
  <2>1. clock' = clock /\ jobs' = jobs
    BY <1>15 DEF Discard, Crash, Decide, wvars, vars, callers
  <2>2. l \in held[w]
    BY <1>t, <1>15 DEF Discard, Release, Crash, Decide, wvars, callers
  <2> QED
    BY <1>3, <2>1, <2>2
<1>16. ASSUME Tick
       PROVE  CurrentFor(w, l)'
  <2>1. clock' = clock + 1 /\ held' = held /\ jobs' = jobs
    BY <1>16 DEF Tick, vars
  <2>2. clock' \in Nat /\ clock' >= clock
    BY <1>1, <2>1
  <2> QED
    BY <1>2, <2>1, <2>2, CurrentKept
<1> QED
  BY <1>6, <1>7, <1>8, <1>9, <1>10, <1>12, <1>13, <1>14, <1>15, <1>16, CallerCases

----------------------------------------------------------------------------
(* Every lease can be reached                                              *)

(* A lease that a step leaves in the store stays accounted for if whoever    *)
(* had it still has it, or lost it in a crash.                              *)
LEMMA StaysAccounted ==
  ASSUME WInv, Accounted, NEW j \in DOMAIN jobs,
         jobs[j].state = "Leased", jobs[j].expiry >= clock,
         jobs'[j].token = jobs[j].token, jobs'[j].worker = jobs[j].worker,
         abandoned \subseteq abandoned',
         \A r \in receipts : \E s \in receipts' : s.tx = r.tx /\ s.job = r.job /\ s.token = r.token,
         \A w \in Workers : \A l \in held[w] : l.token = jobs[j].token =>
            (\E m \in held'[w] : m.token = l.token) \/ l.token \in abandoned',
         \A w \in Workers : \A r \in receipts :
            r.tx \in unsure[w] /\ r.job = j /\ r.token = jobs[j].token =>
              \/ r.tx \in unsure'[w]
              \/ \E m \in held'[w] : m.token = r.token
              \/ r.token \in abandoned'
  PROVE  AccountedFor(j)'
<1>1. AccountedFor(j) /\ jobs[j].worker \in Workers
  BY LeasedRow DEF Accounted
<1>2. CASE \E l \in held[jobs[j].worker] : l.token = jobs[j].token
  BY <1>1, <1>2 DEF AccountedFor
<1>3. CASE \E r \in receipts : r.job = j /\ r.token = jobs[j].token /\ r.tx \in unsure[jobs[j].worker]
  BY <1>1, <1>3 DEF AccountedFor
<1>4. CASE jobs[j].token \in abandoned
  BY <1>4 DEF AccountedFor
<1> QED
  BY <1>1, <1>2, <1>3, <1>4 DEF AccountedFor

(* No step loses track of a lease in the store. *)
LEMMA AccountedStep ==
  ASSUME WInv, Accounted, [WNext]_wvars
  PROVE  Accounted'
<1>1. TypeOK /\ clock \in Nat /\ clock \in Times
  BY ClockInTimes DEF WInv, IInv
<1>t. /\ held \in [Workers -> SUBSET [job : JobIds, token : Tokens, expiry : Times]]
      /\ unsure \in [Workers -> SUBSET (1..lastTx)]
  BY DEF WInv, WTypeOK
<1>2. SUFFICES ASSUME NEW j \in DOMAIN jobs', jobs'[j].state = "Leased", jobs'[j].expiry >= clock'
               PROVE  AccountedFor(j)'
  BY DEF Accounted
<1> DEFINE Was == j \in DOMAIN jobs /\ jobs[j].state = "Leased" /\ jobs[j].expiry >= clock
           Row == jobs'[j].token = jobs[j].token /\ jobs'[j].worker = jobs[j].worker
           Kept == \A r \in receipts : \E s \in receipts' :
                      s.tx = r.tx /\ s.job = r.job /\ s.token = r.token
<1>3. ASSUME Was, Row, Kept, abandoned \subseteq abandoned',
             \A w \in Workers : held[w] \subseteq held'[w] /\ unsure[w] \subseteq unsure'[w]
      PROVE  AccountedFor(j)'
  BY <1>3, StaysAccounted
<1>4. ASSUME NEW v \in Workers, NEW expiry, NEW M, NEW L, ClaimEffect(v, expiry, M, L),
             clock' = clock, abandoned' = abandoned,
             \A w \in Workers : held[w] \subseteq held'[w] /\ unsure[w] \subseteq unsure'[w],
             \/ lastTx' \in unsure'[v]
             \/ GrantedLeases \subseteq held'[v]
      PROVE  AccountedFor(j)'
  <2>1. CASE j \in L
    <3>1. jobs'[j].token = Token(lastTx + 1, j) /\ jobs'[j].worker = v
      BY <1>4, <2>1 DEF ClaimEffect, ClaimedRows
    <3>2. PICK r \in receipts' : r.job = j /\ r.token = Token(lastTx + 1, r.job) /\ r.tx = lastTx'
      BY <1>4, <2>1 DEF ClaimEffect
    <3>3. PICK l \in GrantedLeases : l.job = j /\ l.token = Token(lastTx + 1, l.job)
      BY <1>4, <2>1, GrantedByPoll
    <3> QED
      BY <1>4, <3>1, <3>2, <3>3 DEF AccountedFor
  <2>2. CASE j \notin L
    <3>1. j \notin M
      BY <1>2, <1>4 DEF ClaimEffect, ClaimedRows
    <3>2. j \in DOMAIN jobs /\ jobs'[j] = jobs[j]
      BY <1>4, <2>2, <3>1 DEF ClaimEffect, ClaimedRows
    <3>3. Was /\ Row
      BY <1>2, <1>4, <3>2
    <3>4. Kept
      BY <1>4 DEF ClaimEffect
    <3> HIDE DEF Was, Row, Kept
    <3> QED
      BY <1>3, <1>4, <3>3, <3>4
  <2> QED
    BY <2>1, <2>2
<1>5. ASSUME NEW v \in Workers, NEW q \in Queues, NEW len \in LeaseLengths, NEW limit \in ClaimLimits,
             Poll(v, q, len, limit)
      PROVE  AccountedFor(j)'
  <2>1. PICK M, L : ClaimEffect(v, clock + len, M, L)
    BY <1>5, ClaimTakesEffect DEF Poll
  <2>2. /\ held' = [held EXCEPT ![v] = @ \cup GrantedLeases]
        /\ UNCHANGED <<clock, unsure, abandoned>>
    BY <1>5 DEF Poll
  <2>3. GrantedLeases \subseteq held'[v]
        /\ \A w \in Workers : held[w] \subseteq held'[w] /\ unsure[w] \subseteq unsure'[w]
    BY <1>t, <2>2
  <2> QED
    BY <1>4, <2>1, <2>2, <2>3
<1>6. ASSUME jobs' = jobs, clock' \in {clock, clock + 1}, receipts' = receipts,
             abandoned \subseteq abandoned'
      PROVE  Was /\ Row /\ Kept
  <2>1. j \in DOMAIN jobs /\ jobs[j].state = "Leased" /\ jobs[j].expiry >= clock'
    BY <1>2, <1>6
  <2>2. jobs[j].expiry \in Nat
    BY <2>1, LeasedRow
  <2>3. jobs[j].expiry >= clock
    BY <1>1, <1>6, <2>1, <2>2
  <2> QED
    BY <1>6, <2>1, <2>3
<1>7. ASSUME NEW v \in Workers, NEW q \in Queues, NEW len \in LeaseLengths, NEW limit \in ClaimLimits,
             PollUnsure(v, q, len, limit)
      PROVE  AccountedFor(j)'
  <2>1. unsure' = [unsure EXCEPT ![v] = @ \cup {lastTx'}] /\ UNCHANGED <<clock, held, abandoned>>
    BY <1>7 DEF PollUnsure
  <2>2. lastTx' \in unsure'[v]
        /\ \A w \in Workers : held[w] \subseteq held'[w] /\ unsure[w] \subseteq unsure'[w]
    BY <1>t, <2>1
  <2>3. CASE ClaimJobs(q, v, clock, len, limit)
    <3>1. PICK M, L : ClaimEffect(v, clock + len, M, L)
      BY <2>3, ClaimTakesEffect
    <3> QED
      BY <1>4, <2>1, <2>2, <3>1
  <2>4. CASE ClaimLost(q, clock, len, limit)
    <3>1. jobs' = jobs /\ receipts' = receipts
      BY <2>4 DEF ClaimLost
    <3>2. Was /\ Row /\ Kept
      BY <1>6, <2>1, <3>1
    <3> HIDE DEF Was, Row, Kept
    <3> QED
      BY <1>3, <2>1, <2>2, <3>2
  <2> QED
    BY <1>7, <2>3, <2>4 DEF PollUnsure
<1>8. ASSUME NEW v \in Workers, NEW tx \in unsure[v], Recover(v, tx)
      PROVE  AccountedFor(j)'
  <2> DEFINE N == {Lease(r.job, r.token, r.expiry) : r \in RecoverClaim(tx, clock).leases}
  <2>1. /\ jobs' = jobs /\ receipts' = receipts /\ clock' = clock /\ abandoned' = abandoned
        /\ held' = [held EXCEPT ![v] = @ \cup N]
        /\ unsure' = [unsure EXCEPT ![v] = @ \ {tx}]
    BY <1>8 DEF Recover, vars
  <2>2. Was /\ Row /\ Kept
    BY <1>6, <2>1
  <2>3. \A w \in Workers : held[w] \subseteq held'[w]
    BY <1>t, <2>1
  <2>4. ASSUME NEW w \in Workers, NEW r \in receipts, r.tx \in unsure[w], r.job = j, r.token = jobs[j].token
        PROVE  r.tx \in unsure'[w] \/ \E m \in held'[w] : m.token = r.token
    <3>1. CASE r.tx = tx /\ w = v
      <4>1. r \in RecoverClaim(tx, clock).leases
        BY <2>2, <2>4, <3>1, RecoveredLeases DEF WInv, IInv, ReceiptsOf, StillCurrent
      <4>2. Lease(r.job, r.token, r.expiry) \in held'[v]
        BY <1>t, <2>1, <4>1
      <4> QED
        BY <3>1, <4>2 DEF Lease
    <3>2. CASE ~(r.tx = tx /\ w = v)
      BY <1>t, <2>1, <2>4, <3>2
    <3> QED
      BY <3>1, <3>2
  <2> HIDE DEF N
  <2> QED
    BY <2>1, <2>2, <2>3, <2>4, StaysAccounted
<1>9. ASSUME NEW v \in Workers, NEW k \in held[v], Release(v, k),
             UNCHANGED <<unsure, abandoned>>, Was, Row, Kept, jobs[j].token # k.token
      PROVE  AccountedFor(j)'
  <2>1. \A w \in Workers : unsure[w] \subseteq unsure'[w]
                           /\ \A l \in held[w] : l.token = jobs[j].token => l \in held'[w]
    BY <1>t, <1>9 DEF Release
  <2> QED
    BY <1>9, <2>1, StaysAccounted
<1>10. ASSUME NEW i, NEW s, NEW retry, SettleStep(i, s, retry), clock' = clock
       PROVE  Was /\ Row /\ Kept /\ j # i
  <2>1. /\ DOMAIN jobs' = DOMAIN jobs /\ jobs'[i].state = s /\ s # "Leased" /\ receipts' = receipts
        /\ \A k \in DOMAIN jobs : k # i => jobs'[k] = jobs[k]
    BY <1>1, <1>10, SettleRows DEF SettleStep
  <2>2. j # i /\ j \in DOMAIN jobs
    BY <1>2, <2>1
  <2>3. jobs'[j] = jobs[j]
    BY <2>1, <2>2
  <2> QED
    BY <1>2, <1>10, <2>1, <2>2, <2>3
<1>11. ASSUME NEW v \in Workers, NEW k \in held[v],
              Finish(v, k) \/ Abort(v, k) \/ \E retry \in RetryTimes : GiveUp(v, k, retry)
       PROVE  AccountedFor(j)'
  <2>1. PICK s, retry : SettleStep(k.job, s, retry)
    BY <1>11, WorkerSettles
  <2>2. /\ Release(v, k) /\ UNCHANGED <<clock, unsure, abandoned>>
    BY <1>11, WorkerSettles
  <2>3. Was /\ Row /\ Kept /\ j # k.job
    BY <1>10, <2>1, <2>2
  <2>4. jobs[j].token # k.token
    <3>1. PICK r \in receipts : r.job = j /\ r.token = jobs[j].token
      BY <2>3 DEF WInv, IInv, ReceiptsTruthful
    <3>2. r.token[2] = j
      BY <3>1 DEF WInv, IInv, TokensFresh, Token
    <3>3. k.token[2] = k.job
      BY HeldLease
    <3> QED
      BY <2>3, <3>1, <3>2, <3>3
  <2> HIDE DEF Was, Row, Kept
  <2> QED
    BY <1>9, <2>2, <2>3, <2>4
<1>12. ASSUME NEW v \in Workers, NEW k \in held[v], Discard(v, k)
       PROVE  AccountedFor(j)'
  <2>1. /\ jobs' = jobs /\ receipts' = receipts /\ clock' = clock
        /\ Release(v, k) /\ UNCHANGED <<unsure, abandoned>> /\ jobs[k.job].token # k.token
    BY <1>12 DEF Discard, vars
  <2>2. Was /\ Row /\ Kept
    BY <1>6, <2>1
  <2>3. jobs[j].token # k.token
    <3>1. PICK r \in receipts : r.job = j /\ r.token = jobs[j].token
      BY <2>2 DEF WInv, IInv, ReceiptsTruthful
    <3>2. r.token[2] = j
      BY <3>1 DEF WInv, IInv, TokensFresh, Token
    <3>3. k.token[2] = k.job
      BY HeldLease
    <3> QED
      BY <2>1, <3>1, <3>2, <3>3
  <2> HIDE DEF Was, Row, Kept
  <2> QED
    BY <1>9, <2>1, <2>2, <2>3
<1>13. ASSUME NEW v \in Workers, NEW k \in held[v], NEW newExpiry \in Times, Renew(v, k, newExpiry)
       PROVE  AccountedFor(j)'
  <2> DEFINE n == Lease(k.job, k.token, newExpiry)
  <2>1. /\ ExtendLease(k.job, k.token, newExpiry, clock) /\ UNCHANGED <<clock, unsure, abandoned>>
        /\ held' \in {held, [held EXCEPT ![v] = (@ \ {k}) \cup {n}]}
    BY <1>13 DEF Renew
  <2>2. /\ k.job \in DOMAIN jobs /\ jobs[k.job].state = "Leased" /\ clock <= jobs[k.job].expiry
        /\ DOMAIN jobs' = DOMAIN jobs
        /\ \A i \in DOMAIN jobs : i # k.job => jobs'[i] = jobs[i]
        /\ jobs'[k.job].token = jobs[k.job].token
        /\ jobs'[k.job].worker = jobs[k.job].worker
        /\ Kept
    BY <1>1, <2>1, ExtensionRows
  <2>3. Was /\ Row
    <3>1. CASE j = k.job
      <4>1. jobs[j].expiry \in Nat
        BY <2>2, <3>1, LeasedRow
      <4>2. jobs[j].expiry >= clock
        BY <1>1, <2>2, <3>1, <4>1
      <4> QED
        BY <2>2, <3>1, <4>2
    <3>2. CASE j # k.job
      BY <1>2, <2>1, <2>2, <3>2
    <3> QED
      BY <3>1, <3>2
  <2>4. n.token = k.token
    BY DEF Lease
  <2> HIDE DEF n
  <2>5. ASSUME NEW w \in Workers, NEW l \in held[w]
        PROVE  \E m \in held'[w] : m.token = l.token
    BY <1>t, <2>1, <2>4
  <2>6. Kept
    BY <2>2
  <2> HIDE DEF Kept
  <2>7. \A w \in Workers : \A r : r \in unsure[w] => r \in unsure'[w]
    BY <2>1
  <2>8. \A r \in receipts : \E s \in receipts' : s.tx = r.tx /\ s.job = r.job /\ s.token = r.token
    BY <2>6 DEF Kept
  <2> QED
    BY <2>1, <2>3, <2>5, <2>7, <2>8, StaysAccounted
<1>14. ASSUME NEW v \in Workers, Crash(v)
       PROVE  AccountedFor(j)'
  <2> DEFINE A == {l.token : l \in held[v]}
             B == {r.token : r \in {s \in receipts : s.tx \in unsure[v]}}
  <2>1. /\ jobs' = jobs /\ receipts' = receipts /\ clock' = clock
        /\ abandoned' = abandoned \cup A \cup B
        /\ held' = [held EXCEPT ![v] = {}]
        /\ unsure' = [unsure EXCEPT ![v] = {}]
    BY <1>14 DEF Crash, vars
  <2>2. Was /\ Row /\ Kept
    BY <1>6, <2>1
  <2>3. ASSUME NEW w \in Workers, NEW l \in held[w]
        PROVE  l \in held'[w] \/ l.token \in abandoned'
    BY <1>t, <2>1
  <2>4. ASSUME NEW w \in Workers, NEW r \in receipts, r.tx \in unsure[w]
        PROVE  r.tx \in unsure'[w] \/ r.token \in abandoned'
    BY <1>t, <2>1, <2>4
  <2> HIDE DEF A, B
  <2> QED
    BY <2>1, <2>2, <2>3, <2>4, StaysAccounted
<1>15. ASSUME UNCHANGED <<clock, held, unsure, abandoned>>, Was, Row, Kept
       PROVE  AccountedFor(j)'
  BY <1>3, <1>15
<1>16. ASSUME NEW i \in JobIds, Withdraw(i) \/ (\E resolution \in Resolutions : Deliver(i, resolution))
       PROVE  AccountedFor(j)'
  <2>1. UNCHANGED <<clock, held, unsure, abandoned>>
    BY <1>16 DEF Withdraw, Deliver, callers
  <2>2. \E s, retry : SettleStep(i, s, retry)
    BY <1>16, WithdrawnPending, ResolveSettles DEF Deliver
  <2>3. Was /\ Row /\ Kept
    BY <1>10, <2>1, <2>2
  <2> HIDE DEF Was, Row, Kept
  <2> QED
    BY <1>15, <2>1, <2>3
<1>17. ASSUME NEW i \in JobIds, NEW spec \in JobSpecs, Submit(i, spec)
       PROVE  AccountedFor(j)'
  <2>1. /\ UNCHANGED <<clock, held, unsure, abandoned>> /\ receipts' = receipts
        /\ i \notin DOMAIN jobs /\ jobs' = Enqueue(jobs, i, spec, lastSeq + 1)
    BY <1>17 DEF Submit, EnqueueJob, EnqueueOk, callers, claimVars
  <2>2. jobs'[i].state = "Pending" /\ \A k \in DOMAIN jobs' : k # i => k \in DOMAIN jobs /\ jobs'[k] = jobs[k]
    BY <2>1 DEF Enqueue, NewRow
  <2>3. Was /\ Row /\ Kept
    BY <1>2, <2>1, <2>2
  <2> HIDE DEF Was, Row, Kept
  <2> QED
    BY <1>15, <2>1, <2>3
<1>18. ASSUME Tick \/ (\E i \in JobIds, resolution \in Resolutions : Decide(i, resolution))
              \/ UNCHANGED wvars
       PROVE  AccountedFor(j)'
  <2>1. /\ UNCHANGED <<jobs, receipts, held, unsure, abandoned>>
        /\ clock' \in {clock, clock + 1}
    BY <1>18 DEF Tick, Decide, wvars, vars, callers
  <2>2. Was /\ Row /\ Kept
    BY <1>6, <2>1
  <2> HIDE DEF Was, Row, Kept
  <2> QED
    BY <1>3, <2>1, <2>2
<1> QED
  BY <1>5, <1>7, <1>8, <1>11, <1>12, <1>13, <1>14, <1>16, <1>17, <1>18, CallerCases

(* Every lease in the store is known to its worker, can be recovered by it, *)
(* or was lost in a crash.                                                  *)
LEMMA AccountedMeansLeaseAccounted ==
  ASSUME WInv, Accounted
  PROVE  LeaseAccounted
<1>1. WTypeOK
  BY DEF WInv
<1> SUFFICES ASSUME NEW j \in DOMAIN jobs, jobs[j].state = "Leased", jobs[j].expiry >= clock,
                    NEW r \in receipts, r.job = j, r.token = jobs[j].token,
                    r.tx \in unsure[jobs[j].worker]
             PROVE  \E tx \in unsure[jobs[j].worker] :
                      \E s \in RecoverClaim(tx, clock).leases : s.token = jobs[j].token
  BY <1>1 DEF LeaseAccounted, Accounted, AccountedFor
<1>2. ReceiptsTruthful
  BY DEF WInv, IInv
<1>3. r \in ReceiptsOf(r.tx) /\ StillCurrent(r, clock)
  BY DEF ReceiptsOf, StillCurrent
<1>4. r \in RecoverClaim(r.tx, clock).leases
  BY <1>2, <1>3, RecoveredLeases
<1> QED
  BY <1>4

----------------------------------------------------------------------------
(* The theorems                                                            *)

(* A lease in the store is never stranded: the worker it was granted to was *)
(* handed it, can still recover the claim that granted it, or has crashed,  *)
(* whichever claims and extensions reported an unknown outcome.             *)
THEOREM LeasesAreAccountedFor == WSpec => []LeaseAccounted
<1>1. WInit => WInv /\ Accounted
  BY WInitInv
<1>2. WInv /\ Accounted /\ [WNext]_wvars => (WInv /\ Accounted)'
  BY WNextInv, AccountedStep
<1>3. WInv /\ Accounted => LeaseAccounted
  BY AccountedMeansLeaseAccounted
<1> QED
  BY <1>1, <1>2, <1>3, PTL DEF WSpec

(* With operators that resolve a job only while it is uncertain, the lease a *)
(* worker executes under is the current one of its job until the expiry it  *)
(* was told: no two workers execute a job at once.  A late resolution does   *)
(* break this (LateResolution.cfg): the assumption is what the callers owe.  *)
THEOREM LiveLeasesAreCurrent == ASSUME PromptOperators PROVE WSpec => []LiveLeaseIsCurrent
<1>1. WInit => WInv /\ LiveLeaseIsCurrent
  BY WInitInv
<1>2. WInv /\ LiveLeaseIsCurrent /\ [WNext]_wvars => (WInv /\ LiveLeaseIsCurrent)'
  BY WNextInv, LiveStep
<1> QED
  BY <1>1, <1>2, PTL DEF WSpec

(* With such operators, a leased job is made pending only by the maintenance *)
(* of an expired lease of an idempotent job.                                *)
THEOREM PendingOnlyByExpiry == ASSUME PromptOperators PROVE WSpec => LeasedToPendingOnlyByExpiry
<1>1. WInv /\ [WNext]_wvars =>
        [\A j \in DOMAIN jobs :
           jobs[j].state = "Leased" /\ jobs'[j].state = "Pending" =>
             jobs[j].spec.mode = "Idempotent" /\ jobs[j].expiry < clock]_wvars
  BY BackToPending
<1> QED
  BY <1>1, WorkersInvariant, PTL DEF WSpec, LeasedToPendingOnlyByExpiry

(* The callers use the store as any caller may, so everything proved of the *)
(* store holds under them.                                                  *)
THEOREM WorkersRefineStore == WSpec => Spec
<1>1. WInit => Init
  BY DEF WInit
<1>2. WInv /\ [WNext]_wvars => [Next]_vars
  BY WorkersUseStore
<1> QED
  BY <1>1, <1>2, WorkersInvariant, PTL DEF WSpec, Spec

----------------------------------------------------------------------------
(* The abstract queue.  The invariant of JobStoreProofs provides what a     *)
(* step of the queue asks for and no single operation of the store checks,  *)
(* that the head of a line has nobody ahead, that tokens are new and that   *)
(* what leaves its line does not come back.                                 *)

(* The jobs that stand in a line: those that are not terminal *)
Line == WithState(ActiveStates)

(* Every component of the mapping as a set or function of the rows: what    *)
(* the step lemmas compare before and after.                                *)
LEMMA MappedDomains ==
  /\ DOMAIN lineOf = DOMAIN jobs
  /\ DOMAIN aheadOf = Line
  /\ DOMAIN leaseOf = WithState({"Leased"})
BY DEF lineOf, aheadOf, leaseOf, Line

(* Rows that keep their specification and their sequence keep their line,   *)
(* and those that leave it, S, are no longer ahead of the others.           *)
LEMMA LinesKept ==
  ASSUME DOMAIN jobs' = DOMAIN jobs,
         \A k \in DOMAIN jobs : jobs'[k].spec = jobs[k].spec /\ jobs'[k].seq = jobs[k].seq,
         NEW S, Line' = Line \ S
  PROVE  /\ lineOf' = lineOf
         /\ aheadOf' = Queue!AheadWithout(S)
<1>1. \A k \in DOMAIN jobs : PartitionOf(jobs'[k]) = PartitionOf(jobs[k])
  BY DEF PartitionOf
<1>2. lineOf' = lineOf
  BY <1>1 DEF lineOf
<1>3. \A k \in DOMAIN jobs : Before(k) = {i \in Line : /\ PartitionOf(jobs[i]) = PartitionOf(jobs[k])
                                                    /\ jobs[i].seq < jobs[k].seq}
  BY DEF Before, ActiveIn, InPartition, Line, WithState
<1>4. \A k \in DOMAIN jobs' :
        Before(k)' = {i \in Line' : /\ PartitionOf(jobs'[i]) = PartitionOf(jobs'[k])
                                    /\ jobs'[i].seq < jobs'[k].seq}
  BY DEF Before, ActiveIn, InPartition, Line, WithState
<1>5. Line \subseteq DOMAIN jobs
  BY DEF Line, WithState
<1>6. \A k \in Line' : Before(k)' = Before(k) \ S
  BY <1>1, <1>3, <1>4, <1>5
<1>7. aheadOf' = [k \in Line \ S |-> Before(k) \ S]
  BY <1>6 DEF aheadOf, Line
<1>8. \A k \in Line : aheadOf[k] = Before(k)
  BY DEF aheadOf, Line
<1>9. Queue!AheadWithout(S) = [k \in Line \ S |-> aheadOf[k] \ S]
  BY MappedDomains DEF Queue!AheadWithout, Queue!Waiting
<1> QED
  BY <1>2, <1>7, <1>8, <1>9

(* Leases of rows that are not touched stay as they are. *)
LEMMA LeasesKept ==
  ASSUME DOMAIN jobs' = DOMAIN jobs,
         NEW S, WithState({"Leased"})' = WithState({"Leased"}) \ S,
         \A k \in WithState({"Leased"}) \ S : jobs'[k].token = jobs[k].token
  PROVE  leaseOf' = Queue!LeaseWithout(S)
<1>1. leaseOf' = [k \in WithState({"Leased"}) \ S |-> jobs[k].token]
  BY DEF leaseOf
<1>2. Queue!LeaseWithout(S) = [k \in WithState({"Leased"}) \ S |-> leaseOf[k]]
  BY MappedDomains DEF Queue!LeaseWithout, Queue!Leased
<1> QED
  BY <1>1, <1>2 DEF leaseOf

(* An enqueued job arrives at the end of its line. *)
LEMMA EnqueueArrives ==
  ASSUME IInv, NEW j \in JobIds, NEW spec \in JobSpecs, EnqueueJob(j, spec)
  PROVE  Queue!Arrive(j, <<spec.queue, spec.partition>>)
<1> DEFINE D == DOMAIN jobs
           l == <<spec.queue, spec.partition>>
<1>1. /\ j \notin D
      /\ DOMAIN jobs' = D \cup {j}
      /\ \A k \in D : jobs'[k] = jobs[k]
      /\ jobs'[j] = NewRow(spec, lastSeq + 1)
      /\ UNCHANGED receipts
  BY DEF EnqueueJob, EnqueueOk, Enqueue, claimVars
<1>2. /\ jobs'[j].seq = lastSeq + 1 /\ jobs'[j].state = "Pending"
      /\ PartitionOf(jobs'[j]) = l
  BY <1>1 DEF NewRow, PartitionOf
<1>3. lastSeq \in Nat /\ \A k \in D : jobs[k].seq \in Nat /\ jobs[k].seq <= lastSeq
  BY DEF IInv, TypeOK, SeqsUnique, RowType
<1>4. /\ Line' = Line \cup {j} /\ Line \subseteq D
      /\ \A S : "Pending" \notin S => WithState(S)' = WithState(S)
  BY <1>1, <1>2 DEF Line, WithState, ActiveStates
<1>5. \A k \in D : Before(k) = {i \in Line : /\ PartitionOf(jobs[i]) = PartitionOf(jobs[k])
                                          /\ jobs[i].seq < jobs[k].seq}
  BY DEF Before, ActiveIn, InPartition, Line, WithState
<1>6. \A k \in D \cup {j} :
        Before(k)' = {i \in Line' : /\ PartitionOf(jobs'[i]) = PartitionOf(jobs'[k])
                                    /\ jobs'[i].seq < jobs'[k].seq}
  BY <1>1 DEF Before, ActiveIn, InPartition, Line, WithState
<1>7. \A k \in D : Before(k)' = Before(k)
  <2> SUFFICES ASSUME NEW k \in D PROVE Before(k)' = Before(k)
    OBVIOUS
  <2>1. jobs'[k] = jobs[k] /\ \A i \in Line : jobs'[i] = jobs[i]
    BY <1>1, <1>4
  <2>2. ~(jobs'[j].seq < jobs'[k].seq)
    BY <1>2, <1>3, <2>1
  <2>3. Before(k)' = {i \in Line \cup {j} : /\ PartitionOf(jobs'[i]) = PartitionOf(jobs'[k])
                                            /\ jobs'[i].seq < jobs'[k].seq}
    BY <1>4, <1>6
  <2>4. Before(k)' = {i \in Line : /\ PartitionOf(jobs'[i]) = PartitionOf(jobs'[k])
                                   /\ jobs'[i].seq < jobs'[k].seq}
    BY <2>2, <2>3
  <2> QED
    BY <1>5, <2>1, <2>4
<1>8. Before(j)' = {i \in Line : lineOf[i] = l}
  <2>1. \A i \in Line : lineOf[i] = PartitionOf(jobs[i])
    BY <1>4 DEF lineOf
  <2> QED
    BY <1>1, <1>2, <1>3, <1>4, <1>6, <2>1
<1>9. lineOf' = [k \in DOMAIN lineOf \cup {j} |-> IF k = j THEN l ELSE lineOf[k]]
  BY <1>1, <1>2 DEF lineOf
<1>10. aheadOf' = [k \in Queue!Waiting \cup {j} |->
                     IF k = j THEN {i \in Queue!Waiting : lineOf[i] = l} ELSE aheadOf[k]]
  <2>1. aheadOf' = [k \in Line \cup {j} |-> Before(k)']
    BY <1>4 DEF aheadOf, Line
  <2>2. \A k \in Line : k \in D /\ k # j /\ aheadOf[k] = Before(k)
    BY <1>1, <1>4 DEF aheadOf, Line
  <2> QED
    BY <1>7, <1>8, <2>1, <2>2, MappedDomains DEF Queue!Waiting
<1>11. leaseOf' = leaseOf
  BY <1>1, <1>4 DEF leaseOf, WithState
<1>12. UNCHANGED <<doubtOf, doneOf, withdrawn, Issued>>
  BY <1>1, <1>4 DEF doubtOf, doneOf, withdrawn, Issued
<1> QED
  BY <1>1, <1>9, <1>10, <1>11, <1>12, MappedDomains DEF Queue!Arrive

(* A settled job leaves its line for good, or returns to its place in it. *)
LEMMA SettleLeavesOrReturns ==
  ASSUME IInv, NEW j \in JobIds, NEW s, NEW retry, SettleStep(j, s, retry)
  PROVE  Queue!Settle(j) \/ Queue!Withdraw(j) \/ Queue!Return(j)
<1> DEFINE D == DOMAIN jobs
<1>1. /\ j \in D /\ s \in States \ {"Leased", "Uncertain"}
      /\ CanTransition(jobs[j], s)
  BY DEF SettleStep
<1>2. /\ DOMAIN jobs' = D
      /\ \A k \in D : jobs'[k].spec = jobs[k].spec /\ jobs'[k].seq = jobs[k].seq
      /\ \A k \in D : k # j => jobs'[k] = jobs[k]
      /\ jobs'[j].state = s
      /\ UNCHANGED receipts
  BY SettleRows DEF IInv
<1>3. /\ \A S : WithState(S)' = (WithState(S) \ {j}) \cup (IF s \in S THEN {j} ELSE {})
      /\ \A S : j \in WithState(S) <=> jobs[j].state \in S
  BY <1>1, <1>2 DEF WithState
<1>4. Issued' = Issued
  BY <1>2 DEF Issued
<1>5. WithState({"Leased"})' = WithState({"Leased"}) \ {j}
  BY <1>1, <1>3
<1>6. leaseOf' = Queue!LeaseWithout({j})
  <2>1. \A k \in WithState({"Leased"}) \ {j} : jobs'[k].token = jobs[k].token
    BY <1>2 DEF WithState
  <2> QED
    BY <1>2, <1>5, <2>1, LeasesKept
<1>7. doubtOf' = doubtOf \ {j}
  BY <1>1, <1>3 DEF doubtOf
<1>8. /\ Queue!Leased = WithState({"Leased"})
      /\ Queue!Waiting = Line
  BY MappedDomains DEF Queue!Leased, Queue!Waiting
<1>9. CASE s \in {"Succeeded", "Dead"}
  <2>1. j \in Queue!Leased \cup doubtOf
    BY <1>1, <1>3, <1>8, <1>9 DEF CanTransition, Transitions, doubtOf
  <2>2. Line' = Line \ {j}
    BY <1>3, <1>9 DEF Line, ActiveStates
  <2>3. doneOf' = doneOf \cup {j} /\ withdrawn' = withdrawn
    <3>1. j \notin withdrawn
      BY <1>3, <2>1, <1>8 DEF withdrawn, doubtOf
    <3> QED
      BY <1>3, <1>9, <3>1 DEF doneOf, withdrawn
  <2>4. Queue!Settle(j)
    BY <1>2, <1>4, <1>6, <1>7, <2>1, <2>2, <2>3, LinesKept DEF Queue!Settle
  <2> QED
    BY <2>4
<1>10. CASE s = "Cancelled"
  <2>1. jobs[j].state \in {"Pending", "Leased"}
    BY <1>1, <1>10 DEF CanTransition, Transitions
  <2>2. j \in Line \ doubtOf /\ j \notin doneOf
    BY <1>3, <2>1 DEF Line, ActiveStates, doubtOf, doneOf
  <2>3. Line' = Line \ {j}
    BY <1>3, <1>10 DEF Line, ActiveStates
  <2>4. /\ doneOf' = doneOf /\ withdrawn' = withdrawn \cup {j}
        /\ doubtOf' = doubtOf
    BY <1>3, <1>7, <1>10, <2>2 DEF doneOf, withdrawn
  <2>5. Queue!Withdraw(j)
    BY <1>2, <1>4, <1>6, <1>8, <2>2, <2>3, <2>4, LinesKept DEF Queue!Withdraw
  <2> QED
    BY <2>5
<1>11. CASE s \in {"Pending", "RetryWait"}
  <2>1. jobs[j].state \in {"Leased", "Uncertain"}
    BY <1>1, <1>11 DEF CanTransition, Transitions
  <2>2. j \in Queue!Leased \cup doubtOf /\ j \in Line /\ j \notin doneOf /\ j \notin withdrawn
    BY <1>3, <1>8, <2>1 DEF Line, ActiveStates, doubtOf, doneOf, withdrawn
  <2>3. Line' = Line \ {}
    BY <1>3, <1>11, <2>2 DEF Line, ActiveStates
  <2>4. doneOf' = doneOf /\ withdrawn' = withdrawn
    BY <1>3, <1>11, <2>2 DEF doneOf, withdrawn
  <2>5. lineOf' = lineOf /\ aheadOf' = aheadOf
    <3>1. Queue!AheadWithout({}) = aheadOf
      BY MappedDomains DEF Queue!AheadWithout, Queue!Waiting, aheadOf
    <3> QED
      BY <1>2, <2>3, <3>1, LinesKept
  <2>6. Queue!Return(j)
    BY <1>4, <1>6, <1>7, <2>2, <2>4, <2>5 DEF Queue!Return
  <2> QED
    BY <2>6
<1> QED
  BY <1>1, <1>9, <1>10, <1>11 DEF States, ActiveStates, TerminalStates

(* An extension is not seen: the job keeps its token. *)
LEMMA ExtendUnseen ==
  ASSUME IInv, NEW j, NEW token, NEW newExpiry, NEW now, ExtendLease(j, token, newExpiry, now)
  PROVE  UNCHANGED Queue!lqVars
<1> DEFINE D == DOMAIN jobs
<1>1. jobs \in [D -> RowType] /\ j \in D
  BY DEF IInv, TypeOK, ExtendLease, ExtendOk, HoldsToken
<1>2. jobs' = [jobs EXCEPT ![j] = [jobs[j] EXCEPT !.expiry = newExpiry]]
  BY DEF ExtendLease, Extend
<1>3. /\ DOMAIN jobs' = D
      /\ \A k \in D : /\ jobs'[k].spec = jobs[k].spec /\ jobs'[k].seq = jobs[k].seq
                      /\ jobs'[k].state = jobs[k].state /\ jobs'[k].token = jobs[k].token
  BY <1>1, <1>2 DEF RowType
<1>4. \A S : WithState(S)' = WithState(S)
  BY <1>3 DEF WithState
<1>5. lineOf' = lineOf /\ aheadOf' = aheadOf
  <2>1. Queue!AheadWithout({}) = aheadOf
    BY MappedDomains DEF Queue!AheadWithout, Queue!Waiting, aheadOf
  <2>2. Line' = Line \ {}
    BY <1>4 DEF Line
  <2> QED
    BY <1>3, <2>1, <2>2, LinesKept
<1>6. leaseOf' = leaseOf
  BY <1>3, <1>4 DEF leaseOf, WithState
<1>7. UNCHANGED <<doubtOf, doneOf, withdrawn>>
  BY <1>4 DEF doubtOf, doneOf, withdrawn
<1>8. Issued' = Issued
  <2> DEFINE F(r) == IF r.job = j /\ r.token = token THEN [r EXCEPT !.expiry = newExpiry] ELSE r
  <2>1. receipts' = {F(r) : r \in receipts}
    BY DEF ExtendLease
  <2>2. \A r \in receipts : F(r).job = r.job /\ F(r).token = r.token
    BY DEF IInv, TypeOK, ReceiptType
  <2> HIDE DEF F
  <2> QED
    BY <2>1, <2>2 DEF Issued
<1> QED
  BY <1>5, <1>6, <1>7, <1>8 DEF Queue!lqVars

(* A claim ends the leases it repairs and grants new ones to heads of lines, *)
(* in one step of the queue.                                                 *)
LEMMA ClaimGrants ==
  ASSUME IInv, NEW q \in Queues, NEW w \in Workers, NEW now \in Times,
         NEW len \in LeaseLengths, NEW limit \in ClaimLimits,
         ClaimJobs(q, w, now, len, limit)
  PROVE  Queue!LQNext
<1> DEFINE D == DOMAIN jobs
           L == LeasePlan(jobs, active, cursor[q], q, now, limit)
           tx == lastTx + 1
           LeasedNow == WithState({"Leased"})
<1>1. PICK M \in MaintenancePlans(jobs, q, now, MaintenanceLimit) :
         now + len <= MaxTime /\ ClaimWith(q, w, now + len, M, L)
  BY DEF ClaimJobs
<1>2. /\ M \subseteq D /\ L \subseteq D /\ M \cap L = {}
      /\ \A k \in M : jobs[k].state = "Leased"
      /\ \A k \in L : IsHead(jobs, k) /\ jobs[k].state \in {"Pending", "RetryWait"}
  BY ClaimPlans
<1>3. /\ receipts' = receipts \cup ClaimReceipts(L, tx, w, now + len)
      /\ lastTx \in Nat /\ jobs \in [D -> RowType]
  BY <1>1 DEF ClaimWith, IInv, TypeOK
<1> HIDE DEF L
<1>4. ClaimedRows(w, now + len, M, L)
  <2>1. now + len \in Times
    BY <1>1, StoreAssumption DEF Times
  <2> QED
    BY <1>1, <1>2, <2>1, ClaimRows DEF IInv
<1> DEFINE Dead == {k \in M : RepairTarget(jobs[k]) = "Dead"}
           Unsure == {k \in M : RepairTarget(jobs[k]) = "Uncertain"}
<1>5. /\ DOMAIN jobs' = D
      /\ \A k \in D : jobs'[k].spec = jobs[k].spec /\ jobs'[k].seq = jobs[k].seq
      /\ \A k \in L : /\ jobs'[k].state = "Leased"
                      /\ jobs'[k].token = Token(tx, k) /\ Token(tx, k) \in Tokens
      /\ \A k \in M : /\ jobs'[k].state = RepairTarget(jobs[k])
                      /\ jobs'[k].state \in {"Uncertain", "Dead", "Pending"}
      /\ \A k \in D \ (M \cup L) : jobs'[k] = jobs[k]
  BY <1>4 DEF ClaimedRows
<1>6. /\ Queue!Leased = LeasedNow /\ Queue!Waiting = Line
      /\ LeasedNow \subseteq D /\ Line \subseteq D
  BY MappedDomains DEF Queue!Leased, Queue!Waiting, WithState, Line
<1>7. /\ M \in SUBSET Queue!Leased
      /\ L \in SUBSET (Queue!Waiting \ (Queue!Leased \cup doubtOf))
      /\ Dead \in SUBSET M /\ Unsure \in SUBSET (M \ Dead)
  BY <1>2, <1>6 DEF WithState, Line, ActiveStates, doubtOf
<1>8. lineOf' = lineOf /\ aheadOf' = Queue!AheadWithout(Dead)
  <2>1. Line' = Line \ Dead
    <3>1. ASSUME NEW k \in D
          PROVE  jobs'[k].state \in ActiveStates <=> jobs[k].state \in ActiveStates /\ k \notin Dead
      BY <1>2, <1>5 DEF ActiveStates
    <3> QED
      BY <1>5, <3>1 DEF Line, WithState
  <2> QED
    BY <1>5, <2>1, LinesKept
<1>9. /\ doneOf' = doneOf \cup Dead
      /\ doubtOf' = doubtOf \cup Unsure
      /\ withdrawn' = withdrawn
  BY <1>2, <1>5 DEF doneOf, doubtOf, withdrawn, WithState
<1>10. /\ leaseOf' \in [(LeasedNow \ M) \cup L -> Tokens]
       /\ \A k \in LeasedNow \ M : leaseOf'[k] = leaseOf[k]
       /\ \A k \in L : leaseOf'[k] = Token(tx, k)
  <2>1. LeasedNow' = (LeasedNow \ M) \cup L
    BY <1>2, <1>5 DEF WithState
  <2>2. leaseOf' = [k \in (LeasedNow \ M) \cup L |-> jobs'[k].token]
    BY <2>1 DEF leaseOf
  <2>3. \A k \in LeasedNow \ M : /\ jobs'[k].token = jobs[k].token
                                 /\ leaseOf[k] = jobs[k].token
                                 /\ jobs[k].token \in Tokens
    <3>1. ASSUME NEW k \in LeasedNow \ M
          PROVE  k \in D \ (M \cup L) /\ jobs[k].state = "Leased"
      BY <1>2 DEF WithState
    <3>2. \A k \in D : jobs[k].state = "Leased" => jobs[k].token \in Tokens
      BY <1>3 DEF IInv, LeaseColumns, RowType
    <3> QED
      BY <1>5, <3>1, <3>2 DEF leaseOf
  <2> QED
    BY <1>5, <2>2, <2>3
<1>11. \A k \in L : \A g \in Issued : g[2] # leaseOf'[k]
  <2>1. \A g \in Issued : \E n \in Nat : \E i : n <= lastTx /\ g[2] = Token(n, i)
    BY DEF Issued, IInv, TypeOK, TokensFresh, ReceiptsTruthful
  <2> QED
    BY <1>3, <1>10, <2>1 DEF Token
<1>12. \A k, i \in L : leaseOf'[k] = leaseOf'[i] => k = i
  BY <1>10 DEF Token
<1>13. Issued' = Issued \cup {<<k, leaseOf'[k]>> : k \in L}
  <2> DEFINE R == ClaimReceipts(L, tx, w, now + len)
  <2>1. /\ \A r \in R : r.job \in L /\ r.token = Token(tx, r.job)
        /\ \A k \in L : \E r \in R : r.job = k
    BY ReceiptsOfClaim
  <2> HIDE DEF R
  <2>2. {<<r.job, r.token>> : r \in R} = {<<k, Token(tx, k)>> : k \in L}
    BY <2>1
  <2>3. {<<k, leaseOf'[k]>> : k \in L} = {<<k, Token(tx, k)>> : k \in L}
    BY <1>10
  <2>4. Issued' = Issued \cup {<<r.job, r.token>> : r \in R}
    BY <1>3 DEF Issued, R
  <2> QED
    BY <2>2, <2>3, <2>4
<1>14. \A k \in L : aheadOf[k] = {}
  <2> SUFFICES ASSUME NEW k \in L PROVE Before(k) = {}
    BY <1>7, MappedDomains DEF aheadOf, Line, Queue!Waiting
  <2>1. \A i \in ActiveIn(jobs, PartitionOf(jobs[k])) : jobs[k].seq <= jobs[i].seq
    BY <1>2 DEF IsHead
  <2>2. \A i \in D : jobs[i].seq \in Nat
    BY <1>3 DEF RowType
  <2> QED
    BY <1>2, <2>1, <2>2 DEF Before, ActiveIn, InPartition
<1> HIDE DEF Dead, Unsure
<1>15. Queue!Claim(M, Dead, Unsure, L)
  BY <1>6, <1>8, <1>9, <1>10, <1>11, <1>12, <1>13, <1>14 DEF Queue!Claim
<1> QED
  BY <1>7, <1>15 DEF Queue!LQNext

(* The job store implements the abstract queue: the empty tables are the    *)
(* empty queue, and each operation of the store is a step of it, or none    *)
(* that the queue can see.                                                  *)
THEOREM StoreImplementsQueue == Spec => ImplementsQueue
<1>1. ASSUME Init
      PROVE  Queue!LQInit
  <2>1. DOMAIN jobs = {} /\ receipts = {}
    BY <1>1 DEF Init
  <2>2. \A S : WithState(S) = {}
    BY <2>1 DEF WithState
  <2> QED
    BY <2>1, <2>2 DEF Queue!LQInit, Queue!Nothing, lineOf, aheadOf, leaseOf, doubtOf,
       doneOf, withdrawn, Issued
<1>2. ASSUME IInv, [Next]_vars
      PROVE  [Queue!LQNext]_(Queue!lqVars)
  <2>1. ASSUME NEW j \in JobIds, NEW spec \in JobSpecs, EnqueueJob(j, spec)
        PROVE  Queue!LQNext
    <3>1. <<spec.queue, spec.partition>> \in Queues \X Partitions
      BY TableAssumption DEF SpecType
    <3> QED
      BY <1>2, <2>1, <3>1, EnqueueArrives DEF Queue!LQNext
  <2>2. ASSUME NEW j \in JobIds, NEW s, NEW retry, SettleStep(j, s, retry)
        PROVE  Queue!LQNext
    BY <1>2, <2>2, SettleLeavesOrReturns DEF Queue!LQNext
  <2>3. ASSUME UNCHANGED <<jobs, receipts>>
        PROVE  UNCHANGED Queue!lqVars
    BY <2>3 DEF Queue!lqVars, lineOf, aheadOf, leaseOf, doubtOf, doneOf, withdrawn, Issued,
       WithState, Before, ActiveIn, InPartition, PartitionOf
  <2>4. ASSUME NEW q, NEW now, NEW len, NEW limit, ClaimLost(q, now, len, limit)
        PROVE  UNCHANGED Queue!lqVars
    BY <2>3, <2>4 DEF ClaimLost
  <2>5. ASSUME UNCHANGED vars
        PROVE  UNCHANGED Queue!lqVars
    BY <2>3, <2>5 DEF vars
  <2>6. TypeOK /\ LeaseColumns
    BY <1>2 DEF IInv
  <2> QED
    BY <1>2, <2>1, <2>2, <2>4, <2>5, <2>6, StepCases, ExtendUnseen, ClaimGrants
<1> QED
  BY <1>1, <1>2, StoreInvariant, PTL DEF Spec, ImplementsQueue, Queue!LQSpec

(* Through the store the workers see the queue: whatever they poll, lose,   *)
(* recover, settle late or crash with, leases go to the heads of lines,     *)
(* and a job that is done or withdrawn stays so.                            *)
THEOREM WorkersUseTheQueue == WSpec => ImplementsQueue
BY WorkersRefineStore, StoreImplementsQueue

=============================================================================
