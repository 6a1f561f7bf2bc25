---------------------------- MODULE Connections ----------------------------
(***************************************************************************)
(* The connections of open stores (src/store/mod.rs, src/store/            *)
(* read_pool.rs) under threads, panics, failing COMMITs and dying          *)
(* processes.  A store has one writer connection behind a mutex, which is  *)
(* discarded when a COMMIT fails and opened again by the next call, and a  *)
(* pool of read connections.  Several processes may have a store open on   *)
(* the same file: the owner, and the command line of an operator.          *)
(*                                                                         *)
(* A call of the API is a few steps here, so that calls interleave; what a *)
(* transaction writes is its id alone.  SQLite is external: one connection *)
(* at a time is in a write transaction, BEGIN IMMEDIATE gives up after the *)
(* busy timeout, and a connection sees what is durable and what it has     *)
(* itself written.  After a failed COMMIT the transaction may have         *)
(* persisted or not, and when it has not the connection may still be in    *)
(* it: rusqlite ignores an error of the rollback it then tries.            *)
(***************************************************************************)
EXTENDS Integers, Sequences, SequencesExt

CONSTANTS
  Threads,   \* threads that call the API
  Stores,    \* open ControlPlaneStores, each in a process of its own
  StoreOf,   \* thread -> its store
  TxIds,     \* transaction ids
  MaxIdle,   \* read_pool_size
  MaxFaults, \* bound on failed COMMITs, panics and deaths of processes
  NULL

ASSUME ConnectionsAssumption ==
  /\ StoreOf \in [Threads -> Stores]
  /\ MaxIdle \in Nat /\ MaxFaults \in Nat
  /\ NULL \notin Threads /\ NULL \notin TxIds /\ "Discarded" \notin TxIds

VARIABLES
  durable,  \* the transactions that have persisted
  writer,   \* store -> its writer connection: "Discarded", or the open
            \*   transaction it is in, NULL for none
  mutex,    \* store -> the thread that holds the writer's mutex, or NULL
  idle,     \* store -> the idle read connections, each with what it is
            \*   bound to see, NULL for the latest
  at,       \* thread -> the step of its call, "Idle" between calls
  tx,       \* thread -> the transaction its call is about, or NULL
  reader,   \* thread -> what the read connection it has taken is bound to see
  seen,     \* thread -> what the read it is in has returned
  since,    \* history: thread -> what was known when that read began
  unsure,   \* the transactions whose outcome nobody knows
  known,    \* history: transactions that a call has reported as committed
  absent,   \* history: those reported absent, and not submitted again
  faults    \* number of faults

cnVars == <<durable, writer, mutex, idle, at, tx, reader, seen, since, unsure, known, absent, faults>>

WriteSteps == {"Connect", "Begin", "Body"}
RecoverSteps == {"Reconnect", "Lookup"}
Holding == WriteSteps \cup RecoverSteps

CTypeOK ==
  /\ durable \subseteq TxIds
  /\ writer \in [Stores -> {"Discarded", NULL} \cup TxIds]
  /\ \A s \in Stores : mutex[s] \in {t \in Threads : StoreOf[t] = s /\ at[t] \in Holding} \cup {NULL}
  /\ \A t \in Threads : at[t] \in Holding => mutex[StoreOf[t]] = t
  /\ \A s \in Stores : Len(idle[s]) <= MaxIdle /\ Range(idle[s]) \subseteq {NULL} \cup SUBSET TxIds
  /\ at \in [Threads -> {"Idle", "LockWrite", "LockRecover", "Take", "Read", "Put"} \cup Holding]
  /\ tx \in [Threads -> TxIds \cup {NULL}]
  /\ \A t \in Threads : {reader[t], seen[t]} \subseteq {NULL} \cup SUBSET TxIds
  /\ since \in [Threads -> SUBSET TxIds]
  /\ UNION {unsure, known, absent} \subseteq TxIds
  /\ faults \in 0..MaxFaults

CInit ==
  /\ durable = {}
  /\ writer = [s \in Stores |-> NULL]
  /\ mutex = [s \in Stores |-> NULL]
  /\ idle = [s \in Stores |-> <<>>]
  /\ at = [t \in Threads |-> "Idle"]
  /\ tx = [t \in Threads |-> NULL]
  /\ reader = [t \in Threads |-> NULL]
  /\ seen = [t \in Threads |-> NULL]
  /\ since = [t \in Threads |-> {}]
  /\ unsure = {} /\ known = {} /\ absent = {}
  /\ faults = 0

readVars == <<idle, reader, seen, since>>

(* A transaction is the business of one call at a time *)
InCall == {tx[t] : t \in Threads} \ {NULL}

At(t, step) == at' = [at EXCEPT ![t] = step]

(* The guard of the mutex is dropped when the call returns or panics *)
Return(t) ==
  /\ At(t, "Idle")
  /\ tx' = [tx EXCEPT ![t] = NULL]
  /\ mutex' = [mutex EXCEPT ![StoreOf[t]] = NULL]

Writer(t) == writer[StoreOf[t]]
SetWriter(t, c) == writer' = [writer EXCEPT ![StoreOf[t]] = c]

----------------------------------------------------------------------------
(* Calls on the writer                                                     *)

(* A client submits a transaction, perhaps again *)
CallWrite(t, x) ==
  /\ at[t] = "Idle"
  /\ x \notin InCall
  /\ At(t, "LockWrite")
  /\ tx' = [tx EXCEPT ![t] = x]
  /\ absent' = absent \ {x}
  /\ UNCHANGED <<durable, writer, mutex, readVars, unsure, known, faults>>

(* Only what is not known is recovered *)
CallRecover(t, x) ==
  /\ at[t] = "Idle"
  /\ x \in unsure \ InCall
  /\ At(t, "LockRecover")
  /\ tx' = [tx EXCEPT ![t] = x]
  /\ UNCHANGED <<durable, writer, mutex, readVars, unsure, known, absent, faults>>

Lock(t) ==
  /\ at[t] \in {"LockWrite", "LockRecover"}
  /\ mutex[StoreOf[t]] = NULL
  /\ mutex' = [mutex EXCEPT ![StoreOf[t]] = t]
  /\ At(t, IF at[t] = "LockWrite" THEN "Connect" ELSE "Reconnect")
  /\ UNCHANGED <<durable, writer, tx, readVars, unsure, known, absent, faults>>

(* A discarded writer is opened again; when that fails the call returns a    *)
(* storage error, and what was unsure still is.                              *)
Connect(t) ==
  /\ at[t] \in {"Connect", "Reconnect"}
  /\ \/ /\ SetWriter(t, IF Writer(t) = "Discarded" THEN NULL ELSE Writer(t))
        /\ At(t, IF at[t] = "Connect" THEN "Begin" ELSE "Lookup")
        /\ UNCHANGED <<mutex, tx>>
     \/ Writer(t) = "Discarded" /\ Return(t) /\ UNCHANGED writer
  /\ UNCHANGED <<durable, readVars, unsure, known, absent, faults>>

(* Mutant: no busy timeout, the call waits for the lock *)
BeginWaiting(t) ==
  /\ at[t] = "Begin"
  /\ \A s \in Stores : writer[s] \in {NULL, "Discarded"}
  /\ SetWriter(t, tx[t]) /\ At(t, "Body")
  /\ UNCHANGED <<durable, mutex, tx, readVars, unsure, known, absent, faults>>

(* BEGIN IMMEDIATE, or its error: another connection has the lock for longer *)
(* than the busy timeout, or this one is in a transaction already.           *)
Begin(t) ==
  /\ at[t] = "Begin"
  /\ \/ /\ \A s \in Stores : writer[s] \in {NULL, "Discarded"}
        /\ SetWriter(t, tx[t]) /\ At(t, "Body")
        /\ UNCHANGED <<mutex, tx>>
     \/ /\ \E s \in Stores : writer[s] \notin {NULL, "Discarded"}
        /\ Return(t) /\ UNCHANGED writer
  /\ UNCHANGED <<durable, readVars, unsure, known, absent, faults>>

(* Mutant: BEGIN and COMMIT as statements, and an error returned between them *)
BodyFailsKeeping(t) ==
  /\ at[t] = "Body"
  /\ Return(t)
  /\ UNCHANGED <<durable, writer, readVars, unsure, known, absent, faults>>

(* An operation is refused: the transaction is dropped and rolled back, also *)
(* when the thread panics, for then the stack is unwound.                    *)
BodyFails(t) ==
  /\ at[t] = "Body"
  /\ SetWriter(t, NULL)
  /\ Return(t)
  /\ UNCHANGED <<durable, readVars, unsure, known, absent, faults>>

(* COMMIT succeeds; for an id that is durable already there was nothing to   *)
(* write and the first receipt is returned.                                  *)
CommitOk(t) ==
  /\ at[t] = "Body"
  /\ durable' = durable \cup {tx[t]}
  /\ known' = known \cup {tx[t]}
  /\ unsure' = unsure \ {tx[t]}
  /\ SetWriter(t, NULL)
  /\ Return(t)
  /\ UNCHANGED <<readVars, absent, faults>>

(* Mutant: the connection is kept after a failed COMMIT *)
CommitFailsKeeping(t) ==
  /\ at[t] = "Body"
  /\ tx[t] \notin durable
  /\ faults < MaxFaults /\ faults' = faults + 1
  /\ \/ durable' = durable \cup {tx[t]} /\ SetWriter(t, NULL)
     \/ durable' = durable /\ \E c \in {NULL, tx[t]} : SetWriter(t, c)
  /\ unsure' = unsure \cup {tx[t]}
  /\ Return(t)
  /\ UNCHANGED <<readVars, known, absent>>

(* COMMIT fails, and has persisted or not.  Discarding the connection closes *)
(* it, which ends the transaction it may have been left in.                  *)
CommitFails(t) ==
  /\ at[t] = "Body"
  /\ tx[t] \notin durable
  /\ faults < MaxFaults /\ faults' = faults + 1
  /\ durable' \in {durable, durable \cup {tx[t]}}
  /\ unsure' = unsure \cup {tx[t]}
  /\ SetWriter(t, "Discarded")
  /\ Return(t)
  /\ UNCHANGED <<readVars, known, absent>>

(* recover_transaction and recover_claim read on the writer connection *)
Lookup(t) ==
  /\ at[t] = "Lookup"
  /\ IF tx[t] \in durable \cup {Writer(t)}
     THEN known' = known \cup {tx[t]} /\ UNCHANGED absent
     ELSE absent' = absent \cup {tx[t]} /\ UNCHANGED known
  /\ unsure' = unsure \ {tx[t]}
  /\ Return(t)
  /\ UNCHANGED <<durable, writer, readVars, faults>>

----------------------------------------------------------------------------
(* Reads                                                                   *)

CallRead(t) ==
  /\ at[t] = "Idle"
  /\ At(t, "Take")
  /\ since' = [since EXCEPT ![t] = known]
  /\ UNCHANGED <<durable, writer, mutex, idle, tx, reader, seen, unsure, known, absent, faults>>

(* ReadPool::take: the connection put back last, or a new one *)
Take(t) ==
  /\ at[t] = "Take"
  /\ LET s == StoreOf[t]
     IN  IF idle[s] = <<>>
         THEN /\ reader' = [reader EXCEPT ![t] = NULL]
              /\ UNCHANGED idle
         ELSE /\ reader' = [reader EXCEPT ![t] = Last(idle[s])]
              /\ idle' = [idle EXCEPT ![s] = Front(@)]
  /\ At(t, "Read")
  /\ UNCHANGED <<durable, writer, mutex, tx, seen, since, unsure, known, absent, faults>>

(* Mutant: the statement is not finished and keeps the connection's snapshot *)
ReadUnfinished(t) ==
  /\ at[t] = "Read"
  /\ LET view == IF reader[t] = NULL THEN durable ELSE reader[t]
     IN  seen' = [seen EXCEPT ![t] = view] /\ reader' = [reader EXCEPT ![t] = view]
  /\ At(t, "Put")
  /\ UNCHANGED <<durable, writer, mutex, idle, tx, since, unsure, known, absent, faults>>

(* A statement sees what is durable when it starts, and is finished before   *)
(* the connection goes back.                                                 *)
Read(t) ==
  /\ at[t] = "Read"
  /\ seen' = [seen EXCEPT ![t] = IF reader[t] = NULL THEN durable ELSE reader[t]]
  /\ At(t, "Put")
  /\ UNCHANGED <<durable, writer, mutex, idle, tx, reader, since, unsure, known, absent, faults>>

(* ReadPool::put: dropped when the pool is full *)
Put(t) ==
  /\ at[t] = "Put"
  /\ idle' = [idle EXCEPT ![StoreOf[t]] = IF Len(@) < MaxIdle THEN Append(@, reader[t]) ELSE @]
  /\ reader' = [reader EXCEPT ![t] = NULL]
  /\ seen' = [seen EXCEPT ![t] = NULL]
  /\ since' = [since EXCEPT ![t] = {}]
  /\ At(t, "Idle")
  /\ UNCHANGED <<durable, writer, mutex, tx, unsure, known, absent, faults>>

----------------------------------------------------------------------------
(* The process of store s dies and another opens the file.  A call it was in *)
(* answers nobody.                                                           *)
Die(s) ==
  /\ faults < MaxFaults /\ faults' = faults + 1
  /\ LET T == {t \in Threads : StoreOf[t] = s}
         cut == {t \in T : at[t] \in {"LockWrite"} \cup WriteSteps}
     IN  /\ at' = [t \in Threads |-> IF t \in T THEN "Idle" ELSE at[t]]
         /\ unsure' = unsure \cup {tx[t] : t \in cut}
         /\ durable' \in {durable, durable \cup {tx[t] : t \in {u \in cut : at[u] = "Body"}}}
         /\ reader' = [t \in Threads |-> IF t \in T THEN NULL ELSE reader[t]]
         /\ seen' = [t \in Threads |-> IF t \in T THEN NULL ELSE seen[t]]
         /\ since' = [t \in Threads |-> IF t \in T THEN {} ELSE since[t]]
         /\ tx' = [t \in Threads |-> IF t \in T THEN NULL ELSE tx[t]]
  /\ writer' = [writer EXCEPT ![s] = NULL]
  /\ mutex' = [mutex EXCEPT ![s] = NULL]
  /\ idle' = [idle EXCEPT ![s] = <<>>]
  /\ UNCHANGED <<known, absent>>

(* A call goes on: what its thread does while it is scheduled *)
Proceed(t) ==
  \/ Lock(t) \/ Connect(t) \/ Begin(t) \/ BodyFails(t) \/ CommitOk(t) \/ CommitFails(t)
  \/ Lookup(t) \/ Take(t) \/ Read(t) \/ Put(t)

CNext ==
  \/ \E t \in Threads, x \in TxIds : CallWrite(t, x) \/ CallRecover(t, x)
  \/ \E t \in Threads : CallRead(t) \/ Proceed(t)
  \/ \E s \in Stores : Die(s)

CSpec == CInit /\ [][CNext]_cnVars

(* A thread that is inside a call is scheduled again *)
CFairSpec == CSpec /\ \A t \in Threads : WF_cnVars(Proceed(t))

----------------------------------------------------------------------------
(* Properties                                                              *)

(* What a call has said of a transaction stays true: one reported committed, *)
(* by its receipt or by a recovery on another thread or in another process,  *)
(* is durable, and one reported absent does not appear later on its own.     *)
AnswersHold == known \subseteq durable /\ absent \cap durable = {}

(* Between calls no writer connection is in a transaction, whatever way the  *)
(* last call ended: the next call can begin, and so can other processes.     *)
(* The mutex is held by the call that uses the writer, and the pool keeps no *)
(* more connections than its size (CTypeOK).                                 *)
NothingLeftOpen ==
  /\ CTypeOK
  /\ \A s \in Stores : writer[s] \notin {NULL, "Discarded"} =>
       mutex[s] # NULL /\ at[mutex[s]] = "Body" /\ tx[mutex[s]] = writer[s]

(* A read on a pooled connection returns everything that any thread knew to  *)
(* be committed when the read began, and nothing that is not durable.        *)
ReadsAreCurrent ==
  \A t \in Threads : seen[t] # NULL => since[t] \subseteq seen[t] /\ seen[t] \subseteq durable

(* The writer's mutex is always released again, also while the database file *)
(* cannot be opened or another process is in a transaction: every call that  *)
(* waits meets an end of the one before it.                                  *)
WriterReleased == \A t \in Threads : at[t] \in Holding ~> at[t] = "Idle"

=============================================================================
