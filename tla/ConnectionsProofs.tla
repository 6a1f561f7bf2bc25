-------------------------- MODULE ConnectionsProofs --------------------------
(***************************************************************************)
(* Proofs about Connections, for any number of threads, stores,            *)
(* transactions, pool sizes and faults.                                    *)
(***************************************************************************)
EXTENDS Connections, SequenceTheorems, TLAPS

----------------------------------------------------------------------------
(* The inductive invariant                                                 *)

(* The steps of calls that are about a transaction *)
TxSteps == {"LockWrite", "LockRecover"} \cup Holding

Steps == {"Idle", "Take", "Read", "Put"} \cup TxSteps

CTypes ==
  /\ durable \in SUBSET TxIds /\ known \in SUBSET TxIds
  /\ absent \in SUBSET TxIds /\ unsure \in SUBSET TxIds
  /\ writer \in [Stores -> {"Discarded", NULL} \cup TxIds]
  /\ mutex \in [Stores -> Threads \cup {NULL}]
  /\ idle \in [Stores -> Seq({NULL})]
  /\ at \in [Threads -> Steps]
  /\ tx \in [Threads -> TxIds \cup {NULL}]
  /\ reader \in [Threads -> {NULL}]
  /\ seen \in [Threads -> {NULL} \cup SUBSET TxIds]
  /\ since \in [Threads -> SUBSET TxIds]
  /\ faults \in 0..MaxFaults

(* The mutex is held by the call that uses the writer, and by nobody else *)
MutexHeld ==
  /\ \A t \in Threads : at[t] \in Holding => mutex[StoreOf[t]] = t
  /\ \A s \in Stores : mutex[s] # NULL => StoreOf[mutex[s]] = s /\ at[mutex[s]] \in Holding

(* A transaction is the business of one call, which knows it from its start *)
(* to its end.                                                              *)
OneCallEach ==
  /\ \A t \in Threads : at[t] \in TxSteps <=> tx[t] # NULL
  /\ \A t, u \in Threads : tx[t] # NULL /\ tx[t] = tx[u] => t = u

(* A call that has begun is in its own transaction, one that is about to    *)
(* begin or to look something up has an open connection in none, and no     *)
(* writer is in a transaction but that of the call that holds it.           *)
WriterAtWork ==
  /\ \A t \in Threads : at[t] = "Body" => Writer(t) = tx[t]
  /\ \A t \in Threads : at[t] \in {"Begin", "Lookup"} => Writer(t) = NULL
  /\ \A s \in Stores : writer[s] \notin {NULL, "Discarded"} =>
       mutex[s] # NULL /\ at[mutex[s]] = "Body" /\ tx[mutex[s]] = writer[s]

(* What is being submitted has not been reported absent since *)
Submitted == \A t \in Threads : at[t] \in {"LockWrite"} \cup WriteSteps => tx[t] \notin absent

(* The pool is not over full, a read began when less was known than now, and *)
(* only a read that is over has returned something.                          *)
PoolSound ==
  /\ \A s \in Stores : Len(idle[s]) <= MaxIdle
  /\ \A t \in Threads : since[t] \subseteq known
  /\ \A t \in Threads : seen[t] # NULL => at[t] = "Put"

CIInv == /\ CTypes
         /\ MutexHeld
         /\ OneCallEach
         /\ WriterAtWork
         /\ Submitted
         /\ PoolSound
         /\ AnswersHold
         /\ ReadsAreCurrent

----------------------------------------------------------------------------
(* The empty store satisfies the invariant. *)
LEMMA CInitInv == CInit => CIInv
<1> SUFFICES ASSUME CInit PROVE CIInv
  OBVIOUS
<1>1. <<>> \in Seq({NULL}) /\ Len(<<>>) = 0
  BY EmptySeq
<1> QED
  BY <1>1, ConnectionsAssumption
     DEF CInit, CIInv, CTypes, MutexHeld, OneCallEach, WriterAtWork, Submitted, PoolSound,
         AnswersHold, ReadsAreCurrent, Steps, TxSteps, Holding, WriteSteps, RecoverSteps, Writer

(* The invariant implies the properties that the runs check. *)
LEMMA CIInvSound == CIInv => NothingLeftOpen /\ AnswersHold /\ ReadsAreCurrent
<1> SUFFICES ASSUME CIInv PROVE NothingLeftOpen
  BY DEF CIInv
<1>1. \A s \in Stores : Len(idle[s]) <= MaxIdle /\ Range(idle[s]) \subseteq {NULL} \cup SUBSET TxIds
  <2> SUFFICES ASSUME NEW s \in Stores
               PROVE  Len(idle[s]) <= MaxIdle /\ Range(idle[s]) \subseteq {NULL}
    OBVIOUS
  <2>1. idle[s] \in Seq({NULL}) /\ Len(idle[s]) <= MaxIdle
    BY DEF CIInv, CTypes, PoolSound
  <2> QED
    BY <2>1 DEF Range
<1>2. CTypeOK
  <2>1. \A t \in Threads : StoreOf[t] \in Stores
    BY ConnectionsAssumption
  <2> QED
    BY <1>1, <2>1, ConnectionsAssumption
       DEF CIInv, CTypes, MutexHeld, CTypeOK, Steps, TxSteps, Holding
<1> QED
  BY <1>2 DEF CIInv, WriterAtWork, NothingLeftOpen

----------------------------------------------------------------------------
(* Calls on the writer                                                     *)

(* A submission begins a call about a transaction that no other call has. *)
LEMMA CallWriteInv ==
  ASSUME CIInv, NEW t \in Threads, NEW x \in TxIds, CallWrite(t, x)
  PROVE  CIInv'
<1> USE ConnectionsAssumption DEF CIInv, CallWrite, At, readVars, InCall
<1>1. CTypes'
  BY DEF CTypes, Steps, TxSteps
<1>2. MutexHeld'
  BY DEF CTypes, MutexHeld, Holding, WriteSteps, RecoverSteps
<1>3. OneCallEach'
  BY DEF CTypes, OneCallEach, TxSteps
<1>4. WriterAtWork'
  BY DEF CTypes, WriterAtWork, Writer
<1>5. Submitted'
  BY DEF CTypes, Submitted, WriteSteps
<1>6. PoolSound' /\ AnswersHold' /\ ReadsAreCurrent'
  BY DEF CTypes, Return, At, PoolSound, AnswersHold, ReadsAreCurrent
<1> QED
  BY <1>1, <1>2, <1>3, <1>4, <1>5, <1>6

(* A recovery begins a call about a transaction that no other call has. *)
LEMMA CallRecoverInv ==
  ASSUME CIInv, NEW t \in Threads, NEW x \in TxIds, CallRecover(t, x)
  PROVE  CIInv'
<1> USE ConnectionsAssumption DEF CIInv, CallRecover, At, readVars, InCall
<1>1. CTypes'
  BY DEF CTypes, Steps, TxSteps
<1>2. MutexHeld'
  BY DEF CTypes, MutexHeld, Holding, WriteSteps, RecoverSteps
<1>3. OneCallEach'
  BY DEF CTypes, OneCallEach, TxSteps
<1>4. WriterAtWork'
  BY DEF CTypes, WriterAtWork, Writer
<1>5. Submitted'
  BY DEF CTypes, Submitted, WriteSteps
<1>6. PoolSound' /\ AnswersHold' /\ ReadsAreCurrent'
  BY DEF CTypes, Return, At, PoolSound, AnswersHold, ReadsAreCurrent
<1> QED
  BY <1>1, <1>2, <1>3, <1>4, <1>5, <1>6

(* A call that has the mutex and goes on keeps it. *)
LEMMA HolderGoesOn ==
  ASSUME CTypes, MutexHeld, OneCallEach, NEW t \in Threads, NEW step \in Holding,
         at[t] \in Holding, At(t, step), UNCHANGED <<mutex, tx>>
  PROVE  MutexHeld' /\ OneCallEach'
<1>1. MutexHeld'
  BY DEF CTypes, MutexHeld, At
<1>2. OneCallEach'
  BY DEF CTypes, OneCallEach, TxSteps, At
<1> QED
  BY <1>1, <1>2

(* A call that returns gives up the mutex and its transaction. *)
LEMMA HolderReturns ==
  ASSUME CTypes, MutexHeld, OneCallEach, NEW t \in Threads, at[t] \in Holding, Return(t)
  PROVE  MutexHeld' /\ OneCallEach'
<1> USE ConnectionsAssumption DEF Return, At, CTypes
<1>1. MutexHeld'
  BY DEF MutexHeld, Holding, WriteSteps, RecoverSteps
<1>2. OneCallEach'
  BY DEF OneCallEach, TxSteps, Holding, WriteSteps, RecoverSteps
<1> QED
  BY <1>1, <1>2

(* The mutex is taken when nobody has it. *)
LEMMA LockInv ==
  ASSUME CIInv, NEW t \in Threads, Lock(t)
  PROVE  CIInv'
<1> USE ConnectionsAssumption DEF CIInv, Lock, At, readVars
<1>1. CTypes'
  BY DEF CTypes, Steps, TxSteps, Holding, WriteSteps, RecoverSteps
<1>2. MutexHeld'
  <2>1. \A u \in Threads \ {t} : at[u] \in Holding => StoreOf[u] # StoreOf[t]
    BY DEF MutexHeld
  <2>2. at'[t] \in Holding /\ \A u \in Threads \ {t} : at'[u] = at[u]
    BY DEF CTypes, Holding, WriteSteps, RecoverSteps
  <2>3. mutex'[StoreOf[t]] = t /\ \A s \in Stores \ {StoreOf[t]} : mutex'[s] = mutex[s]
    BY DEF CTypes
  <2>4. \A s \in Stores : mutex[s] # NULL => mutex[s] # t
    BY DEF MutexHeld, Holding, WriteSteps, RecoverSteps
  <2> QED
    BY <2>1, <2>2, <2>3, <2>4 DEF MutexHeld, CTypes
<1>3. OneCallEach'
  BY DEF CTypes, OneCallEach, TxSteps, Holding, WriteSteps, RecoverSteps
<1>4. WriterAtWork'
  BY DEF CTypes, MutexHeld, WriterAtWork, Writer, Holding, WriteSteps, RecoverSteps
<1>5. Submitted'
  BY DEF CTypes, Submitted, WriteSteps
<1>6. PoolSound' /\ AnswersHold' /\ ReadsAreCurrent'
  BY DEF CTypes, Return, At, PoolSound, AnswersHold, ReadsAreCurrent
<1> QED
  BY <1>1, <1>2, <1>3, <1>4, <1>5, <1>6

(* The calls that use the writer of a store, other than the one that has it *)
LEMMA OneHolder ==
  ASSUME MutexHeld, NEW t \in Threads, at[t] \in Holding,
         NEW u \in Threads, at[u] \in Holding, StoreOf[u] = StoreOf[t]
  PROVE  u = t
BY DEF MutexHeld

(* A call goes on with an open connection, or returns without one. *)
LEMMA ConnectInv ==
  ASSUME CIInv, NEW t \in Threads, Connect(t)
  PROVE  CIInv'
<1> USE ConnectionsAssumption DEF CIInv, Connect, SetWriter, Writer, readVars
<1> DEFINE step == IF at[t] = "Connect" THEN "Begin" ELSE "Lookup"
           GoesOn == /\ SetWriter(t, IF Writer(t) = "Discarded" THEN NULL ELSE Writer(t))
                     /\ At(t, step)
                     /\ UNCHANGED <<mutex, tx>>
           GivesUp == Writer(t) = "Discarded" /\ Return(t) /\ UNCHANGED writer
<1>1. GoesOn \/ GivesUp
  OBVIOUS
<1>2. at[t] \in Holding /\ step \in Holding
  BY DEF Holding, WriteSteps, RecoverSteps
<1>3. CTypes'
  BY DEF CTypes, Steps, TxSteps, Holding, WriteSteps, RecoverSteps, At, Return
<1>4. MutexHeld' /\ OneCallEach'
  <2>1. CASE GoesOn
    BY <1>2, <2>1, HolderGoesOn
  <2>2. CASE GivesUp
    BY <1>2, <2>2, HolderReturns
  <2> QED
    BY <1>1, <2>1, <2>2
<1>5. WriterAtWork'
  <2>1. Writer(t) \in {NULL, "Discarded"}
    BY DEF CTypes, MutexHeld, WriterAtWork, Holding, WriteSteps, RecoverSteps
  <2>2. CASE GoesOn
    <3>1. /\ writer' = [writer EXCEPT ![StoreOf[t]] = NULL]
          /\ at' = [at EXCEPT ![t] = step] /\ step \in {"Begin", "Lookup"}
          /\ mutex' = mutex /\ tx' = tx
      BY <2>1, <2>2 DEF At
    <3>2. \A u \in Threads \ {t} : at[u] \in Holding => StoreOf[u] # StoreOf[t]
      BY <1>2, OneHolder
    <3> QED
      BY <3>1, <3>2 DEF CTypes, WriterAtWork, Holding, WriteSteps, RecoverSteps
  <2>3. CASE GivesUp
    <3>1. at' = [at EXCEPT ![t] = "Idle"] /\ mutex' = [mutex EXCEPT ![StoreOf[t]] = NULL]
          /\ tx' = [tx EXCEPT ![t] = NULL] /\ writer' = writer
      BY <2>3 DEF Return, At
    <3> QED
      BY <2>1, <3>1 DEF CTypes, MutexHeld, WriterAtWork
  <2> QED
    BY <1>1, <2>2, <2>3
<1>6. Submitted'
  BY DEF CTypes, Submitted, WriteSteps, At, Return
<1>7. PoolSound' /\ AnswersHold' /\ ReadsAreCurrent'
  BY DEF CTypes, Return, At, PoolSound, AnswersHold, ReadsAreCurrent
<1> QED
  BY <1>3, <1>4, <1>5, <1>6, <1>7

(* A transaction begins when no writer is in one, or the call returns. *)
LEMMA BeginInv ==
  ASSUME CIInv, NEW t \in Threads, Begin(t)
  PROVE  CIInv'
<1> USE ConnectionsAssumption DEF CIInv, Begin, SetWriter, Writer, readVars
<1> DEFINE Begins == /\ \A s \in Stores : writer[s] \in {NULL, "Discarded"}
                     /\ SetWriter(t, tx[t]) /\ At(t, "Body")
                     /\ UNCHANGED <<mutex, tx>>
           GivesUp == Return(t) /\ UNCHANGED writer
<1>1. Begins \/ GivesUp
  OBVIOUS
<1>2. at[t] \in Holding /\ "Body" \in Holding /\ at[t] = "Begin" /\ Writer(t) = NULL
  BY DEF WriterAtWork, Holding, WriteSteps, RecoverSteps
<1>3. CTypes'
  BY DEF CTypes, Steps, TxSteps, Holding, WriteSteps, RecoverSteps, At, Return
<1>4. MutexHeld' /\ OneCallEach'
  <2>1. CASE Begins
    BY <1>2, <2>1, HolderGoesOn
  <2>2. CASE GivesUp
    BY <1>2, <2>2, HolderReturns
  <2> QED
    BY <1>1, <2>1, <2>2
<1>5. WriterAtWork'
  <2>1. CASE Begins
    <3>1. /\ writer' = [writer EXCEPT ![StoreOf[t]] = tx[t]]
          /\ at' = [at EXCEPT ![t] = "Body"]
          /\ mutex' = mutex /\ tx' = tx /\ mutex[StoreOf[t]] = t
      BY <1>2, <2>1 DEF At, MutexHeld
    <3>2. \A u \in Threads \ {t} : at[u] \in Holding => StoreOf[u] # StoreOf[t]
      BY <1>2, OneHolder
    <3> QED
      BY <2>1, <3>1, <3>2 DEF CTypes, WriterAtWork, Holding, WriteSteps, RecoverSteps
  <2>2. CASE GivesUp
    <3>1. at' = [at EXCEPT ![t] = "Idle"] /\ mutex' = [mutex EXCEPT ![StoreOf[t]] = NULL]
          /\ tx' = [tx EXCEPT ![t] = NULL] /\ writer' = writer
      BY <2>2 DEF Return, At
    <3> QED
      BY <1>2, <3>1 DEF CTypes, MutexHeld, WriterAtWork
  <2> QED
    BY <1>1, <2>1, <2>2
<1>6. Submitted'
  BY DEF CTypes, Submitted, WriteSteps, At, Return
<1>7. PoolSound' /\ AnswersHold' /\ ReadsAreCurrent'
  BY DEF CTypes, Return, At, PoolSound, AnswersHold, ReadsAreCurrent
<1> QED
  BY <1>3, <1>4, <1>5, <1>6, <1>7

(* What the ends of a transaction have in common: the call returns, the     *)
(* writer is in no transaction, and at most the call's own persists, which  *)
(* nobody has reported absent.                                              *)
LEMMA EndInv ==
  ASSUME CIInv, NEW t \in Threads, at[t] = "Body", Return(t),
         NEW c \in {NULL, "Discarded"}, SetWriter(t, c),
         durable' \in {durable, durable \cup {tx[t]}},
         known' \in {known, known \cup {tx[t]}},
         known' # known => durable' = durable \cup {tx[t]},
         unsure' \in {unsure \ {tx[t]}, unsure \cup {tx[t]}, unsure},
         faults' \in 0..MaxFaults,
         UNCHANGED <<readVars, absent>>
  PROVE  CIInv'
<1> USE ConnectionsAssumption DEF CIInv, At, Return, SetWriter, Writer, readVars
<1>1. tx[t] \in TxIds /\ tx[t] \notin absent
  BY DEF CTypes, OneCallEach, Submitted, TxSteps, Holding, WriteSteps
<1>2. CTypes'
  BY <1>1 DEF CTypes, Steps, TxSteps, Holding, WriteSteps, RecoverSteps
<1>3. MutexHeld' /\ OneCallEach'
  <2>1. at[t] \in Holding
    BY DEF Holding, WriteSteps, RecoverSteps
  <2> QED
    BY <2>1, HolderReturns
<1>4. WriterAtWork'
  BY DEF CTypes, MutexHeld, WriterAtWork, Holding, WriteSteps, RecoverSteps
<1>5. Submitted'
  BY DEF CTypes, Submitted, WriteSteps
<1>6. PoolSound'
  BY DEF CTypes, PoolSound
<1>7. AnswersHold'
  BY <1>1 DEF AnswersHold
<1>8. ReadsAreCurrent'
  BY DEF ReadsAreCurrent
<1> QED
  BY <1>2, <1>3, <1>4, <1>5, <1>6, <1>7, <1>8

(* An operation that is refused rolls back; COMMIT succeeds, or fails and   *)
(* has persisted or not.                                                    *)
LEMMA EndsInv ==
  ASSUME CIInv, NEW t \in Threads, BodyFails(t) \/ CommitOk(t) \/ CommitFails(t)
  PROVE  CIInv'
<1>1. faults \in 0..MaxFaults /\ MaxFaults \in Nat
  BY ConnectionsAssumption DEF CIInv, CTypes
<1>2. CASE BodyFails(t)
  BY <1>1, <1>2, EndInv DEF BodyFails
<1>3. CASE CommitOk(t)
  BY <1>1, <1>3, EndInv DEF CommitOk
<1>4. CASE CommitFails(t)
  <2>1. faults' \in 0..MaxFaults
    BY <1>1, <1>4 DEF CommitFails
  <2> QED
    BY <1>4, <2>1, EndInv DEF CommitFails
<1> QED
  BY <1>2, <1>3, <1>4

(* A lookup answers from what is durable: the writer it holds is in no      *)
(* transaction, and no other call is submitting what it asks about.         *)
LEMMA LookupInv ==
  ASSUME CIInv, NEW t \in Threads, Lookup(t)
  PROVE  CIInv'
<1> USE ConnectionsAssumption DEF CIInv, Lookup, At, Return, Writer, readVars
<1>1. tx[t] \in TxIds /\ Writer(t) = NULL
  BY DEF CTypes, OneCallEach, WriterAtWork, TxSteps, Holding, RecoverSteps
<1>2. CTypes'
  BY <1>1 DEF CTypes, Steps, TxSteps, Holding, WriteSteps, RecoverSteps
<1>3. MutexHeld' /\ OneCallEach'
  <2>1. at[t] \in Holding
    BY DEF Holding, WriteSteps, RecoverSteps
  <2> QED
    BY <2>1, HolderReturns
<1>4. WriterAtWork'
  BY DEF CTypes, MutexHeld, WriterAtWork, Holding, WriteSteps, RecoverSteps
<1>5. Submitted'
  <2> SUFFICES ASSUME NEW u \in Threads, at'[u] \in {"LockWrite"} \cup WriteSteps
               PROVE  tx'[u] \notin absent'
    BY DEF Submitted
  <2>1. u # t /\ at[u] = at'[u] /\ tx'[u] = tx[u]
    BY DEF CTypes, WriteSteps
  <2>2. tx[u] # NULL /\ tx[u] # tx[t]
    BY <2>1 DEF OneCallEach, TxSteps, Holding
  <2>3. tx[u] \notin absent
    BY <2>1 DEF Submitted
  <2> QED
    BY <2>1, <2>2, <2>3
<1>6. PoolSound'
  BY DEF CTypes, PoolSound
<1>7. AnswersHold'
  BY <1>1 DEF AnswersHold
<1>8. ReadsAreCurrent'
  BY DEF ReadsAreCurrent
<1> QED
  BY <1>2, <1>3, <1>4, <1>5, <1>6, <1>7, <1>8

----------------------------------------------------------------------------
(* Reads                                                                   *)

(* What a step of a read leaves alone: the writer, the mutex and every call *)
(* about a transaction.                                                     *)
LEMMA ReadStepInv ==
  ASSUME CTypes, MutexHeld, OneCallEach, WriterAtWork, Submitted, AnswersHold,
         NEW t \in Threads, at[t] \in {"Idle", "Take", "Read", "Put"},
         NEW step \in {"Idle", "Take", "Read", "Put"}, At(t, step),
         UNCHANGED <<durable, writer, mutex, tx, unsure, known, absent, faults>>
  PROVE  /\ MutexHeld' /\ OneCallEach' /\ WriterAtWork' /\ Submitted' /\ AnswersHold'
         /\ at' \in [Threads -> Steps]
<1> USE ConnectionsAssumption DEF At, CTypes
<1>1. at' \in [Threads -> Steps]
  BY DEF Steps
<1>2. MutexHeld'
  BY DEF MutexHeld, Holding, WriteSteps, RecoverSteps
<1>3. OneCallEach'
  BY DEF OneCallEach, TxSteps, Holding, WriteSteps, RecoverSteps
<1>4. WriterAtWork'
  BY DEF WriterAtWork, Writer
<1>5. Submitted'
  BY DEF Submitted, WriteSteps
<1>6. AnswersHold'
  BY DEF AnswersHold
<1> QED
  BY <1>1, <1>2, <1>3, <1>4, <1>5, <1>6

(* A read begins by noting what is known. *)
LEMMA CallReadInv ==
  ASSUME CIInv, NEW t \in Threads, CallRead(t)
  PROVE  CIInv'
<1> USE DEF CIInv, CallRead
<1>1. /\ MutexHeld' /\ OneCallEach' /\ WriterAtWork' /\ Submitted' /\ AnswersHold'
      /\ at' \in [Threads -> Steps]
  BY ReadStepInv
<1>2. seen[t] = NULL
  BY DEF PoolSound
<1>3. CTypes'
  BY <1>1 DEF CTypes
<1>4. PoolSound'
  BY <1>2 DEF CTypes, PoolSound, At
<1>5. ReadsAreCurrent'
  BY <1>2 DEF CTypes, ReadsAreCurrent
<1> QED
  BY <1>1, <1>3, <1>4, <1>5

(* The pool shrinks by the connection that is taken, which is bound to      *)
(* nothing.                                                                 *)
LEMMA TakeInv ==
  ASSUME CIInv, NEW t \in Threads, Take(t)
  PROVE  CIInv'
<1> USE ConnectionsAssumption DEF CIInv, Take
<1> DEFINE s == StoreOf[t]
<1>1. /\ MutexHeld' /\ OneCallEach' /\ WriterAtWork' /\ Submitted' /\ AnswersHold'
      /\ at' \in [Threads -> Steps]
  BY ReadStepInv
<1>2. idle[s] \in Seq({NULL}) /\ Len(idle[s]) \in Nat
  BY LenProperties DEF CTypes
<1>3. reader' \in [Threads -> {NULL}] /\ idle' \in [Stores -> Seq({NULL})]
      /\ \A r \in Stores : Len(idle'[r]) <= MaxIdle
  <2>1. CASE idle[s] = <<>>
    BY <2>1 DEF CTypes, PoolSound
  <2>2. CASE idle[s] # <<>>
    <3>1. Len(idle[s]) > 0
      BY <1>2, <2>2, EmptySeq
    <3>2. Last(idle[s]) = NULL
      BY <1>2, <3>1, ElementOfSeq DEF Last
    <3>3. Front(idle[s]) \in Seq({NULL}) /\ Len(Front(idle[s])) = Len(idle[s]) - 1
      BY <1>2, <3>1, SubSeqProperties DEF Front
    <3>4. reader' = [reader EXCEPT ![t] = NULL] /\ idle' = [idle EXCEPT ![s] = Front(idle[s])]
      BY <2>2, <3>2
    <3>5. MaxIdle \in Nat /\ Len(idle[s]) <= MaxIdle
      BY DEF PoolSound
    <3> HIDE DEF Take
    <3> QED
      BY <1>2, <3>3, <3>4, <3>5 DEF CTypes, PoolSound
  <2> QED
    BY <2>1, <2>2
<1>4. CTypes'
  BY <1>1, <1>3 DEF CTypes
<1>5. PoolSound'
  BY <1>3 DEF CTypes, PoolSound, At
<1>6. ReadsAreCurrent'
  BY DEF ReadsAreCurrent
<1> QED
  BY <1>1, <1>4, <1>5, <1>6

(* A statement on a connection that is bound to nothing sees all that is    *)
(* durable, and so all that was known when the read began.                  *)
LEMMA ReadInv ==
  ASSUME CIInv, NEW t \in Threads, Read(t)
  PROVE  CIInv'
<1> USE DEF CIInv, Read
<1>1. /\ MutexHeld' /\ OneCallEach' /\ WriterAtWork' /\ Submitted' /\ AnswersHold'
      /\ at' \in [Threads -> Steps]
  BY ReadStepInv
<1>2. seen' = [seen EXCEPT ![t] = durable]
  BY DEF CTypes
<1>3. CTypes'
  BY <1>1, <1>2 DEF CTypes
<1>4. PoolSound'
  BY <1>2 DEF CTypes, PoolSound, At
<1>5. ReadsAreCurrent'
  BY <1>2 DEF CTypes, PoolSound, AnswersHold, ReadsAreCurrent
<1> QED
  BY <1>1, <1>3, <1>4, <1>5

(* The connection goes back to a pool that has room, and is dropped          *)
(* otherwise.                                                                *)
LEMMA PutInv ==
  ASSUME CIInv, NEW t \in Threads, Put(t)
  PROVE  CIInv'
<1> USE ConnectionsAssumption DEF CIInv, Put
<1> DEFINE s == StoreOf[t]
<1>1. /\ MutexHeld' /\ OneCallEach' /\ WriterAtWork' /\ Submitted' /\ AnswersHold'
      /\ at' \in [Threads -> Steps]
  BY ReadStepInv
<1>2. idle[s] \in Seq({NULL}) /\ Len(idle[s]) \in Nat /\ reader[t] \in {NULL}
  BY LenProperties DEF CTypes
<1>3. idle' \in [Stores -> Seq({NULL})] /\ \A r \in Stores : Len(idle'[r]) <= MaxIdle
  <2>1. Append(idle[s], reader[t]) \in Seq({NULL}) /\ Len(Append(idle[s], reader[t])) = Len(idle[s]) + 1
    BY <1>2, AppendProperties
  <2> DEFINE q == IF Len(idle[s]) < MaxIdle THEN Append(idle[s], reader[t]) ELSE idle[s]
  <2>2. idle' = [idle EXCEPT ![s] = q]
    BY DEF CTypes
  <2>3. q \in Seq({NULL}) /\ Len(q) <= MaxIdle
    BY <1>2, <2>1 DEF PoolSound
  <2>4. idle \in [Stores -> Seq({NULL})] /\ s \in Stores /\ \A r \in Stores : Len(idle[r]) <= MaxIdle
    BY DEF CTypes, PoolSound
  <2> HIDE DEF q, CIInv, Put
  <2> QED
    BY <2>2, <2>3, <2>4
<1>4. CTypes'
  BY <1>1, <1>3 DEF CTypes
<1>5. PoolSound'
  BY <1>3 DEF CTypes, PoolSound, At
<1>6. ReadsAreCurrent'
  BY DEF CTypes, ReadsAreCurrent
<1> QED
  BY <1>1, <1>4, <1>5, <1>6

----------------------------------------------------------------------------
(* The death of a process                                                  *)

(* The calls of the other processes go on; of the calls it cut, at most one *)
(* was in a transaction that persists, and nobody has reported it absent.   *)
LEMMA DieInv ==
  ASSUME CIInv, NEW s \in Stores, Die(s)
  PROVE  CIInv'
<1> USE ConnectionsAssumption DEF CIInv
<1> DEFINE T == {t \in Threads : StoreOf[t] = s}
           cut == {t \in T : at[t] \in {"LockWrite"} \cup WriteSteps}
           lost == {tx[t] : t \in {u \in cut : at[u] = "Body"}}
<1>1. /\ at' = [t \in Threads |-> IF t \in T THEN "Idle" ELSE at[t]]
      /\ reader' = [t \in Threads |-> IF t \in T THEN NULL ELSE reader[t]]
      /\ seen' = [t \in Threads |-> IF t \in T THEN NULL ELSE seen[t]]
      /\ since' = [t \in Threads |-> IF t \in T THEN {} ELSE since[t]]
      /\ tx' = [t \in Threads |-> IF t \in T THEN NULL ELSE tx[t]]
      /\ writer' = [writer EXCEPT ![s] = NULL]
      /\ mutex' = [mutex EXCEPT ![s] = NULL]
      /\ known' = known /\ absent' = absent
  BY DEF Die
<1>2. /\ unsure' = unsure \cup {tx[t] : t \in cut}
      /\ durable' \in {durable, durable \cup lost}
      /\ idle' = [idle EXCEPT ![s] = <<>>]
      /\ faults < MaxFaults /\ faults' = faults + 1
  BY DEF Die
<1>3. \A t \in cut : tx[t] \in TxIds /\ tx[t] \notin absent
  BY DEF CTypes, OneCallEach, Submitted, TxSteps, Holding
<1>4. durable \subseteq durable' /\ durable' \subseteq durable \cup {tx[t] : t \in cut}
  BY <1>2
<1>5. CTypes'
  <2>1. durable' \in SUBSET TxIds /\ unsure' \in SUBSET TxIds
    BY <1>2, <1>3, <1>4 DEF CTypes
  <2>2. idle' \in [Stores -> Seq({NULL})]
    BY <1>2, EmptySeq DEF CTypes
  <2>3. faults' \in 0..MaxFaults
    BY <1>2 DEF CTypes
  <2> QED
    BY <1>1, <2>1, <2>2, <2>3 DEF CTypes, Steps
<1>6. MutexHeld'
  BY <1>1 DEF CTypes, MutexHeld, Holding, WriteSteps, RecoverSteps
<1>7. OneCallEach'
  BY <1>1 DEF CTypes, OneCallEach, TxSteps, Holding, WriteSteps, RecoverSteps
<1>8. WriterAtWork'
  BY <1>1 DEF CTypes, MutexHeld, WriterAtWork, Writer
<1>9. Submitted'
  BY <1>1 DEF CTypes, Submitted, WriteSteps
<1>10. PoolSound'
  BY <1>1, <1>2, EmptySeq DEF CTypes, PoolSound
<1>11. AnswersHold'
  BY <1>1, <1>3, <1>4 DEF AnswersHold
<1>12. ReadsAreCurrent'
  BY <1>1, <1>4 DEF CTypes, ReadsAreCurrent
<1> QED
  BY <1>5, <1>6, <1>7, <1>8, <1>9, <1>10, <1>11, <1>12

----------------------------------------------------------------------------
(* Every step of every call, and the death of a process, preserve the        *)
(* invariant.                                                                *)
LEMMA CNextInv == CIInv /\ [CNext]_cnVars => CIInv'
<1> SUFFICES ASSUME CIInv, [CNext]_cnVars PROVE CIInv'
  OBVIOUS
<1>1. ASSUME NEW t \in Threads, NEW x \in TxIds, CallWrite(t, x) \/ CallRecover(t, x)
      PROVE  CIInv'
  BY <1>1, CallWriteInv, CallRecoverInv
<1>2. ASSUME NEW t \in Threads, CallRead(t) \/ Proceed(t)
      PROVE  CIInv'
  BY <1>2, LockInv, ConnectInv, BeginInv, EndsInv, LookupInv, CallReadInv, TakeInv, ReadInv, PutInv
     DEF Proceed
<1>3. ASSUME NEW s \in Stores, Die(s)
      PROVE  CIInv'
  BY <1>3, DieInv
<1>4. CASE UNCHANGED cnVars
  BY <1>4 DEF cnVars, CIInv, CTypes, MutexHeld, OneCallEach, WriterAtWork, Submitted, PoolSound,
              AnswersHold, ReadsAreCurrent, Writer
<1> QED
  BY <1>1, <1>2, <1>3, <1>4 DEF CNext

(* Between calls no writer connection is in a transaction, whatever way the *)
(* last call ended: refused, panicked, committed, with a failed COMMIT, or   *)
(* with the death of its process (mod.rs, with_write).                       *)
THEOREM NoTransactionLeftOpen == CSpec => []NothingLeftOpen
<1> QED
  BY CInitInv, CNextInv, CIInvSound, PTL DEF CSpec

(* What a commit, a receipt or a recovery has said of a transaction stays    *)
(* true (commit, recover_transaction).                                       *)
THEOREM AnswersStayTrue == CSpec => []AnswersHold
<1> QED
  BY CInitInv, CNextInv, CIInvSound, PTL DEF CSpec

(* A read on a pooled connection misses nothing that was known when it began *)
(* and shows nothing that can be lost (read_pool.rs).                        *)
THEOREM PooledReadsAreCurrent == CSpec => []ReadsAreCurrent
<1> QED
  BY CInitInv, CNextInv, CIInvSound, PTL DEF CSpec

=============================================================================
