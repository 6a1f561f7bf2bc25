--------------------------- MODULE EventLogProofs ---------------------------
(***************************************************************************)
(* Proofs about the event log of EventLog: for any transactions, batches,  *)
(* readers, restarts and losses of power.                                  *)
(***************************************************************************)
EXTENDS EventLog, FiniteSetTheorems, SequenceTheorems, TLAPS

----------------------------------------------------------------------------
(* The inductive invariant                                                 *)

LogTypes ==
  /\ log \in Seq(EventRow)
  /\ synced \in 0..Len(log)
  /\ durability \in Durabilities
  /\ conn \in {"FULL", "NORMAL", "Poisoned"}

(* The parts of BatchesWhole: the numbers of the log, the batches and the   *)
(* numbers of the streams.                                                  *)
Numbered == \A i \in DOMAIN log : log[i].seq = i

(* The batch of tx lies in the log after its first n events *)
LiesAfter(tx, n) ==
  /\ {i \in DOMAIN log : log[i].tx = tx} = {n + k : k \in DOMAIN Batch[tx]}
  /\ \A k \in DOMAIN Batch[tx] : log[n + k].stream = Batch[tx][k]

InOnePiece == \A tx \in Committed : \E n \in 0..Len(log) : LiesAfter(tx, n)

UpTo(i, s) == {j \in 1..i : log[j].stream = s}

Versioned == \A i \in DOMAIN log : log[i].version = Cardinality(UpTo(i, log[i].stream))

(* What was in the log at a commit of a strict store is on disk, at its place *)
FirmOnDisk == \A e \in firm : \E i \in 1..synced : log[i] = e

(* A store opened as strict never works on a connection that does not sync *)
StrictSyncs == durability = "Strict" => conn # "NORMAL"

ELIInv == /\ LogTypes
          /\ Numbered
          /\ InOnePiece
          /\ Versioned
          /\ FirmOnDisk
          /\ StrictSyncs

(* The empty database satisfies the invariant (open). *)
LEMMA ELInitInv == ELInit => ELIInv
<1> SUFFICES ASSUME ELInit PROVE ELIInv
  OBVIOUS
<1>1. <<>> \in Seq(EventRow) /\ Len(<<>>) = 0 /\ DOMAIN log = {}
  BY EmptySeq DEF ELInit
<1> QED
  BY <1>1
     DEF ELInit, ELIInv, LogTypes, Numbered, InOnePiece, Committed, Versioned, FirmOnDisk,
         StrictSyncs, SynchronousPragma, Durabilities

(* The invariant implies the properties that the runs check. *)
LEMMA ELInvSound == ELIInv => BatchesWhole /\ StrictCommitsSurvive
<1> SUFFICES ASSUME ELIInv PROVE BatchesWhole /\ StrictCommitsSurvive
  OBVIOUS
<1>1. BatchesWhole
  BY DEF ELIInv, Numbered, InOnePiece, LiesAfter, Versioned, UpTo, BatchesWhole
<1>2. StrictCommitsSurvive
  <2>1. DOMAIN log = 1..Len(log) /\ Len(log) \in Nat /\ synced \in 0..Len(log)
    BY LenProperties DEF ELIInv, LogTypes
  <2>2. \A e \in firm : \E i \in DOMAIN log : log[i] = e
    BY <2>1 DEF ELIInv, FirmOnDisk
  <2> QED
    BY <2>2 DEF StrictCommitsSurvive, Range
<1> QED
  BY <1>1, <1>2

----------------------------------------------------------------------------
(* The log grows by a batch                                                *)

(* Indices of a sequence that satisfy something are finitely many. *)
LEMMA FiniteUpTo ==
  ASSUME NEW i \in Nat, NEW T \in SUBSET (1..i)
  PROVE  IsFiniteSet(T) /\ Cardinality(T) \in Nat
<1>1. IsFiniteSet(1..i)
  BY FS_Interval
<1> QED
  BY <1>1, FS_Subset, FS_CardinalityType

(* The rows that commit inserts for a batch. *)
LEMMA InsertedRows ==
  ASSUME LogTypes, NEW tx \in TxIds
  PROVE  /\ Inserted(tx) \in Seq(EventRow)
         /\ Len(Inserted(tx)) = Len(Batch[tx])
         /\ DOMAIN Batch[tx] = 1..Len(Batch[tx]) /\ Len(Batch[tx]) \in Nat
         /\ \A k \in 1..Len(Batch[tx]) :
              Inserted(tx)[k] =
                [seq |-> Len(log) + k, tx |-> tx, stream |-> Batch[tx][k],
                 version |-> StreamVersion(Batch[tx][k])
                               + Cardinality({m \in 1..k : Batch[tx][m] = Batch[tx][k]})]
<1> DEFINE b == Batch[tx]
           row(k) == [seq |-> Len(log) + k, tx |-> tx, stream |-> b[k],
                      version |-> StreamVersion(b[k]) + Cardinality({m \in 1..k : b[m] = b[k]})]
<1>1. b \in Seq(Streams) /\ DOMAIN b = 1..Len(b) /\ Len(b) \in Nat
      /\ \A k \in 1..Len(b) : b[k] \in Streams
  BY EventLogAssumption, LenProperties
<1>2. Len(log) \in Nat /\ DOMAIN log = 1..Len(log)
  BY LenProperties DEF LogTypes
<1>3. ASSUME NEW k \in 1..Len(b) PROVE row(k) \in EventRow
  <2>1. {m \in 1..k : b[m] = b[k]} \in SUBSET (1..k) /\ k \in Nat
    BY <1>1
  <2>2. {i \in DOMAIN log : log[i].stream = b[k]} \in SUBSET (1..Len(log))
    BY <1>2
  <2>3. StreamVersion(b[k]) \in Nat /\ Cardinality({m \in 1..k : b[m] = b[k]}) \in Nat
    BY <1>2, <2>1, <2>2, FiniteUpTo DEF StreamVersion
  <2> QED
    BY <1>1, <1>2, <2>3 DEF EventRow
<1>4. Inserted(tx) = [k \in 1..Len(b) |-> row(k)]
  BY <1>1 DEF Inserted
<1> HIDE DEF row
<1>5. Inserted(tx) \in [1..Len(b) -> EventRow]
  BY <1>3, <1>4
<1>6. Inserted(tx) \in Seq(EventRow) /\ Len(Inserted(tx)) = Len(b)
  BY <1>1, <1>5
<1> QED
  BY <1>1, <1>4, <1>6 DEF row

(* The log after a batch: what was there before, and then the batch. *)
LEMMA GrownLog ==
  ASSUME LogTypes, NEW tx \in TxIds, log' = log \o Inserted(tx)
  PROVE  /\ log' \in Seq(EventRow)
         /\ Len(log) \in Nat /\ Len(Batch[tx]) \in Nat
         /\ DOMAIN log = 1..Len(log) /\ DOMAIN Batch[tx] = 1..Len(Batch[tx])
         /\ Len(log') = Len(log) + Len(Batch[tx]) /\ DOMAIN log' = 1..Len(log')
         /\ \A i \in 1..Len(log) : log'[i] = log[i]
         /\ \A k \in 1..Len(Batch[tx]) :
              /\ log'[Len(log) + k].seq = Len(log) + k
              /\ log'[Len(log) + k].tx = tx
              /\ log'[Len(log) + k].stream = Batch[tx][k]
              /\ log'[Len(log) + k].version = StreamVersion(Batch[tx][k])
                   + Cardinality({m \in 1..k : Batch[tx][m] = Batch[tx][k]})
<1> DEFINE I == Inserted(tx)
<1>1. log \in Seq(EventRow) /\ I \in Seq(EventRow) /\ Len(I) = Len(Batch[tx])
  BY InsertedRows DEF LogTypes
<1>2. Len(log) \in Nat /\ DOMAIN log = 1..Len(log)
  BY <1>1, LenProperties
<1>3. Len(Batch[tx]) \in Nat /\ DOMAIN Batch[tx] = 1..Len(Batch[tx])
  BY InsertedRows
<1> HIDE DEF I
<1>4. /\ log \o I \in Seq(EventRow)
      /\ Len(log \o I) = Len(log) + Len(I)
      /\ \A i \in 1..Len(log) + Len(I) : (log \o I)[i] = IF i <= Len(log) THEN log[i] ELSE I[i - Len(log)]
  BY <1>1, ConcatProperties
<1>5. log' = log \o I
  BY DEF I
<1>6. log' \in Seq(EventRow) /\ Len(log') = Len(log) + Len(Batch[tx]) /\ DOMAIN log' = 1..Len(log')
  BY <1>1, <1>4, <1>5, LenProperties
<1>7. \A i \in 1..Len(log) : log'[i] = log[i]
  BY <1>1, <1>2, <1>3, <1>4, <1>5
<1>8. ASSUME NEW k \in 1..Len(Batch[tx]) PROVE log'[Len(log) + k] = I[k]
  <2>1. Len(log) + k \in 1..Len(log) + Len(I) /\ ~(Len(log) + k <= Len(log))
        /\ Len(log) + k - Len(log) = k
    BY <1>1, <1>2, <1>3
  <2> QED
    BY <1>4, <1>5, <2>1
<1>9. \A k \in 1..Len(Batch[tx]) :
        I[k] = [seq |-> Len(log) + k, tx |-> tx, stream |-> Batch[tx][k],
                version |-> StreamVersion(Batch[tx][k])
                              + Cardinality({m \in 1..k : Batch[tx][m] = Batch[tx][k]})]
  BY InsertedRows DEF I
<1>10. \A k \in 1..Len(Batch[tx]) :
         /\ log'[Len(log) + k].seq = Len(log) + k
         /\ log'[Len(log) + k].tx = tx
         /\ log'[Len(log) + k].stream = Batch[tx][k]
         /\ log'[Len(log) + k].version = StreamVersion(Batch[tx][k])
              + Cardinality({m \in 1..k : Batch[tx][m] = Batch[tx][k]})
  <2> TAKE k \in 1..Len(Batch[tx])
  <2> DEFINE v == StreamVersion(Batch[tx][k]) + Cardinality({m \in 1..k : Batch[tx][m] = Batch[tx][k]})
  <2>1. log'[Len(log) + k] = [seq |-> Len(log) + k, tx |-> tx, stream |-> Batch[tx][k], version |-> v]
    BY <1>8, <1>9
  <2> HIDE DEF v
  <2>2. /\ log'[Len(log) + k].seq = Len(log) + k
        /\ log'[Len(log) + k].tx = tx
        /\ log'[Len(log) + k].stream = Batch[tx][k]
        /\ log'[Len(log) + k].version = v
    BY <2>1
  <2> QED
    BY <2>2 DEF v
<1> QED
  BY <1>2, <1>3, <1>6, <1>7, <1>10

(* A batch that is not in the log yet lies after all that is, and moves     *)
(* nothing.                                                                 *)
LEMMA GrownInOnePiece ==
  ASSUME LogTypes, InOnePiece, NEW tx \in TxIds \ Committed, log' = log \o Inserted(tx)
  PROVE  InOnePiece'
<1> DEFINE b == Batch[tx]
<1>1. /\ Len(log) \in Nat /\ Len(b) \in Nat
      /\ DOMAIN log = 1..Len(log) /\ DOMAIN b = 1..Len(b)
      /\ DOMAIN log' = 1..(Len(log) + Len(b)) /\ Len(log') = Len(log) + Len(b)
      /\ \A i \in 1..Len(log) : log'[i] = log[i]
      /\ \A k \in 1..Len(b) : log'[Len(log) + k].tx = tx /\ log'[Len(log) + k].stream = b[k]
  BY GrownLog
<1>2. \A i \in 1..Len(log) : log[i].tx # tx
  BY <1>1 DEF Committed
<1>3. \A i \in DOMAIN log' : i \in 1..Len(log) \/ \E k \in 1..Len(b) : i = Len(log) + k
  <2> TAKE i \in DOMAIN log'
  <2>1. i \in 1..Len(log) \/ (i - Len(log) \in 1..Len(b) /\ i = Len(log) + (i - Len(log)))
    BY <1>1
  <2> QED
    BY <2>1
<1> SUFFICES ASSUME NEW u \in Committed' PROVE \E n \in 0..Len(log') : LiesAfter(u, n)'
  BY DEF InOnePiece
<1>4. CASE u = tx
  <2>1. {i \in DOMAIN log' : log'[i].tx = tx} = {Len(log) + k : k \in DOMAIN b}
    <3>1. \A i \in DOMAIN log' : log'[i].tx = tx => \E k \in 1..Len(b) : i = Len(log) + k
      BY <1>1, <1>2, <1>3
    <3>2. \A k \in 1..Len(b) : Len(log) + k \in DOMAIN log'
      BY <1>1
    <3>3. ASSUME NEW i \in DOMAIN log'
          PROVE  log'[i].tx = tx <=> i \in {Len(log) + k : k \in 1..Len(b)}
      BY <1>1, <3>1
    <3> DEFINE A == {i \in DOMAIN log' : log'[i].tx = tx}
               B == {Len(log) + k : k \in DOMAIN b}
    <3>4. \A i \in A : i \in B
      BY <1>1, <3>1
    <3>5. \A i \in B : i \in DOMAIN log' /\ log'[i].tx = tx
      <4> SUFFICES ASSUME NEW k \in DOMAIN b
                   PROVE  Len(log) + k \in DOMAIN log' /\ log'[Len(log) + k].tx = tx
        OBVIOUS
      <4> HIDE DEF b
      <4> QED
        BY <1>1, <3>2
    <3>6. \A i \in B : i \in A
      BY <3>5
    <3> HIDE DEF A, B
    <3>7. A = B
      BY <3>4, <3>6
    <3> QED
      BY <3>7 DEF A, B
  <2>2. \A k \in DOMAIN b : log'[Len(log) + k].stream = b[k]
    BY <1>1
  <2>3. Len(log) \in 0..Len(log')
    BY <1>1
  <2> QED
    BY <1>4, <2>1, <2>2, <2>3 DEF LiesAfter
<1>5. CASE u # tx
  <2>1. u \in Committed
    BY <1>1, <1>3, <1>5 DEF Committed
  <2>2. PICK n \in 0..Len(log) : LiesAfter(u, n)
    BY <2>1 DEF InOnePiece
  <2>3. {i \in DOMAIN log' : log'[i].tx = u} = {i \in DOMAIN log : log[i].tx = u}
    <3>1. \A i \in DOMAIN log' : log'[i].tx = u => i \in 1..Len(log)
      BY <1>1, <1>3, <1>5
    <3>2. \A i \in 1..Len(log) : i \in DOMAIN log'
      BY <1>1
    <3> QED
      BY <1>1, <3>1, <3>2
  <2>4. ASSUME NEW k \in DOMAIN Batch[u] PROVE log'[n + k].stream = Batch[u][k]
    <3>1. n + k \in {i \in DOMAIN log : log[i].tx = u}
      BY <2>2 DEF LiesAfter
    <3>2. log'[n + k] = log[n + k]
      BY <1>1, <3>1
    <3> QED
      BY <2>2, <3>2 DEF LiesAfter
  <2>5. n \in 0..Len(log')
    BY <1>1
  <2>6. LiesAfter(u, n)'
    BY <2>2, <2>3, <2>4 DEF LiesAfter
  <2> QED
    BY <2>5, <2>6
<1> QED
  BY <1>4, <1>5

(* The positions in T, counted from n on. *)
Shifted(n, T) == {n + m : m \in T}

(* Counting on from n by k: the events of a stream among the first n of a   *)
(* log and those among k more.                                              *)
LEMMA CountOn ==
  ASSUME NEW n \in Nat, NEW k \in Nat, NEW S \in SUBSET (1..n), NEW T \in SUBSET (1..k)
  PROVE  Cardinality(S \cup Shifted(n, T)) = Cardinality(S) + Cardinality(T)
<1> DEFINE U == {n + m : m \in T}
           f == [m \in T |-> n + m]
<1>1. IsFiniteSet(S) /\ IsFiniteSet(T) /\ Cardinality(S) \in Nat /\ Cardinality(T) \in Nat
  BY FiniteUpTo
<1>2. f \in Bijection(T, U)
  <2>1. f \in [T -> U]
    OBVIOUS
  <2>2. \A x, y \in T : f[x] = f[y] => x = y
    OBVIOUS
  <2>3. \A u \in U : \E x \in T : f[x] = u
    OBVIOUS
  <2> QED
    BY <2>1, <2>2, <2>3 DEF Bijection, Injection, IsInjective, Surjection
<1>3. IsFiniteSet(U) /\ Cardinality(U) = Cardinality(T)
  BY <1>1, <1>2, FS_Bijection DEF ExistsBijection
<1>4. S \cap U = {}
  OBVIOUS
<1> HIDE DEF U
<1>5. Cardinality(S \cup U) = Cardinality(S) + Cardinality(U) - Cardinality(S \cap U)
  BY <1>1, <1>3, FS_Union
<1>6. Cardinality(S \cap U) = 0
  BY <1>4, FS_EmptySet
<1>7. Cardinality(S \cup U) = Cardinality(S) + Cardinality(T)
  BY <1>1, <1>3, <1>5, <1>6
<1>8. Shifted(n, T) = U
  BY DEF U, Shifted
<1> QED
  BY <1>7, <1>8

(* Events of a batch continue the numbers of their streams, also when the    *)
(* batch has several of one stream.                                         *)
LEMMA GrownVersioned ==
  ASSUME LogTypes, Versioned, NEW tx \in TxIds, log' = log \o Inserted(tx)
  PROVE  Versioned'
<1> DEFINE b == Batch[tx]
           n == Len(log)
<1>1. /\ n \in Nat /\ Len(b) \in Nat /\ DOMAIN log = 1..n
      /\ DOMAIN log' = 1..(n + Len(b))
      /\ \A i \in 1..n : log'[i] = log[i]
      /\ \A k \in 1..Len(b) : log'[n + k].stream = b[k]
      /\ \A k \in 1..Len(b) : log'[n + k].version =
           StreamVersion(b[k]) + Cardinality({m \in 1..k : b[m] = b[k]})
  BY GrownLog
<1> HIDE DEF n
<1> SUFFICES ASSUME NEW i \in DOMAIN log'
             PROVE  log'[i].version = Cardinality(UpTo(i, log[i].stream)')
  BY DEF Versioned
<1>2. CASE i \in 1..n
  <2>1. \A j \in 1..i : j \in 1..n
    BY <1>1, <1>2
  <2>2. UpTo(i, log[i].stream)' = UpTo(i, log[i].stream)
    BY <1>1, <1>2, <2>1 DEF UpTo
  <2> QED
    BY <1>1, <1>2, <2>2 DEF Versioned
<1>3. CASE i \notin 1..n
  <2>1. PICK k \in 1..Len(b) : i = n + k
    <3>1. i - n \in 1..Len(b) /\ i = n + (i - n)
      BY <1>1, <1>3
    <3> QED
      BY <3>1
  <2> DEFINE S == {j \in DOMAIN log : log[j].stream = b[k]}
             T == {m \in 1..k : b[m] = b[k]}
  <2>2. UpTo(i, log[i].stream)' = S \cup Shifted(n, T)
    <3>1. log'[i].stream = b[k]
      BY <1>1, <2>1
    <3>2. ASSUME NEW j \in 1..(n + k)
          PROVE  log'[j].stream = b[k] <=> j \in S \cup Shifted(n, T)
      <4>1. CASE j \in 1..n
        <5>1. j \notin Shifted(n, T)
          BY <1>1, <4>1 DEF Shifted
        <5>2. j \in DOMAIN log /\ log'[j] = log[j]
          BY <1>1, <4>1
        <5> QED
          BY <5>1, <5>2
      <4>2. CASE j \notin 1..n
        <5>1. j - n \in 1..k /\ j = n + (j - n) /\ k <= Len(b) /\ j - n \in 1..Len(b)
          BY <1>1, <4>2
        <5>2. log'[j].stream = b[j - n]
          BY <1>1, <5>1
        <5>3. j \in Shifted(n, T) <=> j - n \in T
          BY <1>1, <5>1 DEF Shifted
        <5> QED
          BY <1>1, <4>2, <5>1, <5>2, <5>3
      <4> QED
        BY <4>1, <4>2
    <3>3. S \cup Shifted(n, T) \subseteq 1..(n + k)
      BY <1>1 DEF Shifted
    <3> HIDE DEF S, T
    <3>4. UpTo(i, log[i].stream)' = {j \in 1..(n + k) : log'[j].stream = b[k]}
      BY <2>1, <3>1 DEF UpTo
    <3> QED
      BY <3>2, <3>3, <3>4
  <2>3. Cardinality(S \cup Shifted(n, T)) = Cardinality(S) + Cardinality(T)
    <3>1. S \in SUBSET (1..n) /\ T \in SUBSET (1..k) /\ k \in Nat
      BY <1>1
    <3>2. n \in Nat
      BY <1>1
    <3> HIDE DEF S, T
    <3> QED
      BY <3>1, <3>2, CountOn
  <2>4. log'[i].version = Cardinality(S) + Cardinality(T)
    BY <1>1, <2>1 DEF StreamVersion
  <2> QED
    BY <2>2, <2>3, <2>4
<1> QED
  BY <1>2, <1>3

(* A batch that is appended, and as much of the log that is on disk or more, *)
(* keep the shape of the log and what is on disk.                           *)
LEMMA GrownInv ==
  ASSUME ELIInv, NEW tx \in TxIds \ Committed, log' = log \o Inserted(tx),
         synced' \in {synced, Len(log')}
  PROVE  /\ log' \in Seq(EventRow) /\ synced' \in 0..Len(log')
         /\ Numbered' /\ InOnePiece' /\ Versioned'
         /\ \A e \in firm : \E i \in 1..synced' : log'[i] = e
<1> USE DEF ELIInv
<1>1. /\ log' \in Seq(EventRow) /\ Len(log) \in Nat /\ Len(Batch[tx]) \in Nat
      /\ Len(log') = Len(log) + Len(Batch[tx]) /\ DOMAIN log' = 1..Len(log')
      /\ DOMAIN log = 1..Len(log)
      /\ \A i \in 1..Len(log) : log'[i] = log[i]
      /\ \A k \in 1..Len(Batch[tx]) : log'[Len(log) + k].seq = Len(log) + k
  BY GrownLog
<1>2. synced \in 0..Len(log) /\ synced' \in synced..Len(log')
  BY <1>1 DEF LogTypes
<1>3. Numbered'
  <2> SUFFICES ASSUME NEW i \in 1..Len(log') PROVE log'[i].seq = i
    BY <1>1 DEF Numbered
  <2>1. CASE i \in 1..Len(log)
    BY <1>1, <2>1 DEF Numbered
  <2>2. CASE i \notin 1..Len(log)
    <3>1. i - Len(log) \in 1..Len(Batch[tx]) /\ i = Len(log) + (i - Len(log))
      BY <1>1, <2>2
    <3> QED
      BY <1>1, <3>1
  <2> QED
    BY <2>1, <2>2
<1>4. ASSUME NEW e \in firm PROVE \E i \in 1..synced' : log'[i] = e
  <2>1. PICK i \in 1..synced : log[i] = e
    BY DEF FirmOnDisk
  <2>2. i \in 1..synced' /\ i \in 1..Len(log)
    BY <1>1, <1>2
  <2> QED
    BY <1>1, <2>1, <2>2
<1>5. synced' \in 0..Len(log')
  BY <1>1, <1>2
<1> QED
  BY <1>1, <1>3, <1>4, <1>5, GrownInOnePiece, GrownVersioned

----------------------------------------------------------------------------
(* Commits                                                                 *)

(* What the log holds at a commit of a strict store is on disk: its          *)
(* connection syncs, also one that is reopened after an indeterminate        *)
(* outcome.                                                                 *)
LEMMA CommitInv ==
  ASSUME ELIInv, NEW tx \in TxIds, Commit(tx)
  PROVE  ELIInv'
<1> USE DEF ELIInv
<1>1. tx \in TxIds \ Committed /\ log' = log \o Inserted(tx)
      /\ synced' = IF Connection = "FULL" THEN Len(log') ELSE synced
  BY DEF Commit
<1>2. /\ log' \in Seq(EventRow) /\ synced' \in 0..Len(log')
      /\ Numbered' /\ InOnePiece' /\ Versioned'
      /\ \A e \in firm : \E i \in 1..synced' : log'[i] = e
  <2>1. synced' \in {synced, Len(log')}
    BY <1>1
  <2> HIDE DEF ELIInv
  <2> QED
    BY <1>1, <2>1, GrownInv
<1>3. /\ Connection \in {"FULL", "NORMAL"}
      /\ durability = "Strict" => Connection = "FULL"
      /\ conn' = Connection /\ durability' = durability
  BY DEF Commit, Connection, SynchronousPragma, StrictSyncs, LogTypes
<1>4. LogTypes'
  BY <1>2, <1>3 DEF LogTypes
<1>5. StrictSyncs'
  BY <1>3 DEF StrictSyncs
<1>6. FirmOnDisk'
  <2>1. CASE durability # "Strict"
    BY <1>2, <2>1 DEF Commit, FirmOnDisk
  <2>2. CASE durability = "Strict"
    <3>1. firm' = Range(log') /\ synced' = Len(log')
      BY <1>1, <1>3, <2>2 DEF Commit
    <3>2. DOMAIN log' = 1..Len(log')
      BY <1>2, LenProperties
    <3> QED
      BY <3>1, <3>2 DEF FirmOnDisk, Range
  <2> QED
    BY <2>1, <2>2
<1> QED
  BY <1>2, <1>4, <1>5, <1>6

(* A commit of unknown outcome has appended the whole batch or nothing, and  *)
(* poisons the connection.                                                  *)
LEMMA CommitUnsureInv ==
  ASSUME ELIInv, NEW tx \in TxIds, CommitUnsure(tx)
  PROVE  ELIInv'
<1>1. /\ tx \in TxIds \ Committed
      /\ conn' = "Poisoned" /\ durability' = durability /\ firm' = firm
  BY DEF CommitUnsure
<1>2. CASE log' = log \o Inserted(tx) /\ synced' \in {synced, Len(log')}
  <2>1. /\ log' \in Seq(EventRow) /\ synced' \in 0..Len(log')
        /\ Numbered' /\ InOnePiece' /\ Versioned'
        /\ \A e \in firm : \E i \in 1..synced' : log'[i] = e
    BY <1>1, <1>2, GrownInv
  <2> QED
    BY <1>1, <2>1 DEF ELIInv, LogTypes, FirmOnDisk, StrictSyncs
<1>3. CASE UNCHANGED <<log, synced>>
  BY <1>1, <1>3
     DEF ELIInv, LogTypes, Numbered, InOnePiece, Committed, LiesAfter, Versioned, UpTo, FirmOnDisk,
         StrictSyncs
<1> QED
  BY <1>2, <1>3 DEF CommitUnsure

----------------------------------------------------------------------------
(* Crashes                                                                 *)

(* What is cut off at the end of a batch is whole batches, and what was on   *)
(* disk is not among them.                                                  *)
LEMMA PowerLossInv ==
  ASSUME ELIInv, PowerLoss
  PROVE  ELIInv'
<1> USE DEF ELIInv
<1>1. PICK n \in BatchEnds \ 0..(synced - 1) : log' = SubSeq(log, 1, n) /\ synced' = n
  BY DEF PowerLoss
<1>2. Len(log) \in Nat /\ DOMAIN log = 1..Len(log) /\ synced \in 0..Len(log)
  BY LenProperties DEF LogTypes
<1>3. \A i \in 1..Len(log) : log[i] \in EventRow
  BY ElementOfSeq DEF LogTypes
<1>4. n \in {0, Len(log)} \/ (n \in 1..(Len(log) - 1) /\ log[n].tx # log[n + 1].tx)
  <2> HIDE DEF ELIInv
  <2> QED
    BY <1>1 DEF BatchEnds
<1>5. n \in 0..Len(log) /\ synced <= n
  <2>1. n \notin 0..(synced - 1)
    BY <1>1
  <2>2. n \in 0..Len(log)
    BY <1>2, <1>4
  <2> QED
    BY <1>2, <2>1, <2>2
<1>6. n < Len(log) /\ 0 < n => log[n].tx # log[n + 1].tx
  <2> DEFINE L == Len(log)
  <2>1. L \in Nat /\ n \in 0..L
    BY <1>2, <1>5
  <2>2. n \in {0, L} \/ (n \in 1..(L - 1) /\ log[n].tx # log[n + 1].tx)
    BY <1>4
  <2> HIDE DEF ELIInv, L
  <2>3. n < L /\ 0 < n => log[n].tx # log[n + 1].tx
    BY <2>1, <2>2
  <2> QED
    BY <2>3 DEF L
<1>7. /\ log' \in Seq(EventRow) /\ Len(log') = n /\ DOMAIN log' = 1..n
      /\ \A i \in 1..n : log'[i] = log[i]
  <2>1. /\ SubSeq(log, 1, n) \in Seq(EventRow)
        /\ Len(SubSeq(log, 1, n)) = IF 1 <= n THEN n - 1 + 1 ELSE 0
        /\ \A i \in 1..n - 1 + 1 : SubSeq(log, 1, n)[i] = log[1 + i - 1]
    <3>1. \A i \in 1..n : log[i] \in EventRow
      BY <1>2, <1>5, <1>3
    <3> QED
      BY <1>5, <3>1, SubSeqProperties
  <2>2. Len(log') = n
    BY <1>1, <1>5, <2>1
  <2>3. \A i \in 1..n : i \in 1..n - 1 + 1 /\ 1 + i - 1 = i
    BY <1>5
  <2>4. \A i \in 1..n : log'[i] = log[i]
    BY <1>1, <2>1, <2>3
  <2> QED
    BY <1>1, <2>1, <2>2, <2>4, LenProperties
<1>8. LogTypes' /\ StrictSyncs'
  BY <1>1, <1>2, <1>5, <1>7 DEF PowerLoss, LogTypes, StrictSyncs, SynchronousPragma, Durabilities
<1>9. Numbered'
  BY <1>2, <1>5, <1>7 DEF Numbered
<1>10. InOnePiece'
  <2> SUFFICES ASSUME NEW u \in Committed' PROVE \E m \in 0..n : LiesAfter(u, m)'
    BY <1>7 DEF InOnePiece
  <2>1. PICK i \in 1..n : log[i].tx = u
    BY <1>7 DEF Committed
  <2>2. i \in DOMAIN log /\ u \in Committed
    BY <1>2, <1>5, <2>1 DEF Committed
  <2>3. PICK m \in 0..Len(log) : LiesAfter(u, m)
    BY <2>2 DEF InOnePiece
  <2>4. DOMAIN Batch[u] = 1..Len(Batch[u]) /\ Len(Batch[u]) \in Nat
    <3>1. u \in TxIds
      BY <1>2, <1>3, <2>1, <2>2 DEF EventRow
    <3> QED
      BY <3>1, EventLogAssumption, LenProperties
  <2>5. \A j \in 1..Len(log) : log[j].tx = u <=> \E k \in 1..Len(Batch[u]) : j = m + k
    <3>1. {j \in DOMAIN log : log[j].tx = u} = {m + k : k \in DOMAIN Batch[u]}
      BY <2>3 DEF LiesAfter
    <3> HIDE DEF ELIInv
    <3> QED
      BY <1>2, <2>4, <3>1
  <2>6. \A k \in 1..Len(Batch[u]) : m + k \in 1..Len(log)
    BY <1>2, <2>3, <2>4 DEF LiesAfter
  <2>7. PICK k \in 1..Len(Batch[u]) : i = m + k
    BY <1>2, <2>1, <2>2, <2>5
  <2>8. m + Len(Batch[u]) <= n
    <3> SUFFICES ASSUME m + Len(Batch[u]) > n PROVE FALSE
      BY <1>5, <2>4
    <3>1. n - m \in 1..Len(Batch[u]) /\ n + 1 - m \in 1..Len(Batch[u])
          /\ n = m + (n - m) /\ n + 1 = m + (n + 1 - m)
      BY <1>5, <2>4, <2>7
    <3>2. n \in 1..Len(log) /\ n + 1 \in 1..Len(log)
      BY <2>6, <3>1
    <3>3. log[n].tx = u /\ log[n + 1].tx = u
      BY <2>5, <3>1, <3>2
    <3>4. n < Len(log) /\ 0 < n
      <4> HIDE DEF ELIInv
      <4> QED
        BY <1>2, <1>5, <3>2
    <3>5. log[n].tx # log[n + 1].tx
      BY <1>6, <3>4
    <3> QED
      BY <3>3, <3>5
  <2>9. \A k1 \in 1..Len(Batch[u]) : m + k1 \in 1..n
    BY <1>5, <2>4, <2>8
  <2>10. {j \in DOMAIN log' : log'[j].tx = u} = {m + k1 : k1 \in DOMAIN Batch[u]}
    <3>1. \A j \in 1..n : log'[j].tx = u <=> \E k1 \in 1..Len(Batch[u]) : j = m + k1
      BY <1>2, <1>5, <1>7, <2>5
    <3> DEFINE A == {j \in DOMAIN log' : log'[j].tx = u}
               B == {m + k1 : k1 \in DOMAIN Batch[u]}
    <3>2. \A j \in A : j \in B
      <4> SUFFICES ASSUME NEW j \in DOMAIN log', log'[j].tx = u
                   PROVE  \E k1 \in DOMAIN Batch[u] : j = m + k1
        OBVIOUS
      <4>1. j \in 1..n
        BY <1>7
      <4> QED
        BY <2>4, <3>1, <4>1
    <3>3. \A j \in B : j \in 1..n /\ j \in DOMAIN log' /\ log'[j].tx = u
      <4> SUFFICES ASSUME NEW k1 \in 1..Len(Batch[u])
                   PROVE  /\ m + k1 \in 1..n /\ m + k1 \in DOMAIN log'
                          /\ log'[m + k1].tx = u
        BY <2>4
      <4>1. m + k1 \in 1..n
        BY <2>9
      <4>2. m + k1 \in DOMAIN log'
        BY <1>7, <4>1
      <4> QED
        BY <3>1, <4>1, <4>2
    <3>4. \A j \in B : j \in A
      BY <3>3
    <3> HIDE DEF A, B
    <3>5. A = B
      BY <3>2, <3>4
    <3> QED
      BY <3>5 DEF A, B
  <2>11. \A k1 \in DOMAIN Batch[u] : log'[m + k1].stream = Batch[u][k1]
    BY <1>7, <2>3, <2>4, <2>9 DEF LiesAfter
  <2>12. m \in 0..n
    BY <1>5, <2>3, <2>7
  <2> QED
    BY <2>10, <2>11, <2>12 DEF LiesAfter
<1>11. Versioned'
  <2> SUFFICES ASSUME NEW i \in 1..n
               PROVE  log'[i].version = Cardinality(UpTo(i, log[i].stream)')
    BY <1>7 DEF Versioned
  <2>1. \A j \in 1..i : j \in 1..n
    BY <1>5
  <2>2. UpTo(i, log[i].stream)' = UpTo(i, log[i].stream)
    BY <1>7, <2>1 DEF UpTo
  <2> QED
    BY <1>2, <1>5, <1>7, <2>2 DEF Versioned
<1>12. FirmOnDisk'
  <2>1. synced \in 0..n
    BY <1>5 DEF LogTypes
  <2>2. firm' = firm
    BY DEF PowerLoss
  <2>3. \A i \in 1..synced : i \in 1..n
    BY <1>5, <2>1
  <2> QED
    BY <1>1, <1>7, <2>2, <2>3 DEF FirmOnDisk
<1> QED
  BY <1>8, <1>9, <1>10, <1>11, <1>12

(* The other steps leave the log alone: a restart opens a connection of the  *)
(* mode its durability asks for, and so does a resubmission or a recovery    *)
(* when there is none; a checkpoint syncs, a reader only reads.              *)
LEMMA KeptLogInv ==
  ASSUME ELIInv,
         Restart \/ Checkpoint \/ (\E r \in Readers, limit \in PageLimits : ReadPage(r, limit))
           \/ (\E tx \in TxIds : Resubmit(tx) \/ Recover(tx)) \/ UNCHANGED elVars
  PROVE  ELIInv'
<1>1. log' = log /\ firm' = firm /\ synced' \in {synced, Len(log)}
  BY DEF Restart, Checkpoint, ReadPage, Resubmit, Recover, elVars
<1>2. Len(log) \in Nat /\ synced \in 0..Len(log)
  BY LenProperties DEF ELIInv, LogTypes
<1>3. \/ conn' = SynchronousPragma(durability') /\ durability' \in Durabilities
      \/ conn' = conn /\ durability' = durability
  <2>1. durability \in Durabilities
    BY DEF ELIInv, LogTypes
  <2>2. ASSUME conn' = Connection, durability' = durability
        PROVE  conn' = SynchronousPragma(durability') \/ conn' = conn
    BY <2>2 DEF Connection
  <2> QED
    BY <2>1, <2>2 DEF Restart, Checkpoint, ReadPage, Resubmit, Recover, elVars
<1>4. LogTypes' /\ StrictSyncs'
  BY <1>1, <1>2, <1>3
     DEF ELIInv, LogTypes, StrictSyncs, SynchronousPragma, Durabilities
<1>5. Numbered' /\ InOnePiece' /\ Versioned'
  BY <1>1 DEF ELIInv, Numbered, InOnePiece, Committed, LiesAfter, Versioned, UpTo
<1>6. FirmOnDisk'
  <2>1. \A i \in 1..synced : i \in 1..synced'
    BY <1>1, <1>2
  <2> QED
    BY <1>1, <2>1 DEF ELIInv, FirmOnDisk
<1> QED
  BY <1>4, <1>5, <1>6 DEF ELIInv

----------------------------------------------------------------------------
(* Every commit, crash and read preserves the invariant. *)
LEMMA ELNextInv == ELIInv /\ [ELNext]_elVars => ELIInv'
<1> SUFFICES ASSUME ELIInv, [ELNext]_elVars PROVE ELIInv'
  OBVIOUS
<1>1. ASSUME NEW tx \in TxIds, Commit(tx) \/ CommitUnsure(tx)
      PROVE  ELIInv'
  BY <1>1, CommitInv, CommitUnsureInv
<1>2. CASE PowerLoss
  BY <1>2, PowerLossInv
<1>3. CASE Restart \/ Checkpoint \/ (\E r \in Readers, limit \in PageLimits : ReadPage(r, limit))
             \/ (\E tx \in TxIds : Resubmit(tx) \/ Recover(tx)) \/ UNCHANGED elVars
  BY <1>3, KeptLogInv
<1> QED
  BY <1>1, <1>2, <1>3 DEF ELNext

----------------------------------------------------------------------------
(* Pages                                                                   *)

(* g lists the c elements of S in the order R *)
Lists(g, c, S, R) ==
  /\ c \in Nat
  /\ g \in [1..c -> S]
  /\ \A e \in S : \E i \in 1..c : g[i] = e
  /\ \A i, j \in 1..c : <<g[i], g[j]>> \in R <=> i < j

(* Of a set that is listed, the element at i is the one with i - 1 before it. *)
LEMMA ListRanks ==
  ASSUME NEW g, NEW c, NEW S, NEW R, Lists(g, c, S, R)
  PROVE  /\ Cardinality(S) = c
         /\ \A i \in 1..c : \A e \in S :
              Cardinality({d \in S : <<d, e>> \in R}) = i - 1 <=> e = g[i]
<1>1. /\ c \in Nat /\ g \in [1..c -> S]
      /\ \A e \in S : \E i \in 1..c : g[i] = e
      /\ \A i, j \in 1..c : <<g[i], g[j]>> \in R <=> i < j
  BY DEF Lists
<1>2. ASSUME NEW i \in 1..c, NEW j \in 1..c, g[i] = g[j]
      PROVE  i = j
  <2>1. ~(i < j) /\ ~(j < i)
    <3>1. i < j <=> <<g[i], g[j]>> \in R
      BY <1>1
    <3>2. i < i <=> <<g[i], g[i]>> \in R
      BY <1>1
    <3>3. j < i <=> <<g[j], g[i]>> \in R
      BY <1>1
    <3>4. i \in Int /\ ~(i < i)
      OBVIOUS
    <3> QED
      BY <1>2, <3>1, <3>2, <3>3, <3>4
  <2> QED
    BY <2>1
<1>3. ASSUME NEW k \in 0..c, NEW T, T = {g[i] : i \in 1..k}
      PROVE  Cardinality(T) = k
  <2>1. \A i \in 1..k : i \in 1..c
    BY <1>1
  <2> DEFINE f == [i \in 1..k |-> g[i]]
  <2>2. f \in Bijection(1..k, T)
    <3>1. f \in [1..k -> T]
      BY <1>3
    <3>2. \A x, y \in 1..k : f[x] = f[y] => x = y
      BY <1>2, <2>1
    <3>3. \A t \in T : \E x \in 1..k : f[x] = t
      BY <1>3
    <3> QED
      BY <3>1, <3>2, <3>3 DEF Bijection, Injection, IsInjective, Surjection
  <2>3. IsFiniteSet(1..k) /\ Cardinality(1..k) = k
    BY FS_Interval
  <2> HIDE DEF f
  <2> QED
    BY <2>2, <2>3, FS_Bijection DEF ExistsBijection
<1>4. Cardinality(S) = c
  <2>1. S = {g[i] : i \in 1..c}
    BY <1>1
  <2> QED
    BY <1>1, <1>3, <2>1
<1>5. ASSUME NEW j \in 1..c
      PROVE  Cardinality({d \in S : <<d, g[j]>> \in R}) = j - 1
  <2>1. \A i \in 1..c : i < j <=> i \in 1..(j - 1)
    BY <1>1
  <2>2. \A i \in 1..(j - 1) : i \in 1..c
    BY <1>1
  <2>3. {d \in S : <<d, g[j]>> \in R} = {g[i] : i \in 1..(j - 1)}
    BY <1>1, <2>1, <2>2
  <2>4. j - 1 \in 0..c
    BY <1>1
  <2> QED
    BY <1>3, <2>3, <2>4
<1>6. ASSUME NEW i \in 1..c, NEW e \in S
      PROVE  Cardinality({d \in S : <<d, e>> \in R}) = i - 1 <=> e = g[i]
  <2>1. PICK j \in 1..c : g[j] = e
    BY <1>1
  <2>2. Cardinality({d \in S : <<d, e>> \in R}) = j - 1
    BY <1>5, <2>1
  <2>3. j - 1 = i - 1 <=> i = j
    OBVIOUS
  <2>4. e = g[i] <=> i = j
    BY <1>2, <2>1
  <2> QED
    BY <2>2, <2>3, <2>4
<1> QED
  BY <1>4, <1>6

(* The smaller of two numbers. *)
LEMMA MinOfTwo ==
  ASSUME NEW m \in Nat, NEW n \in Nat
  PROVE  Min({m, n}) = IF m <= n THEN m ELSE n
<1>1. \E x \in {m, n} : \A y \in {m, n} : x <= y
  OBVIOUS
<1>2. Min({m, n}) \in {m, n} /\ \A y \in {m, n} : Min({m, n}) <= y
  BY <1>1 DEF Min
<1> QED
  BY <1>2

(* Events in the order of a column *)
SeqOrder(S) == {x \in S \X S : x[1].seq < x[2].seq}
SeqOrderDown(S) == {x \in S \X S : x[1].seq > x[2].seq}
VersionOrder(S) == {x \in S \X S : x[1].version < x[2].version}

(* The first n of c *)
UpToLimit(n, c) == IF n <= c THEN n ELSE c

(* ORDER BY global_sequence returns the beginning of the list in that order, *)
LEMMA PageBySeq ==
  ASSUME NEW g, NEW c, NEW S, Lists(g, c, S, SeqOrder(S)), NEW n \in Nat
  PROVE  FirstOf(n, S, BySeq) = [i \in 1..UpToLimit(n, c) |-> g[i]]
<1> DEFINE R == SeqOrder(S)
<1>1. c \in Nat /\ g \in [1..c -> S]
  BY DEF Lists
<1>2. \A d, e \in S : BySeq(d, e) <=> <<d, e>> \in R
  BY DEF BySeq, SeqOrder
<1> HIDE DEF R
<1>3. /\ Cardinality(S) = c
      /\ \A i \in 1..c : \A e \in S : Cardinality({d \in S : <<d, e>> \in R}) = i - 1 <=> e = g[i]
  BY ListRanks DEF R
<1>4. \A e \in S : {d \in S : BySeq(d, e)} = {d \in S : <<d, e>> \in R}
  BY <1>2
<1>5. Min({n, Cardinality(S)}) = UpToLimit(n, c)
  BY <1>1, <1>3, MinOfTwo DEF UpToLimit
<1>6. ASSUME NEW i \in 1..UpToLimit(n, c)
      PROVE  (CHOOSE e \in S : Cardinality({d \in S : BySeq(d, e)}) = i - 1) = g[i]
  <2>1. i \in 1..c /\ g[i] \in S
    BY <1>1 DEF UpToLimit
  <2>2. \A e \in S : Cardinality({d \in S : BySeq(d, e)}) = i - 1 <=> e = g[i]
    BY <1>3, <1>4, <2>1
  <2> QED
    BY <2>1, <2>2
<1> QED
  BY <1>5, <1>6 DEF FirstOf

(* so does the same with DESC, *)
LEMMA PageBySeqDown ==
  ASSUME NEW g, NEW c, NEW S, Lists(g, c, S, SeqOrderDown(S)), NEW n \in Nat
  PROVE  FirstOf(n, S, BySeqDown) = [i \in 1..UpToLimit(n, c) |-> g[i]]
<1> DEFINE R == SeqOrderDown(S)
<1>1. c \in Nat /\ g \in [1..c -> S]
  BY DEF Lists
<1>2. \A d, e \in S : BySeqDown(d, e) <=> <<d, e>> \in R
  BY DEF BySeqDown, SeqOrderDown
<1> HIDE DEF R
<1>3. /\ Cardinality(S) = c
      /\ \A i \in 1..c : \A e \in S : Cardinality({d \in S : <<d, e>> \in R}) = i - 1 <=> e = g[i]
  BY ListRanks DEF R
<1>4. \A e \in S : {d \in S : BySeqDown(d, e)} = {d \in S : <<d, e>> \in R}
  BY <1>2
<1>5. Min({n, Cardinality(S)}) = UpToLimit(n, c)
  BY <1>1, <1>3, MinOfTwo DEF UpToLimit
<1>6. ASSUME NEW i \in 1..UpToLimit(n, c)
      PROVE  (CHOOSE e \in S : Cardinality({d \in S : BySeqDown(d, e)}) = i - 1) = g[i]
  <2>1. i \in 1..c /\ g[i] \in S
    BY <1>1 DEF UpToLimit
  <2>2. \A e \in S : Cardinality({d \in S : BySeqDown(d, e)}) = i - 1 <=> e = g[i]
    BY <1>3, <1>4, <2>1
  <2> QED
    BY <2>1, <2>2
<1> QED
  BY <1>5, <1>6 DEF FirstOf

(* and ORDER BY stream_version. *)
LEMMA PageByVersion ==
  ASSUME NEW g, NEW c, NEW S, Lists(g, c, S, VersionOrder(S)), NEW n \in Nat
  PROVE  FirstOf(n, S, ByVersion) = [i \in 1..UpToLimit(n, c) |-> g[i]]
<1> DEFINE R == VersionOrder(S)
<1>1. c \in Nat /\ g \in [1..c -> S]
  BY DEF Lists
<1>2. \A d, e \in S : ByVersion(d, e) <=> <<d, e>> \in R
  BY DEF ByVersion, VersionOrder
<1> HIDE DEF R
<1>3. /\ Cardinality(S) = c
      /\ \A i \in 1..c : \A e \in S : Cardinality({d \in S : <<d, e>> \in R}) = i - 1 <=> e = g[i]
  BY ListRanks DEF R
<1>4. \A e \in S : {d \in S : ByVersion(d, e)} = {d \in S : <<d, e>> \in R}
  BY <1>2
<1>5. Min({n, Cardinality(S)}) = UpToLimit(n, c)
  BY <1>1, <1>3, MinOfTwo DEF UpToLimit
<1>6. ASSUME NEW i \in 1..UpToLimit(n, c)
      PROVE  (CHOOSE e \in S : Cardinality({d \in S : ByVersion(d, e)}) = i - 1) = g[i]
  <2>1. i \in 1..c /\ g[i] \in S
    BY <1>1 DEF UpToLimit
  <2>2. \A e \in S : Cardinality({d \in S : ByVersion(d, e)}) = i - 1 <=> e = g[i]
    BY <1>3, <1>4, <2>1
  <2> QED
    BY <2>1, <2>2
<1> QED
  BY <1>5, <1>6 DEF FirstOf

----------------------------------------------------------------------------
(* The log as its queries list it                                          *)

(* The events after the first a, in order *)
Rest(a) == IF a <= Len(log) THEN Len(log) - a ELSE 0
TailFrom(a) == [i \in 1..Rest(a) |-> log[a + i]]

(* The events from the last to the first *)
Downward == [i \in 1..Len(log) |-> log[Len(log) + 1 - i]]

(* The rows of the log are its elements, each at its sequence. *)
LEMMA RowsAtPlace ==
  ASSUME LogTypes, Numbered
  PROVE  /\ Len(log) \in Nat
         /\ \A i \in 1..Len(log) : log[i] \in Rows /\ log[i] \in EventRow /\ log[i].seq = i
         /\ \A e \in Rows : e.seq \in 1..Len(log) /\ log[e.seq] = e /\ e \in EventRow
<1>1. log \in Seq(EventRow) /\ Len(log) \in Nat /\ DOMAIN log = 1..Len(log)
  BY LenProperties DEF LogTypes
<1>2. \A i \in 1..Len(log) : log[i] \in EventRow
  BY <1>1, ElementOfSeq
<1>3. \A i \in 1..Len(log) : log[i] \in Rows /\ log[i].seq = i
  BY <1>1 DEF Rows, Range, Numbered
<1>4. \A e \in Rows : \E i \in 1..Len(log) : log[i] = e
  BY <1>1 DEF Rows, Range
<1> QED
  BY <1>1, <1>2, <1>3, <1>4

(* What events_after selects. *)
LEMMA TailLists ==
  ASSUME LogTypes, Numbered, NEW a \in Nat
  PROVE  Lists(TailFrom(a), Rest(a), {e \in Rows : e.seq > a}, SeqOrder({e \in Rows : e.seq > a}))
<1> DEFINE S == {e \in Rows : e.seq > a}
           c == Rest(a)
           g == TailFrom(a)
<1>1. /\ Len(log) \in Nat
      /\ \A i \in 1..Len(log) : log[i] \in Rows /\ log[i].seq = i
      /\ \A e \in Rows : e.seq \in 1..Len(log) /\ log[e.seq] = e
  BY RowsAtPlace
<1>2. c \in Nat /\ \A i \in 1..c : a + i \in 1..Len(log)
  BY <1>1 DEF Rest
<1>3. DOMAIN g = 1..c /\ \A i \in 1..c : g[i] = log[a + i]
  BY DEF TailFrom
<1>4. \A i \in 1..c : g[i] \in S /\ g[i].seq = a + i
  BY <1>1, <1>2, <1>3
<1>5. ASSUME NEW e \in S PROVE \E i \in 1..c : g[i] = e
  <2>1. e.seq \in 1..Len(log) /\ e.seq > a /\ log[e.seq] = e
    BY <1>1
  <2>2. e.seq - a \in 1..c /\ a + (e.seq - a) = e.seq
    BY <1>1, <2>1 DEF Rest
  <2> QED
    BY <1>3, <2>1, <2>2
<1>6. g \in [1..c -> S]
  <2>1. g = [i \in 1..c |-> g[i]]
    BY DEF TailFrom
  <2> HIDE DEF g, S, c
  <2> QED
    BY <1>4, <2>1
<1>7. ASSUME NEW i \in 1..c, NEW j \in 1..c
      PROVE  <<g[i], g[j]>> \in SeqOrder(S) <=> i < j
  <2>1. g[i] \in S /\ g[j] \in S /\ g[i].seq = a + i /\ g[j].seq = a + j
    BY <1>4
  <2>2. a + i < a + j <=> i < j
    BY <1>2
  <2> HIDE DEF g, S, c
  <2> QED
    BY <2>1, <2>2 DEF SeqOrder
<1> HIDE DEF g, S, c
<1>8. Lists(g, c, S, SeqOrder(S))
  BY <1>2, <1>5, <1>6, <1>7 DEF Lists
<1> QED
  BY <1>8 DEF g, S, c

(* What last_events selects, before it is reversed. *)
LEMMA DownwardLists ==
  ASSUME LogTypes, Numbered
  PROVE  Lists(Downward, Len(log), Rows, SeqOrderDown(Rows))
<1> DEFINE L == Len(log)
<1>1. /\ L \in Nat
      /\ \A i \in 1..L : log[i] \in Rows /\ log[i].seq = i
      /\ \A e \in Rows : e.seq \in 1..L /\ log[e.seq] = e
  BY RowsAtPlace
<1>2. DOMAIN Downward = 1..L /\ \A i \in 1..L : Downward[i] = log[L + 1 - i]
  BY DEF Downward
<1> HIDE DEF L
<1>3. \A i \in 1..L : L + 1 - i \in 1..L
  BY <1>1
<1>4. \A i \in 1..L : Downward[i] \in Rows /\ Downward[i].seq = L + 1 - i
  BY <1>1, <1>2, <1>3
<1>5. ASSUME NEW e \in Rows PROVE \E i \in 1..L : Downward[i] = e
  <2>1. e.seq \in 1..L /\ log[e.seq] = e
    BY <1>1
  <2>2. L + 1 - e.seq \in 1..L /\ L + 1 - (L + 1 - e.seq) = e.seq
    BY <1>1, <2>1
  <2> QED
    BY <1>2, <2>1, <2>2
<1>6. Downward \in [1..L -> Rows]
  <2>1. Downward = [i \in 1..L |-> Downward[i]]
    BY DEF Downward, L
  <2> QED
    BY <1>4, <2>1
<1>7. ASSUME NEW i \in 1..L, NEW j \in 1..L
      PROVE  <<Downward[i], Downward[j]>> \in SeqOrderDown(Rows) <=> i < j
  <2>1. /\ Downward[i] \in Rows /\ Downward[j] \in Rows
        /\ Downward[i].seq = L + 1 - i /\ Downward[j].seq = L + 1 - j
    BY <1>4
  <2>2. L + 1 - i > L + 1 - j <=> i < j
    BY <1>1
  <2> QED
    BY <2>1, <2>2 DEF SeqOrderDown
<1>8. Lists(Downward, L, Rows, SeqOrderDown(Rows))
  BY <1>1, <1>5, <1>6, <1>7 DEF Lists
<1> QED
  BY <1>8 DEF L

(* The events of stream s by version *)
StreamRow(s) ==
  [v \in 1..StreamVersion(s) |-> CHOOSE e \in Rows : e.stream = s /\ e.version = v]

InStream(s) == {e \in Rows : e.stream = s}

(* Each version up to that of the stream is the version of one event, and    *)
(* versions follow sequences.                                               *)
LEMMA StreamRows ==
  ASSUME LogTypes, Numbered, Versioned, NEW s
  PROVE  /\ StreamVersion(s) \in 0..Len(log)
         /\ \A v \in 1..StreamVersion(s) :
              StreamRow(s)[v] \in InStream(s) /\ StreamRow(s)[v].version = v
         /\ \A e \in InStream(s) :
              e.version \in 1..StreamVersion(s) /\ StreamRow(s)[e.version] = e
         /\ \A d, e \in InStream(s) : d.seq < e.seq <=> d.version < e.version
<1> DEFINE P == {i \in 1..Len(log) : log[i].stream = s}
           c == StreamVersion(s)
           f == [i \in P |-> log[i].version]
<1>1. /\ Len(log) \in Nat /\ DOMAIN log = 1..Len(log)
      /\ \A i \in 1..Len(log) : log[i] \in Rows /\ log[i].seq = i
      /\ \A e \in Rows : e.seq \in 1..Len(log) /\ log[e.seq] = e
  BY RowsAtPlace, LenProperties DEF LogTypes
<1>2. IsFiniteSet(P) /\ Cardinality(P) = c /\ c \in Nat /\ c <= Len(log)
  <2>1. c = Cardinality(P)
    BY <1>1 DEF StreamVersion
  <2>2. IsFiniteSet(1..Len(log)) /\ Cardinality(1..Len(log)) = Len(log)
    BY <1>1, FS_Interval
  <2>3. P \in SUBSET (1..Len(log))
    OBVIOUS
  <2> HIDE DEF P, c
  <2>4. IsFiniteSet(P) /\ Cardinality(P) <= Len(log)
    BY <2>2, <2>3, FS_Subset
  <2> QED
    BY <2>1, <2>4, FS_CardinalityType
<1>3. ASSUME NEW i \in P
      PROVE  log[i].version \in 1..c
  <2>1. log[i].version = Cardinality(UpTo(i, s))
    BY <1>1 DEF Versioned
  <2>2. UpTo(i, s) \subseteq P /\ i \in UpTo(i, s) /\ i \in Nat
    BY <1>1 DEF UpTo
  <2>3. IsFiniteSet(UpTo(i, s)) /\ Cardinality(UpTo(i, s)) <= c
    BY <1>2, <2>2, FS_Subset
  <2>4. Cardinality(UpTo(i, s)) \in Nat /\ Cardinality(UpTo(i, s)) # 0
    BY <2>2, <2>3, FS_CardinalityType, FS_EmptySet
  <2> QED
    BY <1>2, <2>1, <2>3, <2>4
<1>4. ASSUME NEW i \in P, NEW j \in P, i < j
      PROVE  log[i].version < log[j].version
  <2>1. log[i].version = Cardinality(UpTo(i, s)) /\ log[j].version = Cardinality(UpTo(j, s))
    BY <1>1 DEF Versioned
  <2>2. UpTo(i, s) \in SUBSET UpTo(j, s) /\ j \in UpTo(j, s) /\ j \notin UpTo(i, s)
    BY <1>1, <1>4 DEF UpTo
  <2>3. UpTo(j, s) \in SUBSET P
    BY <1>1 DEF UpTo
  <2>4. IsFiniteSet(UpTo(j, s))
    BY <1>2, <2>3, FS_Subset
  <2>5. UpTo(i, s) # UpTo(j, s)
    BY <2>2
  <2>6. Cardinality(UpTo(i, s)) <= Cardinality(UpTo(j, s)) /\ Cardinality(UpTo(i, s)) # Cardinality(UpTo(j, s))
    BY <2>2, <2>4, <2>5, FS_Subset
  <2> QED
    BY <1>3, <2>1, <2>6
<1>5. \A i, j \in P : log[i].version < log[j].version <=> i < j
  <2> SUFFICES ASSUME NEW i \in P, NEW j \in P
               PROVE  log[i].version < log[j].version <=> i < j
    OBVIOUS
  <2>1. i \in Nat /\ j \in Nat /\ log[i].version \in Nat /\ log[j].version \in Nat
    BY <1>1, <1>2, <1>3
  <2>2. i < j \/ i = j \/ j < i
    BY <2>1
  <2> QED
    BY <1>4, <2>1, <2>2
<1>6. \A i, j \in P : log[i].version = log[j].version => i = j
  <2> SUFFICES ASSUME NEW i \in P, NEW j \in P, log[i].version = log[j].version
               PROVE  i = j
    OBVIOUS
  <2>1. i \in Nat /\ j \in Nat /\ log[i].version \in Nat
    BY <1>1, <1>2, <1>3
  <2>2. ~(i < j) /\ ~(j < i)
    BY <1>5, <2>1
  <2> QED
    BY <2>1, <2>2
<1>7. \A v \in 1..c : \E i \in P : log[i].version = v
  <2>1. f \in Injection(P, 1..c)
    BY <1>3, <1>6 DEF Injection, IsInjective
  <2>2. IsFiniteSet(1..c) /\ Cardinality(1..c) = c
    BY <1>2, FS_Interval
  <2>3. f \in Surjection(P, 1..c)
    <3> HIDE DEF f, P, c
    <3> QED
      BY <1>2, <2>1, <2>2, FS_Injection
  <2>4. \A v \in 1..c : \E i \in P : f[i] = v
    <3> HIDE DEF f, P, c
    <3> QED
      BY <2>3 DEF Surjection
  <2> QED
    BY <2>4
<1>8. \A e \in InStream(s) : e.seq \in P /\ log[e.seq] = e
  BY <1>1 DEF InStream
<1>9. ASSUME NEW v \in 1..c
      PROVE  StreamRow(s)[v] \in InStream(s) /\ StreamRow(s)[v].version = v
  <2>1. PICK i \in P : log[i].version = v
    BY <1>7
  <2>2. log[i] \in Rows /\ log[i].stream = s
    BY <1>1, <2>1
  <2>3. StreamRow(s)[v] = CHOOSE e \in Rows : e.stream = s /\ e.version = v
    BY DEF StreamRow
  <2> QED
    BY <2>1, <2>2, <2>3 DEF InStream
<1>10. ASSUME NEW d \in InStream(s), NEW e \in InStream(s), d.version = e.version
       PROVE  d = e
  BY <1>6, <1>8, <1>10
<1>11. \A e \in InStream(s) : e.version \in 1..c
  BY <1>3, <1>8
<1>12. \A d, e \in InStream(s) : d.seq < e.seq <=> d.version < e.version
  BY <1>5, <1>8
<1> HIDE DEF P, c, f
<1>13. \A e \in InStream(s) : StreamRow(s)[e.version] = e
  BY <1>9, <1>10, <1>11
<1>14. c \in 0..Len(log)
  BY <1>1, <1>2
<1> QED
  BY <1>9, <1>11, <1>12, <1>13, <1>14 DEF c

(* The events of a stream from a version on, *)
RestOf(s, v) == IF v <= StreamVersion(s) THEN StreamVersion(s) + 1 - v ELSE 0
StreamTail(s, v) == [i \in 1..RestOf(s, v) |-> StreamRow(s)[v - 1 + i]]

(* which is what stream_events selects, *)
LEMMA StreamTailLists ==
  ASSUME LogTypes, Numbered, Versioned, NEW s, NEW v \in Nat \ {0}
  PROVE  LET S == {e \in Rows : e.stream = s /\ e.version >= v}
         IN  Lists(StreamTail(s, v), RestOf(s, v), S, VersionOrder(S))
<1> DEFINE S == {e \in Rows : e.stream = s /\ e.version >= v}
           c == RestOf(s, v)
           g == StreamTail(s, v)
           h == StreamRow(s)
<1>1. /\ StreamVersion(s) \in 0..Len(log) /\ Len(log) \in Nat
      /\ \A w \in 1..StreamVersion(s) : h[w] \in InStream(s) /\ h[w].version = w
      /\ \A e \in InStream(s) : e.version \in 1..StreamVersion(s) /\ h[e.version] = e
  BY StreamRows, RowsAtPlace
<1> HIDE DEF h
<1>2. c \in Nat /\ \A i \in 1..c : v - 1 + i \in 1..StreamVersion(s) /\ v - 1 + i >= v
  BY <1>1 DEF RestOf
<1>3. DOMAIN g = 1..c /\ \A i \in 1..c : g[i] = h[v - 1 + i]
  BY DEF StreamTail, h
<1>4. \A i \in 1..c : g[i] \in S /\ g[i].version = v - 1 + i
  BY <1>1, <1>2, <1>3 DEF InStream
<1>5. ASSUME NEW e \in S PROVE \E i \in 1..c : g[i] = e
  <2>1. e \in InStream(s) /\ e.version \in 1..StreamVersion(s) /\ e.version >= v /\ h[e.version] = e
    BY <1>1 DEF InStream
  <2>2. e.version + 1 - v \in 1..c /\ v - 1 + (e.version + 1 - v) = e.version
    BY <1>1, <2>1 DEF RestOf
  <2> QED
    BY <1>3, <2>1, <2>2
<1>6. g \in [1..c -> S]
  <2>1. g = [i \in 1..c |-> g[i]]
    BY DEF StreamTail
  <2> HIDE DEF g, S, c
  <2> QED
    BY <1>4, <2>1
<1>7. ASSUME NEW i \in 1..c, NEW j \in 1..c
      PROVE  <<g[i], g[j]>> \in VersionOrder(S) <=> i < j
  <2>1. g[i] \in S /\ g[j] \in S /\ g[i].version = v - 1 + i /\ g[j].version = v - 1 + j
    BY <1>4
  <2>2. v - 1 + i < v - 1 + j <=> i < j
    BY <1>2
  <2> HIDE DEF g, S, c
  <2> QED
    BY <2>1, <2>2 DEF VersionOrder
<1> HIDE DEF g, S, c
<1>8. Lists(g, c, S, VersionOrder(S))
  BY <1>2, <1>5, <1>6, <1>7 DEF Lists
<1> QED
  BY <1>8 DEF g, S, c

(* and all of them, in the order of the log. *)
LEMMA StreamLists ==
  ASSUME LogTypes, Numbered, Versioned, NEW s
  PROVE  OfStream(s) = StreamRow(s)
<1> DEFINE c == StreamVersion(s)
           S == InStream(s)
           h == StreamRow(s)
<1>1. /\ c \in Nat
      /\ \A w \in 1..c : h[w] \in S /\ h[w].version = w
      /\ \A e \in S : e.version \in 1..c /\ h[e.version] = e
      /\ \A d, e \in S : d.seq < e.seq <=> d.version < e.version
  BY StreamRows, RowsAtPlace
<1>2. h = [w \in 1..c |-> h[w]]
  BY DEF StreamRow
<1> HIDE DEF c, S, h
<1>3. h \in [1..c -> S]
  BY <1>1, <1>2
<1>4. \A i, j \in 1..c : <<h[i], h[j]>> \in SeqOrder(S) <=> i < j
  BY <1>1 DEF SeqOrder
<1>5. Lists(h, c, S, SeqOrder(S))
  BY <1>1, <1>3, <1>4 DEF Lists
<1>6. Cardinality(S) = c
  BY <1>5, ListRanks
<1>7. FirstOf(c, S, BySeq) = [i \in 1..UpToLimit(c, c) |-> h[i]]
  BY <1>1, <1>5, PageBySeq
<1>8. UpToLimit(c, c) = c
  BY <1>1 DEF UpToLimit
<1>9. OfStream(s) = FirstOf(Cardinality(S), S, BySeq)
  BY DEF OfStream, S, InStream
<1> QED
  BY <1>2, <1>6, <1>7, <1>8, <1>9 DEF h

----------------------------------------------------------------------------
(* The readers                                                             *)

(* Reader r follows event e, at that place of what it follows *)
Own(r, e) == Follows[r] = All \/ e.stream = Follows[r]
Place(r, e) == IF Follows[r] = All THEN e.seq ELSE e.version

(* What a reader has got is numbered from 1 without a gap, and as long as    *)
(* nothing was lost it is in the log.                                       *)
ReadersInv ==
  /\ read \in [Readers -> Seq(EventRow)]
  /\ Len(log) <= MaxEvents
  /\ \A r \in Readers :
       /\ Len(read[r]) <= MaxEvents
       /\ \A i \in 1..Len(read[r]) :
            /\ Own(r, read[r][i]) /\ Place(r, read[r][i]) = i
            /\ losses = 0 => read[r][i] \in Rows

CountersInv ==
  /\ firm \subseteq EventRow
  /\ reported \subseteq TxIds
  /\ restarts \in 0..MaxRestarts
  /\ losses \in 0..MaxPowerLosses

(* What a reader follows has its events at their places. *)
LEMMA FollowedRows ==
  ASSUME LogTypes, Numbered, Versioned, NEW r \in Readers
  PROVE  /\ Followed(r) \in Seq(EventRow) /\ Len(Followed(r)) \in 0..Len(log)
         /\ \A e \in Rows : Own(r, e) => /\ Place(r, e) \in 1..Len(Followed(r))
                                         /\ Followed(r)[Place(r, e)] = e
<1>1. /\ Len(log) \in Nat /\ log \in Seq(EventRow)
      /\ \A e \in Rows : e.seq \in 1..Len(log) /\ log[e.seq] = e /\ e \in EventRow
  BY RowsAtPlace DEF LogTypes
<1>2. CASE Follows[r] = All
  BY <1>1, <1>2 DEF Followed, Own, Place
<1>3. CASE Follows[r] # All
  <2> DEFINE s == Follows[r]
             h == StreamRow(s)
             c == StreamVersion(s)
  <2>1. Followed(r) = h
    BY <1>3, StreamLists DEF Followed
  <2>2. /\ c \in 0..Len(log)
        /\ \A v \in 1..c : h[v] \in InStream(s)
        /\ \A e \in InStream(s) : e.version \in 1..c /\ h[e.version] = e
    BY StreamRows
  <2>3. h = [v \in 1..c |-> h[v]]
    BY DEF StreamRow
  <2> HIDE DEF h, c
  <2>4. \A v \in 1..c : h[v] \in EventRow
    BY <1>1, <2>2 DEF InStream
  <2>5. h \in Seq(EventRow) /\ Len(h) = c
    <3>1. h \in [1..c -> EventRow]
      BY <2>3, <2>4
    <3>2. c \in Nat
      BY <2>2
    <3> QED
      BY <3>1, <3>2
  <2>6. \A e \in Rows : Own(r, e) => e \in InStream(s) /\ Place(r, e) = e.version
    BY <1>3 DEF Own, Place, InStream
  <2> QED
    BY <2>1, <2>2, <2>5, <2>6
<1> QED
  BY <1>2, <1>3

(* A limit is a number of rows. *)
LEMMA LimitIsNat ==
  ASSUME NEW S, Cardinality(S) \in Nat, NEW limit \in 0..(2 * Half - 1)
  PROVE  Limited(S, limit) \in Nat
<1>1. Half \in Nat
  BY EventLogAssumption
<1>2. AsI64(limit) \in Int
  BY <1>1 DEF AsI64
<1> QED
  BY <1>2 DEF Limited

(* A cursor that the log can give is bound as it is. *)
LEMMA CursorBound ==
  ASSUME NEW a \in 0..(MaxEvents + 1)
  PROVE  AsI64(a) = a
<1>1. Half \in Nat \ {0} /\ MaxEvents \in 0..(Half - 2)
  BY EventLogAssumption
<1>2. ~(a >= Half)
  BY <1>1
<1> QED
  BY <1>2 DEF AsI64

(* A page goes on where the last one ended. *)
LEMMA PageGoesOn ==
  ASSUME LogTypes, Numbered, Versioned, NEW r \in Readers, NEW limit \in PageLimits,
         read[r] \in Seq(EventRow), Len(read[r]) <= MaxEvents,
         \A i \in 1..Len(read[r]) : Place(r, read[r][i]) = i
  PROVE  /\ NextPage(r, limit) \in Seq(EventRow)
         /\ \A i \in 1..Len(NextPage(r, limit)) :
              /\ NextPage(r, limit)[i] \in Rows /\ Own(r, NextPage(r, limit)[i])
              /\ Place(r, NextPage(r, limit)[i]) = Len(read[r]) + i
<1> DEFINE p == Len(read[r])
<1>1. /\ Half \in Nat \ {0} /\ MaxEvents \in Nat
      /\ limit \in 0..(2 * Half - 1)
  BY EventLogAssumption
<1>2. p \in Nat /\ p \in 0..MaxEvents /\ DOMAIN read[r] = 1..p
  BY <1>1, LenProperties
<1>3. /\ Len(log) \in Nat
      /\ \A e \in Rows : e \in EventRow /\ e.seq \in 1..Len(log) /\ log[e.seq] = e
      /\ \A i \in 1..Len(log) : log[i].seq = i
  BY RowsAtPlace
<1>4. read[r] # <<>> => p \in 1..p /\ Last(read[r]) = read[r][p] /\ Place(r, Last(read[r])) = p
  <2>1. read[r] # <<>> => p # 0
    BY <1>2, EmptySeq
  <2> QED
    BY <1>2, <2>1 DEF Last
<1>5. read[r] = <<>> => p = 0
  BY EmptySeq
<1> HIDE DEF p
<1>6. CASE Follows[r] = All
  <2> DEFINE S == {e \in Rows : e.seq > p}
             n == Limited(S, limit)
             m == UpToLimit(n, Rest(p))
             g == TailFrom(p)
  <2>1. (IF read[r] = <<>> THEN 0 ELSE Last(read[r]).seq) = p
    BY <1>4, <1>5, <1>6 DEF Place
  <2>2. RowsAfter(p) = S
    <3>1. AsI64(p) = p
      BY <1>1, <1>2, CursorBound
    <3> QED
      BY <3>1 DEF RowsAfter
  <2>3. NextPage(r, limit) = FirstOf(n, S, BySeq)
    BY <1>6, <2>1, <2>2 DEF NextPage, EventsAfter
  <2>4. Lists(g, Rest(p), S, SeqOrder(S))
    BY <1>2, TailLists
  <2>5. Rest(p) \in Nat /\ \A i \in 1..Rest(p) : g[i] \in S /\ g[i] = log[p + i] /\ p + i \in 1..Len(log)
    <3>1. Rest(p) \in Nat /\ \A i \in 1..Rest(p) : p + i \in 1..Len(log)
      BY <1>2, <1>3 DEF Rest
    <3>2. \A i \in 1..Rest(p) : g[i] \in S
      BY <2>4 DEF Lists
    <3>3. \A i \in 1..Rest(p) : g[i] = log[p + i]
      BY DEF TailFrom
    <3> QED
      BY <3>1, <3>2, <3>3
  <2>6. Cardinality(S) = Rest(p)
    BY <2>4, ListRanks
  <2> HIDE DEF g, S
  <2>7. n \in Nat
    BY <1>1, <2>5, <2>6, LimitIsNat
  <2> HIDE DEF n
  <2>8. NextPage(r, limit) = [i \in 1..m |-> g[i]]
    BY <2>3, <2>4, <2>7, PageBySeq
  <2>9. m \in Nat /\ \A i \in 1..m : i \in 1..Rest(p)
    BY <2>5, <2>7 DEF UpToLimit
  <2> HIDE DEF m
  <2>10. \A i \in 1..m : g[i] \in Rows /\ g[i] \in EventRow /\ g[i].seq = p + i
    BY <1>3, <2>5, <2>9 DEF S
  <2>11. NextPage(r, limit) \in Seq(EventRow) /\ Len(NextPage(r, limit)) = m
    BY <2>8, <2>9, <2>10
  <2> QED
    BY <1>6, <2>8, <2>10, <2>11 DEF Own, Place, p
<1>7. CASE Follows[r] # All
  <2> DEFINE s == Follows[r]
             S == {e \in Rows : e.stream = s /\ e.version >= p + 1}
             n == Limited(S, limit)
             c == RestOf(s, p + 1)
             m == UpToLimit(n, c)
             g == StreamTail(s, p + 1)
  <2>1. (IF read[r] = <<>> THEN 1 ELSE Last(read[r]).version + 1) = p + 1
    BY <1>4, <1>5, <1>7 DEF Place
  <2>2. RowsFrom(s, p + 1) = S
    <3>1. p + 1 \in 0..(MaxEvents + 1)
      BY <1>1, <1>2
    <3>2. AsI64(p + 1) = p + 1
      BY <3>1, CursorBound
    <3> QED
      BY <3>2 DEF RowsFrom
  <2>3. NextPage(r, limit) = FirstOf(n, S, ByVersion)
    BY <1>7, <2>1, <2>2 DEF NextPage, StreamEvents
  <2>4. p + 1 \in Nat \ {0}
    BY <1>2
  <2>5. Lists(g, c, S, VersionOrder(S))
    BY <2>4, StreamTailLists
  <2>6. c \in Nat /\ \A i \in 1..c : g[i] \in S /\ g[i].version = p + i
    <3>1. c \in Nat /\ \A i \in 1..c : g[i] \in S
      BY <2>5 DEF Lists
    <3>2. /\ StreamVersion(s) \in 0..Len(log)
          /\ \A v \in 1..StreamVersion(s) : StreamRow(s)[v].version = v
      BY StreamRows
    <3>3. \A i \in 1..c : p + i \in 1..StreamVersion(s) /\ (p + 1) - 1 + i = p + i
      BY <1>2, <1>3, <3>2 DEF RestOf
    <3>4. \A i \in 1..c : g[i] = StreamRow(s)[p + i]
      BY <3>3 DEF StreamTail
    <3> HIDE DEF g, c, S
    <3> QED
      BY <3>1, <3>2, <3>3, <3>4
  <2>7. Cardinality(S) = c
    BY <2>5, ListRanks
  <2> HIDE DEF g, S, c
  <2>8. n \in Nat
    BY <1>1, <2>6, <2>7, LimitIsNat
  <2> HIDE DEF n
  <2>9. NextPage(r, limit) = [i \in 1..m |-> g[i]]
    BY <2>3, <2>5, <2>8, PageByVersion
  <2>10. m \in Nat /\ \A i \in 1..m : i \in 1..c
    BY <2>6, <2>8 DEF UpToLimit
  <2> HIDE DEF m
  <2>11. \A i \in 1..m : g[i] \in Rows /\ g[i] \in EventRow /\ g[i].stream = s /\ g[i].version = p + i
    BY <1>3, <2>6, <2>10 DEF S
  <2>12. NextPage(r, limit) \in Seq(EventRow) /\ Len(NextPage(r, limit)) = m
    BY <2>9, <2>10, <2>11
  <2> QED
    BY <1>7, <2>9, <2>11, <2>12 DEF Own, Place, p
<1> QED
  BY <1>6, <1>7

(* A page keeps what a reader has got numbered. *)
LEMMA ReadPageKeeps ==
  ASSUME LogTypes, Numbered, Versioned, ReadersInv,
         NEW r \in Readers, NEW limit \in PageLimits, ReadPage(r, limit)
  PROVE  ReadersInv'
<1> DEFINE page == NextPage(r, limit)
           got == read[r]
<1>1. /\ read \in [Readers -> Seq(EventRow)] /\ got \in Seq(EventRow)
      /\ read' = [read EXCEPT ![r] = got \o page]
      /\ UNCHANGED <<log, losses>>
  BY DEF ReadersInv, ReadPage
<1>2. /\ Len(got) <= MaxEvents
      /\ \A i \in 1..Len(got) : /\ Own(r, got[i]) /\ Place(r, got[i]) = i
                                /\ losses = 0 => got[i] \in Rows
  BY DEF ReadersInv
<1>3. /\ page \in Seq(EventRow)
      /\ \A i \in 1..Len(page) : page[i] \in Rows /\ Own(r, page[i]) /\ Place(r, page[i]) = Len(got) + i
  BY <1>1, <1>2, PageGoesOn
<1> HIDE DEF page, got
<1>4. /\ Len(got) \in Nat /\ Len(page) \in Nat
      /\ got \o page \in Seq(EventRow) /\ Len(got \o page) = Len(got) + Len(page)
      /\ \A i \in 1..(Len(got) + Len(page)) :
           (got \o page)[i] = IF i <= Len(got) THEN got[i] ELSE page[i - Len(got)]
  BY <1>1, <1>3, ConcatProperties, LenProperties
<1>5. ASSUME NEW i \in 1..Len(got \o page)
      PROVE  /\ Own(r, (got \o page)[i]) /\ Place(r, (got \o page)[i]) = i
             /\ losses = 0 => (got \o page)[i] \in Rows
  <2>1. CASE i <= Len(got)
    BY <1>2, <1>4, <2>1
  <2>2. CASE ~(i <= Len(got))
    <3>1. i - Len(got) \in 1..Len(page) /\ Len(got) + (i - Len(got)) = i
      BY <1>4, <2>2
    <3> QED
      BY <1>3, <1>4, <2>2, <3>1
  <2> QED
    BY <2>1, <2>2
<1>6. Len(got \o page) <= MaxEvents
  <2>1. CASE Len(page) = 0
    BY <1>2, <1>4, <2>1
  <2>2. CASE Len(page) # 0
    <3>1. Len(page) \in 1..Len(page)
      BY <1>4, <2>2
    <3>2. Len(got) + Len(page) \in 1..Len(Followed(r)) /\ Len(Followed(r)) \in 0..Len(log)
      BY <1>3, <3>1, FollowedRows
    <3>3. Len(log) <= MaxEvents /\ Len(log) \in Nat /\ MaxEvents \in Nat
      BY RowsAtPlace, EventLogAssumption DEF ReadersInv
    <3> QED
      BY <1>4, <3>2, <3>3
  <2> QED
    BY <2>1, <2>2
<1>7. read' \in [Readers -> Seq(EventRow)]
  BY <1>1, <1>4
<1>8. ASSUME NEW q \in Readers
      PROVE  /\ Len(read'[q]) <= MaxEvents
             /\ \A i \in 1..Len(read'[q]) :
                  /\ Own(q, read'[q][i]) /\ Place(q, read'[q][i]) = i
                  /\ losses' = 0 => read'[q][i] \in Rows'
  <2>1. Rows' = Rows /\ losses' = losses
    BY <1>1 DEF Rows
  <2>2. CASE q = r
    <3>1. read'[q] = got \o page
      BY <1>1, <2>2
    <3> QED
      BY <1>5, <1>6, <2>1, <2>2, <3>1
  <2>3. CASE q # r
    <3>1. read'[q] = read[q]
      BY <1>1, <2>3
    <3> QED
      BY <2>1, <3>1 DEF ReadersInv
  <2> QED
    BY <2>2, <2>3
<1>9. Len(log') <= MaxEvents
  BY <1>1 DEF ReadersInv
<1> QED
  BY <1>7, <1>8, <1>9 DEF ReadersInv, Own, Place

(* Commits only add to the log, and a loss of power is counted. *)
LEMMA OthersKeepReaders ==
  ASSUME LogTypes, Numbered, ReadersInv, CountersInv, [ELNext]_elVars,
         ~ \E r \in Readers, limit \in PageLimits : ReadPage(r, limit)
  PROVE  ReadersInv'
<1>1. read' = read
  BY DEF ELNext, Commit, CommitUnsure, Resubmit, Recover, Restart, Checkpoint, PowerLoss, elVars
<1>2. Len(log) \in Nat /\ DOMAIN log = 1..Len(log) /\ MaxEvents \in Nat /\ Len(log) <= MaxEvents
  BY LenProperties, EventLogAssumption DEF LogTypes, ReadersInv
<1>3. /\ Len(log') <= MaxEvents
      /\ losses' = 0 => losses = 0 /\ Rows \subseteq Rows'
  <2>1. ASSUME NEW tx \in TxIds, Fits(tx), log' = log \o Inserted(tx), losses' = losses
        PROVE  Len(log') <= MaxEvents /\ (losses' = 0 => losses = 0 /\ Rows \subseteq Rows')
    <3>1. /\ Len(log') = Len(log) + Len(Batch[tx]) /\ DOMAIN log' = 1..Len(log')
          /\ Len(Batch[tx]) \in Nat
          /\ \A i \in 1..Len(log) : log'[i] = log[i]
      BY <2>1, GrownLog
    <3>2. \A i \in 1..Len(log) : i \in DOMAIN log'
      BY <1>2, <3>1
    <3>3. Rows \subseteq Rows'
      BY <1>2, <3>1, <3>2 DEF Rows, Range
    <3> QED
      BY <2>1, <3>1, <3>3 DEF Fits
  <2>2. CASE PowerLoss
    <3>1. PICK n \in BatchEnds : log' = SubSeq(log, 1, n)
      BY <2>2 DEF PowerLoss
    <3>2. n \in 0..Len(log)
      <4>1. n = 0 \/ n = Len(log) \/ n \in 1..(Len(log) - 1)
        BY <3>1 DEF BatchEnds
      <4> QED
        BY <1>2, <4>1
    <3>3. \A i \in 1..n : log[i] \in EventRow
      BY <1>2, <3>2, ElementOfSeq DEF LogTypes
    <3>4. Len(SubSeq(log, 1, n)) = IF 1 <= n THEN n - 1 + 1 ELSE 0
      BY <3>2, <3>3, SubSeqProperties
    <3>5. losses \in Nat /\ losses' = losses + 1
      BY <2>2, EventLogAssumption DEF PowerLoss, CountersInv
    <3> QED
      BY <1>2, <3>1, <3>2, <3>4, <3>5
  <2>3. CASE UNCHANGED <<log, losses>>
    BY <1>2, <2>3 DEF Rows
  <2>4. ASSUME NEW tx \in TxIds, Commit(tx) \/ CommitUnsure(tx)
        PROVE  (Fits(tx) /\ log' = log \o Inserted(tx) /\ losses' = losses) \/ UNCHANGED <<log, losses>>
    BY <2>4 DEF Commit, CommitUnsure
  <2>5. Restart \/ Checkpoint \/ (\E tx \in TxIds : Resubmit(tx) \/ Recover(tx)) \/ UNCHANGED elVars
          => UNCHANGED <<log, losses>>
    BY DEF Restart, Checkpoint, Resubmit, Recover, elVars
  <2> QED
    BY <2>1, <2>2, <2>3, <2>4, <2>5 DEF ELNext
<1> QED
  BY <1>1, <1>3 DEF ReadersInv, Own, Place

(* What is counted stays in its bounds. *)
LEMMA CountersStep ==
  ASSUME LogTypes, CountersInv, [ELNext]_elVars
  PROVE  CountersInv'
<1>1. MaxRestarts \in Nat /\ MaxPowerLosses \in Nat
  BY EventLogAssumption
<1>2. reported' \subseteq TxIds
  BY DEF ELNext, Commit, CommitUnsure, Resubmit, Recover, Receipt, Restart, Checkpoint, PowerLoss,
         ReadPage, elVars, CountersInv
<1>3. ASSUME NEW tx \in TxIds, Commit(tx)
      PROVE  firm' \subseteq EventRow
  <2>1. log' \in Seq(EventRow)
    BY <1>3, GrownLog DEF Commit
  <2>2. Range(log') \subseteq EventRow
    <3>1. \A i \in DOMAIN log' : log'[i] \in EventRow
      BY <2>1, ElementOfSeq, LenProperties
    <3> QED
      BY <3>1 DEF Range
  <2> QED
    BY <1>3, <2>2 DEF Commit, CountersInv
<1>4. CASE Restart
  BY <1>1, <1>2, <1>4 DEF Restart, CountersInv
<1>5. CASE PowerLoss
  <2>1. losses < MaxPowerLosses /\ losses' = losses + 1 /\ firm' = firm /\ restarts' = restarts
    BY <1>5 DEF PowerLoss
  <2> QED
    BY <1>1, <1>2, <2>1 DEF CountersInv
<1>6. ASSUME UNCHANGED <<restarts, losses>>, firm' \subseteq EventRow
      PROVE  CountersInv'
  BY <1>2, <1>6 DEF CountersInv
<1>7. \/ \E tx \in TxIds : Commit(tx)
      \/ Restart \/ PowerLoss
      \/ UNCHANGED <<firm, restarts, losses>>
  BY DEF ELNext, CommitUnsure, Resubmit, Recover, Checkpoint, ReadPage, elVars
<1>8. \A tx \in TxIds : Commit(tx) => UNCHANGED <<restarts, losses>>
  BY DEF Commit
<1>9. firm \subseteq EventRow
  BY DEF CountersInv
<1> QED
  BY <1>3, <1>4, <1>5, <1>6, <1>7, <1>8, <1>9

(* The invariant with the readers *)
TailInv == ELIInv /\ ReadersInv /\ CountersInv

(* Nobody has read anything of an empty log, *)
LEMMA TailInit == ELInit => TailInv
<1> SUFFICES ASSUME ELInit PROVE ReadersInv /\ CountersInv
  BY ELInitInv DEF TailInv
<1>1. MaxEvents \in Nat /\ MaxRestarts \in Nat /\ MaxPowerLosses \in Nat
  BY EventLogAssumption
<1>2. Len(<<>>) = 0 /\ <<>> \in Seq(EventRow)
  BY EmptySeq
<1>3. ReadersInv
  BY <1>1, <1>2 DEF ELInit, ReadersInv
<1> QED
  BY <1>1, <1>3 DEF ELInit, CountersInv

(* and every step keeps the invariant. *)
LEMMA TailNext == TailInv /\ [ELNext]_elVars => TailInv'
<1> SUFFICES ASSUME TailInv, [ELNext]_elVars PROVE TailInv'
  OBVIOUS
<1>1. LogTypes /\ Numbered /\ Versioned /\ ReadersInv /\ CountersInv /\ ELIInv
  BY DEF TailInv, ELIInv
<1>2. ReadersInv'
  BY <1>1, ReadPageKeeps, OthersKeepReaders
<1> QED
  BY <1>1, <1>2, ELNextInv, CountersStep DEF TailInv

(* A reader whose events are all in the log has seen the beginning of what   *)
(* it follows.                                                              *)
LEMMA SeenIsBeginning ==
  ASSUME TailInv, NEW r \in Readers, \A i \in 1..Len(read[r]) : read[r][i] \in Rows
  PROVE  IsPrefix(read[r], Followed(r))
<1> DEFINE F == Followed(r)
           n == Len(read[r])
<1>1. LogTypes /\ Numbered /\ Versioned
  BY DEF TailInv, ELIInv
<1>2. /\ read[r] \in Seq(EventRow) /\ n \in Nat
      /\ \A i \in 1..n : Own(r, read[r][i]) /\ Place(r, read[r][i]) = i
  BY LenProperties DEF TailInv, ReadersInv
<1>3. /\ F \in Seq(EventRow) /\ Len(F) \in Nat
      /\ \A e \in Rows : Own(r, e) => Place(r, e) \in 1..Len(F) /\ F[Place(r, e)] = e
  BY <1>1, FollowedRows, LenProperties
<1> HIDE DEF F, n
<1>4. \A i \in 1..n : i \in 1..Len(F) /\ F[i] = read[r][i]
  BY <1>2, <1>3 DEF n
<1>5. n <= Len(F)
  <2>1. CASE n = 0
    BY <1>3, <2>1
  <2>2. CASE n # 0
    <3>1. n \in 1..n
      BY <1>2, <2>2
    <3> QED
      BY <1>3, <1>4, <3>1
  <2> QED
    BY <2>1, <2>2
<1>6. /\ SubSeq(F, 1, n) \in Seq(EventRow)
      /\ Len(SubSeq(F, 1, n)) = n
      /\ \A i \in 1..n : SubSeq(F, 1, n)[i] = F[i]
  <2>1. \A i \in 1..n : F[i] \in EventRow
    BY <1>3, <1>4, ElementOfSeq
  <2>2. /\ SubSeq(F, 1, n) \in Seq(EventRow)
        /\ Len(SubSeq(F, 1, n)) = IF 1 <= n THEN n - 1 + 1 ELSE 0
        /\ \A i \in 1..(n - 1 + 1) : SubSeq(F, 1, n)[i] = F[1 + i - 1]
    BY <1>2, <2>1, SubSeqProperties
  <2> QED
    BY <1>2, <2>2
<1>7. SubSeq(F, 1, n) = read[r]
  <2>1. \A i \in 1..n : SubSeq(F, 1, n)[i] = read[r][i]
    BY <1>4, <1>6
  <2> QED
    BY <1>2, <1>6, <2>1, SeqEqual DEF n
<1>8. SubSeq(read[r], 1, n) = read[r]
  BY <1>2, SubSeqFull DEF n
<1> QED
  BY <1>5, <1>7, <1>8 DEF IsPrefix, F, n

(* Readers whose events cannot have been lost have the beginning. *)
LEMMA TailSound == TailInv => TailExact
<1> SUFFICES ASSUME TailInv PROVE TailExact
  OBVIOUS
<1>1. ELTypeOK
  BY DEF TailInv, ELIInv, LogTypes, ReadersInv, CountersInv, ELTypeOK
<1>2. ASSUME NEW r \in Readers, losses = 0 \/ \A i \in DOMAIN read[r] : read[r][i] \in firm
      PROVE  IsPrefix(read[r], Followed(r))
  <2>1. read[r] \in Seq(EventRow) /\ DOMAIN read[r] = 1..Len(read[r])
    BY LenProperties DEF TailInv, ReadersInv
  <2>2. firm \subseteq Rows
    BY ELInvSound DEF TailInv, StrictCommitsSurvive, Rows
  <2>3. \A i \in 1..Len(read[r]) : read[r][i] \in Rows
    BY <1>2, <2>1, <2>2 DEF TailInv, ReadersInv
  <2> QED
    BY <2>3, SeenIsBeginning
<1> QED
  BY <1>1, <1>2 DEF TailExact

(* The last events are the end of the log, asked for either way. *)
LEMMA LastIsTail == TailInv => LastEventsAgree
<1> SUFFICES ASSUME TailInv, NEW limit \in 0..(2 * Half - 1)
             PROVE  /\ Len(LastEvents(limit)) <= limit
                    /\ LastEvents(limit) = EventsAfter(Len(log) - Len(LastEvents(limit)), limit)
  BY DEF LastEventsAgree
<1> DEFINE L == Len(log)
           n == Limited(Rows, limit)
           u == UpToLimit(n, L)
<1>1. LogTypes /\ Numbered
  BY DEF TailInv, ELIInv
<1>2. /\ Half \in Nat \ {0} /\ MaxEvents \in 0..(Half - 2)
      /\ L \in Nat /\ L <= MaxEvents /\ L < Half
  BY <1>1, RowsAtPlace, EventLogAssumption DEF TailInv, ReadersInv
<1>3. Lists(Downward, L, Rows, SeqOrderDown(Rows))
  BY <1>1, DownwardLists
<1>4. Cardinality(Rows) = L
  BY <1>3, ListRanks
<1> HIDE DEF L
<1>5. n = (IF limit >= Half THEN L ELSE limit)
  BY <1>2, <1>4 DEF Limited, AsI64
<1> HIDE DEF n
<1>6. n \in Nat /\ u \in 0..L /\ u <= n /\ u <= limit
  BY <1>2, <1>5 DEF UpToLimit
<1>7. FirstOf(n, Rows, BySeqDown) = [i \in 1..u |-> Downward[i]]
  BY <1>3, <1>6, PageBySeqDown
<1> HIDE DEF u
<1>8. LastEvents(limit) = [i \in 1..u |-> log[(L - u) + i]]
  <2> DEFINE d == [i \in 1..u |-> Downward[i]]
  <2>1. Len(d) = u
    BY <1>6
  <2>2. LastEvents(limit) = [i \in 1..u |-> d[(u - i) + 1]]
    BY <1>7, <2>1 DEF LastEvents, Reverse, n
  <2>3. ASSUME NEW i \in 1..u
        PROVE  d[(u - i) + 1] = log[(L - u) + i]
    <3>1. (u - i) + 1 \in 1..u /\ (u - i) + 1 \in 1..L /\ L + 1 - ((u - i) + 1) = (L - u) + i
      BY <1>2, <1>6
    <3> QED
      BY <3>1 DEF Downward, L
  <2> HIDE DEF d
  <2> QED
    BY <2>2, <2>3
<1>9. Len(LastEvents(limit)) = u
  BY <1>6, <1>8
<1>10. EventsAfter(L - u, limit) = [i \in 1..u |-> log[(L - u) + i]]
  <2> DEFINE S == {e \in Rows : e.seq > L - u}
             m == Limited(S, limit)
  <2>1. L - u \in Nat /\ L - u \in 0..(MaxEvents + 1)
    BY <1>2, <1>6
  <2>2. RowsAfter(L - u) = S
    <3>1. AsI64(L - u) = L - u
      BY <2>1, CursorBound
    <3> QED
      BY <3>1 DEF RowsAfter
  <2>3. Rest(L - u) = u
    BY <1>2, <1>6 DEF Rest, L
  <2>4. Lists(TailFrom(L - u), u, S, SeqOrder(S))
    BY <1>1, <2>1, <2>3, TailLists
  <2>5. Cardinality(S) = u
    BY <2>4, ListRanks
  <2> HIDE DEF S
  <2>6. m = IF limit >= Half THEN u ELSE limit
    BY <1>2, <1>6, <2>5 DEF Limited, AsI64
  <2>7. m \in Nat /\ UpToLimit(m, u) = u
    BY <1>6, <2>6 DEF UpToLimit
  <2>8. EventsAfter(L - u, limit) = FirstOf(m, S, BySeq)
    BY <2>2 DEF EventsAfter
  <2> HIDE DEF m
  <2>9. EventsAfter(L - u, limit) = [i \in 1..u |-> TailFrom(L - u)[i]]
    <3> DEFINE g == TailFrom(L - u)
    <3>1. Lists(g, u, S, SeqOrder(S))
      BY <2>4
    <3> HIDE DEF g
    <3>2. FirstOf(m, S, BySeq) = [i \in 1..UpToLimit(m, u) |-> g[i]]
      BY <2>7, <3>1, PageBySeq
    <3> QED
      BY <2>7, <2>8, <3>2 DEF g
  <2>10. \A i \in 1..u : TailFrom(L - u)[i] = log[(L - u) + i]
    BY <2>3 DEF TailFrom
  <2> QED
    BY <2>9, <2>10
<1> QED
  BY <1>6, <1>8, <1>9, <1>10 DEF L

----------------------------------------------------------------------------
(* Theorems                                                                *)

(* What is in the log when a strict store reports a commit it has just made  *)
(* is never lost: not by a crash, a loss of power, a restart at another      *)
(* level or an indeterminate outcome, before or after (commit, connection,   *)
(* Durability::synchronous_pragma).                                         *)
THEOREM StrictCommitsAlwaysSurvive == ELSpec => []StrictCommitsSurvive
<1> QED
  BY ELInitInv, ELNextInv, ELInvSound, PTL DEF ELSpec

(* The log is whole batches, each once, and it numbers itself and every      *)
(* stream without a gap, whatever was lost and submitted again (commit,      *)
(* current_stream_version).                                                  *)
THEOREM LogIsWholeBatches == ELSpec => []BatchesWhole
<1> QED
  BY ELInitInv, ELNextInv, ELInvSound, PTL DEF ELSpec

(* A reader that pages through the log, or through a stream, has seen        *)
(* exactly the beginning of it, whatever pages, commits and restarts came    *)
(* between; also after a loss of power, if all that it saw was in the log at *)
(* a commit of a strict store (events_after, stream_events).                *)
THEOREM ReadersSeeTheBeginning == ELSpec => []TailExact
<1> QED
  BY TailInit, TailNext, TailSound, PTL DEF ELSpec

(* last_events returns the end of the log, oldest first, at most as many as  *)
(* were asked for: what events_after returns from there on.                 *)
THEOREM LastEventsAreTheEnd == ELSpec => []LastEventsAgree
<1> QED
  BY TailInit, TailNext, LastIsTail, PTL DEF ELSpec

=============================================================================
