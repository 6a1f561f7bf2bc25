------------------------- MODULE ControlPlaneProofs -------------------------
(***************************************************************************)
(* Proofs about ControlPlane: what holds in a transaction at every point   *)
(* of it, so that COMMIT may come, and of the tables it goes back to, so   *)
(* that it may fail.  For every set of transaction ids, streams and jobs,  *)
(* every choice of batches that the types of the code allow, and any       *)
(* number of failed COMMITs and crashes.                                   *)
(***************************************************************************)
EXTENDS ControlPlane, JobStoreProofs

(* The batches that clients build are batches: TransactionBatch is typed. *)
BatchesTyped ==
  \A issued \in SUBSET (JobIds \X Tokens) : Batches(issued) \subseteq BatchType

----------------------------------------------------------------------------
(* The inductive invariant                                                 *)

(* The job tables that are durable while a transaction is in progress *)
Saved == INSTANCE JobStoreProofs WITH
  jobs <- open.saved.jobs, lastSeq <- open.saved.lastSeq,
  active <- open.saved.active, receipts <- open.saved.receipts

(* What table transactions holds: ids and sequences are unique, sequences   *)
(* have no gap, and every claim that persisted has its row.                 *)
RowsOk(rows, claims, last) ==
  /\ IsFiniteSet(rows)
  /\ {r.seq : r \in rows} = 1..Cardinality(rows)
  /\ \A r, s \in rows : r.id = s.id \/ r.seq = s.seq => r = s
  /\ \A r \in rows : \/ r.id \in TxIds /\ r.batch \in BatchType
                     \/ r.id \in 1..last /\ r.batch = NULL
  /\ \A n \in claims : \E r \in rows : r.id = n

(* Every event was written by a batch whose row is there. *)
Owned(log, rows) ==
  \A n \in DOMAIN log : log[n].tx \in TxIds /\ \E h \in rows : h.id = log[n].tx

(* Every batch found each stream it named at the version it expected. *)
FoundAsExpected(log, rows) ==
  \A r \in rows : r.id \in TxIds =>
    \A e \in r.batch.expected : Cardinality(EventsBefore(log, rows, r, e[1])) = e[2]

(* The events of a stream are numbered in the order of the log ... *)
NumberedBy(log) ==
  \A i \in DOMAIN log : log[i].version = Cardinality(Positions(log, log[i].stream, i))

(* ... and n is how many there are, and the number of the last one. *)
CountedBy(log, s, n) ==
  /\ n = Cardinality(Positions(log, s, Len(log)))
  /\ \A i \in DOMAIN log : log[i].stream = s => log[i].version <= n
  /\ n > 0 => \E i \in DOMAIN log : log[i].stream = s /\ log[i].version = n

(* A token that was used to settle a lease is on no row and was drawn long  *)
(* ago; no two operations used the same; and a job has succeeded by the one *)
(* operation that said so.                                                  *)
SettledBy(table, ops, last) ==
  /\ \A x \in Settlements(ops) :
       /\ x.op.token \in Tokens
       /\ x.op.token[1] <= last
       /\ \A j \in DOMAIN table : table[j].token # x.op.token
  /\ \A x, y \in Settlements(ops) : x.op.token = y.op.token => x = y
  /\ \A j \in JobIds :
       IF j \in DOMAIN table /\ table[j].state = "Succeeded"
       THEN \E x \in ops : Successes(ops, j) = {x}
       ELSE Successes(ops, j) = {}

(* The log and the transactions agree: ops are the operations executed so   *)
(* far, version[s] is where stream s has got to.                            *)
LogAgrees(log, rows, ops, version) ==
  /\ log \in Seq(EventType)
  /\ IsFiniteSet(ops) /\ LogOf(log, ops)
  /\ NumberedBy(log)
  /\ \A s \in Streams : CountedBy(log, s, version[s])
  /\ Owned(log, rows)
  /\ FoundAsExpected(log, rows)

(* The number of operations that the transaction in progress has executed *)
Done == Len(open.batch.ops) - Len(open.todo)

(* The operations that have been executed, in committed batches or in the   *)
(* one in progress, and the versions their streams have reached             *)
SoFar == {x \in Executed(txs) : open # Closed /\ x.tx = open.id => x.pos <= Done}
Version == [s \in Streams |-> IF open = Closed THEN streams[s] ELSE StreamVersion(s)]

OpenRow == [id |-> open.id, seq |-> Cardinality(open.saved.txs) + 1, batch |-> open.batch]

(* The transaction in progress: its row is the last one, and what it has    *)
(* still to do is the rest of its batch.                                    *)
InProgress ==
  /\ DOMAIN open = {"id", "batch", "todo", "saved", "reached"}
  /\ open.id \in TxIds
  /\ open.batch \in BatchType
  /\ open.todo \in Seq(OperationType)
  /\ Len(open.todo) <= Len(open.batch.ops)
  /\ \A k \in 1..Len(open.todo) : open.todo[k] = open.batch.ops[Done + k]
  /\ DOMAIN open.reached \subseteq Streams
  /\ \A s \in DOMAIN open.reached : open.reached[s] \in Nat
  /\ streams = open.saved.streams
  /\ open.saved.versions \in [Projections -> Nat]
  /\ txs = open.saved.txs \cup {OpenRow}
  /\ \A r \in open.saved.txs : r.id # open.id

(* What a rollback goes back to is as sound as what a commit leaves. *)
Restorable ==
  /\ Saved!IInv
  /\ RowsOk(open.saved.txs, claimTxs, lastTx)
  /\ LogAgrees(open.saved.events, open.saved.txs, Executed(open.saved.txs), open.saved.streams)
  /\ SettledBy(open.saved.jobs, Executed(open.saved.txs), lastTx)

Durable == IF open = Closed THEN txs ELSE open.saved.txs

(* What a client was told is true of the durable transactions, at every     *)
(* point of a transaction in progress.                                      *)
AnswersTrue ==
  /\ DOMAIN sent = TxIds /\ DOMAIN told = TxIds
  /\ \A id \in TxIds :
       /\ told[id].result = "Receipt" =>
            \E r \in Durable : r.id = id /\ r.batch = sent[id] /\ told[id] = Receipt(r)
       /\ told[id].result \in {"Nothing", "Absent"} => \A r \in Durable : r.id # id
       /\ told[id].result = "Indeterminate" =>
            \A r \in Durable : r.id = id => r.batch = sent[id]

CPTypes == /\ streams \in [Streams -> Nat]
           /\ versions \in [Projections -> Nat]
           /\ faults \in 0..MaxFaults

CPInv == /\ IInv
         /\ CPTypes
         /\ RowsOk(txs, claimTxs, lastTx)
         /\ LogAgrees(events, txs, SoFar, Version)
         /\ SettledBy(jobs, SoFar, lastTx)
         /\ open # Closed => InProgress /\ Restorable
         /\ AnswersTrue

----------------------------------------------------------------------------
(* Rows of transactions, and the operations executed in them               *)

(* The largest of the numbers up to n, where MAX(sequence) starts from 0. *)
LEMMA MaxUpTo ==
  ASSUME NEW n \in Nat
  PROVE  Max({0} \cup 1..n) = n
<1> DEFINE S == {0} \cup 1..n
<1>1. n \in S /\ \A y \in S : n >= y
  OBVIOUS
<1>2. \A x \in S : (\A y \in S : x >= y) => x = n
  OBVIOUS
<1> HIDE DEF S
<1>3. (CHOOSE x \in S : \A y \in S : x >= y) = n
  BY <1>1, <1>2
<1> QED
  BY <1>3 DEF Max, S

(* The next transaction sequence is one more than there are rows. *)
LEMMA NextInSequence ==
  ASSUME RowsOk(txs, claimTxs, lastTx)
  PROVE  NextSequence = Cardinality(txs) + 1 /\ Cardinality(txs) \in Nat
BY MaxUpTo, FS_CardinalityType DEF NextSequence, RowsOk

(* A row with a new id and the next sequence: what insert_transaction and   *)
(* insert_claim_transaction add.                                            *)
LEMMA RowAdded ==
  ASSUME NEW rows, NEW claims, NEW last \in Nat, RowsOk(rows, claims, last),
         NEW row, NEW claims2, NEW last2 \in Nat, last <= last2,
         row.seq = Cardinality(rows) + 1,
         \A r \in rows : r.id # row.id,
         \/ row.id \in TxIds /\ row.batch \in BatchType
         \/ row.id \in 1..last2 /\ row.batch = NULL,
         \A n \in claims2 : n \in claims \/ n = row.id
  PROVE  /\ RowsOk(rows \cup {row}, claims2, last2)
         /\ \A r \in rows : r.seq \in Nat /\ r.seq < row.seq
<1> DEFINE n == Cardinality(rows)
           R == rows \cup {row}
<1>1. /\ IsFiniteSet(rows) /\ n \in Nat
      /\ {r.seq : r \in rows} = 1..n
  BY FS_CardinalityType DEF RowsOk
<1>2. \A r \in rows : r.seq \in 1..n
  BY <1>1
<1>3. row \notin rows
  OBVIOUS
<1>4. IsFiniteSet(R) /\ Cardinality(R) = n + 1
  BY <1>1, <1>3, FS_AddElement
<1>5. {r.seq : r \in R} = 1..(n + 1)
  <2>1. {r.seq : r \in R} = {r.seq : r \in rows} \cup {row.seq}
    OBVIOUS
  <2> HIDE DEF n
  <2> QED
    BY <1>1, <2>1 DEF n
<1>6. \A r, s \in R : r.id = s.id \/ r.seq = s.seq => r = s
  <2>1. \A r, s \in rows : r.id = s.id \/ r.seq = s.seq => r = s
    BY DEF RowsOk
  <2>2. \A r \in rows : r.seq # row.seq
    BY <1>1, <1>2
  <2> QED
    BY <2>1, <2>2
<1>7. \A r \in R : \/ r.id \in TxIds /\ r.batch \in BatchType
                   \/ r.id \in 1..last2 /\ r.batch = NULL
  <2>1. \A r \in rows : \/ r.id \in TxIds /\ r.batch \in BatchType
                        \/ r.id \in 1..last /\ r.batch = NULL
    BY DEF RowsOk
  <2> HIDE DEF R
  <2> QED
    BY <2>1 DEF R
<1>8. \A k \in claims2 : \E r \in R : r.id = k
  BY DEF RowsOk
<1>9. \A r \in rows : r.seq \in Nat /\ r.seq < row.seq
  BY <1>1, <1>2
<1> HIDE DEF R, n
<1>10. {r.seq : r \in R} = 1..Cardinality(R)
  BY <1>4, <1>5
<1>11. RowsOk(R, claims2, last2)
  BY <1>4, <1>6, <1>7, <1>8, <1>10 DEF RowsOk
<1> QED
  BY <1>9, <1>11 DEF R

(* The k-th operation of row r, with its place. *)
Entry(r, k) == [tx |-> r.id, seq |-> r.seq, pos |-> k, op |-> r.batch.ops[k]]

(* What an entry says. *)
LEMMA EntryFields ==
  ASSUME NEW r, NEW k
  PROVE  /\ Entry(r, k).tx = r.id /\ Entry(r, k).seq = r.seq
         /\ Entry(r, k).pos = k /\ Entry(r, k).op = r.batch.ops[k]
BY DEF Entry

(* The executed operations are the entries of the rows of clients. *)
LEMMA ExecutedEntries ==
  ASSUME NEW rows, NEW x
  PROVE  x \in Executed(rows) <=>
           \E r \in rows : r.id \in TxIds /\ \E k \in DOMAIN r.batch.ops : x = Entry(r, k)
BY DEF Executed, Entry

(* Claims execute no operations of batches. *)
LEMMA ClaimsExecuteNothing ==
  ASSUME NEW rows, NEW row, row.id \notin TxIds
  PROVE  Executed(rows \cup {row}) = Executed(rows)
<1>1. \A x : x \in Executed(rows \cup {row}) <=> x \in Executed(rows)
  BY ExecutedEntries
<1> QED
  BY <1>1

----------------------------------------------------------------------------
(* The log                                                                 *)

(* An operation that comes after all those executed so far. *)
Later(x, ops) == ~Earlier(x, x) /\ \A y \in ops : Earlier(y, x) /\ ~Earlier(x, y)

(* Appending the event of the operation that is executed next. *)
LEMMA LogAppended ==
  ASSUME NEW log \in Seq(EventType), NEW ops, IsFiniteSet(ops), LogOf(log, ops),
         \A y \in ops : ~Earlier(y, y),
         NEW x, Later(x, ops), x.op.kind = "AppendEvent", NEW e,
         e.tx = x.tx, e.event = x.op.event, e.stream = x.op.stream
  PROVE  LogOf(Append(log, e), ops \cup {x})
<1> DEFINE A == Appends(ops)
           B == Appends(ops \cup {x})
           Before(C, y) == {z \in C : Earlier(z, y)}
           new == Append(log, e)
<1>1. B = A \cup {x} /\ x \notin A /\ \A y \in A : Earlier(y, x) /\ ~Earlier(x, y)
  BY DEF Appends, Later
<1>2. IsFiniteSet(A) /\ Cardinality(A) \in Nat
  BY FS_Subset, FS_CardinalityType DEF Appends
<1>3. Cardinality(B) = Cardinality(A) + 1
  BY <1>1, <1>2, FS_AddElement
<1>4. Len(log) = Cardinality(A) /\ Len(log) \in Nat
  BY DEF LogOf
<1>5. /\ Len(new) = Len(log) + 1 /\ new[Len(log) + 1] = e
      /\ \A i \in 1..Len(log) : new[i] = log[i]
  BY <1>4
<1>6. Before(B, x) = A
  BY <1>1 DEF Later
<1>7. \A y \in A : Before(B, y) = Before(A, y)
  BY <1>1
<1>8. ASSUME NEW y \in A
      PROVE  1 + Cardinality(Before(A, y)) \in 1..Len(log)
  <2> DEFINE C == Before(A, y)
  <2>1. C \subseteq A /\ y \notin C
    BY DEF Appends
  <2> HIDE DEF C
  <2>2. IsFiniteSet(C) /\ Cardinality(C) \in Nat
    BY <1>2, <2>1, FS_Subset, FS_CardinalityType
  <2>3. C \cup {y} \subseteq A /\ Cardinality(C \cup {y}) = Cardinality(C) + 1
    BY <2>1, <2>2, FS_AddElement
  <2>4. Cardinality(C \cup {y}) <= Cardinality(A)
    BY <1>2, <2>3, FS_Subset
  <2> QED
    BY <1>2, <1>4, <2>2, <2>3, <2>4 DEF C
<1>9. \A y \in A :
        LET f == log[1 + Cardinality(Before(A, y))]
        IN  f.tx = y.tx /\ f.event = y.op.event /\ f.stream = y.op.stream
  BY DEF LogOf
<1>10. ASSUME NEW y \in B
       PROVE  LET f == new[1 + Cardinality(Before(B, y))]
              IN  f.tx = y.tx /\ f.event = y.op.event /\ f.stream = y.op.stream
  <2>1. CASE y = x
    <3> HIDE DEF Before, new, A, B
    <3>1. 1 + Cardinality(Before(B, x)) = Len(log) + 1
      BY <1>2, <1>4, <1>6
    <3> QED
      BY <1>5, <2>1, <3>1
  <2>2. CASE y \in A
    <3>1. Before(B, y) = Before(A, y)
      BY <1>7, <2>2
    <3>2. new[1 + Cardinality(Before(A, y))] = log[1 + Cardinality(Before(A, y))]
      BY <1>5, <1>8, <2>2
    <3> HIDE DEF Before, new, A, B
    <3> QED
      BY <1>9, <2>2, <3>1, <3>2
  <2> QED
    BY <1>1, <2>1, <2>2
<1>11. Len(new) = Cardinality(B)
  BY <1>2, <1>3, <1>4, <1>5
<1> HIDE DEF new
<1> QED
  BY <1>10, <1>11 DEF LogOf, new

(* Executing any other operation leaves the log as it is. *)
LEMMA LogSkipped ==
  ASSUME NEW log, NEW ops, LogOf(log, ops), NEW x, x.op.kind # "AppendEvent"
  PROVE  LogOf(log, ops \cup {x})
<1>1. Appends(ops \cup {x}) = Appends(ops)
  BY DEF Appends
<1> QED
  BY <1>1 DEF LogOf

----------------------------------------------------------------------------
(* Stream versions                                                         *)

(* Positions in a log that is longer by one event. *)
LEMMA PositionsAppended ==
  ASSUME NEW log \in Seq(EventType), NEW e \in EventType
  PROVE  /\ Len(log) \in Nat /\ Len(Append(log, e)) = Len(log) + 1
         /\ DOMAIN log = 1..Len(log) /\ DOMAIN Append(log, e) = 1..(Len(log) + 1)
         /\ \A i \in 1..Len(log) : Append(log, e)[i] = log[i]
         /\ Append(log, e)[Len(log) + 1] = e
         /\ \A s :
              /\ \A n \in 0..Len(log) : Positions(Append(log, e), s, n) = Positions(log, s, n)
              /\ Positions(Append(log, e), s, Len(log) + 1) =
                   Positions(log, s, Len(log)) \cup (IF e.stream = s THEN {Len(log) + 1} ELSE {})
              /\ IsFiniteSet(Positions(log, s, Len(log)))
              /\ Cardinality(Positions(log, s, Len(log))) \in Nat
<1> DEFINE new == Append(log, e)
           n == Len(log)
<1>1. /\ n \in Nat /\ Len(new) = n + 1 /\ DOMAIN log = 1..n /\ DOMAIN new = 1..(n + 1)
      /\ \A i \in 1..n : new[i] = log[i]
      /\ new[n + 1] = e
  OBVIOUS
<1>2. ASSUME NEW s
      PROVE  IsFiniteSet(Positions(log, s, n)) /\ Cardinality(Positions(log, s, n)) \in Nat
  <2>1. IsFiniteSet(1..n) /\ Positions(log, s, n) \subseteq 1..n
    BY <1>1, FS_Interval DEF Positions
  <2> HIDE DEF n
  <2> QED
    BY <2>1, FS_Subset, FS_CardinalityType
<1> HIDE DEF new, n
<1>3. ASSUME NEW s, NEW m \in 0..n
      PROVE  Positions(new, s, m) = Positions(log, s, m)
  <2>1. \A i \in 1..m : new[i] = log[i]
    BY <1>1
  <2> QED
    BY <2>1 DEF Positions
<1>4. ASSUME NEW s
      PROVE  Positions(new, s, n + 1) =
               Positions(log, s, n) \cup (IF e.stream = s THEN {n + 1} ELSE {})
  <2>1. \A i : i \in 1..(n + 1) <=> i \in 1..n \/ i = n + 1
    BY <1>1
  <2>2. \A i : i \in Positions(new, s, n + 1)
               <=> i \in Positions(log, s, n) \/ (i = n + 1 /\ e.stream = s)
    BY <1>1, <2>1 DEF Positions
  <2> QED
    BY <2>2
<1> QED
  BY <1>1, <1>2, <1>3, <1>4 DEF new, n

(* insert_event with the next version of its stream keeps the versions of   *)
(* every stream in order.                                                   *)
LEMMA VersionsAppended ==
  ASSUME NEW log \in Seq(EventType), NumberedBy(log), NEW e \in EventType,
         NEW v, CountedBy(log, e.stream, v), e.version = v + 1
  PROVE  /\ NumberedBy(Append(log, e))
         /\ CountedBy(Append(log, e), e.stream, v + 1)
         /\ \A s, n : s # e.stream /\ CountedBy(log, s, n) => CountedBy(Append(log, e), s, n)
<1> DEFINE new == Append(log, e)
           n == Len(log)
<1>1. /\ n \in Nat /\ Len(new) = n + 1 /\ DOMAIN log = 1..n /\ DOMAIN new = 1..(n + 1)
      /\ \A i \in 1..n : new[i] = log[i]
      /\ new[n + 1] = e
  BY PositionsAppended
<1>2. \A s : /\ \A m \in 0..n : Positions(new, s, m) = Positions(log, s, m)
             /\ Positions(new, s, n + 1) =
                  Positions(log, s, n) \cup (IF e.stream = s THEN {n + 1} ELSE {})
             /\ IsFiniteSet(Positions(log, s, n))
             /\ Cardinality(Positions(log, s, n)) \in Nat
  BY PositionsAppended
<1> HIDE DEF new, n
<1>3. n + 1 \notin Positions(log, e.stream, n)
  BY <1>1 DEF Positions
<1>4. Cardinality(Positions(new, e.stream, n + 1)) = v + 1 /\ v \in Nat
  BY <1>2, <1>3, FS_AddElement DEF CountedBy, n
<1>5. NumberedBy(new)
  <2> SUFFICES ASSUME NEW i \in 1..(n + 1)
               PROVE  new[i].version = Cardinality(Positions(new, new[i].stream, i))
    BY <1>1 DEF NumberedBy
  <2>1. CASE i = n + 1
    BY <1>1, <1>4, <2>1
  <2>2. CASE i # n + 1
    <3>1. i \in 1..n /\ i \in 0..n
      BY <1>1, <2>2
    <3> QED
      BY <1>1, <1>2, <3>1 DEF NumberedBy
  <2> QED
    BY <2>1, <2>2
<1>6. CountedBy(new, e.stream, v + 1)
  <2>1. \A i \in DOMAIN new : new[i].stream = e.stream => new[i].version <= v + 1
    <3> SUFFICES ASSUME NEW i \in 1..(n + 1), new[i].stream = e.stream
                 PROVE  new[i].version <= v + 1
      BY <1>1
    <3>1. CASE i = n + 1
      BY <1>1, <1>4, <3>1
    <3>2. CASE i # n + 1
      <4>1. i \in 1..n
        BY <1>1, <3>2
      <4>2. log[i].version \in Nat
        <5>1. log[i] \in EventType
          BY <4>1 DEF n
        <5> QED
          BY <5>1 DEF EventType
      <4>3. log[i].version <= v
        BY <1>1, <3>2, <4>1 DEF CountedBy
      <4> QED
        BY <1>1, <1>4, <4>1, <4>2, <4>3
    <3> QED
      BY <3>1, <3>2
  <2>2. new[n + 1].stream = e.stream /\ new[n + 1].version = v + 1 /\ n + 1 \in DOMAIN new
    BY <1>1
  <2> QED
    BY <1>1, <1>4, <2>1, <2>2 DEF CountedBy
<1>7. ASSUME NEW s, NEW m, s # e.stream, CountedBy(log, s, m)
      PROVE  CountedBy(new, s, m)
  <2>1. Positions(new, s, n + 1) = Positions(log, s, n)
    BY <1>2, <1>7
  <2>2. m = Cardinality(Positions(new, s, Len(new)))
    BY <1>1, <1>7, <2>1 DEF CountedBy, n
  <2>3. \A i \in 1..(n + 1) : new[i].stream = s => i \in 1..n
    BY <1>1, <1>7
  <2> QED
    BY <1>1, <1>7, <2>2, <2>3 DEF CountedBy
<1> QED
  BY <1>5, <1>6, <1>7 DEF new

----------------------------------------------------------------------------
(* Expected stream versions                                                *)

(* What the last row appends was not there before any row. *)
LEMMA FoundWhenAppended ==
  ASSUME NEW log \in Seq(EventType), NEW rows, FoundAsExpected(log, rows), Owned(log, rows),
         NEW row \in rows, row.id \in TxIds,
         \A r \in rows : r.id = row.id => r = row,
         \A r \in rows : ~(row.seq < r.seq),
         NEW e \in EventType, e.tx = row.id
  PROVE  FoundAsExpected(Append(log, e), rows) /\ Owned(Append(log, e), rows)
<1> DEFINE new == Append(log, e)
<1>1. /\ Len(log) \in Nat
      /\ DOMAIN log = 1..Len(log) /\ DOMAIN new = 1..(Len(log) + 1)
      /\ \A i \in 1..Len(log) : new[i] = log[i]
      /\ new[Len(log) + 1] = e
  BY PositionsAppended
<1> HIDE DEF new
<1>2. \A i \in DOMAIN new : (i \in DOMAIN log /\ new[i] = log[i]) \/ new[i] = e
  BY <1>1
<1>3. \A i \in DOMAIN log : i \in DOMAIN new /\ new[i] = log[i]
  BY <1>1
<1>4. Owned(new, rows)
  BY <1>2 DEF Owned
<1>5. ASSUME NEW r \in rows, NEW s
      PROVE  EventsBefore(new, rows, r, s) = EventsBefore(log, rows, r, s)
  <2>1. \A i : i \in EventsBefore(new, rows, r, s) => i \in EventsBefore(log, rows, r, s)
    BY <1>2 DEF EventsBefore
  <2>2. \A i : i \in EventsBefore(log, rows, r, s) => i \in EventsBefore(new, rows, r, s)
    BY <1>3 DEF EventsBefore
  <2> QED
    BY <2>1, <2>2
<1>6. FoundAsExpected(new, rows)
  BY <1>5 DEF FoundAsExpected
<1> QED
  BY <1>4, <1>6 DEF new

(* A new last row, of a claim or of a batch that finds what it expects.     *)
LEMMA FoundWhenAdded ==
  ASSUME NEW log \in Seq(EventType), NEW rows, FoundAsExpected(log, rows), Owned(log, rows),
         NEW row, row.seq \in Nat,
         \A r \in rows : r.seq \in Nat /\ r.seq < row.seq,
         row.id \in TxIds =>
           \A e \in row.batch.expected : Cardinality(Positions(log, e[1], Len(log))) = e[2]
  PROVE  FoundAsExpected(log, rows \cup {row}) /\ Owned(log, rows \cup {row})
<1> DEFINE R == rows \cup {row}
<1>1. Owned(log, R)
  BY DEF Owned
<1>2. ASSUME NEW r \in rows, NEW s
      PROVE  EventsBefore(log, R, r, s) = EventsBefore(log, rows, r, s)
  <2>1. ~(row.seq < r.seq)
    OBVIOUS
  <2>2. \A i : i \in EventsBefore(log, R, r, s) <=> i \in EventsBefore(log, rows, r, s)
    BY <2>1 DEF EventsBefore
  <2> QED
    BY <2>2
<1>3. ASSUME NEW s
      PROVE  EventsBefore(log, R, row, s) = Positions(log, s, Len(log))
  <2>1. DOMAIN log = 1..Len(log)
    OBVIOUS
  <2>2. \A i \in DOMAIN log : \E h \in R : h.id = log[i].tx /\ h.seq < row.seq
    BY DEF Owned
  <2> QED
    BY <2>1, <2>2 DEF EventsBefore, Positions
<1> SUFFICES ASSUME NEW r \in R, r.id \in TxIds, NEW e \in r.batch.expected
             PROVE  Cardinality(EventsBefore(log, R, r, e[1])) = e[2]
  BY <1>1 DEF FoundAsExpected
<1>4. CASE r \in rows
  BY <1>2, <1>4 DEF FoundAsExpected
<1>5. CASE r = row
  BY <1>3, <1>5
<1> QED
  BY <1>4, <1>5

----------------------------------------------------------------------------
(* Settling leases                                                         *)

(* What an operation on job j does to the settlements: a token it presents  *)
(* is the one on the row, no two rows have the same, and afterwards the row *)
(* has none; the job succeeds exactly if the operation says so, and had not *)
(* succeeded before.                                                        *)
LEMMA SettledNext ==
  ASSUME NEW table, NEW table2, NEW ops, NEW last \in Nat, SettledBy(table, ops, last),
         NEW x, x \notin ops, NEW j \in JobIds,
         DOMAIN table2 \ {j} = DOMAIN table \ {j},
         \A k \in DOMAIN table \ {j} : /\ table2[k].state = table[k].state
                                       /\ table2[k].token = table[k].token,
         j \in DOMAIN table2 =>
           \/ table2[j].token = NULL
           \/ j \in DOMAIN table /\ table2[j].token = table[j].token,
         NULL \notin Tokens,
         x.op.job = j,
         x \in Settlements({x}) =>
           /\ j \in DOMAIN table /\ j \in DOMAIN table2
           /\ x.op.token \in Tokens /\ x.op.token[1] <= last
           /\ table[j].token = x.op.token /\ table2[j].token = NULL
           /\ \A k \in DOMAIN table : table[k].token = x.op.token => k = j,
         x \in Successes({x}, j) =>
           /\ ~(j \in DOMAIN table /\ table[j].state = "Succeeded")
           /\ j \in DOMAIN table2 /\ table2[j].state = "Succeeded",
         x \notin Successes({x}, j) =>
           ((j \in DOMAIN table2 /\ table2[j].state = "Succeeded")
              <=> (j \in DOMAIN table /\ table[j].state = "Succeeded"))
  PROVE  SettledBy(table2, ops \cup {x}, last)
<1> DEFINE X == ops \cup {x}
           ByToken == Settlements(ops)
<1>1. /\ \A y \in Settlements(X) : y \in ByToken \/ (y = x /\ x \in Settlements({x}))
      /\ ByToken \subseteq Settlements(X)
  BY DEF Settlements
<1>2. \A y \in ByToken : /\ y.op.token \in Tokens /\ y.op.token[1] <= last
                         /\ \A k \in DOMAIN table : table[k].token # y.op.token
  BY DEF SettledBy
<1>3. \A y \in Settlements(X) :
        /\ y.op.token \in Tokens /\ y.op.token[1] <= last
        /\ \A k \in DOMAIN table2 : table2[k].token # y.op.token
  <2> SUFFICES ASSUME NEW y \in Settlements(X)
               PROVE  /\ y.op.token \in Tokens /\ y.op.token[1] <= last
                      /\ \A k \in DOMAIN table2 : table2[k].token # y.op.token
    OBVIOUS
  <2>1. CASE y \in ByToken
    <3>1. \A k \in DOMAIN table2 : k # j => table2[k].token # y.op.token
      BY <1>2, <2>1
    <3>2. j \in DOMAIN table2 => table2[j].token # y.op.token
      BY <1>2, <2>1
    <3> QED
      BY <1>2, <2>1, <3>1, <3>2
  <2>2. CASE y = x /\ x \in Settlements({x})
    <3>1. \A k \in DOMAIN table2 : k # j => table2[k].token # x.op.token
      BY <2>2
    <3>2. table2[j].token # x.op.token
      BY <2>2
    <3> QED
      BY <2>2, <3>1, <3>2
  <2> QED
    BY <1>1, <2>1, <2>2
<1>4. \A y, z \in Settlements(X) : y.op.token = z.op.token => y = z
  <2>1. \A y, z \in ByToken : y.op.token = z.op.token => y = z
    BY DEF SettledBy
  <2>2. x \in Settlements({x}) => \A y \in ByToken : y.op.token # x.op.token
    BY <1>2
  <2> HIDE DEF ByToken, X
  <2> QED
    BY <1>1, <2>1, <2>2
<1>5. ASSUME NEW k \in JobIds
      PROVE  IF k \in DOMAIN table2 /\ table2[k].state = "Succeeded"
             THEN \E y \in X : Successes(X, k) = {y} ELSE Successes(X, k) = {}
  <2>1. IF k \in DOMAIN table /\ table[k].state = "Succeeded"
        THEN \E y \in ops : Successes(ops, k) = {y} ELSE Successes(ops, k) = {}
    BY DEF SettledBy
  <2>2. Successes(X, k) = Successes(ops, k) \cup Successes({x}, k)
    BY DEF Successes
  <2>3. CASE k # j
    <3>1. Successes({x}, k) = {}
      BY <2>3 DEF Successes
    <3>2. (k \in DOMAIN table2 /\ table2[k].state = "Succeeded")
             <=> (k \in DOMAIN table /\ table[k].state = "Succeeded")
      BY <2>3
    <3> QED
      BY <2>1, <2>2, <3>1, <3>2
  <2>4. CASE k = j /\ x \in Successes({x}, j)
    <3>1. Successes({x}, k) = {x}
      BY <2>4 DEF Successes
    <3>2. Successes(ops, k) = {}
      BY <2>1, <2>4
    <3> QED
      BY <2>2, <2>4, <3>1, <3>2
  <2>5. CASE k = j /\ x \notin Successes({x}, j)
    <3>1. Successes({x}, k) = {}
      BY <2>5 DEF Successes
    <3> QED
      BY <2>1, <2>2, <2>5, <3>1
  <2> QED
    BY <2>3, <2>4, <2>5
<1> HIDE DEF X
<1>6. SettledBy(table2, X, last)
  BY <1>3, <1>4, <1>5 DEF SettledBy
<1> QED
  BY <1>6 DEF X

(* An operation that is not about a job settles nothing. *)
LEMMA SettledSkipped ==
  ASSUME NEW table, NEW ops, NEW last, SettledBy(table, ops, last),
         NEW x, x.op.kind \in {"AppendEvent", "ProjectionPatch"}
  PROVE  SettledBy(table, ops \cup {x}, last)
<1>1. Settlements(ops \cup {x}) = Settlements(ops)
  BY DEF Settlements
<1>2. \A j : Successes(ops \cup {x}, j) = Successes(ops, j)
  BY DEF Successes
<1>3. \A j \in JobIds : \A y : Successes(ops, j) = {y} => y \in ops
  BY DEF Successes
<1> QED
  BY <1>1, <1>2, <1>3 DEF SettledBy

----------------------------------------------------------------------------
(* The job tables, as they are and as they were                            *)

(* The two see the same constants. *)
LEMMA SameConstants ==
  /\ Saved!ActiveStates = ActiveStates /\ Saved!TerminalStates = TerminalStates
  /\ Saved!Tokens = Tokens /\ Saved!Times = Times
  /\ Saved!RowType = RowType /\ Saved!ReceiptType = ReceiptType
  /\ \A r : Saved!PartitionOf(r) = PartitionOf(r)
  /\ \A r : Saved!Exhausted(r) = Exhausted(r)
  /\ \A tx, j : Saved!Token(tx, j) = Token(tx, j)
<1>1. /\ Saved!ActiveStates = ActiveStates /\ Saved!TerminalStates = TerminalStates
      /\ Saved!Tokens = Tokens /\ Saved!Times = Times
  BY DEF Saved!ActiveStates, ActiveStates, Saved!TerminalStates, TerminalStates,
     Saved!Tokens, Tokens, Saved!Times, Times
<1>2. Saved!RowType = RowType /\ Saved!ReceiptType = ReceiptType
  BY <1>1 DEF Saved!RowType, RowType, Saved!ReceiptType, ReceiptType
<1> QED
  BY <1>1, <1>2 DEF Saved!PartitionOf, PartitionOf, Saved!Exhausted, Exhausted,
     Saved!Token, Token

(* What a transaction starts from satisfies the invariant of the job store. *)
LEMMA SavedByBegin ==
  ASSUME IInv, open'.saved.jobs = jobs, open'.saved.lastSeq = lastSeq,
         open'.saved.active = active, open'.saved.receipts = receipts,
         UNCHANGED <<cursor, claimTxs, lastTx, lost>>
  PROVE  Saved!IInv'
<1> USE DEF IInv
<1>1. Saved!TypeOK' /\ Saved!LeaseColumns' /\ Saved!SeqsUnique' /\ Saved!TokensFresh'
  BY SameConstants DEF TypeOK, LeaseColumns, SeqsUnique, TokensFresh, Saved!TypeOK,
     Saved!LeaseColumns, Saved!SeqsUnique, Saved!TokensFresh
<1>2. Saved!PartitionFIFO' /\ Saved!ActivePartitionsExact' /\ Saved!AttemptsBounded'
  BY SameConstants DEF PartitionFIFO, ActivePartitionsExact, AttemptsBounded, Saved!PartitionFIFO,
     Saved!ActivePartitionsExact, Saved!AttemptsBounded
<1>3. Saved!ReceiptsTruthful'
  BY DEF ReceiptsTruthful, Saved!ReceiptsTruthful
<1> QED
  BY <1>1, <1>2, <1>3 DEF Saved!IInv

(* A rollback restores it. *)
LEMMA RestoredByRollback ==
  ASSUME Saved!IInv, jobs' = open.saved.jobs, lastSeq' = open.saved.lastSeq,
         active' = open.saved.active, receipts' = open.saved.receipts,
         UNCHANGED <<cursor, claimTxs, lastTx, lost>>
  PROVE  IInv'
<1> USE DEF Saved!IInv
<1>1. TypeOK' /\ LeaseColumns' /\ SeqsUnique' /\ TokensFresh'
  BY SameConstants DEF TypeOK, LeaseColumns, SeqsUnique, TokensFresh, Saved!TypeOK,
     Saved!LeaseColumns, Saved!SeqsUnique, Saved!TokensFresh
<1>2. PartitionFIFO' /\ ActivePartitionsExact' /\ AttemptsBounded'
  BY SameConstants DEF PartitionFIFO, ActivePartitionsExact, AttemptsBounded,
     Saved!PartitionFIFO, Saved!ActivePartitionsExact, Saved!AttemptsBounded
<1>3. ReceiptsTruthful'
  BY DEF ReceiptsTruthful, Saved!ReceiptsTruthful
<1> QED
  BY <1>1, <1>2, <1>3 DEF IInv

(* It holds of them for as long as the transaction lasts. *)
LEMMA SavedWhileOpen ==
  ASSUME Saved!IInv, open'.saved = open.saved, UNCHANGED <<cursor, claimTxs, lastTx, lost>>
  PROVE  Saved!IInv'
<1> USE DEF Saved!IInv
<1>1. Saved!TypeOK' /\ Saved!LeaseColumns' /\ Saved!SeqsUnique' /\ Saved!TokensFresh'
  BY DEF Saved!TypeOK, Saved!LeaseColumns, Saved!SeqsUnique, Saved!TokensFresh
<1>2. Saved!PartitionFIFO' /\ Saved!ActivePartitionsExact' /\ Saved!AttemptsBounded'
  BY DEF Saved!PartitionFIFO, Saved!ActivePartitionsExact, Saved!AttemptsBounded
<1>3. Saved!ReceiptsTruthful'
  BY DEF Saved!ReceiptsTruthful
<1> QED
  BY <1>1, <1>2, <1>3

(* Steps that leave the job tables alone preserve their invariant. *)
LEMMA JobTablesKept == IInv /\ UNCHANGED vars => IInv'
BY NextInv

----------------------------------------------------------------------------
(* The operations of a batch                                               *)

(* What the fields of each kind of operation hold. *)
LEMMA OperationFields ==
  ASSUME NEW op \in OperationType
  PROVE  /\ op.kind = "AppendEvent" => op.stream \in Streams /\ op.event \in Events
         /\ op.kind = "ProjectionPatch" => op.projection \in Projections /\ op.new \in Nat
         /\ op.kind = "EnqueueJob" => op.job \in JobIds /\ op.spec \in JobSpecs
         /\ op.kind = "AckJob" => op.job \in JobIds /\ op.token \in Tokens
         /\ op.kind = "FailJob" =>
              op.job \in JobIds /\ op.token \in Tokens /\ op.retry \in Times \cup {NULL}
         /\ op.kind = "CancelJob" => op.job \in JobIds /\ op.token \in Tokens \cup {NULL}
         /\ op.kind = "ResolveJob" => op.job \in JobIds /\ op.resolution \in Resolutions
         /\ op.kind = "ExtendLease" =>
              op.job \in JobIds /\ op.token \in Tokens /\ op.expiry \in Times
         /\ op.kind \in {"AppendEvent", "ProjectionPatch", "EnqueueJob", "AckJob", "FailJob",
                         "CancelJob", "ResolveJob", "ExtendLease"}
BY DEF OperationType

(* A job operation of a batch is a step of the job store: it preserves the  *)
(* invariant of the job tables inside the transaction.                      *)
LEMMA JobOpInv ==
  ASSUME IInv, NEW op \in OperationType, open.batch.at \in Times, JobOp(op)
  PROVE  IInv'
<1>1. TypeOK /\ LeaseColumns
  BY DEF IInv
<1>2. ASSUME op.kind = "EnqueueJob", EnqueueJob(op.job, op.spec)
      PROVE  IInv'
  BY <1>2, OperationFields, EnqueueInv
<1>3. ASSUME op.kind = "AckJob", AckJob(op.job, op.token)
      PROVE  IInv'
  BY <1>3, OperationFields, AckSettles, SettleInv
<1>4. ASSUME op.kind = "FailJob", FailJob(op.job, op.token, op.retry, open.batch.at)
      PROVE  IInv'
  BY <1>1, <1>4, OperationFields, FailSettles, SettleInv
<1>5. ASSUME op.kind = "CancelJob", CancelJob(op.job, op.token)
      PROVE  IInv'
  BY <1>5, OperationFields, CancelSettles, SettleInv
<1>6. ASSUME op.kind = "ResolveJob", ResolveJob(op.job, op.resolution)
      PROVE  IInv'
  BY <1>6, OperationFields, ResolveSettles, SettleInv
<1>7. ASSUME op.kind = "ExtendLease",
             ExtendLease(op.job, op.token, op.expiry, open.batch.at)
      PROVE  IInv'
  BY <1>7, OperationFields, ExtendInv
<1> QED
  BY <1>2, <1>3, <1>4, <1>5, <1>6, <1>7 DEF JobOp

(* A lease token on a row names its job and a claim of the past. *)
LEMMA TokensNameJobs ==
  ASSUME IInv, NEW j \in DOMAIN jobs, jobs[j].token # NULL
  PROVE  /\ jobs[j].state = "Leased"
         /\ jobs[j].token \in Tokens /\ jobs[j].token[1] <= lastTx /\ jobs[j].token[2] = j
<1> USE DEF IInv
<1>1. jobs[j].state = "Leased"
  BY DEF LeaseColumns
<1>2. PICK r \in receipts : r.job = j /\ r.token = jobs[j].token
  BY <1>1 DEF ReceiptsTruthful
<1>3. r.token = Token(r.tx, r.job) /\ r.tx <= lastTx /\ r.token \in Tokens
  BY DEF TokensFresh, ReceiptsTruthful, TypeOK, ReceiptType
<1> QED
  BY <1>1, <1>2, <1>3 DEF Token

(* The row of a job after an operation that takes its lease away. *)
LEMMA SettledRow ==
  ASSUME TypeOK, NEW j \in DOMAIN jobs, NEW s, NEW retry, jobs' = SetState(jobs, j, s, retry)
  PROVE  jobs'[j].state = s
<1>1. jobs[j] \in RowType
  BY DEF TypeOK
<1>2. jobs'[j] = Unlease(jobs[j], s, retry)
  BY DEF SetState
<1> QED
  BY <1>1, <1>2 DEF Unlease, RowType

(* Acknowledging, and resolving as succeeded, are the operations after      *)
(* which a job has succeeded; a job that has is not touched again.          *)
LEMMA SettlesAs ==
  ASSUME IInv, NEW op \in OperationType, open.batch.at \in Times, JobOp(op),
         op.kind \in {"AckJob", "FailJob", "CancelJob", "ResolveJob"}
  PROVE  \E s, retry :
           /\ SettleStep(op.job, s, retry)
           /\ s = "Succeeded" <=> \/ op.kind = "AckJob"
                                  \/ op.kind = "ResolveJob" /\ op.resolution = "MarkSucceeded"
<1> DEFINE j == op.job
           Says(s) == s = "Succeeded" <=> \/ op.kind = "AckJob"
                                          \/ op.kind = "ResolveJob"
                                             /\ op.resolution = "MarkSucceeded"
<1>1. TypeOK /\ LeaseColumns
  BY DEF IInv
<1>2. CASE op.kind = "AckJob"
  <2>1. AckJob(j, op.token)
    BY <1>2 DEF JobOp
  <2>2. SettleStep(j, "Succeeded", NULL)
    BY <1>2, <2>1, OperationFields, AckSettles
  <2> QED
    BY <1>2, <2>2
<1>3. CASE op.kind = "FailJob"
  <2>1. FailJob(j, op.token, op.retry, open.batch.at)
    BY <1>3 DEF JobOp
  <2>2. PICK s, again : SettleStep(j, s, again)
    BY <1>1, <1>3, <2>1, OperationFields, FailSettles
  <2>3. jobs'[j].state = s /\ j \in DOMAIN jobs
    BY <1>1, <2>2, SettleRows DEF SettleStep
  <2>4. jobs'[j].state = FailTarget(jobs[j])
    BY <1>1, <2>1, <2>3, SettledRow DEF FailJob, Fail, Settle
  <2>5. s # "Succeeded"
    BY <2>3, <2>4 DEF FailTarget
  <2> QED
    BY <1>3, <2>2, <2>5
<1>4. CASE op.kind = "CancelJob"
  <2>1. CancelJob(j, op.token)
    BY <1>4 DEF JobOp
  <2>2. SettleStep(j, "Cancelled", NULL)
    BY <1>4, <2>1, OperationFields, CancelSettles
  <2> QED
    BY <1>4, <2>2
<1>5. CASE op.kind = "ResolveJob"
  <2>1. ResolveJob(j, op.resolution)
    BY <1>5 DEF JobOp
  <2>2. PICK s : SettleStep(j, s, NULL)
    BY <1>5, <2>1, OperationFields, ResolveSettles
  <2>3. jobs'[j].state = s /\ j \in DOMAIN jobs
    BY <1>1, <2>2, SettleRows DEF SettleStep
  <2>4. jobs'[j].state = ResolveTarget(jobs[j], op.resolution)
    BY <1>1, <2>1, <2>3, SettledRow DEF ResolveJob, Resolve, Settle
  <2>5. s = "Succeeded" <=> op.resolution = "MarkSucceeded"
    BY <1>5, <2>3, <2>4, OperationFields DEF ResolveTarget, Resolutions
  <2> QED
    BY <1>5, <2>2, <2>5
<1> QED
  BY <1>2, <1>3, <1>4, <1>5

(* An operation that settles a lease presents the token of its row. *)
LEMMA PresentsToken ==
  ASSUME NEW op, JobOp(op), op.kind \in {"AckJob", "FailJob", "CancelJob"}, op.token # NULL
  PROVE  op.job \in DOMAIN jobs /\ jobs[op.job].token = op.token
BY DEF JobOp, AckJob, AckOk, FailJob, FailOk, CancelJob, CancelOk, HoldsToken

(* Job operations keep the account of settlements. *)
LEMMA JobOpSettles ==
  ASSUME IInv, NEW op \in OperationType, open.batch.at \in Times, JobOp(op),
         NEW ops, SettledBy(jobs, ops, lastTx), NEW x, x \notin ops, x.op = op
  PROVE  SettledBy(jobs', ops \cup {x}, lastTx')
<1> DEFINE j == op.job
           t == x.op.token
<1>1. TypeOK /\ lastTx \in Nat /\ jobs \in [DOMAIN jobs -> RowType] /\ NULL \notin Tokens
  BY TableAssumption DEF IInv, TypeOK, Tokens
<1>2. x.op.job = j /\ j \in JobIds
  BY OperationFields DEF JobOp
<1>3. CASE op.kind \in {"AckJob", "FailJob", "CancelJob", "ResolveJob"}
  <2>1. PICK s, retry :
           /\ SettleStep(j, s, retry)
           /\ s = "Succeeded" <=> \/ op.kind = "AckJob"
                                  \/ op.kind = "ResolveJob" /\ op.resolution = "MarkSucceeded"
    BY <1>3, SettlesAs
  <2>2. /\ DOMAIN jobs' = DOMAIN jobs /\ j \in DOMAIN jobs
        /\ \A k \in DOMAIN jobs : k # j => jobs'[k] = jobs[k]
        /\ jobs'[j].state = s /\ jobs'[j].token = NULL
        /\ lastTx' = lastTx
    BY <1>1, <2>1, SettleRows DEF SettleStep
  <2>3. jobs[j].state # "Succeeded"
    BY <2>1 DEF SettleStep, CanTransition, Transitions
  <2>4. x \in Settlements({x}) =>
          /\ t \in Tokens /\ t[1] <= lastTx /\ jobs[j].token = t
          /\ \A k \in DOMAIN jobs : jobs[k].token = t => k = j
    <3> SUFFICES ASSUME op.kind \in {"AckJob", "FailJob", "CancelJob"}, t # NULL
                 PROVE  /\ t \in Tokens /\ t[1] <= lastTx /\ jobs[j].token = t
                        /\ \A k \in DOMAIN jobs : jobs[k].token = t => k = j
      BY DEF Settlements
    <3>1. jobs[j].token = t
      BY PresentsToken
    <3>2. \A k \in DOMAIN jobs : jobs[k].token = t =>
            t \in Tokens /\ t[1] <= lastTx /\ t[2] = k
      BY TokensNameJobs
    <3> QED
      BY <2>2, <3>1, <3>2
  <2>5. x \in Successes({x}, j) <=> s = "Succeeded"
    BY <1>3, <2>1 DEF Successes
  <2> HIDE DEF j
  <2> QED
    BY <1>1, <1>2, <2>2, <2>3, <2>4, <2>5, SettledNext
<1>4. CASE op.kind = "EnqueueJob"
  <2>1. EnqueueJob(j, op.spec)
    BY <1>4 DEF JobOp
  <2>2. /\ j \notin DOMAIN jobs /\ DOMAIN jobs' = DOMAIN jobs \cup {j}
        /\ \A k \in DOMAIN jobs : jobs'[k] = jobs[k]
        /\ jobs'[j] = NewRow(op.spec, lastSeq + 1)
        /\ lastTx' = lastTx
    BY <2>1 DEF EnqueueJob, EnqueueOk, Enqueue, claimVars
  <2>3. jobs'[j].state = "Pending" /\ jobs'[j].token = NULL
    BY <2>2 DEF NewRow
  <2>4. x \notin Settlements({x}) /\ x \notin Successes({x}, j)
    BY <1>4 DEF Settlements, Successes
  <2> HIDE DEF j
  <2> QED
    BY <1>1, <1>2, <2>2, <2>3, <2>4, SettledNext
<1>5. CASE op.kind = "ExtendLease"
  <2>1. ExtendLease(j, op.token, op.expiry, open.batch.at)
    BY <1>5 DEF JobOp
  <2>2. /\ j \in DOMAIN jobs /\ jobs' = [jobs EXCEPT ![j].expiry = op.expiry]
        /\ lastTx' = lastTx
    BY <2>1 DEF ExtendLease, ExtendOk, Extend, HoldsToken
  <2>3. /\ DOMAIN jobs' = DOMAIN jobs
        /\ \A k \in DOMAIN jobs : jobs'[k].state = jobs[k].state /\ jobs'[k].token = jobs[k].token
    BY <1>1, <2>2 DEF RowType
  <2>4. x \notin Settlements({x}) /\ x \notin Successes({x}, j)
    BY <1>5 DEF Settlements, Successes
  <2>5. /\ jobs'[j].token = jobs[j].token
        /\ jobs'[j].state = jobs[j].state
        /\ \A k \in DOMAIN jobs \ {j} : /\ jobs'[k].state = jobs[k].state
                                       /\ jobs'[k].token = jobs[k].token
        /\ DOMAIN jobs' \ {j} = DOMAIN jobs \ {j}
        /\ j \in DOMAIN jobs
        /\ lastTx' = lastTx
    BY <2>2, <2>3
  <2>7. /\ j \in DOMAIN jobs' =>
             jobs'[j].token = NULL \/ (j \in DOMAIN jobs /\ jobs'[j].token = jobs[j].token)
        /\ (j \in DOMAIN jobs' /\ jobs'[j].state = "Succeeded")
             <=> (j \in DOMAIN jobs /\ jobs[j].state = "Succeeded")
    BY <2>2, <2>3
  <2>6. lastTx \in Nat /\ NULL \notin Tokens
    BY <1>1
  <2> HIDE DEF j
  <2> QED
    BY <1>2, <2>4, <2>5, <2>6, <2>7, SettledNext, SMTT(30)
<1> QED
  BY <1>3, <1>4, <1>5 DEF JobOp

(* Steps that settle nothing: no row gets a token that was used before, and *)
(* no job starts or stops having succeeded.                                 *)
LEMMA SettledKept ==
  ASSUME NEW table, NEW table2, NEW ops, NEW last \in Nat, NEW last2 \in Nat, last <= last2,
         SettledBy(table, ops, last), NULL \notin Tokens,
         DOMAIN table2 = DOMAIN table,
         \A k \in DOMAIN table :
           /\ table2[k].state = "Succeeded" <=> table[k].state = "Succeeded"
           /\ \/ table2[k].token = NULL
              \/ table2[k].token = table[k].token
              \/ table2[k].token[1] > last
  PROVE  SettledBy(table2, ops, last2)
<1>1. \A y \in Settlements(ops) :
        /\ y.op.token \in Tokens /\ y.op.token[1] <= last2
        /\ \A k \in DOMAIN table2 : table2[k].token # y.op.token
  <2> SUFFICES ASSUME NEW y \in Settlements(ops)
               PROVE  /\ y.op.token \in Tokens /\ y.op.token[1] <= last2
                      /\ \A k \in DOMAIN table2 : table2[k].token # y.op.token
    OBVIOUS
  <2> DEFINE t == y.op.token
  <2>1. t \in Tokens /\ t[1] <= last /\ \A k \in DOMAIN table : table[k].token # t
    BY DEF SettledBy
  <2>2. t[1] \in Nat
    BY <2>1 DEF Tokens
  <2> HIDE DEF t
  <2>3. \A k \in DOMAIN table2 : table2[k].token # t
    BY <2>1, <2>2
  <2> QED
    BY <2>1, <2>2, <2>3 DEF t
<1>2. \A y, z \in Settlements(ops) : y.op.token = z.op.token => y = z
  BY DEF SettledBy
<1>3. \A k \in JobIds : IF k \in DOMAIN table2 /\ table2[k].state = "Succeeded"
                        THEN \E y \in ops : Successes(ops, k) = {y} ELSE Successes(ops, k) = {}
  BY DEF SettledBy
<1> QED
  BY <1>1, <1>2, <1>3 DEF SettledBy

(* A claim gives every lease a token that no operation has presented yet,   *)
(* and touches no job that has succeeded.                                   *)
LEMMA ClaimSettles ==
  ASSUME IInv, NEW q \in Queues, NEW w \in Workers, NEW now \in Times,
         NEW len \in LeaseLengths, NEW limit \in ClaimLimits,
         ClaimJobs(q, w, now, len, limit), NEW ops, SettledBy(jobs, ops, lastTx)
  PROVE  SettledBy(jobs', ops, lastTx') /\ lastTx' = lastTx + 1
                                        /\ claimTxs' = claimTxs \cup {lastTx + 1}
<1> DEFINE L == LeasePlan(jobs, active, cursor[q], q, now, limit)
           tx == lastTx + 1
<1>1. PICK M \in MaintenancePlans(jobs, q, now, MaintenanceLimit) :
         now + len <= MaxTime /\ ClaimWith(q, w, now + len, M, L)
  BY DEF ClaimJobs
<1>2. /\ M \subseteq DOMAIN jobs /\ L \subseteq DOMAIN jobs /\ M \cap L = {}
      /\ \A k \in M : jobs[k].state = "Leased"
      /\ \A k \in L : jobs[k].state \in {"Pending", "RetryWait"}
  BY ClaimPlans
<1>3. lastTx \in Nat /\ tx \in Nat /\ jobs \in [DOMAIN jobs -> RowType] /\ NULL \notin Tokens
  BY TableAssumption DEF IInv, TypeOK, Tokens
<1>4. lastTx' = tx /\ claimTxs' = claimTxs \cup {tx} /\ jobs' = Claimed(M, L, tx, w, now + len)
  BY <1>1 DEF ClaimWith
<1> HIDE DEF L, tx
<1>5. DOMAIN jobs' = DOMAIN jobs
  BY <1>4 DEF Claimed
<1>6. ASSUME NEW k \in DOMAIN jobs
      PROVE  /\ jobs'[k].state = "Succeeded" <=> jobs[k].state = "Succeeded"
             /\ \/ jobs'[k].token = NULL
                \/ jobs'[k].token = jobs[k].token
                \/ jobs'[k].token[1] > lastTx
  <2>1. CASE k \in L
    <3>1. jobs'[k] = Grant(jobs[k], Token(tx, k), w, now + len)
      BY <1>4, <2>1 DEF Claimed
    <3>2. jobs'[k].state = "Leased" /\ jobs'[k].token = Token(tx, k)
      BY <3>1 DEF Grant
    <3>3. Token(tx, k)[1] > lastTx
      BY <1>3 DEF Token, tx
    <3> QED
      BY <1>2, <2>1, <3>2, <3>3
  <2>2. CASE k \notin L /\ k \in M
    <3>1. jobs'[k] = Unlease(jobs[k], RepairTarget(jobs[k]), NULL)
      BY <1>4, <2>2 DEF Claimed
    <3>2. jobs'[k].state = RepairTarget(jobs[k]) /\ jobs'[k].token = NULL
      BY <1>3, <3>1 DEF Unlease, RowType
    <3> QED
      BY <1>2, <2>2, <3>2 DEF RepairTarget
  <2>3. CASE k \notin L /\ k \notin M
    BY <1>4, <2>3 DEF Claimed
  <2> QED
    BY <2>1, <2>2, <2>3
<1>7. lastTx' \in Nat /\ lastTx <= lastTx'
  BY <1>3, <1>4 DEF tx
<1> QED
  BY <1>3, <1>4, <1>5, <1>6, <1>7, SettledKept DEF tx

(* Extending a lease outside a batch settles nothing either. *)
LEMMA ExtensionSettles ==
  ASSUME IInv, NEW j, NEW token, NEW newExpiry, NEW now,
         ExtendLease(j, token, newExpiry, now), NEW ops, SettledBy(jobs, ops, lastTx)
  PROVE  SettledBy(jobs', ops, lastTx')
<1>1. /\ lastTx \in Nat /\ jobs \in [DOMAIN jobs -> RowType] /\ NULL \notin Tokens
      /\ j \in DOMAIN jobs /\ jobs' = [jobs EXCEPT ![j].expiry = newExpiry] /\ lastTx' = lastTx
  BY TableAssumption
     DEF IInv, TypeOK, Tokens, ExtendLease, ExtendOk, Extend, HoldsToken
<1>2. /\ DOMAIN jobs' = DOMAIN jobs
      /\ \A k \in DOMAIN jobs : jobs'[k].state = jobs[k].state /\ jobs'[k].token = jobs[k].token
  BY <1>1 DEF RowType
<1>3. lastTx \in Nat /\ lastTx' = lastTx /\ lastTx <= lastTx /\ NULL \notin Tokens
  BY <1>1
<1> QED
  BY <1>2, <1>3, SettledKept

----------------------------------------------------------------------------
(* Begin                                                                   *)

(* Entries have numbers, so that none is earlier than itself. *)
LEMMA EntryNumbers ==
  ASSUME NEW rows, NEW claims, NEW last, RowsOk(rows, claims, last), NEW x \in Executed(rows)
  PROVE  /\ x.seq \in Nat /\ x.pos \in Nat \ {0} /\ ~Earlier(x, x)
         /\ \E r \in rows : /\ r.id \in TxIds /\ x.tx = r.id /\ x.seq = r.seq
                            /\ x.pos \in DOMAIN r.batch.ops /\ x.op = r.batch.ops[x.pos]
<1>1. PICK r \in rows :
       r.id \in TxIds /\ \E k \in DOMAIN r.batch.ops : x = Entry(r, k)
  BY ExecutedEntries
<1>0. PICK k \in DOMAIN r.batch.ops : x = Entry(r, k)
  BY <1>1
<1>2. /\ x.tx = r.id /\ x.seq = r.seq /\ x.pos = k /\ x.op = r.batch.ops[k]
  BY <1>0, EntryFields
<1>3. r.batch \in BatchType
  BY <1>1, ControlPlaneAssumption DEF RowsOk
<1>4. k \in Nat \ {0}
  <2>1. r.batch.ops \in Seq(OperationType)
    BY <1>3 DEF BatchType
  <2> QED
    BY <1>0, <2>1
<1>5. r.seq \in Nat
  <2>1. r.seq \in 1..Cardinality(rows) /\ Cardinality(rows) \in Nat
    BY FS_CardinalityType DEF RowsOk
  <2> QED
    BY <2>1
<1> QED
  BY <1>0, <1>1, <1>2, <1>4, <1>5 DEF Earlier

(* What Begin leaves: a transaction in progress that has done nothing. *)
LEMMA BeginState ==
  ASSUME BatchesTyped, TypeOK, NEW id \in TxIds, NEW b \in Batches(Issued), Begin(id, b)
  PROVE  /\ b \in BatchType
         /\ open' # Closed
         /\ DOMAIN open' = {"id", "batch", "todo", "saved", "reached"}
         /\ open'.id = id /\ open'.batch = b /\ open'.todo = b.ops /\ open'.saved = Tables
         /\ DOMAIN open'.reached = {e[1] : e \in b.expected}
         /\ \A s \in DOMAIN open'.reached : open'.reached[s] = streams[s]
<1>1. b \in BatchType
  <2>1. Issued \in SUBSET (JobIds \X Tokens)
    BY DEF Issued, TypeOK, ReceiptType
  <2> QED
    BY <2>1 DEF BatchesTyped
<1>2. open' = [id |-> id, batch |-> b, todo |-> b.ops, saved |-> Tables,
               reached |-> [s \in {e[1] : e \in b.expected} |-> streams[s]]]
  BY DEF Begin
<1>3. open'.id = id
  BY <1>2
<1>4. open' # Closed
  BY <1>3, ControlPlaneAssumption DEF Closed
<1> QED
  BY <1>1, <1>2, <1>4

(* Beginning a transaction preserves the invariant and executes nothing. *)
LEMMA BeginInv ==
  ASSUME CPInv, BatchesTyped, NEW id \in TxIds, NEW b \in Batches(Issued), Begin(id, b)
  PROVE  CPInv' /\ SoFar' = SoFar
<1> DEFINE row == [id |-> id, seq |-> NextSequence, batch |-> b]
<1>1. /\ IInv /\ CPTypes /\ RowsOk(txs, claimTxs, lastTx)
      /\ LogAgrees(events, txs, SoFar, Version)
      /\ SettledBy(jobs, SoFar, lastTx) /\ AnswersTrue
      /\ open = Closed /\ TypeOK /\ lastTx \in Nat
  BY DEF CPInv, Begin, IInv, TypeOK
<1>2. /\ UNCHANGED <<vars, streams, events, versions, entries, sent, told, faults>>
      /\ txs' = txs \cup {row}
      /\ RowsOf(id) = {} /\ ExpectationsHold(b)
  BY DEF Begin, clientVars
<1>3. /\ b \in BatchType /\ open' # Closed
      /\ DOMAIN open' = {"id", "batch", "todo", "saved", "reached"}
      /\ open'.id = id /\ open'.batch = b /\ open'.todo = b.ops /\ open'.saved = Tables
      /\ DOMAIN open'.reached = {e[1] : e \in b.expected}
      /\ \A s \in DOMAIN open'.reached : open'.reached[s] = streams[s]
  BY <1>1, BeginState
<1>4. /\ b.ops \in Seq(OperationType) /\ b.expected \subseteq Streams \X Nat
      /\ Len(b.ops) \in Nat /\ DOMAIN b.ops = 1..Len(b.ops)
  BY <1>3 DEF BatchType
<1>5. /\ row.id = id /\ row.batch = b /\ row.seq = Cardinality(txs) + 1
      /\ Cardinality(txs) \in Nat
  BY <1>1, NextInSequence
<1>6. \A r \in txs : r.id # id
  BY <1>2 DEF RowsOf
<1> HIDE DEF row
<1>7. /\ jobs' = jobs /\ lastSeq' = lastSeq /\ active' = active /\ cursor' = cursor
      /\ receipts' = receipts /\ claimTxs' = claimTxs /\ lastTx' = lastTx /\ lost' = lost
  BY <1>2 DEF vars
<1>8. IInv'
  BY <1>1, <1>2, JobTablesKept
<1>9. CPTypes'
  BY <1>1, <1>2 DEF CPTypes
<1>10. /\ RowsOk(txs', claimTxs', lastTx')
       /\ \A r \in txs : r.seq \in Nat /\ r.seq < row.seq
  <2>1. \A n \in claimTxs : n \in claimTxs \/ n = row.id
    OBVIOUS
  <2>2. \/ row.id \in TxIds /\ row.batch \in BatchType
        \/ row.id \in 1..lastTx /\ row.batch = NULL
    BY <1>3, <1>5
  <2>3. /\ RowsOk(txs \cup {row}, claimTxs, lastTx)
        /\ \A r \in txs : r.seq \in Nat /\ r.seq < row.seq
    <3>1. lastTx \in Nat /\ lastTx <= lastTx /\ RowsOk(txs, claimTxs, lastTx)
      BY <1>1
    <3>2. row.seq = Cardinality(txs) + 1 /\ \A r \in txs : r.id # row.id
      BY <1>5, <1>6
    <3> QED
      BY <2>1, <2>2, <3>1, <3>2, RowAdded
  <2> QED
    BY <1>2, <1>7, <2>3
<1>11. SoFar = Executed(txs) /\ Version = streams
  BY <1>1 DEF SoFar, Version, CPTypes
<1>12. Done' = 0
  BY <1>3, <1>4 DEF Done
<1>13. SoFar' = SoFar
  <2>1. \A x \in Executed(txs') : x.tx = id => x.pos \in Nat \ {0}
    BY <1>10, EntryNumbers
  <2>2. \A x \in Executed(txs) : x.tx # id /\ x \in Executed(txs')
    <3> TAKE x \in Executed(txs)
    <3>1. PICK r \in txs :
           r.id \in TxIds /\ \E k \in DOMAIN r.batch.ops : x = Entry(r, k)
      BY ExecutedEntries
    <3>0. PICK k \in DOMAIN r.batch.ops : x = Entry(r, k)
      BY <3>1
    <3>2. x.tx = r.id /\ r \in txs'
      BY <1>2, <3>0, EntryFields
    <3> QED
      BY <1>6, <3>0, <3>1, <3>2, ExecutedEntries
  <2>3. \A x \in Executed(txs') : x \in Executed(txs) \/ x.tx = id
    <3> TAKE x \in Executed(txs')
    <3>1. PICK r \in txs' :
           r.id \in TxIds /\ \E k \in DOMAIN r.batch.ops : x = Entry(r, k)
      BY ExecutedEntries
    <3>0. PICK k \in DOMAIN r.batch.ops : x = Entry(r, k)
      BY <3>1
    <3>2. CASE r = row
      BY <1>5, <3>0, <3>2, EntryFields
    <3>3. CASE r \in txs
      BY <3>0, <3>1, <3>3, ExecutedEntries
    <3> QED
      BY <1>2, <3>2, <3>3
  <2>4. SoFar' = {x \in Executed(txs') : x.tx = id => x.pos <= 0}
    BY <1>3, <1>12 DEF SoFar
  <2>5. \A x : x \in SoFar' <=> x \in Executed(txs)
    BY <2>1, <2>2, <2>3, <2>4
  <2> QED
    BY <1>11, <2>5
<1>14. \A s \in Streams : Version'[s] = Version[s]
  <2> TAKE s \in Streams
  <2>1. Version'[s] = IF s \in DOMAIN open'.reached THEN open'.reached[s] ELSE streams'[s]
    BY <1>3 DEF Version, StreamVersion
  <2> QED
    BY <1>2, <1>3, <1>11, <2>1
<1>15. LogAgrees(events', txs', SoFar', Version')
  <2>1. FoundAsExpected(events, txs') /\ Owned(events, txs')
    <3>1. \A e \in b.expected : Cardinality(Positions(events, e[1], Len(events))) = e[2]
      <4> TAKE e \in b.expected
      <4>1. e[1] \in Streams /\ streams[e[1]] = e[2]
        BY <1>2, <1>4 DEF ExpectationsHold
      <4>2. CountedBy(events, e[1], streams[e[1]])
        BY <1>1, <1>11, <4>1 DEF LogAgrees
      <4> QED
        BY <4>1, <4>2 DEF CountedBy
    <3>2. events \in Seq(EventType) /\ FoundAsExpected(events, txs) /\ Owned(events, txs)
      BY <1>1 DEF LogAgrees
    <3>3. row.seq \in Nat
      BY <1>5
    <3> QED
      BY <1>2, <1>5, <1>10, <3>1, <3>2, <3>3, FoundWhenAdded
  <2> QED
    BY <1>1, <1>2, <1>13, <1>14, <2>1 DEF LogAgrees
<1>16. SettledBy(jobs', SoFar', lastTx')
  BY <1>1, <1>7, <1>13
<1>17. InProgress'
  <2>1. open'.saved.txs = txs /\ open'.saved.streams = streams /\ open'.saved.versions = versions
    BY <1>3 DEF Tables
  <2>2. OpenRow' = row
    BY <1>3, <1>5, <2>1 DEF OpenRow, row
  <2>3. \A k \in 1..Len(open'.todo) : open'.todo[k] = open'.batch.ops[Done' + k]
    BY <1>3, <1>4, <1>12
  <2>4. DOMAIN open'.reached \subseteq Streams /\ \A s \in DOMAIN open'.reached : open'.reached[s] \in Nat
    BY <1>1, <1>3, <1>4 DEF CPTypes
  <2>5. /\ open'.todo \in Seq(OperationType) /\ Len(open'.todo) <= Len(open'.batch.ops)
        /\ open'.saved.versions \in [Projections -> Nat]
    BY <1>1, <1>3, <1>4, <2>1 DEF CPTypes
  <2> QED
    BY <1>2, <1>3, <1>6, <2>1, <2>2, <2>3, <2>4, <2>5 DEF InProgress
<1>18. Restorable'
  <2>1. /\ open'.saved.jobs = jobs /\ open'.saved.lastSeq = lastSeq
        /\ open'.saved.active = active /\ open'.saved.receipts = receipts
        /\ open'.saved.txs = txs /\ open'.saved.events = events /\ open'.saved.streams = streams
    BY <1>3 DEF Tables
  <2>2. Saved!IInv'
    BY <1>1, <1>7, <2>1, SavedByBegin
  <2> QED
    BY <1>1, <1>7, <1>11, <2>1, <2>2 DEF Restorable
<1>19. AnswersTrue'
  <2>1. Durable' = Durable
    BY <1>1, <1>3 DEF Durable, Tables
  <2> QED
    BY <1>1, <1>2, <2>1 DEF AnswersTrue
<1> QED
  BY <1>8, <1>9, <1>10, <1>13, <1>15, <1>16, <1>17, <1>18, <1>19 DEF CPInv

----------------------------------------------------------------------------
(* The operations of the transaction in progress                           *)

(* The operations executed when the batch of id has got to its n-th. *)
UpTo(rows, id, n) == {x \in Executed(rows) : x.tx = id => x.pos <= n}

(* Executing one more operation of the last row. *)
LEMMA OneMore ==
  ASSUME NEW rows, NEW claims, NEW last, RowsOk(rows, claims, last),
         NEW row \in rows, row.id \in TxIds,
         \A r \in rows : r # row => r.seq < row.seq,
         NEW n \in Nat, n + 1 \in DOMAIN row.batch.ops
  PROVE  /\ UpTo(rows, row.id, n + 1) = UpTo(rows, row.id, n) \cup {Entry(row, n + 1)}
         /\ Entry(row, n + 1) \notin UpTo(rows, row.id, n)
         /\ Later(Entry(row, n + 1), UpTo(rows, row.id, n))
<1> DEFINE x == Entry(row, n + 1)
<1>1. x.tx = row.id /\ x.seq = row.seq /\ x.pos = n + 1
  BY EntryFields
<1>2. x \in Executed(rows)
  BY ExecutedEntries
<1>3. ASSUME NEW y \in Executed(rows)
      PROVE  /\ y.seq \in Nat /\ y.pos \in Nat
             /\ y.tx = row.id => y.seq = row.seq /\ y = Entry(row, y.pos)
             /\ y.tx # row.id => y.seq < row.seq
  <2>1. PICK r \in rows :
         r.id \in TxIds /\ \E k \in DOMAIN r.batch.ops : y = Entry(r, k)
    BY ExecutedEntries
  <2>2. PICK k \in DOMAIN r.batch.ops : y = Entry(r, k)
    BY <2>1
  <2>3. y.tx = r.id /\ y.seq = r.seq /\ y.pos = k
    BY <2>2, EntryFields
  <2>4. r.id = row.id => r = row
    BY DEF RowsOk
  <2>5. y.seq \in Nat /\ y.pos \in Nat
    BY EntryNumbers
  <2> QED
    BY <2>2, <2>3, <2>4, <2>5
<1>4. row.seq \in Nat /\ ~Earlier(x, x)
  BY <1>2, EntryNumbers, <1>1
<1> HIDE DEF x
<1>5. \A y \in Executed(rows) : y.tx = row.id => (y.pos <= n + 1 <=> y.pos <= n \/ y = x)
  <2> SUFFICES ASSUME NEW y \in Executed(rows), y.tx = row.id
               PROVE  y.pos <= n + 1 <=> y.pos <= n \/ y = x
    OBVIOUS
  <2>1. y.pos \in Nat /\ y = Entry(row, y.pos)
    BY <1>3
  <2>2. y.pos = n + 1 => y = x
    BY <2>1 DEF x
  <2> QED
    BY <1>1, <2>1, <2>2
<1>6. UpTo(rows, row.id, n + 1) = UpTo(rows, row.id, n) \cup {x}
  <2>1. \A y : y \in UpTo(rows, row.id, n + 1) <=> y \in UpTo(rows, row.id, n) \/ y = x
    BY <1>1, <1>2, <1>5 DEF UpTo
  <2> QED
    BY <2>1
<1>7. x \notin UpTo(rows, row.id, n)
  BY <1>1 DEF UpTo
<1>8. Later(x, UpTo(rows, row.id, n))
  <2>1. ASSUME NEW y \in UpTo(rows, row.id, n)
        PROVE  Earlier(y, x) /\ ~Earlier(x, y)
    <3>1. y \in Executed(rows) /\ (y.tx = row.id => y.pos <= n)
      BY DEF UpTo
    <3>2. /\ y.seq \in Nat /\ y.pos \in Nat
          /\ y.tx = row.id => y.seq = row.seq
          /\ y.tx # row.id => y.seq < row.seq
      BY <1>3, <3>1
    <3> QED
      BY <1>1, <1>4, <3>1, <3>2 DEF Earlier
  <2> QED
    BY <1>4, <2>1 DEF Later
<1> QED
  BY <1>6, <1>7, <1>8 DEF x

(* The rows while a transaction is in progress. *)
LEMMA OpenRows ==
  ASSUME CPInv, open # Closed
  PROVE  /\ InProgress /\ Restorable
         /\ OpenRow \in txs /\ OpenRow.id = open.id /\ OpenRow.batch = open.batch
         /\ OpenRow.id \in TxIds
         /\ \A r \in txs : r # OpenRow => r \in open.saved.txs /\ r.seq < OpenRow.seq
         /\ \A r \in txs : r.id = OpenRow.id => r = OpenRow
         /\ open.batch.ops \in Seq(OperationType) /\ open.batch.at \in Times
         /\ Done \in Nat /\ Len(open.todo) \in Nat
         /\ Len(open.batch.ops) = Done + Len(open.todo)
         /\ SoFar = UpTo(txs, open.id, Done)
<1>1. InProgress /\ Restorable
  BY DEF CPInv
<1>2. OpenRow.id = open.id /\ OpenRow.batch = open.batch /\ open.id \in TxIds
  BY <1>1 DEF OpenRow, InProgress
<1>3. OpenRow.seq = Cardinality(open.saved.txs) + 1
  BY DEF OpenRow
<1>4. \A r \in open.saved.txs : r.seq < OpenRow.seq
  <2>1. RowsOk(open.saved.txs, claimTxs, lastTx)
    BY <1>1 DEF Restorable
  <2>2. /\ Cardinality(open.saved.txs) \in Nat
        /\ \A r \in open.saved.txs : r.seq \in 1..Cardinality(open.saved.txs)
    BY <2>1, FS_CardinalityType DEF RowsOk
  <2> QED
    BY <1>3, <2>2
<1>5. txs = open.saved.txs \cup {OpenRow} /\ \A r \in open.saved.txs : r.id # open.id
  BY <1>1 DEF InProgress
<1>6. open.batch \in BatchType
  BY <1>1 DEF InProgress
<1>7. open.batch.ops \in Seq(OperationType) /\ open.batch.at \in Times
  BY <1>6 DEF BatchType
<1>8. open.todo \in Seq(OperationType) /\ Len(open.todo) <= Len(open.batch.ops)
  BY <1>1 DEF InProgress
<1>9. /\ Done \in Nat /\ Len(open.todo) \in Nat
      /\ Len(open.batch.ops) = Done + Len(open.todo)
  BY <1>7, <1>8 DEF Done
<1>10. SoFar = UpTo(txs, open.id, Done)
  BY DEF SoFar, UpTo
<1> HIDE DEF OpenRow
<1> QED
  BY <1>1, <1>2, <1>4, <1>5, <1>7, <1>9, <1>10

(* The state of the transaction after one more of its operations. *)
LEMMA Advanced ==
  ASSUME CPInv, open # Closed, open.todo # <<>>, txs' = txs,
         NEW reached, open' = [open EXCEPT !.todo = Tail(@), !.reached = reached]
  PROVE  /\ open' # Closed /\ DOMAIN open' = DOMAIN open
         /\ open'.id = open.id /\ open'.batch = open.batch /\ open'.saved = open.saved
         /\ open'.todo = Tail(open.todo) /\ open'.reached = reached
         /\ Done' = Done + 1 /\ Done + 1 \in DOMAIN open.batch.ops
         /\ Head(open.todo) = open.batch.ops[Done + 1] /\ Head(open.todo) \in OperationType
         /\ open'.todo \in Seq(OperationType) /\ Len(open'.todo) <= Len(open.batch.ops)
         /\ \A k \in 1..Len(open'.todo) : open'.todo[k] = open.batch.ops[Done' + k]
<1>1. /\ InProgress /\ Done \in Nat /\ Len(open.todo) \in Nat
      /\ Len(open.batch.ops) = Done + Len(open.todo)
      /\ open.batch.ops \in Seq(OperationType)
  BY OpenRows
<1>2. DOMAIN open = {"id", "batch", "todo", "saved", "reached"} /\ open.id \in TxIds
  BY <1>1 DEF InProgress
<1>3. /\ DOMAIN open' = DOMAIN open
      /\ open'.id = open.id /\ open'.batch = open.batch /\ open'.saved = open.saved
      /\ open'.todo = Tail(open.todo) /\ open'.reached = reached
  BY <1>2
<1>4. open' # Closed
  BY <1>2, <1>3, ControlPlaneAssumption DEF Closed
<1>5. /\ open.todo \in Seq(OperationType)
      /\ \A k \in 1..Len(open.todo) : open.todo[k] = open.batch.ops[Done + k]
  BY <1>1 DEF InProgress
<1>6. /\ Len(open.todo) >= 1
      /\ Head(open.todo) = open.todo[1] /\ Head(open.todo) \in OperationType
      /\ Tail(open.todo) \in Seq(OperationType) /\ Len(Tail(open.todo)) = Len(open.todo) - 1
      /\ \A k \in 1..(Len(open.todo) - 1) : Tail(open.todo)[k] = open.todo[k + 1]
  BY <1>1, <1>5
<1>7. Done' = Done + 1
  <2>1. Done' = Len(open'.batch.ops) - Len(open'.todo)
    BY DEF Done
  <2>2. Len(open'.todo) = Len(open.todo) - 1 /\ open'.batch = open.batch
    BY <1>3, <1>6
  <2>3. /\ Done \in Nat /\ Len(open.todo) \in Nat
        /\ Len(open.batch.ops) = Done + Len(open.todo)
    BY <1>1
  <2>4. Done' = Len(open.batch.ops) - Len(open'.todo)
    BY <2>1, <2>2
  <2>5. Done' = (Done + Len(open.todo)) - (Len(open.todo) - 1)
    BY <2>2, <2>3, <2>4
  <2> HIDE DEF Done
  <2> QED
    BY <2>3, <2>5
<1>8. Done + 1 \in DOMAIN open.batch.ops /\ Head(open.todo) = open.batch.ops[Done + 1]
  BY <1>1, <1>5, <1>6
<1>9. \A k \in 1..Len(open'.todo) : open'.todo[k] = open.batch.ops[Done' + k]
  <2> TAKE k \in 1..Len(open'.todo)
  <2>1. k \in 1..(Len(open.todo) - 1) /\ k + 1 \in 1..Len(open.todo)
    BY <1>1, <1>3, <1>6
  <2>2. open'.todo[k] = open.todo[k + 1]
    BY <1>3, <1>6, <2>1
  <2>3. open.todo[k + 1] = open.batch.ops[Done + (k + 1)]
    BY <1>5, <2>1
  <2>4. Done' + k = Done + (k + 1)
    <3>1. k \in Int /\ Done \in Int
      BY <1>1, <2>1
    <3> QED
      BY <1>7, <3>1
  <2> QED
    BY <2>2, <2>3, <2>4
<1>10. Len(open'.todo) <= Len(open.batch.ops)
  BY <1>1, <1>3, <1>6
<1> HIDE DEF Done
<1> QED
  BY <1>3, <1>4, <1>6, <1>7, <1>8, <1>9, <1>10

(* What executing an operation leaves alone. *)
LEMMA ExecuteKeeps ==
  ASSUME NEW op, Execute(op)
  PROVE  UNCHANGED <<streams, txs, sent, told, faults, cursor, claimTxs, lastTx, lost>>
<1>1. CASE JobOp(op)
  BY <1>1 DEF JobOp, EnqueueJob, AckJob, FailJob, CancelJob, ResolveJob, ExtendLease, Settle,
     claimVars, logVars, clientVars
<1>2. CASE AppendEvent(op) \/ PatchProjection(op)
  BY <1>2 DEF AppendEvent, PatchProjection, vars, clientVars
<1> QED
  BY <1>1, <1>2 DEF Execute

(* The versions that streams have reached inside the transaction are        *)
(* numbers, and only appending to a stream moves it.                        *)
LEMMA ReachedVersions ==
  ASSUME CPInv, open # Closed, NEW op \in OperationType
  PROVE  /\ \A s \in Streams : StreamVersion(s) \in Nat /\ Version[s] = StreamVersion(s)
         /\ DOMAIN Reached(op) \subseteq Streams
         /\ \A s \in DOMAIN Reached(op) : Reached(op)[s] \in Nat
         /\ \A s \in Streams :
              (IF s \in DOMAIN Reached(op) THEN Reached(op)[s] ELSE streams[s])
                = IF op.kind = "AppendEvent" /\ s = op.stream
                  THEN StreamVersion(s) + 1 ELSE StreamVersion(s)
<1>1. /\ DOMAIN open.reached \subseteq Streams
      /\ \A s \in DOMAIN open.reached : open.reached[s] \in Nat
      /\ streams \in [Streams -> Nat]
  BY DEF CPInv, InProgress, CPTypes
<1>2. \A s \in Streams : StreamVersion(s) \in Nat
  BY <1>1 DEF StreamVersion
<1>3. \A s \in Streams : Version[s] = StreamVersion(s)
  BY DEF Version
<1>4. CASE op.kind # "AppendEvent"
  <2>1. Reached(op) = open.reached
    BY <1>4 DEF Reached
  <2> QED
    BY <1>1, <1>2, <1>3, <1>4, <2>1 DEF StreamVersion
<1>5. CASE op.kind = "AppendEvent"
  <2>1. op.stream \in Streams
    BY <1>5, OperationFields
  <2>2. /\ DOMAIN Reached(op) = DOMAIN open.reached \cup {op.stream}
        /\ \A s \in DOMAIN Reached(op) :
             Reached(op)[s] = IF s = op.stream THEN StreamVersion(s) + 1 ELSE open.reached[s]
    BY <1>5 DEF Reached
  <2>3. \A s \in DOMAIN Reached(op) : Reached(op)[s] \in Nat
    BY <1>1, <1>2, <2>1, <2>2
  <2>4. \A s \in Streams :
          (IF s \in DOMAIN Reached(op) THEN Reached(op)[s] ELSE streams[s])
            = IF s = op.stream THEN StreamVersion(s) + 1 ELSE StreamVersion(s)
    BY <2>2 DEF StreamVersion
  <2> QED
    BY <1>1, <1>2, <1>3, <1>5, <2>1, <2>2, <2>3, <2>4
<1> QED
  BY <1>4, <1>5

(* Executing an operation keeps the log in agreement with the transactions. *)
LEMMA OperateLog ==
  ASSUME CPInv, open # Closed, open.todo # <<>>, NEW op, op = Head(open.todo),
         Execute(op), open' = [open EXCEPT !.todo = Tail(@), !.reached = Reached(op)],
         NEW x, x.op = op, x.tx = open.id,
         SoFar' = SoFar \cup {x}, Later(x, SoFar)
  PROVE  LogAgrees(events', txs', SoFar', Version')
<1>1. txs' = txs /\ streams' = streams
  BY ExecuteKeeps
<1>2. open' # Closed /\ open'.reached = Reached(op) /\ op \in OperationType
  BY <1>1, Advanced
<1>3. LogAgrees(events, txs, SoFar, Version)
  BY DEF CPInv
<1>4. \A s \in Streams :
        /\ Version[s] = StreamVersion(s) /\ StreamVersion(s) \in Nat
        /\ Version'[s] = IF op.kind = "AppendEvent" /\ s = op.stream
                         THEN StreamVersion(s) + 1 ELSE StreamVersion(s)
  <2> TAKE s \in Streams
  <2>1. Version'[s] = IF s \in DOMAIN open'.reached THEN open'.reached[s] ELSE streams'[s]
    BY <1>2 DEF Version, StreamVersion
  <2>2. Version'[s] = IF s \in DOMAIN Reached(op) THEN Reached(op)[s] ELSE streams[s]
    BY <1>1, <1>2, <2>1
  <2> QED
    BY <1>2, <2>2, ReachedVersions
<1>5. IsFiniteSet(SoFar')
  BY <1>3, FS_AddElement DEF LogAgrees
<1> HIDE DEF Version, SoFar
<1>6. CASE op.kind = "AppendEvent"
  <2> DEFINE e == [event |-> op.event, stream |-> op.stream,
                   version |-> StreamVersion(op.stream) + 1, tx |-> open.id]
  <2>1. AppendEvent(op)
    BY <1>6 DEF Execute, JobOp
  <2>2. events' = Append(events, e)
    BY <2>1 DEF AppendEvent
  <2>3. op.stream \in Streams /\ op.event \in Events
    BY <1>2, <1>6, OperationFields
  <2>4. /\ e.event = op.event /\ e.stream = op.stream /\ e.tx = open.id
        /\ e.version = StreamVersion(op.stream) + 1
    OBVIOUS
  <2>5. open.id \in TxIds
    BY OpenRows
  <2>6. e \in EventType
    BY <1>4, <2>3, <2>5 DEF EventType
  <2> HIDE DEF e
  <2>7. /\ events \in Seq(EventType) /\ IsFiniteSet(SoFar) /\ LogOf(events, SoFar)
        /\ NumberedBy(events) /\ Owned(events, txs) /\ FoundAsExpected(events, txs)
        /\ \A s \in Streams : CountedBy(events, s, Version[s])
    BY <1>3 DEF LogAgrees
  <2>8. LogOf(events', SoFar \cup {x})
    <3>1. \A y \in SoFar : ~Earlier(y, y)
      <4>1. \A y \in Executed(txs) : ~Earlier(y, y)
        BY EntryNumbers DEF CPInv
      <4> QED
        BY <4>1 DEF SoFar
    <3>2. e.tx = x.tx /\ e.event = x.op.event /\ e.stream = x.op.stream
      BY <2>4
    <3> QED
      BY <1>6, <2>2, <2>7, <3>1, <3>2, LogAppended
  <2>9. /\ NumberedBy(events')
        /\ CountedBy(events', op.stream, StreamVersion(op.stream) + 1)
        /\ \A s, n : s # op.stream /\ CountedBy(events, s, n) => CountedBy(events', s, n)
    <3>1. CountedBy(events, e.stream, StreamVersion(op.stream))
      BY <1>4, <2>3, <2>4, <2>7
    <3>2. e.version = StreamVersion(op.stream) + 1
      BY <2>4
    <3>3. /\ NumberedBy(Append(events, e))
          /\ CountedBy(Append(events, e), e.stream, StreamVersion(op.stream) + 1)
          /\ \A s, n : s # e.stream /\ CountedBy(events, s, n) => CountedBy(Append(events, e), s, n)
      BY <2>6, <2>7, <3>1, <3>2, VersionsAppended
    <3> QED
      BY <2>2, <2>4, <3>3
  <2>10. \A s \in Streams : CountedBy(events', s, Version'[s])
    <3> TAKE s \in Streams
    <3>1. CASE s = op.stream
      BY <1>4, <1>6, <2>9, <3>1
    <3>2. CASE s # op.stream
      <4>1. CountedBy(events, s, Version[s]) /\ Version'[s] = Version[s]
        BY <1>4, <2>7, <3>2
      <4> QED
        BY <2>9, <3>2, <4>1
    <3> QED
      BY <3>1, <3>2
  <2>11. FoundAsExpected(events', txs) /\ Owned(events', txs)
    <3>1. /\ OpenRow \in txs /\ OpenRow.id \in TxIds /\ OpenRow.id = open.id
          /\ \A r \in txs : r.id = OpenRow.id => r = OpenRow
      BY OpenRows
    <3>2. \A r \in txs : ~(OpenRow.seq < r.seq)
      <4> TAKE r \in txs
      <4>1. r.seq \in Nat /\ OpenRow.seq \in Nat
        <5>1. /\ Cardinality(txs) \in Nat
              /\ \A h \in txs : h.seq \in 1..Cardinality(txs)
          BY FS_CardinalityType DEF CPInv, RowsOk
        <5> QED
          BY <3>1, <5>1
      <4>2. r = OpenRow \/ r.seq < OpenRow.seq
        BY OpenRows
      <4> HIDE DEF OpenRow
      <4> QED
        BY <4>1, <4>2
    <3>3. e.tx = OpenRow.id
      BY <2>4, <3>1
    <3> HIDE DEF OpenRow
    <3> QED
      BY <2>2, <2>6, <2>7, <3>1, <3>2, <3>3, FoundWhenAppended
  <2>12. events' \in Seq(EventType)
    BY <2>2, <2>6, <2>7
  <2> QED
    BY <1>1, <1>5, <2>8, <2>9, <2>10, <2>11, <2>12 DEF LogAgrees
<1>7. CASE op.kind # "AppendEvent"
  <2>1. events' = events
    BY <1>7 DEF Execute, JobOp, PatchProjection, logVars
  <2>2. LogOf(events, SoFar \cup {x})
    BY <1>3, <1>7, LogSkipped DEF LogAgrees
  <2>3. \A s \in Streams : Version'[s] = Version[s]
    BY <1>4, <1>7
  <2> QED
    BY <1>1, <1>3, <1>5, <2>1, <2>2, <2>3 DEF LogAgrees
<1> QED
  BY <1>6, <1>7

(* Executing an operation preserves the invariant, and it is one more. *)
LEMMA OperateInv ==
  ASSUME CPInv, Operate
  PROVE  /\ CPInv'
         /\ \E x : x.op = Head(open.todo) /\ Later(x, SoFar) /\ SoFar' = SoFar \cup {x}
<1> DEFINE op == Head(open.todo)
           x == Entry(OpenRow, Done + 1)
<1>1. /\ open # Closed /\ open.todo # <<>> /\ Execute(op)
      /\ open' = [open EXCEPT !.todo = Tail(@), !.reached = Reached(op)]
  BY DEF Operate
<1>2. /\ streams' = streams /\ txs' = txs /\ sent' = sent /\ told' = told /\ faults' = faults
      /\ cursor' = cursor /\ claimTxs' = claimTxs /\ lastTx' = lastTx /\ lost' = lost
  BY <1>1, ExecuteKeeps
<1>3. /\ open' # Closed /\ DOMAIN open' = DOMAIN open
      /\ open'.id = open.id /\ open'.batch = open.batch /\ open'.saved = open.saved
      /\ open'.todo = Tail(open.todo) /\ open'.reached = Reached(op)
      /\ Done' = Done + 1 /\ Done + 1 \in DOMAIN open.batch.ops
      /\ op = open.batch.ops[Done + 1] /\ op \in OperationType
      /\ open'.todo \in Seq(OperationType) /\ Len(open'.todo) <= Len(open.batch.ops)
      /\ \A k \in 1..Len(open'.todo) : open'.todo[k] = open.batch.ops[Done' + k]
  BY <1>1, <1>2, Advanced
<1>4. /\ InProgress /\ Restorable
      /\ OpenRow \in txs /\ OpenRow.id = open.id /\ OpenRow.batch = open.batch
      /\ OpenRow.id \in TxIds /\ open.batch.at \in Times
      /\ \A r \in txs : r # OpenRow => r.seq < OpenRow.seq
      /\ Done \in Nat
      /\ SoFar = UpTo(txs, open.id, Done)
  BY <1>1, OpenRows
<1>5. /\ IInv /\ CPTypes /\ RowsOk(txs, claimTxs, lastTx)
      /\ SettledBy(jobs, SoFar, lastTx) /\ AnswersTrue
  BY DEF CPInv
<1>6. SoFar' = UpTo(txs, open.id, Done + 1)
  BY <1>2, <1>3 DEF SoFar, UpTo
<1>7. x.op = op /\ x.tx = open.id
  BY <1>3, <1>4, EntryFields
<1> HIDE DEF op, x, OpenRow, Done, SoFar
<1>8. SoFar' = SoFar \cup {x} /\ x \notin SoFar /\ Later(x, SoFar)
  <2>1. Done + 1 \in DOMAIN OpenRow.batch.ops
    BY <1>3, <1>4
  <2>2. \A r \in txs : r # OpenRow => r.seq < OpenRow.seq
    BY <1>4
  <2>3. /\ UpTo(txs, OpenRow.id, Done + 1) = UpTo(txs, OpenRow.id, Done) \cup {Entry(OpenRow, Done + 1)}
        /\ Entry(OpenRow, Done + 1) \notin UpTo(txs, OpenRow.id, Done)
        /\ Later(Entry(OpenRow, Done + 1), UpTo(txs, OpenRow.id, Done))
    BY <1>4, <1>5, <2>1, <2>2, OneMore
  <2> QED
    BY <1>4, <1>6, <2>3 DEF x
<1>9. LogAgrees(events', txs', SoFar', Version')
  BY <1>1, <1>7, <1>8, OperateLog DEF op
<1>10. /\ IInv' /\ SettledBy(jobs', SoFar', lastTx')
       /\ versions' \in [Projections -> Nat]
  <2>1. CASE op.kind \in {"AppendEvent", "ProjectionPatch"}
    <3>1. UNCHANGED vars
      BY <1>1, <2>1 DEF Execute, JobOp, AppendEvent, PatchProjection
    <3>2. SettledBy(jobs, SoFar \cup {x}, lastTx)
      BY <1>5, <1>7, <2>1, SettledSkipped
    <3>3. jobs' = jobs
      BY <3>1 DEF vars
    <3>4. versions' \in [Projections -> Nat]
      BY <1>1, <1>3, <1>5, <2>1, OperationFields
         DEF Execute, JobOp, AppendEvent, PatchProjection, CPTypes
    <3> QED
      BY <1>2, <1>5, <1>8, <3>1, <3>2, <3>3, <3>4, JobTablesKept
  <2>2. CASE op.kind \notin {"AppendEvent", "ProjectionPatch"}
    <3>1. JobOp(op)
      BY <1>1, <2>2 DEF Execute
    <3>2. versions' = versions
      BY <3>1 DEF JobOp, logVars
    <3>3. IInv'
      BY <1>3, <1>4, <1>5, <3>1, JobOpInv
    <3>4. SettledBy(jobs', SoFar \cup {x}, lastTx')
      BY <1>3, <1>4, <1>5, <1>7, <1>8, <3>1, JobOpSettles
    <3> QED
      BY <1>5, <1>8, <3>2, <3>3, <3>4 DEF CPTypes
  <2> QED
    BY <2>1, <2>2
<1>11. CPTypes'
  BY <1>2, <1>5, <1>10 DEF CPTypes
<1>12. RowsOk(txs', claimTxs', lastTx')
  BY <1>2, <1>5
<1>13. InProgress'
  <2>1. OpenRow' = OpenRow
    BY <1>3 DEF OpenRow
  <2>2. /\ DOMAIN open'.reached \subseteq Streams
        /\ \A s \in DOMAIN open'.reached : open'.reached[s] \in Nat
    BY <1>1, <1>3, ReachedVersions
  <2>3. /\ DOMAIN open' = {"id", "batch", "todo", "saved", "reached"}
        /\ open'.id \in TxIds /\ open'.batch \in BatchType
        /\ open'.todo \in Seq(OperationType) /\ Len(open'.todo) <= Len(open'.batch.ops)
        /\ \A k \in 1..Len(open'.todo) : open'.todo[k] = open'.batch.ops[Done' + k]
        /\ streams' = open'.saved.streams
        /\ open'.saved.versions \in [Projections -> Nat]
        /\ txs' = open'.saved.txs \cup {OpenRow'}
        /\ \A r \in open'.saved.txs : r.id # open'.id
    BY <1>2, <1>3, <1>4, <2>1 DEF InProgress
  <2> QED
    BY <2>2, <2>3 DEF InProgress
<1>14. Restorable'
  <2>1. Saved!IInv'
    BY <1>2, <1>3, <1>4, SavedWhileOpen DEF Restorable
  <2> QED
    BY <1>2, <1>3, <1>4, <2>1 DEF Restorable
<1>15. AnswersTrue'
  <2>1. Durable' = Durable
    BY <1>1, <1>3 DEF Durable
  <2> QED
    BY <1>2, <1>5, <2>1 DEF AnswersTrue
<1>16. CPInv'
  BY <1>9, <1>10, <1>11, <1>12, <1>13, <1>14, <1>15 DEF CPInv
<1> QED
  BY <1>7, <1>8, <1>16 DEF op

----------------------------------------------------------------------------
(* The end of a transaction                                                *)

(* Telling a client the truth about its own transaction, when no other      *)
(* transaction becomes durable, keeps all answers true.                     *)
LEMMA AnswerGiven ==
  ASSUME AnswersTrue, NEW id \in TxIds,
         DOMAIN sent' = TxIds, DOMAIN told' = TxIds,
         \A other \in TxIds : other # id => sent'[other] = sent[other] /\ told'[other] = told[other],
         NEW D, D = Durable',
         \A r : r.id # id => (r \in D <=> r \in Durable),
         told'[id].result = "Receipt" =>
           \E r \in D : r.id = id /\ r.batch = sent'[id] /\ told'[id] = Receipt(r),
         told'[id].result \in {"Nothing", "Absent"} => \A r \in D : r.id # id,
         told'[id].result = "Indeterminate" => \A r \in D : r.id = id => r.batch = sent'[id]
  PROVE  AnswersTrue'
<1>1. ASSUME NEW other \in TxIds, other # id
      PROVE  /\ told'[other].result = "Receipt" =>
                  \E r \in D : r.id = other /\ r.batch = sent'[other] /\ told'[other] = Receipt(r)
             /\ told'[other].result \in {"Nothing", "Absent"} => \A r \in D : r.id # other
             /\ told'[other].result = "Indeterminate" =>
                  \A r \in D : r.id = other => r.batch = sent'[other]
  <2>1. /\ told[other].result = "Receipt" =>
             \E r \in Durable : r.id = other /\ r.batch = sent[other] /\ told[other] = Receipt(r)
        /\ told[other].result \in {"Nothing", "Absent"} => \A r \in Durable : r.id # other
        /\ told[other].result = "Indeterminate" =>
             \A r \in Durable : r.id = other => r.batch = sent[other]
    BY DEF AnswersTrue
  <2>2. sent'[other] = sent[other] /\ told'[other] = told[other]
    BY <1>1
  <2>3. \A r : r.id = other => (r \in D <=> r \in Durable)
    BY <1>1
  <2> QED
    BY <2>1, <2>2, <2>3
<1> QED
  BY <1>1 DEF AnswersTrue, Receipt

(* Going back to what is durable, whatever the client is told of it. *)
LEMMA RollbackInv ==
  ASSUME CPInv, open # Closed, Rollback, faults' \in 0..MaxFaults, AnswersTrue'
  PROVE  CPInv'
<1>1. /\ Restorable /\ streams = open.saved.streams
      /\ open.saved.versions \in [Projections -> Nat] /\ streams \in [Streams -> Nat]
  BY DEF CPInv, InProgress, CPTypes
<1>2. /\ jobs' = open.saved.jobs /\ lastSeq' = open.saved.lastSeq
      /\ active' = open.saved.active /\ receipts' = open.saved.receipts
      /\ streams' = open.saved.streams /\ events' = open.saved.events
      /\ versions' = open.saved.versions /\ txs' = open.saved.txs
      /\ open' = Closed
      /\ cursor' = cursor /\ claimTxs' = claimTxs /\ lastTx' = lastTx /\ lost' = lost
  BY DEF Rollback
<1>3. IInv'
  BY <1>1, <1>2, RestoredByRollback DEF Restorable
<1>4. CPTypes'
  BY <1>1, <1>2 DEF CPTypes
<1>5. RowsOk(txs', claimTxs', lastTx')
  BY <1>1, <1>2 DEF Restorable
<1>6. SoFar' = Executed(open.saved.txs)
  BY <1>2 DEF SoFar
<1>7. \A s \in Streams : Version'[s] = open.saved.streams[s]
  BY <1>2 DEF Version
<1>8. LogAgrees(events', txs', SoFar', Version')
  <2>1. LogAgrees(open.saved.events, open.saved.txs, Executed(open.saved.txs),
                  open.saved.streams)
    BY <1>1 DEF Restorable
  <2> QED
    BY <1>2, <1>6, <1>7, <2>1 DEF LogAgrees
<1>9. SettledBy(jobs', SoFar', lastTx')
  BY <1>1, <1>2, <1>6 DEF Restorable
<1> QED
  BY <1>2, <1>3, <1>4, <1>5, <1>8, <1>9 DEF CPInv

(* A failed operation ends the transaction, and nothing has happened. *)
LEMMA OperationFailsInv ==
  ASSUME CPInv, OperationFails
  PROVE  CPInv'
<1>1. open # Closed /\ Rollback /\ sent' = sent /\ told' = told /\ faults' = faults
  BY DEF OperationFails, clientVars
<1>2. Durable' = Durable
  BY <1>1 DEF Durable, Rollback
<1>3. AnswersTrue'
  BY <1>1, <1>2 DEF CPInv, AnswersTrue
<1> QED
  BY <1>1, <1>3, RollbackInv DEF CPInv, CPTypes

(* What Answer does to the other clients, and to this one. *)
LEMMA Answered ==
  ASSUME AnswersTrue, NEW id \in TxIds, NEW b, NEW result, Answer(id, b, result)
  PROVE  /\ DOMAIN sent' = TxIds /\ DOMAIN told' = TxIds
         /\ \A other \in TxIds : other # id =>
              sent'[other] = sent[other] /\ told'[other] = told[other]
         /\ sent'[id] = b /\ told'[id] = result
BY DEF AnswersTrue, Answer

(* The number of faults stays within its bound. *)
LEMMA FaultCounted ==
  ASSUME CPInv, Fault
  PROVE  faults' \in 0..MaxFaults
BY ControlPlaneAssumption DEF CPInv, CPTypes, Fault

(* A COMMIT that did not persist, or a crash before it. *)
LEMMA CommitLostInv ==
  ASSUME CPInv, CommitLost
  PROVE  CPInv'
<1> DEFINE id == open.id
           answer == [result |-> "Indeterminate"]
<1>1. open # Closed /\ Rollback /\ Fault /\ Answer(id, open.batch, answer)
  BY DEF CommitLost, Fault
<1>2. AnswersTrue /\ InProgress /\ id \in TxIds
  BY <1>1 DEF CPInv, InProgress
<1>3. Durable = open.saved.txs /\ Durable' = open.saved.txs
  BY <1>1 DEF Durable, Rollback
<1>4. \A r \in open.saved.txs : r.id # id
  BY <1>2 DEF InProgress
<1>5. /\ DOMAIN sent' = TxIds /\ DOMAIN told' = TxIds
      /\ \A other \in TxIds : other # id =>
           sent'[other] = sent[other] /\ told'[other] = told[other]
      /\ told'[id] = answer
  BY <1>1, <1>2, Answered
<1>6. told'[id].result = "Indeterminate"
  BY <1>5
<1> HIDE DEF answer, id
<1>7. AnswersTrue'
  BY <1>2, <1>3, <1>4, <1>5, <1>6, AnswerGiven
<1> QED
  BY <1>1, <1>7, RollbackInv, FaultCounted

(* A COMMIT that persists makes all of the batch durable, and the streams   *)
(* get the versions that its events have reached.                           *)
LEMMA PersistInv ==
  ASSUME CPInv, Persist, faults' \in 0..MaxFaults, AnswersTrue'
  PROVE  CPInv' /\ SoFar' = SoFar
<1>1. /\ open # Closed /\ open.todo = <<>> /\ open' = Closed
      /\ UNCHANGED vars /\ jobs' = jobs /\ claimTxs' = claimTxs /\ lastTx' = lastTx
      /\ events' = events /\ versions' = versions /\ txs' = txs
      /\ streams' = [s \in Streams |-> StreamVersion(s)]
  BY DEF Persist, WriteBack, vars
<1>2. /\ IInv /\ CPTypes /\ RowsOk(txs, claimTxs, lastTx)
      /\ LogAgrees(events, txs, SoFar, Version) /\ SettledBy(jobs, SoFar, lastTx)
  BY DEF CPInv
<1>3. /\ OpenRow \in txs /\ OpenRow.id = open.id /\ OpenRow.batch = open.batch
      /\ \A r \in txs : r.id = OpenRow.id => r = OpenRow
      /\ open.batch.ops \in Seq(OperationType)
      /\ Done \in Nat /\ Len(open.batch.ops) = Done + Len(open.todo)
      /\ SoFar = UpTo(txs, open.id, Done)
  BY <1>1, OpenRows
<1> HIDE DEF OpenRow, Done
<1>4. Len(open.batch.ops) = Done
  BY <1>1, <1>3
<1>5. SoFar' = SoFar
  <2>1. ASSUME NEW x \in Executed(txs), x.tx = open.id
        PROVE  x.pos <= Done
    <3>1. PICK r \in txs : /\ x.tx = r.id /\ x.pos \in DOMAIN r.batch.ops
      BY <1>2, EntryNumbers
    <3>2. r.batch = open.batch
      BY <1>3, <2>1, <3>1
    <3> QED
      BY <1>3, <1>4, <3>1, <3>2
  <2>2. SoFar = Executed(txs)
    BY <1>3, <2>1 DEF UpTo
  <2>3. SoFar' = Executed(txs')
    BY <1>1 DEF SoFar
  <2> QED
    BY <1>1, <2>2, <2>3
<1>6. \A s \in Streams : Version'[s] = Version[s]
  BY <1>1 DEF Version
<1>7. LogAgrees(events', txs', SoFar', Version')
  <2> HIDE DEF SoFar, Version
  <2> QED
    BY <1>1, <1>2, <1>5, <1>6 DEF LogAgrees
<1>8. CPTypes'
  <2>1. \A s \in Streams : StreamVersion(s) \in Nat
    <3>1. InProgress /\ streams \in [Streams -> Nat]
      BY <1>1 DEF CPInv, CPTypes
    <3> QED
      BY <3>1 DEF InProgress, StreamVersion
  <2> QED
    BY <1>1, <1>2, <2>1 DEF CPTypes
<1>9. IInv'
  BY <1>1, <1>2, JobTablesKept
<1> QED
  BY <1>1, <1>2, <1>5, <1>7, <1>8, <1>9 DEF CPInv

(* What becomes durable is the row of the transaction. *)
LEMMA PersistedRow ==
  ASSUME CPInv, Persist
  PROVE  /\ open # Closed /\ open.id \in TxIds
         /\ Durable' = txs /\ OpenRow \in txs
         /\ OpenRow.id = open.id /\ OpenRow.batch = open.batch
         /\ \A r \in txs : r.id = open.id => r = OpenRow
         /\ \A r : r.id # open.id => (r \in txs <=> r \in Durable)
<1>1. open # Closed /\ Durable' = txs /\ Durable = open.saved.txs
  BY DEF Persist, Durable
<1>2. /\ OpenRow \in txs /\ OpenRow.id = open.id /\ OpenRow.batch = open.batch
      /\ OpenRow.id \in TxIds /\ InProgress
      /\ \A r \in txs : r.id = OpenRow.id => r = OpenRow
  BY <1>1, OpenRows
<1>3. txs = open.saved.txs \cup {OpenRow}
  BY <1>2 DEF InProgress
<1> HIDE DEF OpenRow
<1> QED
  BY <1>1, <1>2, <1>3

(* COMMIT succeeds, and the client gets the receipt of its row. *)
LEMMA CommitInv ==
  ASSUME CPInv, Commit
  PROVE  CPInv' /\ SoFar' = SoFar
<1>1. PICK r \in RowsOf(open.id) : Answer(open.id, open.batch, Receipt(r))
  BY DEF Commit
<1>2. AnswersTrue /\ Persist /\ faults' = faults /\ r \in txs /\ r.id = open.id
  BY <1>1 DEF Commit, CPInv, RowsOf
<1>3. /\ open.id \in TxIds /\ Durable' = txs /\ r = OpenRow /\ r.batch = open.batch
      /\ \A h : h.id # open.id => (h \in txs <=> h \in Durable)
  BY <1>2, PersistedRow
<1>4. /\ DOMAIN sent' = TxIds /\ DOMAIN told' = TxIds
      /\ \A other \in TxIds : other # open.id =>
           sent'[other] = sent[other] /\ told'[other] = told[other]
      /\ sent'[open.id] = open.batch /\ told'[open.id] = Receipt(r)
  BY <1>1, <1>2, <1>3, Answered
<1>5. told'[open.id].result = "Receipt"
  BY <1>4 DEF Receipt
<1>6. AnswersTrue'
  <2> DEFINE id == open.id
  <2>1. \E h \in txs : h.id = id /\ h.batch = sent'[id] /\ told'[id] = Receipt(h)
    BY <1>2, <1>3, <1>4
  <2> HIDE DEF id
  <2>2. id = open.id
    BY DEF id
  <2> QED
    BY <1>2, <1>3, <1>4, <1>5, <2>1, <2>2, AnswerGiven
<1> QED
  BY <1>2, <1>6, PersistInv DEF CPInv, CPTypes

(* COMMIT persists but its client learns only that it may have. *)
LEMMA CommitUnsureInv ==
  ASSUME CPInv, CommitUnsure
  PROVE  CPInv' /\ SoFar' = SoFar
<1> DEFINE answer == [result |-> "Indeterminate"]
<1>1. AnswersTrue /\ Persist /\ Fault /\ Answer(open.id, open.batch, answer)
  BY DEF CommitUnsure, Fault, CPInv
<1>2. /\ open.id \in TxIds /\ Durable' = txs
      /\ \A r \in txs : r.id = open.id => r.batch = open.batch
      /\ \A h : h.id # open.id => (h \in txs <=> h \in Durable)
  BY <1>1, PersistedRow
<1>3. /\ DOMAIN sent' = TxIds /\ DOMAIN told' = TxIds
      /\ \A other \in TxIds : other # open.id =>
           sent'[other] = sent[other] /\ told'[other] = told[other]
      /\ sent'[open.id] = open.batch /\ told'[open.id].result = "Indeterminate"
  BY <1>1, <1>2, Answered
<1>4. AnswersTrue'
  <2> DEFINE id == open.id
  <2>1. \A r \in txs : r.id = id => r.batch = sent'[id]
    BY <1>2, <1>3
  <2> HIDE DEF id
  <2>2. id = open.id
    BY DEF id
  <2> QED
    BY <1>1, <1>2, <1>3, <2>1, <2>2, AnswerGiven
<1> QED
  BY <1>1, <1>4, PersistInv, FaultCounted

----------------------------------------------------------------------------
(* The calls that write no batch                                           *)

(* Calls that only answer their client, and stuttering. *)
LEMMA TablesKept ==
  ASSUME CPInv, UNCHANGED <<vars, logVars, open, faults>>, AnswersTrue'
  PROVE  CPInv'
<1>1. /\ jobs' = jobs /\ lastSeq' = lastSeq /\ active' = active /\ cursor' = cursor
      /\ receipts' = receipts /\ claimTxs' = claimTxs /\ lastTx' = lastTx /\ lost' = lost
      /\ streams' = streams /\ events' = events /\ versions' = versions /\ txs' = txs
      /\ open' = open /\ faults' = faults
  BY DEF vars, logVars
<1>2. IInv' /\ CPTypes' /\ RowsOk(txs', claimTxs', lastTx')
  BY <1>1, JobTablesKept DEF CPInv, CPTypes
<1>3. SoFar' = SoFar /\ Version' = Version /\ OpenRow' = OpenRow /\ Done' = Done
  BY <1>1 DEF SoFar, Version, StreamVersion, OpenRow, Done
<1>4. LogAgrees(events', txs', SoFar', Version') /\ SettledBy(jobs', SoFar', lastTx')
  BY <1>1, <1>3 DEF CPInv
<1>5. ASSUME open # Closed
      PROVE  InProgress' /\ Restorable'
  <2>1. InProgress /\ Restorable
    BY <1>5 DEF CPInv
  <2>2. Saved!IInv'
    BY <1>1, <2>1, SavedWhileOpen DEF Restorable
  <2>3. InProgress'
    BY <1>1, <1>3, <2>1 DEF InProgress
  <2> QED
    BY <1>1, <2>1, <2>2, <2>3 DEF Restorable
<1> QED
  BY <1>1, <1>2, <1>4, <1>5 DEF CPInv

(* A resubmitted batch gets the receipt of its own row. *)
LEMMA ResubmitInv ==
  ASSUME CPInv, NEW id \in TxIds, NEW b, Resubmit(id, b)
  PROVE  CPInv'
<1>1. PICK r \in RowsOf(id) : SameContent(r, b) /\ Answer(id, b, Receipt(r))
  BY DEF Resubmit
<1>2. /\ AnswersTrue /\ r \in txs /\ r.id = id /\ r.batch = b
      /\ UNCHANGED <<vars, logVars, open, faults>> /\ open = Closed
  BY <1>1 DEF Resubmit, CPInv, RowsOf, SameContent
<1>3. Durable' = txs /\ Durable = txs
  BY <1>2 DEF Durable, logVars
<1>4. /\ DOMAIN sent' = TxIds /\ DOMAIN told' = TxIds
      /\ \A other \in TxIds : other # id =>
           sent'[other] = sent[other] /\ told'[other] = told[other]
      /\ sent'[id] = b /\ told'[id] = Receipt(r)
  BY <1>1, <1>2, Answered
<1>5. told'[id].result = "Receipt"
  BY <1>4 DEF Receipt
<1>6. \E h \in txs : h.id = id /\ h.batch = sent'[id] /\ told'[id] = Receipt(h)
  BY <1>2, <1>4
<1>7. AnswersTrue'
  BY <1>2, <1>3, <1>4, <1>5, <1>6, AnswerGiven
<1> QED
  BY <1>2, <1>7, TablesKept

(* A client that asks after an indeterminate outcome learns what became of  *)
(* the batch that it sent.                                                  *)
LEMMA RecoverInv ==
  ASSUME CPInv, NEW id \in TxIds, RecoverTransaction(id)
  PROVE  CPInv'
<1> DEFINE result == IF RowsOf(id) = {} THEN [result |-> "Absent"]
                     ELSE Receipt(CHOOSE r \in RowsOf(id) : TRUE)
<1>1. /\ AnswersTrue /\ open = Closed /\ told[id].result = "Indeterminate"
      /\ UNCHANGED <<vars, logVars, open, faults>> /\ sent' = sent
      /\ told' = [told EXCEPT ![id] = result]
  BY DEF RecoverTransaction, CPInv
<1>2. Durable' = txs /\ Durable = txs
  BY <1>1 DEF Durable, logVars
<1>3. /\ DOMAIN sent' = TxIds /\ DOMAIN told' = TxIds
      /\ \A other \in TxIds : other # id =>
           sent'[other] = sent[other] /\ told'[other] = told[other]
      /\ told'[id] = result
  BY <1>1 DEF AnswersTrue
<1>4. \A r \in txs : r.id = id => r.batch = sent[id]
  BY <1>1, <1>2 DEF AnswersTrue
<1>5. CASE RowsOf(id) = {}
  <2>1. told'[id].result = "Absent" /\ \A r \in txs : r.id # id
    BY <1>3, <1>5 DEF RowsOf
  <2> HIDE DEF result
  <2>2. AnswersTrue'
    BY <1>1, <1>2, <1>3, <2>1, AnswerGiven
  <2> QED
    BY <1>1, <2>2, TablesKept
<1>6. CASE RowsOf(id) # {}
  <2> DEFINE r == CHOOSE h \in RowsOf(id) : TRUE
  <2>1. r \in RowsOf(id)
    BY <1>6
  <2>2. told'[id] = Receipt(r)
    BY <1>3, <1>6
  <2> HIDE DEF r, result
  <2>3. told'[id].result = "Receipt"
    BY <2>2 DEF Receipt
  <2>4. \E h \in txs : h.id = id /\ h.batch = sent'[id] /\ told'[id] = Receipt(h)
    BY <1>1, <1>4, <2>1, <2>2 DEF RowsOf
  <2>5. AnswersTrue'
    BY <1>1, <1>2, <1>3, <2>3, <2>4, AnswerGiven
  <2> QED
    BY <1>1, <2>5, TablesKept
<1> QED
  BY <1>5, <1>6

(* A claim adds a transaction row of its own. *)
LEMMA ClaimRowInv ==
  ASSUME CPInv, NEW q \in Queues, NEW w \in Workers, NEW now \in Times,
         NEW len \in LeaseLengths, NEW limit \in ClaimLimits, Claim(q, w, now, len, limit)
  PROVE  CPInv' /\ SoFar' = SoFar
<1> DEFINE row == [id |-> lastTx + 1, seq |-> NextSequence, batch |-> NULL]
<1>1. /\ open = Closed /\ open' = open /\ ClaimJobs(q, w, now, len, limit)
      /\ txs' = txs \cup {row}
      /\ streams' = streams /\ events' = events /\ versions' = versions
      /\ sent' = sent /\ told' = told /\ faults' = faults
  BY DEF Claim, clientVars
<1>2. /\ IInv /\ CPTypes /\ RowsOk(txs, claimTxs, lastTx) /\ lastTx \in Nat
      /\ LogAgrees(events, txs, SoFar, Version) /\ SettledBy(jobs, SoFar, lastTx)
      /\ AnswersTrue
  BY DEF CPInv, IInv, TypeOK
<1>3. /\ row.id = lastTx + 1 /\ row.batch = NULL /\ row.seq = Cardinality(txs) + 1
      /\ Cardinality(txs) \in Nat
  BY <1>2, NextInSequence
<1> HIDE DEF row
<1>4. IInv'
  BY <1>1, <1>2, ClaimInv
<1>5. /\ SettledBy(jobs', SoFar, lastTx')
      /\ lastTx' = lastTx + 1 /\ claimTxs' = claimTxs \cup {lastTx + 1}
  BY <1>1, <1>2, ClaimSettles
<1>6. row.id \notin TxIds /\ row.id \in 1..lastTx'
  BY <1>2, <1>3, <1>5, ControlPlaneAssumption
<1>7. /\ RowsOk(txs', claimTxs', lastTx')
      /\ \A r \in txs : r.seq \in Nat /\ r.seq < row.seq
  <2>1. \A r \in txs : r.id # row.id
    <3> TAKE r \in txs
    <3>1. r.id \in TxIds \/ r.id \in 1..lastTx
      BY <1>2 DEF RowsOk
    <3> QED
      BY <1>2, <1>3, <1>6, <3>1
  <2>2. \A n \in claimTxs' : n \in claimTxs \/ n = row.id
    BY <1>3, <1>5
  <2>3. lastTx' \in Nat /\ lastTx <= lastTx'
    BY <1>2, <1>5
  <2>4. \/ row.id \in TxIds /\ row.batch \in BatchType
        \/ row.id \in 1..lastTx' /\ row.batch = NULL
    BY <1>3, <1>6
  <2> DEFINE last2 == lastTx'
             claims2 == claimTxs'
  <2>5. /\ last2 \in Nat /\ lastTx <= last2
        /\ \A n \in claims2 : n \in claimTxs \/ n = row.id
        /\ \/ row.id \in TxIds /\ row.batch \in BatchType
           \/ row.id \in 1..last2 /\ row.batch = NULL
    BY <2>2, <2>3, <2>4
  <2> HIDE DEF last2, claims2
  <2>6. /\ RowsOk(txs \cup {row}, claims2, last2)
        /\ \A r \in txs : r.seq \in Nat /\ r.seq < row.seq
    BY <1>2, <1>3, <2>1, <2>5, RowAdded
  <2> QED
    BY <1>1, <2>6 DEF last2, claims2
<1>8. SoFar' = SoFar
  <2>1. SoFar = Executed(txs) /\ SoFar' = Executed(txs')
    BY <1>1 DEF SoFar
  <2> QED
    BY <1>1, <1>6, <2>1, ClaimsExecuteNothing
<1>9. Version' = Version
  BY <1>1 DEF Version
<1>10. LogAgrees(events', txs', SoFar', Version')
  <2>1. events \in Seq(EventType) /\ FoundAsExpected(events, txs) /\ Owned(events, txs)
    BY <1>2 DEF LogAgrees
  <2>2. row.seq \in Nat
    BY <1>3
  <2>3. FoundAsExpected(events, txs \cup {row}) /\ Owned(events, txs \cup {row})
    BY <1>6, <1>7, <2>1, <2>2, FoundWhenAdded
  <2> HIDE DEF SoFar, Version
  <2> QED
    BY <1>1, <1>2, <1>8, <1>9, <2>3 DEF LogAgrees
<1>11. AnswersTrue'
  <2>1. Durable = txs /\ Durable' = txs'
    BY <1>1 DEF Durable
  <2>2. \A id \in TxIds : \A r : r.id = id => (r \in Durable' <=> r \in Durable)
    BY <1>1, <1>6, <2>1
  <2> QED
    BY <1>1, <1>2, <2>2 DEF AnswersTrue, Receipt
<1>12. CPTypes'
  BY <1>1, <1>2 DEF CPTypes
<1> QED
  BY <1>1, <1>4, <1>5, <1>7, <1>8, <1>10, <1>11, <1>12 DEF CPInv

(* Extending a lease outside a batch. *)
LEMMA LeaseCallInv ==
  ASSUME CPInv, NEW jt \in Issued, NEW newExpiry \in Times, NEW now \in Times,
         LeaseCall(jt[1], jt[2], newExpiry, now)
  PROVE  CPInv'
<1>1. /\ open = Closed /\ open' = open /\ ExtendLease(jt[1], jt[2], newExpiry, now)
      /\ streams' = streams /\ events' = events /\ versions' = versions /\ txs' = txs
      /\ sent' = sent /\ told' = told /\ faults' = faults
  BY DEF LeaseCall, logVars, clientVars
<1>2. jt[1] \in JobIds /\ jt[2] \in Tokens
  BY DEF Issued, CPInv, IInv, TypeOK, ReceiptType
<1>3. IInv'
  BY <1>1, <1>2, ExtendInv DEF CPInv
<1>4. claimTxs' = claimTxs /\ lastTx' = lastTx
  BY <1>1 DEF ExtendLease
<1>5. SoFar' = SoFar /\ Version' = Version /\ Durable' = Durable
  BY <1>1 DEF SoFar, Version, Durable
<1>6. SettledBy(jobs', SoFar', lastTx')
  <2> HIDE DEF SoFar
  <2>1. SettledBy(jobs, SoFar, lastTx) /\ IInv
    BY DEF CPInv
  <2>2. SettledBy(jobs', SoFar, lastTx')
    BY <1>1, <2>1, ExtensionSettles
  <2> QED
    BY <1>5, <2>2
<1>7. AnswersTrue'
  BY <1>1, <1>5 DEF CPInv, AnswersTrue
<1> QED
  BY <1>1, <1>3, <1>4, <1>5, <1>6, <1>7 DEF CPInv, CPTypes

----------------------------------------------------------------------------
(* The invariant of the specification                                      *)

(* The empty database satisfies the invariant. *)
LEMMA CPInitInv == CPInit => CPInv
<1> SUFFICES ASSUME CPInit PROVE CPInv
  OBVIOUS
<1>1. /\ Init /\ IInv /\ txs = {} /\ events = <<>> /\ open = Closed
      /\ streams = [s \in Streams |-> 0] /\ lastTx = 0 /\ claimTxs = {} /\ DOMAIN jobs = {}
      /\ faults = 0 /\ versions = [p \in Projections |-> 0]
  BY InitInv DEF CPInit, Init
<1>2. CPTypes
  BY <1>1, ControlPlaneAssumption DEF CPTypes
<1>3. RowsOk(txs, claimTxs, lastTx)
  <2>1. IsFiniteSet({}) /\ Cardinality({}) = 0
    BY FS_EmptySet
  <2>2. {r.seq : r \in {}} = 1..0
    OBVIOUS
  <2> QED
    BY <1>1, <2>1, <2>2 DEF RowsOk
<1>4. SoFar = {}
  <2>1. \A x : x \notin Executed(txs)
    BY <1>1, ExecutedEntries
  <2> QED
    BY <2>1 DEF SoFar
<1>5. \A s \in Streams : Version[s] = 0
  BY <1>1 DEF Version
<1>6. LogAgrees(events, txs, SoFar, Version)
  <2>1. /\ events \in Seq(EventType) /\ Len(events) = 0 /\ DOMAIN events = {}
        /\ \A s : Positions(events, s, Len(events)) = {}
    BY <1>1 DEF Positions
  <2>2. IsFiniteSet({}) /\ Cardinality({}) = 0
    BY FS_EmptySet
  <2>3. Appends({}) = {}
    BY DEF Appends
  <2>4. LogOf(events, {})
    BY <2>1, <2>2, <2>3 DEF LogOf
  <2>5. \A s \in Streams : CountedBy(events, s, 0)
    BY <2>1, <2>2 DEF CountedBy
  <2> HIDE DEF Version, SoFar
  <2>6. \A s \in Streams : CountedBy(events, s, Version[s])
    BY <1>5, <2>5
  <2>7. NumberedBy(events) /\ Owned(events, txs) /\ FoundAsExpected(events, txs)
    BY <1>1, <2>1 DEF NumberedBy, Owned, FoundAsExpected
  <2> QED
    BY <1>4, <2>1, <2>2, <2>4, <2>6, <2>7 DEF LogAgrees
<1>7. SettledBy(jobs, SoFar, lastTx)
  <2>1. Settlements({}) = {} /\ \A j : Successes({}, j) = {}
    BY DEF Settlements, Successes
  <2> HIDE DEF SoFar
  <2> QED
    BY <1>1, <1>4, <2>1 DEF SettledBy
<1>8. AnswersTrue
  <2>1. Durable = {}
    BY <1>1 DEF Durable
  <2>2. \A id \in TxIds : told[id].result = "Nothing"
    BY DEF CPInit
  <2>3. DOMAIN sent = TxIds /\ DOMAIN told = TxIds
    BY DEF CPInit
  <2> QED
    BY <2>1, <2>2, <2>3 DEF AnswersTrue
<1> QED
  BY <1>1, <1>2, <1>3, <1>6, <1>7, <1>8 DEF CPInv

(* Every step preserves the invariant. *)
LEMMA CPNextInv == BatchesTyped /\ CPInv /\ [CPNext]_cpVars => CPInv'
<1> SUFFICES ASSUME BatchesTyped, CPInv, [CPNext]_cpVars PROVE CPInv'
  OBVIOUS
<1>1. ASSUME UNCHANGED cpVars
      PROVE  CPInv'
  <2>1. UNCHANGED <<vars, logVars, open, faults>> /\ sent' = sent /\ told' = told
    BY <1>1 DEF cpVars, clientVars
  <2>2. Durable' = Durable
    BY <2>1 DEF Durable, logVars
  <2>3. AnswersTrue'
    BY <2>1, <2>2 DEF CPInv, AnswersTrue
  <2> QED
    BY <2>1, <2>3, TablesKept
<1> QED
  BY <1>1, BeginInv, ResubmitInv, OperateInv, OperationFailsInv, CommitInv, CommitUnsureInv,
     CommitLostInv, RecoverInv, ClaimRowInv, LeaseCallInv DEF CPNext

(* The inductive invariant holds at every point of every transaction. *)
THEOREM ControlPlaneInvariant ==
  ASSUME BatchesTyped PROVE CPSpec => []CPInv
<1>1. CPInv /\ [CPNext]_cpVars => CPInv'
  BY CPNextInv
<1> QED
  BY CPInitInv, <1>1, PTL DEF CPSpec

----------------------------------------------------------------------------
(* What follows                                                            *)

(* The job tables are as sound in the middle of a batch as in a store that  *)
(* executes every operation by itself: partitions in order, attempts        *)
(* bounded, active partitions exact, receipts truthful.                     *)
THEOREM JobTablesInBatches ==
  ASSUME BatchesTyped
  PROVE  CPSpec => [](PartitionFIFO /\ ActivePartitionsExact /\ AttemptsBounded
                        /\ LeaseColumns /\ ReceiptsTruthful)
<1>1. CPInv => /\ PartitionFIFO /\ ActivePartitionsExact /\ AttemptsBounded
               /\ LeaseColumns /\ ReceiptsTruthful
  BY DEF CPInv, IInv
<1> QED
  BY <1>1, ControlPlaneInvariant, PTL

(* While no transaction is in progress, all rows of clients are of batches  *)
(* that have been executed to the end.                                      *)
LEMMA NothingInProgress ==
  ASSUME CPInv, open = Closed
  PROVE  /\ SoFar = Executed(txs)
         /\ \A s \in Streams : Version[s] = streams[s]
         /\ Durable = txs
BY DEF SoFar, Version, Durable

(* Every committed batch is in the event log whole, once, and in the order  *)
(* of the transactions, whatever COMMITs failed and clients resubmitted.    *)
THEOREM LogHoldsCommittedBatches ==
  ASSUME BatchesTyped PROVE CPSpec => []LogIsCommittedBatches
<1>1. CPInv => LogIsCommittedBatches
  <2> SUFFICES ASSUME CPInv PROVE LogIsCommittedBatches
    OBVIOUS
  <2>1. CPTypeOK
    <3>1. TypeOK /\ CPTypes /\ RowsOk(txs, claimTxs, lastTx) /\ events \in Seq(EventType)
      BY DEF CPInv, IInv, LogAgrees
    <3> QED
      BY <3>1 DEF CPTypeOK, CPTypes, RowsOk
  <2>2. open = Closed => LogOf(events, Executed(txs))
    BY NothingInProgress DEF CPInv, LogAgrees
  <2> QED
    BY <2>1, <2>2 DEF LogIsCommittedBatches
<1> QED
  BY <1>1, ControlPlaneInvariant, PTL

(* The versions of every stream are 1, 2, 3, ... in the order of the log,   *)
(* and the stream row holds the last.                                       *)
THEOREM VersionsAreContiguous ==
  ASSUME BatchesTyped PROVE CPSpec => []StreamVersionsContiguous
<1>1. CPInv => StreamVersionsContiguous
  <2> SUFFICES ASSUME CPInv, open = Closed
               PROVE  /\ \A s \in Streams :
                           streams[s] = Cardinality(Positions(events, s, Len(events)))
                      /\ \A i \in DOMAIN events :
                           events[i].version = Cardinality(Positions(events, events[i].stream, i))
    BY DEF StreamVersionsContiguous
  <2>1. NumberedBy(events) /\ \A s \in Streams : CountedBy(events, s, Version[s])
    BY DEF CPInv, LogAgrees
  <2>2. \A s \in Streams : Version[s] = streams[s]
    BY NothingInProgress
  <2> HIDE DEF Version
  <2> QED
    BY <2>1, <2>2 DEF NumberedBy, CountedBy
<1> QED
  BY <1>1, ControlPlaneInvariant, PTL

(* Every committed batch found each stream it named at the version that it  *)
(* expected.                                                                *)
THEOREM ExpectationsWereMet ==
  ASSUME BatchesTyped PROVE CPSpec => []ExpectedVersionsHeld
<1>1. CPInv => ExpectedVersionsHeld
  BY DEF CPInv, LogAgrees, FoundAsExpected, ExpectedVersionsHeld
<1> QED
  BY <1>1, ControlPlaneInvariant, PTL

(* No answer that a client has had about its transaction is ever untrue.    *)
THEOREM AnswersAreTruthful ==
  ASSUME BatchesTyped PROVE CPSpec => []ToldTruthful
<1>1. CPInv => ToldTruthful
  <2> SUFFICES ASSUME CPInv, open = Closed, NEW id \in TxIds
               PROVE  /\ told[id].result = "Receipt" =>
                           \E r \in RowsOf(id) : r.batch = sent[id] /\ told[id] = Receipt(r)
                      /\ told[id].result \in {"Nothing", "Absent"} => RowsOf(id) = {}
    BY DEF ToldTruthful
  <2>1. Durable = txs
    BY NothingInProgress
  <2> QED
    BY <2>1 DEF CPInv, AnswersTrue, RowsOf
<1> QED
  BY <1>1, ControlPlaneInvariant, PTL

(* A job succeeds by one committed operation, and a lease is settled by at  *)
(* most one: the events committed with an acknowledgement are recorded      *)
(* once, however many workers have executed the job.                        *)
THEOREM JobsSettledOnce ==
  ASSUME BatchesTyped PROVE CPSpec => []SettledOnce
<1>1. CPInv => SettledOnce
  <2> SUFFICES ASSUME CPInv, open = Closed
               PROVE  /\ \A j \in JobIds :
                           IF j \in DOMAIN jobs /\ jobs[j].state = "Succeeded"
                           THEN Cardinality(Successes(Executed(txs), j)) = 1
                           ELSE Successes(Executed(txs), j) = {}
                      /\ \A x, y \in Settlements(Executed(txs)) :
                           x.op.token = y.op.token => x = y
    BY DEF SettledOnce
  <2>1. SettledBy(jobs, Executed(txs), lastTx)
    BY NothingInProgress DEF CPInv
  <2>2. \A x : Cardinality({x}) = 1
    BY FS_Singleton
  <2> QED
    BY <2>1, <2>2 DEF SettledBy
<1> QED
  BY <1>1, ControlPlaneInvariant, PTL

(* What MAX(version) finds for a stream is what its row says. *)
LEMMA LastVersion ==
  ASSUME NEW log \in Seq(EventType), NEW s, NEW n \in Nat, CountedBy(log, s, n)
  PROVE  n = Max({0} \cup {e.version : e \in {f \in Range(log) : f.stream = s}})
<1> DEFINE S == {0} \cup {e.version : e \in {f \in Range(log) : f.stream = s}}
<1>1. \A v : v \in S <=> v = 0 \/ \E i \in DOMAIN log : log[i].stream = s /\ log[i].version = v
  BY DEF Range
<1>2. \A i \in DOMAIN log : log[i].version \in Nat
  <2>1. \A i \in DOMAIN log : log[i] \in EventType
    OBVIOUS
  <2> QED
    BY <2>1 DEF EventType
<1> HIDE DEF S
<1>3. n \in S /\ \A v \in S : n >= v
  BY <1>1, <1>2 DEF CountedBy
<1>4. \A v \in S : v \in Nat
  BY <1>1, <1>2
<1>5. \A x \in S : (\A v \in S : x >= v) => x = n
  BY <1>3, <1>4
<1>6. (CHOOSE x \in S : \A v \in S : x >= v) = n
  BY <1>3, <1>5
<1> QED
  BY <1>6 DEF Max, S

(* verify finds nothing wrong in a store that only the store has written.   *)
THEOREM VerifyIsSilent ==
  ASSUME BatchesTyped PROVE CPSpec => []VerifyReportsNothing
<1>1. CPInv => VerifyReportsNothing
  <2> SUFFICES ASSUME CPInv, open = Closed
               PROVE  SemanticFindings = {}
    BY DEF VerifyReportsNothing
  <2>1. IInv /\ CPTypes /\ RowsOk(txs, claimTxs, lastTx) /\ LogAgrees(events, txs, SoFar, Version)
    BY DEF CPInv
  <2>2. ASSUME NEW t \in Streams
        PROVE  streams[t] = Max({0} \cup {e.version : e \in {f \in Range(events) : f.stream = t}})
    <3>1. CountedBy(events, t, Version[t]) /\ events \in Seq(EventType)
      BY <2>1 DEF LogAgrees
    <3>2. Version[t] = streams[t] /\ streams[t] \in Nat
      BY <2>1, NothingInProgress DEF CPTypes
    <3> HIDE DEF Version
    <3> QED
      BY <3>1, <3>2, LastVersion
  <2>3. ASSUME NEW k \in DOMAIN jobs
        PROVE  /\ jobs[k].state \in TerminalStates =>
                    {jobs[k].token, jobs[k].worker, jobs[k].expiry} = {NULL}
               /\ jobs[k].state = "Leased" =>
                    NULL \notin {jobs[k].token, jobs[k].worker, jobs[k].expiry}
    BY <2>1 DEF IInv, LeaseColumns, TerminalStates
  <2>4. ASSUME NEW ap \in active
        PROVE  ActiveIn(jobs, ap) # {}
    BY <2>1 DEF IInv, ActivePartitionsExact, ActiveIn, InPartition
  <2>5. ASSUME NEW c \in receipts
        PROVE  c.job \in DOMAIN jobs /\ RowsOf(c.tx) # {}
    BY <2>1 DEF IInv, ReceiptsTruthful, RowsOk, RowsOf
  <2>6. {t \in Streams :
           streams[t] # Max({0} \cup {e.version : e \in {f \in Range(events) : f.stream = t}})} = {}
    BY <2>2
  <2>7. {k \in DOMAIN jobs :
           /\ jobs[k].state \in TerminalStates
           /\ {jobs[k].token, jobs[k].worker, jobs[k].expiry} # {NULL}} = {}
    BY <2>3
  <2>8. {ap \in active : ActiveIn(jobs, ap) = {}} = {}
    BY <2>4
  <2>9. {k \in DOMAIN jobs :
           /\ jobs[k].state = "Leased"
           /\ NULL \in {jobs[k].token, jobs[k].worker, jobs[k].expiry}} = {}
    BY <2>3
  <2>10. {c \in receipts : c.job \notin DOMAIN jobs \/ RowsOf(c.tx) = {}} = {}
    BY <2>5
  <2> QED
    BY <2>6, <2>7, <2>8, <2>9, <2>10 DEF SemanticFindings
<1> QED
  BY <1>1, ControlPlaneInvariant, PTL

----------------------------------------------------------------------------
(* Projections: the loops of a patch over its mutations and entries        *)

(* A set of naturals has a least element. *)
LEMMA LeastNat ==
  ASSUME NEW T \in SUBSET Nat, T # {}
  PROVE  \E n \in T : \A m \in T : n <= m
<1> DEFINE R == OpToRel(<, Nat)
<1>1. IsWellFoundedOn(R, Nat)
  BY NatLessThanWellFounded
<1>2. \A x, y \in Nat : y < x => <<y, x>> \in R
  BY DEF OpToRel
<1> HIDE DEF R
<1>3. PICK n \in T : \A m \in T : ~ (<<m, n>> \in R)
  BY <1>1, WFMin
<1>4. \A m \in T : n <= m
  <2> TAKE m \in T
  <2>1. n \in Nat /\ m \in Nat /\ ~ (m < n)
    BY <1>2, <1>3
  <2> QED
    BY <2>1
<1> QED
  BY <1>3, <1>4

(* Induction up to N: what holds of 0 and of each successor. *)
LEMMA UpToInduction ==
  ASSUME NEW T, NEW N \in Nat, 0 \in T, \A n \in 1..N : n - 1 \in T => n \in T
  PROVE  \A n \in 0..N : n \in T
<1> DEFINE B == {n \in 0..N : n \notin T}
<1> SUFFICES ASSUME B # {} PROVE FALSE
  OBVIOUS
<1>1. PICK b \in B : \A m \in B : b <= m
  <2>1. B \in SUBSET Nat
    OBVIOUS
  <2> QED
    BY <2>1, LeastNat
<1>2. b \in 1..N /\ b - 1 \in 0..N /\ ~(b <= b - 1)
  BY <1>1
<1>3. b - 1 \in T
  BY <1>1, <1>2
<1> QED
  BY <1>1, <1>2, <1>3

(* f[n] is the value of a loop over values of V after n of its N steps *)
IsLoop(f, N, V, base, step) ==
  /\ f \in [0..N -> V]
  /\ f[0] = base
  /\ \A n \in 1..N : f[n] = step[n][f[n - 1]]

(* Every loop has its values. *)
LEMMA Iteration ==
  ASSUME NEW N \in Nat, NEW V, NEW base \in V, NEW step \in [1..N -> [V -> V]]
  PROVE  \E f : IsLoop(f, N, V, base, step)
<1> DEFINE Upto(n, f) == /\ f \in [0..n -> V] /\ f[0] = base
                         /\ \A i \in 1..n : f[i] = step[i][f[i - 1]]
           T == {n \in 0..N : \E f : Upto(n, f)}
<1>1. 0 \in T
  <2>1. Upto(0, [i \in 0..0 |-> base])
    OBVIOUS
  <2> HIDE DEF Upto
  <2> QED
    BY <2>1
<1>2. ASSUME NEW n \in 1..N, n - 1 \in T
      PROVE  n \in T
  <2>1. PICK f : Upto(n - 1, f)
    BY <1>2
  <2> DEFINE g == [i \in 0..n |-> IF i = n THEN step[n][f[n - 1]] ELSE f[i]]
  <2>2. n - 1 \in 0..(n - 1) /\ \A i \in 0..n : i # n => i \in 0..(n - 1)
    OBVIOUS
  <2>3. step[n][f[n - 1]] \in V
    BY <2>1, <2>2
  <2>4. g \in [0..n -> V]
    BY <2>1, <2>2, <2>3
  <2>5. g[0] = base
    BY <2>1
  <2>6. ASSUME NEW i \in 1..n
        PROVE  g[i] = step[i][g[i - 1]]
    <3>1. i - 1 \in 0..n /\ i - 1 # n /\ g[i - 1] = f[i - 1]
      OBVIOUS
    <3>2. CASE i = n
      BY <3>1, <3>2
    <3>3. CASE i # n
      <4>1. i \in 1..(n - 1) /\ g[i] = f[i]
        BY <3>3
      <4> QED
        BY <2>1, <3>1, <4>1
    <3> QED
      BY <3>2, <3>3
  <2> HIDE DEF g
  <2>7. Upto(n, g)
    BY <2>4, <2>5, <2>6
  <2> QED
    BY <2>7
<1>3. N \in T
  <2> HIDE DEF T
  <2>1. \A n \in 0..N : n \in T
    BY <1>1, <1>2, UpToInduction
  <2> QED
    BY <2>1
<1> QED
  BY <1>3 DEF IsLoop

(* The rows of one projection *)
RowsType == [Keys -> Values \cup {NULL}]

(* PutEntries is a loop of PutEntry. *)
LEMMA PutEntriesLoops ==
  ASSUME NEW rows \in RowsType, NEW es \in Seq(EntryType)
  PROVE  \E f \in [0..Len(es) -> RowsType] :
           /\ f[0] = rows
           /\ \A n \in 1..Len(es) : f[n] = PutEntry(f[n - 1], es[n])
           /\ PutEntries(rows, es) = f[Len(es)]
<1> DEFINE L == Len(es)
           Put == [n \in 1..L |-> [r \in RowsType |-> PutEntry(r, es[n])]]
           Loop(g) == [n \in 0..L |-> IF n = 0 THEN rows ELSE PutEntry(g[n - 1], es[n])]
           put == CHOOSE g : g = Loop(g)
<1>1. L \in Nat /\ \A n \in 1..L : es[n] \in EntryType
  OBVIOUS
<1>2. \A n \in 1..L, r \in RowsType : PutEntry(r, es[n]) \in RowsType
  BY <1>1 DEF PutEntry, RowsType, EntryType
<1>3. Put \in [1..L -> [RowsType -> RowsType]]
  BY <1>2
<1> HIDE DEF L
<1>4. PICK f : /\ f \in [0..L -> RowsType]
               /\ f[0] = rows
               /\ \A n \in 1..L : f[n] = Put[n][f[n - 1]]
  <2> HIDE DEF Put
  <2>1. \E f : IsLoop(f, L, RowsType, rows, Put)
    BY <1>1, <1>3, Iteration
  <2> QED
    BY <2>1 DEF IsLoop
<1>5. \A n \in 1..L : n - 1 \in 0..L /\ f[n] = PutEntry(f[n - 1], es[n])
  <2> TAKE n \in 1..L
  <2>1. n - 1 \in 0..L
    BY <1>1
  <2>2. f[n - 1] \in RowsType /\ f[n] = Put[n][f[n - 1]]
    BY <1>4, <2>1
  <2> QED
    BY <2>1, <2>2
<1>6. f = Loop(f)
  <2>1. \A n \in 0..L : f[n] = IF n = 0 THEN rows ELSE PutEntry(f[n - 1], es[n])
    BY <1>1, <1>4, <1>5
  <2> QED
    BY <1>4, <2>1
<1>7. put = Loop(put)
  <2> HIDE DEF Loop
  <2> QED
    BY <1>6
<1>8. put[0] = rows /\ \A n \in 1..L : put[n] = PutEntry(put[n - 1], es[n])
  <2> HIDE DEF put
  <2> QED
    BY <1>1, <1>7
<1>9. \A n \in 0..L : n \in {m \in 0..L : put[m] = f[m]}
  <2> HIDE DEF put
  <2> DEFINE T == {m \in 0..L : put[m] = f[m]}
  <2>1. 0 \in T
    BY <1>1, <1>4, <1>8
  <2>2. \A n \in 1..L : n - 1 \in T => n \in T
    BY <1>1, <1>5, <1>8
  <2> HIDE DEF T
  <2>3. \A n \in 0..L : n \in T
    BY <1>1, <2>1, <2>2, UpToInduction
  <2> QED
    BY <2>3 DEF T
<1>10. PutEntries(rows, es) = put[L]
  BY DEF PutEntries, L
<1> HIDE DEF put
<1>11. PutEntries(rows, es) = f[L]
  BY <1>1, <1>9, <1>10
<1> QED
  BY <1>4, <1>5, <1>11 DEF L

(* A set of numbers up to n has a largest element, Max. *)
LEMMA MaxTaken ==
  ASSUME NEW n \in Nat, NEW S \in SUBSET (1..n), S # {}
  PROVE  Max(S) \in S /\ \A m \in S : m <= Max(S)
<1> DEFINE T == {k \in Nat : \A m \in S : m <= k}
<1>1. PICK k \in T : \A l \in T : k <= l
  <2>1. n \in T
    OBVIOUS
  <2>2. T \in SUBSET Nat
    OBVIOUS
  <2> QED
    BY <2>1, <2>2, LeastNat
<1>2. k \in Nat /\ \A m \in S : m \in Nat \ {0} /\ m <= k
  BY <1>1
<1>3. k \in S
  <2> SUFFICES ASSUME k \notin S PROVE FALSE
    OBVIOUS
  <2>1. k - 1 \in Nat /\ ~(k <= k - 1)
    <3>1. PICK m \in S : TRUE
      OBVIOUS
    <3>2. m \in Nat \ {0} /\ m <= k
      BY <1>2
    <3> QED
      BY <1>2, <3>2
  <2>2. \A m \in S : m <= k - 1
    BY <1>2
  <2> QED
    BY <1>1, <2>1, <2>2
<1> HIDE DEF T
<1>4. \A x \in S : (\A y \in S : x >= y) => x = k
  BY <1>2, <1>3
<1>5. (CHOOSE x \in S : \A y \in S : x >= y) = k
  BY <1>2, <1>3, <1>4
<1> QED
  BY <1>2, <1>3, <1>5 DEF Max

(* ApplyMutations is a loop of ApplyMutation. *)
LEMMA ApplyMutationsLoops ==
  ASSUME NEW rows \in RowsType, NEW ms \in Seq(MutationType),
         \A r \in RowsType : \A i \in 1..Len(ms) : ApplyMutation(r, ms[i]) \in RowsType
  PROVE  \E f \in [0..Len(ms) -> RowsType] :
           /\ f[0] = rows
           /\ \A n \in 1..Len(ms) : f[n] = ApplyMutation(f[n - 1], ms[n])
           /\ ApplyMutations(rows, ms) = f[Len(ms)]
<1> DEFINE L == Len(ms)
           Apply == [n \in 1..L |-> [r \in RowsType |-> ApplyMutation(r, ms[n])]]
           Loop(g) == [n \in 0..L |-> IF n = 0 THEN rows ELSE ApplyMutation(g[n - 1], ms[n])]
           after == CHOOSE g : g = Loop(g)
<1>1. L \in Nat
  OBVIOUS
<1>2. Apply \in [1..L -> [RowsType -> RowsType]]
  OBVIOUS
<1> HIDE DEF L
<1>3. PICK f : /\ f \in [0..L -> RowsType]
               /\ f[0] = rows
               /\ \A n \in 1..L : f[n] = Apply[n][f[n - 1]]
  <2> HIDE DEF Apply
  <2>1. \E f : IsLoop(f, L, RowsType, rows, Apply)
    BY <1>1, <1>2, Iteration
  <2> QED
    BY <2>1 DEF IsLoop
<1>4. \A n \in 1..L : n - 1 \in 0..L /\ f[n] = ApplyMutation(f[n - 1], ms[n])
  <2> TAKE n \in 1..L
  <2>1. n - 1 \in 0..L
    BY <1>1
  <2>2. f[n - 1] \in RowsType /\ f[n] = Apply[n][f[n - 1]]
    BY <1>3, <2>1
  <2> QED
    BY <2>1, <2>2
<1>5. f = Loop(f)
  <2>1. \A n \in 0..L : f[n] = IF n = 0 THEN rows ELSE ApplyMutation(f[n - 1], ms[n])
    BY <1>1, <1>3, <1>4
  <2> QED
    BY <1>3, <2>1
<1>6. after = Loop(after)
  <2> HIDE DEF Loop
  <2> QED
    BY <1>5
<1>7. after[0] = rows /\ \A n \in 1..L : after[n] = ApplyMutation(after[n - 1], ms[n])
  <2> HIDE DEF after
  <2> QED
    BY <1>1, <1>6
<1>8. \A n \in 0..L : n \in {m \in 0..L : after[m] = f[m]}
  <2> HIDE DEF after
  <2> DEFINE T == {m \in 0..L : after[m] = f[m]}
  <2>1. 0 \in T
    BY <1>1, <1>3, <1>7
  <2>2. \A n \in 1..L : n - 1 \in T => n \in T
    BY <1>1, <1>4, <1>7
  <2> HIDE DEF T
  <2>3. \A n \in 0..L : n \in T
    BY <1>1, <2>1, <2>2, UpToInduction
  <2> QED
    BY <2>3 DEF T
<1>9. ApplyMutations(rows, ms) = after[L]
  BY DEF ApplyMutations, L
<1> HIDE DEF after
<1>10. ApplyMutations(rows, ms) = f[L]
  BY <1>1, <1>8, <1>9
<1> QED
  BY <1>3, <1>4, <1>10 DEF L


(* Entries whose keys are distinct are what the rows are afterwards. *)
LEMMA EntriesInserted ==
  ASSUME NEW es \in Seq(EntryType),
         Cardinality({e.key : e \in Range(es)}) = Len(es)
  PROVE  /\ PutEntries(NoRows, es) \in RowsType
         /\ \A k \in Keys :
              PutEntries(NoRows, es)[k] =
                IF k \in {e.key : e \in Range(es)}
                THEN (CHOOSE e \in Range(es) : e.key = k).value ELSE NULL
<1> DEFINE L == Len(es)
           K == {e.key : e \in Range(es)}
           key == [i \in 1..L |-> es[i].key]
<1>1. /\ L \in Nat /\ DOMAIN es = 1..L
      /\ \A i \in 1..L : es[i] \in EntryType
  <2>1. es \in Seq(EntryType)
    OBVIOUS
  <2> QED
    BY ONLY <2>1
<1>2. NoRows \in RowsType
  BY DEF NoRows, RowsType
<1>3. PICK f : /\ f \in [0..L -> RowsType]
               /\ f[0] = NoRows
               /\ \A n \in 1..L : f[n] = PutEntry(f[n - 1], es[n])
               /\ PutEntries(NoRows, es) = f[L]
  BY <1>2, PutEntriesLoops
<1>4. \A i, j \in 1..L : es[i].key = es[j].key => i = j
  <2>1. key \in Surjection(1..L, K)
    BY <1>1 DEF Surjection, Range
  <2>2. IsFiniteSet(1..L) /\ Cardinality(1..L) = L
    <3> HIDE DEF L
    <3>1. /\ IsFiniteSet(1..L)
          /\ Cardinality(1..L) = IF 1 > L THEN 0 ELSE L - 1 + 1
      BY <1>1, FS_Interval
    <3> QED
      BY <1>1, <3>1
  <2>3. key \in Injection(1..L, K)
    BY <2>1, <2>2, FS_Surjection
  <2> QED
    BY <2>3 DEF Injection, IsInjective
<1> DEFINE Holds(n, k) == /\ \A i \in 1..n : es[i].key = k => f[n][k] = es[i].value
                          /\ (\A i \in 1..n : es[i].key # k) => f[n][k] = NULL
           T == {n \in 0..L : \A k \in Keys : Holds(n, k)}
<1>5. 0 \in T
  BY <1>1, <1>3 DEF NoRows
<1>6. ASSUME NEW n \in 1..L, n - 1 \in T
      PROVE  n \in T
  <2>1. n - 1 \in 0..L /\ \A k \in Keys : Holds(n - 1, k)
    BY <1>6
  <2>2. f[n - 1] \in RowsType /\ f[n] = [f[n - 1] EXCEPT ![es[n].key] = es[n].value]
    BY <1>3, <2>1 DEF PutEntry
  <2>3. \A i \in 1..n : i # n => i \in 1..(n - 1) /\ i \in 1..L
    BY <1>1
  <2>4. ASSUME NEW k \in Keys
        PROVE  Holds(n, k)
    <3>1. CASE es[n].key = k
      <4>1. f[n][k] = es[n].value
        BY <2>2, <3>1 DEF RowsType
      <4>2. \A i \in 1..n : es[i].key = k => i = n
        BY <1>1, <1>4, <2>3, <3>1
      <4> QED
        BY <1>1, <3>1, <4>1, <4>2
    <3>2. CASE es[n].key # k
      <4>1. f[n][k] = f[n - 1][k]
        BY <2>2, <3>2 DEF RowsType
      <4>2. \A i \in 1..(n - 1) : i \in 1..n
        BY <1>1
      <4> QED
        BY <2>1, <2>3, <3>2, <4>1, <4>2
    <3> QED
      BY <3>1, <3>2
  <2> HIDE DEF Holds
  <2> QED
    BY <2>4
<1>7. \A k \in Keys : Holds(L, k)
  <2> HIDE DEF T
  <2>1. \A n \in 0..L : n \in T
    BY <1>1, <1>5, <1>6, UpToInduction
  <2>2. L \in T
    BY <1>1, <2>1
  <2> HIDE DEF Holds
  <2> QED
    BY <2>2 DEF T
<1>8. ASSUME NEW k \in Keys
      PROVE  f[L][k] = IF k \in K THEN (CHOOSE e \in Range(es) : e.key = k).value ELSE NULL
  <2>1. CASE k \in K
    <3>1. PICK i \in 1..L : es[i].key = k
      BY <1>1, <2>1 DEF Range
    <3>2. f[L][k] = es[i].value
      BY <1>7, <3>1
    <3>3. es[i] \in Range(es) /\ \A e \in Range(es) : e.key = k => e = es[i]
      BY <1>1, <1>4, <3>1 DEF Range
    <3>4. (CHOOSE e \in Range(es) : e.key = k) = es[i]
      BY <3>1, <3>3
    <3> QED
      BY <2>1, <3>2, <3>4
  <2>2. CASE k \notin K
    <3>1. \A i \in 1..L : es[i].key # k
      BY <1>1, <2>2 DEF Range
    <3> QED
      BY <1>7, <2>2, <3>1
  <2> QED
    BY <2>1, <2>2
<1>9. f[L] \in RowsType
  BY <1>1, <1>3
<1> QED
  BY <1>3, <1>8, <1>9

(* The fields of a mutation are there for its kind. *)
LEMMA MutationFields ==
  ASSUME NEW m \in MutationType
  PROVE  /\ m.kind \in {"Put", "Delete", "Clear", "Replace"}
         /\ m.kind \in {"Put", "Delete"} => m.key \in Keys
         /\ m.kind = "Put" => m.value \in Values
         /\ m.kind = "Replace" => m.entries \in Seq(EntryType)
BY DEF MutationType

(* Each key of a Replace is there once *)
OnceEach(m) == m.kind = "Replace" => Cardinality(Touches(m)) = Len(m.entries)

(* A mutation sets key k, or clears it with all others *)
Concerns(m, k) == m.kind \in {"Clear", "Replace"} \/ k \in Touches(m)

(* Rows stay rows, with any mutation. *)
LEMMA MutationTyped ==
  ASSUME NEW rows \in RowsType, NEW m \in MutationType
  PROVE  ApplyMutation(rows, m) \in RowsType
<1>1. NoRows \in RowsType
  BY DEF NoRows, RowsType
<1>2. CASE m.kind = "Put"
  BY <1>2, MutationFields DEF ApplyMutation, PutEntry, RowsType
<1>3. CASE m.kind = "Delete"
  BY <1>3, MutationFields DEF ApplyMutation, RowsType
<1>4. CASE m.kind = "Clear"
  BY <1>1, <1>4 DEF ApplyMutation
<1>5. CASE m.kind = "Replace"
  <2>1. m.entries \in Seq(EntryType)
    BY <1>5, MutationFields
  <2>2. PICK f : f \in [0..Len(m.entries) -> RowsType] /\ PutEntries(NoRows, m.entries) = f[Len(m.entries)]
    BY <1>1, <2>1, PutEntriesLoops
  <2>3. Len(m.entries) \in 0..Len(m.entries)
    BY <2>1
  <2> QED
    BY <1>5, <2>2, <2>3 DEF ApplyMutation
<1> QED
  BY <1>2, <1>3, <1>4, <1>5, MutationFields

(* A mutation leaves its value of the keys it concerns, the others alone. *)
LEMMA MutationApplied ==
  ASSUME NEW rows \in RowsType, NEW m \in MutationType, OnceEach(m), NEW k \in Keys
  PROVE  ApplyMutation(rows, m)[k] = IF Concerns(m, k) THEN ValueLeft(m, k) ELSE rows[k]
<1>1. CASE m.kind = "Put"
  BY <1>1, MutationFields DEF ApplyMutation, PutEntry, RowsType, Concerns, ValueLeft, Touches
<1>2. CASE m.kind = "Delete"
  BY <1>2, MutationFields DEF ApplyMutation, RowsType, Concerns, ValueLeft, Touches
<1>3. CASE m.kind = "Clear"
  BY <1>3 DEF ApplyMutation, NoRows, Concerns, ValueLeft, Touches
<1>4. CASE m.kind = "Replace"
  <2>1. m.entries \in Seq(EntryType) /\ Touches(m) = {e.key : e \in Range(m.entries)}
    BY <1>4, MutationFields DEF Touches
  <2>2. PutEntries(NoRows, m.entries)[k] =
          IF k \in Touches(m) THEN (CHOOSE e \in Range(m.entries) : e.key = k).value ELSE NULL
    BY <1>4, <2>1, EntriesInserted DEF OnceEach
  <2> QED
    BY <1>4, <2>2 DEF ApplyMutation, Concerns, ValueLeft
<1> QED
  BY <1>1, <1>2, <1>3, <1>4, MutationFields

(* Of several mutations, the last one that concerns a key says what it is.  *)
LEMMA MutationsApplied ==
  ASSUME NEW rows \in RowsType, NEW ms \in Seq(MutationType),
         \A i \in DOMAIN ms : OnceEach(ms[i])
  PROVE  /\ ApplyMutations(rows, ms) \in RowsType
         /\ \A k \in Keys :
              ApplyMutations(rows, ms)[k] =
                IF Concerning(ms, k) = {} THEN rows[k]
                ELSE ValueLeft(ms[Max(Concerning(ms, k))], k)
<1> DEFINE L == Len(ms)
<1>1. L \in Nat /\ DOMAIN ms = 1..L /\ \A i \in 1..L : ms[i] \in MutationType
  <2>1. ms \in Seq(MutationType)
    OBVIOUS
  <2> QED
    BY ONLY <2>1
<1>2. PICK f : /\ f \in [0..L -> RowsType]
               /\ f[0] = rows
               /\ \A n \in 1..L : f[n] = ApplyMutation(f[n - 1], ms[n])
               /\ ApplyMutations(rows, ms) = f[L]
  BY <1>1, MutationTyped, ApplyMutationsLoops
<1> DEFINE Holds(n, k) ==
             /\ (\A i \in 1..n : ~Concerns(ms[i], k)) => f[n][k] = rows[k]
             /\ \A i \in 1..n : Concerns(ms[i], k) /\ (\A j \in (i + 1)..n : ~Concerns(ms[j], k))
                  => f[n][k] = ValueLeft(ms[i], k)
           T == {n \in 0..L : \A k \in Keys : Holds(n, k)}
<1>3. 0 \in T
  BY <1>1, <1>2
<1>4. ASSUME NEW n \in 1..L, n - 1 \in T
      PROVE  n \in T
  <2>1. n - 1 \in 0..L /\ \A k \in Keys : Holds(n - 1, k)
    BY <1>4
  <2>2. f[n - 1] \in RowsType /\ f[n] = ApplyMutation(f[n - 1], ms[n])
    BY <1>2, <2>1
  <2>3. n \in Nat /\ n \in 1..n /\ \A i \in 1..n : i # n => i \in 1..(n - 1)
    BY <1>1
  <2>4. ASSUME NEW k \in Keys
        PROVE  Holds(n, k)
    <3>1. f[n][k] = IF Concerns(ms[n], k) THEN ValueLeft(ms[n], k) ELSE f[n - 1][k]
      BY <1>1, <2>2, MutationApplied
    <3>2. (\A i \in 1..n : ~Concerns(ms[i], k)) => f[n][k] = rows[k]
      BY <2>1, <2>3, <3>1
    <3>3. ASSUME NEW i \in 1..n, Concerns(ms[i], k), \A j \in (i + 1)..n : ~Concerns(ms[j], k)
          PROVE  f[n][k] = ValueLeft(ms[i], k)
      <4>1. CASE i = n
        BY <3>1, <3>3, <4>1
      <4>2. CASE i # n
        <5>1. i \in 1..(n - 1) /\ n \in (i + 1)..n /\ \A j \in (i + 1)..(n - 1) : j \in (i + 1)..n
          BY <2>3, <4>2
        <5> QED
          BY <2>1, <3>1, <3>3, <5>1
      <4> QED
        BY <4>1, <4>2
    <3> QED
      BY <3>2, <3>3
  <2> HIDE DEF Holds
  <2> QED
    BY <2>4
<1>5. \A k \in Keys : Holds(L, k)
  <2> HIDE DEF T
  <2>1. \A n \in 0..L : n \in T
    BY <1>1, <1>3, <1>4, UpToInduction
  <2>2. L \in T
    BY <1>1, <2>1
  <2> HIDE DEF Holds
  <2> QED
    BY <2>2 DEF T
<1>6. ASSUME NEW k \in Keys
      PROVE  f[L][k] = IF Concerning(ms, k) = {} THEN rows[k]
                       ELSE ValueLeft(ms[Max(Concerning(ms, k))], k)
  <2> DEFINE C == Concerning(ms, k)
  <2>1. C \in SUBSET (1..L) /\ \A i \in 1..L : i \in C <=> Concerns(ms[i], k)
    BY <1>1 DEF Concerning, Concerns
  <2>2. Holds(L, k)
    BY <1>5
  <2> HIDE DEF C
  <2>3. CASE C = {}
    BY <2>1, <2>2, <2>3 DEF C
  <2>4. CASE C # {}
    <3> DEFINE i == Max(C)
    <3>1. i \in C /\ \A j \in C : j <= i
      BY <1>1, <2>1, <2>4, MaxTaken
    <3> HIDE DEF i
    <3>2. i \in 1..L /\ Concerns(ms[i], k)
      BY <2>1, <3>1
    <3>3. \A j \in (i + 1)..L : j \in 1..L /\ ~(j <= i)
      BY <1>1, <3>2
    <3>4. \A j \in (i + 1)..L : ~Concerns(ms[j], k)
      BY <2>1, <3>1, <3>3
    <3>5. f[L][k] = ValueLeft(ms[i], k)
      BY <2>2, <3>2, <3>4
    <3> QED
      BY <2>4, <3>5 DEF C, i
  <2> QED
    BY <2>3, <2>4
<1>7. f[L] \in RowsType
  BY <1>1, <1>2
<1> QED
  BY <1>2, <1>6, <1>7

----------------------------------------------------------------------------
(* Projections: the patches of the committed batches                       *)

(* Versions and entries are those that the patches among ops led to *)
Replayed(version, table, ops) ==
  /\ PatchesInOrder(version, ops)
  /\ table \in [Projections -> RowsType]
  /\ \A p \in Projections : EntriesReplayed(table[p], ops, p)

(* Only the patches of a projection matter to its entries. *)
LEMMA OtherPatches ==
  ASSUME NEW rows, NEW ops, NEW ops2, NEW p, EntriesReplayed(rows, ops, p),
         Patches(ops2, p) = Patches(ops, p)
  PROVE  EntriesReplayed(rows, ops2, p)
<1>1. \A k : PatchesOn(ops2, p, k) = PatchesOn(ops, p, k)
  BY DEF PatchesOn
<1> QED
  BY <1>1 DEF EntriesReplayed

(* Operations of other kinds are no patches. *)
LEMMA PatchSkipped ==
  ASSUME NEW version, NEW table, NEW ops, Replayed(version, table, ops),
         NEW x, x.op.kind # "ProjectionPatch"
  PROVE  Replayed(version, table, ops \cup {x})
<1>1. \A p : Patches(ops \cup {x}, p) = Patches(ops, p)
  BY DEF Patches
<1>2. PatchesInOrder(version, ops \cup {x})
  BY <1>1 DEF Replayed, PatchesInOrder
<1>3. \A p \in Projections : EntriesReplayed(table[p], ops \cup {x}, p)
  BY <1>1, OtherPatches DEF Replayed
<1> QED
  BY <1>2, <1>3 DEF Replayed

(* A patch that finds the version it expects is the next one. *)
LEMMA VersionAdvanced ==
  ASSUME NEW version \in [Projections -> Nat], NEW ops, IsFiniteSet(ops),
         PatchesInOrder(version, ops), NEW x, Later(x, ops),
         x.op.kind = "ProjectionPatch", NEW q \in Projections, x.op.projection = q,
         version[q] = x.op.expected, x.op.new = x.op.expected + 1
  PROVE  PatchesInOrder([version EXCEPT ![q] = x.op.new], ops \cup {x})
<1> DEFINE X == ops \cup {x}
           version2 == [version EXCEPT ![q] = x.op.new]
           Before(S, z) == {y \in S : Earlier(y, z)}
<1>1. x \notin ops /\ ~Earlier(x, x) /\ \A y \in ops : Earlier(y, x) /\ ~Earlier(x, y)
  BY DEF Later
<1>2. \A p : IsFiniteSet(Patches(ops, p)) /\ Cardinality(Patches(ops, p)) \in Nat
  BY FS_Subset, FS_CardinalityType DEF Patches
<1>3. \A p : p # q => Patches(X, p) = Patches(ops, p)
  BY DEF Patches
<1>4. Patches(X, q) = Patches(ops, q) \cup {x} /\ x \notin Patches(ops, q)
  BY <1>1 DEF Patches
<1>5. Cardinality(Patches(X, q)) = Cardinality(Patches(ops, q)) + 1
  BY <1>2, <1>4, FS_AddElement
<1>6. Before(Patches(X, q), x) = Patches(ops, q)
  BY <1>1, <1>4 DEF Patches
<1>7. \A y \in Patches(ops, q) : Before(Patches(X, q), y) = Before(Patches(ops, q), y)
  BY <1>1, <1>4 DEF Patches
<1>8. /\ \A p \in Projections : version[p] = Cardinality(Patches(ops, p))
      /\ \A p \in Projections : \A y \in Patches(ops, p) :
           y.op.expected = Cardinality(Before(Patches(ops, p), y))
  BY DEF PatchesInOrder
<1> HIDE DEF Before, X
<1>9. \A p \in Projections : version2[p] = Cardinality(Patches(X, p))
  <2> TAKE p \in Projections
  <2>1. CASE p = q
    BY <1>5, <1>8, <2>1
  <2>2. CASE p # q
    BY <1>3, <1>8, <2>2
  <2> QED
    BY <2>1, <2>2
<1>10. \A p \in Projections : \A y \in Patches(X, p) :
         y.op.expected = Cardinality(Before(Patches(X, p), y))
  <2> TAKE p \in Projections
  <2> TAKE y \in Patches(X, p)
  <2>1. CASE p # q
    BY <1>3, <1>8, <2>1
  <2>2. CASE p = q /\ y = x
    BY <1>6, <1>8, <2>2
  <2>3. CASE p = q /\ y # x
    <3>1. y \in Patches(ops, q)
      BY <1>4, <2>3
    <3> QED
      BY <1>7, <1>8, <2>3, <3>1
  <2> QED
    BY <2>1, <2>2, <2>3
<1> HIDE DEF version2
<1> QED
  BY <1>9, <1>10 DEF PatchesInOrder, X, Before, version2

(* The rows after a patch hold what it, or else a patch before it, left. *)
LEMMA EntriesPatched ==
  ASSUME NEW rows, NEW ops, NEW p, EntriesReplayed(rows, ops, p),
         NEW x, Later(x, ops), x.op.kind = "ProjectionPatch", x.op.projection = p,
         x.op.mutations \in Seq(MutationType),
         \A i \in DOMAIN x.op.mutations : OnceEach(x.op.mutations[i])
  PROVE  EntriesReplayed(ApplyMutations(rows, x.op.mutations), ops \cup {x}, p)
<1> DEFINE ms == x.op.mutations
           new == ApplyMutations(rows, ms)
           On(k) == PatchesOn(ops \cup {x}, p, k)
           LastOn(k, y) == /\ \A z \in On(k) \ {y} : Earlier(z, y)
                           /\ new[k] = ValueLeft(y.op.mutations[Max(Concerning(y.op.mutations, k))], k)
<1>1. x \notin ops /\ \A y \in ops : Earlier(y, x)
  BY DEF Later
<1>2. Patches(ops \cup {x}, p) = Patches(ops, p) \cup {x} /\ Patches(ops, p) \subseteq ops
  BY DEF Patches
<1>3. rows \in RowsType
  BY DEF EntriesReplayed, RowsType
<1>4. /\ new \in RowsType
      /\ \A k \in Keys : new[k] = IF Concerning(ms, k) = {} THEN rows[k]
                                  ELSE ValueLeft(ms[Max(Concerning(ms, k))], k)
  BY <1>3, MutationsApplied
<1> HIDE DEF new
<1>5. ASSUME NEW k \in Keys
      PROVE  (On(k) = {} /\ new[k] = NULL) \/ \E y \in On(k) : LastOn(k, y)
  <2>1. CASE Concerning(ms, k) = {}
    <3>1. On(k) = PatchesOn(ops, p, k)
      BY <1>2, <2>1 DEF PatchesOn
    <3>2. new[k] = rows[k]
      BY <1>4, <2>1
    <3> QED
      BY <3>1, <3>2 DEF EntriesReplayed
  <2>2. CASE Concerning(ms, k) # {}
    <3>1. x \in On(k) /\ \A z \in On(k) \ {x} : Earlier(z, x)
      BY <1>1, <1>2, <2>2 DEF PatchesOn
    <3>2. new[k] = ValueLeft(ms[Max(Concerning(ms, k))], k)
      BY <1>4, <2>2
    <3> QED
      BY <3>1, <3>2
  <2> QED
    BY <2>1, <2>2
<1> QED
  BY <1>4, <1>5 DEF EntriesReplayed, RowsType, new

(* A patch that the store applies goes on from the patches before it. *)
LEMMA PatchExecuted ==
  ASSUME NEW version \in [Projections -> Nat], NEW table, NEW ops, IsFiniteSet(ops),
         Replayed(version, table, ops), NEW x, Later(x, ops),
         x.op.kind = "ProjectionPatch", NEW q \in Projections, x.op.projection = q,
         version[q] = x.op.expected, x.op.mutations \in Seq(MutationType), ValidPatch(x.op)
  PROVE  Replayed([version EXCEPT ![q] = x.op.new],
                  [table EXCEPT ![q] = ApplyMutations(@, x.op.mutations)], ops \cup {x})
<1> DEFINE new == ApplyMutations(table[q], x.op.mutations)
           table2 == [table EXCEPT ![q] = new]
<1>1. x.op.new = x.op.expected + 1 /\ \A i \in DOMAIN x.op.mutations : OnceEach(x.op.mutations[i])
  BY DEF ValidPatch, OnceEach
<1>2. PatchesInOrder([version EXCEPT ![q] = x.op.new], ops \cup {x})
  BY <1>1, VersionAdvanced DEF Replayed
<1>3. EntriesReplayed(new, ops \cup {x}, q)
  BY <1>1, EntriesPatched DEF Replayed
<1>4. new \in RowsType /\ table \in [Projections -> RowsType]
  BY <1>3 DEF EntriesReplayed, RowsType, Replayed
<1>5. \A p : p # q => Patches(ops \cup {x}, p) = Patches(ops, p)
  BY DEF Patches
<1> HIDE DEF new
<1>6. ASSUME NEW p \in Projections
      PROVE  EntriesReplayed(table2[p], ops \cup {x}, p)
  <2>1. CASE p = q
    BY <1>3, <1>4, <2>1
  <2>2. CASE p # q
    <3>1. table2[p] = table[p] /\ EntriesReplayed(table[p], ops, p)
      BY <1>4, <2>2 DEF Replayed
    <3> QED
      BY <1>5, <2>2, <3>1, OtherPatches
  <2> QED
    BY <2>1, <2>2
<1>7. table2 \in [Projections -> RowsType]
  BY <1>4
<1> QED
  BY <1>2, <1>6, <1>7 DEF Replayed, new

(* In and between transactions the tables are those that the patches so far *)
(* led to, and so are those that a rollback leaves; the batch in progress   *)
(* has been validated.                                                      *)
PatchesInv ==
  /\ Replayed(versions, entries, SoFar)
  /\ open # Closed =>
       /\ Replayed(open.saved.versions, open.saved.entries, Executed(open.saved.txs))
       /\ ValidBatch(open.batch)

(* Steps that leave the tables, executed operations and transaction alone. *)
LEMMA PatchesKept ==
  ASSUME PatchesInv, versions' = versions, entries' = entries, SoFar' = SoFar,
         open' = open \/ open' = Closed
  PROVE  PatchesInv'
<1> HIDE DEF SoFar
<1>1. Replayed(versions', entries', SoFar')
  BY DEF PatchesInv
<1>2. open' # Closed => open' = open
  OBVIOUS
<1>3. open' # Closed =>
        /\ Replayed(open'.saved.versions, open'.saved.entries, Executed(open'.saved.txs))
        /\ ValidBatch(open'.batch)
  BY <1>2 DEF PatchesInv
<1> QED
  BY <1>1, <1>3 DEF PatchesInv, ValidBatch

(* Every step keeps the patches in order. *)
LEMMA PatchesNext ==
  ASSUME BatchesTyped, CPInv, PatchesInv, [CPNext]_cpVars
  PROVE  PatchesInv'
<1>1. ASSUME NEW id \in TxIds, NEW b \in Batches(Issued), Begin(id, b)
      PROVE  PatchesInv'
  <2>1. /\ open = Closed /\ ValidBatch(b) /\ versions' = versions /\ entries' = entries
        /\ SoFar' = SoFar /\ TypeOK
    BY <1>1, BeginInv DEF Begin, CPInv, IInv
  <2>2. open'.batch = b /\ open'.saved.versions = versions
        /\ open'.saved.entries = entries /\ open'.saved.txs = txs
    BY <1>1, <2>1, BeginState DEF Tables
  <2>3. SoFar = Executed(txs)
    BY <2>1 DEF SoFar
  <2>4. Replayed(versions, entries, SoFar)
    BY DEF PatchesInv
  <2> HIDE DEF SoFar
  <2>5. Replayed(versions', entries', SoFar')
    BY <2>1, <2>4
  <2>6. Replayed(open'.saved.versions, open'.saved.entries, Executed(open'.saved.txs))
        /\ ValidBatch(open'.batch)
    BY <2>1, <2>2, <2>3, <2>4
  <2> QED
    BY <2>5, <2>6 DEF PatchesInv, ValidBatch
<1>2. ASSUME Operate
      PROVE  PatchesInv'
  <2> DEFINE op == Head(open.todo)
  <2>1. /\ open # Closed /\ open.todo # <<>> /\ Execute(op)
        /\ open' = [open EXCEPT !.todo = Tail(@), !.reached = Reached(op)]
    BY <1>2 DEF Operate
  <2>2. /\ open'.batch = open.batch /\ open'.saved = open.saved
        /\ op \in OperationType /\ op \in Range(open.batch.ops)
    <3>1. txs' = txs
      BY <2>1, ExecuteKeeps
    <3> QED
      BY <2>1, <3>1, Advanced DEF Range
  <2>3. PICK x : x.op = op /\ Later(x, SoFar) /\ SoFar' = SoFar \cup {x}
    BY <1>2, OperateInv
  <2>4. /\ Replayed(versions, entries, SoFar) /\ IsFiniteSet(SoFar)
        /\ versions \in [Projections -> Nat]
    BY DEF PatchesInv, CPInv, LogAgrees, CPTypes
  <2>5. Replayed(open.saved.versions, open.saved.entries, Executed(open.saved.txs)) /\ ValidBatch(open.batch)
    BY <2>1 DEF PatchesInv
  <2> HIDE DEF op, SoFar
  <2>6. Replayed(versions', entries', SoFar')
    <3>1. CASE op.kind # "ProjectionPatch"
      <4>1. versions' = versions /\ entries' = entries
        BY <2>1, <3>1 DEF Execute, JobOp, AppendEvent, logVars
      <4> QED
        BY <2>3, <2>4, <3>1, <4>1, PatchSkipped
    <3>2. CASE op.kind = "ProjectionPatch"
      <4> DEFINE q == op.projection
      <4>1. q \in Projections
        BY <2>2, <3>2, OperationFields
      <4>2. /\ versions[q] = op.expected
            /\ versions' = [versions EXCEPT ![q] = op.new]
            /\ entries' = [entries EXCEPT ![q] = ApplyMutations(@, op.mutations)]
        BY <2>1, <3>2 DEF Execute, JobOp, OperationOk, PatchOk, PatchProjection
      <4>3. ValidPatch(op) /\ op.mutations \in Seq(MutationType)
        BY <2>2, <2>5, <3>2 DEF ValidBatch, OperationType
      <4>4. x.op.projection = q /\ x.op.kind = "ProjectionPatch" /\ versions[q] = x.op.expected
            /\ ValidPatch(x.op) /\ x.op.mutations \in Seq(MutationType)
        BY <2>3, <3>2, <4>2, <4>3
      <4> HIDE DEF q
      <4>5. Replayed([versions EXCEPT ![q] = x.op.new],
                     [entries EXCEPT ![q] = ApplyMutations(@, x.op.mutations)], SoFar \cup {x})
        BY <2>3, <2>4, <4>1, <4>4, PatchExecuted
      <4> QED
        BY <2>3, <4>2, <4>5
    <3> QED
      BY <3>1, <3>2
  <2>7. Replayed(open'.saved.versions, open'.saved.entries, Executed(open'.saved.txs))
        /\ ValidBatch(open'.batch)
    BY <2>2, <2>5
  <2> QED
    BY <2>6, <2>7 DEF PatchesInv, ValidBatch
<1>3. ASSUME open # Closed, Rollback
      PROVE  PatchesInv'
  <2>1. /\ versions' = open.saved.versions /\ entries' = open.saved.entries
        /\ txs' = open.saved.txs /\ open' = Closed
    BY <1>3 DEF Rollback
  <2>2. SoFar' = Executed(open.saved.txs)
    BY <2>1 DEF SoFar
  <2>3. Replayed(open.saved.versions, open.saved.entries, Executed(open.saved.txs))
    BY <1>3 DEF PatchesInv
  <2>4. Replayed(versions', entries', SoFar')
    BY <2>1, <2>2, <2>3
  <2> QED
    BY <2>1, <2>4 DEF PatchesInv
<1>4. ASSUME Commit \/ CommitUnsure
      PROVE  PatchesInv'
  <2>1. SoFar' = SoFar
    BY <1>4, CommitInv, CommitUnsureInv
  <2>2. versions' = versions /\ entries' = entries /\ open' = Closed
    BY <1>4 DEF Commit, CommitUnsure, Persist
  <2> QED
    BY <2>1, <2>2, PatchesKept
<1>5. ASSUME NEW q \in Queues, NEW w \in Workers, NEW now \in Times,
             NEW len \in LeaseLengths, NEW limit \in ClaimLimits, Claim(q, w, now, len, limit)
      PROVE  PatchesInv'
  <2>1. SoFar' = SoFar
    BY <1>5, ClaimRowInv
  <2>2. versions' = versions /\ entries' = entries /\ open' = open
    BY <1>5 DEF Claim
  <2> QED
    BY <2>1, <2>2, PatchesKept
<1>6. ASSUME txs' = txs, versions' = versions, entries' = entries, open' = open
      PROVE  PatchesInv'
  <2>1. SoFar' = SoFar
    BY <1>6 DEF SoFar, Done
  <2> QED
    BY <1>6, <2>1, PatchesKept
<1>7. ASSUME NEW id \in TxIds, RecoverTransaction(id) \/ (\E b \in Batches(Issued) : Resubmit(id, b))
      PROVE  PatchesInv'
  BY <1>6, <1>7 DEF RecoverTransaction, Resubmit, logVars
<1>8. ASSUME NEW jt \in Issued, NEW newExpiry \in Times, NEW now \in Times,
             LeaseCall(jt[1], jt[2], newExpiry, now)
      PROVE  PatchesInv'
  BY <1>6, <1>8 DEF LeaseCall, logVars
<1>9. ASSUME UNCHANGED cpVars
      PROVE  PatchesInv'
  BY <1>6, <1>9 DEF cpVars, logVars
<1> QED
  BY <1>1, <1>2, <1>3, <1>4, <1>5, <1>7, <1>8, <1>9 DEF CPNext, OperationFails, CommitLost, Fault

(* A projection is what the committed patches made of it: its version       *)
(* counts them, each found the version it was built on, so two patches of   *)
(* one version never both commit, and each key holds what the last mutation *)
(* of it left, whatever was rolled back between them.                       *)
THEOREM ProjectionsAreReplayed ==
  ASSUME BatchesTyped
  PROVE  CPSpec => []ProjectionsReplayPatches
<1>1. CPInit => PatchesInv
  <2> SUFFICES ASSUME CPInit PROVE PatchesInv
    OBVIOUS
  <2>1. /\ open = Closed /\ txs = {} /\ versions = [p \in Projections |-> 0]
        /\ entries = [p \in Projections |-> NoRows]
    BY DEF CPInit
  <2>2. \A x : x \notin SoFar
    BY <2>1, ExecutedEntries DEF SoFar
  <2>3. \A p : Patches(SoFar, p) = {}
    BY <2>2 DEF Patches
  <2>4. Cardinality({}) = 0
    BY FS_EmptySet
  <2> HIDE DEF SoFar
  <2>5. PatchesInOrder(versions, SoFar)
    BY <2>1, <2>3, <2>4 DEF PatchesInOrder
  <2>6. NoRows \in RowsType /\ \A k \in Keys : NoRows[k] = NULL
    BY DEF NoRows, RowsType
  <2>7. entries \in [Projections -> RowsType]
    BY <2>1, <2>6
  <2>8. \A p \in Projections : EntriesReplayed(entries[p], SoFar, p)
    <3>1. \A p, k : PatchesOn(SoFar, p, k) = {}
      BY <2>3 DEF PatchesOn
    <3> QED
      BY <2>1, <2>6, <3>1 DEF EntriesReplayed, RowsType
  <2> QED
    BY <2>1, <2>5, <2>7, <2>8 DEF PatchesInv, Replayed
<1>2. CPInv /\ PatchesInv /\ [CPNext]_cpVars => PatchesInv'
  BY PatchesNext
<1>3. PatchesInv => ProjectionsReplayPatches
  <2> SUFFICES ASSUME PatchesInv, open = Closed
               PROVE  /\ PatchesInOrder(versions, Executed(txs))
                      /\ \A p \in Projections : EntriesReplayed(entries[p], Executed(txs), p)
    BY DEF ProjectionsReplayPatches
  <2>1. SoFar = Executed(txs)
    BY DEF SoFar
  <2> HIDE DEF SoFar
  <2> QED
    BY <2>1 DEF PatchesInv, Replayed
<1> QED
  BY <1>1, <1>2, <1>3, ControlPlaneInvariant, PTL DEF CPSpec

=============================================================================
