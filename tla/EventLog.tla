------------------------------ MODULE EventLog ------------------------------
(***************************************************************************)
(* The event log as its readers see it (src/store/events.rs), under both   *)
(* durability levels (src/config.rs).                                      *)
(*                                                                         *)
(* Commits append whole batches of events.  A reader pages through the log *)
(* with events_after, or through a stream with stream_events: each page is *)
(* a statement of its own on a pooled connection, so on a snapshot of its  *)
(* own, and between two pages the writer goes on.  The reader keeps its    *)
(* cursor (the sequence, or version, of the last event it got) outside the *)
(* store.                                                                  *)
(*                                                                         *)
(* `log` is what readers see and what a crash of the process leaves; its   *)
(* first `synced` events are on disk and are what a loss of power leaves.  *)
(* SQLite's WAL is external: a commit under synchronous=FULL is on disk    *)
(* when it returns, and all that was written before it with it; under      *)
(* NORMAL it is not before the next checkpoint.                            *)
(*                                                                         *)
(* Integers of the API are u64, those of SQLite i64: below 2 * Half here,  *)
(* and below Half.                                                         *)
(***************************************************************************)
EXTENDS Pages, Sequences, SequencesExt

CONSTANTS
  TxIds,           \* transaction ids
  Batch,           \* transaction id -> the streams its events go to, in order
  Streams,         \* stream ids
  Readers,         \* readers that page through the log
  Follows,         \* reader -> a stream, or All
  All,
  PageLimits,      \* limits that readers ask for
  Half,            \* 2^63: the least u64 that is no i64
  MaxEvents,       \* bound on the events in the log
  CommitsFail,     \* whether a COMMIT may report an error
  MaxRestarts,     \* bound on the restarts of the process
  MaxPowerLosses   \* bound on the losses of power

ASSUME EventLogAssumption ==
  /\ Batch \in [TxIds -> Seq(Streams)]
  /\ All \notin Streams
  /\ Follows \in [Readers -> Streams \cup {All}]
  /\ Half \in Nat \ {0}
  /\ MaxEvents \in 0..(Half - 2)
  /\ PageLimits \subseteq 0..(2 * Half - 1)
  /\ CommitsFail \in BOOLEAN
  /\ MaxRestarts \in Nat /\ MaxPowerLosses \in Nat

VARIABLES
  log,         \* table events, in the order of global_sequence
  synced,      \* how many of them are on disk
  durability,  \* the durability the process opened the store with
  conn,        \* synchronous mode of the writer connection, or "Poisoned"
  read,        \* reader -> the events it has got
  firm,        \* history: the events up to the last commit of a strict store
  reported,    \* history: the ids a strict store has given a receipt for
  restarts,    \* number of restarts of the process
  losses       \* number of losses of power

elVars == <<log, synced, durability, conn, read, firm, reported, restarts, losses>>

Durabilities == {"Strict", "Relaxed"}

EventRow == [seq : Nat, tx : TxIds, stream : Streams, version : Nat]

(* Sequences and versions count from 1, so the order of the log is both the *)
(* order of global_sequence and, in a stream, that of stream_version.       *)
ELTypeOK ==
  /\ log \in Seq(EventRow)
  /\ synced \in 0..Len(log)
  /\ durability \in Durabilities
  /\ conn \in {"FULL", "NORMAL", "Poisoned"}
  /\ read \in [Readers -> Seq(EventRow)]
  /\ firm \subseteq EventRow
  /\ reported \subseteq TxIds
  /\ restarts \in 0..MaxRestarts
  /\ losses \in 0..MaxPowerLosses

----------------------------------------------------------------------------
(* Connections                                                             *)

(* Mutant: the strict level maps to NORMAL *)
SynchronousOfRelaxed(d) == "NORMAL"

SynchronousPragma(d) == IF d = "Strict" THEN "FULL" ELSE "NORMAL"

(* The writer connection a call works on: a poisoned one is reopened first *)
Connection == IF conn = "Poisoned" THEN SynchronousPragma(durability) ELSE conn

ELInit ==
  /\ log = <<>>
  /\ synced = 0
  /\ durability \in Durabilities
  /\ conn = SynchronousPragma(durability)
  /\ read = [r \in Readers |-> <<>>]
  /\ firm = {} /\ reported = {}
  /\ restarts = 0
  /\ losses = 0

----------------------------------------------------------------------------
(* Commits                                                                 *)

Committed == {log[i].tx : i \in DOMAIN log}

(* The number of events of stream s: current_stream_version *)
StreamVersion(s) == Cardinality({i \in DOMAIN log : log[i].stream = s})

(* Mutant: every event of the batch is numbered from the version read first *)
InsertedUnadvanced(tx) ==
  LET b == Batch[tx]
  IN  [i \in DOMAIN b |-> [seq |-> Len(log) + i, tx |-> tx, stream |-> b[i],
                           version |-> StreamVersion(b[i]) + 1]]

(* The events of tx as they are inserted: AUTOINCREMENT goes on from the    *)
(* last sequence, which is rolled back, or lost, with the rows.             *)
Inserted(tx) ==
  LET b == Batch[tx]
  IN  [i \in DOMAIN b |->
        [seq |-> Len(log) + i, tx |-> tx, stream |-> b[i],
         version |-> StreamVersion(b[i]) + Cardinality({k \in 1..i : b[k] = b[i]})]]

Fits(tx) == Len(log) + Len(Batch[tx]) <= MaxEvents

(* The caller gets a receipt, which is evidence if the store is strict *)
Receipt(tx) == reported' = IF durability = "Strict" THEN reported \cup {tx} ELSE reported

(* COMMIT succeeds.  The sync of a strict store takes with it all that was   *)
(* in the WAL.                                                              *)
Commit(tx) ==
  /\ tx \notin Committed /\ Fits(tx)
  /\ log' = log \o Inserted(tx)
  /\ conn' = Connection
  /\ synced' = IF Connection = "FULL" THEN Len(log') ELSE synced
  /\ firm' = IF durability = "Strict" THEN Range(log') ELSE firm
  /\ Receipt(tx)
  /\ UNCHANGED <<durability, read, restarts, losses>>

(* COMMIT reports an error although the batch is in the WAL, synced or not; *)
(* where it is not, nothing but the connection changes.                     *)
CommitUnsure(tx) ==
  /\ CommitsFail
  /\ tx \notin Committed /\ Fits(tx)
  /\ conn' = "Poisoned"
  /\ \/ log' = log \o Inserted(tx) /\ synced' \in {synced, Len(log')}
     \/ UNCHANGED <<log, synced>>
  /\ UNCHANGED <<durability, read, firm, reported, restarts, losses>>

(* A batch that is there is not applied again: the call looks its id up and  *)
(* returns the first receipt.  It writes, and so syncs, nothing.             *)
Resubmit(tx) ==
  /\ tx \in Committed
  /\ conn' = Connection
  /\ Receipt(tx)
  /\ UNCHANGED <<log, synced, durability, read, firm, restarts, losses>>

(* recover_transaction: a receipt, or Absent *)
Recover(tx) ==
  /\ conn' = Connection
  /\ IF tx \in Committed THEN Receipt(tx) ELSE UNCHANGED reported
  /\ UNCHANGED <<log, synced, durability, read, firm, restarts, losses>>

(* The process ends or is killed, and the store is opened again *)
Restart ==
  /\ restarts < MaxRestarts
  /\ restarts' = restarts + 1
  /\ durability' \in Durabilities
  /\ conn' = SynchronousPragma(durability')
  /\ UNCHANGED <<log, synced, read, firm, reported, losses>>

(* The WAL is synced before its pages are copied into the database *)
Checkpoint ==
  /\ synced' = Len(log)
  /\ UNCHANGED <<log, durability, conn, read, firm, reported, restarts, losses>>

BatchEnds == {0, Len(log)} \cup {n \in 1..(Len(log) - 1) : log[n].tx # log[n + 1].tx}

(* The last commits that are not on disk are gone; a batch is not torn *)
PowerLoss ==
  /\ losses < MaxPowerLosses
  /\ losses' = losses + 1
  /\ \E n \in BatchEnds \ 0..(synced - 1) :
       /\ log' = SubSeq(log, 1, n)
       /\ synced' = n
  /\ conn' = SynchronousPragma(durability)
  /\ UNCHANGED <<durability, read, firm, reported, restarts>>

----------------------------------------------------------------------------
(* Reads                                                                   *)

Rows == Range(log)

BySeq(e, f) == e.seq < f.seq
BySeqDown(e, f) == e.seq > f.seq
ByVersion(e, f) == e.version < f.version

(* `x as i64`: two's complement *)
AsI64(x) == IF x >= Half THEN x - 2 * Half ELSE x

(* LIMIT ?: a negative limit is no limit *)
Limited(S, limit) == IF AsI64(limit) < 0 THEN Cardinality(S) ELSE AsI64(limit)

(* Mutant: strictly greater, as in events_after *)
RowsBeyond(s, from) == {e \in Rows : e.stream = s /\ e.version > AsI64(from)}

(* The events of a stream from a version on, and all after a sequence *)
RowsAfter(after) == {e \in Rows : e.seq > AsI64(after)}
RowsFrom(s, from) == {e \in Rows : e.stream = s /\ e.version >= AsI64(from)}

(* Mutant: a page holds whole batches only *)
EventsAfterWhole(after, limit) ==
  LET S    == RowsAfter(after)
      page == FirstOf(Limited(S, limit), S, BySeq)
  IN  SelectSeq(page, LAMBDA e : \A f \in Rows : f.tx = e.tx => f \in Range(page))

EventsAfter(after, limit) == FirstOf(Limited(RowsAfter(after), limit), RowsAfter(after), BySeq)

StreamEvents(s, from, limit) ==
  FirstOf(Limited(RowsFrom(s, from), limit), RowsFrom(s, from), ByVersion)

(* Mutant: the order of the query is not reversed *)
LastEventsNewestFirst(limit) == FirstOf(Limited(Rows, limit), Rows, BySeqDown)

(* ORDER BY global_sequence DESC LIMIT ?, then reversed *)
LastEvents(limit) == Reverse(FirstOf(Limited(Rows, limit), Rows, BySeqDown))

(* What is left of the log for a reader that asks again after its last event *)
NextPage(r, limit) ==
  LET got == read[r]
      s   == Follows[r]
  IN  IF s = All
      THEN EventsAfter(IF got = <<>> THEN 0 ELSE Last(got).seq, limit)
      ELSE StreamEvents(s, IF got = <<>> THEN 1 ELSE Last(got).version + 1, limit)

ReadPage(r, limit) ==
  \E page \in {NextPage(r, limit)} :
      /\ page # <<>>
      /\ read' = [read EXCEPT ![r] = @ \o page]
      /\ UNCHANGED <<log, synced, durability, conn, firm, reported, restarts, losses>>

----------------------------------------------------------------------------
ELNext ==
  \/ \E tx \in TxIds : Commit(tx) \/ CommitUnsure(tx) \/ Resubmit(tx) \/ Recover(tx)
  \/ Restart
  \/ Checkpoint
  \/ PowerLoss
  \/ \E r \in Readers, limit \in PageLimits : ReadPage(r, limit)

ELSpec == ELInit /\ [][ELNext]_elVars

(* A reader that follows the log asks for another page again and again, with *)
(* a limit that is not 0.                                                    *)
ELFairSpec ==
  /\ ELSpec
  /\ \A r \in Readers : WF_elVars(\E limit \in PageLimits \ {0} : ReadPage(r, limit))

----------------------------------------------------------------------------
(* Properties                                                              *)

(* The events of stream s in the order of the log *)
OfStream(s) == LET S == {e \in Rows : e.stream = s} IN FirstOf(Cardinality(S), S, BySeq)

(* What reader r has to read, in order *)
Followed(r) == IF Follows[r] = All THEN log ELSE OfStream(Follows[r])

(* A reader has seen exactly the beginning of what it follows: no event is   *)
(* skipped, repeated or out of order, wherever the pages fall in the batches *)
(* and whatever commits between them; and after a loss of power this still   *)
(* holds for a reader that has only seen what was in the log at a commit of  *)
(* a strict store.                                                           *)
TailExact ==
  /\ ELTypeOK
  /\ \A r \in Readers :
       losses = 0 \/ (\A i \in DOMAIN read[r] : read[r][i] \in firm)
         => IsPrefix(read[r], Followed(r))

(* When a strict store reports a commit that it has just made, that batch    *)
(* and all that the log held before it (relaxed commits, and batches whose   *)
(* outcome was not known) survive every crash and loss of power with the     *)
(* sequences they were given; also when the commit was made on a connection  *)
(* reopened after an indeterminate outcome, and whatever the level of later  *)
(* openings.  This is not said of every receipt, see ReceiptsSurvive.        *)
StrictCommitsSurvive == firm \subseteq Range(log)

(* A batch for which a strict store has given a receipt survives: "Commits   *)
(* survive power loss" (config.rs), "holding one is proof of a durable       *)
(* commit" (transaction.rs).  The code breaks this: a receipt for a batch    *)
(* that is found in the log, by a resubmission or a recovery, does not wait  *)
(* for the batch to be on disk.                                              *)
ReceiptsSurvive == reported \subseteq Committed

(* Whatever was lost and submitted again, the log holds each batch complete, *)
(* in one piece and once, and numbers itself and every stream without a gap. *)
BatchesWhole ==
  /\ \A i \in DOMAIN log : log[i].seq = i
  /\ \A tx \in Committed : \E n \in 0..Len(log) :
       /\ {i \in DOMAIN log : log[i].tx = tx} = {n + k : k \in DOMAIN Batch[tx]}
       /\ \A k \in DOMAIN Batch[tx] : log[n + k].stream = Batch[tx][k]
  /\ \A i \in DOMAIN log :
       log[i].version = Cardinality({j \in 1..i : log[j].stream = log[i].stream})

(* The two ways to ask for the latest events agree, and the last n events    *)
(* are never more than were asked for, for every limit a usize can hold.     *)
LastEventsAgree ==
  \A limit \in 0..(2 * Half - 1) :
    LET last == LastEvents(limit)
    IN  Len(last) <= limit /\ last = EventsAfter(Len(log) - Len(last), limit)

(* A reader that keeps asking gets every event that stays in the log         *)
TailCatchesUp ==
  \A r \in Readers, n \in 1..Len(FlattenSeq(SetToSeq(Range(Batch)))) :
    Len(Followed(r)) >= n ~> (Len(read[r]) >= n \/ Len(Followed(r)) < n)

=============================================================================
