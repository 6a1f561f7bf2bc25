----------------------------- MODULE Inspection -----------------------------
(***************************************************************************)
(* What an operator sees of a store at work: the diagnostic export         *)
(* (src/store/ops.rs), the paged list of jobs (src/store/jobs.rs, `jobs    *)
(* list` in src/main.rs) and the scans of ProjectionReads.  Each is many   *)
(* statements on one read connection in no transaction, and commits fall   *)
(* between any two of them, so what is shown is no snapshot.  An export    *)
(* counts first and then goes through the tables, page by page, in a fixed *)
(* order.                                                                  *)
(*                                                                         *)
(* Readers do not disturb one another, so one is in progress at a time.    *)
(* Payloads and active partitions are left out.                            *)
(***************************************************************************)
EXTENDS ProjectionReads

CONSTANTS
  Streams,         \* stream ids, numbered in the order of their bytes
  ExportPageSize,  \* EXPORT_PAGE_SIZE
  Stores           \* stores to start from

(* The states that a job can leave and come back to without a clock *)
States == {"Pending", "Leased", "Uncertain"}

JobRow == [state : States, attempt : Nat]
ReceiptRow == [job : Nat \ {0}, attempt : Nat \ {0}]

(* Every attempt of a job has its receipt, and a receipt is of an attempt *)
Receipted(jobRows, receiptRows) ==
  /\ \A j \in DOMAIN jobRows : \A n \in 1..jobRows[j].attempt :
       \E i \in DOMAIN receiptRows : receiptRows[i].job = j /\ receiptRows[i].attempt = n
  /\ \A i \in DOMAIN receiptRows :
       /\ receiptRows[i].job \in DOMAIN jobRows
       /\ receiptRows[i].attempt <= jobRows[receiptRows[i].job].attempt

ASSUME InspectionAssumption ==
  /\ Streams \subseteq Nat \ {0}
  /\ ExportPageSize \in Nat \ {0}
  /\ NULL \notin States
  /\ \A s \in Stores :
       /\ s.txs \in 0..MaxTxs /\ s.events \in Seq(Streams)
       /\ s.rows \subseteq RowType /\ IsFiniteSet(s.rows) /\ Keyed(s.rows)
       /\ s.jobs \in Seq(JobRow) /\ s.receipts \in Seq(ReceiptRow)
       /\ Receipted(s.jobs, s.receipts)

VARIABLES
  events,    \* table events: the stream of each, in order
  jobs,      \* table jobs in the order of enqueue_sequence
  receipts,  \* table claim_receipts in the order of rowid
  export,    \* the export in progress, or NULL
  list       \* the list in progress, or NULL

inVars == <<prVars, events, jobs, receipts, export, list>>

(* The statements of an export, in their order *)
Counts == <<"transactions", "events", "streams">>
Sections == <<"transactions", "events", "streams", "projections", "jobs", "claim_receipts">>
SectionNames == Range(Sections)
Statements == Len(Counts) + Len(Sections)

INTypeOK ==
  /\ PRTypeOK
  /\ events \in Seq(Streams)
  /\ jobs \in Seq(JobRow)
  /\ receipts \in Seq(ReceiptRow)
  /\ Receipted(jobs, receipts)
  /\ export # NULL => /\ export.at \in 1..(Statements + 1)
                      /\ export.count \in [Range(Counts) -> Nat]
                      /\ export.untouched \subseteq rows
  /\ list # NULL => list.after \in 0..Len(jobs)

INInit ==
  /\ \E s \in Stores :
       /\ rows = s.rows /\ txs = s.txs
       /\ events = s.events /\ jobs = s.jobs /\ receipts = s.receipts
  /\ scan = NULL /\ during = {}
  /\ export = NULL /\ list = NULL

NoReader == scan = NULL /\ export = NULL /\ list = NULL

----------------------------------------------------------------------------
(* Commits, of one operation each                                          *)

(* The jobs that the list asks for and that have been there from its start *)
Throughout(newJobs) ==
  IF list = NULL THEN NULL
  ELSE [list EXCEPT !.steady = {j \in @ : list.state \in {NULL, newJobs[j].state}}]

Transaction(newEvents, newJobs, newReceipts) ==
  /\ txs < MaxTxs
  /\ txs' = txs + 1
  /\ events' = newEvents
  /\ jobs' = newJobs
  /\ receipts' = newReceipts
  /\ list' = Throughout(newJobs)
  /\ UNCHANGED <<rows, scan, during, export>>

(* A patch, and the rows it leaves alone since the export began *)
PatchProjection ==
  /\ Patch
  /\ export' = IF export = NULL THEN NULL ELSE [export EXCEPT !.untouched = @ \cap rows']
  /\ UNCHANGED <<events, jobs, receipts, list>>

AppendEvent(s) == Transaction(Append(events, s), jobs, receipts)

EnqueueJob == Transaction(events, Append(jobs, [state |-> "Pending", attempt |-> 0]), receipts)

ClaimJob(j) ==
  /\ jobs[j].state = "Pending"
  /\ Transaction(events,
       [jobs EXCEPT ![j] = [state |-> "Leased", attempt |-> @.attempt + 1]],
       Append(receipts, [job |-> j, attempt |-> jobs[j].attempt + 1]))

(* A lease ends by failure or repair, doubt by a resolution *)
EndLease(j, state) ==
  /\ <<jobs[j].state, state>> \in
       {<<"Leased", "Pending">>, <<"Leased", "Uncertain">>, <<"Uncertain", "Pending">>}
  /\ Transaction(events, [jobs EXCEPT ![j].state = state], receipts)

----------------------------------------------------------------------------
(* diagnostic_export                                                       *)

VersionOf(s) == Cardinality({i \in DOMAIN events : events[i] = s})

VersionAt(i) == Cardinality({k \in 1..i : events[k] = events[i]})

(* The rows of a table, each with the position that its pages go on after *)
RowsOf(section) ==
  CASE section = "transactions" -> {[pos |-> i] : i \in 1..txs}
    [] section = "events" ->
         {[pos |-> i, stream |-> events[i], version |-> VersionAt(i)] : i \in DOMAIN events}
    [] section = "streams" -> {[pos |-> s, version |-> VersionOf(s)] : s \in Range(events)}
    [] section = "projections" -> {[pos |-> r.rowid, row |-> r] : r \in rows}
    [] section = "jobs" -> {[pos |-> i, attempt |-> jobs[i].attempt] : i \in DOMAIN jobs}
    [] section = "claim_receipts" ->
         {[pos |-> i, job |-> receipts[i].job, attempt |-> receipts[i].attempt] :
            i \in DOMAIN receipts}

(* Mutant: entries in the order of the primary key *)
ExportOrderByKey(r, s) ==
  IF "row" \in DOMAIN r THEN Less(r.row.key, s.row.key) \/ (r.row.key = s.row.key /\ r.pos < s.pos)
  ELSE r.pos < s.pos

ExportOrder(r, s) == r.pos < s.pos

After(table, pos) == {r \in table : r.pos > pos}

(* claim_receipts is read by a statement without a limit *)
PageSize(section) ==
  IF section = "claim_receipts" THEN Cardinality(RowsOf(section)) ELSE ExportPageSize

ExportPage(section, pos) ==
  FirstOf(PageSize(section), After(RowsOf(section), pos), ExportOrder)

StartExport ==
  /\ NoReader
  /\ export' = [at |-> 1, count |-> [c \in Range(Counts) |-> 0],
                got |-> [s \in SectionNames |-> <<>>], untouched |-> rows]
  /\ UNCHANGED <<prVars, events, jobs, receipts, list>>

(* stats: each count is a statement *)
ExportCount ==
  /\ export # NULL /\ export.at <= Len(Counts)
  /\ LET c == Counts[export.at]
     IN  export' = [export EXCEPT !.count[c] = Cardinality(RowsOf(c)), !.at = @ + 1]
  /\ UNCHANGED <<prVars, events, jobs, receipts, list>>

(* Mutant: the receipts come before the jobs, and the streams before the events *)
SectionAtReversed(at) == Sections[Statements + 1 - at]

SectionAt(at) == Sections[at - Len(Counts)]

(* A page that is not full ends its section *)
ExportRows ==
  /\ export # NULL /\ export.at \in (Len(Counts) + 1)..Statements
  /\ LET s    == SectionAt(export.at)
         got  == export.got[s]
         page == ExportPage(s, IF got = <<>> THEN 0 ELSE Last(got).pos)
         full == s # "claim_receipts" /\ Len(page) = ExportPageSize
     IN  export' = [export EXCEPT !.got[s] = @ \o page, !.at = IF full THEN @ ELSE @ + 1]
  /\ UNCHANGED <<prVars, events, jobs, receipts, list>>

EndExport ==
  /\ export # NULL /\ export.at = Statements + 1
  /\ export' = NULL
  /\ UNCHANGED <<prVars, events, jobs, receipts, list>>

----------------------------------------------------------------------------
(* jobs_page                                                               *)

InState(j, state) == state \in {NULL, jobs[j].state}

ByNumber(i, j) == i < j

(* Mutant: the cursor counts the jobs of the state that have been listed *)
JobsPageByOffset(state, after, limit) ==
  LET all == {j \in DOMAIN jobs : InState(j, state)}
  IN  FirstOf(limit, all \ Range(FirstOf(Len(list.got), all, ByNumber)), ByNumber)

JobsPage(state, after, limit) ==
  FirstOf(limit, {j \in DOMAIN jobs : j > after /\ InState(j, state)}, ByNumber)

StartList(state, limit) ==
  /\ NoReader
  /\ list' = [state |-> state, limit |-> limit, after |-> 0, got |-> <<>>, done |-> FALSE,
              steady |-> {j \in DOMAIN jobs : InState(j, state)}]
  /\ UNCHANGED <<prVars, events, jobs, receipts, export>>

(* `next: --after <cursor>` is printed under a full page *)
ListPage ==
  /\ list # NULL /\ ~list.done
  /\ LET page == JobsPage(list.state, list.after, list.limit)
     IN  list' = [list EXCEPT !.got = @ \o page,
                              !.after = IF page = <<>> THEN @ ELSE Last(page),
                              !.done = Len(page) # list.limit]
  /\ UNCHANGED <<prVars, events, jobs, receipts, export>>

EndList ==
  /\ list # NULL /\ list.done
  /\ list' = NULL
  /\ UNCHANGED <<prVars, events, jobs, receipts, export>>

----------------------------------------------------------------------------
(* The scans of ProjectionReads *)
ScanProjection ==
  /\ Scan
  /\ export = NULL /\ list = NULL
  /\ UNCHANGED <<events, jobs, receipts, export, list>>

INNext ==
  \/ PatchProjection \/ ScanProjection
  \/ \E s \in Streams : AppendEvent(s)
  \/ EnqueueJob
  \/ \E j \in DOMAIN jobs : ClaimJob(j) \/ \E state \in States : EndLease(j, state)
  \/ StartExport \/ ExportCount \/ ExportRows \/ EndExport
  \/ \E state \in States \cup {NULL}, limit \in PageLimits : StartList(state, limit)
  \/ ListPage \/ EndList

INSpec == INInit /\ [][INNext]_inVars

----------------------------------------------------------------------------
(* Properties                                                              *)

Exported == export # NULL /\ export.at = Statements + 1

(* Transactions, events and jobs are exported without a gap and once each,   *)
(* and none that the counts in the header include is missing.  Projection    *)
(* entries come in the order of their rowids, and one that was not touched   *)
(* while the export went on comes exactly once.  A key that Replace rewrote  *)
(* may be missing or come twice: its row has moved to another rowid, behind  *)
(* the export or ahead.                                                      *)
ExportComplete ==
  /\ INTypeOK
  /\ export # NULL =>
    /\ \A s \in {"transactions", "events", "jobs"} :
         \A i \in DOMAIN export.got[s] : export.got[s][i].pos = i
    /\ Exported => \A c \in Range(Counts) : export.count[c] <= Len(export.got[c])
    /\ Exported => \A row \in export.untouched :
         Cardinality({i \in DOMAIN export.got["projections"] :
                        export.got["projections"][i].row = row}) = 1

(* An export can be read from its events and jobs on: the stream of every    *)
(* exported event is there, at that event's version or a later one, and      *)
(* every attempt of an exported job has its claim receipt, although commits  *)
(* went on between the sections.  (A transaction may be missing: they come   *)
(* first.)                                                                   *)
ExportCloses ==
  Exported =>
    /\ \A e \in Range(export.got["events"]) :
         \E s \in Range(export.got["streams"]) : s.pos = e.stream /\ s.version >= e.version
    /\ \A j \in Range(export.got["jobs"]) : \A n \in 1..j.attempt :
         \E r \in Range(export.got["claim_receipts"]) : r.job = j.pos /\ r.attempt = n

(* A paged list of the jobs in a state shows no job twice, and every job     *)
(* that was in that state all the time, however the others came and went.    *)
ListFaithful ==
  list # NULL =>
    /\ \A i, k \in DOMAIN list.got : i < k => list.got[i] < list.got[k]
    /\ list.done => list.steady \subseteq Range(list.got)

=============================================================================
