-------------------------- MODULE ProjectionReads --------------------------
(***************************************************************************)
(* Reading projections page by page while commits change them: prefix and  *)
(* range scans (src/store/projections.rs), which go on after the last key. *)
(* A page is one statement, so it sees one committed state; the next page  *)
(* sees a later one.  Inspection extends this module with the other tables *)
(* and the readers that go through them.                                   *)
(*                                                                         *)
(* Keys are byte strings, here sequences over 0..MaxByte with MaxByte for  *)
(* 0xFF; SQLite compares BLOBs byte by byte, a proper prefix first.  The   *)
(* patches here have one mutation each; ControlPlane has longer ones.      *)
(***************************************************************************)
EXTENDS Pages, Sequences, SequencesExt

CONSTANTS
  MaxByte,          \* the largest byte
  Keys,             \* keys that entries may have
  Projections,      \* projection names
  Values,           \* values of entries
  Replacements,     \* contents that a Replace mutation may bring
  Queries,          \* prefixes and ranges that are scanned
  PageLimits,       \* page limits of scans and lists
  MaxTxs,           \* bound on the number of transactions
  NULL

Bytes == 0..MaxByte

ASSUME ProjectionReadsAssumption ==
  /\ MaxByte \in Nat
  /\ Keys \subseteq Seq(Bytes)
  /\ Replacements \subseteq Seq([key : Keys, value : Values])
  /\ \A list \in Replacements : \A i, j \in DOMAIN list :   \* ProjectionPatch::validate
       list[i].key = list[j].key => i = j
  /\ Queries \subseteq
       [kind : {"Prefix"}, projection : Projections, prefix : Seq(Bytes)]
       \cup [kind : {"Range"}, projection : Projections,
             start : Seq(Bytes) \cup {NULL}, end : Seq(Bytes) \cup {NULL}]
  /\ NULL \notin Seq(Bytes)
  /\ PageLimits \subseteq Nat \ {0}
  /\ MaxTxs \in Nat

VARIABLES
  rows,     \* table projection_entries
  txs,      \* number of rows of table transactions
  scan,     \* the paging reader: what it asked for and what it got, or NULL
  during    \* history: the states of the table since the reader began

prVars == <<rows, txs, scan, during>>

RowType == [rowid : Nat \ {0}, projection : Projections, key : Keys, value : Values]

(* The rowids and the primary keys of a table are unique *)
Keyed(tab) ==
  \A r, s \in tab :
    r.rowid = s.rowid \/ (r.projection = s.projection /\ r.key = s.key) => r = s

PRTypeOK ==
  /\ rows \subseteq RowType
  /\ Keyed(rows)
  /\ txs \in 0..MaxTxs
  /\ scan # NULL => Range(scan.got) \subseteq RowType /\ rows \in during

----------------------------------------------------------------------------
(* Patches (apply_projection_patch), one mutation a commit                 *)

RowOf(tab, p, k) == {r \in tab : r.projection = p /\ r.key = k}

LastRowid(tab) == Max({0} \cup {r.rowid : r \in tab})

(* The rows inserted for a list of entries: each gets the largest rowid plus one *)
NewRows(tab, p, list) ==
  {[rowid |-> LastRowid(tab) + i, projection |-> p, key |-> list[i].key, value |-> list[i].value] :
     i \in DOMAIN list}

(* An upsert keeps the rowid of a row *)
Upsert(tab, p, k, v) ==
  IF RowOf(tab, p, k) # {}
  THEN {IF r \in RowOf(tab, p, k) THEN [r EXCEPT !.value = v] ELSE r : r \in tab}
  ELSE tab \cup NewRows(tab, p, <<[key |-> k, value |-> v]>>)

Cleared(tab, p) == {r \in tab : r.projection # p}

CommitPatch(tab) ==
  /\ txs < MaxTxs
  /\ txs' = txs + 1
  /\ rows' = tab
  /\ during' = IF scan = NULL THEN {} ELSE during \cup {tab}
  /\ UNCHANGED scan

Put(p, k, v) == CommitPatch(Upsert(rows, p, k, v))
Delete(p, k) == CommitPatch(rows \ RowOf(rows, p, k))
Clear(p) == CommitPatch(Cleared(rows, p))
Replace(p, list) ==
  CommitPatch(Cleared(rows, p) \cup NewRows(Cleared(rows, p), p, list))

----------------------------------------------------------------------------
(* Scans                                                                   *)

(* a < b as BLOBs *)
Less(a, b) ==
  \/ IsStrictPrefix(a, b)
  \/ \E i \in DOMAIN a \cap DOMAIN b :
       /\ \A j \in 1..(i - 1) : a[j] = b[j]
       /\ a[i] < b[i]

(* Mutant: the last byte is incremented without dropping the 0xFF bytes *)
PrefixUpperBoundWrapping(prefix) ==
  IF prefix = <<>> THEN NULL
  ELSE [prefix EXCEPT ![Len(prefix)] = (@ + 1) % (MaxByte + 1)]

(* Trailing 0xFF bytes dropped and the last remaining byte incremented *)
PrefixUpperBound(prefix) ==
  LET Low == {i \in DOMAIN prefix : prefix[i] # MaxByte}
      n   == Max(Low)
  IN  IF Low = {} THEN NULL ELSE [i \in 1..n |-> IF i = n THEN prefix[n] + 1 ELSE prefix[i]]

(* A query is a prefix, or a range whose bounds may be NULL *)
Start(q) == IF q.kind = "Prefix" THEN q.prefix ELSE q.start
End(q) == IF q.kind = "Prefix" THEN PrefixUpperBound(q.prefix) ELSE q.end

(* Mutant: the next page starts at the last key of the one before *)
SelectedFrom(q, after) ==
  {r \in rows : /\ r.projection = q.projection
                /\ Start(q) # NULL => ~Less(r.key, Start(q))
                /\ End(q) # NULL => Less(r.key, End(q))
                /\ after # NULL => ~Less(r.key, after)}

Selected(q, after) ==
  {r \in rows : /\ r.projection = q.projection
                /\ Start(q) # NULL => ~Less(r.key, Start(q))
                /\ End(q) # NULL => Less(r.key, End(q))
                /\ after # NULL => Less(after, r.key)}

ByKey(r, s) == Less(r.key, s.key)

ScanPage(q, after, limit) == FirstOf(limit, Selected(q, after), ByKey)

(* A reader asks for page after page, until one is not full *)
BeginScan(q, limit) ==
  /\ scan = NULL
  /\ scan' = [query |-> q, limit |-> limit, got |-> <<>>, done |-> FALSE]
  /\ during' = {rows}
  /\ UNCHANGED <<rows, txs>>

NextPage ==
  ScanPage(scan.query, IF scan.got = <<>> THEN NULL ELSE Last(scan.got).key, scan.limit)

ReadPage ==
  /\ scan # NULL /\ ~scan.done
  /\ scan' = [scan EXCEPT !.got = @ \o NextPage, !.done = Len(NextPage) < scan.limit]
  /\ UNCHANGED <<rows, txs, during>>

EndRead ==
  /\ scan # NULL /\ scan.done
  /\ scan' = NULL
  /\ during' = {}
  /\ UNCHANGED <<rows, txs>>

----------------------------------------------------------------------------
Patch ==
  \/ \E p \in Projections, k \in Keys, v \in Values : Put(p, k, v)
  \/ \E p \in Projections, k \in Keys : Delete(p, k)
  \/ \E p \in Projections : Clear(p)
  \/ \E p \in Projections, list \in Replacements : Replace(p, list)

Scan ==
  \/ \E q \in Queries, limit \in PageLimits : BeginScan(q, limit)
  \/ ReadPage
  \/ EndRead

----------------------------------------------------------------------------
(* Properties                                                              *)

(* What the caller of a scan asked for *)
Wanted(q, r) ==
  /\ r.projection = q.projection
  /\ IF q.kind = "Prefix" THEN IsPrefix(q.prefix, r.key)
     ELSE /\ q.start = NULL \/ ~Less(r.key, q.start)
          /\ q.end = NULL \/ Less(r.key, q.end)

(* A scan returns keys in order and each at most once, only keys that were   *)
(* asked for (with the prefix, also when it ends in 0xFF), and with a value  *)
(* that the entry had at some time while the scan went on.                   *)
ScanSound ==
  scan # NULL =>
    /\ \A i, j \in DOMAIN scan.got : i < j => Less(scan.got[i].key, scan.got[j].key)
    /\ \A r \in Range(scan.got) : Wanted(scan.query, r) /\ \E tab \in during : r \in tab

(* A scan that has come to its end has returned every entry asked for whose  *)
(* key was there all the time, however it was rewritten meanwhile and        *)
(* whatever was inserted and deleted around the cursor.                      *)
ScanComplete ==
  (scan # NULL /\ scan.done) =>
    \A r \in rows :
      (Wanted(scan.query, r) /\ \A tab \in during : RowOf(tab, r.projection, r.key) # {})
        => \E g \in Range(scan.got) : g.key = r.key

=============================================================================
