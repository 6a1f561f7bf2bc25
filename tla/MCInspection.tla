---------------------------- MODULE MCInspection ----------------------------
(* A small instance of Inspection for TLC: bytes 0..2 where 2 stands for    *)
(* 0xFF, and keys around the prefixes <<1>>, <<1, 2>> and <<2>>, whose      *)
(* upper bounds are <<2>>, <<2>> and none.                                  *)
EXTENDS Inspection

CONSTANTS p1, p2, a, b

MCKeys == {<<1>>, <<1, 2>>, <<2>>, <<2, 2>>}

Entry(k, v) == [key |-> k, value |-> v]

Row(n, p, k) == [rowid |-> n, projection |-> p, key |-> k, value |-> a]

Job(state, n) == [state |-> state, attempt |-> n]
Receipt(j, n) == [job |-> j, attempt |-> n]

(* Stores after a few transactions, with the entries in the order of keys,   *)
(* and against it with a gap where a row was deleted.                        *)
MCStores ==
  {[txs |-> 4, events |-> <<1>>,
    rows |-> {Row(1, p1, <<1>>), Row(2, p1, <<1, 2>>), Row(3, p1, <<2>>), Row(4, p1, <<2, 2>>)},
    jobs |-> <<Job("Pending", 0), Job("Leased", 1)>>, receipts |-> <<Receipt(2, 1)>>],
   [txs |-> 4, events |-> <<2, 1>>,
    rows |-> {Row(1, p1, <<2, 2>>), Row(3, p2, <<1, 2>>), Row(4, p1, <<1, 2>>), Row(5, p1, <<1>>)},
    jobs |-> <<Job("Uncertain", 1), Job("Pending", 0), Job("Pending", 1)>>,
    receipts |-> <<Receipt(1, 1), Receipt(3, 1)>>]}

MCReplacements ==
  {<<Entry(<<2>>, a), Entry(<<1>>, a)>>,
   <<Entry(<<1, 2>>, b), Entry(<<1>>, b), Entry(<<2, 2>>, b)>>}

Prefix(p) == [kind |-> "Prefix", projection |-> p1, prefix |-> p]
KeyRange(start, end) == [kind |-> "Range", projection |-> p1, start |-> start, end |-> end]

MCQueries ==
  {Prefix(<<>>), Prefix(<<1>>), Prefix(<<1, 2>>), Prefix(<<2>>), Prefix(<<2, 2>>),
   KeyRange(<<1, 2>>, <<2, 2>>), KeyRange(NULL, <<2>>)}

=============================================================================
