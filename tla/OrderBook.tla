------------------------------ MODULE OrderBook ------------------------------
(***************************************************************************)
(* core::OrderBook (src/core/order_book.cpp) as operators on a book value: *)
(* what one entry of a market data message does to the two price maps,     *)
(* what a whole message does, and what to_vector returns.                  *)
(*                                                                         *)
(* A book maps each side to a total function from price keys (in ticks) to *)
(* sizes (in ticks), NoLevel standing for a price the btree_map lacks.     *)
(* A FIX message carries quoted decimals; PxTicks and SzTicks are the      *)
(* conversion the code puts between a quote and a key, so two quotes may   *)
(* share a key (module Ticks computes the conversion the code uses).       *)
(***************************************************************************)
EXTENDS Symbol, Sequences, FiniteSets, SequencesExt

CONSTANTS
  PxTicks,      \* quoted price -> key in ticks
  SzTicks,      \* quoted size -> size in ticks
  NoLevel,      \* no entry in the map for this price
  Sentinel      \* BidAsk::SENTINEL_, UINT64_MAX

ASSUME TicksAssumption ==
  /\ \A q \in DOMAIN PxTicks : PxTicks[q] \in Nat
  /\ \A q \in DOMAIN SzTicks : SzTicks[q] \in Nat
ASSUME NoLevelAssumption == \A q \in DOMAIN SzTicks : SzTicks[q] # NoLevel
ASSUME MissingAssumption == Missing \notin DOMAIN SzTicks

-----------------------------------------------------------------------------
Quotes  == DOMAIN PxTicks
Amounts == DOMAIN SzTicks
Prices  == {PxTicks[q] : q \in Quotes}
Sizes   == {SzTicks[q] : q \in Amounts}

\* Keys are 64-bit numbers, and the largest of them is no price.
ASSUME KeyAssumption == IsFiniteSet(Prices) /\ Sentinel \notin Prices

Sides      == {"BID", "OFFER"}
EntryTypes == Sides \cup {"TRADE"}       \* MDEntryType of the data dictionary
Actions    == {"NEW", "CHANGE", "DELETE"} \* MDUpdateAction of the data dictionary

\* What the FIX engine hands over once the data dictionary (spot-fix-md.xml)
\* has been enforced: only required fields are sure to be there.
Snapshots == [kind: {"W"}, symbol: SymbolNames,
              entries: Seq([type: EntryTypes, px: Quotes, sz: Amounts])]
Increments == [kind: {"X"},
               entries: Seq([symbol: SymbolNames \cup {Missing}, type: EntryTypes,
                             action: Actions, px: Quotes, sz: Amounts \cup {Missing}])]
MessageType == Snapshots \cup Increments

EmptySide == [p \in Prices |-> NoLevel]
EmptyBook == [s \in Sides |-> EmptySide]
SideType  == [Prices -> Sizes \cup {NoLevel}]
BookType  == [Sides -> SideType]

-----------------------------------------------------------------------------
(***************************************************************************)
(* The progress of one apply_* call: the maps, the optional symbol that    *)
(* sticks from one entry to the next, and whether the call has thrown.     *)
(***************************************************************************)
Progress(book, symbol, thrown) == [book |-> book, symbol |-> symbol, thrown |-> thrown]
ProgressType == [book: BookType, symbol: Symbols \cup {NoSymbol}, thrown: BOOLEAN]

\* Mutant: an erased level stays in the map with size zero.
Erased_zero == 0
\* What erase leaves at a price.
Erased == NoLevel
\* handle_price_level_update on one of the two maps. NEW and CHANGE read the
\* optional MDEntrySize, after CHANGE has cleared the map of a depth-1 book.
Cleared(level, e, is_book_clear_needed) ==
  IF e.action = "CHANGE" /\ is_book_clear_needed THEN EmptySide ELSE level
UpdateThrows(e) == e.action # "DELETE" /\ e.sz = Missing
handle_price_level_update(level, e, is_book_clear_needed) ==
  IF e.action = "DELETE" THEN [level EXCEPT ![PxTicks[e.px]] = Erased]
  ELSE IF UpdateThrows(e) THEN Cleared(level, e, is_book_clear_needed)
  ELSE [Cleared(level, e, is_book_clear_needed) EXCEPT ![PxTicks[e.px]] = SzTicks[e.sz]]

\* One iteration of the loop of apply_increment, for the entry at index i.
IncrementEntry(acc, e, i, is_book_clear_needed) ==
  LET symbol == SymbolAfter(e, i, acc.symbol)
      applies == symbol = "BTCUSDT" /\ e.type \in Sides
  IN  IF SymbolThrows(e, i) THEN Progress(acc.book, acc.symbol, TRUE)
      ELSE IF ~applies THEN Progress(acc.book, symbol, FALSE)
      ELSE Progress([acc.book EXCEPT
                       ![e.type] = handle_price_level_update(@, e, is_book_clear_needed)],
                    symbol, UpdateThrows(e))

\* Mutant: a snapshot laid over the levels that are there.
SnapshotBase_merges(book, applies) == book
\* The two clear() calls.
SnapshotBase(book, applies) == IF applies THEN EmptyBook ELSE book
\* apply_snapshot: its early exits and the clearing, then one iteration.
SnapshotBegin(book, m) ==
  Progress(SnapshotBase(book, IsBTC(m.symbol)),
           IF Known(m.symbol) THEN from_str(m.symbol) ELSE NoSymbol,
           ~Known(m.symbol))
SnapshotEntry(acc, e) ==
  IF e.type \notin Sides THEN acc
  ELSE [acc EXCEPT !.book[e.type][PxTicks[e.px]] = SzTicks[e.sz]]

-----------------------------------------------------------------------------
(***************************************************************************)
(* A call in progress: Begin up to the loop, Entry for one iteration, and  *)
(* Iterates telling whether the loop goes on with entry i.                 *)
(***************************************************************************)
Begin(book, m) == IF m.kind = "W" THEN SnapshotBegin(book, m)
                                  ELSE Progress(book, NoSymbol, FALSE)
Entry(acc, m, i, is_book_clear_needed) ==
  IF m.kind = "W" THEN SnapshotEntry(acc, m.entries[i])
                  ELSE IncrementEntry(acc, m.entries[i], i, is_book_clear_needed)
Iterates(acc, m, i) ==
  /\ i <= Len(m.entries)
  /\ ~acc.thrown
  /\ m.kind = "W" => acc.symbol = "BTCUSDT"

\* The rest of the call from entry i on, round by round, and the whole call.
Round(acc, m, i, is_book_clear_needed) ==
  IF Iterates(acc, m, i) THEN Entry(acc, m, i, is_book_clear_needed) ELSE acc
Rounds(acc, m, i, is_book_clear_needed) ==
  LET after[k \in Nat] == IF k < i THEN acc ELSE Round(after[k - 1], m, k, is_book_clear_needed)
  IN  after
Remaining(acc, m, i, is_book_clear_needed) ==
  Rounds(acc, m, i, is_book_clear_needed)[Len(m.entries)]
Apply(book, m, is_book_clear_needed) ==
  Remaining(Begin(book, m), m, 1, is_book_clear_needed)

(***************************************************************************)
(* to_vector: the k-th best bid beside the k-th best offer, the sentinel   *)
(* filling the shorter side.                                               *)
(***************************************************************************)
Levels(level) == {p \in Prices : level[p] # NoLevel}
\* The order of a map: std::greater for the bids, std::less for the offers.
BestOf(side, keys) == IF side = "BID" THEN Max(keys) ELSE Min(keys)
\* The keys an iterator has still before it after k increments from begin().
Ahead(side, level) ==
  LET ahead[k \in Nat] == IF k = 0 THEN Levels(level)
                          ELSE LET keys == ahead[k - 1] IN keys \ {BestOf(side, keys)}
  IN  ahead
Keys(side, level) ==
  [k \in 1..Cardinality(Levels(level)) |-> BestOf(side, Ahead(side, level)[k - 1])]
Bids(book) == Keys("BID", book["BID"])
Asks(book) == Keys("OFFER", book["OFFER"])
Row(book, k) ==
  LET bids == Bids(book)
      asks == Asks(book)
  IN  [bid_px |-> IF k <= Len(bids) THEN bids[k] ELSE Sentinel,
       bid_sz |-> IF k <= Len(bids) THEN book["BID"][bids[k]] ELSE Sentinel,
       ask_px |-> IF k <= Len(asks) THEN asks[k] ELSE Sentinel,
       ask_sz |-> IF k <= Len(asks) THEN book["OFFER"][asks[k]] ELSE Sentinel]
\* Mutant: as many rows as there are bids.
RowCount_bids(book) == Cardinality(Levels(book["BID"]))

RowCount(book) ==
  LET bids == Cardinality(Levels(book["BID"]))
      asks == Cardinality(Levels(book["OFFER"]))
  IN  IF bids > asks THEN bids ELSE asks
to_vector(book) == [k \in 1..RowCount(book) |-> Row(book, k)]
=============================================================================
