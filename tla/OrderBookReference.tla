-------------------------- MODULE OrderBookReference --------------------------
(***************************************************************************)
(* What a message says about each level of a book, without the loop of     *)
(* apply_snapshot and apply_increment: the reference for module OrderBook. *)
(***************************************************************************)
EXTENDS OrderBook

Targets(m, i, s) == IsBTC(NameAt(m.entries, i)) /\ m.entries[i].type = s
BadSize(m, i) == /\ \E s \in Sides : Targets(m, i, s)
                 /\ m.entries[i].action # "DELETE" /\ m.entries[i].sz = Missing
Bad(m, i) == BadName(m.entries, i) \/ BadSize(m, i)
\* The entry the call throws at, one past the end when it does not throw.
Stop(m) == CHOOSE n \in 1..(Len(m.entries) + 1) :
             /\ n = Len(m.entries) + 1 \/ Bad(m, n)
             /\ \A i \in 1..(n - 1) : ~Bad(m, i)

\* The entries that write level p of side s, and those that clear side s when
\* asked to.  A CHANGE of a depth-1 book that lacks a size has cleared before it throws.
Writes(m, s, p) ==
  {i \in 1..(Stop(m) - 1) : Targets(m, i, s) /\ PxTicks[m.entries[i].px] = p}
Clears(m, s, clear) ==
  {i \in (1..Stop(m)) \cap DOMAIN m.entries :
     Targets(m, i, s) /\ m.entries[i].action = "CHANGE" /\ clear}

\* The last of them has its say.
LevelAfter(b, m, s, p, writes, clears) ==
  LET touched == writes \cup clears
      last == Max(touched)
  IN  IF touched = {} THEN b[s][p]
      ELSE IF last \notin writes \/ m.entries[last].action = "DELETE" THEN NoLevel
      ELSE SzTicks[m.entries[last].sz]
IncrementLevel(b, m, s, p, clear) ==
  LevelAfter(b, m, s, p, Writes(m, s, p), Clears(m, s, clear))

LevelListed(m, listed) ==
  IF listed = {} THEN NoLevel ELSE SzTicks[m.entries[Max(listed)].sz]
SnapshotLevel(b, m, s, p) ==
  IF ~IsBTC(m.symbol) THEN b[s][p]
  ELSE LevelListed(m, {i \in DOMAIN m.entries :
                         m.entries[i].type = s /\ PxTicks[m.entries[i].px] = p})

ReferenceThrows(m) == IF m.kind = "W" THEN ~Known(m.symbol) ELSE Stop(m) <= Len(m.entries)
ReferenceBook(b, m, clear) ==
  [s \in Sides |-> [p \in Prices |-> IF m.kind = "W" THEN SnapshotLevel(b, m, s, p)
                                                     ELSE IncrementLevel(b, m, s, p, clear)]]

\* What rows show of a book: every level of each side in one row, best price
\* first, and sentinels only at the end of a column.
Shows(rows, b) ==
  LET bids == {k \in DOMAIN rows : rows[k].bid_px # Sentinel}
      asks == {k \in DOMAIN rows : rows[k].ask_px # Sentinel}
  IN  /\ Levels(b["BID"]) = {rows[k].bid_px : k \in bids}
      /\ Levels(b["OFFER"]) = {rows[k].ask_px : k \in asks}
      /\ \A k \in bids : /\ rows[k].bid_sz = b["BID"][rows[k].bid_px]
                         /\ \A j \in 1..(k - 1) : j \in bids /\ rows[j].bid_px > rows[k].bid_px
      /\ \A k \in asks : /\ rows[k].ask_sz = b["OFFER"][rows[k].ask_px]
                         /\ \A j \in 1..(k - 1) : j \in asks /\ rows[j].ask_px < rows[k].ask_px
      /\ bids \cup asks = DOMAIN rows
===============================================================================
