--------------------------- MODULE MCOrderBookCalls ---------------------------
(***************************************************************************)
(* Instruments and messages for OrderBookCalls.  The quotes 0.28 and 0.29  *)
(* share a key: PxTicks is computed by module Ticks.                       *)
(***************************************************************************)
EXTENDS OrderBookCalls

CONSTANT Instruments  \* the names the feed may carry

\* What the conversion gives for these quotes, spelled out for TLC.
MCPxTicks == 28 :> 28 @@ 29 :> 28 @@ 30 :> 30
MCSzTicks == 1 :> 1 @@ 2 :> 2 @@ 3 :> 3
T == INSTANCE Ticks
ASSUME ConversionAssumption ==
  /\ \A q \in DOMAIN MCPxTicks : MCPxTicks[q] = T!price_to_ticks(q, "BTCUSDT")
  /\ \A q \in DOMAIN MCSzTicks : MCSzTicks[q] = T!size_to_ticks(q, "BTCUSDT")

Named(first, size, name) == [first |-> first, size |-> size, name |-> name]
AllNames == {Named("B", 7, "BTCUSDT"), Named("E", 7, "ETHUSDT"),
             Named("B", 7, "BNBUSDT"), Named("X", 7, "XRPUSDT"), Named("B", 6, "BTCEUR")}
MCSymbolNames == {n \in AllNames : n.name \in Instruments}

X(name, type, action, px, sz) ==
  [symbol |-> name, type |-> type, action |-> action, px |-> px, sz |-> sz]
W(type, px, sz) == [type |-> type, px |-> px, sz |-> sz]
Increment(entries) == [kind |-> "X", entries |-> entries]
Snapshot(name, entries) == [kind |-> "W", symbol |-> name, entries |-> entries]

\* Entries that say all they may, and entries that lack a size, are trades,
\* or are for an instrument other than the book's.
Names == MCSymbolNames \cup {Missing}
BTC == CHOOSE n \in AllNames : n.name = "BTCUSDT"
Plain == {X(n, s, a, q, 1) : n \in {BTC, Missing}, s \in Sides, a \in Actions, q \in {28, 30}}
Odd   == {X(BTC, "BID", "DELETE", 29, 1)} \cup {X(n, "BID", a, 28, Missing) : n \in {BTC, Missing}, a \in Actions}
         \cup {X(n, t, "CHANGE", 30, 2) : n \in Names, t \in {"BID", "TRADE"}}
Entries == Plain \cup Odd
SymbolRuns == {<<X(a, "BID", "NEW", 28, 2), X(b, "OFFER", "NEW", 30, 2), X(c, "BID", "CHANGE", 30, 3)>> :
                 a, b, c \in Names}
Levels1 == {W(t, q, z) : t \in EntryTypes, q \in {28, 29, 30}, z \in {1, 3}}

MCMessages ==
  {Increment(<<>>)} \cup {Increment(<<e>>) : e \in Entries}
  \cup {Increment(<<e, f>>) : e, f \in Entries}
  \cup {Increment(run) : run \in SymbolRuns}
  \cup {Snapshot(n, <<>>) : n \in MCSymbolNames}
  \cup {Snapshot(n, <<e>>) : n \in MCSymbolNames, e \in Levels1}
  \cup {Snapshot(BTC, <<e, f>>) : e, f \in Levels1}
\* Messages of one entry that name an instrument, never the book's own.
OtherMessages ==
  LET others == MCSymbolNames \ {BTC}
  IN  {Increment(<<X(n, s, "NEW", q, 1)>>) : n \in others, s \in Sides, q \in {28, 30}}
      \cup {Snapshot(n, <<e>>) : n \in others, e \in Levels1}
=============================================================================
