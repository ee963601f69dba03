------------------------------ MODULE MCTradeBox ------------------------------
(***************************************************************************)
(* A small feed for TradeBox: messages that between them take every path   *)
(* of on_trade, over a ring of two lines.                                  *)
(***************************************************************************)
EXTENDS TradeBox

MCPxTicks == 28 :> 28 @@ 29 :> 28
MCSzTicks == 1 :> 1
T == INSTANCE Ticks
ASSUME ConversionAssumption ==
  /\ \A q \in DOMAIN MCPxTicks : MCPxTicks[q] = T!price_to_ticks(q, "BTCUSDT")
  /\ \A q \in DOMAIN MCSzTicks : MCSzTicks[q] = T!size_to_ticks(q, "BTCUSDT")

BTC == [first |-> "B", size |-> 7, name |-> "BTCUSDT"]
ETH == [first |-> "E", size |-> 7, name |-> "ETHUSDT"]
XRP == [first |-> "X", size |-> 7, name |-> "XRPUSDT"]
MCSymbolNames == {BTC, ETH, XRP}

E(name, type, side, px, sz, id) ==
  [symbol |-> name, type |-> type, side |-> side, px |-> px, sz |-> sz, id |-> id]
X(entries) == [kind |-> "X", entries |-> entries]

\* One order's fills: the later entries leave the name out.
Fills    == X(<<E(BTC, "TRADE", "1", 28, 1, 1), E(Missing, "TRADE", "1", 29, 1, 2),
                E(Missing, "TRADE", "2", 28, 1, Garbled)>>)
\* Another instrument between two trades, then entries that are no trades.
Mixed    == X(<<E(BTC, "TRADE", "2", 29, 1, 3), E(ETH, "TRADE", "1", 28, 1, 4),
                E(Missing, "TRADE", "1", 28, 1, 5), E(BTC, "BID", "1", 28, 1, 6),
                E(Missing, "TRADE", Missing, 28, Missing, Missing)>>)
\* A second entry that throws: by its side, its size, its id, its name.
OddSide  == X(<<E(BTC, "TRADE", "1", 28, 1, 7), E(Missing, "TRADE", "3", 28, 1, 8)>>)
NoSize   == X(<<E(BTC, "TRADE", "2", 28, 1, 7), E(Missing, "TRADE", "1", 28, Missing, 8)>>)
NoId     == X(<<E(BTC, "TRADE", "1", 29, 1, 7), E(Missing, "TRADE", "1", 28, 1, Missing)>>)
Unknown  == X(<<E(BTC, "TRADE", "2", 29, 1, 7), E(XRP, "TRADE", "1", 28, 1, 8)>>)
Nameless == X(<<E(Missing, "TRADE", "1", 28, 1, 9)>>)
MCMessages == {Fills, Mixed, OddSide, NoSize, NoId, Unknown, Nameless}
=============================================================================
