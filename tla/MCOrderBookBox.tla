---------------------------- MODULE MCOrderBookBox ----------------------------
(***************************************************************************)
(* A small feed for OrderBookBox: two keys, one of them shared by two      *)
(* quotes, and messages whose entries are applied, skipped or throw.       *)
(***************************************************************************)
EXTENDS OrderBookBox

\* What the conversion gives for these quotes, spelled out for TLC.
MCPxTicks == 28 :> 28 @@ 29 :> 28 @@ 30 :> 30
MCSzTicks == 1 :> 1 @@ 2 :> 2
T == INSTANCE Ticks
ASSUME ConversionAssumption ==
  /\ \A q \in DOMAIN MCPxTicks : MCPxTicks[q] = T!price_to_ticks(q, "BTCUSDT")
  /\ \A q \in DOMAIN MCSzTicks : MCSzTicks[q] = T!size_to_ticks(q, "BTCUSDT")

BTC == [first |-> "B", size |-> 7, name |-> "BTCUSDT"]
ETH == [first |-> "E", size |-> 7, name |-> "ETHUSDT"]
XRP == [first |-> "X", size |-> 7, name |-> "XRPUSDT"]
MCSymbolNames == {BTC, ETH, XRP}

X(name, type, action, px, sz) ==
  [symbol |-> name, type |-> type, action |-> action, px |-> px, sz |-> sz]
W(type, px, sz) == [type |-> type, px |-> px, sz |-> sz]

Refresh == [kind |-> "W", symbol |-> BTC, entries |-> <<W("BID", 28, 1), W("OFFER", 30, 1)>>]
\* Both sides move: a reader between the entries would see a crossed ladder.
Move    == [kind |-> "X", entries |-> <<X(BTC, "OFFER", "DELETE", 30, Missing),
                                        X(Missing, "BID", "CHANGE", 30, 2)>>]
\* An entry in the book, one that is skipped, and one that throws.
UnknownName == [kind |-> "X", entries |-> <<X(BTC, "BID", "NEW", 29, 2), X(ETH, "BID", "NEW", 30, 1),
                                            X(XRP, "BID", "NEW", 30, 1)>>]

MCMessages == {Refresh, Move, UnknownName}
=============================================================================
