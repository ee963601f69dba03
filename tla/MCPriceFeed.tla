----------------------------- MODULE MCPriceFeed -----------------------------
(***************************************************************************)
(* A market of two prices and one size, seen in full and at depth 1.  Two  *)
(* moves and two connections let an increment of the first one wait in its *)
(* lane, or another's, while the second one's snapshot is queued.          *)
(***************************************************************************)
EXTENDS PriceFeed

MCBTC == [first |-> "B", size |-> 7, name |-> "BTCUSDT"]
ETH == [first |-> "E", size |-> 7, name |-> "ETHUSDT"]
MCSymbolNames == {MCBTC, ETH}
MCSymbolLists == {<<MCBTC, ETH>>}
OneBid == {b \in VenueBooks : Cardinality(Offered(b, "BID")) = 1}
TwoPrices == 28 :> 28 @@ 30 :> 30
OneSize == 1 :> 1

T == INSTANCE Ticks
ASSUME ConversionAssumption ==
  /\ \A q \in DOMAIN PxTicks : PxTicks[q] = T!price_to_ticks(q, "BTCUSDT")
  /\ \A q \in DOMAIN SzTicks : SzTicks[q] = T!size_to_ticks(q, "BTCUSDT")
=============================================================================
