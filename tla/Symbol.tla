-------------------------------- MODULE Symbol --------------------------------
(***************************************************************************)
(* binance::Symbol (src/binance/symbol.h), and how the loops of OrderBook  *)
(* and TradeBox carry a symbol from one entry of a message to the next.    *)
(***************************************************************************)
EXTENDS Integers, FiniteSetsExt

CONSTANTS
  SymbolNames,  \* the symbol strings of the feed: [first, size, name] records
  NoSymbol,     \* std::nullopt of std::optional<SymbolEnum>
  Missing       \* an optional FIX field the entry does not carry

ASSUME NameAssumption ==
  /\ \A s \in SymbolNames : s.first \in STRING /\ s.size \in Nat
  /\ Missing \notin SymbolNames

Symbols == {"BTCUSDT", "ETHUSDT"}  \* SymbolEnum

(***************************************************************************)
(* Symbol::from_str: the "perfect hash" looks at the length and the first  *)
(* character only; it throws unless the name is Known.                     *)
(***************************************************************************)
Known(name) == name.size = 7 /\ name.first \in {"B", "E"}
from_str(name) == IF name.first = "B" THEN "BTCUSDT" ELSE "ETHUSDT"

\* Mutant: every entry is expected to name its symbol.
ReadsSymbol_always(e, i) == TRUE
\* The symbol is read from an entry that has one and from the first entry,
\* whether it has one or not; it holds for the entries that have none.
ReadsSymbol(e, i)  == i = 1 \/ e.symbol # Missing
SymbolThrows(e, i) == ReadsSymbol(e, i) /\ (e.symbol = Missing \/ ~Known(e.symbol))
SymbolAfter(e, i, symbol) == IF ReadsSymbol(e, i) THEN from_str(e.symbol) ELSE symbol

-----------------------------------------------------------------------------
(* What a whole message says, without the loop.                            *)

\* The name in force at entry i: the last one at or before it, entry 1
\* counting whether it has one or not.
NameAt(entries, i) ==
  entries[Max({j \in 1..i : j = 1 \/ entries[j].symbol # Missing})].symbol
IsBTC(name) == name # Missing /\ Known(name) /\ from_str(name) = "BTCUSDT"
BadName(entries, i) ==
  LET name == NameAt(entries, i) IN name = Missing \/ ~Known(name)
=============================================================================
