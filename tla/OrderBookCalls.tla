---------------------------- MODULE OrderBookCalls ----------------------------
(***************************************************************************)
(* One OrderBook driven through its public interface by one thread: any    *)
(* sequence of apply_snapshot and apply_increment calls.  In every book    *)
(* that such a sequence reaches, what each message does is compared with a *)
(* definition that has no loop, and what to_vector shows with the maps.    *)
(***************************************************************************)
EXTENDS OrderBookPromise

vars == <<book>>

Init == book = EmptyBook
apply_snapshot == \E m \in Messages :
  m.kind = "W" /\ book' = Apply(book, m, FALSE).book
\* The caller says whether a CHANGE clears its side: at depth 1 it does.
apply_increment == \E m \in Messages, is_book_clear_needed \in BOOLEAN :
  m.kind = "X" /\ book' = Apply(book, m, is_book_clear_needed).book
Next == apply_snapshot \/ apply_increment
Spec == Init /\ [][Next]_vars

-----------------------------------------------------------------------------
\* What apply_snapshot and apply_increment log when they meet another
\* instrument: "wrong symbol, skipping".  Messages whose entries all name
\* instruments other than BTCUSDT put nothing in the book.
NamesAnother(m) ==
  IF m.kind = "W" THEN m.symbol.name # "BTCUSDT"
  ELSE \A i \in DOMAIN m.entries :
         m.entries[i].symbol # Missing /\ m.entries[i].symbol.name # "BTCUSDT"
OtherInstrumentsAreSkipped == (\A m \in Messages : NamesAnother(m)) => book = EmptyBook
=============================================================================
