--------------------------- MODULE OrderBookPromise ---------------------------
(***************************************************************************)
(* What an OrderBook promises whoever calls it, in every state it is in.   *)
(***************************************************************************)
EXTENDS OrderBookReference

CONSTANT Messages  \* the messages of the feed
ASSUME MessageAssumption == Messages \subseteq MessageType

VARIABLE book      \* bid_map_ and ask_map_

\* Each level ends up as the last entry that concerns it says, entries for
\* other instruments and other types leave no trace, a symbol holds until the
\* next one, and a message that throws has applied exactly the entries before
\* the bad one (order_book.cpp, apply_snapshot and apply_increment).
LastWriterWins ==
  \A m \in Messages, clear \in BOOLEAN :
    LET result == Apply(book, m, clear)
    IN  /\ result.thrown = ReferenceThrows(m)
        /\ result.book = ReferenceBook(book, m, clear)

\* to_vector loses and invents nothing: every level of each side is in one
\* row, best price first, and sentinels only fill the end of a column.
LadderIsTheBook == Shows(to_vector(book), book)
===============================================================================
