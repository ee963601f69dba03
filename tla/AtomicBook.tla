------------------------------ MODULE AtomicBook ------------------------------
(***************************************************************************)
(* What ui::OrderBookBox promises: the messages of the queue take effect   *)
(* one at a time, in the order of their lane, each as a whole; the screen  *)
(* only ever shows a book as it was between two messages; and until the    *)
(* box is stopped every message is applied, unless one fails.  A message   *)
(* that fails leaves what it did before failing and is the last applied.   *)
(***************************************************************************)
EXTENDS Sequences

CONSTANTS
  Lanes,                  \* the lanes of the queue
  Messages,               \* the messages of the feed
  IS_BOOK_CLEAR_NEEDED,   \* MAX_DEPTH = 1
  EmptyBook,              \* the book to start with
  Apply(_, _, _),         \* what a message makes of a book (see OrderBook)
  to_vector(_)            \* the rows of a book

VARIABLES queue,    \* messages not yet applied, lane by lane
          book,     \* the two price maps
          view,     \* the book as last read for the screen
          table,    \* the rows on the screen
          failed,   \* a message has thrown
          stopped   \* the box has been asked to stop
vars == <<queue, book, view, table, failed, stopped>>

Init == /\ queue = [l \in Lanes |-> <<>>]
        /\ book = EmptyBook
        /\ view = EmptyBook
        /\ table = <<>>
        /\ failed = FALSE
        /\ stopped = FALSE

Enqueue == /\ \E l \in Lanes, m \in Messages : queue' = [queue EXCEPT ![l] = Append(@, m)]
           /\ UNCHANGED <<book, view, table, failed, stopped>>

ApplyHead == \E l \in Lanes :
  /\ queue[l] # <<>> /\ ~failed
  /\ LET result == Apply(book, Head(queue[l]), IS_BOOK_CLEAR_NEEDED)
     IN  book' = result.book /\ failed' = result.thrown
  /\ queue' = [queue EXCEPT ![l] = Tail(@)]
  /\ UNCHANGED <<view, table, stopped>>

Read == /\ view' = book
        /\ UNCHANGED <<queue, book, table, failed, stopped>>

Draw == /\ table' = to_vector(view)
        /\ UNCHANGED <<queue, book, view, failed, stopped>>

Stop == /\ stopped' = TRUE
        /\ UNCHANGED <<queue, book, view, table, failed>>

Next == Enqueue \/ ApplyHead \/ Read \/ Draw \/ Stop

Safety == Init /\ [][Next]_vars
Spec == Safety /\ WF_vars(ApplyHead /\ ~stopped)
=============================================================================
