----------------------------- MODULE OrderBookBox -----------------------------
(***************************************************************************)
(* ui::OrderBookBox (src/ui/order_book_box.cpp): the worker thread that    *)
(* polls the order queue and updates core_book_, the FTXUI thread that     *)
(* renders it, and the FIX threads that fill the queue.                    *)
(*                                                                         *)
(* Every access to the maps happens in a critical section of OrderBook's   *)
(* mutex_.  A section is several steps here: the worker's is one step per  *)
(* entry of the message, the reader's one step per side.                   *)
(***************************************************************************)
EXTENDS OrderBookPromise, PollingBox

CONSTANTS
  MaxMessages,  \* bound: messages the FIX thread enqueues in a behaviour
  MAX_DEPTH     \* Config::MAX_DEPTH
ASSUME BoxAssumption ==
  MaxMessages \in Nat /\ MAX_DEPTH \in Nat

VARIABLES
  sent,            \* messages enqueued so far
  msg, i, symbol,  \* the worker's locals: the message, the entry, the sticky symbol
  origin,          \* history: the lane of the message
  copy,            \* what to_vector has copied of the two maps
  table            \* the rows on the screen
callVars  == <<book, i, symbol>>
frameVars == <<copy, table>>
dataVars  == <<sent, msg, origin, callVars, frameVars>>
vars == <<boxVars, dataVars>>

IS_BOOK_CLEAR_NEEDED == MAX_DEPTH = 1

WorkerPC == {"check", "dequeue", "empty", "lock", "begin", "entry", "post", "raised", "exited"}
UiPC == {"starting", "idle", "lock", "bids", "asks", "draw", "quit", "stopped", "joining", "joined"}

NoMsg == [kind |-> "X", entries |-> <<>>]
TypeOK ==
  /\ queue_ \in [Lanes -> Seq(Messages)]
  /\ sent \in 0..MaxMessages
  /\ stop \in BOOLEAN
  /\ mutex \in {"free", "worker", "ui"}
  /\ book \in BookType
  /\ worker \in WorkerPC
  /\ msg \in Messages \cup {NoMsg} /\ origin \in Lanes
  /\ i \in Nat \ {0}
  /\ symbol \in Symbols \cup {NoSymbol}
  /\ thread_exception \in BOOLEAN
  /\ redraw \in BOOLEAN
  /\ ui \in UiPC
  /\ copy \in BookType

Init ==
  /\ BoxInit
  /\ sent = 0 /\ book = EmptyBook
  /\ msg = NoMsg /\ origin = (CHOOSE l \in Lanes : TRUE) /\ i = 1 /\ symbol = NoSymbol
  /\ copy = EmptyBook /\ table = <<>>

\* The FIX threads: FixApp::onMessage.
Enqueue ==
  /\ sent < MaxMessages
  /\ \E l \in Lanes, m \in Messages : Receive(l, m)
  /\ sent' = sent + 1
  /\ UNCHANGED <<msg, origin, callVars, frameVars>>

-----------------------------------------------------------------------------
(* The worker thread: OrderBookBox::poll_queue.                            *)
Take == \E l \in Lanes : /\ Dequeue(l)
                         /\ msg' = Head(queue_[l]) /\ origin' = l
                         /\ UNCHANGED <<sent, callVars, frameVars>>

\* std::visit calls apply_snapshot or apply_increment; both start with the lock.
LockBook == LockForWriting("begin") /\ UNCHANGED dataVars

\* Mutant: a mutex locked and unlocked by hand, which a throw leaves locked.
MutexAfter_leaks(acc) == "worker"
\* A throw unwinds the lock_guard.
MutexAfter(acc) == IF acc.thrown THEN "free" ELSE "worker"
\* Take up the outcome of a step of apply_*.
Continue(acc, next_i) ==
  /\ book' = acc.book /\ symbol' = acc.symbol /\ i' = next_i
  /\ worker' = IF acc.thrown THEN "raised" ELSE "entry"
  /\ mutex' = MutexAfter(acc)
  /\ UNCHANGED <<queue_, thread_exception, stop, redraw, ui, sent, msg, origin, frameVars>>

BeginCall == worker = "begin" /\ Continue(Begin(book, msg), 1)

InCall == Progress(book, symbol, FALSE)
ApplyEntry ==
  /\ worker = "entry" /\ Iterates(InCall, msg, i)
  /\ Continue(Entry(InCall, msg, i, IS_BOOK_CLEAR_NEEDED), i + 1)

EndCall ==
  /\ Worker("entry", "post") /\ ~Iterates(InCall, msg, i)
  /\ mutex' = "free"
  /\ UNCHANGED <<queue_, thread_exception, stop, redraw, ui, dataVars>>

Poll == PollStep /\ UNCHANGED dataVars
WorkerStep == Poll \/ Take \/ LockBook \/ BeginCall \/ ApplyEntry \/ EndCall

-----------------------------------------------------------------------------
(* The main thread renders to_table, which calls to_vector.                *)
LockForCopy == LockForReading("bids") /\ UNCHANGED dataVars

ReadBids ==
  /\ Ui("bids", "asks")
  /\ copy' = [copy EXCEPT !["BID"] = book["BID"]]
  /\ UNCHANGED <<queue_, worker, thread_exception, stop, mutex, redraw, sent, msg, origin, callVars, table>>

\* to_vector returns the rows by value and releases the mutex.
ReadAsks ==
  /\ Ui("asks", "draw")
  /\ copy' = [copy EXCEPT !["OFFER"] = book["OFFER"]]
  /\ mutex' = "free"
  /\ UNCHANGED <<queue_, worker, thread_exception, stop, redraw, sent, msg, origin, callVars, table>>

Draw ==
  /\ Ui("draw", "idle")
  /\ table' = to_vector(copy)
  /\ UNCHANGED <<queue_, worker, thread_exception, stop, mutex, redraw, sent, msg, origin, callVars, copy>>

User   == UserStep /\ UNCHANGED dataVars
UiStep == (MainStep /\ UNCHANGED dataVars) \/ LockForCopy \/ ReadBids \/ ReadAsks \/ Draw
Ended  == ui = "joined" /\ UNCHANGED vars

Next == Enqueue \/ WorkerStep \/ User \/ UiStep \/ Ended

(***************************************************************************)
(* Neither thread is suspended for good, and neither loses the race for    *)
(* the mutex for ever.  Nothing is assumed of the feed or of the user.     *)
(***************************************************************************)
Fairness == /\ WF_vars(WorkerStep) /\ SF_vars(LockBook)
            /\ WF_vars(UiStep)     /\ SF_vars(LockForCopy)
Spec == Init /\ [][Next]_vars /\ Fairness

-----------------------------------------------------------------------------
\* A reader and a writer of the maps hold the mutex, each while it is inside
\* to_vector or apply_*, and lose it on every way out, a throw included.
LockDiscipline ==
  /\ mutex = "worker" <=> worker \in {"begin", "entry"}
  /\ mutex = "ui" <=> ui \in {"bids", "asks"}

\* No update is left unseen: a screen that no longer shows the book has an
\* event waiting, or is about to be drawn, or the worker has yet to post; the
\* exceptions are a loop that does not run and a worker that has thrown.
StaleScreenIsRedrawn ==
  table # to_vector(book) =>
    \/ redraw
    \/ ui # "idle"
    \/ worker \in {"begin", "entry", "post", "raised"}
    \/ thread_exception

\* Once the box is destroyed (jthread joined) nothing touches its members or
\* posts to its screen.
NothingRunsAfterJoin == [][ui = "joined" => UNCHANGED vars]_vars

\* The updates that threads interleave with are atomic for every observer:
\* the box implements AtomicBook.  A message takes effect when the worker
\* takes the mutex; what is left of its call is then already in the abstract
\* book.  Fairness of the abstract box says that no message is left behind.
Pending(acc) == Remaining(acc, msg, i, IS_BOOK_CLEAR_NEEDED)
Outcome == CASE worker = "begin" -> Apply(book, msg, IS_BOOK_CLEAR_NEEDED)
             [] worker = "entry" -> Pending(InCall)
             [] OTHER -> Progress(book, symbol, worker = "raised" \/ thread_exception)
\* Not yet applied: what the worker has taken but not begun stays at the head
\* of its lane.  What a frame in progress reads is the book.
Unapplied == [l \in Lanes |-> IF worker = "lock" /\ l = origin THEN <<msg>> \o queue_[l]
                             ELSE queue_[l]]
Seen == IF ui \in {"bids", "asks"} THEN book ELSE copy
Abstract == INSTANCE AtomicBook WITH
  queue   <- Unapplied,
  book    <- Outcome.book,
  failed  <- Outcome.thrown,
  view    <- Seen,
  table   <- table,
  stopped <- stop
ImplementsAtomicBook == Abstract!Spec

\* When the feed has gone quiet the screen comes to show a book with every
\* message in it, unless the worker has failed or the user leaves.
QueueReachesScreen ==
  ~QueueIsEmpty ~> \/ QueueIsEmpty /\ table = to_vector(book)
                   \/ thread_exception
                   \/ ui \in {"quit", "stopped", "joining", "joined"}
=============================================================================
