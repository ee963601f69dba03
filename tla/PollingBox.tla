------------------------------ MODULE PollingBox ------------------------------
(***************************************************************************)
(* What ui::OrderBookBox and ui::TradeBox have in common: the loop of      *)
(* poll_queue on the worker's jthread, the screen's loop on the main       *)
(* thread, and the way out of main.  A box extends this module with its    *)
(* data and with the steps that touch it; its threads meet in one queue,   *)
(* one mutex, the screen's events and the stop token.                      *)
(*                                                                         *)
(* moodycamel's queue keeps one lane per producing thread, first in, first *)
(* out within a lane only; each connection of a session has a thread.      *)
(***************************************************************************)
EXTENDS Integers, Sequences

CONSTANT Lanes       \* of the queue: one for each thread that fills it
ASSUME LanesAssumption == Lanes # {}

VARIABLES
  queue_,            \* FixApp's queue, which the FIX threads fill, lane by lane
  worker,            \* where the worker thread is in poll_queue
  thread_exception,  \* the box's thread_exception is set
  stop,              \* the worker's stop_token has been signalled
  mutex,             \* the mutex of the box's data: "free" or its holder
  redraw,            \* a posted event waits in the screen's queue
  ui                 \* where the main thread is in App::start and after it
boxVars == <<queue_, worker, thread_exception, stop, mutex, redraw, ui>>

\* The screen drops what is posted outside its loop.
LoopRuns == ui \notin {"starting", "quit", "stopped", "joining", "joined"}
\* The FIX thread has its queue until Worker::stop has returned.
FeedRuns == ui \notin {"stopped", "joining", "joined"}

\* OrderBookBox::start, TradeBox::start; App::start has not reached the loop.
BoxInit ==
  /\ queue_ = [l \in Lanes |-> <<>>]
  /\ worker = "check" /\ thread_exception = FALSE /\ stop = FALSE
  /\ mutex = "free" /\ redraw = FALSE /\ ui = "starting"

\* A FIX thread puts a message on the queue.
Receive(l, m) == /\ FeedRuns
                 /\ queue_' = [queue_ EXCEPT ![l] = Append(@, m)]
                 /\ UNCHANGED <<worker, thread_exception, stop, mutex, redraw, ui>>

-----------------------------------------------------------------------------
(* The worker thread.                                                      *)
Worker(from, to) == worker = from /\ worker' = to

CheckStop == /\ Worker("check", IF stop THEN "exited" ELSE "dequeue")
             /\ UNCHANGED <<queue_, thread_exception, stop, mutex, redraw, ui>>

\* try_dequeue takes the head of any lane.
Dequeue(l) == /\ Worker("dequeue", "lock")
              /\ queue_[l] # <<>> /\ queue_' = [queue_ EXCEPT ![l] = Tail(@)]
              /\ UNCHANGED <<thread_exception, stop, mutex, redraw, ui>>

QueueIsEmpty == \A l \in Lanes : queue_[l] = <<>>
DequeueNothing == /\ Worker("dequeue", "empty")
                  /\ QueueIsEmpty
                  /\ UNCHANGED <<queue_, thread_exception, stop, mutex, redraw, ui>>

\* Mutant: the inner loop forgets the stop check.
AfterEmpty_deaf == "dequeue"
\* The stop check of the inner loop; adaptive_backoff only takes time.
AfterEmpty == IF stop THEN "exited" ELSE "dequeue"
StopOrBackOff == /\ Worker("empty", AfterEmpty)
                 /\ UNCHANGED <<queue_, thread_exception, stop, mutex, redraw, ui>>

\* Mutant: what is posted during a frame is lost.
Posted_idle == redraw \/ ui = "idle"
\* screen_.post_event
Posted == redraw \/ LoopRuns
PostEvent == /\ Worker("post", "check")
             /\ redraw' = Posted
             /\ UNCHANGED <<queue_, thread_exception, stop, mutex, ui>>

\* The catch clauses: no event is posted and the thread ends.
Catch == /\ Worker("raised", "exited")
         /\ thread_exception' = TRUE
         /\ UNCHANGED <<queue_, stop, mutex, redraw, ui>>

PollStep == CheckStop \/ DequeueNothing \/ StopOrBackOff \/ PostEvent \/ Catch

LockForWriting(next) == /\ Worker("lock", next)
                        /\ mutex = "free" /\ mutex' = "worker"
                        /\ UNCHANGED <<queue_, thread_exception, stop, redraw, ui>>

-----------------------------------------------------------------------------
(* The main thread: the screen's loop (external), which renders the box    *)
(* after the events it has taken, then the way out of main.                *)
Ui(from, to) == ui = from /\ ui' = to

\* Entering the loop draws a first frame.
StartLoop == /\ Ui("starting", "lock")
             /\ UNCHANGED <<queue_, worker, thread_exception, stop, mutex, redraw>>

\* All waiting events are taken, then the frame is drawn.
BeginFrame == /\ Ui("idle", "lock")
              /\ redraw /\ redraw' = FALSE
              /\ UNCHANGED <<queue_, worker, thread_exception, stop, mutex>>

\* Mutant: to_vector, or the copy of the ring, without its lock_guard.
ReaderMayEnter_free == TRUE
ReaderMayEnter == mutex = "free"
LockForReading(next) == /\ Ui("lock", next)
                        /\ ReaderMayEnter /\ mutex' = "ui"
                        /\ UNCHANGED <<queue_, worker, thread_exception, stop, redraw>>

\* A key or a resize wants a frame as well.
UserEvent == /\ ui = "idle"
             /\ redraw' = TRUE
             /\ UNCHANGED <<queue_, worker, thread_exception, stop, mutex, ui>>

\* The user leaves the loop: App::start returns to main.
Quit == /\ Ui("idle", "quit")
        /\ redraw' = FALSE
        /\ UNCHANGED <<queue_, worker, thread_exception, stop, mutex>>

\* b_worker.stop() returns once the FIX thread has ended.
StopFeed == /\ Ui("quit", "stopped")
            /\ UNCHANGED <<queue_, worker, thread_exception, stop, mutex, redraw>>

\* The box's jthread is destroyed: it requests the stop, then joins.
RequestStop == /\ Ui("stopped", "joining")
               /\ stop' = TRUE
               /\ UNCHANGED <<queue_, worker, thread_exception, mutex, redraw>>

\* Mutant: a std::thread that the destructor detaches.
Joinable_detached == TRUE
Joinable == worker = "exited"
Join == /\ Ui("joining", "joined")
        /\ Joinable
        /\ UNCHANGED <<queue_, worker, thread_exception, stop, mutex, redraw>>

MainStep == StartLoop \/ BeginFrame \/ StopFeed \/ RequestStop \/ Join
UserStep == UserEvent \/ Quit

-----------------------------------------------------------------------------
\* Leaving the loop always ends the program: the worker notices the stop
\* request wherever it is, with messages still queued, and the join returns.
QuitEnds == ui = "quit" ~> ui = "joined"
=============================================================================
