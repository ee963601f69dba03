------------------------- MODULE OrderBookBox_proofs -------------------------
(***************************************************************************)
(* Safety of OrderBookBox for every feed, every conversion to ticks and    *)
(* every number of messages.                                               *)
(***************************************************************************)
EXTENDS PriceSystem, OrderBook_proofs

-----------------------------------------------------------------------------
(* Type correctness.                                                       *)

\* Both outcomes of a step of a call keep the variables in their types.
LEMMA ContinueType ==
  ASSUME TypeOK, NEW acc \in ProgressType, NEW n \in Nat \ {0}, Continue(acc, n)
  PROVE  /\ book' \in BookType
         /\ symbol' \in Symbols \cup {NoSymbol}
         /\ i' \in Nat \ {0}
         /\ worker' \in WorkerPC
         /\ mutex' \in {"free", "worker", "ui"}
         /\ UNCHANGED <<queue_, thread_exception, stop, redraw, ui, sent, msg, origin, frameVars>>
BY DEF Continue, MutexAfter, ProgressType, WorkerPC

LEMMA MessageInCall == TypeOK => msg \in MessageType
<1>1. NoMsg \in MessageType
  BY EmptySeq DEF NoMsg, MessageType, Increments
<1> QED BY <1>1, MessageAssumption DEF TypeOK

LEMMA TypeInit == Init => TypeOK
<1>1. <<>> \in Seq(Messages) /\ 0 \in 0..MaxMessages /\ 1 \in Nat \ {0}
  BY BoxAssumption, EmptySeq
<1>2. (CHOOSE l \in Lanes : TRUE) \in Lanes
  BY LanesAssumption
<1> QED
  BY <1>1, <1>2, EmptyBookType DEF Init, BoxInit, TypeOK, WorkerPC, UiPC

LEMMA TypeStep == TypeOK /\ [Next]_vars => TypeOK'
<1> SUFFICES ASSUME TypeOK, [Next]_vars PROVE TypeOK'
  OBVIOUS
<1> USE DEF TypeOK, Worker, Ui, WorkerPC, UiPC, callVars, frameVars, dataVars
<1>1. CASE Enqueue
  <2> PICK l \in Lanes, m \in Messages : Receive(l, m)
    BY <1>1 DEF Enqueue
  <2>1. queue_' \in [Lanes -> Seq(Messages)]
    BY DEF Receive
  <2>2. sent' \in 0..MaxMessages
    BY <1>1, BoxAssumption DEF Enqueue
  <2> QED BY <1>1, <2>1, <2>2 DEF Enqueue, Receive
<1>2. CASE Poll
  <2>1. CASE CheckStop        BY <1>2, <2>1 DEF Poll, CheckStop
  <2>2. CASE DequeueNothing   BY <1>2, <2>2 DEF Poll, DequeueNothing
  <2>3. CASE StopOrBackOff    BY <1>2, <2>3 DEF Poll, StopOrBackOff, AfterEmpty
  <2>4. CASE PostEvent        BY <1>2, <2>4 DEF Poll, PostEvent, Posted, LoopRuns
  <2>5. CASE Catch            BY <1>2, <2>5 DEF Poll, Catch
  <2> QED BY <1>2, <2>1, <2>2, <2>3, <2>4, <2>5 DEF Poll, PollStep
<1>3. CASE Take
  <2> PICK l \in Lanes : /\ Dequeue(l) /\ msg' = Head(queue_[l]) /\ origin' = l
                        /\ UNCHANGED <<sent, callVars, frameVars>>
    BY <1>3 DEF Take
  <2>1. queue_[l] \in Seq(Messages) /\ queue_[l] # <<>>
    BY DEF Dequeue
  <2>2. msg' \in Messages /\ queue_' \in [Lanes -> Seq(Messages)]
    BY <2>1 DEF Dequeue
  <2> QED BY <2>2 DEF Dequeue
<1>4. CASE LockBook         BY <1>4 DEF LockBook, LockForWriting
<1>5. CASE BeginCall
  <2>1. Begin(book, msg) \in ProgressType
    BY BeginType, MessageInCall
  <2> QED BY <1>5, <2>1, ContinueType DEF BeginCall
<1>6. CASE ApplyEntry
  <2>1. InCall \in ProgressType
    BY DEF InCall, Progress, ProgressType
  <2>2. Entry(InCall, msg, i, IS_BOOK_CLEAR_NEEDED) \in ProgressType
    BY <1>6, <2>1, EntryType, MessageInCall DEF ApplyEntry, IS_BOOK_CLEAR_NEEDED
  <2> QED BY <1>6, <2>2, ContinueType DEF ApplyEntry
<1>7. CASE EndCall          BY <1>7 DEF EndCall
<1>8. CASE User             BY <1>8 DEF User, UserStep, UserEvent, Quit
<1>9. CASE MainStep /\ UNCHANGED dataVars
  <2>1. CASE StartLoop        BY <1>9, <2>1 DEF StartLoop
  <2>2. CASE BeginFrame       BY <1>9, <2>2 DEF BeginFrame
  <2>3. CASE StopFeed         BY <1>9, <2>3 DEF StopFeed
  <2>4. CASE RequestStop      BY <1>9, <2>4 DEF RequestStop
  <2>5. CASE Join             BY <1>9, <2>5 DEF Join
  <2> QED BY <1>9, <2>1, <2>2, <2>3, <2>4, <2>5 DEF MainStep
<1>10. CASE LockForCopy     BY <1>10 DEF LockForCopy, LockForReading
<1>11. CASE ReadBids        BY <1>11 DEF ReadBids, BookType, Sides
<1>12. CASE ReadAsks        BY <1>12 DEF ReadAsks, BookType, Sides
<1>13. CASE Draw            BY <1>13 DEF Draw
<1>14. CASE UNCHANGED vars  BY <1>14 DEF vars, boxVars
<1> QED
  BY <1>1, <1>2, <1>3, <1>4, <1>5, <1>6, <1>7, <1>8, <1>9, <1>10, <1>11, <1>12, <1>13, <1>14
  DEF Next, WorkerStep, UiStep, Ended

\* Every variable keeps its type, in particular the maps never hold anything
\* but sizes at the keys of quoted prices, whatever throws in the middle.
THEOREM TypeCorrect == Spec => []TypeOK
BY TypeInit, TypeStep, PTL DEF Spec

-----------------------------------------------------------------------------
(* The mutex.                                                              *)

LEMMA LockStep == TypeOK /\ LockDiscipline /\ [Next]_vars => LockDiscipline'
<1> SUFFICES ASSUME TypeOK, LockDiscipline, [Next]_vars PROVE LockDiscipline'
  OBVIOUS
<1> USE DEF LockDiscipline, Worker, Ui
<1>1. CASE Enqueue          BY <1>1 DEF Enqueue, Receive
<1>2. CASE Poll
  BY <1>2 DEF Poll, PollStep, CheckStop, DequeueNothing, StopOrBackOff, AfterEmpty, PostEvent, Catch
<1>3. CASE Take             BY <1>3 DEF Take, Dequeue
<1>4. CASE LockBook         BY <1>4 DEF LockBook, LockForWriting
<1>5. CASE BeginCall        BY <1>5 DEF BeginCall, Continue, MutexAfter
<1>6. CASE ApplyEntry       BY <1>6 DEF ApplyEntry, Continue, MutexAfter
<1>7. CASE EndCall          BY <1>7 DEF EndCall
<1>8. CASE User             BY <1>8 DEF User, UserStep, UserEvent, Quit
<1>9. CASE MainStep /\ UNCHANGED dataVars
  BY <1>9 DEF MainStep, StartLoop, BeginFrame, StopFeed, RequestStop, Join
<1>10. CASE LockForCopy     BY <1>10 DEF LockForCopy, LockForReading, ReaderMayEnter
<1>11. CASE ReadBids        BY <1>11 DEF ReadBids
<1>12. CASE ReadAsks        BY <1>12 DEF ReadAsks
<1>13. CASE Draw            BY <1>13 DEF Draw
<1>14. CASE UNCHANGED vars  BY <1>14 DEF vars, boxVars
<1> QED
  BY <1>1, <1>2, <1>3, <1>4, <1>5, <1>6, <1>7, <1>8, <1>9, <1>10, <1>11, <1>12, <1>13, <1>14
  DEF Next, WorkerStep, UiStep, Ended

\* The reader and the worker are never inside the maps together, and whoever
\* leaves them, by return or by throw, has released the mutex.
THEOREM MutexHeld == Spec => []LockDiscipline
<1>1. Init => LockDiscipline
  BY DEF Init, BoxInit, LockDiscipline
<1> QED BY <1>1, LockStep, TypeCorrect, PTL DEF Spec

-----------------------------------------------------------------------------
(***************************************************************************)
(* No lost redraw.  StaleScreenIsRedrawn speaks of the screen and is not   *)
(* inductive: between reading the maps and drawing, the frame holds a copy *)
(* that the worker may outdate.  CopyIsFresh says that when it does, the   *)
(* worker has left the same trace it must leave for an outdated screen.    *)
(***************************************************************************)
Noticed == \/ redraw
           \/ worker \in {"begin", "entry", "post", "raised"}
           \/ thread_exception
CopyIsFresh ==
  /\ ui = "asks" => copy["BID"] = book["BID"]
  /\ ui = "draw" => copy = book \/ Noticed
IInv == TypeOK /\ LockDiscipline /\ CopyIsFresh /\ StaleScreenIsRedrawn

\* A step that leaves the book, the frame and what notices a change alone.
LEMMA QuietStep ==
  ASSUME CopyIsFresh, StaleScreenIsRedrawn, UNCHANGED <<book, copy, table>>,
         ui' = ui, Noticed => Noticed'
  PROVE  CopyIsFresh' /\ StaleScreenIsRedrawn'
BY DEF CopyIsFresh, StaleScreenIsRedrawn, Noticed

\* A step of apply_* ends where the change is still to be announced.
LEMMA WriteStep ==
  ASSUME LockDiscipline, worker \in {"begin", "entry"}, UNCHANGED <<copy, table, ui>>,
         worker' \in {"entry", "raised"}
  PROVE  CopyIsFresh' /\ StaleScreenIsRedrawn'
BY DEF CopyIsFresh, StaleScreenIsRedrawn, Noticed, LockDiscipline

LEMMA FrameStep ==
  ASSUME IInv, [Next]_vars
  PROVE  CopyIsFresh' /\ StaleScreenIsRedrawn'
<1> USE DEF IInv, Worker, Ui, callVars, frameVars, dataVars
<1>1. CASE Enqueue          BY <1>1, QuietStep DEF Enqueue, Receive, Noticed
<1>2. CASE Poll
  <2>1. CASE CheckStop        BY <1>2, <2>1, QuietStep DEF Poll, CheckStop, Noticed
  <2>2. CASE DequeueNothing   BY <1>2, <2>2, QuietStep DEF Poll, DequeueNothing, Noticed
  <2>3. CASE StopOrBackOff    BY <1>2, <2>3, QuietStep DEF Poll, StopOrBackOff, AfterEmpty, Noticed
  <2>4. CASE PostEvent
    <3>1. LoopRuns => redraw'
      BY <2>4 DEF PostEvent, Posted
    <3>2. CASE LoopRuns
      BY <1>2, <2>4, <3>1, <3>2, QuietStep DEF Poll, PostEvent, Noticed
    <3>3. CASE ~LoopRuns
      BY <1>2, <2>4, <3>3 DEF Poll, PostEvent, LoopRuns, CopyIsFresh, StaleScreenIsRedrawn
    <3> QED BY <3>2, <3>3
  <2>5. CASE Catch            BY <1>2, <2>5, QuietStep DEF Poll, Catch, Noticed
  <2> QED BY <1>2, <2>1, <2>2, <2>3, <2>4, <2>5 DEF Poll, PollStep
<1>3. CASE Take             BY <1>3, QuietStep DEF Take, Dequeue, Noticed
<1>4. CASE LockBook         BY <1>4, QuietStep DEF LockBook, LockForWriting, Noticed
<1>5. CASE BeginCall        BY <1>5, WriteStep DEF BeginCall, Continue
<1>6. CASE ApplyEntry       BY <1>6, WriteStep DEF ApplyEntry, Continue
<1>7. CASE EndCall          BY <1>7, QuietStep DEF EndCall, Noticed
<1>8. CASE User
  <2>1. CASE UserEvent        BY <1>8, <2>1, QuietStep DEF User, UserEvent, Noticed
  <2>2. CASE Quit             BY <1>8, <2>2 DEF User, Quit, CopyIsFresh, StaleScreenIsRedrawn
  <2> QED BY <1>8, <2>1, <2>2 DEF User, UserStep
<1>9. CASE MainStep /\ UNCHANGED dataVars
  BY <1>9 DEF MainStep, StartLoop, BeginFrame, StopFeed, RequestStop, Join,
              CopyIsFresh, StaleScreenIsRedrawn
<1>10. CASE LockForCopy
  BY <1>10 DEF LockForCopy, LockForReading, CopyIsFresh, StaleScreenIsRedrawn
<1>11. CASE ReadBids
  <2>1. copy'["BID"] = book["BID"]
    BY <1>11 DEF ReadBids, TypeOK, BookType, Sides
  <2> QED BY <1>11, <2>1 DEF ReadBids, CopyIsFresh, StaleScreenIsRedrawn
<1>12. CASE ReadAsks
  <2>1. copy' = book
    BY <1>12 DEF ReadAsks, TypeOK, BookType, Sides, CopyIsFresh
  <2> QED BY <1>12, <2>1 DEF ReadAsks, CopyIsFresh, StaleScreenIsRedrawn
<1>13. CASE Draw
  <2>1. copy = book \/ Noticed
    BY <1>13 DEF Draw, CopyIsFresh
  <2>2. table' = to_vector(copy) /\ book' = book /\ ui' = "idle"
    BY <1>13 DEF Draw
  <2>3. Noticed => Noticed'
    BY <1>13 DEF Draw, Noticed
  <2> QED BY <2>1, <2>2, <2>3 DEF Noticed, CopyIsFresh, StaleScreenIsRedrawn
<1>14. CASE UNCHANGED vars  BY <1>14, QuietStep DEF vars, boxVars, Noticed
<1> QED
  BY <1>1, <1>2, <1>3, <1>4, <1>5, <1>6, <1>7, <1>8, <1>9, <1>10, <1>11, <1>12, <1>13, <1>14
  DEF Next, WorkerStep, UiStep, Ended

\* However the worker, the user and the screen interleave, an update of the
\* book that the screen does not show yet has a frame coming for it, unless
\* the loop does not run or the worker has ended with an exception.
THEOREM NoLostRedraw == Spec => []StaleScreenIsRedrawn
<1>1. Init => IInv
  <2>1. Init => CopyIsFresh /\ StaleScreenIsRedrawn
    BY DEF Init, BoxInit, CopyIsFresh, StaleScreenIsRedrawn
  <2>2. Init => TypeOK
    BY TypeInit
  <2>3. Init => LockDiscipline
    BY DEF Init, BoxInit, LockDiscipline
  <2> QED BY <2>1, <2>2, <2>3 DEF IInv
<1>2. IInv /\ [Next]_vars => IInv'
  BY TypeStep, LockStep, FrameStep DEF IInv
<1>3. IInv => StaleScreenIsRedrawn
  BY DEF IInv
<1> QED BY <1>1, <1>2, <1>3, PTL DEF Spec

-----------------------------------------------------------------------------
(***************************************************************************)
(* The end.  NothingRunsAfterJoin is about the steps of three threads; what*)
(* it rests on is that the main thread only gets past the join when the    *)
(* worker has returned, and that a worker that has returned takes no step. *)
(***************************************************************************)
JoinedAfterExit == ui = "joined" => worker = "exited"

LEMMA JoinStep == JoinedAfterExit /\ [Next]_vars => JoinedAfterExit'
<1> SUFFICES ASSUME JoinedAfterExit, [Next]_vars PROVE JoinedAfterExit'
  OBVIOUS
<1> USE DEF JoinedAfterExit, Worker, Ui
<1>1. CASE Enqueue          BY <1>1 DEF Enqueue, Receive
<1>2. CASE Poll
  BY <1>2 DEF Poll, PollStep, CheckStop, DequeueNothing, StopOrBackOff, PostEvent, Catch
<1>3. CASE Take             BY <1>3 DEF Take, Dequeue
<1>4. CASE LockBook         BY <1>4 DEF LockBook, LockForWriting
<1>5. CASE BeginCall        BY <1>5 DEF BeginCall, Continue
<1>6. CASE ApplyEntry       BY <1>6 DEF ApplyEntry, Continue
<1>7. CASE EndCall          BY <1>7 DEF EndCall
<1>8. CASE User             BY <1>8 DEF User, UserStep, UserEvent, Quit
<1>9. CASE MainStep /\ UNCHANGED dataVars
  BY <1>9 DEF MainStep, StartLoop, BeginFrame, StopFeed, RequestStop, Join, Joinable
<1>10. CASE LockForCopy     BY <1>10 DEF LockForCopy, LockForReading
<1>11. CASE ReadBids        BY <1>11 DEF ReadBids
<1>12. CASE ReadAsks        BY <1>12 DEF ReadAsks
<1>13. CASE Draw            BY <1>13 DEF Draw
<1>14. CASE UNCHANGED vars  BY <1>14 DEF vars, boxVars
<1> QED
  BY <1>1, <1>2, <1>3, <1>4, <1>5, <1>6, <1>7, <1>8, <1>9, <1>10, <1>11, <1>12, <1>13, <1>14
  DEF Next, WorkerStep, UiStep, Ended

\* No thread has a step left once the jthread has been joined.
LEMMA NoStepAfterJoin ==
  ASSUME JoinedAfterExit, [Next]_vars, ui = "joined"
  PROVE  UNCHANGED vars
<1> USE DEF JoinedAfterExit, Worker, Ui
<1>1. ~Enqueue
  BY DEF Enqueue, Receive, FeedRuns
<1>2. ~WorkerStep
  BY DEF WorkerStep, Poll, PollStep, CheckStop, DequeueNothing, StopOrBackOff, PostEvent, Catch,
         Take, Dequeue, LockBook, LockForWriting, BeginCall, ApplyEntry, EndCall
<1>3. ~User
  BY DEF User, UserStep, UserEvent, Quit
<1>4. ~UiStep
  BY DEF UiStep, MainStep, StartLoop, BeginFrame, StopFeed, RequestStop, Join, LockForCopy,
         LockForReading, ReadBids, ReadAsks, Draw
<1> QED BY <1>1, <1>2, <1>3, <1>4 DEF Next, Ended

\* After the destruction of the box nothing reads or writes its members, posts
\* to its screen or takes from its queue.
THEOREM QuietAfterJoin == Spec => NothingRunsAfterJoin
<1>1. Init => JoinedAfterExit
  BY DEF Init, BoxInit, JoinedAfterExit
<1>2. JoinedAfterExit /\ [Next]_vars => [ui = "joined" => UNCHANGED vars]_vars
  BY NoStepAfterJoin
<1> QED BY <1>1, <1>2, JoinStep, PTL DEF Spec, NothingRunsAfterJoin

-----------------------------------------------------------------------------
(***************************************************************************)
(* The box implements AtomicBook.  The abstract book is the outcome of the *)
(* call in progress, so that only the step that takes the mutex changes    *)
(* it: every step of a call leaves the outcome as it is, because the loop  *)
(* unrolls from its front (RemainingStep, RemainingEnd).  What a frame is  *)
(* drawn from is the book as it was when the frame took the mutex, which   *)
(* nothing changes until the second side has been read.                    *)
(***************************************************************************)
ThrownIsLast == thread_exception => worker = "exited"
RInv == IInv /\ ThrownIsLast

LEMMA ThrownStep == ThrownIsLast /\ [Next]_vars => ThrownIsLast'
<1> SUFFICES ASSUME ThrownIsLast, [Next]_vars PROVE ThrownIsLast'
  OBVIOUS
<1> USE DEF ThrownIsLast, Worker, Ui
<1>1. CASE Enqueue          BY <1>1 DEF Enqueue, Receive
<1>2. CASE Poll
  BY <1>2 DEF Poll, PollStep, CheckStop, DequeueNothing, StopOrBackOff, PostEvent, Catch
<1>3. CASE Take             BY <1>3 DEF Take, Dequeue
<1>4. CASE LockBook         BY <1>4 DEF LockBook, LockForWriting
<1>5. CASE BeginCall        BY <1>5 DEF BeginCall, Continue
<1>6. CASE ApplyEntry       BY <1>6 DEF ApplyEntry, Continue
<1>7. CASE EndCall          BY <1>7 DEF EndCall
<1>8. CASE User             BY <1>8 DEF User, UserStep, UserEvent, Quit
<1>9. CASE MainStep /\ UNCHANGED dataVars
  BY <1>9 DEF MainStep, StartLoop, BeginFrame, StopFeed, RequestStop, Join
<1>10. CASE LockForCopy     BY <1>10 DEF LockForCopy, LockForReading
<1>11. CASE ReadBids        BY <1>11 DEF ReadBids
<1>12. CASE ReadAsks        BY <1>12 DEF ReadAsks
<1>13. CASE Draw            BY <1>13 DEF Draw
<1>14. CASE UNCHANGED vars  BY <1>14 DEF vars, boxVars
<1> QED
  BY <1>1, <1>2, <1>3, <1>4, <1>5, <1>6, <1>7, <1>8, <1>9, <1>10, <1>11, <1>12, <1>13, <1>14
  DEF Next, WorkerStep, UiStep, Ended

LEMMA RInvInit == Init => RInv
<1>1. Init => IInv
  BY TypeInit DEF Init, BoxInit, LockDiscipline, CopyIsFresh, StaleScreenIsRedrawn, IInv
<1> QED BY <1>1 DEF Init, BoxInit, RInv, ThrownIsLast

LEMMA RInvStep == RInv /\ [Next]_vars => RInv'
BY TypeStep, LockStep, FrameStep, ThrownStep DEF RInv, IInv

\* A step of the worker outside apply_* and one of the main thread outside
\* to_vector have no part in the outcome.
LEMMA QuietOutcome ==
  ASSUME UNCHANGED <<book, symbol>>, worker \notin {"begin", "entry"},
         worker' \notin {"begin", "entry"},
         (worker = "raised" \/ thread_exception) <=> (worker' = "raised" \/ thread_exception')
  PROVE  Outcome' = Outcome
BY DEF Outcome, Progress

LEMMA SameOutcome ==
  ASSUME UNCHANGED <<book, symbol, i, msg, worker, thread_exception>>
  PROVE  Outcome' = Outcome
BY DEF Outcome, Pending, InCall

\* A step of a call takes up a part of what was left of it.
LEMMA ContinuedOutcome ==
  ASSUME RInv, NEW acc \in ProgressType, NEW n \in Nat \ {0}, Continue(acc, n),
         Outcome = Remaining(acc, msg, n, IS_BOOK_CLEAR_NEEDED), worker # "exited"
  PROVE  Outcome' = Outcome
<1>0. /\ book' = acc.book /\ symbol' = acc.symbol /\ i' = n /\ msg' = msg
      /\ worker' = IF acc.thrown THEN "raised" ELSE "entry"
  BY DEF Continue, frameVars
<1>1. CASE acc.thrown
  <2>1. Outcome = acc
    <3>1. ~Iterates(acc, msg, n)
      BY <1>1 DEF Iterates
    <3>2. msg \in MessageType /\ IS_BOOK_CLEAR_NEEDED \in BOOLEAN
      BY MessageInCall DEF RInv, IInv, IS_BOOK_CLEAR_NEEDED
    <3> QED BY <3>1, <3>2, RemainingEnd
  <2>2. Outcome' = Progress(acc.book, acc.symbol, TRUE)
    BY <1>0, <1>1 DEF Outcome
  <2> QED BY <1>1, <2>1, <2>2 DEF Progress, ProgressType
<1>2. CASE ~acc.thrown
  <2>1. Outcome' = Remaining(Progress(acc.book, acc.symbol, FALSE), msg, n, IS_BOOK_CLEAR_NEEDED)
    BY <1>0, <1>2 DEF Outcome, Pending, InCall
  <2>2. Progress(acc.book, acc.symbol, FALSE) = acc
    BY <1>2 DEF Progress, ProgressType
  <2> QED BY <2>1, <2>2
<1> QED BY <1>1, <1>2

LEMMA Mapped ==
  ASSUME Unapplied' = Unapplied, Outcome' = Outcome, Seen' = Seen, table' = table, stop' = stop
  PROVE  UNCHANGED Abstract!vars
BY DEF Abstract!vars, Unapplied, Seen

\* A message that is received joins its lane, also behind one that the worker
\* has in hand.
LEMMA EnqueueMapped ==
  ASSUME RInv, NEW l \in Lanes, NEW m \in Messages, Receive(l, m),
         UNCHANGED <<msg, origin, callVars, frameVars>>
  PROVE  /\ Unapplied' = [Unapplied EXCEPT ![l] = Append(@, m)]
         /\ Outcome' = Outcome /\ Seen' = Seen /\ table' = table /\ stop' = stop
<1> USE DEF callVars, frameVars
<1>0. TypeOK
  BY DEF RInv, IInv
<1>1. Unapplied' = [Unapplied EXCEPT ![l] = Append(@, m)]
  <2>1. queue_ \in [Lanes -> Seq(Messages)] /\ msg' = msg /\ origin' = origin /\ worker' = worker
    BY <1>0 DEF Receive, TypeOK
  <2>2. queue_' = [queue_ EXCEPT ![l] = Append(@, m)]
    BY DEF Receive
  <2>3. ASSUME NEW k \in Lanes
        PROVE  Unapplied'[k] = IF k = l THEN Append(Unapplied[k], m) ELSE Unapplied[k]
    <3>1. queue_[k] \in Seq(Messages) /\ queue_'[k] = IF k = l THEN Append(queue_[k], m) ELSE queue_[k]
      BY <2>1, <2>2
    <3>2. CASE worker = "lock" /\ k = origin
      <4>1. msg \in Messages \cup {NoMsg}
        BY <1>0 DEF TypeOK
      <4>2. <<msg>> \o Append(queue_[k], m) = Append(<<msg>> \o queue_[k], m)
        BY <3>1, <4>1
      <4> QED BY <2>1, <3>1, <3>2, <4>2 DEF Unapplied
    <3>3. CASE ~(worker = "lock" /\ k = origin)
      BY <2>1, <3>1, <3>3 DEF Unapplied
    <3> QED BY <3>2, <3>3
  <2> QED BY <2>3 DEF Unapplied
<1>2. Outcome' = Outcome
  BY SameOutcome DEF Receive
<1>3. Seen' = Seen /\ table' = table /\ stop' = stop
  BY DEF Receive, Seen
<1> QED BY <1>1, <1>2, <1>3

\* A step of the worker or of the main thread is one of the abstract box other
\* than Enqueue, or none.
LEMMA BoxMapped ==
  ASSUME RInv, RInv', WorkerStep \/ User \/ UiStep \/ Ended
  PROVE  \/ Abstract!ApplyHead \/ Abstract!Read \/ Abstract!Draw \/ Abstract!Stop
         \/ UNCHANGED Abstract!vars
<1> USE DEF Worker, Ui, callVars, frameVars, dataVars
<1>0. TypeOK /\ LockDiscipline /\ CopyIsFresh /\ ThrownIsLast
  BY DEF RInv, IInv
<1>c. msg \in MessageType /\ IS_BOOK_CLEAR_NEEDED \in BOOLEAN /\ book \in BookType
      /\ i \in Nat \ {0} /\ InCall \in ProgressType
  BY <1>0, MessageInCall DEF IS_BOOK_CLEAR_NEEDED, TypeOK, InCall, Progress, ProgressType
<1>2. CASE Poll
  <2>1. Seen' = Seen /\ table' = table /\ stop' = stop /\ UNCHANGED <<book, symbol>>
    BY <1>2 DEF Poll, PollStep, CheckStop, DequeueNothing, StopOrBackOff, PostEvent, Catch, Seen
  <2>2. worker \notin {"begin", "entry", "lock"} /\ worker' \notin {"begin", "entry", "lock"}
    BY <1>2 DEF Poll, PollStep, CheckStop, DequeueNothing, StopOrBackOff, AfterEmpty, PostEvent, Catch
  <2>3. (worker = "raised" \/ thread_exception) <=> (worker' = "raised" \/ thread_exception')
    BY <1>2 DEF Poll, PollStep, CheckStop, DequeueNothing, StopOrBackOff, AfterEmpty, PostEvent, Catch
  <2>4. Unapplied' = Unapplied
    BY <1>2, <2>2 DEF Poll, PollStep, CheckStop, DequeueNothing, StopOrBackOff, PostEvent, Catch, Unapplied
  <2> QED BY <2>1, <2>2, <2>3, <2>4, QuietOutcome, Mapped
<1>3. CASE Take
  <2>1. Unapplied' = Unapplied
    <3>1. PICK l \in Lanes : Dequeue(l) /\ msg' = Head(queue_[l]) /\ origin' = l
      BY <1>3 DEF Take
    <3>2. queue_ \in [Lanes -> Seq(Messages)] /\ queue_[l] # <<>>
          /\ queue_' = [queue_ EXCEPT ![l] = Tail(@)] /\ worker = "dequeue" /\ worker' = "lock"
      BY <1>0, <3>1 DEF Dequeue, TypeOK
    <3>3. <<Head(queue_[l])>> \o Tail(queue_[l]) = queue_[l]
      BY <3>2
    <3>4. ASSUME NEW k \in Lanes PROVE Unapplied'[k] = queue_[k]
      BY <3>1, <3>2, <3>3 DEF Unapplied
    <3>5. Unapplied = [k \in Lanes |-> queue_[k]]
      BY <3>2 DEF Unapplied
    <3> QED BY <3>4, <3>5 DEF Unapplied
  <2>2. Outcome' = Outcome
    BY <1>3, QuietOutcome DEF Take, Dequeue
  <2> QED BY <1>3, <2>1, <2>2, Mapped DEF Take, Dequeue, Seen
<1>4. CASE LockBook
  <2>1. /\ origin \in Lanes /\ Unapplied[origin] # <<>> /\ Head(Unapplied[origin]) = msg
        /\ Unapplied' = [Unapplied EXCEPT ![origin] = Tail(@)]
    <3>1. /\ queue_ \in [Lanes -> Seq(Messages)] /\ queue_' = queue_ /\ origin \in Lanes
          /\ worker = "lock" /\ worker' = "begin" /\ msg \in Messages \cup {NoMsg}
      BY <1>0, <1>4 DEF LockBook, LockForWriting, TypeOK
    <3>2. Unapplied[origin] = <<msg>> \o queue_[origin]
      BY <3>1 DEF Unapplied
    <3>3. Unapplied[origin] # <<>> /\ Head(Unapplied[origin]) = msg /\ Tail(Unapplied[origin]) = queue_[origin]
      <4>1. queue_[origin] \in Seq(Messages)
        BY <3>1
      <4> QED BY <3>1, <3>2, <4>1
    <3>4. ASSUME NEW k \in Lanes
          PROVE  Unapplied'[k] = IF k = origin THEN Tail(Unapplied[k]) ELSE Unapplied[k]
      BY <3>1, <3>3 DEF Unapplied
    <3> QED BY <3>1, <3>3, <3>4 DEF Unapplied
  <2>2. Outcome = Progress(book, symbol, FALSE)
    BY <1>0, <1>4 DEF LockBook, LockForWriting, Outcome, ThrownIsLast, TypeOK
  <2>3. Outcome' = Apply(book, msg, IS_BOOK_CLEAR_NEEDED)
    BY <1>4 DEF LockBook, LockForWriting, Outcome
  <2>4. Seen' = Seen /\ table' = table /\ stop' = stop
    BY <1>4 DEF LockBook, LockForWriting, Seen
  <2>5. Abstract!ApplyHead
    <3>1. Outcome.book = book /\ ~Outcome.thrown
      BY <2>2 DEF Progress
    <3> QED BY <2>1, <2>3, <2>4, <3>1 DEF Abstract!ApplyHead, Unapplied, Seen
  <2> QED BY <2>5
<1>5. CASE BeginCall
  <2>1. Outcome = Remaining(Begin(book, msg), msg, 1, IS_BOOK_CLEAR_NEEDED)
    BY <1>5 DEF BeginCall, Outcome, Apply
  <2>2. Begin(book, msg) \in ProgressType
    BY <1>c, BeginType
  <2>3. Outcome' = Outcome
    BY <1>5, <2>1, <2>2, ContinuedOutcome DEF BeginCall
  <2> QED BY <1>0, <1>5, <2>3, Mapped DEF BeginCall, Continue, Unapplied, Seen, LockDiscipline
<1>6. CASE ApplyEntry
  <2>1. Outcome = Remaining(Entry(InCall, msg, i, IS_BOOK_CLEAR_NEEDED), msg, i + 1, IS_BOOK_CLEAR_NEEDED)
    BY <1>6, <1>c, RemainingStep DEF ApplyEntry, Outcome, Pending
  <2>2. Entry(InCall, msg, i, IS_BOOK_CLEAR_NEEDED) \in ProgressType
    BY <1>6, <1>c, EntryType DEF ApplyEntry
  <2>3. i + 1 \in Nat \ {0}
    BY <1>c
  <2>4. Outcome' = Outcome
    BY <1>6, <2>1, <2>2, <2>3, ContinuedOutcome DEF ApplyEntry
  <2> QED BY <1>0, <1>6, <2>4, Mapped DEF ApplyEntry, Continue, Unapplied, Seen, LockDiscipline
<1>7. CASE EndCall
  <2>1. Outcome = InCall
    BY <1>7, <1>c, RemainingEnd DEF EndCall, Outcome, Pending
  <2>2. Outcome' = InCall
    BY <1>0, <1>7 DEF EndCall, Outcome, InCall, ThrownIsLast, TypeOK
  <2> QED BY <1>7, <2>1, <2>2, Mapped DEF EndCall, Unapplied, Seen
<1>8. CASE User
  <2>1. Outcome' = Outcome
    BY <1>8, SameOutcome DEF User, UserStep, UserEvent, Quit
  <2> QED BY <1>8, <2>1, Mapped DEF User, UserStep, UserEvent, Quit, Unapplied, Seen
<1>9. CASE MainStep /\ UNCHANGED dataVars
  <2>1. Outcome' = Outcome
    BY <1>9, SameOutcome DEF MainStep, StartLoop, BeginFrame, StopFeed, RequestStop, Join
  <2>2. Unapplied' = Unapplied /\ Seen' = Seen /\ table' = table
    BY <1>9 DEF MainStep, StartLoop, BeginFrame, StopFeed, RequestStop, Join, Unapplied, Seen
  <2>3. CASE RequestStop
    <3>1. Abstract!Stop
      BY <2>1, <2>2, <2>3 DEF RequestStop, Abstract!Stop, Unapplied, Seen
    <3> QED BY <3>1
  <2>4. CASE ~RequestStop
    <3>1. stop' = stop
      BY <1>9, <2>4 DEF MainStep, StartLoop, BeginFrame, StopFeed, Join
    <3> QED BY <2>1, <2>2, <3>1, Mapped
  <2> QED BY <2>3, <2>4
<1>10. CASE LockForCopy
  <2>1. Outcome' = Outcome
    BY <1>10, SameOutcome DEF LockForCopy, LockForReading
  <2>2. Outcome.book = book
    BY <1>0, <1>10 DEF LockForCopy, LockForReading, ReaderMayEnter, LockDiscipline, Outcome, Progress
  <2>3. Seen' = book /\ Unapplied' = Unapplied /\ table' = table /\ stop' = stop
    BY <1>10 DEF LockForCopy, LockForReading, Seen, Unapplied
  <2>4. Abstract!Read
    BY <2>1, <2>2, <2>3 DEF Abstract!Read, Unapplied, Seen
  <2> QED BY <2>4
<1>11. CASE ReadBids
  <2>1. Outcome' = Outcome
    BY <1>11, SameOutcome DEF ReadBids
  <2> QED BY <1>11, <2>1, Mapped DEF ReadBids, Unapplied, Seen
<1>12. CASE ReadAsks
  <2>1. Outcome' = Outcome
    BY <1>12, SameOutcome DEF ReadAsks
  <2>2. copy' = book
    BY <1>0, <1>12 DEF ReadAsks, TypeOK, BookType, Sides, CopyIsFresh
  <2> QED BY <1>12, <2>1, <2>2, Mapped DEF ReadAsks, Unapplied, Seen
<1>13. CASE Draw
  <2>1. Outcome' = Outcome
    BY <1>13, SameOutcome DEF Draw
  <2>2. Seen' = Seen /\ Seen = copy /\ Unapplied' = Unapplied /\ stop' = stop /\ table' = to_vector(copy)
    BY <1>13 DEF Draw, Seen, Unapplied
  <2>3. Abstract!Draw
    BY <2>1, <2>2 DEF Abstract!Draw, Unapplied, Seen
  <2> QED BY <2>3
<1>14. CASE UNCHANGED vars
  <2>1. Outcome' = Outcome
    BY <1>14, SameOutcome DEF vars, boxVars
  <2> QED BY <1>14, <2>1, Mapped DEF vars, boxVars, Unapplied, Seen
<1> QED
  BY <1>2, <1>3, <1>4, <1>5, <1>6, <1>7, <1>8, <1>9, <1>10, <1>11, <1>12, <1>13, <1>14
  DEF WorkerStep, UiStep, Ended

LEMMA RefinementStep ==
  ASSUME RInv, RInv', [Next]_vars
  PROVE  [Abstract!Next]_(Abstract!vars)
<1>1. CASE Enqueue
  <2>1. PICK l \in Lanes, m \in Messages : Receive(l, m)
    BY <1>1 DEF Enqueue
  <2>2. UNCHANGED <<msg, origin, callVars, frameVars>>
    BY <1>1 DEF Enqueue
  <2>3. Abstract!Enqueue
    BY <2>1, <2>2, EnqueueMapped DEF Abstract!Enqueue
  <2> QED BY <2>3 DEF Abstract!Next
<1>2. CASE WorkerStep \/ User \/ UiStep \/ Ended
  BY <1>2, BoxMapped DEF Abstract!Next
<1>3. CASE UNCHANGED vars
  <2>1. Outcome' = Outcome
    BY <1>3, SameOutcome DEF vars, boxVars, dataVars, callVars, frameVars
  <2> QED
    BY <1>3, <2>1, Mapped DEF vars, boxVars, dataVars, callVars, frameVars, Unapplied, Seen
<1> QED BY <1>1, <1>2, <1>3 DEF Next

\* For every feed, the entries, sides and threads that interleave are not to be
\* told from messages that take effect one at a time and frames that show the
\* book between two of them: the safety of AtomicBook (order_book.cpp holds
\* mutex_ for a whole call; order_book_box.cpp takes the messages in turn).
THEOREM UpdatesAreAtomic == Spec => Abstract!Safety
<1>1. Init => Abstract!Init
  <2> SUFFICES ASSUME Init PROVE Abstract!Init
    OBVIOUS
  <2>1. Outcome = Progress(EmptyBook, NoSymbol, FALSE)
    BY DEF Init, BoxInit, Outcome
  <2>2. Unapplied = [l \in Lanes |-> <<>>] /\ Seen = EmptyBook
    BY DEF Init, BoxInit, Unapplied, Seen
  <2> QED BY <2>1, <2>2 DEF Init, BoxInit, Abstract!Init, Progress
<1>2. RInv /\ RInv' /\ [Next]_vars => [Abstract!Next]_(Abstract!vars)
  BY RefinementStep
<1> QED BY <1>1, <1>2, RInvInit, RInvStep, PTL DEF Spec, Abstract!Safety

-----------------------------------------------------------------------------
(***************************************************************************)
(* The maps under any sequence of calls: module OrderBookCalls, whose book *)
(* is this module's.  Its operators are those of OrderBook, here under     *)
(* another name.                                                           *)
(***************************************************************************)
Calls == INSTANCE OrderBookCalls

LEMMA SameEmptyBook == Calls!EmptyBook = EmptyBook
BY DEF Calls!EmptyBook, Calls!EmptySide, Calls!Prices, Calls!Quotes, Calls!Sides,
       EmptyBook, EmptySide, Prices, Quotes, Sides

LEMMA SameApply ==
  ASSUME NEW b, NEW m, NEW clear
  PROVE  Calls!Apply(b, m, clear) = Apply(b, m, clear)
BY DEF Calls!Apply, Calls!Remaining, Calls!Rounds, Calls!Round, Calls!Iterates, Calls!Entry,
       Calls!Begin, Calls!SnapshotEntry, Calls!SnapshotBegin, Calls!SnapshotBase,
       Calls!IncrementEntry, Calls!handle_price_level_update, Calls!UpdateThrows, Calls!Cleared,
       Calls!Erased, Calls!Progress, Calls!EmptyBook, Calls!EmptySide, Calls!Prices, Calls!Quotes,
       Calls!Sides, Calls!SymbolAfter, Calls!SymbolThrows, Calls!ReadsSymbol, Calls!IsBTC,
       Calls!Known, Calls!from_str,
       Apply, Remaining, Rounds, Round, Iterates, Entry,
       Begin, SnapshotEntry, SnapshotBegin, SnapshotBase,
       IncrementEntry, handle_price_level_update, UpdateThrows, Cleared,
       Erased, Progress, EmptyBook, EmptySide, Prices, Quotes,
       Sides, SymbolAfter, SymbolThrows, ReadsSymbol, IsBTC, Known, from_str

LEMMA CallsKeepType == Calls!Spec => [](book \in BookType)
<1>1. Calls!Init => book \in BookType
  BY SameEmptyBook, EmptyBookType DEF Calls!Init
<1>2. book \in BookType /\ [Calls!Next]_(Calls!vars) => (book \in BookType)'
  <2> SUFFICES ASSUME book \in BookType, [Calls!Next]_(Calls!vars) PROVE book' \in BookType
    OBVIOUS
  <2>1. CASE Calls!Next
    <3>1. PICK m \in Messages, clear \in BOOLEAN : book' = Apply(book, m, clear).book
      BY <2>1, SameApply DEF Calls!Next, Calls!apply_snapshot, Calls!apply_increment
    <3>2. m \in MessageType
      BY MessageAssumption
    <3>3. Apply(book, m, clear) \in ProgressType
      BY <3>2, ApplyType
    <3> QED BY <3>1, <3>3 DEF ProgressType
  <2>2. CASE UNCHANGED Calls!vars
    BY <2>2 DEF Calls!vars
  <2> QED BY <2>1, <2>2
<1> QED BY <1>1, <1>2, PTL DEF Calls!Spec

\* However many messages have come before, a message that throws in the middle
\* included, each level of the book ends up as the last entry of the message
\* that concerns it says (apply_snapshot and apply_increment).
THEOREM LastEntryWins == Calls!Spec => []LastWriterWins
<1>1. book \in BookType => LastWriterWins
  <2> SUFFICES ASSUME book \in BookType, NEW m \in Messages, NEW clear \in BOOLEAN
               PROVE  /\ Apply(book, m, clear).thrown = ReferenceThrows(m)
                      /\ Apply(book, m, clear).book = ReferenceBook(book, m, clear)
    BY DEF LastWriterWins
  <2>1. m \in Snapshots \/ m \in Increments
    BY MessageAssumption DEF MessageType
  <2> QED BY <2>1, SnapshotIsReference, IncrementIsReference
<1> QED BY <1>1, CallsKeepType, PTL

\* In every book that calls leave behind, what the screen is given lists each
\* level once, with its size, best price first and no gap (to_vector).
THEOREM LadderShowsTheBook == Calls!Spec => []LadderIsTheBook
<1>1. book \in BookType => LadderIsTheBook
  BY ToVectorShows DEF LadderIsTheBook
<1> QED BY <1>1, CallsKeepType, PTL

-----------------------------------------------------------------------------
(***************************************************************************)
(* The whole price path: PriceSystem.  Its steps are steps of the box, and *)
(* through the box's refinement they are steps of PriceFeed, or none: the  *)
(* feed's ApplyHead is the step that takes the mutex.  So the book that    *)
(* the feed speaks of is the outcome of the call in progress, and what a   *)
(* frame reads is that book at the moment the frame took the mutex.        *)
(***************************************************************************)
LEMMA SameFeedApply ==
  ASSUME NEW b, NEW m, NEW clear
  PROVE  Feed!Apply(b, m, clear) = Apply(b, m, clear)
BY DEF Feed!Apply, Feed!Remaining, Feed!Rounds, Feed!Round, Feed!Iterates, Feed!Entry,
       Feed!Begin, Feed!SnapshotEntry, Feed!SnapshotBegin, Feed!SnapshotBase,
       Feed!IncrementEntry, Feed!handle_price_level_update, Feed!UpdateThrows, Feed!Cleared,
       Feed!Erased, Feed!Progress, Feed!EmptyBook, Feed!EmptySide, Feed!Prices, Feed!Quotes,
       Feed!Sides, Feed!SymbolAfter, Feed!SymbolThrows, Feed!ReadsSymbol, Feed!IsBTC,
       Feed!Known, Feed!from_str,
       Apply, Remaining, Rounds, Round, Iterates, Entry,
       Begin, SnapshotEntry, SnapshotBegin, SnapshotBase,
       IncrementEntry, handle_price_level_update, UpdateThrows, Cleared,
       Erased, Progress, EmptyBook, EmptySide, Prices, Quotes,
       Sides, SymbolAfter, SymbolThrows, ReadsSymbol, IsBTC, Known, from_str

\* What PriceFeed assumes of its constants is what the box assumes of them.
LEMMA FeedAssumptions ==
  ASSUME SystemAssumption
  PROVE  /\ Feed!NameAssumption /\ Feed!TicksAssumption /\ Feed!NoLevelAssumption
         /\ Feed!MissingAssumption /\ Feed!KeyAssumption
         /\ Feed!FeedAssumption /\ Feed!OpeningsAssumption
<1>1. Feed!NameAssumption
  BY NameAssumption DEF Feed!NameAssumption
<1>2. Feed!TicksAssumption
  BY TicksAssumption DEF Feed!TicksAssumption
<1>3. Feed!NoLevelAssumption
  BY NoLevelAssumption DEF Feed!NoLevelAssumption
<1>4. Feed!MissingAssumption
  BY MissingAssumption DEF Feed!MissingAssumption
<1>5. Feed!KeyAssumption
  BY KeyAssumption
  DEF Feed!KeyAssumption, Feed!Prices, Feed!Quotes, Feed!IsFiniteSet, Prices, Quotes, IsFiniteSet
<1> QED BY <1>1, <1>2, <1>3, <1>4, <1>5 DEF SystemAssumption

LEMMA FeedInit ==
  ASSUME SystemAssumption, Feed!Init
  PROVE  Feed!FeedInv
BY FeedAssumptions, Feed!FeedInvInit

LEMMA FeedStep ==
  ASSUME SystemAssumption, Feed!FeedInv, [Feed!Next]_(Feed!vars)
  PROVE  Feed!FeedInv'
BY FeedAssumptions, Feed!FeedInvStep

LEMMA FeedUncrossed ==
  ASSUME SystemAssumption, Feed!FeedInv
  PROVE  Feed!NeverCrossed
BY FeedAssumptions, Feed!FeedInvUncrossed

\* The thread of the session puts a message of the feed in a lane of the queue.
LEMMA NextOnTheWire ==
  ASSUME SystemAssumption, Feed!FeedInv
  PROVE  lane \in Lanes /\ (wire # <<>> => Head(wire) \in Messages)
<1>1. lane \in Lanes
  BY DEF Feed!FeedInv, Feed!TypeInv, Feed!TypeOK, Feed!Lanes, SystemAssumption
<1>2. wire \in Seq(Feed!FeedMessages)
  BY DEF Feed!FeedInv, Feed!TypeInv, Feed!Carried
<1>3. wire # <<>> => Head(wire) \in Feed!FeedMessages
  BY <1>2, HeadTailProperties
<1> QED BY <1>1, <1>3 DEF SystemAssumption

\* A message joins its lane in the box where it joins it in the feed.
LEMMA ReceiveMapped ==
  ASSUME SystemAssumption, RInv, Feed!FeedInv, onMessage
  PROVE  Enqueue /\ Feed!onMessage /\ Seen' = Seen /\ table' = table
<1>1. /\ wire # <<>> /\ wire' = Tail(wire) /\ Receive(lane, Head(wire))
      /\ UNCHANGED <<msg, origin, callVars, frameVars>>
      /\ outrun' = outrun \cup {c \in {connections} : Feed!Outruns(Head(wire))}
      /\ UNCHANGED <<symbols, venue, moves, session, connections, request, subscribed, lane>>
      /\ sent < MaxMessages /\ sent' = sent + 1
  BY DEF onMessage
<1>2. lane \in Lanes /\ Head(wire) \in Messages
  BY <1>1, NextOnTheWire
<1>3. Enqueue
  BY <1>1, <1>2 DEF Enqueue
<1>4. /\ Unapplied' = [Unapplied EXCEPT ![lane] = Append(@, Head(wire))]
      /\ Outcome' = Outcome /\ Seen' = Seen /\ table' = table
  BY <1>1, <1>2, EnqueueMapped
<1>5. Feed!onMessage
  BY <1>1, <1>4
  DEF Feed!onMessage, Feed!Queued, Feed!venueVars, Feed!configVars, Feed!sessionVars
<1> QED BY <1>3, <1>4, <1>5

\* The feed's worker applies a message as a whole where the box's takes the
\* mutex.
LEMMA AppliedMapped ==
  ASSUME SystemAssumption, Abstract!ApplyHead, UNCHANGED feedVars
  PROVE  Feed!ApplyHead
<1>1. PICK l \in Lanes :
        /\ Unapplied[l] # <<>> /\ ~Outcome.thrown
        /\ Outcome'.book = Apply(Outcome.book, Head(Unapplied[l]), IS_BOOK_CLEAR_NEEDED).book
        /\ Outcome'.thrown = Apply(Outcome.book, Head(Unapplied[l]), IS_BOOK_CLEAR_NEEDED).thrown
        /\ Unapplied' = [Unapplied EXCEPT ![l] = Tail(@)]
  BY DEF Abstract!ApplyHead
<1>2. l \in Feed!Lanes
  BY DEF SystemAssumption, Feed!Lanes
<1>3. Feed!Visit(Outcome.book, Head(Unapplied[l]))
        = Apply(Outcome.book, Head(Unapplied[l]), IS_BOOK_CLEAR_NEEDED)
  BY SameFeedApply DEF Feed!Visit, Feed!IS_BOOK_CLEAR_NEEDED, IS_BOOK_CLEAR_NEEDED
<1> QED
  BY <1>1, <1>2, <1>3 DEF Feed!ApplyHead, Feed!venueVars, Feed!configVars, Feed!sessionVars, feedVars

LEMMA SessionMapped ==
  ASSUME SessionStep
  PROVE  UNCHANGED vars /\ Feed!Next
BY DEF SessionStep, Feed!Next

LEMMA BoxStepMapped ==
  ASSUME SystemAssumption, RInv, RInv', BoxStep
  PROVE  [Feed!Next]_(Feed!vars)
<1>1. UNCHANGED feedVars
  BY DEF BoxStep
<1>2. CASE Abstract!ApplyHead
  BY <1>1, <1>2, AppliedMapped DEF Feed!Next
<1>3. CASE Abstract!Read \/ Abstract!Draw \/ Abstract!Stop \/ UNCHANGED Abstract!vars
  <2>1. Unapplied' = Unapplied /\ Outcome.book' = Outcome.book /\ Outcome.thrown' = Outcome.thrown
    BY <1>3 DEF Abstract!Read, Abstract!Draw, Abstract!Stop, Abstract!vars
  <2> QED
    BY <1>1, <2>1 DEF Feed!vars, Feed!venueVars, Feed!configVars, Feed!sessionVars, Feed!queueVars, feedVars
<1> QED BY <1>2, <1>3, BoxMapped DEF BoxStep

\* Every step of the system is one of the box and one of the feed, or none.
LEMMA SystemMapped ==
  ASSUME SystemAssumption, RInv, Feed!FeedInv, [SystemNext]_<<vars, feedVars>>
  PROVE  [Next]_vars /\ RInv' /\ [Feed!Next]_(Feed!vars) /\ Feed!FeedInv'
<1>1. [Next]_vars
  BY ReceiveMapped DEF SystemNext, SessionStep, BoxStep, Next
<1>2. RInv'
  BY <1>1, RInvStep
<1>3. [Feed!Next]_(Feed!vars)
  <2>1. CASE SessionStep
    BY <2>1, SessionMapped
  <2>2. CASE onMessage
    BY <2>2, ReceiveMapped DEF Feed!Next
  <2>3. CASE BoxStep
    BY <1>2, <2>3, BoxStepMapped
  <2>4. CASE UNCHANGED <<vars, feedVars>>
    <3>1. Outcome' = Outcome /\ Unapplied' = Unapplied
      <4>1. Outcome' = Outcome
        BY <2>4, SameOutcome DEF vars, boxVars, dataVars, callVars, frameVars
      <4> QED BY <2>4, <4>1 DEF vars, boxVars, dataVars, Unapplied
    <3> QED
      BY <2>4, <3>1 DEF Feed!vars, Feed!venueVars, Feed!configVars, Feed!sessionVars, Feed!queueVars, feedVars
  <2> QED BY <2>1, <2>2, <2>3, <2>4 DEF SystemNext
<1>4. Feed!FeedInv'
  BY <1>3, FeedStep
<1> QED BY <1>1, <1>2, <1>3, <1>4

\* The threads of the box, fed by the session as it loses connections and
\* subscribes again, behave as PriceFeed says, in which a message is applied at
\* once (order_book_box.cpp behind fix_app.cpp); they stay a box all the while.
THEOREM SystemIsTheFeed ==
  ASSUME SystemAssumption
  PROVE  System => /\ Init /\ [][Next]_vars
                   /\ Feed!Init /\ [][Feed!Next]_(Feed!vars)
<1>1. SystemInit => Init /\ Feed!Init /\ RInv /\ Feed!FeedInv
  BY RInvInit, FeedInit DEF SystemInit
<1>2. RInv /\ Feed!FeedInv /\ [SystemNext]_<<vars, feedVars>>
        => [Next]_vars /\ RInv' /\ [Feed!Next]_(Feed!vars) /\ Feed!FeedInv'
  BY SystemMapped
<1> QED BY <1>1, <1>2, PTL DEF System

-----------------------------------------------------------------------------
(* What the screen shows of it.                                            *)
BookUncrossed(b) == \A p \in Levels(b["BID"]), q \in Levels(b["OFFER"]) : p < q
ScreenInv == outrun = {} => BookUncrossed(Seen) /\ ~CanTrade(table)

\* Rows show what is in the book, and nothing else.
LEMMA RowsUncrossed ==
  ASSUME NEW b \in BookType, BookUncrossed(b)
  PROVE  ~CanTrade(to_vector(b))
<1> DEFINE rows == to_vector(b)
<1>1. Shows(rows, b)
  BY ToVectorShows
<1> HIDE DEF rows
<1>2. ASSUME NEW j \in DOMAIN rows, NEW k \in DOMAIN rows,
             rows[j].bid_px # Sentinel, rows[k].ask_px # Sentinel
      PROVE  rows[j].bid_px < rows[k].ask_px
  <2>1. rows[j].bid_px \in Levels(b["BID"]) /\ rows[k].ask_px \in Levels(b["OFFER"])
    BY <1>1, <1>2 DEF Shows
  <2> QED BY <2>1 DEF BookUncrossed
<1>3. ~CanTrade(rows)
  BY <1>2 DEF CanTrade
<1> QED BY <1>3 DEF rows

LEMMA OutrunGrows == ASSUME [Feed!Next]_(Feed!vars), outrun' = {} PROVE outrun = {}
BY DEF Feed!Next, Feed!VenueMoves, Feed!VenueServes, Feed!onLogon, Feed!Disconnect, Feed!onMessage,
       Feed!ApplyHead, Feed!vars, Feed!queueVars

LEMMA ScreenStep ==
  ASSUME SystemAssumption, RInv, Feed!FeedInv, ScreenInv, [SystemNext]_<<vars, feedVars>>
  PROVE  ScreenInv'
<1>1. [Next]_vars /\ RInv' /\ [Feed!Next]_(Feed!vars)
  BY SystemMapped
<1>2. SUFFICES ASSUME outrun' = {} PROVE BookUncrossed(Seen') /\ ~CanTrade(table')
  BY DEF ScreenInv, BookUncrossed, CanTrade
<1>3. BookUncrossed(Seen) /\ ~CanTrade(table) /\ outrun = {}
  BY <1>1, <1>2, OutrunGrows DEF ScreenInv
<1>4. BookUncrossed(Outcome.book)
  BY <1>3, FeedUncrossed
  DEF Feed!NeverCrossed, Feed!Levels, Feed!Prices, Feed!Quotes, BookUncrossed, Levels, Prices, Quotes
<1>5. Seen \in BookType
  BY DEF Seen, RInv, IInv, TypeOK
<1>6. CASE Seen' = Seen /\ table' = table
  BY <1>3, <1>6
<1>7. CASE BoxStep
  <2>1. CASE Abstract!Read
    <3>1. Seen' = Outcome.book /\ table' = table
      BY <2>1 DEF Abstract!Read
    <3> QED BY <1>3, <1>4, <3>1
  <2>2. CASE Abstract!Draw
    <3>1. Seen' = Seen /\ table' = to_vector(Seen)
      BY <2>2 DEF Abstract!Draw
    <3> QED BY <1>3, <1>5, <3>1, RowsUncrossed
  <2>3. CASE Abstract!ApplyHead \/ Abstract!Stop \/ UNCHANGED Abstract!vars
    BY <1>6, <2>3 DEF Abstract!ApplyHead, Abstract!Stop, Abstract!vars
  <2> QED BY <1>1, <1>7, <2>1, <2>2, <2>3, BoxMapped DEF BoxStep
<1>8. CASE onMessage
  BY <1>6, <1>8, ReceiveMapped
<1>9. CASE SessionStep \/ UNCHANGED <<vars, feedVars>>
  BY <1>6, <1>9 DEF SessionStep, vars, boxVars, dataVars, callVars, frameVars, Seen
<1> QED BY <1>7, <1>8, <1>9 DEF SystemNext

\* However losses, new subscriptions, the worker and the frames interleave, the
\* ladder on the screen never shows a bid at or above an offer, as long as the
\* venue publishes none and no lane outlasts a snapshot (to_table).
THEOREM ScreenNeverCrossed ==
  ASSUME SystemAssumption
  PROVE  System => []ScreenIsNeverCrossed
<1>1. SystemInit => RInv /\ Feed!FeedInv
  BY RInvInit, FeedInit DEF SystemInit
<1>2. SystemInit => ScreenInv
  <2> SUFFICES ASSUME SystemInit PROVE BookUncrossed(Seen) /\ ~CanTrade(table)
    BY DEF ScreenInv
  <2>1. Seen = EmptyBook /\ table = <<>>
    BY DEF SystemInit, Init, BoxInit, Seen
  <2>2. \A side \in Sides : Levels(EmptyBook[side]) = {}
    BY DEF Levels, EmptyBook, EmptySide
  <2>3. DOMAIN <<>> = {}
    OBVIOUS
  <2> QED BY <2>1, <2>2, <2>3 DEF BookUncrossed, CanTrade, Sides
<1>3. RInv /\ Feed!FeedInv /\ ScreenInv /\ [SystemNext]_<<vars, feedVars>>
        => RInv' /\ Feed!FeedInv' /\ ScreenInv'
  BY SystemMapped, ScreenStep
<1>4. ScreenInv => ScreenIsNeverCrossed
  BY DEF ScreenInv, ScreenIsNeverCrossed
<1> QED BY <1>1, <1>2, <1>3, <1>4, PTL DEF System
=============================================================================
