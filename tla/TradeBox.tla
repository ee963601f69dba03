------------------------------- MODULE TradeBox -------------------------------
(***************************************************************************)
(* ui::TradeBox (src/ui/trade_box.cpp): the worker thread that polls the   *)
(* trade queue and fills the ring of the newest trades, the FTXUI thread   *)
(* that copies the ring to draw it, and the FIX threads that fill the      *)
(* queue.  on_trade holds trade_ring_mutex_ for a whole message and posts  *)
(* an event for each trade, inside the lock.                               *)
(***************************************************************************)
EXTENDS Symbol, PollingBox, SequencesExt

CONSTANTS
  PxTicks,      \* quoted price -> price in ticks (see Ticks)
  SzTicks,      \* quoted size -> size in ticks
  Garbled,      \* a TradeID that is not a number
  Messages,     \* the messages of the feed
  MaxMessages,  \* bound: messages the FIX thread enqueues in a behaviour
  MAX_LINES     \* TradeBox::MAX_LINES_
Numbers == Nat \cup {Garbled, Missing}
Entries == [symbol: SymbolNames \cup {Missing}, type: {"BID", "OFFER", "TRADE"},
            side: STRING \cup {Missing}, px: DOMAIN PxTicks,
            sz: DOMAIN SzTicks \cup {Missing}, id: Numbers]
ASSUME TradeAssumption ==
  /\ \A m \in Messages : m.entries \in Seq(Entries)
  /\ MaxMessages \in Nat /\ MAX_LINES \in Nat \ {0}

VARIABLES
  sent,       \* messages enqueued so far
  taken,      \* history: the messages dequeued so far
  ring,       \* trade_ring_, oldest trade first
  i, symbol,  \* the worker's locals: the entry, the sticky symbol
  drawn       \* the trades on the screen
dataVars == <<sent, taken, ring, i, symbol, drawn>>
vars == <<boxVars, dataVars>>

msg == Last(taken)

Init ==
  /\ BoxInit
  /\ sent = 0 /\ taken = <<>> /\ ring = <<>> /\ drawn = <<>>
  /\ i = 1 /\ symbol = NoSymbol

\* The FIX threads: FixApp::onMessage for the TX session.
Enqueue ==
  /\ sent < MaxMessages
  /\ \E l \in Lanes, m \in Messages : Receive(l, m)
  /\ sent' = sent + 1
  /\ UNCHANGED <<taken, ring, i, symbol, drawn>>

-----------------------------------------------------------------------------
(* The worker thread: TradeBox::poll_queue.                                *)
Take == \E l \in Lanes : /\ Dequeue(l)
                         /\ taken' = Append(taken, Head(queue_[l]))
                         /\ UNCHANGED <<sent, ring, i, symbol, drawn>>

LockRing ==
  /\ LockForWriting("entry")
  /\ i' = 1 /\ symbol' = NoSymbol
  /\ UNCHANGED <<sent, taken, ring, drawn>>

\* A trade is added if it is one, in BTCUSDT, with an aggressor's side; its
\* other fields are then required.
Adds(e, s) == s = "BTCUSDT" /\ e.type = "TRADE" /\ e.side # Missing
TradeThrows(e) == e.sz = Missing \/ e.id = Missing \/ e.side \notin {"1", "2"}
\* Mutant: what from_chars could not parse is stored all the same.
TradeId_raw(e) == e.id
\* from_chars leaves the 0 it was given when the text is not a number.
TradeId(e) == IF e.id = Garbled THEN 0 ELSE e.id
Trade(e) == [px |-> PxTicks[e.px], sz |-> SzTicks[e.sz], id |-> TradeId(e), side |-> e.side]

\* Mutant: a full ring takes no more trades.
Push_full(s, t) == IF Len(s) < MAX_LINES THEN Append(s, t) ELSE s
\* circular_buffer::push_back overwrites the oldest trade of a full ring.
Push(s, t) == Append(IF Len(s) < MAX_LINES THEN s ELSE Tail(s), t)

\* Whether an iteration gets through without a throw.
Passes(e) == /\ ~SymbolThrows(e, i)
             /\ Adds(e, SymbolAfter(e, i, symbol)) => ~TradeThrows(e)

\* Mutant: the event is left to the end of the message.
RedrawAfter_late(added) == redraw
\* Each trade posts an event of its own.
RedrawAfter(added) == IF added THEN Posted ELSE redraw
\* One iteration of on_trade that does not throw.
AddEntry ==
  /\ worker = "entry" /\ i <= Len(msg.entries)
  /\ LET e == msg.entries[i]
         added == Adds(e, SymbolAfter(e, i, symbol))
     IN  /\ Passes(e)
         /\ symbol' = SymbolAfter(e, i, symbol)
         /\ ring' = IF added THEN Push(ring, Trade(e)) ELSE ring
         /\ redraw' = RedrawAfter(added)
  /\ i' = i + 1
  /\ UNCHANGED <<queue_, worker, thread_exception, stop, mutex, ui, sent, taken, drawn>>

\* The end of the message, or an iteration that throws: the lock_guard goes,
\* the trades before it stay.
Unlock(next) ==
  /\ mutex' = "free"
  /\ worker' = next
  /\ UNCHANGED <<queue_, thread_exception, stop, redraw, ui, dataVars>>
ThrowAtEntry == /\ worker = "entry" /\ i <= Len(msg.entries)
                /\ ~Passes(msg.entries[i])
                /\ Unlock("raised")
EndCall == worker = "entry" /\ i > Len(msg.entries) /\ Unlock("post")

Poll == PollStep /\ UNCHANGED dataVars
WorkerStep == Poll \/ Take \/ LockRing \/ AddEntry \/ ThrowAtEntry \/ EndCall

-----------------------------------------------------------------------------
(* The main thread: to_table copies the ring and draws from the copy.      *)
LockForCopy == LockForReading("copy") /\ UNCHANGED dataVars

Draw ==
  /\ Ui("copy", "idle")
  /\ drawn' = ring
  /\ mutex' = "free"
  /\ UNCHANGED <<queue_, worker, thread_exception, stop, redraw, sent, taken, ring, i, symbol>>

User   == UserStep /\ UNCHANGED dataVars
UiStep == (MainStep /\ UNCHANGED dataVars) \/ LockForCopy \/ Draw
Ended  == ui = "joined" /\ UNCHANGED vars

Next == Enqueue \/ WorkerStep \/ User \/ UiStep \/ Ended

Fairness == /\ WF_vars(WorkerStep) /\ SF_vars(LockRing)
            /\ WF_vars(UiStep)     /\ SF_vars(LockForCopy)
Spec == Init /\ [][Next]_vars /\ Fairness

-----------------------------------------------------------------------------
Trades == [px: {PxTicks[q] : q \in DOMAIN PxTicks}, sz: {SzTicks[q] : q \in DOMAIN SzTicks},
           id: Nat, side: {"1", "2"}]
TypeOK ==
  /\ queue_ \in [Lanes -> Seq(Messages)] /\ sent \in 0..MaxMessages /\ taken \in Seq(Messages)
  /\ ring \in Seq(Trades) /\ drawn \in Seq(Trades)
  /\ mutex \in {"free", "worker", "ui"}
  /\ worker \in {"check", "dequeue", "empty", "lock", "entry", "post", "raised", "exited"}
  /\ i \in Nat \ {0} /\ symbol \in Symbols \cup {NoSymbol}
  /\ thread_exception \in BOOLEAN /\ stop \in BOOLEAN /\ redraw \in BOOLEAN
  /\ ui \in {"starting", "idle", "lock", "copy", "quit", "stopped", "joining", "joined"}

\* The ring holds the newest trades of all messages taken, in that order: the
\* last MAX_LINES of what the messages say, a message that throws saying what
\* comes before the entry at fault, and the one in progress its first entries.
Tells(m, j) == IsBTC(NameAt(m.entries, j)) /\ Adds(m.entries[j], "BTCUSDT")
Faulty(m, j) == BadName(m.entries, j) \/ (Tells(m, j) /\ TradeThrows(m.entries[j]))
Said(m, n) ==
  LET said[k \in 0..n] ==
        IF k = 0 THEN <<>>
        ELSE IF Tells(m, k) /\ \A j \in 1..k : ~Faulty(m, j)
             THEN Append(said[k - 1], Trade(m.entries[k])) ELSE said[k - 1]
  IN  said[n]
Upto(k) == IF k < Len(taken) \/ worker \notin {"lock", "entry"} THEN Len(taken[k].entries)
           ELSE IF worker = "lock" THEN 0 ELSE i - 1
RingIsNewestTrades ==
  LET all == FlattenSeq([k \in DOMAIN taken |-> Said(taken[k], Upto(k))])
  IN  ring = SubSeq(all, IF Len(all) > MAX_LINES THEN Len(all) - MAX_LINES + 1 ELSE 1, Len(all))

\* on_trade and the copy exclude one another for a whole message: a frame never
\* shows some trades of a message and not the others, unless it threw between.
FramesAreWhole == [][worker = "entry" => UNCHANGED drawn]_vars

\* No trade in the ring is left unseen while the loop runs, those of a message
\* that threw half-way included: the screen shows the ring, or a frame follows.
StaleTradesAreRedrawn == drawn # ring => redraw \/ ui # "idle"

\* What has been queued is taken and shown, unless the worker has failed or
\* the user leaves; after a failure the screen still comes to show the ring.
TradesReachScreen ==
  (sent > 0) ~> \/ drawn = ring /\ (QueueIsEmpty \/ thread_exception)
                \/ ui \in {"quit", "stopped", "joining", "joined"}
=============================================================================
