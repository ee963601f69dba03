--------------------------- MODULE TradeBox_proofs ---------------------------
(***************************************************************************)
(* Safety of TradeBox for every feed, every conversion to ticks, every     *)
(* number of messages and every size of the ring; then the arithmetic of   *)
(* the prices and sizes that the box stores and writes: modules Ticks and  *)
(* Display say what two roundings to 53 bits leave of a quote and of the   *)
(* text of a size.                                                         *)
(***************************************************************************)
EXTENDS TradeBox, TicksScan, Doubles, Recursion, SequenceTheorems, TLAPS

-----------------------------------------------------------------------------
(* Type correctness.  on_trade reads the message it was given: a call is   *)
(* only in progress once a message has been taken.                         *)
HasMessage == worker \in {"lock", "entry"} => taken # <<>>
TypeInv == TypeOK /\ HasMessage

\* The message in progress and its entry are of the feed.
LEMMA EntryType ==
  ASSUME TypeInv, worker = "entry", i <= Len(msg.entries)
  PROVE  msg \in Messages /\ msg.entries[i] \in Entries
<1>1. msg \in Messages
  <2>1. taken \in Seq(Messages) /\ taken # <<>>
    BY DEF TypeInv, TypeOK, HasMessage
  <2>2. Len(taken) \in Nat \ {0} /\ Len(taken) <= Len(taken)
    BY <2>1, EmptySeq, LenProperties
  <2> QED BY <2>1, <2>2, ElementOfSeq DEF msg, Last
<1>2. msg.entries \in Seq(Entries) /\ i \in Nat \ {0}
  BY <1>1, TradeAssumption DEF TypeInv, TypeOK
<1>3. msg.entries[i] \in Entries
  <2> HIDE DEF Entries
  <2> QED BY <1>2, ElementOfSeq
<1> QED BY <1>1, <1>3

\* An iteration that gets through adds a trade with all its fields, if any.
LEMMA TradeType ==
  ASSUME NEW e \in Entries, Adds(e, SymbolAfter(e, i, symbol)), Passes(e)
  PROVE  Trade(e) \in Trades
<1>1. e.id \in Nat \cup {Garbled} /\ e.side \in {"1", "2"} /\ e.sz \in DOMAIN SzTicks
  BY DEF Passes, TradeThrows, Entries, Numbers
<1>2. e.px \in DOMAIN PxTicks
  BY DEF Entries
<1> QED
  BY <1>1, <1>2 DEF Trade, TradeId, Trades

LEMMA PushType ==
  ASSUME NEW s \in Seq(Trades), NEW t \in Trades
  PROVE  Push(s, t) \in Seq(Trades)
<1>1. Len(s) >= MAX_LINES => s # <<>>
  BY TradeAssumption, EmptySeq
<1> QED
  BY <1>1, HeadTailProperties, AppendProperties, LenProperties, TradeAssumption DEF Push

LEMMA TypeInit == Init => TypeInv
<1>1. <<>> \in Seq(Messages) /\ <<>> \in Seq(Trades) /\ 1 \in Nat \ {0} /\ 0 \in 0..MaxMessages
  BY EmptySeq, TradeAssumption
<1> QED
  BY <1>1 DEF Init, BoxInit, TypeInv, TypeOK, HasMessage

LEMMA TypeStep == TypeInv /\ [Next]_vars => TypeInv'
<1> SUFFICES ASSUME TypeInv, [Next]_vars PROVE TypeInv'
  OBVIOUS
<1> USE DEF TypeInv, TypeOK, HasMessage, Worker, Ui, dataVars
<1>1. CASE Enqueue
  <2> PICK l \in Lanes, m \in Messages : Receive(l, m)
    BY <1>1 DEF Enqueue
  <2>1. queue_' \in [Lanes -> Seq(Messages)]
    BY DEF Receive
  <2>2. sent' \in 0..MaxMessages
    BY <1>1, TradeAssumption DEF Enqueue
  <2> QED BY <1>1, <2>1, <2>2 DEF Enqueue, Receive
<1>2. CASE Poll
  <2>1. CASE CheckStop        BY <1>2, <2>1 DEF Poll, CheckStop
  <2>2. CASE DequeueNothing   BY <1>2, <2>2 DEF Poll, DequeueNothing
  <2>3. CASE StopOrBackOff    BY <1>2, <2>3 DEF Poll, StopOrBackOff, AfterEmpty
  <2>4. CASE PostEvent        BY <1>2, <2>4 DEF Poll, PostEvent, Posted, LoopRuns
  <2>5. CASE Catch            BY <1>2, <2>5 DEF Poll, Catch
  <2> QED BY <1>2, <2>1, <2>2, <2>3, <2>4, <2>5 DEF Poll, PollStep
<1>3. CASE Take
  <2> PICK l \in Lanes : /\ Dequeue(l) /\ taken' = Append(taken, Head(queue_[l]))
                        /\ UNCHANGED <<sent, ring, i, symbol, drawn>>
    BY <1>3 DEF Take
  <2>0. queue_[l] \in Seq(Messages) /\ queue_[l] # <<>>
    BY DEF Dequeue
  <2>1. Head(queue_[l]) \in Messages /\ queue_' \in [Lanes -> Seq(Messages)]
    BY <2>0, HeadTailProperties DEF Dequeue
  <2>2. taken' = Append(taken, Head(queue_[l])) /\ taken \in Seq(Messages)
    OBVIOUS
  <2>3. taken' \in Seq(Messages) /\ taken' # <<>>
    <3> HIDE DEF TypeInv, TypeOK, HasMessage
    <3> QED BY <2>1, <2>2, AppendProperties, EmptySeq
  <2> QED BY <2>1, <2>3 DEF Dequeue
<1>4. CASE LockRing         BY <1>4 DEF LockRing, LockForWriting
<1>5. CASE AddEntry
  <2> DEFINE e == msg.entries[i]
             added == Adds(e, SymbolAfter(e, i, symbol))
  <2>1. e \in Entries
    BY <1>5, EntryType DEF AddEntry
  <2>2. symbol' \in Symbols \cup {NoSymbol} /\ i' \in Nat \ {0}
    BY <1>5 DEF AddEntry, SymbolAfter, from_str, Symbols
  <2>3. ring' \in Seq(Trades)
    <3>1. CASE added
      BY <1>5, <2>1, <3>1, TradeType, PushType DEF AddEntry
    <3>2. CASE ~added
      BY <1>5, <3>2 DEF AddEntry
    <3> QED BY <3>1, <3>2
  <2>4. redraw' \in BOOLEAN
    BY <1>5 DEF AddEntry, RedrawAfter, Posted, LoopRuns
  <2> QED BY <1>5, <2>2, <2>3, <2>4 DEF AddEntry
<1>6. CASE ThrowAtEntry     BY <1>6 DEF ThrowAtEntry, Unlock
<1>7. CASE EndCall          BY <1>7 DEF EndCall, Unlock
<1>8. CASE User             BY <1>8 DEF User, UserStep, UserEvent, Quit
<1>9. CASE MainStep /\ UNCHANGED dataVars
  <2>1. CASE StartLoop        BY <1>9, <2>1 DEF StartLoop
  <2>2. CASE BeginFrame       BY <1>9, <2>2 DEF BeginFrame
  <2>3. CASE StopFeed         BY <1>9, <2>3 DEF StopFeed
  <2>4. CASE RequestStop      BY <1>9, <2>4 DEF RequestStop
  <2>5. CASE Join             BY <1>9, <2>5 DEF Join
  <2> QED BY <1>9, <2>1, <2>2, <2>3, <2>4, <2>5 DEF MainStep
<1>10. CASE LockForCopy     BY <1>10 DEF LockForCopy, LockForReading
<1>11. CASE Draw            BY <1>11 DEF Draw
<1>12. CASE UNCHANGED vars  BY <1>12 DEF vars, boxVars
<1> QED
  BY <1>1, <1>2, <1>3, <1>4, <1>5, <1>6, <1>7, <1>8, <1>9, <1>10, <1>11, <1>12
  DEF Next, WorkerStep, UiStep, Ended

\* The ring only ever holds trades with a price, a size, an id that is a number
\* and a side, whatever on_trade is given and wherever it throws.
THEOREM TypeCorrect == Spec => []TypeOK
<1>1. TypeInv => TypeOK
  BY DEF TypeInv
<1> QED BY <1>1, TypeInit, TypeStep, PTL DEF Spec

-----------------------------------------------------------------------------
(***************************************************************************)
(* The lock.  FramesAreWhole is about a step of the main thread; what it   *)
(* rests on is that trade_ring_mutex_ has one holder, which is whoever is  *)
(* inside on_trade or between the two braces of to_table.                  *)
(***************************************************************************)
LockDiscipline == /\ mutex = "worker" <=> worker = "entry"
                  /\ mutex = "ui" <=> ui = "copy"

LEMMA LockStep == LockDiscipline /\ [Next]_vars => LockDiscipline'
<1> SUFFICES ASSUME LockDiscipline, [Next]_vars PROVE LockDiscipline'
  OBVIOUS
<1> USE DEF LockDiscipline, Worker, Ui
<1>1. CASE Enqueue          BY <1>1 DEF Enqueue, Receive
<1>2. CASE Poll
  BY <1>2 DEF Poll, PollStep, CheckStop, DequeueNothing, StopOrBackOff, AfterEmpty, PostEvent, Catch
<1>3. CASE Take             BY <1>3 DEF Take, Dequeue
<1>4. CASE LockRing         BY <1>4 DEF LockRing, LockForWriting
<1>5. CASE AddEntry         BY <1>5 DEF AddEntry
<1>6. CASE ThrowAtEntry     BY <1>6 DEF ThrowAtEntry, Unlock
<1>7. CASE EndCall          BY <1>7 DEF EndCall, Unlock
<1>8. CASE User             BY <1>8 DEF User, UserStep, UserEvent, Quit
<1>9. CASE MainStep /\ UNCHANGED dataVars
  BY <1>9 DEF MainStep, StartLoop, BeginFrame, StopFeed, RequestStop, Join
<1>10. CASE LockForCopy     BY <1>10 DEF LockForCopy, LockForReading, ReaderMayEnter
<1>11. CASE Draw            BY <1>11 DEF Draw
<1>12. CASE UNCHANGED vars  BY <1>12 DEF vars, boxVars
<1> QED
  BY <1>1, <1>2, <1>3, <1>4, <1>5, <1>6, <1>7, <1>8, <1>9, <1>10, <1>11, <1>12
  DEF Next, WorkerStep, UiStep, Ended

\* Only Draw changes the screen, and it holds the mutex while it does.
LEMMA DrawStep ==
  ASSUME LockDiscipline, [Next]_vars, worker = "entry"
  PROVE  UNCHANGED drawn
<1>1. ~Draw
  BY DEF Draw, Ui, LockDiscipline
<1>2. ASSUME Poll PROVE UNCHANGED drawn
  BY <1>2 DEF Poll, dataVars
<1>3. ASSUME WorkerStep PROVE UNCHANGED drawn
  BY <1>2, <1>3 DEF WorkerStep, Take, LockRing, AddEntry, ThrowAtEntry, EndCall, Unlock, dataVars
<1>4. ASSUME UiStep PROVE UNCHANGED drawn
  BY <1>1, <1>4 DEF UiStep, LockForCopy, dataVars
<1> QED
  BY <1>3, <1>4 DEF Next, Enqueue, Receive, User, Ended, vars, dataVars

\* A frame is drawn from the ring as it is between two messages, never from
\* the middle of on_trade.
THEOREM NoHalfMessageIsDrawn == Spec => FramesAreWhole
<1>1. Init => LockDiscipline
  BY DEF Init, BoxInit, LockDiscipline
<1>2. LockDiscipline /\ [Next]_vars => [worker = "entry" => UNCHANGED drawn]_vars
  BY DrawStep
<1> QED BY <1>1, <1>2, LockStep, PTL DEF Spec, FramesAreWhole

-----------------------------------------------------------------------------
(* No lost redraw.                                                         *)

\* A step that leaves the ring and the screen as they are.
LEMMA QuietStep ==
  ASSUME StaleTradesAreRedrawn, UNCHANGED <<ring, drawn>>,
         redraw => redraw' \/ ui' # "idle", ui # "idle" => ui' # "idle"
  PROVE  StaleTradesAreRedrawn'
BY DEF StaleTradesAreRedrawn

LEMMA RedrawStep == StaleTradesAreRedrawn /\ [Next]_vars => StaleTradesAreRedrawn'
<1> SUFFICES ASSUME StaleTradesAreRedrawn, [Next]_vars PROVE StaleTradesAreRedrawn'
  OBVIOUS
<1> USE DEF Worker, Ui, dataVars
<1>1. CASE Enqueue          BY <1>1, QuietStep DEF Enqueue, Receive
<1>2. CASE Poll
  <2>1. CASE PostEvent
    <3>1. redraw => redraw'
      BY <2>1 DEF PostEvent, Posted
    <3> QED BY <1>2, <2>1, <3>1, QuietStep DEF Poll, PostEvent
  <2>2. CASE CheckStop \/ DequeueNothing \/ StopOrBackOff \/ Catch
    BY <1>2, <2>2, QuietStep DEF Poll, CheckStop, DequeueNothing, StopOrBackOff, Catch
  <2> QED BY <1>2, <2>1, <2>2 DEF Poll, PollStep
<1>3. CASE Take             BY <1>3, QuietStep DEF Take, Dequeue
<1>4. CASE LockRing         BY <1>4, QuietStep DEF LockRing, LockForWriting
<1>5. CASE AddEntry
  <2> DEFINE added == Adds(msg.entries[i], SymbolAfter(msg.entries[i], i, symbol))
  <2>1. CASE added
    BY <1>5, <2>1 DEF AddEntry, RedrawAfter, Posted, LoopRuns, StaleTradesAreRedrawn
  <2>2. CASE ~added
    BY <1>5, <2>2, QuietStep DEF AddEntry, RedrawAfter
  <2> QED BY <2>1, <2>2
<1>6. CASE ThrowAtEntry     BY <1>6, QuietStep DEF ThrowAtEntry, Unlock
<1>7. CASE EndCall          BY <1>7, QuietStep DEF EndCall, Unlock
<1>8. CASE User             BY <1>8, QuietStep DEF User, UserStep, UserEvent, Quit
<1>9. CASE MainStep /\ UNCHANGED dataVars
  BY <1>9, QuietStep DEF MainStep, StartLoop, BeginFrame, StopFeed, RequestStop, Join
<1>10. CASE LockForCopy     BY <1>10, QuietStep DEF LockForCopy, LockForReading
<1>11. CASE Draw            BY <1>11 DEF Draw, StaleTradesAreRedrawn
<1>12. CASE UNCHANGED vars  BY <1>12, QuietStep DEF vars, boxVars
<1> QED
  BY <1>1, <1>2, <1>3, <1>4, <1>5, <1>6, <1>7, <1>8, <1>9, <1>10, <1>11, <1>12
  DEF Next, WorkerStep, UiStep, Ended

\* While the loop runs, a trade the screen does not show has a frame coming,
\* those of a message that throws half-way included.
THEOREM NoLostRedraw == Spec => []StaleTradesAreRedrawn
<1>1. Init => StaleTradesAreRedrawn
  BY DEF Init, BoxInit, StaleTradesAreRedrawn
<1> QED BY <1>1, RedrawStep, PTL DEF Spec

-----------------------------------------------------------------------------
(***************************************************************************)
(* The name in force.  NameAt looks back from an entry; the loop carries a *)
(* symbol forward: they agree.                                             *)
(***************************************************************************)
LEMMA NameAtStart == ASSUME NEW es PROVE NameAt(es, 1) = es[1].symbol
<1> DEFINE S == {j \in 1..1 : j = 1 \/ es[j].symbol # Missing}
<1>1. S \in SUBSET Int /\ 1 \in S /\ \A y \in S : y <= 1
  OBVIOUS
<1>2. NameAt(es, 1) = es[Max(S)].symbol
  BY DEF NameAt
<1> HIDE DEF S
<1> QED BY <1>1, <1>2, TopIsMax

LEMMA NameAtNext ==
  ASSUME NEW es, NEW k \in Nat \ {0}
  PROVE  NameAt(es, k + 1) = IF es[k + 1].symbol # Missing THEN es[k + 1].symbol ELSE NameAt(es, k)
<1> DEFINE S(n) == {j \in 1..n : j = 1 \/ es[j].symbol # Missing}
<1>1. NameAt(es, k) = es[Max(S(k))].symbol /\ NameAt(es, k + 1) = es[Max(S(k + 1))].symbol
  BY DEF NameAt
<1>2. CASE es[k + 1].symbol # Missing
  <2>1. S(k + 1) \in SUBSET Int /\ k + 1 \in S(k + 1) /\ \A y \in S(k + 1) : y <= k + 1
    BY <1>2
  <2> HIDE DEF S
  <2>2. Max(S(k + 1)) = k + 1
    BY <2>1, TopIsMax
  <2> QED BY <1>1, <1>2, <2>2
<1>3. CASE es[k + 1].symbol = Missing
  <2>1. S(k + 1) = S(k)
    BY <1>3
  <2> HIDE DEF S
  <2> QED BY <1>1, <1>3, <2>1
<1> QED BY <1>2, <1>3

-----------------------------------------------------------------------------
(* What a message says, entry by entry.                                    *)
Heard(m, k) == Tells(m, k) /\ \A j \in 1..k : ~Faulty(m, j)

LEMMA HeardType ==
  ASSUME NEW m \in Messages, NEW k \in 1..Len(m.entries), Heard(m, k)
  PROVE  Trade(m.entries[k]) \in Trades
<1> DEFINE e == m.entries[k]
<1>1. e \in Entries
  <2>1. m.entries \in Seq(Entries)
    BY TradeAssumption
  <2> HIDE DEF Entries
  <2> QED BY <2>1, ElementOfSeq
<1>2. k \in 1..k
  <2>1. Len(m.entries) \in Nat
    BY TradeAssumption, LenProperties
  <2> QED BY <2>1
<1>3. Adds(e, "BTCUSDT") /\ ~TradeThrows(e)
  BY <1>2 DEF Heard, Tells, Faulty
<1> HIDE DEF e
<1>4. e.id \in Nat \cup {Garbled} /\ e.side \in {"1", "2"} /\ e.sz \in DOMAIN SzTicks /\ e.px \in DOMAIN PxTicks
  BY <1>1, <1>3 DEF TradeThrows, Entries, Numbers
<1>5. Trade(e) \in Trades
  BY <1>4 DEF Trade, TradeId, Trades
<1> QED BY <1>5 DEF e

LEMMA SaidDef ==
  ASSUME NEW m \in Messages
  PROVE  /\ Said(m, 0) = <<>>
         /\ \A n \in 0..Len(m.entries) : Said(m, n) \in Seq(Trades)
         /\ \A n \in 1..Len(m.entries) :
              Said(m, n) = IF Heard(m, n) THEN Append(Said(m, n - 1), Trade(m.entries[n]))
                                          ELSE Said(m, n - 1)
<1> DEFINE l == Len(m.entries)
           Next1(x, k) == IF Heard(m, k) THEN Append(x, Trade(m.entries[k])) ELSE x
           D == [k \in Nat |-> [x \in Seq(Trades) |->
                  IF k + 1 \in 1..l THEN Next1(x, k + 1) ELSE x]]
<1>0. l \in Nat /\ \A k \in 1..l : Heard(m, k) => Trade(m.entries[k]) \in Trades
  BY TradeAssumption, LenProperties, HeardType
<1> HIDE DEF l
<1>1. D \in [Nat -> [Seq(Trades) -> Seq(Trades)]]
  <2>1. ASSUME NEW k \in Nat, NEW x \in Seq(Trades)
        PROVE  (IF k + 1 \in 1..l THEN Next1(x, k + 1) ELSE x) \in Seq(Trades)
    BY <1>0, AppendProperties
  <2> HIDE DEF Next1
  <2> QED BY <2>1
<1> HIDE DEF D
<1>2. <<>> \in Seq(Trades)
  OBVIOUS
<1>3. PICK f : Run(f, Seq(Trades), <<>>, D)
  BY <1>1, <1>2, Recursion
<1>4. /\ f \in [Nat -> Seq(Trades)] /\ f[0] = <<>>
      /\ \A k \in 1..l : f[k] = Next1(f[k - 1], k)
  <2>1. ASSUME NEW k \in 1..l PROVE f[k] = Next1(f[k - 1], k)
    <3>1. k - 1 \in Nat /\ (k - 1) + 1 = k
      BY <1>0
    <3>2. f[k] = D[k - 1][f[k - 1]] /\ f[k - 1] \in Seq(Trades)
      BY <1>3, <3>1 DEF Run
    <3> HIDE DEF Next1
    <3> QED BY <3>1, <3>2 DEF D
  <2> QED BY <1>3, <2>1 DEF Run
<1> HIDE DEF Next1
<1>5. ASSUME NEW n \in 0..l PROVE Said(m, n) = f[n]
  <2> DEFINE Goes(g) == [k \in 0..n |-> IF k = 0 THEN <<>> ELSE Next1(g[k - 1], k)]
             h == [k \in 0..n |-> f[k]]
  <2>0. n \in Nat /\ \A k \in 1..n : k \in 1..l /\ k - 1 \in 0..n
    BY <1>0
  <2>1. h = Goes(h)
    <3>1. ASSUME NEW k \in 0..n PROVE f[k] = IF k = 0 THEN <<>> ELSE Next1(h[k - 1], k)
      <4>1. CASE k = 0
        BY <1>4, <4>1
      <4>2. CASE k # 0
        <5>1. k \in 1..n
          BY <2>0, <4>2
        <5> QED BY <1>4, <2>0, <4>2, <5>1
      <4> QED BY <4>1, <4>2
    <3> QED BY <3>1
  <2> DEFINE said == CHOOSE g : g = Goes(g)
  <2>2. Said(m, n) = said[n]
    BY DEF Said, Heard, Next1
  <2> HIDE DEF h
  <2>3. said = Goes(said)
    BY <2>1
  <2> HIDE DEF said
  <2> DEFINE S == {k \in Nat : k <= n => said[k] = h[k]}
  <2>4. \A k \in 0..n : /\ said[k] = IF k = 0 THEN <<>> ELSE Next1(said[k - 1], k)
                        /\ h[k] = IF k = 0 THEN <<>> ELSE Next1(h[k - 1], k)
    BY <2>1, <2>3
  <2>5. Nat \subseteq S
    <3>1. 0 \in S
      <4>1. 0 \in 0..n
        BY <2>0
      <4> QED BY <2>4, <4>1
    <3>2. ASSUME NEW k \in Nat, k \in S PROVE k + 1 \in S
      <4>1. CASE k + 1 <= n
        <5>1. k + 1 \in 0..n /\ k + 1 # 0 /\ (k + 1) - 1 = k /\ k <= n
          BY <2>0, <4>1
        <5>2. said[k] = h[k]
          BY <3>2, <5>1
        <5> QED BY <2>4, <5>1, <5>2
      <4>2. CASE ~(k + 1 <= n)
        BY <4>2
      <4> QED BY <4>1, <4>2
    <3> HIDE DEF S
    <3> QED BY <3>1, <3>2, Induction
  <2>6. said[n] = h[n] /\ n \in 0..n
    BY <2>0, <2>5
  <2> QED BY <2>2, <2>6 DEF h
<1>6. 0 \in 0..l /\ \A n \in 1..l : n \in 0..l /\ n - 1 \in 0..l /\ n \in Nat
  BY <1>0
<1>7. /\ Said(m, 0) = <<>>
      /\ \A n \in 0..l : Said(m, n) \in Seq(Trades)
  BY <1>0, <1>4, <1>5, <1>6
<1>8. ASSUME NEW n \in 1..l
      PROVE  Said(m, n) = IF Heard(m, n) THEN Append(Said(m, n - 1), Trade(m.entries[n]))
                                         ELSE Said(m, n - 1)
  <2>1. Said(m, n) = f[n] /\ Said(m, n - 1) = f[n - 1] /\ f[n] = Next1(f[n - 1], n)
    BY <1>4, <1>5, <1>6
  <2> QED BY <2>1 DEF Next1
<1> QED BY <1>7, <1>8 DEF l

\* Behind an entry at fault a message says no more.
LEMMA SaidUntilFault ==
  ASSUME NEW m \in Messages, NEW i0 \in 1..Len(m.entries), Faulty(m, i0)
  PROVE  Said(m, Len(m.entries)) = Said(m, i0 - 1)
<1> DEFINE l == Len(m.entries)
           S == {k \in Nat : k \in (i0 - 1)..l => Said(m, k) = Said(m, i0 - 1)}
<1>0. l \in Nat
  BY TradeAssumption, LenProperties
<1> HIDE DEF l
<1>a. \A n \in 1..l : Said(m, n) = IF Heard(m, n) THEN Append(Said(m, n - 1), Trade(m.entries[n]))
                                                  ELSE Said(m, n - 1)
  BY SaidDef DEF l
<1>b. i0 \in 1..l
  BY DEF l
<1>1. Nat \subseteq S
  <2>1. 0 \in S
    BY <1>0, <1>b
  <2>2. ASSUME NEW k \in Nat, k \in S PROVE k + 1 \in S
    <3>1. CASE k + 1 \in i0..l
      <4>1. k + 1 \in 1..l /\ k \in (i0 - 1)..l /\ (k + 1) - 1 = k /\ i0 \in 1..(k + 1)
        BY <1>0, <1>b, <3>1
      <4>2. ~Heard(m, k + 1)
        BY <4>1 DEF Heard
      <4>3. Said(m, k + 1) = Said(m, k)
        BY <1>a, <4>1, <4>2
      <4> QED BY <2>2, <4>1, <4>3
    <3>2. CASE k + 1 = i0 - 1 \/ k + 1 \notin (i0 - 1)..l
      <4>1. i0 - 1 \in Nat
        BY <1>b
      <4> QED BY <3>2, <4>1
    <3> QED BY <1>0, <1>b, <3>1, <3>2
  <2> HIDE DEF S
  <2> QED BY <2>1, <2>2, Induction
<1>2. l \in (i0 - 1)..l
  BY <1>0, <1>b
<1> QED BY <1>0, <1>1, <1>2 DEF l

-----------------------------------------------------------------------------
(***************************************************************************)
(* The ring.  Within a call the worker's locals say what NameAt says of    *)
(* the entries so far, none of which is at fault; the ring is then the     *)
(* newest of what all messages have said.                                  *)
(***************************************************************************)
InCall ==
  worker = "entry" =>
    /\ i \in 1..(Len(msg.entries) + 1)
    /\ i # 1 => ~BadName(msg.entries, i - 1) /\ symbol = from_str(NameAt(msg.entries, i - 1))
    /\ \A k \in 1..(i - 1) : ~Faulty(msg, k)

\* An iteration throws exactly at an entry at fault, and adds what it tells.
LEMMA EntryAgrees ==
  ASSUME TypeInv, InCall, worker = "entry", i <= Len(msg.entries)
  PROVE  LET e == msg.entries[i]
         IN  /\ Passes(e) <=> ~Faulty(msg, i)
             /\ Passes(e) => /\ ~BadName(msg.entries, i)
                             /\ SymbolAfter(e, i, symbol) = from_str(NameAt(msg.entries, i))
                             /\ Adds(e, SymbolAfter(e, i, symbol)) <=> Tells(msg, i)
<1> DEFINE es == msg.entries
           e == es[i]
           name == NameAt(es, i)
           s == SymbolAfter(e, i, symbol)
<1>0. i \in Nat \ {0}
  BY DEF TypeInv, TypeOK
<1>1. /\ SymbolThrows(e, i) <=> BadName(es, i)
      /\ ~BadName(es, i) => s = from_str(name)
  <2>1. CASE ReadsSymbol(e, i)
    <3>1. name = e.symbol
      <4>1. CASE i = 1
        BY <4>1, NameAtStart
      <4>2. CASE i # 1
        <5>1. i - 1 \in Nat \ {0} /\ (i - 1) + 1 = i
          BY <1>0, <4>2
        <5>2. e.symbol # Missing
          BY <2>1, <4>2 DEF ReadsSymbol
        <5>3. NameAt(es, (i - 1) + 1) = IF es[(i - 1) + 1].symbol # Missing
                                        THEN es[(i - 1) + 1].symbol ELSE NameAt(es, i - 1)
          BY <5>1, NameAtNext
        <5> QED BY <5>1, <5>2, <5>3
      <4> QED BY <4>1, <4>2
    <3> QED BY <2>1, <3>1, Zenon DEF SymbolThrows, SymbolAfter, BadName
  <2>2. CASE ~ReadsSymbol(e, i)
    <3>1. i # 1 /\ e.symbol = Missing
      BY <2>2 DEF ReadsSymbol
    <3>2. i - 1 \in Nat \ {0} /\ (i - 1) + 1 = i
      BY <1>0, <3>1
    <3>3. NameAt(es, (i - 1) + 1) = IF es[(i - 1) + 1].symbol # Missing
                                    THEN es[(i - 1) + 1].symbol ELSE NameAt(es, i - 1)
      BY <3>2, NameAtNext
    <3>4. name = NameAt(es, i - 1)
      BY <3>1, <3>2, <3>3
    <3>5. ~BadName(es, i - 1) /\ symbol = from_str(NameAt(es, i - 1))
      BY <3>1 DEF InCall
    <3>6. ~BadName(es, i) /\ symbol = from_str(name)
      BY <3>4, <3>5 DEF BadName
    <3>7. ~SymbolThrows(e, i) /\ s = symbol
      BY <2>2, Zenon DEF SymbolThrows, SymbolAfter
    <3> QED BY <3>6, <3>7
  <2> QED BY <2>1, <2>2
<1>2. ASSUME ~BadName(es, i) PROVE Tells(msg, i) <=> Adds(e, s)
  <2>1. name # Missing /\ Known(name)
    BY <1>2 DEF BadName
  <2>2. IsBTC(name) <=> s = "BTCUSDT"
    BY <1>1, <1>2, <2>1 DEF IsBTC
  <2>3. Tells(msg, i) <=> IsBTC(name) /\ Adds(e, "BTCUSDT")
    BY DEF Tells
  <2> HIDE DEF e, name, s
  <2> QED BY <2>2, <2>3 DEF Adds
<1>3. Passes(e) <=> ~SymbolThrows(e, i) /\ (Adds(e, s) => ~TradeThrows(e))
  BY DEF Passes
<1>4. Faulty(msg, i) <=> BadName(es, i) \/ (Tells(msg, i) /\ TradeThrows(e))
  BY DEF Faulty
<1> HIDE DEF e, es, s, name
<1>5. Passes(e) <=> ~Faulty(msg, i)
  BY <1>1, <1>2, <1>3, <1>4
<1>6. Passes(e) => ~BadName(es, i) /\ s = from_str(name) /\ (Adds(e, s) <=> Tells(msg, i))
  BY <1>1, <1>2, <1>3
<1> QED BY <1>5, <1>6 DEF e, es, s, name

\* What the messages s have said, with the worker at w and at entry j.
SayingsOf(s, w, j) ==
  [k \in DOMAIN s |->
     Said(s[k], IF k < Len(s) \/ w \notin {"lock", "entry"} THEN Len(s[k].entries)
                ELSE IF w = "lock" THEN 0 ELSE j - 1)]
Earlier(s) == [k \in 1..(Len(s) - 1) |-> Said(s[k], Len(s[k].entries))]

LEMMA MessageLength ==
  ASSUME NEW m \in Messages
  PROVE  Len(m.entries) \in Nat /\ Len(m.entries) \in 0..Len(m.entries) /\ 0 \in 0..Len(m.entries)
BY TradeAssumption, LenProperties

LEMMA EarlierType ==
  ASSUME NEW s \in Seq(Messages), s # <<>>
  PROVE  Earlier(s) \in Seq(Seq(Trades)) /\ Len(Earlier(s)) = Len(s) - 1 /\ Last(s) \in Messages
<1>1. Len(s) \in Nat \ {0} /\ \A k \in 1..Len(s) : s[k] \in Messages
  BY EmptySeq, LenProperties, ElementOfSeq
<1>2. \A k \in 1..Len(s) : Said(s[k], Len(s[k].entries)) \in Seq(Trades)
  BY <1>1, MessageLength, SaidDef
<1>3. Len(s) - 1 \in Nat /\ \A k \in 1..(Len(s) - 1) : Said(s[k], Len(s[k].entries)) \in Seq(Trades)
  BY <1>1, <1>2
<1>4. Last(s) \in Messages
  BY <1>1 DEF Last
<1> QED BY <1>3, <1>4 DEF Earlier

\* The messages before, and the last one as far as it has come.
LEMMA SayingsSplit ==
  ASSUME NEW s \in Seq(Messages), s # <<>>, NEW w, NEW j, NEW u,
         u = IF w \notin {"lock", "entry"} THEN Len(Last(s).entries)
             ELSE IF w = "lock" THEN 0 ELSE j - 1,
         u \in 0..Len(Last(s).entries)
  PROVE  SayingsOf(s, w, j) = Append(Earlier(s), Said(Last(s), u))
<1> DEFINE n == Len(s)
           a == Append(Earlier(s), Said(Last(s), u))
<1>1. n \in Nat \ {0} /\ DOMAIN s = 1..n
  BY EmptySeq, LenProperties
<1>2. Earlier(s) \in Seq(Seq(Trades)) /\ Len(Earlier(s)) = n - 1 /\ Said(Last(s), u) \in Seq(Trades)
  BY EarlierType, SaidDef
<1>3. /\ a \in Seq(Seq(Trades)) /\ Len(a) = n /\ a[n] = Said(Last(s), u)
      /\ \A k \in 1..(n - 1) : a[k] = Earlier(s)[k]
  <2>1. (n - 1) + 1 = n
    BY <1>1
  <2> HIDE DEF n
  <2> QED BY <1>2, <2>1, AppendProperties
<1> HIDE DEF a, n
<1>4. ASSUME NEW k \in 1..n PROVE SayingsOf(s, w, j)[k] = a[k]
  <2>1. CASE k < n
    <3>1. k \in 1..(n - 1)
      BY <1>1, <2>1
    <3>2. a[k] = Said(s[k], Len(s[k].entries))
      BY <1>3, <3>1 DEF Earlier, n
    <3> QED BY <1>1, <2>1, <3>2 DEF SayingsOf, n
  <2>2. CASE ~(k < n)
    <3>1. k = n
      BY <1>1, <2>2
    <3>2. s[n] = Last(s)
      BY DEF Last, n
    <3>3. a[k] = Said(s[k], u)
      BY <1>3, <3>1, <3>2
    <3>4. ~(k < Len(s))
      BY <2>2 DEF n
    <3>5. SayingsOf(s, w, j)[k] = Said(s[k], u)
      BY <1>1, <3>1, <3>2, <3>4 DEF SayingsOf
    <3> QED BY <3>3, <3>5
  <2> QED BY <2>1, <2>2
<1>5. SayingsOf(s, w, j) = [k \in 1..n |-> SayingsOf(s, w, j)[k]]
  BY <1>1 DEF SayingsOf
<1>6. a = [k \in 1..n |-> a[k]]
  BY <1>1, <1>3
<1> QED BY <1>4, <1>5, <1>6 DEF a

LEMMA SayingsInCall ==
  ASSUME NEW s \in Seq(Messages), s # <<>>, NEW j, j - 1 \in 0..Len(Last(s).entries)
  PROVE  SayingsOf(s, "entry", j) = Append(Earlier(s), Said(Last(s), j - 1))
<1> DEFINE u == j - 1
<1>1. u = IF "entry" \notin {"lock", "entry"} THEN Len(Last(s).entries)
          ELSE IF "entry" = "lock" THEN 0 ELSE j - 1
  OBVIOUS
<1>2. u \in 0..Len(Last(s).entries)
  OBVIOUS
<1> HIDE DEF u
<1>3. SayingsOf(s, "entry", j) = Append(Earlier(s), Said(Last(s), u))
  BY <1>1, <1>2, SayingsSplit
<1> QED BY <1>3 DEF u

\* Between two calls all that was taken has been said.
LEMMA EarlierOfNext ==
  ASSUME NEW s \in Seq(Messages), NEW m \in Messages, NEW w, w \notin {"lock", "entry"}, NEW j
  PROVE  Earlier(Append(s, m)) = SayingsOf(s, w, j)
<1>1. /\ Len(Append(s, m)) - 1 = Len(s) /\ DOMAIN s = 1..Len(s)
      /\ \A k \in 1..Len(s) : Append(s, m)[k] = s[k]
  BY AppendProperties, LenProperties
<1> QED BY <1>1 DEF Earlier, SayingsOf

RingInv == TypeInv /\ InCall /\ RingIsNewestTrades

LEMMA RingDef ==
  /\ RingIsNewestTrades <=> ring = Newest(FlattenSeq(SayingsOf(taken, worker, i)), MAX_LINES)
  /\ RingIsNewestTrades' <=> ring' = Newest(FlattenSeq(SayingsOf(taken', worker', i')), MAX_LINES)
BY DEF RingIsNewestTrades, Upto, SayingsOf, Newest

LEMMA RingInit == Init => InCall /\ RingIsNewestTrades
<1> SUFFICES ASSUME Init PROVE InCall /\ RingIsNewestTrades
  OBVIOUS
<1>1. taken = <<>> /\ ring = <<>> /\ worker = "check"
  BY DEF Init, BoxInit
<1>2. SayingsOf(taken, worker, i) = <<>>
  BY <1>1 DEF SayingsOf
<1>3. FlattenSeq(<<>>) = <<>>
  BY DEF FlattenSeq
<1>4. Newest(<<>>, MAX_LINES) = <<>>
  <2>1. Len(<<>>) = 0 /\ ~(0 > MAX_LINES)
    BY TradeAssumption
  <2>2. SubSeq(<<>>, 1, 0) = <<>>
    BY SubSeqEmpty
  <2> QED BY <2>1, <2>2 DEF Newest
<1> QED BY <1>1, <1>2, <1>3, <1>4, RingDef DEF InCall

\* The worker moves between two calls, or nothing about the ring changes.
LEMMA RingRests ==
  ASSUME RingInv, UNCHANGED <<taken, ring, i, symbol>>,
         \/ worker' = worker
         \/ worker \notin {"lock", "entry"} /\ worker' \notin {"lock", "entry"}
  PROVE  InCall' /\ RingIsNewestTrades'
<1>1. InCall'
  <2>1. worker' = "entry" => worker = "entry"
    OBVIOUS
  <2>2. msg' = msg
    BY DEF msg
  <2> QED BY <2>1, <2>2 DEF RingInv, InCall
<1>2. SayingsOf(taken, worker', i) = SayingsOf(taken, worker, i)
  BY DEF SayingsOf
<1> QED BY <1>1, <1>2, RingDef DEF RingInv

LEMMA RingStep == RingInv /\ [Next]_vars => InCall' /\ RingIsNewestTrades'
<1> SUFFICES ASSUME RingInv, [Next]_vars PROVE InCall' /\ RingIsNewestTrades'
  OBVIOUS
<1> USE DEF Worker, Ui, dataVars
<1>0. /\ taken \in Seq(Messages) /\ i \in Nat \ {0} /\ MAX_LINES \in Nat \ {0}
      /\ ring = Newest(FlattenSeq(SayingsOf(taken, worker, i)), MAX_LINES)
      /\ worker \in {"lock", "entry"} => taken # <<>>
  BY TradeAssumption, RingDef DEF RingInv, TypeInv, TypeOK, HasMessage
<1>1. CASE Enqueue          BY <1>1, RingRests DEF Enqueue, Receive
<1>2. CASE Poll
  BY <1>2, RingRests DEF Poll, PollStep, CheckStop, DequeueNothing, StopOrBackOff, AfterEmpty,
                         PostEvent, Catch
<1>3. CASE Take
  <2> PICK l \in Lanes : Dequeue(l) /\ taken' = Append(taken, Head(queue_[l])) /\ ring' = ring /\ i' = i
    BY <1>3 DEF Take
  <2> DEFINE m == Head(queue_[l])
  <2>1. /\ worker = "dequeue" /\ worker' = "lock" /\ taken' = Append(taken, m) /\ ring' = ring
        /\ i' = i /\ queue_[l] # <<>>
    BY DEF Dequeue
  <2>2. m \in Messages
    <3>1. queue_[l] \in Seq(Messages)
      BY DEF RingInv, TypeInv, TypeOK
    <3> QED BY <2>1, <3>1, HeadTailProperties
  <2> HIDE DEF m
  <2> DEFINE old == SayingsOf(taken, worker, i)
  <2>3. taken' \in Seq(Messages) /\ taken' # <<>> /\ Last(taken') = m
    BY <1>0, <2>1, <2>2, AppendProperties DEF Last
  <2>4. Earlier(taken') = old /\ old \in Seq(Seq(Trades))
    <3>1. Earlier(taken') = old
      BY <1>0, <2>1, <2>2, EarlierOfNext
    <3> QED BY <2>3, <3>1, EarlierType
  <2>5. Said(m, 0) = <<>> /\ 0 \in 0..Len(m.entries)
    BY <2>2, SaidDef, MessageLength
  <2> HIDE DEF old
  <2>6. SayingsOf(taken', worker', i') = Append(old, <<>>)
    BY <2>1, <2>3, <2>4, <2>5, SayingsSplit
  <2>7. FlattenSeq(Append(old, <<>>)) = FlattenSeq(old)
    <3>1. <<>> \in Seq(Trades)
      OBVIOUS
    <3>2. FlattenSeq(old) \in Seq(Trades) /\ FlattenSeq(Append(old, <<>>)) = FlattenSeq(old) \o <<>>
      BY <2>4, <3>1, FlattenAppend
    <3> QED BY <3>2
  <2> QED BY <1>0, <2>1, <2>6, <2>7, RingDef DEF InCall, old
<1>4. CASE LockRing
  <2>1. /\ worker = "lock" /\ worker' = "entry" /\ taken' = taken /\ ring' = ring /\ i' = 1
        /\ msg' = msg
    BY <1>4 DEF LockRing, LockForWriting, msg
  <2>2. SayingsOf(taken, "entry", 1) = SayingsOf(taken, "lock", i)
    BY DEF SayingsOf
  <2>3. InCall'
    <3>1. msg \in Messages
      BY <1>0, <2>1, EarlierType DEF msg
    <3> QED BY <2>1, <3>1, MessageLength DEF InCall
  <2> QED BY <1>0, <2>1, <2>2, <2>3, RingDef
<1>5. ASSUME worker = "entry"
      PROVE  /\ msg = Last(taken) /\ msg \in Messages /\ Earlier(taken) \in Seq(Seq(Trades))
             /\ i - 1 \in 0..Len(msg.entries) /\ Len(msg.entries) \in Nat
             /\ SayingsOf(taken, worker, i) = Append(Earlier(taken), Said(msg, i - 1))
             /\ \A w : w \notin {"lock", "entry"} =>
                  SayingsOf(taken, w, i) = Append(Earlier(taken), Said(msg, Len(msg.entries)))
  <2>1. msg = Last(taken) /\ msg \in Messages /\ Earlier(taken) \in Seq(Seq(Trades))
    BY <1>0, <1>5, EarlierType DEF msg
  <2>2. i - 1 \in 0..Len(msg.entries) /\ Len(msg.entries) \in Nat /\ Len(msg.entries) \in 0..Len(msg.entries)
    BY <1>0, <1>5, <2>1, MessageLength DEF RingInv, InCall
  <2>3. SayingsOf(taken, worker, i) = Append(Earlier(taken), Said(msg, i - 1))
    <3>1. SayingsOf(taken, "entry", i) = Append(Earlier(taken), Said(Last(taken), i - 1))
      BY <1>0, <1>5, <2>1, <2>2, SayingsInCall
    <3> QED BY <1>5, <2>1, <3>1
  <2>4. ASSUME NEW w, w \notin {"lock", "entry"}
        PROVE  SayingsOf(taken, w, i) = Append(Earlier(taken), Said(msg, Len(msg.entries)))
    BY <1>0, <1>5, <2>1, <2>2, <2>4, SayingsSplit
  <2> QED BY <2>1, <2>2, <2>3, <2>4
<1>6. CASE AddEntry
  <2> DEFINE e == msg.entries[i]
             added == Adds(e, SymbolAfter(e, i, symbol))
             l == Len(msg.entries)
  <2>1. /\ worker = "entry" /\ worker' = worker /\ i <= l /\ i' = i + 1 /\ taken' = taken
        /\ Passes(e) /\ symbol' = SymbolAfter(e, i, symbol) /\ msg' = msg
        /\ ring' = IF added THEN Push(ring, Trade(e)) ELSE ring
    BY <1>6 DEF AddEntry, msg
  <2>2. /\ ~Faulty(msg, i) /\ ~BadName(msg.entries, i)
        /\ symbol' = from_str(NameAt(msg.entries, i)) /\ (added <=> Tells(msg, i))
    BY <2>1, EntryAgrees DEF RingInv
  <2>3. i \in 1..l /\ i' - 1 = i /\ i' # 1 /\ i' \in 1..(l + 1) /\ l \in Nat
        /\ \A k \in 1..i : k = i \/ k \in 1..(i - 1)
    BY <1>0, <1>5, <2>1
  <2>4. \A k \in 1..i : ~Faulty(msg, k)
    BY <2>1, <2>2, <2>3 DEF RingInv, InCall
  <2>5. InCall'
    BY <2>1, <2>2, <2>3, <2>4 DEF InCall
  <2>6. added <=> Heard(msg, i)
    BY <2>2, <2>4 DEF Heard
  <2> HIDE DEF added, e
  <2> DEFINE s == Said(msg, i - 1)
             t == Said(msg, i)
             front == Earlier(taken)
             old == FlattenSeq(Append(front, s))
             new == FlattenSeq(Append(front, t))
  <2>7. t = IF added THEN Append(s, Trade(e)) ELSE s
    BY <1>5, <2>1, <2>3, <2>6, SaidDef DEF e
  <2>8. SayingsOf(taken', worker', i') = Append(front, t)
    <3>1. i' - 1 \in 0..Len(Last(taken).entries)
      BY <1>5, <2>1, <2>3
    <3>2. SayingsOf(taken, "entry", i') = Append(front, Said(Last(taken), i' - 1))
      BY <1>0, <2>1, <3>1, SayingsInCall
    <3> QED BY <1>5, <2>1, <2>3, <3>2
  <2>9. ring = Newest(old, MAX_LINES)
    BY <1>0, <1>5, <2>1
  <2>10. CASE ~added
    BY <2>1, <2>5, <2>7, <2>8, <2>9, <2>10, RingDef
  <2>11. CASE added
    <3>1. s \in Seq(Trades) /\ Trade(e) \in Trades /\ front \in Seq(Seq(Trades)) /\ t \in Seq(Trades)
      <4>1. i - 1 \in 0..l /\ i \in 0..l
        BY <2>3
      <4>2. Trade(e) \in Trades
        BY <1>5, <2>1, <2>3, <2>6, <2>11, HeardType DEF e
      <4> QED BY <1>5, <2>1, <4>1, <4>2, SaidDef
    <3> HIDE DEF s, t, front
    <3>2. old = FlattenSeq(front) \o s /\ new = FlattenSeq(front) \o t /\ FlattenSeq(front) \in Seq(Trades)
      BY <3>1, FlattenAppend
    <3> DEFINE x == Trade(e)
    <3>3. x \in Trades /\ t = Append(s, x)
      BY <2>7, <2>11, <3>1
    <3> HIDE DEF old, new, x
    <3>4. old \in Seq(Trades) /\ new = Append(old, x)
      <4>1. \A f, p \in Seq(Trades), z \in Trades :
              f \o Append(p, z) = Append(f \o p, z) /\ f \o p \in Seq(Trades)
        OBVIOUS
      <4> QED BY <3>1, <3>2, <3>3, <4>1
    <3>5. /\ Newest(old, MAX_LINES) \in Seq(Trades)
          /\ Newest(Append(old, x), MAX_LINES)
               = Append(IF Len(Newest(old, MAX_LINES)) < MAX_LINES
                        THEN Newest(old, MAX_LINES) ELSE Tail(Newest(old, MAX_LINES)), x)
      BY <1>0, <3>3, <3>4, NewestAppend
    <3>6. ring' = Push(ring, x)
      BY <2>1, <2>11 DEF x
    <3>7. ring' = Newest(new, MAX_LINES)
      BY <2>9, <3>4, <3>5, <3>6 DEF Push
    <3> QED BY <2>5, <2>8, <3>7, RingDef DEF new
  <2> QED BY <2>10, <2>11
<1>7. CASE ThrowAtEntry
  <2>1. /\ worker = "entry" /\ worker' = "raised" /\ i <= Len(msg.entries) /\ ~Passes(msg.entries[i])
        /\ UNCHANGED <<taken, ring, i>>
    BY <1>7 DEF ThrowAtEntry, Unlock
  <2>2. Faulty(msg, i)
    BY <2>1, EntryAgrees DEF RingInv
  <2>3. i \in 1..Len(msg.entries)
    BY <1>0, <1>5, <2>1
  <2>4. Said(msg, Len(msg.entries)) = Said(msg, i - 1)
    BY <1>5, <2>1, <2>2, <2>3, SaidUntilFault
  <2>5. SayingsOf(taken, "raised", i) = SayingsOf(taken, worker, i)
    BY <1>5, <2>1, <2>4
  <2> QED BY <1>0, <2>1, <2>5, RingDef DEF InCall
<1>8. CASE EndCall
  <2>1. /\ worker = "entry" /\ worker' = "post" /\ i > Len(msg.entries)
        /\ UNCHANGED <<taken, ring, i>>
    BY <1>8 DEF EndCall, Unlock
  <2>2. i - 1 = Len(msg.entries)
    BY <1>0, <1>5, <2>1
  <2>3. SayingsOf(taken, "post", i) = SayingsOf(taken, worker, i)
    BY <1>5, <2>1, <2>2
  <2> QED BY <1>0, <2>1, <2>3, RingDef DEF InCall
<1>9. CASE User             BY <1>9, RingRests DEF User, UserStep, UserEvent, Quit
<1>10. CASE MainStep /\ UNCHANGED dataVars
  BY <1>10, RingRests DEF MainStep, StartLoop, BeginFrame, StopFeed, RequestStop, Join
<1>11. CASE LockForCopy     BY <1>11, RingRests DEF LockForCopy, LockForReading
<1>12. CASE Draw            BY <1>12, RingRests DEF Draw
<1>13. CASE UNCHANGED vars  BY <1>13, RingRests DEF vars, boxVars
<1> QED
  BY <1>1, <1>2, <1>3, <1>4, <1>6, <1>7, <1>8, <1>9, <1>10, <1>11, <1>12, <1>13
  DEF Next, WorkerStep, UiStep, Ended

\* The ring is the newest trades of all that the messages taken have said, a
\* message that throws having said what comes before the entry at fault.
THEOREM RingHoldsNewestTrades == Spec => []RingIsNewestTrades
<1>1. RingInv => RingIsNewestTrades
  BY DEF RingInv
<1>2. Init => RingInv
  BY TypeInit, RingInit DEF RingInv
<1>3. RingInv /\ [Next]_vars => RingInv'
  BY TypeStep, RingStep DEF RingInv
<1> QED BY <1>1, <1>2, <1>3, PTL DEF Spec

-----------------------------------------------------------------------------
(* Ticks and Display.  First, powers of two.                               *)
LEMMA Pow2Is ==
  Pow2[0] = 1 /\ \A n \in Nat : Pow2[n] \in Nat \ {0} /\ Pow2[n + 1] = 2 * Pow2[n]
<1> DEFINE twice == [x \in Nat |-> 2 * x]
           D == [n \in Nat |-> twice]
           IsPow2(f) == f = [n \in Nat |-> IF n = 0 THEN 1 ELSE 2 * f[n - 1]]
<1>1. PICK f : Run(f, Nat, 1, D)
  <2>1. D \in [Nat -> [Nat -> Nat]] /\ 1 \in Nat
    OBVIOUS
  <2> HIDE DEF D
  <2> QED BY <2>1, Recursion
<1>2. f \in [Nat -> Nat] /\ f[0] = 1 /\ \A n \in Nat : f[n + 1] = 2 * f[n]
  BY <1>1 DEF Run
<1>3. IsPow2(f)
  <2>1. ASSUME NEW n \in Nat PROVE f[n] = IF n = 0 THEN 1 ELSE 2 * f[n - 1]
    <3>1. CASE n # 0
      <4>1. n - 1 \in Nat /\ n = (n - 1) + 1
        BY <3>1
      <4> QED BY <1>2, <3>1, <4>1
    <3> QED BY <1>2, <3>1
  <2> QED BY <1>2, <2>1
<1>4. IsPow2(Pow2)
  <2>1. Pow2 = CHOOSE g : IsPow2(g)
    BY DEF Pow2
  <2> HIDE DEF IsPow2
  <2> QED BY <1>3, <2>1
<1>5. Pow2[0] = 1 /\ \A n \in Nat : Pow2[n + 1] = 2 * Pow2[n]
  <2>1. ASSUME NEW g, IsPow2(g) PROVE g[0] = 1 /\ \A n \in Nat : g[n + 1] = 2 * g[n]
    <3>1. ASSUME NEW n \in Nat PROVE g[n] = IF n = 0 THEN 1 ELSE 2 * g[n - 1]
      BY <2>1, Zenon
    <3>2. ASSUME NEW n \in Nat PROVE g[n + 1] = 2 * g[n]
      <4>1. n + 1 \in Nat /\ n + 1 # 0 /\ (n + 1) - 1 = n
        OBVIOUS
      <4>2. g[n + 1] = IF n + 1 = 0 THEN 1 ELSE 2 * g[(n + 1) - 1]
        BY <3>1, <4>1
      <4> QED BY <4>1, <4>2
    <3> QED BY <3>1, <3>2
  <2> HIDE DEF IsPow2
  <2> QED BY <1>4, <2>1
<1>6. \A n \in Nat : Pow2[n] \in Nat \ {0}
  <2> DEFINE S == {n \in Nat : Pow2[n] \in Nat \ {0}}
  <2>1. 0 \in S /\ \A n \in Nat : n \in S => n + 1 \in S
    BY <1>5
  <2>2. Nat \subseteq S
    <3> HIDE DEF S
    <3> QED BY <2>1, Induction
  <2> QED BY <2>2
<1> QED BY <1>5, <1>6

LEMMA Pow2Sum ==
  ASSUME NEW m \in Nat, NEW n \in Nat
  PROVE  Pow2[m + n] = Pow2[m] * Pow2[n]
<1> DEFINE S == {k \in Nat : Pow2[m + k] = Pow2[m] * Pow2[k]}
<1>1. 0 \in S
  BY Pow2Is
<1>2. ASSUME NEW k \in Nat, k \in S PROVE k + 1 \in S
  <2>1. Pow2[m + (k + 1)] = 2 * Pow2[m + k] /\ Pow2[k + 1] = 2 * Pow2[k]
    <3>1. m + k \in Nat /\ m + (k + 1) = (m + k) + 1
      OBVIOUS
    <3> QED BY <3>1, Pow2Is
  <2>2. Pow2[m] \in Nat /\ Pow2[k] \in Nat /\ Pow2[m + k] = Pow2[m] * Pow2[k]
    BY <1>2, Pow2Is
  <2> QED BY <2>1, <2>2
<1>3. Nat \subseteq S
  <2> HIDE DEF S
  <2> QED BY <1>1, <1>2, Induction
<1> QED BY <1>3

LEMMA Pow2Parts ==
  ASSUME NEW m \in Nat, NEW n \in Nat, m <= n
  PROVE  n - m \in Nat /\ Pow2[n - m] \in Nat \ {0} /\ Pow2[n] = Pow2[m] * Pow2[n - m]
<1> DEFINE j == n - m
<1>1. j \in Nat /\ n = m + j
  OBVIOUS
<1> HIDE DEF j
<1>2. Pow2[m + j] = Pow2[m] * Pow2[j]
  BY <1>1, Pow2Sum
<1> QED BY <1>1, <1>2, Pow2Is DEF j

LEMMA Pow2Rises ==
  ASSUME NEW m \in Nat, NEW n \in Nat, m < n
  PROVE  2 * Pow2[m] <= Pow2[n]
<1>1. n - m - 1 \in Nat /\ m + 1 \in Nat /\ n = (m + 1) + (n - m - 1)
  OBVIOUS
<1>2. Pow2[n] = Pow2[m + 1] * Pow2[n - m - 1] /\ Pow2[m + 1] = 2 * Pow2[m]
  <2>1. Pow2[(m + 1) + (n - m - 1)] = Pow2[m + 1] * Pow2[n - m - 1]
    BY <1>1, Pow2Sum
  <2> QED BY <1>1, <2>1, Pow2Is
<1>3. Pow2[n - m - 1] \in Nat \ {0} /\ Pow2[m] \in Nat
  BY <1>1, Pow2Is
<1> QED BY <1>2, <1>3

LEMMA Pow2Values ==
  /\ Pow2[1] = 2 /\ Pow2[2] = 4
  /\ Pow2[52] \in Nat /\ Pow2[52] >= 4 /\ Pow2[52] % 2 = 0 /\ Pow2[53] = 2 * Pow2[52]
<1>1. 0 + 1 = 1 /\ 1 + 1 = 2 /\ 51 + 1 = 52 /\ 52 + 1 = 53
  OBVIOUS
<1>2. Pow2[1] = 2 /\ Pow2[2] = 4 /\ Pow2[52] = 2 * Pow2[51] /\ Pow2[53] = 2 * Pow2[52]
  BY <1>1, Pow2Is
<1>3. Pow2[51] \in Nat /\ 2 * Pow2[2] <= Pow2[52]
  BY Pow2Is, Pow2Rises
<1>4. Pow2[52] % 2 = 0
  BY <1>2, <1>3
<1> QED BY <1>2, <1>3, <1>4

\* A natural lies between two powers of two.
LEMMA Pow2Around ==
  ASSUME NEW v \in Nat \ {0}
  PROVE  \E b \in Nat : Pow2[b] <= v /\ v < Pow2[b + 1]
<1> DEFINE S == {n \in Nat : v < Pow2[n]}
<1>1. v \in S
  <2> DEFINE U == {n \in Nat : n < Pow2[n]}
  <2>1. 0 \in U /\ \A n \in Nat : n \in U => n + 1 \in U
    BY Pow2Is
  <2>2. Nat \subseteq U
    <3> HIDE DEF U
    <3> QED BY <2>1, Induction
  <2> QED BY <2>2
<1>2. PICK n \in S : \A y \in S : n <= y
  <2>1. S \in SUBSET Nat /\ S # {}
    BY <1>1
  <2> HIDE DEF S
  <2> QED BY <2>1, Least
<1>3. n # 0 /\ n - 1 \in Nat /\ n - 1 \notin S
  BY <1>2, Pow2Is
<1>4. Pow2[n - 1] \in Nat /\ ~(v < Pow2[n - 1])
  BY <1>3, Pow2Is
<1>5. Pow2[n - 1] <= v /\ v < Pow2[(n - 1) + 1]
  BY <1>2, <1>4
<1> QED BY <1>3, <1>5

\* There is one such pair only.
LEMMA Pow2Unique ==
  ASSUME NEW v \in Nat, NEW a \in Nat, NEW b \in Nat,
         Pow2[a] <= v, v < Pow2[a + 1], Pow2[b] <= v, v < Pow2[b + 1]
  PROVE  a = b
<1>1. Pow2[a] \in Nat /\ Pow2[b] \in Nat /\ Pow2[a + 1] = 2 * Pow2[a] /\ Pow2[b + 1] = 2 * Pow2[b]
  BY Pow2Is
<1>2. ~(a < b) /\ ~(b < a)
  BY <1>1, Pow2Rises
<1> QED BY <1>2

-----------------------------------------------------------------------------
(* Division.                                                               *)
LEMMA DivMod ==
  ASSUME NEW a \in Nat, NEW b \in Nat \ {0}
  PROVE  a \div b \in Nat /\ a % b \in Nat /\ a % b < b /\ a = (a \div b) * b + (a % b)
OBVIOUS

LEMMA DivModUnique ==
  ASSUME NEW a \in Nat, NEW b \in Nat \ {0}, NEW q \in Nat, NEW r \in Nat,
         r < b, a = q * b + r
  PROVE  a \div b = q /\ a % b = r
<1> DEFINE c == a \div b
           x == a % b
<1>1. c \in Nat /\ x \in Nat /\ x < b /\ q * b + r = c * b + x
  BY DivMod
<1> HIDE DEF c, x
<1>2. ASSUME NEW m \in Nat, NEW n \in Nat, m < n PROVE m * b + b <= n * b
  <2>1. n = m + 1 + (n - m - 1) /\ n - m - 1 \in Nat
    BY <1>2
  <2>2. n * b = m * b + b + (n - m - 1) * b /\ (n - m - 1) * b \in Nat
    BY <2>1
  <2>3. m * b \in Nat /\ n * b \in Nat
    OBVIOUS
  <2> QED BY <2>2, <2>3
<1>3. q * b \in Nat /\ c * b \in Nat
  BY <1>1
<1>4. ~(q < c)
  BY <1>1, <1>2, <1>3
<1>5. ~(c < q)
  BY <1>1, <1>2, <1>3
<1>6. c = q
  BY <1>1, <1>4, <1>5
<1>7. x = r
  BY <1>1, <1>3, <1>6
<1> QED BY <1>6, <1>7 DEF c, x

\* One step of a division by doubling.
LEMMA Doubled ==
  ASSUME NEW a \in Nat, NEW b \in Nat \ {0}
  PROVE  /\ (2 * a) \div b = 2 * (a \div b) + (2 * (a % b)) \div b
         /\ (2 * a) % b = (2 * (a % b)) % b
<1> DEFINE q == a \div b
           c == 2 * (a % b)
           m == c \div b
<1>1. q \in Nat /\ a % b \in Nat /\ a = q * b + (a % b)
  BY DivMod
<1>2. c \in Nat /\ m \in Nat /\ c % b \in Nat /\ c % b < b /\ c = m * b + (c % b)
  BY <1>1, DivMod
<1>3. 2 * a = 2 * (q * b) + c
  BY <1>1
<1> HIDE DEF q, c, m
<1>4. 2 * a = (2 * q + m) * b + (c % b) /\ 2 * q + m \in Nat
  <2>1. (2 * q + m) * b = 2 * (q * b) + m * b /\ 2 * q + m \in Nat
    BY <1>1, <1>2
  <2> DEFINE r == c % b
             qb == q * b
             mb == m * b
  <2>2. r \in Nat /\ qb \in Nat /\ mb \in Nat /\ 2 * a = 2 * qb + c /\ c = mb + r
        /\ (2 * q + m) * b = 2 * qb + mb
    BY <1>1, <1>2, <1>3, <2>1
  <2>3. (2 * q + m) * b + r = 2 * a
    <3> HIDE DEF r, qb, mb
    <3> QED BY <2>2
  <2> QED BY <2>1, <2>3
<1>5. (2 * a) \div b = 2 * q + m /\ (2 * a) % b = c % b
  <2>1. 2 * a \in Nat
    OBVIOUS
  <2> QED BY <1>2, <1>4, <2>1, DivModUnique
<1> QED BY <1>5 DEF q, c, m

\* Multiplication keeps the order.
LEMMA TimesRises ==
  ASSUME NEW a \in Nat, NEW b \in Nat, NEW c \in Nat
  PROVE  a * c \in Nat /\ (a <= b => a * c <= b * c) /\ (a < b /\ c # 0 => a * c < b * c)
OBVIOUS

-----------------------------------------------------------------------------
(* The binary exponent of a quote.                                         *)
Quotes == 1..(Pow2[53] - 1)

LEMMA QuotesAre == /\ Quotes \in SUBSET (Nat \ {0}) /\ \A k \in Quotes : k < Pow2[53]
                   /\ \A k \in Nat \ {0} : k < Pow2[53] => k \in Quotes
<1>1. Pow2[53] \in Nat
  BY Pow2Is
<1> QED BY <1>1 DEF Quotes

LEMMA Log2Is ==
  ASSUME NEW n \in Quotes
  PROVE  Log2(n) \in 0..52 /\ Pow2[Log2(n)] <= n /\ n < Pow2[Log2(n) + 1]
<1>1. PICK b \in Nat : Pow2[b] <= n /\ n < Pow2[b + 1]
  BY QuotesAre, Pow2Around
<1>2. b \in 0..52
  <2>1. ASSUME b > 52 PROVE FALSE
    <3>1. Pow2[53] <= Pow2[b]
      <4>1. CASE b = 53
        BY <4>1, Pow2Values
      <4>2. CASE 53 < b
        BY <4>2, Pow2Rises, Pow2Is
      <4> QED BY <2>1, <4>1, <4>2
    <3> QED BY <1>1, <3>1, QuotesAre, Pow2Is
  <2> QED BY <2>1
<1> QED BY <1>1, <1>2 DEF Log2

\* k/unit in units of 2^-s has 53 bits.
LEMMA ExponentIs ==
  ASSUME NEW k \in Quotes, NEW unit \in Quotes
  PROVE  LET s == BitsAfterPoint(k, unit)
         IN  /\ Exponent(k, unit) \in -53..52 /\ s \in Nat
             /\ Pow2[52] * unit <= k * Pow2[s]
             /\ k * Pow2[s] < 2 * (Pow2[52] * unit)
<1> DEFINE e == Exponent(k, unit)
           s == BitsAfterPoint(k, unit)
<1>0. k \in Nat \ {0} /\ unit \in Nat \ {0} /\ k < Pow2[53] /\ unit < Pow2[53]
  BY QuotesAre
<1>1. CASE k >= unit
  <2> DEFINE q == k \div unit
  <2>1. /\ q \in Nat /\ k % unit \in Nat /\ k % unit < unit
        /\ k = q * unit + (k % unit)
    BY <1>0, DivMod
  <2>2. q # 0 /\ q <= k
    BY <1>0, <1>1, <2>1
  <2>3. q \in Quotes
    BY <1>0, <2>1, <2>2, Pow2Values DEF Quotes
  <2>4. e = Log2(q)
    BY <1>1 DEF Exponent
  <2> HIDE DEF q
  <2>5. e \in 0..52 /\ Pow2[e] <= q /\ q < Pow2[e + 1]
    BY <2>3, <2>4, Log2Is
  <2>6. s = 52 - e /\ s \in Nat
    BY <2>5 DEF BitsAfterPoint
  <2> HIDE DEF e, s
  <2>7. Pow2[52] = Pow2[e] * Pow2[s] /\ Pow2[e + 1] = 2 * Pow2[e] /\ Pow2[e] \in Nat /\ Pow2[s] \in Nat \ {0}
    <3>1. e \in Nat /\ e + s = 52
      BY <2>5, <2>6
    <3>2. Pow2[e + s] = Pow2[e] * Pow2[s]
      BY <2>6, <3>1, Pow2Sum
    <3> QED BY <2>6, <3>1, <3>2, Pow2Is
  <2>8. Pow2[e] * unit <= k
    BY <1>0, <2>1, <2>5, <2>7, TimesRises
  <2>9. k < 2 * (Pow2[e] * unit)
    <3>1. q + 1 <= 2 * Pow2[e]
      BY <2>1, <2>5, <2>7
    <3>2. (q + 1) * unit <= (2 * Pow2[e]) * unit
      BY <1>0, <2>1, <2>7, <3>1, TimesRises
    <3>3. (q + 1) * unit = q * unit + unit /\ (2 * Pow2[e]) * unit = 2 * (Pow2[e] * unit)
      BY <1>0, <2>1, <2>7
    <3> QED BY <1>0, <2>1, <2>7, <3>2, <3>3
  <2>a. (Pow2[e] * unit) * Pow2[s] = Pow2[52] * unit /\ Pow2[e] * unit \in Nat
    BY <1>0, <2>7
  <2>b. (Pow2[e] * unit) * Pow2[s] <= k * Pow2[s]
    BY <1>0, <2>7, <2>8, <2>a, TimesRises
  <2>c. k * Pow2[s] < (2 * (Pow2[e] * unit)) * Pow2[s]
    BY <1>0, <2>7, <2>9, <2>a, TimesRises
  <2>d. (2 * (Pow2[e] * unit)) * Pow2[s] = 2 * (Pow2[52] * unit)
    BY <1>0, <2>7, <2>a
  <2> QED BY <2>5, <2>6, <2>a, <2>b, <2>c, <2>d DEF e, s
<1>2. CASE k < unit
  <2> DEFINE d == CHOOSE x \in 1..53 : Pow2[x - 1] * k < unit /\ unit <= Pow2[x] * k
  <2>1. \E x \in 1..53 : Pow2[x - 1] * k < unit /\ unit <= Pow2[x] * k
    <3> DEFINE S == {n \in Nat : unit <= Pow2[n] * k}
    <3>1. 53 \in S
      BY <1>0, Pow2Values
    <3>2. PICK n \in S : \A y \in S : n <= y
      <4>1. S \in SUBSET Nat /\ S # {}
        BY <3>1
      <4> HIDE DEF S
      <4> QED BY <4>1, Least
    <3>3. n # 0
      BY <1>0, <1>2, Pow2Is
    <3>4. n \in 1..53 /\ n - 1 \in Nat /\ n - 1 \notin S
      BY <3>1, <3>2, <3>3
    <3>5. Pow2[n - 1] * k \in Nat
      BY <1>0, <3>4, Pow2Is
    <3>6. Pow2[n - 1] * k < unit
      BY <1>0, <3>4, <3>5
    <3> QED BY <3>2, <3>4, <3>6
  <2>2. d \in 1..53 /\ Pow2[d - 1] * k < unit /\ unit <= Pow2[d] * k
    BY <2>1
  <2>3. e = -d
    BY <1>0, <1>2 DEF Exponent
  <2> HIDE DEF d
  <2>4. s = 52 + d /\ s \in Nat /\ e \in -53..52
    BY <2>2, <2>3 DEF BitsAfterPoint
  <2> HIDE DEF e, s
  <2>5. /\ Pow2[s] = Pow2[52] * Pow2[d] /\ Pow2[d] = 2 * Pow2[d - 1]
        /\ Pow2[52] \in Nat \ {0} /\ Pow2[d] \in Nat /\ Pow2[d - 1] \in Nat
    <3>1. d - 1 \in Nat /\ d = (d - 1) + 1 /\ d \in Nat
      BY <2>2
    <3> QED BY <2>4, <3>1, Pow2Sum, Pow2Is
  <2>6. k * Pow2[s] = Pow2[52] * (Pow2[d] * k)
    BY <1>0, <2>5
  <2>7. Pow2[d] * k = 2 * (Pow2[d - 1] * k) /\ Pow2[d - 1] * k \in Nat
    BY <1>0, <2>5
  <2>8. unit <= Pow2[d] * k /\ Pow2[d] * k < 2 * unit /\ Pow2[d] * k \in Nat
    BY <1>0, <2>2, <2>7
  <2>9. Pow2[52] * unit <= Pow2[52] * (Pow2[d] * k) /\ Pow2[52] * (Pow2[d] * k) < 2 * (Pow2[52] * unit)
    BY <1>0, <2>8, Pow2Values
  <2> QED BY <2>4, <2>6, <2>9 DEF e, s
<1> QED BY <1>0, <1>1, <1>2

\* The recursion by doubling.
LEMMA ShiftedRemainderIs ==
  ASSUME NEW k \in Nat, NEW n \in Nat, NEW unit \in Nat \ {0}
  PROVE  ShiftedRemainder(k, n, unit) = (k * Pow2[n]) % unit
<1> DEFINE Is(r) == r = [j \in 0..n |-> IF j = 0 THEN k % unit ELSE (2 * r[j - 1]) % unit]
           f == [j \in 0..n |-> (k * Pow2[j]) % unit]
           r == CHOOSE g : Is(g)
<1>1. f = [j \in 0..n |-> IF j = 0 THEN k % unit ELSE (2 * f[j - 1]) % unit]
  <2>1. ASSUME NEW j \in 0..n
        PROVE  f[j] = IF j = 0 THEN k % unit ELSE (2 * f[j - 1]) % unit
    <3>1. CASE j = 0
      BY <3>1, Pow2Is
    <3>2. CASE j # 0
      <4>1. j - 1 \in 0..n /\ j - 1 \in Nat /\ j = (j - 1) + 1
        BY <3>2
      <4> DEFINE a == k * Pow2[j - 1]
      <4>2. a \in Nat /\ k * Pow2[j] = 2 * a
        BY <4>1, Pow2Is
      <4>3. f[j] = (2 * a) % unit /\ f[j - 1] = a % unit
        BY <4>1, <4>2
      <4> HIDE DEF a
      <4>4. (2 * a) % unit = (2 * (a % unit)) % unit
        BY <4>2, Doubled
      <4> QED BY <3>2, <4>3, <4>4
    <3> QED BY <3>1, <3>2
  <2> QED BY <2>1
<1>2. Is(r)
  BY <1>1
<1> HIDE DEF r
<1>3. r[n] = f[n]
  <2> DEFINE S == {j \in Nat : j <= n => r[j] = f[j]}
  <2> HIDE DEF f
  <2>1. 0 \in S
    BY <1>1, <1>2
  <2>2. ASSUME NEW j \in Nat, j \in S PROVE j + 1 \in S
    <3>1. CASE j + 1 <= n
      <4>1. j + 1 \in 0..n /\ j + 1 # 0 /\ (j + 1) - 1 = j /\ r[j] = f[j]
        BY <2>2, <3>1
      <4> QED BY <1>1, <1>2, <4>1
    <3> QED BY <3>1
  <2>3. Nat \subseteq S
    <3> HIDE DEF S
    <3> QED BY <2>1, <2>2, Induction
  <2> QED BY <2>3
<1>4. ShiftedRemainder(k, n, unit) = r[n]
  BY DEF ShiftedRemainder, r
<1> QED BY <1>3, <1>4

-----------------------------------------------------------------------------
(* The first rounding: no quote is half-way between two doubles.           *)
LEMMA OddFactor ==
  ASSUME NEW n \in Nat
  PROVE  \A k \in Nat \ {0}, q \in Nat, unit \in Nat \ {0} :
           Pow2[n] * k = (2 * q + 1) * unit => Pow2[n] <= unit
<1> DEFINE S == {m \in Nat : \A k \in Nat \ {0}, q \in Nat, unit \in Nat \ {0} :
                               Pow2[m] * k = (2 * q + 1) * unit => Pow2[m] <= unit}
<1>1. 0 \in S
  BY Pow2Is
<1>2. ASSUME NEW m \in Nat, m \in S PROVE m + 1 \in S
  <2> SUFFICES ASSUME NEW k \in Nat \ {0}, NEW q \in Nat, NEW unit \in Nat \ {0},
                      Pow2[m + 1] * k = (2 * q + 1) * unit
               PROVE  Pow2[m + 1] <= unit
    OBVIOUS
  <2>1. Pow2[m + 1] = 2 * Pow2[m] /\ Pow2[m] \in Nat
    BY Pow2Is
  <2>2. unit % 2 = 0
    <3>1. (2 * q + 1) * unit = 2 * (q * unit) + unit /\ q * unit \in Nat
      OBVIOUS
    <3>2. Pow2[m + 1] * k = 2 * (Pow2[m] * k) /\ Pow2[m] * k \in Nat
      BY <2>1
    <3> QED BY <3>1, <3>2
  <2>3. PICK half \in Nat \ {0} : unit = 2 * half
    BY <2>2
  <2>4. Pow2[m] * k = (2 * q + 1) * half
    <3>1. 2 * (Pow2[m] * k) = 2 * ((2 * q + 1) * half) /\ Pow2[m] * k \in Nat /\ (2 * q + 1) * half \in Nat
      BY <2>1, <2>3
    <3> QED BY <3>1
  <2>5. Pow2[m] <= half
    BY <1>2, <2>3, <2>4
  <2> QED BY <2>1, <2>3, <2>5
<1>3. Nat \subseteq S
  <2> HIDE DEF S
  <2> QED BY <1>1, <1>2, Induction
<1> QED BY <1>3

LEMMA NoTie ==
  ASSUME NEW k \in Quotes, NEW unit \in Quotes
  PROVE  2 * ((k * Pow2[BitsAfterPoint(k, unit)]) % unit) # unit
<1> DEFINE s == BitsAfterPoint(k, unit)
           shifted == k * Pow2[s]
           q == shifted \div unit
<1> SUFFICES ASSUME 2 * (shifted % unit) = unit PROVE FALSE
  OBVIOUS
<1>1. k \in Nat \ {0} /\ unit \in Nat \ {0} /\ k < Pow2[53]
  BY QuotesAre
<1>2. s \in Nat /\ Pow2[52] * unit <= shifted
  BY ExponentIs
<1> HIDE DEF s
<1>3. Pow2[s] \in Nat \ {0} /\ shifted \in Nat /\ Pow2[s + 1] = 2 * Pow2[s]
  <2>1. Pow2[s] \in Nat \ {0} /\ Pow2[s + 1] = 2 * Pow2[s]
    BY <1>2, Pow2Is
  <2> QED BY <1>1, <2>1
<1>4. Pow2[s + 1] * k = 2 * shifted
  BY <1>1, <1>3
<1> HIDE DEF shifted
<1>5. q \in Nat /\ shifted = q * unit + (shifted % unit)
  BY <1>1, <1>3, DivMod
<1>6. 2 * shifted = (2 * q + 1) * unit
  BY <1>1, <1>3, <1>5
<1> HIDE DEF q
<1>7. Pow2[s + 1] <= unit
  <2>1. s + 1 \in Nat /\ Pow2[s + 1] * k = (2 * q + 1) * unit
    BY <1>2, <1>4, <1>6
  <2> QED BY <1>1, <1>5, <2>1, OddFactor
<1>8. Pow2[52] * (2 * Pow2[s]) <= k * Pow2[s]
  <2>1. Pow2[52] * Pow2[s + 1] <= Pow2[52] * unit
    BY <1>1, <1>3, <1>7, Pow2Values
  <2> QED BY <1>1, <1>2, <1>3, <2>1, Pow2Values DEF shifted
<1>9. k * Pow2[s] < Pow2[53] * Pow2[s]
  BY <1>1, <1>3, Pow2Values, TimesRises
<1> QED BY <1>1, <1>3, <1>8, <1>9, Pow2Values

LEMMA FirstRounding ==
  ASSUME NEW k \in Quotes, NEW unit \in Quotes
  PROVE  LET shifted == k * Pow2[BitsAfterPoint(k, unit)]
             err == QuoteError(k, unit)
         IN  /\ shifted \in Nat /\ err \in Int
             /\ Double(k, unit) \in Nat
             /\ Double(k, unit) * unit = shifted + err
             /\ -unit <= 2 * err /\ 2 * err <= unit
<1> DEFINE s == BitsAfterPoint(k, unit)
           shifted == k * Pow2[s]
           x == shifted % unit
           q == shifted \div unit
           err == QuoteError(k, unit)
<1>1. k \in Nat \ {0} /\ unit \in Nat \ {0}
  BY QuotesAre
<1>2. s \in Nat
  BY ExponentIs
<1>3. err = IF 2 * x < unit THEN -x ELSE unit - x
  <2>1. s = 52 - Exponent(k, unit)
    BY DEF BitsAfterPoint
  <2>2. ShiftedRemainder(k, s, unit) = x
    BY <1>1, <1>2, ShiftedRemainderIs
  <2> QED BY <2>1, <2>2 DEF QuoteError
<1>4. 2 * x # unit
  BY NoTie
<1>5. shifted \in Nat
  BY <1>1, <1>2, Pow2Is
<1>6. Double(k, unit) = IF 2 * x < unit THEN q ELSE q + 1
  BY <1>4 DEF Double, Nearest
<1> HIDE DEF s, shifted, err
<1>7. x \in Nat /\ q \in Nat /\ x < unit /\ shifted = q * unit + x
  BY <1>1, <1>5, DivMod
<1>8. (q + 1) * unit = q * unit + unit /\ q * unit \in Nat
  BY <1>1, <1>7
<1> HIDE DEF x, q
<1>9. Double(k, unit) \in Nat /\ Double(k, unit) * unit = shifted + err /\ err \in Int
      /\ -unit <= 2 * err /\ 2 * err <= unit
  <2>1. CASE 2 * x < unit
    BY <1>1, <1>3, <1>6, <1>7, <1>8, <2>1
  <2>2. CASE ~(2 * x < unit)
    BY <1>1, <1>3, <1>6, <1>7, <1>8, <2>2
  <2> QED BY <2>1, <2>2
<1> QED BY <1>5, <1>9 DEF s, shifted, err

-----------------------------------------------------------------------------
(* The gap between doubles around a quote in ticks.                        *)
LEMMA GapIs ==
  ASSUME NEW k \in Quotes, k < Pow2[52], NEW unit \in Quotes
  PROVE  LET s == BitsAfterPoint(k, unit)
             g == Exponent(k, 1) - Exponent(k, unit)
             n == k * Pow2[52 - Exponent(k, 1)]
         IN  /\ g \in Nat /\ Gap(k, unit) = Pow2[g]
             /\ n \in Nat /\ n % 2 = 0 /\ Pow2[52] <= n /\ n < Pow2[53]
             /\ k * Pow2[s] = n * Pow2[g] /\ 2 * Pow2[g] <= Pow2[s]
             /\ IsPowerOf2(k) <=> n = Pow2[52]
             /\ unit < 2 * Pow2[g]
<1> DEFINE e == Exponent(k, unit)
           s == BitsAfterPoint(k, unit)
           bit == Exponent(k, 1)
           g == bit - e
           n == k * Pow2[52 - bit]
<1>1. k \in Nat \ {0} /\ unit \in Nat \ {0}
  BY QuotesAre
<1>2. /\ e \in -53..52 /\ s = 52 - e /\ s \in Nat
      /\ Pow2[52] * unit <= k * Pow2[s] /\ k * Pow2[s] < 2 * (Pow2[52] * unit)
  BY ExponentIs DEF BitsAfterPoint
<1>3. bit = Log2(k)
  <2>1. k >= 1 /\ k \div 1 = k
    BY <1>1
  <2> QED BY <2>1 DEF Exponent
<1>4. bit \in 0..52 /\ Pow2[bit] <= k /\ k < Pow2[bit + 1]
  BY <1>3, Log2Is
<1>5. bit # 52
  BY <1>1, <1>4, Pow2Values
<1>6. bit \in 0..51 /\ Gap(k, unit) = Pow2[g] /\ (IsPowerOf2(k) <=> k = Pow2[bit])
  BY <1>4, <1>5 DEF Gap, IsPowerOf2
<1> HIDE DEF e, s, bit
<1>7. /\ Pow2[bit + 1] = 2 * Pow2[bit] /\ Pow2[bit] \in Nat \ {0} /\ Pow2[s] \in Nat \ {0}
      /\ Pow2[52 - bit] \in Nat \ {0} /\ Pow2[52] = Pow2[bit] * Pow2[52 - bit]
  <2>1. bit \in Nat /\ 52 - bit \in Nat /\ 52 = bit + (52 - bit)
    BY <1>6
  <2>2. Pow2[bit + (52 - bit)] = Pow2[bit] * Pow2[52 - bit]
    BY <2>1, Pow2Sum
  <2> QED BY <1>2, <2>1, <2>2, Pow2Is
<1>8. g \in Nat
  <2> SUFFICES ASSUME bit < e PROVE FALSE
    BY <1>2, <1>6
  <2>1. k * Pow2[s] < (2 * Pow2[bit]) * Pow2[s]
    BY <1>1, <1>4, <1>7, TimesRises
  <2>2. (2 * Pow2[bit]) * Pow2[s] = Pow2[bit + 1 + s] /\ bit + 1 + s <= 52 /\ bit + 1 + s \in Nat
    <3>1. bit + 1 \in Nat /\ bit + 1 + s <= 52 /\ bit + 1 + s \in Nat
      BY <1>2, <1>6
    <3>2. Pow2[(bit + 1) + s] = Pow2[bit + 1] * Pow2[s]
      BY <1>2, <3>1, Pow2Sum
    <3> QED BY <1>7, <3>1, <3>2
  <2>3. Pow2[bit + 1 + s] <= Pow2[52]
    <3>1. CASE bit + 1 + s = 52
      BY <3>1, Pow2Values
    <3>2. CASE bit + 1 + s < 52
      BY <2>2, <3>2, Pow2Rises, Pow2Is
    <3> QED BY <2>2, <3>1, <3>2
  <2>4. Pow2[52] <= Pow2[52] * unit
    BY <1>1, Pow2Values
  <2> QED BY <1>1, <1>2, <1>7, <2>1, <2>2, <2>3, <2>4, Pow2Values
<1>9. Pow2[s] = Pow2[52 - bit] * Pow2[g] /\ Pow2[g] \in Nat \ {0}
  <2>1. 52 - bit \in Nat /\ s = (52 - bit) + g
    BY <1>2, <1>6
  <2> QED BY <1>8, <2>1, Pow2Sum, Pow2Is
<1> HIDE DEF g
<1>a. n \in Nat /\ k * Pow2[s] = n * Pow2[g]
  BY <1>1, <1>7, <1>9
<1>b. Pow2[52 - bit] % 2 = 0 /\ 2 <= Pow2[52 - bit]
  <2>1. 51 - bit \in Nat /\ 52 - bit = (51 - bit) + 1
    BY <1>6
  <2>2. Pow2[52 - bit] = 2 * Pow2[51 - bit] /\ Pow2[51 - bit] \in Nat \ {0}
    BY <2>1, Pow2Is
  <2> QED BY <2>2
<1>c. n % 2 = 0
  <2>1. PICK h \in Nat : Pow2[52 - bit] = 2 * h
    BY <1>7, <1>b
  <2>2. n = 2 * (k * h) /\ k * h \in Nat
    BY <1>1, <2>1
  <2> QED BY <2>2
<1>d. Pow2[52] <= n /\ n < Pow2[53] /\ (k = Pow2[bit] <=> n = Pow2[52])
  <2>1. Pow2[bit] * Pow2[52 - bit] <= k * Pow2[52 - bit]
    BY <1>1, <1>4, <1>7, TimesRises
  <2>2. k * Pow2[52 - bit] < (2 * Pow2[bit]) * Pow2[52 - bit]
    BY <1>1, <1>4, <1>7, TimesRises
  <2>3. (2 * Pow2[bit]) * Pow2[52 - bit] = 2 * Pow2[52]
    BY <1>7
  <2>4. Pow2[bit] < k => Pow2[bit] * Pow2[52 - bit] < k * Pow2[52 - bit]
    BY <1>1, <1>7, TimesRises
  <2> QED BY <1>1, <1>4, <1>7, <1>a, <2>1, <2>2, <2>3, <2>4, Pow2Values
<1>e. 2 * Pow2[g] <= Pow2[s]
  BY <1>7, <1>9, <1>b, TimesRises
<1>f. unit < 2 * Pow2[g]
  <2>1. n * Pow2[g] < (2 * Pow2[52]) * Pow2[g]
    BY <1>9, <1>a, <1>d, Pow2Values, TimesRises
  <2>2. Pow2[52] * unit < (2 * Pow2[52]) * Pow2[g]
    BY <1>1, <1>2, <1>9, <1>a, <2>1, Pow2Values
  <2> QED BY <1>1, <1>9, <2>2, Pow2Values
<1> QED BY <1>6, <1>8, <1>a, <1>c, <1>d, <1>e, <1>f DEF e, s, bit, g

-----------------------------------------------------------------------------
(* The second rounding.                                                    *)

\* A number whose ulp is known.
LEMMA SignificantIs ==
  ASSUME NEW v \in Nat, NEW j \in Nat, Pow2[52] * Pow2[j] <= v, v < 2 * (Pow2[52] * Pow2[j])
  PROVE  Significant(v) = Nearest(v, Pow2[j]) * Pow2[j]
<1>1. Pow2[j] \in Nat \ {0} /\ Pow2[52 + j] = Pow2[52] * Pow2[j] /\ Pow2[(52 + j) + 1] = 2 * Pow2[52 + j]
  <2>1. 52 \in Nat /\ 52 + j \in Nat
    OBVIOUS
  <2> QED BY <2>1, Pow2Sum, Pow2Is
<1>2. LeadingBit(v) = 52 + j
  <2>1. 52 + j \in Nat /\ Pow2[52 + j] <= v /\ v < Pow2[(52 + j) + 1]
    BY <1>1
  <2>2. LeadingBit(v) \in Nat /\ Pow2[LeadingBit(v)] <= v /\ v < Pow2[LeadingBit(v) + 1]
    BY <2>1 DEF LeadingBit
  <2> QED BY <2>1, <2>2, Pow2Unique
<1>3. Significant(v) = IF j = 0 THEN v ELSE Nearest(v, Pow2[j]) * Pow2[j]
  <2>1. (52 + j) - 52 = j /\ (52 + j <= 52 <=> j = 0)
    OBVIOUS
  <2> QED BY <1>2, <2>1 DEF Significant
<1>4. CASE j = 0
  <2>1. v \div 1 = v /\ v % 1 = 0
    OBVIOUS
  <2>2. Nearest(v, 1) = v
    BY <2>1 DEF Nearest
  <2> QED BY <1>3, <1>4, <2>2, Pow2Is
<1> QED BY <1>3, <1>4

\* Between two multiples of an even and an odd, a tie goes to the even one.
LEMMA NearestIs ==
  ASSUME NEW q \in Nat, NEW b \in Nat \ {0}, NEW r \in Nat, r < b, q % 2 = 1
  PROVE  Nearest(q * b + r, b) = IF 2 * r < b THEN q ELSE q + 1
<1>1. q * b + r \in Nat
  OBVIOUS
<1>2. (q * b + r) \div b = q /\ (q * b + r) % b = r
  BY <1>1, DivModUnique
<1> QED BY <1>2 DEF Nearest

\* What the first rounding has made of k, in units of 1/scale: it is off by
\* err, next to the n-th multiple of the gap 2^g.
Product(k, unit, err, g, n, scale) ==
  /\ k \in Nat \ {0} /\ unit \in Nat /\ err \in Int /\ g \in Nat /\ n \in Nat /\ scale \in Nat
  /\ n % 2 = 0 /\ Pow2[52] <= n /\ n < Pow2[53]
  /\ k * scale = n * Pow2[g] /\ 2 * Pow2[g] <= scale
  /\ -unit <= 2 * err /\ 2 * err <= unit /\ unit < 2 * Pow2[g]
IsLost(err, g, n) == (IF n = Pow2[52] THEN -4 ELSE -2) * err > Pow2[g]

LEMMA SecondRounding ==
  ASSUME NEW k, NEW unit, NEW err, NEW g, NEW n, NEW scale, Product(k, unit, err, g, n, scale)
  PROVE  Significant(k * scale + err) \div scale = IF IsLost(err, g, n) THEN k - 1 ELSE k
<1> USE DEF Product, IsLost
<1> DEFINE G == Pow2[g]
           v == k * scale + err
<1>1. /\ G \in Nat \ {0} /\ n * G \in Nat /\ v = n * G + err /\ n \in Nat /\ n >= 2
      /\ -G < err /\ err < G /\ scale \in Nat \ {0} /\ 2 * G <= scale
      /\ k * scale = n * G
  BY Pow2Is, Pow2Values
\* Where a rounded value is cut off.
<1>2. ASSUME NEW d \in Int, -scale <= d, d < scale
      PROVE  (n * G + d) \div scale = IF d < 0 THEN k - 1 ELSE k
  <2>1. (k - 1) * scale + scale = k * scale /\ k - 1 \in Nat /\ (k - 1) * scale \in Nat
    BY <1>1
  <2>2. CASE d < 0
    <3>1. n * G + d = (k - 1) * scale + (scale + d) /\ scale + d \in Nat /\ scale + d < scale
      BY <1>1, <1>2, <2>1, <2>2
    <3>2. n * G + d \in Nat
      BY <2>1, <3>1
    <3>3. scale \in Nat \ {0}
      BY <1>1
    <3>4. (n * G + d) \div scale = k - 1
      BY <2>1, <3>1, <3>2, <3>3, DivModUnique, Zenon
    <3> QED BY <2>2, <3>4
  <2>3. CASE ~(d < 0)
    <3>1. n * G + d = k * scale + d /\ d \in Nat /\ n * G + d \in Nat
      BY <1>1, <1>2, <2>3
    <3>2. scale \in Nat \ {0} /\ k \in Nat /\ d < scale
      BY <1>1, <1>2
    <3>3. (n * G + d) \div scale = k
      BY <3>1, <3>2, DivModUnique, Zenon
    <3> QED BY <2>3, <3>3
  <2> QED BY <2>2, <2>3, Zenon
<1>3. n * G - G = (n - 1) * G /\ n * G - 2 * G = (n - 2) * G /\ n * G + G = (n + 1) * G
  <2>1. \A x, y \in Nat : x * y - y = (x - 1) * y /\ x * y - 2 * y = (x - 2) * y /\ x * y + y = (x + 1) * y
    OBVIOUS
  <2>2. n \in Nat /\ G \in Nat
    BY <1>1
  <2> QED BY <2>1, <2>2, Zenon
<1>4. Pow2[52] * G <= n * G /\ n * G + G <= 2 * (Pow2[52] * G)
  <2>1. n + 1 <= 2 * Pow2[52] /\ Pow2[52] \in Nat
    BY Pow2Values
  <2>2. Pow2[52] * G <= n * G /\ (n + 1) * G <= (2 * Pow2[52]) * G
    BY <1>1, <2>1, TimesRises
  <2>3. (2 * Pow2[52]) * G = 2 * (Pow2[52] * G)
    BY <1>1, <2>1
  <2> QED BY <1>3, <2>2, <2>3
<1>5. CASE err >= 0
  <2>1. Significant(v) = Nearest(v, G) * G
    <3>1. v \in Nat /\ Pow2[52] * G <= v /\ v < 2 * (Pow2[52] * G)
      BY <1>1, <1>4, <1>5, Pow2Values
    <3> QED BY <3>1, SignificantIs
  <2>2. v \div G = n /\ v % G = err
    <3>1. v \in Nat /\ G \in Nat \ {0} /\ n \in Nat /\ err \in Nat /\ err < G /\ v = n * G + err
      BY <1>1, <1>5
    <3> HIDE DEF v, G
    <3> QED BY <3>1, DivModUnique, Zenon
  <2>3. Nearest(v, G) = n \/ Nearest(v, G) = n + 1
    BY <2>2 DEF Nearest
  <2>4. Significant(v) = n * G + 0 \/ Significant(v) = n * G + G
    BY <1>1, <1>3, <2>1, <2>3
  <2>5. Significant(v) \div scale = k
    BY <1>1, <1>2, <2>4
  <2> QED BY <1>1, <1>5, <2>5
<1>6. CASE err < 0 /\ n # Pow2[52]
  <2>1. Significant(v) = Nearest(v, G) * G
    <3>1. Pow2[52] * G <= (n - 1) * G
      BY <1>1, <1>6, Pow2Values, TimesRises
    <3>2. v \in Nat /\ Pow2[52] * G <= v /\ v < 2 * (Pow2[52] * G)
      BY <1>1, <1>3, <1>4, <1>6, <3>1, Pow2Values
    <3> QED BY <3>2, SignificantIs
  <2>2. Nearest(v, G) = IF 2 * (G + err) < G THEN n - 1 ELSE n
    <3>1. v = (n - 1) * G + (G + err) /\ G + err \in Nat /\ G + err < G /\ n - 1 \in Nat /\ (n - 1) % 2 = 1
      BY <1>1, <1>3, <1>6
    <3>2. n = (n - 1) + 1 /\ G \in Nat \ {0}
      BY <1>1
    <3>3. Nearest((n - 1) * G + (G + err), G) = IF 2 * (G + err) < G THEN n - 1 ELSE (n - 1) + 1
      BY <3>1, <3>2, NearestIs
    <3> HIDE DEF v, G
    <3> QED BY <3>1, <3>2, <3>3
  <2>3. Significant(v) = IF -2 * err > G THEN n * G + (-G) ELSE n * G + 0
    BY <1>1, <1>3, <2>1, <2>2
  <2>4. Significant(v) \div scale = IF -2 * err > G THEN k - 1 ELSE k
    BY <1>1, <1>2, <2>3
  <2> QED BY <1>6, <2>4
\* Below a power of two the numbers lie twice as close.
<1>7. CASE err < 0 /\ n = Pow2[52]
  <2>1. g # 0
    BY <1>1, <1>7, Pow2Is
  <2> DEFINE H == Pow2[g - 1]
  <2>2. g - 1 \in Nat /\ G = 2 * H /\ H \in Nat \ {0}
    <3>1. g - 1 \in Nat /\ g = (g - 1) + 1
      BY <2>1
    <3> QED BY <3>1, Pow2Is
  <2> HIDE DEF H
  <2>3. n * G = (2 * n) * H /\ (2 * n - 1) * H = n * G - H /\ (2 * n - 2) * H = n * G - 2 * H
    BY <1>1, <2>2
  <2>4. Significant(v) = Nearest(v, H) * H
    <3>1. Pow2[52] * H <= (2 * n - 2) * H
      BY <1>1, <1>7, <2>2, Pow2Values, TimesRises
    <3>2. v \in Nat /\ Pow2[52] * H <= v /\ v < 2 * (Pow2[52] * H)
      BY <1>1, <1>7, <2>2, <2>3, <3>1, Pow2Values
    <3> QED BY <2>2, <3>2, SignificantIs DEF H
  <2>5. CASE -H <= err
    <3>1. v = (2 * n - 1) * H + (H + err) /\ H + err \in Nat /\ H + err < H
          /\ 2 * n - 1 \in Nat /\ (2 * n - 1) % 2 = 1
      BY <1>1, <1>7, <2>2, <2>3, <2>5
    <3>2. Nearest(v, H) = IF 2 * (H + err) < H THEN 2 * n - 1 ELSE (2 * n - 1) + 1
      <4>1. Nearest((2 * n - 1) * H + (H + err), H) = IF 2 * (H + err) < H THEN 2 * n - 1 ELSE (2 * n - 1) + 1
        BY <2>2, <3>1, NearestIs
      <4> HIDE DEF v
      <4> QED BY <3>1, <4>1
    <3>3. Significant(v) = IF -4 * err > G THEN n * G + (-H) ELSE n * G + 0
      BY <1>1, <2>2, <2>3, <2>4, <3>2
    <3>4. Significant(v) \div scale = IF -4 * err > G THEN k - 1 ELSE k
      BY <1>1, <1>2, <2>2, <3>3
    <3> QED BY <1>7, <3>4
  <2>6. CASE err < -H
    <3>1. v = (2 * n - 2) * H + (2 * H + err) /\ 2 * H + err \in Nat /\ 2 * H + err < H
          /\ 2 * n - 2 \in Nat /\ v \in Nat
      BY <1>1, <1>7, <2>2, <2>3, <2>6
    <3>2. v \div H = 2 * n - 2
      BY <2>2, <3>1, DivModUnique
    <3>3. Nearest(v, H) = 2 * n - 2 \/ Nearest(v, H) = (2 * n - 2) + 1
      BY <3>2 DEF Nearest
    <3>4. Significant(v) = n * G + (-(2 * H)) \/ Significant(v) = n * G + (-H)
      <4>1. (2 * n - 2) + 1 = 2 * n - 1
        BY <1>1
      <4> QED BY <1>1, <2>2, <2>3, <2>4, <3>3, <4>1
    <3>5. Significant(v) \div scale = k - 1
      BY <1>1, <1>2, <2>2, <3>4
    <3>6. -4 * err > G
      BY <2>2, <2>6
    <3> QED BY <1>7, <3>5, <3>6
  <2> QED BY <1>1, <2>2, <2>5, <2>6
<1> QED BY <1>5, <1>6, <1>7

\* toUint64 in Ticks is the two roundings of IEEE 754 and the truncation, for
\* every quote whose ticks are a double with a bit to spare.
THEOREM TicksAreRoundedTwice ==
  ASSUME NEW k \in Quotes, k < Pow2[52], NEW unit \in Quotes
  PROVE  toUint64(k, unit) = RoundedTwice(k, unit)
<1> DEFINE s == BitsAfterPoint(k, unit)
           scale == Pow2[s]
           err == QuoteError(k, unit)
           g == Exponent(k, 1) - Exponent(k, unit)
           n == k * Pow2[52 - Exponent(k, 1)]
<1>1. k \in Nat \ {0} /\ unit \in Nat /\ scale \in Nat
  BY QuotesAre, ExponentIs, Pow2Is
<1>2. err \in Int /\ Double(k, unit) * unit = k * scale + err /\ -unit <= 2 * err /\ 2 * err <= unit
  BY FirstRounding
<1>3. /\ g \in Nat /\ Gap(k, unit) = Pow2[g]
      /\ n \in Nat /\ n % 2 = 0 /\ Pow2[52] <= n /\ n < Pow2[53]
      /\ k * scale = n * Pow2[g] /\ 2 * Pow2[g] <= scale
      /\ IsPowerOf2(k) <=> n = Pow2[52]
      /\ unit < 2 * Pow2[g]
  BY GapIs
<1>4. RoundedTwice(k, unit) = Significant(k * scale + err) \div scale
  BY <1>2 DEF RoundedTwice
<1>5. FallsBelow(k, unit) <=> IsLost(err, g, n)
  BY <1>3 DEF FallsBelow, IsLost
<1>6. toUint64(k, unit) = IF FallsBelow(k, unit) THEN k - 1 ELSE k
  BY <1>1 DEF toUint64
<1>7. Product(k, unit, err, g, n, scale)
  BY <1>1, <1>2, <1>3 DEF Product
<1> HIDE DEF scale, err, g, n
<1>8. Significant(k * scale + err) \div scale = IF IsLost(err, g, n) THEN k - 1 ELSE k
  BY <1>7, SecondRounding
<1> QED BY <1>4, <1>5, <1>6, <1>8

\* Whatever the decimal and whatever the ticks per unit, two roundings to 53
\* bits and a truncation give the quote or one tick less, below 2^52 ticks.
THEOREM StoredWithinOneTick ==
  ASSUME NEW k \in Quotes, k < Pow2[52], NEW unit \in Quotes
  PROVE  RoundedTwice(k, unit) \in {k - 1, k}
BY TicksAreRoundedTwice DEF toUint64

-----------------------------------------------------------------------------
(* What is shown of a size.                                                *)
LEMMA Pow2Large ==
  /\ Pow2[11] = 2048 /\ Pow2[50] = 1125899906842624 /\ Pow2[52] = 4503599627370496
<1>1. Pow2[3] = 8 /\ Pow2[6] = 64
  <2>1. 2 + 1 = 3 /\ 3 + 1 = 4 /\ 4 + 1 = 5 /\ 5 + 1 = 6
    OBVIOUS
  <2>2. Pow2[2 + 1] = 2 * Pow2[2] /\ Pow2[3 + 1] = 2 * Pow2[3] /\ Pow2[4 + 1] = 2 * Pow2[4]
        /\ Pow2[5 + 1] = 2 * Pow2[5]
    BY Pow2Is
  <2> QED BY <2>1, <2>2, Pow2Values
<1>2. Pow2[5] = 32 /\ Pow2[11] = 2048 /\ Pow2[12] = 4096 /\ Pow2[13] = 8192
  <2>1. 6 + 6 = 12 /\ 12 + 1 = 13 /\ 11 + 1 = 12 /\ 5 + 1 = 6
    OBVIOUS
  <2>2. Pow2[6 + 6] = Pow2[6] * Pow2[6] /\ Pow2[12 + 1] = 2 * Pow2[12]
        /\ Pow2[11 + 1] = 2 * Pow2[11] /\ Pow2[5 + 1] = 2 * Pow2[5]
        /\ Pow2[11] \in Nat /\ Pow2[5] \in Nat
    BY Pow2Is, Pow2Sum
  <2> QED BY <1>1, <2>1, <2>2
<1>3. Pow2[25] = 33554432 /\ Pow2[50] = 33554432 * 33554432
  <2>1. 12 + 13 = 25 /\ 25 + 25 = 50
    OBVIOUS
  <2>2. Pow2[12 + 13] = Pow2[12] * Pow2[13] /\ Pow2[25 + 25] = Pow2[25] * Pow2[25]
    BY Pow2Sum
  <2> QED BY <1>2, <2>1, <2>2, SMT
<1>4. Pow2[52] = 4 * Pow2[50]
  <2>1. 50 + 1 = 51 /\ 51 + 1 = 52
    OBVIOUS
  <2>2. Pow2[50 + 1] = 2 * Pow2[50] /\ Pow2[51 + 1] = 2 * Pow2[51] /\ Pow2[50] \in Nat
    BY Pow2Is
  <2> QED BY <2>1, <2>2
<1> QED BY <1>2, <1>3, <1>4, SMT

LEMMA Pow10Is ==
  Pow10[0] = 1 /\ \A n \in Nat : Pow10[n] \in Nat \ {0} /\ Pow10[n + 1] = 10 * Pow10[n]
<1> DEFINE tenfold == [x \in Nat |-> 10 * x]
           D == [n \in Nat |-> tenfold]
           IsPow10(f) == f = [n \in Nat |-> IF n = 0 THEN 1 ELSE 10 * f[n - 1]]
<1>1. PICK f : Run(f, Nat, 1, D)
  <2>1. D \in [Nat -> [Nat -> Nat]] /\ 1 \in Nat
    OBVIOUS
  <2> HIDE DEF D
  <2> QED BY <2>1, Recursion
<1>2. f \in [Nat -> Nat] /\ f[0] = 1 /\ \A n \in Nat : f[n + 1] = 10 * f[n]
  BY <1>1 DEF Run
<1>3. IsPow10(f)
  <2>1. ASSUME NEW n \in Nat PROVE f[n] = IF n = 0 THEN 1 ELSE 10 * f[n - 1]
    <3>1. CASE n # 0
      <4>1. n - 1 \in Nat /\ n = (n - 1) + 1
        BY <3>1
      <4> QED BY <1>2, <3>1, <4>1
    <3> QED BY <1>2, <3>1
  <2> QED BY <1>2, <2>1
<1>4. IsPow10(Pow10)
  <2>1. Pow10 = CHOOSE g : IsPow10(g)
    BY DEF Pow10
  <2> HIDE DEF IsPow10
  <2> QED BY <1>3, <2>1
<1>5. Pow10[0] = 1 /\ \A n \in Nat : Pow10[n + 1] = 10 * Pow10[n]
  BY <1>4
<1>6. \A n \in Nat : Pow10[n] \in Nat \ {0}
  <2> DEFINE S == {n \in Nat : Pow10[n] \in Nat \ {0}}
  <2>1. 0 \in S /\ \A n \in Nat : n \in S => n + 1 \in S
    BY <1>5
  <2>2. Nat \subseteq S
    <3> HIDE DEF S
    <3> QED BY <2>1, Induction
  <2> QED BY <2>2
<1> QED BY <1>5, <1>6

LEMMA Pow10Values ==
  /\ Pow10[0] = 1 /\ Pow10[1] = 10 /\ Pow10[2] = 100 /\ Pow10[3] = 1000 /\ Pow10[4] = 10000
  /\ Pow10[5] = 100000 /\ Pow10[6] = 1000000 /\ Pow10[7] = 10000000 /\ Pow10[8] = 100000000
  /\ Pow10[9] = 1000000000 /\ Pow10[10] = 10000000000 /\ Pow10[15] = 1000000000000000
<1>1. Pow10[0] = 1
  BY Pow10Is
<1>2. \A n \in 0..14 : Pow10[n + 1] = 10 * Pow10[n]
  BY Pow10Is
<1>3. Pow10[1] = 10 /\ Pow10[2] = 100 /\ Pow10[3] = 1000
  <2>1. Pow10[0 + 1] = 10 * Pow10[0] /\ Pow10[1 + 1] = 10 * Pow10[1] /\ Pow10[2 + 1] = 10 * Pow10[2]
    BY <1>2
  <2> QED BY <1>1, <2>1, SMT
<1>4. Pow10[4] = 10000 /\ Pow10[5] = 100000 /\ Pow10[6] = 1000000
  <2>1. Pow10[3 + 1] = 10 * Pow10[3] /\ Pow10[4 + 1] = 10 * Pow10[4] /\ Pow10[5 + 1] = 10 * Pow10[5]
    BY <1>2
  <2> QED BY <1>3, <2>1, SMT
<1>5. Pow10[7] = 10000000 /\ Pow10[8] = 100000000 /\ Pow10[9] = 1000000000
  <2>1. Pow10[6 + 1] = 10 * Pow10[6] /\ Pow10[7 + 1] = 10 * Pow10[7] /\ Pow10[8 + 1] = 10 * Pow10[8]
    BY <1>2
  <2> QED BY <1>4, <2>1, SMT
<1>6. Pow10[10] = 10000000000 /\ Pow10[11] = 100000000000 /\ Pow10[12] = 1000000000000
  <2>1. Pow10[9 + 1] = 10 * Pow10[9] /\ Pow10[10 + 1] = 10 * Pow10[10] /\ Pow10[11 + 1] = 10 * Pow10[11]
    BY <1>2
  <2> QED BY <1>5, <2>1, SMT
<1>7. Pow10[15] = 1000000000000000
  <2>1. Pow10[12 + 1] = 10 * Pow10[12] /\ Pow10[13 + 1] = 10 * Pow10[13] /\ Pow10[14 + 1] = 10 * Pow10[14]
    BY <1>2
  <2> QED BY <1>6, <2>1, SMT
<1> QED BY <1>1, <1>3, <1>4, <1>5, <1>6, <1>7, SMT

LEMMA SizesAre == T = 100000 /\ \A k : k \in Sizes <=> k \in Nat /\ k < 10000 * T
<1>1. T = 100000
  BY DEF T, size_ticks_per_unit
<1>2. 10000 * T \in Nat
  BY <1>1, SMT
<1>3. \A k : k \in Sizes <=> k \in Nat /\ k < 10000 * T
  BY <1>2, SMT DEF Sizes
<1> QED BY <1>1, <1>3

LEMMA DecimalsAre ==
  ASSUME NEW k \in Sizes
  PROVE  /\ ExtraDecimals(k) \in 0..3
         /\ Pow10[ExtraDecimals(k)] \in {1, 10, 100, 1000}
         /\ Pow10[10 - ExtraDecimals(k)] * Pow10[ExtraDecimals(k)] = 10000000000
         /\ Pow10[10 - ExtraDecimals(k)] \in Nat /\ Pow10[10 - ExtraDecimals(k)] >= 10000000
<1> DEFINE units == k \div T
           w == IntegerDigits(k)
<1>1. k \in Nat /\ k < 10000 * T /\ T \in Nat \ {0}
  BY SizesAre, SMT
<1>2. units \in Nat /\ units < 10000
  <2>1. units \in Nat /\ units * T <= k
    <3>1. units \in Nat /\ k % T \in Nat /\ k = units * T + (k % T)
      BY <1>1, DivMod
    <3> HIDE DEF units
    <3>2. units * T \in Nat
      BY <1>1, <3>1
    <3> QED BY <1>1, <3>1, <3>2
  <2> HIDE DEF units
  <2>2. 10000 <= units => 10000 * T <= units * T
    BY <1>1, <2>1, TimesRises, SMT
  <2> QED BY <1>1, <2>1, <2>2, SMT
<1> HIDE DEF units
<1>3. w \in 1..9 /\ (w = 1 \/ units >= Pow10[w - 1])
  <2>1. \E x \in 1..9 : /\ units < Pow10[x]
                        /\ x = 1 \/ units >= Pow10[x - 1]
    <3>1. CASE units < 10
      <4> WITNESS 1 \in 1..9
      <4> QED BY <3>1, Pow10Values, SMT
    <3>2. CASE 10 <= units /\ units < 100
      <4> WITNESS 2 \in 1..9
      <4> QED BY <3>2, Pow10Values, SMT
    <3>3. CASE 100 <= units /\ units < 1000
      <4> WITNESS 3 \in 1..9
      <4> QED BY <3>3, Pow10Values, SMT
    <3>4. CASE 1000 <= units
      <4> WITNESS 4 \in 1..9
      <4> QED BY <1>2, <3>4, Pow10Values, SMT
    <3> QED BY <1>2, <3>1, <3>2, <3>3, <3>4, SMT
  <2>2. w = CHOOSE x \in 1..9 : /\ units < Pow10[x]
                                /\ x = 1 \/ units >= Pow10[x - 1]
    BY DEF IntegerDigits, units
  <2> QED BY <2>1, <2>2
<1> HIDE DEF w
<1>4. w \in 1..4
  <2>1. w # 5 /\ w # 6 /\ w # 7 /\ w # 8 /\ w # 9
    BY <1>2, <1>3, Pow10Values, SMT
  <2> QED BY <1>3, <2>1, SMT
<1>5. ExtraDecimals(k) = 4 - w
  BY <1>4, SMT DEF ExtraDecimals, Width, w
<1>6. ExtraDecimals(k) \in {0, 1, 2, 3}
  BY <1>4, <1>5
<1> QED BY <1>6, Pow10Values, SMT

LEMMA FallsShortIs ==
  ASSUME NEW b, NEW k, NEW short \in FallsShort(b, k)
  PROVE  short \in BOOLEAN /\ (short => DividesShort(k))
<1>1. DividesShort(k) \in BOOLEAN
  BY SMT DEF DividesShort
<1> HIDE DEF DividesShort
<1> QED BY <1>1 DEF FallsShort

LEMMA RoundsToTheStored ==
  ASSUME NEW k \in Sizes, NEW short \in BOOLEAN
  PROVE  LET unit == Pow10[ExtraDecimals(k)]
             rounded == (trim(k, short) + unit \div 2) \div unit
         IN  /\ trim(k, short) <= k * unit
             /\ rounded \in (IF unit = 1 THEN {k - 1, k} ELSE {k})
<1> DEFINE unit == Pow10[ExtraDecimals(k)]
           cut == IF short THEN 1 ELSE 0
           text == trim(k, short)
<1>1. k \in Nat /\ unit \in {1, 10, 100, 1000}
  BY DecimalsAre, SizesAre, SMT
<1>2. text = k * unit - cut /\ cut \in {0, 1}
  BY DEF trim
<1> HIDE DEF unit, text, cut
<1>3. (text + unit \div 2) \div unit \in (IF unit = 1 THEN {k - 1, k} ELSE {k})
  <2>1. CASE unit = 1
    BY <1>1, <1>2, <2>1
  <2>2. CASE unit = 10
    BY <1>1, <1>2, <2>2
  <2>3. CASE unit = 100
    BY <1>1, <1>2, <2>3
  <2>4. CASE unit = 1000
    BY <1>1, <1>2, <2>4
  <2> QED BY <1>1, <2>1, <2>2, <2>3, <2>4
<1>4. text <= k * unit
  BY <1>1, <1>2
<1> QED BY <1>3, <1>4 DEF unit, text, cut

\* The recursion by doubling.
LEMMA PowerQuotientIs ==
  ASSUME NEW n \in Nat, NEW d \in Nat \ {0}
  PROVE  PowerQuotient(n, d) = Pow2[n] \div d
<1> DEFINE first == [div |-> 1 \div d, mod |-> 1 % d]
           twice(p) == [div |-> 2 * p.div + (2 * p.mod) \div d, mod |-> (2 * p.mod) % d]
           Is(q) == q = [j \in 0..n |-> IF j = 0 THEN first ELSE twice(q[j - 1])]
           f == [j \in 0..n |-> [div |-> Pow2[j] \div d, mod |-> Pow2[j] % d]]
           q == CHOOSE g : Is(g)
<1>1. f = [j \in 0..n |-> IF j = 0 THEN first ELSE twice(f[j - 1])]
  <2>1. ASSUME NEW j \in 0..n
        PROVE  f[j] = IF j = 0 THEN first ELSE twice(f[j - 1])
    <3>1. CASE j = 0
      BY <3>1, Pow2Is
    <3>2. CASE j # 0
      <4>1. j - 1 \in 0..n /\ j - 1 \in Nat /\ j = (j - 1) + 1
        BY <3>2
      <4> DEFINE a == Pow2[j - 1]
      <4>2. a \in Nat /\ Pow2[j] = 2 * a
        BY <4>1, Pow2Is
      <4>3. /\ Pow2[j] \div d = 2 * (a \div d) + (2 * (a % d)) \div d
            /\ Pow2[j] % d = (2 * (a % d)) % d
        BY <4>2, Doubled
      <4>4. f[j - 1] = [div |-> a \div d, mod |-> a % d]
        BY <4>1
      <4>5. f[j] = [div |-> Pow2[j] \div d, mod |-> Pow2[j] % d]
        OBVIOUS
      <4> HIDE DEF f, a
      <4>6. f[j] = twice(f[j - 1])
        BY <4>3, <4>4, <4>5
      <4> QED BY <3>2, <4>6
    <3> QED BY <3>1, <3>2
  <2> QED BY <2>1
<1>2. Is(q)
  BY <1>1
<1> HIDE DEF q
<1>3. q[n] = f[n]
  <2> DEFINE S == {j \in Nat : j <= n => q[j] = f[j]}
  <2> HIDE DEF f
  <2>1. 0 \in S
    BY <1>1, <1>2
  <2>2. ASSUME NEW j \in Nat, j \in S PROVE j + 1 \in S
    <3>1. CASE j + 1 <= n
      <4>1. j + 1 \in 0..n /\ j + 1 # 0 /\ (j + 1) - 1 = j /\ q[j] = f[j]
        BY <2>2, <3>1
      <4> QED BY <1>1, <1>2, <4>1
    <3> QED BY <3>1
  <2>3. Nat \subseteq S
    <3> HIDE DEF S
    <3> QED BY <2>1, <2>2, Induction
  <2> QED BY <2>3
<1>4. PowerQuotient(n, d) = q[n].div
  BY DEF PowerQuotient, q
<1> QED BY <1>3, <1>4

\* A text that is off by less than its last digit: a shortfall of more than
\* half a unit of the 15th decimal takes one from that digit, all else is cut.
LEMMA CutIs ==
  ASSUME NEW base \in Nat \ {0}, NEW C \in Nat \ {0}, NEW S \in Nat \ {0}, NEW a \in Int,
         (base * C) % 2 = 0, a < (C - 1) * S, -a < (C - 1) * S
  PROVE  Nearest((base * C) * S + a, S) \div C = IF -2 * a > S THEN base - 1 ELSE base
<1> DEFINE B == base * C
           v == B * S + a
           q == v \div S
           N == Nearest(v, S)
<1>1. B \in Nat /\ B >= C /\ B * S \in Nat /\ (C - 1) * S \in Nat
      /\ (B - (C - 1)) * S = B * S - (C - 1) * S /\ (B + (C - 1)) * S = B * S + (C - 1) * S
      /\ B - (C - 1) \in Nat
  BY TimesRises
<1>2. v \in Nat
  <2>1. (B - (C - 1)) * S \in Nat
    BY <1>1
  <2> QED BY <1>1, <2>1
<1>3. (base - 1) * C = B - C
  OBVIOUS
<1>a. B % 2 = 0
  OBVIOUS
<1> HIDE DEF B, v
<1>4. q \in Nat /\ v % S \in Nat /\ v % S < S /\ v = q * S + (v % S)
  BY <1>2, DivMod
<1>5. N \in {q, q + 1}
  BY DEF Nearest
<1> HIDE DEF q, N
<1>6. \A m \in Nat : (m * S <= v => m <= q) /\ (v < m * S => q < m)
  <2> SUFFICES ASSUME NEW m \in Nat PROVE (m * S <= v => m <= q) /\ (v < m * S => q < m)
    OBVIOUS
  <2>1. (q + 1) * S = q * S + S
    BY <1>4
  <2>2. m <= q => m * S <= q * S
    BY <1>4, TimesRises
  <2>3. q + 1 <= m => (q + 1) * S <= m * S
    BY <1>4, TimesRises
  <2>4. m * S \in Nat /\ q * S \in Nat
    BY <1>4
  <2>5. m * S <= v => m <= q
    <3>1. CASE q + 1 <= m
      <4>1. m = q + 1 \/ q + 2 <= m
        BY <1>4, <3>1
      <4> SUFFICES ASSUME m * S <= v PROVE FALSE
        OBVIOUS
      <4> QED BY <1>4, <2>1, <2>3, <2>4, <3>1
    <3> QED BY <1>4, <3>1
  <2>6. v < m * S => q < m
    BY <1>4, <2>2, <2>4
  <2> QED BY <2>5, <2>6
<1>7. N \div C = IF N < B THEN base - 1 ELSE base
  <2>1. B - (C - 1) <= q
    <3>1. (B - (C - 1)) * S <= v
      BY <1>1 DEF v
    <3> QED BY <1>1, <1>6, <3>1
  <2>2. q < B + (C - 1)
    <3>1. v < (B + (C - 1)) * S /\ B + (C - 1) \in Nat
      BY <1>1 DEF v
    <3> QED BY <1>6, <3>1
  <2>3. N \in Nat /\ B - C < N /\ N < B + C
    BY <1>1, <1>4, <1>5, <2>1, <2>2
  <2>4. CASE N < B
    <3>1. N = (base - 1) * C + (N - (B - C)) /\ N - (B - C) \in Nat /\ N - (B - C) < C /\ base - 1 \in Nat
      BY <1>1, <1>3, <2>3, <2>4
    <3> DEFINE m == base - 1
               r == N - (B - C)
    <3>2. m \in Nat /\ r \in Nat /\ r < C /\ N = m * C + r /\ N \in Nat
      BY <2>3, <3>1
    <3> HIDE DEF N, m, r
    <3>3. N \div C = m
      BY <3>2, DivModUnique, Zenon
    <3> QED BY <2>4, <3>3 DEF m
  <2>5. CASE ~(N < B)
    <3>1. N = base * C + (N - B) /\ N - B \in Nat /\ N - B < C
      BY <1>1, <2>3, <2>5 DEF B
    <3> DEFINE r == N - B
    <3>2. base \in Nat /\ r \in Nat /\ r < C /\ N = base * C + r /\ N \in Nat
      BY <2>3, <3>1
    <3> HIDE DEF N, r
    <3>3. N \div C = base
      BY <3>2, DivModUnique, Zenon
    <3> QED BY <2>5, <3>3
  <2> QED BY <2>4, <2>5
<1>8. N < B <=> -2 * a > S
  <2>1. CASE a >= 0
    <3>1. B <= q
      BY <1>1, <1>6, <2>1 DEF v
    <3> QED BY <1>1, <1>4, <1>5, <2>1, <3>1
  <2>2. CASE a < 0 /\ -a < S
    <3>1. v = (B - 1) * S + (S + a) /\ S + a \in Nat /\ S + a < S /\ B - 1 \in Nat /\ (B - 1) % 2 = 1
      BY <1>1, <1>a, <2>2 DEF v
    <3>2. N = IF 2 * (S + a) < S THEN B - 1 ELSE (B - 1) + 1
      BY <3>1, NearestIs DEF N
    <3> QED BY <1>1, <3>2
  <2>3. CASE -a >= S
    <3>1. v < (B - 1) * S + 1 /\ (B - 1) * S + 1 <= B * S /\ (B - 1) * S \in Nat /\ B - 1 \in Nat
      BY <1>1, <2>3 DEF v
    <3>2. q <= B - 1
      BY <1>1, <1>4, <1>6, <3>1
    <3>3. q = B - 1 => v % S = 0 /\ N = q
      <4>1. ASSUME q = B - 1 PROVE v % S = 0
        <5>1. v = (B - 1) * S + (v % S)
          BY <1>4, <4>1
        <5> QED BY <1>4, <3>1, <5>1
      <4>2. v % S = 0 => N = q
        BY <1>4 DEF N, Nearest, q
      <4> QED BY <4>1, <4>2
    <3> QED BY <1>1, <1>4, <1>5, <2>3, <3>2, <3>3
  <2> QED BY <2>1, <2>2, <2>3
<1> QED BY <1>7, <1>8 DEF N, v, B

\* A power of two is at least the one it is not below.
LEMMA Pow2AtLeast ==
  ASSUME NEW m \in Nat, NEW n \in Nat, Pow2[n] < 2 * Pow2[m]
  PROVE  n <= m
BY Pow2Rises, Pow2Is

LEMMA SizeIsQuote ==
  ASSUME NEW k \in Sizes, k # 0
  PROVE  /\ k \in Nat \ {0} /\ T \in Nat \ {0} /\ k < 10000 * T
         /\ k \in Quotes /\ T \in Quotes /\ k < Pow2[52]
<1>1. k \in Nat \ {0} /\ T \in Nat \ {0} /\ k < 10000 * T
  BY SizesAre, SMT
<1>2. k < Pow2[52] /\ T < Pow2[52]
  BY <1>1, SizesAre, Pow2Large, SMT
<1>3. k < Pow2[53] /\ T < Pow2[53]
  BY <1>1, <1>2, Pow2Values
<1> QED BY <1>1, <1>2, <1>3, QuotesAre

\* A quotient is given up when it lies more than half a unit of the 15th
\* decimal below the size, which no size below 8 does.
LEMMA DividesShortIs ==
  ASSUME NEW k \in Sizes, k # 0
  PROVE  /\ DividesShort(k) <=> -2 * (QuoteError(k, T) * Pow10[10]) > Pow2[BitsAfterPoint(k, T)]
         /\ DividesShort(k) => k >= 8 * T
         /\ BitsAfterPoint(k, T) >= 11
<1> DEFINE s == BitsAfterPoint(k, T)
           S == Pow2[s]
           err == QuoteError(k, T)
           h == Pow2[s - 11]
           short == DividesShort(k)
<1>1. k \in Nat \ {0} /\ T \in Nat \ {0} /\ k < 10000 * T /\ k \in Quotes /\ T \in Quotes
  BY SizeIsQuote
<1>2. s \in Nat /\ Pow2[52] * T <= k * S /\ 41 - Exponent(k, T) = s - 11
  BY <1>1, ExponentIs DEF BitsAfterPoint
<1>3. err \in Int /\ -T <= 2 * err
  BY <1>1, FirstRounding
<1>4. short <=> k >= T /\ -err > PowerQuotient(s - 11, 9765625)
  BY <1>2, SMT DEF DividesShort
<1> HIDE DEF s, err, short
<1>5. S \in Nat \ {0}
  BY <1>2, Pow2Is
<1>6. ASSUME NEW m \in Nat, k < m * T PROVE Pow2[52] < m * S
  <2> SUFFICES ASSUME m * S <= Pow2[52] PROVE FALSE
    BY <1>5, Pow2Values
  <2>1. k * S < (m * T) * S
    BY <1>1, <1>5, <1>6, TimesRises
  <2>2. (m * T) * S = (m * S) * T /\ m * S \in Nat
    BY <1>1, <1>5
  <2>3. (m * S) * T <= Pow2[52] * T
    BY <1>1, <2>2, Pow2Values, TimesRises
  <2>4. k * S \in Nat /\ (m * S) * T \in Nat /\ Pow2[52] * T \in Nat
    BY <1>1, <1>5, <2>2, Pow2Values
  <2> QED BY <1>2, <2>1, <2>2, <2>3, <2>4
<1>7. s - 11 \in Nat
  <2>1. Pow2[52] < 10000 * S
    BY <1>1, <1>6, SMT
  <2>2. Pow2[11] < 2 * S
    BY <1>5, <2>1, Pow2Large, SMT
  <2> QED BY <1>2, <2>2, Pow2AtLeast
<1>8. S = 2048 * h /\ h \in Nat
  <2>1. Pow2[11 + (s - 11)] = Pow2[11] * Pow2[s - 11]
    BY <1>7, Pow2Sum
  <2>2. s = 11 + (s - 11) /\ h \in Nat
    BY <1>2, <1>7, Pow2Is
  <2> QED BY <2>1, <2>2, Pow2Large, SMT
<1>9. PowerQuotient(s - 11, 9765625) = h \div 9765625
  <2>1. \A d \in Nat \ {0} : PowerQuotient(s - 11, d) = h \div d
    BY <1>7, PowerQuotientIs
  <2> QED BY <2>1, SMT
<1> HIDE DEF S, h
<1>a. -err > h \div 9765625 <=> -2 * (err * 10000000000) > S
  BY <1>3, <1>8, SMT
<1>b. -2 * (err * 10000000000) > S => k >= 8 * T
  <2> SUFFICES ASSUME k < 8 * T PROVE -2 * (err * 10000000000) <= S
    BY <1>1, <1>3, <1>5, SMT
  <2>1. Pow2[52] < 8 * S
    BY <1>1, <1>6, SMT
  <2>2. 50 <= s
    <3>1. Pow2[50] < 2 * S
      BY <1>5, <2>1, Pow2Large, SMT
    <3> QED BY <1>2, <3>1, Pow2AtLeast DEF S
  <2>3. Pow2[50] <= S
    <3>1. CASE s = 50
      BY <1>5, <3>1 DEF S
    <3>2. CASE 50 < s
      <4>1. 2 * Pow2[50] <= S
        BY <1>2, <3>2, Pow2Rises DEF S
      <4> QED BY <1>5, <4>1, Pow2Large, SMT
    <3> QED BY <1>2, <2>2, <3>1, <3>2
  <2> QED BY <1>3, <1>5, <2>3, Pow2Large, SizesAre, SMT
<1>c. short <=> -2 * (err * 10000000000) > S
  <2>1. k >= 8 * T => k >= T
    BY <1>1
  <2> QED BY <1>1, <1>4, <1>9, <1>a, <1>b, <2>1, SMT
<1>d. short => k >= 8 * T
  BY <1>b, <1>c, SMT
<1>e. s >= 11
  BY <1>2, <1>7
<1> QED BY <1>c, <1>d, <1>e, Pow10Values, SMT DEF s, S, err, short

\* A debug build takes one from the last place where DividesShort says so.
LEMMA WrittenByDivision ==
  ASSUME NEW k \in Sizes, k # 0
  PROVE  Text(Double(k, T), BitsAfterPoint(k, T), k) = trim(k, DividesShort(k))
<1> DEFINE s == BitsAfterPoint(k, T)
           S == Pow2[s]
           err == QuoteError(k, T)
           D == Double(k, T)
           P == Pow10[10]
           C == Pow10[10 - ExtraDecimals(k)]
           U == Pow10[ExtraDecimals(k)]
           base == k * U
           a == err * P
<1>1. k \in Nat \ {0} /\ T \in Nat \ {0} /\ k < 10000 * T /\ k \in Quotes /\ T \in Quotes
  BY SizeIsQuote
<1>2. s \in Nat /\ Pow2[52] * T <= k * S
  BY <1>1, ExponentIs
<1>3. err \in Int /\ D \in Nat /\ D * T = k * S + err /\ -T <= 2 * err /\ 2 * err <= T
  BY <1>1, FirstRounding
<1>4. S \in Nat \ {0}
  BY <1>2, Pow2Is
<1>d. C >= 10000000 /\ P = 2 * 5000000000
  BY DecimalsAre, Pow10Values, SMT
<1>5. /\ U \in Nat \ {0} /\ C \in Nat \ {0} /\ C * U = P
      /\ P \in Nat /\ Pow10[15] = T * P
  <2>1. U \in {1, 10, 100, 1000} /\ C \in Nat /\ C * U = 10000000000
    BY DecimalsAre
  <2>2. Pow10[15] = T * P
    BY Pow10Values, SizesAre, SMT
  <2>3. P = 10000000000
    BY Pow10Values
  <2> HIDE DEF U, C, P
  <2> QED BY <1>d, <2>1, <2>2, <2>3, SMT
<1>6. Text(D, s, k) = Nearest(D * (T * P), S) \div C
  BY <1>5, Zenon DEF Text
<1>7. trim(k, DividesShort(k)) = IF DividesShort(k) THEN base - 1 ELSE base
  <2>1. base \in Int
    BY <1>1, <1>5
  <2> QED BY <2>1 DEF trim
<1>8. DividesShort(k) <=> -2 * a > S
  BY DividesShortIs
<1> HIDE DEF s, S, err, D, P, C, U
<1>9. D * (T * P) = (base * C) * S + a
  <2>1. D * (T * P) = (D * T) * P
    BY <1>1, <1>3, <1>5
  <2>2. (k * S + err) * P = (k * S) * P + err * P
    BY <1>1, <1>3, <1>4, <1>5
  <2>3. base * C = k * P
    <3>1. base * C = k * (C * U)
      BY <1>1, <1>5
    <3> QED BY <1>5, <3>1
  <2>4. (k * S) * P = (k * P) * S
    BY <1>1, <1>4, <1>5
  <2> QED BY <1>3, <2>1, <2>2, <2>3, <2>4
<1>a. base \in Nat \ {0} /\ a \in Int /\ (base * C) % 2 = 0
  <2>1. base * C = 2 * (k * 5000000000)
    <3>1. base * C = k * (C * U)
      BY <1>1, <1>5
    <3> QED BY <1>1, <1>5, <1>d, <3>1, SMT
  <2>2. k * 5000000000 \in Nat
    BY <1>1, SMT
  <2>3. (base * C) % 2 = 0
    BY <2>1, <2>2, SMT
  <2> QED BY <1>1, <1>3, <1>5, <2>3, SMT
<1>b. a < (C - 1) * S /\ -a < (C - 1) * S
  <2>1. Pow2[52] < 10000 * S
    <3> SUFFICES ASSUME 10000 * S <= Pow2[52] PROVE FALSE
      BY <1>4, Pow2Values, SMT
    <3>1. k * S < (10000 * T) * S
      BY <1>1, <1>4, TimesRises, SMT
    <3>2. (10000 * S) * T <= Pow2[52] * T
      BY <1>1, <1>4, Pow2Values, TimesRises, SMT
    <3> QED BY <1>1, <1>2, <1>4, <3>1, <3>2, Pow2Values, SMT
  <2>2. 9999999 * S <= (C - 1) * S
    BY <1>4, <1>5, <1>d, TimesRises, SMT
  <2>3. 400000000000 < S
    BY <1>4, <2>1, Pow2Large, SMT
  <2>4. a <= 500000000000000 /\ -a <= 500000000000000
    BY <1>3, <1>d, SizesAre, SMT
  <2>5. (C - 1) * S \in Int /\ a \in Int
    BY <1>3, <1>4, <1>5, SMT
  <2> HIDE DEF a
  <2> QED BY <1>4, <2>2, <2>3, <2>4, <2>5, SMT
<1> HIDE DEF base, a
<1>c. Nearest((base * C) * S + a, S) \div C = IF -2 * a > S THEN base - 1 ELSE base
  BY <1>4, <1>5, <1>a, <1>b, CutIs
<1> QED BY <1>6, <1>7, <1>8, <1>9, <1>c DEF s, D

-----------------------------------------------------------------------------
(* The release build.                                                      *)

\* 2^69 is a multiple of T and 51712: the double nearest to 1/T lies above it.
LEMMA ReciprocalIs ==
  /\ BitsAfterPoint(1, T) = 69 /\ Double(1, T) \in Nat
  /\ Pow2[69] = Pow2[52] * 131072
  /\ Double(1, T) * T = Pow2[69] + 48288
<1> DEFINE W == Pow2[52]
           p == Pow2[17]
           s == BitsAfterPoint(1, T)
           h == 45035996273   \* the multiples of T in 2^52
           u == 70496         \* what is left of it
           c == 92400         \* the multiples of T in u * 2^17
           x == 51712         \* what is left of that
<1>1. p = 131072
  <2>1. 2 + 2 = 4 /\ 2 + 4 = 6 /\ 11 + 6 = 17
    OBVIOUS
  <2>2. /\ Pow2[2 + 2] = Pow2[2] * Pow2[2] /\ Pow2[2 + 4] = Pow2[2] * Pow2[4]
        /\ Pow2[11 + 6] = Pow2[11] * Pow2[6]
    BY Pow2Sum
  <2>3. Pow2[4] = 16
    BY <2>1, <2>2, Pow2Values
  <2>4. Pow2[6] = 64
    BY <2>1, <2>2, <2>3, Pow2Values
  <2> QED BY <2>1, <2>2, <2>4, Pow2Large, SMT
<1>2. Pow2[69] = W * p
  <2>1. 52 + 17 = 69
    OBVIOUS
  <2>2. Pow2[52 + 17] = Pow2[52] * Pow2[17]
    BY Pow2Sum
  <2> QED BY <2>1, <2>2
<1>3. W = h * T + u /\ W \in Nat /\ h \in Nat /\ u \in Nat
  BY Pow2Large, SizesAre, SMT
<1>4. p \in Nat /\ u * p = c * T + x /\ c \in Nat /\ x \in Nat /\ x < T
  BY <1>1, SizesAre, SMT
<1>5. 1 \in Quotes /\ T \in Quotes /\ T \in Nat \ {0}
  <2>1. T \in Nat \ {0} /\ T < Pow2[53] /\ 1 < Pow2[53]
    BY SizesAre, Pow2Values, Pow2Large, SMT
  <2>2. 1 \in Nat \ {0}
    OBVIOUS
  <2>3. 1 \in Quotes
    BY <2>1, <2>2, QuotesAre, Zenon
  <2>4. T \in Quotes
    BY <2>1, QuotesAre, Zenon
  <2> QED BY <2>1, <2>3, <2>4
<1>6. s = 69
  <2>1. s \in Nat /\ W * T <= 1 * Pow2[s] /\ 1 * Pow2[s] < 2 * (W * T)
    BY <1>5, ExponentIs
  <2>2. Pow2[s] \in Nat
    BY <2>1, Pow2Is
  <2> HIDE DEF s, W, p
  <2>3. Pow2[s] < 2 * Pow2[69] /\ Pow2[69] < 2 * Pow2[s]
    BY <1>1, <1>2, <1>3, <2>1, <2>2, SizesAre, SMT
  <2> QED BY <2>1, <2>3, Pow2AtLeast
<1> HIDE DEF W, p, h, u, c, x
<1>7. Pow2[69] = (h * p + c) * T + x
  <2>1. W * p = (h * T + u) * p
    BY <1>3
  <2>2. (h * T + u) * p = (h * p) * T + u * p /\ (h * p + c) * T = (h * p) * T + c * T
    BY <1>3, <1>4, <1>5
  <2>3. (h * p) * T \in Nat /\ c * T \in Nat
    BY <1>3, <1>4, <1>5
  <2> QED BY <1>2, <1>4, <2>1, <2>2, <2>3
<1>8. Pow2[69] % T = x
  <2>1. h * p + c \in Nat
    <3>1. h * p \in Nat
      BY <1>3, <1>4
    <3> QED BY <1>4, <3>1
  <2>2. Pow2[69] \in Nat
    BY Pow2Is
  <2> QED BY <1>4, <1>5, <1>7, <2>1, <2>2, DivModUnique, Zenon
<1>9. QuoteError(1, T) = 48288
  <2>1. ShiftedRemainder(1, 69, T) = x
    <3>1. ShiftedRemainder(1, 69, T) = (1 * Pow2[69]) % T
      BY <1>5, ShiftedRemainderIs
    <3>2. 1 * Pow2[69] = Pow2[69]
      BY Pow2Is
    <3> QED BY <1>8, <3>1, <3>2
  <2>2. 52 - Exponent(1, T) = 69
    BY <1>6 DEF s, BitsAfterPoint
  <2>3. QuoteError(1, T) = IF 2 * x < T THEN -x ELSE T - x
    BY <2>1, <2>2 DEF QuoteError
  <2> QED BY <2>3, SizesAre, SMT DEF x
<1>a. Double(1, T) \in Nat /\ Double(1, T) * T = 1 * Pow2[s] + QuoteError(1, T)
  BY <1>5, FirstRounding DEF s
<1>b. 1 * Pow2[69] = Pow2[69] /\ Pow2[69] \in Nat
  BY Pow2Is
<1> QED BY <1>1, <1>2, <1>6, <1>9, <1>a, <1>b, SMT DEF s, W

\* Rounding to 53 bits moves a number by at most half the place of the last.
LEMMA SignificantWithin ==
  ASSUME NEW v \in Nat \ {0}
  PROVE  \E x \in Int : /\ Significant(v) = v + x
                        /\ \/ x = 0
                           \/ \E j \in Nat : /\ Pow2[52] * Pow2[j] <= v
                                             /\ -Pow2[j] <= 2 * x /\ 2 * x <= Pow2[j]
<1>1. PICK b \in Nat : Pow2[b] <= v /\ v < Pow2[b + 1]
  BY Pow2Around
<1>2. CASE b < 52
  <2>1. LeadingBit(v) = b
    <3>1. LeadingBit(v) \in Nat /\ Pow2[LeadingBit(v)] <= v /\ v < Pow2[LeadingBit(v) + 1]
      BY <1>1 DEF LeadingBit
    <3> QED BY <1>1, <3>1, Pow2Unique
  <2>2. Significant(v) = v
    BY <1>2, <2>1 DEF Significant
  <2> QED BY <2>2
<1>3. CASE 52 <= b
  <2> DEFINE j == b - 52
             G == Pow2[j]
             q == v \div G
             r == v % G
  <2>1. j \in Nat /\ 52 + j = b /\ 52 \in Nat
    BY <1>3
  <2>2. Pow2[52 + j] = Pow2[52] * G /\ Pow2[b + 1] = 2 * Pow2[b] /\ G \in Nat \ {0}
    <3> HIDE DEF j
    <3> QED BY <2>1, Pow2Sum, Pow2Is
  <2> HIDE DEF j
  <2>3. Pow2[52] * G <= v /\ v < 2 * (Pow2[52] * G)
    BY <1>1, <2>1, <2>2
  <2>4. Significant(v) = Nearest(v, G) * G
    BY <2>1, <2>3, SignificantIs
  <2>5. q \in Nat /\ r \in Nat /\ r < G /\ v = q * G + r
    BY <2>2, DivMod
  <2>6. Nearest(v, G) = IF 2 * r < G \/ (2 * r = G /\ q % 2 = 0) THEN q ELSE q + 1
    BY DEF Nearest
  <2> HIDE DEF G, q, r
  <2>7. q * G \in Nat /\ (q + 1) * G = q * G + G
    BY <2>2, <2>5
  <2>8. CASE Nearest(v, G) = q
    <3>1. Significant(v) = v + (-r) /\ -r \in Int /\ -G <= 2 * (-r) /\ 2 * (-r) <= G
      BY <2>2, <2>4, <2>5, <2>6, <2>7, <2>8
    <3> QED BY <2>1, <2>3, <3>1 DEF G
  <2>9. CASE Nearest(v, G) = q + 1 /\ ~(2 * r < G)
    <3>1. Significant(v) = v + (G - r) /\ G - r \in Int /\ -G <= 2 * (G - r) /\ 2 * (G - r) <= G
      BY <2>2, <2>4, <2>5, <2>7, <2>9
    <3> QED BY <2>1, <2>3, <3>1 DEF G
  <2> QED BY <2>6, <2>8, <2>9
<1> QED BY <1>1, <1>2, <1>3

\* What multiplying by the reciprocal instead of dividing adds to k, in units
\* of 2^-69: never much, and below 32 hardly less than nothing.
LEMMA ProductError ==
  ASSUME NEW k \in Sizes, k # 0
  PROVE  /\ Significant(k * Double(1, T)) \in Nat
         /\ \E y \in Int : /\ Significant(k * Double(1, T)) * T = k * Pow2[69] + y
                           /\ y < Pow2[52] /\ -y < Pow2[52]
                           /\ k < 32 * T => -2 * y <= 55200000000
<1> DEFINE W == Pow2[52]
           R == Double(1, T)
           e == 48288
           v == Significant(k * R)
<1>1. k \in Nat \ {0} /\ T \in Nat \ {0} /\ k < 10000 * T
  BY SizeIsQuote
<1>2. R \in Nat /\ R * T = Pow2[69] + e /\ Pow2[69] = W * 131072 /\ W \in Nat \ {0}
  BY ReciprocalIs, Pow2Large, SMT
<1>3. k * e < W /\ k * e \in Nat /\ k <= 1000000000
  BY <1>1, SizesAre, Pow2Large, SMT
<1> HIDE DEF R, v, W, e
<1>4. (k * R) * T = k * Pow2[69] + k * e /\ Pow2[69] \in Nat /\ e \in Nat
  <2>1. e \in Nat /\ Pow2[69] \in Nat
    BY Pow2Is DEF e
  <2>2. (k * R) * T = k * (R * T)
    BY <1>1, <1>2
  <2> QED BY <1>1, <1>2, <2>1, <2>2
<1>5. k * R \in Nat \ {0}
  <2>1. R # 0
    <3> SUFFICES ASSUME R = 0 PROVE FALSE
      OBVIOUS
    <3>1. 0 * T = Pow2[69] + e
      BY <1>2
    <3>2. 0 * T = 0 /\ Pow2[69] # 0
      BY <1>1, Pow2Is
    <3> QED BY <1>4, <3>1, <3>2
  <2> QED BY <1>1, <1>2, <2>1
<1>6. PICK x \in Int : /\ v = k * R + x
                       /\ \/ x = 0
                          \/ \E j \in Nat : /\ W * Pow2[j] <= k * R
                                            /\ -Pow2[j] <= 2 * x /\ 2 * x <= Pow2[j]
  BY <1>5, SignificantWithin DEF v, W
<1> DEFINE y == k * e + x * T
<1>7. v * T = k * Pow2[69] + y /\ y \in Int
  <2>1. v * T = (k * R) * T + x * T
    BY <1>1, <1>5, <1>6
  <2> QED BY <1>1, <1>3, <1>4, <1>6, <2>1
<1>8. ASSUME NEW j \in Nat, W * Pow2[j] <= k * R
      PROVE  Pow2[j] * T <= 131072 * k
  <2> DEFINE G == Pow2[j]
  <2>1. G \in Nat
    BY Pow2Is
  <2> HIDE DEF G
  <2>2. (W * G) * T <= (k * R) * T
    BY <1>1, <1>2, <1>5, <1>8, <2>1, TimesRises DEF G
  <2>3. (W * G) * T = (G * T) * W /\ k * Pow2[69] = (131072 * k) * W
        /\ (131072 * k + 1) * W = (131072 * k) * W + W
    BY <1>1, <1>2, <2>1
  <2>4. (G * T) * W < (131072 * k + 1) * W
    <3>1. (131072 * k) * W \in Nat /\ (G * T) * W \in Nat
      BY <1>1, <1>2, <2>1
    <3> QED BY <1>2, <1>3, <1>4, <2>2, <2>3, <3>1
  <2>5. G * T \in Nat /\ 131072 * k + 1 \in Nat
    BY <1>1, <2>1
  <2>6. G * T < 131072 * k + 1
    <3> DEFINE m == G * T
               n == 131072 * k + 1
    <3>1. m \in Nat /\ n \in Nat /\ m * W < n * W
      BY <2>4, <2>5
    <3> HIDE DEF m, n
    <3>2. n <= m => n * W <= m * W
      BY <1>2, <3>1, TimesRises
    <3>3. m * W \in Nat /\ n * W \in Nat
      BY <1>2, <3>1
    <3>4. m < n
      BY <3>1, <3>2, <3>3
    <3> QED BY <3>4 DEF m, n
  <2> QED BY <1>1, <2>5, <2>6 DEF G
<1>9. y < W /\ -y < W /\ (k < 32 * T => -2 * y <= 55200000000)
  <2>1. CASE x = 0
    <3>1. y = k * e
      BY <1>1, <1>3, <2>1
    <3> QED BY <1>2, <1>3, <3>1, SMT
  <2>2. CASE x # 0
    <3>1. PICK j \in Nat : W * Pow2[j] <= k * R /\ -Pow2[j] <= 2 * x /\ 2 * x <= Pow2[j]
      BY <1>6, <2>2
    <3> DEFINE G == Pow2[j]
               z == x * T
               g == G * T
    <3>2. G \in Nat /\ g \in Nat /\ z \in Int
      BY <1>1, <1>6, Pow2Is
    <3>3. g <= 131072 * k
      BY <1>8, <3>1
    <3>4. -g <= 2 * z /\ 2 * z <= g
      <4>1. -G <= 2 * x /\ 2 * x <= G
        BY <3>1
      <4> HIDE DEF G
      <4> QED BY <1>6, <3>2, <4>1, SizesAre, SMT
    <3>5. k < 32 * T => G <= 2097152
      <4> SUFFICES ASSUME k < 32 * T PROVE G <= 2097152
        OBVIOUS
      <4> HIDE DEF G
      <4>1. G < 4194304
        BY <1>1, <3>2, <3>3, SizesAre, SMT
      <4>2. 11 + 11 = 22 /\ 21 + 1 = 22
        OBVIOUS
      <4>3. Pow2[11 + 11] = Pow2[11] * Pow2[11]
        BY Pow2Sum
      <4>8. Pow2[21 + 1] = 2 * Pow2[21] /\ Pow2[21] \in Nat
        BY Pow2Is
      <4>4. Pow2[22] = 4194304 /\ Pow2[21] = 2097152
        BY <4>2, <4>3, <4>8, Pow2Large, SMT
      <4>5. j <= 21
        BY <4>1, <4>4, Pow2AtLeast, SMT DEF G
      <4>6. CASE j = 21
        BY <4>4, <4>6 DEF G
      <4>7. CASE j < 21
        <5>1. 2 * Pow2[j] <= Pow2[21]
          BY <4>7, Pow2Rises
        <5> QED BY <3>2, <4>4, <5>1, SMT DEF G
      <4> QED BY <4>5, <4>6, <4>7
    <3>6. g = G * 100000
      BY SizesAre
    <3>7. y = k * e + z
      OBVIOUS
    <3> HIDE DEF G, z, g, y
    <3>8. y = 48288 * k + z
      BY <1>1, <3>2, <3>7, SMT DEF e
    <3>9. y < W /\ -y < W
      BY <1>1, <1>3, <3>2, <3>3, <3>4, <3>8, Pow2Large, SMT DEF W
    <3>a. k < 32 * T => -2 * y <= 55200000000
      BY <1>1, <3>2, <3>3, <3>4, <3>5, <3>6, <3>8, SMT
    <3> QED BY <3>9, <3>a
  <2> QED BY <2>1, <2>2
<1>a. v \in Nat
  <2>1. k * Pow2[69] = (131072 * k) * W /\ W <= (131072 * k) * W
    <3>1. k * Pow2[69] = (131072 * k) * W
      BY <1>1, <1>2
    <3>2. 1 * W <= (131072 * k) * W
      <4>1. 1 \in Nat /\ 131072 * k \in Nat /\ 1 <= 131072 * k /\ W \in Nat
        BY <1>1, <1>2
      <4> QED BY <4>1, TimesRises
    <3> QED BY <1>2, <3>1, <3>2
  <2>2. v * T >= 0 /\ v \in Int
    <3>1. (131072 * k) * W \in Nat /\ v \in Int
      BY <1>1, <1>2, <1>5, <1>6
    <3> HIDE DEF y
    <3> QED BY <1>2, <1>7, <1>9, <2>1, <3>1
  <2> QED BY <1>1, <2>2, SizesAre, SMT
<1> QED BY <1>7, <1>9, <1>a DEF v, R, W

\* The nearest multiple is at least any that is as near.
LEMMA NearestAtLeast ==
  ASSUME NEW a \in Nat, NEW b \in Nat \ {0}, NEW m \in Nat, 2 * (m * b) < 2 * a + b
  PROVE  Nearest(a, b) \in Nat /\ m <= Nearest(a, b)
<1> DEFINE q == a \div b
           x == a % b
<1>1. q \in Nat /\ x \in Nat /\ x < b /\ a = q * b + x
  BY DivMod
<1>2. Nearest(a, b) = IF 2 * x < b \/ (2 * x = b /\ q % 2 = 0) THEN q ELSE q + 1
  BY DEF Nearest
<1> HIDE DEF q, x
<1>3. q * b \in Nat /\ m * b \in Nat /\ (q + 1) * b = q * b + b /\ (q + 2) * b = q * b + 2 * b
  BY <1>1
<1>4. m <= q + 1
  <2> SUFFICES ASSUME q + 2 <= m PROVE FALSE
    BY <1>1
  <2>1. (q + 2) * b <= m * b
    BY <1>1, TimesRises
  <2> QED BY <1>1, <1>3, <2>1
<1>5. ASSUME m = q + 1 PROVE ~(2 * x < b) /\ 2 * x # b
  <2>1. m * b = q * b + b
    BY <1>3, <1>5
  <2> QED BY <1>1, <1>3, <2>1
<1> QED BY <1>1, <1>2, <1>4, <1>5

\* The double 1/T lies above 1/T, so that k times it lies above k/T, and so
\* does what is left of it after rounding, by the double nearest to k/T.
LEMMA ProductIsNoLess ==
  ASSUME NEW k \in Sizes, k # 0
  PROVE  LET s == BitsAfterPoint(k, T)
         IN  /\ s \in Nat /\ s <= 69
             /\ Double(k, T) * Pow2[69 - s] <= Significant(k * Double(1, T))
<1> DEFINE s == BitsAfterPoint(k, T)
           S == Pow2[s]
           W == Pow2[52]
           R == Double(1, T)
           D == Double(k, T)
           err == QuoteError(k, T)
           g == 69 - s
           G == Pow2[g]
           v == k * R
<1>1. k \in Nat \ {0} /\ T \in Nat \ {0} /\ k \in Quotes /\ T \in Quotes
  BY SizeIsQuote
<1>2. s \in Nat /\ W * T <= k * S /\ k * S < 2 * (W * T)
  BY <1>1, ExponentIs
<1>3. /\ err \in Int /\ D \in Nat /\ D * T = k * S + err
      /\ -T <= 2 * err /\ 2 * err <= T
  BY <1>1, FirstRounding
<1>4. R \in Nat /\ R * T = Pow2[69] + 48288 /\ Pow2[69] = W * 131072 /\ W \in Nat \ {0}
  BY ReciprocalIs, Pow2Large, SMT
<1>5. S \in Nat \ {0}
  BY <1>2, Pow2Is
<1>6. s <= 69
  <2>1. S <= k * S
    <3>1. 1 * S <= k * S
      BY <1>1, <1>5, TimesRises
    <3> QED BY <1>5, <3>1
  <2>2. S < 2 * Pow2[69]
    <3>1. k * S \in Nat /\ W * T \in Nat
      BY <1>1, <1>4, <1>5
    <3>2. W * T = 100000 * W
      BY <1>4, SizesAre
    <3> HIDE DEF S, W
    <3> QED BY <1>2, <1>4, <1>5, <2>1, <3>1, <3>2, SMT
  <2> QED BY <1>2, <2>2, Pow2AtLeast
<1>7. g \in Nat /\ G \in Nat \ {0} /\ Pow2[69] = S * G
  BY <1>2, <1>6, Pow2Parts
<1> HIDE DEF S, W, R, D, err, g, G
<1>8. v \in Nat /\ v * T = (k * S) * G + k * 48288
  <2>1. v * T = k * (R * T)
    BY <1>1, <1>4
  <2>2. k * (S * G + 48288) = (k * S) * G + k * 48288
    BY <1>1, <1>5, <1>7
  <2> QED BY <1>1, <1>4, <1>7, <2>1, <2>2
<1>9. (k * S) * G < v * T /\ (k * S) * G \in Nat /\ v * T \in Nat
  <2>1. (k * S) * G \in Nat /\ k * 48288 \in Nat /\ k * 48288 > 0
    BY <1>1, <1>5, <1>7
  <2> HIDE DEF v
  <2> QED BY <1>8, <2>1
<1> HIDE DEF v
<1>a. W * G < v
  <2>1. (W * T) * G <= (k * S) * G
    <3>1. W * T \in Nat /\ k * S \in Nat
      BY <1>1, <1>4, <1>5
    <3> QED BY <1>2, <1>7, <3>1, TimesRises
  <2>2. (W * T) * G = (W * G) * T /\ W * G \in Nat
    BY <1>1, <1>4, <1>7
  <2>3. v <= W * G => v * T <= (W * G) * T
    BY <1>1, <1>8, <2>2, TimesRises
  <2>4. (W * G) * T \in Nat
    BY <1>1, <2>2
  <2> QED BY <1>8, <1>9, <2>1, <2>2, <2>3, <2>4
<1>b. 2 * (D * G) < 2 * v + G
  <2> DEFINE lower == 2 * (D * G)
             upper == 2 * v + G
  <2>1. lower * T = 2 * ((k * S) * G) + 2 * (err * G)
    <3>1. lower * T = 2 * ((D * T) * G)
      BY <1>1, <1>3, <1>7
    <3>2. (k * S + err) * G = (k * S) * G + err * G
      BY <1>1, <1>3, <1>5, <1>7
    <3> QED BY <1>1, <1>3, <1>5, <1>7, <3>1, <3>2
  <2>2. upper * T = 2 * (v * T) + T * G
    BY <1>1, <1>7, <1>8
  <2>3. 2 * (err * G) <= T * G
    <3>1. 2 * (err * G) = (2 * err) * G
      BY <1>3, <1>7
    <3>2. (T - 2 * err) * G \in Nat
      <4>1. T - 2 * err \in Nat
        BY <1>1, <1>3
      <4> QED BY <1>7, <4>1
    <3>3. (T - 2 * err) * G = T * G - (2 * err) * G
      BY <1>1, <1>3, <1>7
    <3>4. T * G \in Int /\ (2 * err) * G \in Int
      BY <1>1, <1>3, <1>7
    <3> QED BY <3>1, <3>2, <3>3, <3>4
  <2>4. lower \in Nat /\ upper \in Nat
    BY <1>3, <1>7, <1>8
  <2>5. lower * T < upper * T
    <3>1. err * G \in Int /\ T * G \in Int
      BY <1>1, <1>3, <1>7
    <3> HIDE DEF lower, upper
    <3> QED BY <1>9, <2>1, <2>2, <2>3, <3>1
  <2> HIDE DEF lower, upper
  <2>6. upper <= lower => upper * T <= lower * T
    BY <1>1, <2>4, TimesRises
  <2>7. lower * T \in Nat /\ upper * T \in Nat
    BY <1>1, <2>4
  <2>8. lower < upper
    BY <2>4, <2>5, <2>6, <2>7
  <2> QED BY <2>8 DEF lower, upper
<1>c. D <= 2 * W
  <2>1. D * T < (2 * W + 1) * T
    <3>1. (2 * W + 1) * T = 2 * (W * T) + T /\ W * T \in Nat /\ k * S \in Nat
      BY <1>1, <1>4, <1>5
    <3> QED BY <1>1, <1>2, <1>3, <3>1
  <2>2. 2 * W + 1 <= D => (2 * W + 1) * T <= D * T
    BY <1>1, <1>3, <1>4, TimesRises
  <2>3. D * T \in Nat /\ (2 * W + 1) * T \in Nat
    BY <1>1, <1>3, <1>4
  <2> QED BY <1>3, <1>4, <2>1, <2>2, <2>3
\* The place of the last of the product's 53 bits is G or a larger one.
<1>d. PICK j \in Nat : W * Pow2[j] <= v /\ v < 2 * (W * Pow2[j])
  <2>1. v \in Nat \ {0} /\ W <= v
    <3>1. W * 1 <= W * G
      BY <1>4, <1>7
    <3>2. W * G \in Nat
      BY <1>4, <1>7
    <3> QED BY <1>4, <1>8, <1>a, <3>1, <3>2
  <2>2. PICK b \in Nat : Pow2[b] <= v /\ v < Pow2[b + 1]
    BY <2>1, Pow2Around
  <2>3. 52 <= b
    <3> SUFFICES ASSUME b + 1 <= 52 PROVE FALSE
      BY <2>2
    <3>1. Pow2[b + 1] <= W
      <4>1. CASE b + 1 = 52
        BY <1>4, <4>1 DEF W
      <4>2. CASE b + 1 < 52
        <5>1. 2 * Pow2[b + 1] <= W /\ Pow2[b + 1] \in Nat
          BY <2>2, <4>2, Pow2Rises, Pow2Is DEF W
        <5> QED BY <1>4, <5>1
      <4> QED BY <2>2, <4>1, <4>2
    <3>2. Pow2[b + 1] \in Nat
      BY <2>2, Pow2Is
    <3> QED BY <1>4, <2>1, <2>2, <3>1, <3>2
  <2>4. b - 52 \in Nat /\ Pow2[b] = W * Pow2[b - 52] /\ Pow2[b + 1] = 2 * Pow2[b]
    <3>1. b - 52 \in Nat /\ b = 52 + (b - 52)
      BY <2>2, <2>3
    <3>2. Pow2[52 + (b - 52)] = Pow2[52] * Pow2[b - 52]
      BY <3>1, Pow2Sum
    <3> QED BY <2>2, <3>1, <3>2, Pow2Is DEF W
  <2> QED BY <2>2, <2>4
<1> DEFINE J == Pow2[j]
<1>e. J \in Nat \ {0} /\ Significant(v) = Nearest(v, J) * J
  BY <1>8, <1>d, SignificantIs, Pow2Is DEF W
<1>f. g <= j
  <2>1. G < 2 * J
    <3>1. W * G < W * (2 * J)
      <4>1. 2 * (W * J) = W * (2 * J) /\ W * G \in Nat /\ W * (2 * J) \in Nat
        BY <1>4, <1>7, <1>e
      <4> HIDE DEF J
      <4> QED BY <1>8, <1>a, <1>d, <4>1 DEF J
    <3>2. 2 * J <= G => W * (2 * J) <= W * G
      <4>1. 2 * J <= G => (2 * J) * W <= G * W
        BY <1>4, <1>7, <1>e, TimesRises
      <4>2. (2 * J) * W = W * (2 * J) /\ G * W = W * G
        BY <1>4, <1>7, <1>e
      <4> QED BY <4>1, <4>2
    <3>3. W * G \in Nat /\ W * (2 * J) \in Nat
      BY <1>4, <1>7, <1>e
    <3> QED BY <1>7, <1>e, <3>1, <3>2, <3>3
  <2> QED BY <1>7, <1>d, <2>1, Pow2AtLeast DEF G
<1>g. D * G <= Nearest(v, J) * J
  <2>1. CASE j = g
    <3>1. J = G
      BY <2>1 DEF G
    <3>2. Nearest(v, G) \in Nat /\ D <= Nearest(v, G)
      BY <1>3, <1>7, <1>8, <1>b, NearestAtLeast
    <3> QED BY <1>3, <1>7, <3>1, <3>2, TimesRises
  <2>2. CASE g < j
    <3>1. 2 * G <= J
      BY <1>7, <1>d, <2>2, Pow2Rises DEF G
    <3>2. Nearest(v, J) \in Nat /\ W <= Nearest(v, J)
      <4>1. 2 * (W * J) < 2 * v + J
        <5>1. W * J \in Nat
          BY <1>4, <1>e
        <5> HIDE DEF J
        <5> QED BY <1>8, <1>d, <1>e, <5>1 DEF J
      <4> HIDE DEF J
      <4> QED BY <1>4, <1>8, <1>e, <4>1, NearestAtLeast
    <3> DEFINE N == Nearest(v, J)
    <3>3. D * G <= (2 * W) * G
      BY <1>3, <1>4, <1>7, <1>c, TimesRises
    <3>4. (2 * W) * G = (2 * G) * W /\ (2 * G) * W <= J * W
      <4>1. (2 * W) * G = (2 * G) * W
        BY <1>4, <1>7
      <4>2. (2 * G) * W <= J * W
        BY <1>4, <1>7, <1>e, <3>1, TimesRises
      <4> QED BY <4>1, <4>2
    <3>5. J * W = W * J /\ W * J <= N * J
      <4>1. W * J <= N * J
        BY <1>4, <1>e, <3>2, TimesRises
      <4> QED BY <1>4, <1>e, <4>1
    <3>6. D * G \in Nat /\ (2 * W) * G \in Nat /\ W * J \in Nat /\ N * J \in Nat
      BY <1>3, <1>4, <1>7, <1>e, <3>2
    <3> HIDE DEF N, J
    <3> QED BY <3>3, <3>4, <3>5, <3>6 DEF N
  <2> QED BY <1>7, <1>d, <1>f, <2>1, <2>2
<1> QED BY <1>2, <1>6, <1>e, <1>g DEF D, G, g, v, R

\* A release build writes a size below 32 as it is, any other at most one below
\* in the last place, and as it is whenever a debug build does.
LEMMA WrittenByProduct ==
  ASSUME NEW k \in Sizes, k # 0
  PROVE  \E short \in BOOLEAN :
            /\ Text(Significant(k * Double(1, T)), BitsAfterPoint(1, T), k) = trim(k, short)
            /\ k < 32 * T => ~short
            /\ short => DividesShort(k)
<1> DEFINE S == Pow2[69]
           W == Pow2[52]
           v == Significant(k * Double(1, T))
           P == Pow10[10]
           C == Pow10[10 - ExtraDecimals(k)]
           U == Pow10[ExtraDecimals(k)]
           base == k * U
<1>1. k \in Nat \ {0} /\ T \in Nat \ {0}
  BY SizeIsQuote
<1>2. v \in Nat /\ S = W * 131072 /\ BitsAfterPoint(1, T) = 69 /\ S \in Nat \ {0}
  BY ProductError, ReciprocalIs, Pow2Is
<1>3. PICK y \in Int : /\ v * T = k * S + y
                       /\ y < W /\ -y < W
                       /\ k < 32 * T => -2 * y <= 55200000000
  BY ProductError
<1>4. W \in Nat /\ W = 4503599627370496
  BY Pow2Large, SMT
<1>d. C >= 10000000 /\ P = 2 * 5000000000 /\ P = 10000000000
  BY DecimalsAre, Pow10Values, SMT
<1>5. /\ U \in Nat \ {0} /\ C \in Nat \ {0} /\ C * U = P
      /\ P \in Nat /\ Pow10[15] = T * P
  <2>1. U \in {1, 10, 100, 1000} /\ C \in Nat /\ C * U = 10000000000
    BY DecimalsAre
  <2>2. Pow10[15] = T * P
    BY Pow10Values, SizesAre, SMT
  <2> HIDE DEF U, C, P
  <2> QED BY <1>d, <2>1, <2>2, SMT
<1> DEFINE a == y * P
           short == -2 * a > S
<1>6. Text(v, BitsAfterPoint(1, T), k) = Nearest(v * (T * P), S) \div C
  <2>1. BitsAfterPoint(1, T) = 69
    BY <1>2, SMT
  <2>2. Text(v, 69, k) = Nearest(v * Pow10[15], Pow2[69]) \div C
    BY DEF Text
  <2> QED BY <1>5, <2>1, <2>2, Zenon
<1>7. trim(k, short) = IF short THEN base - 1 ELSE base
  <2>1. base \in Int
    BY <1>1, <1>5
  <2> HIDE DEF short
  <2> QED BY <2>1 DEF trim
<1> HIDE DEF S, W, v, P, C, U
<1>8. v * (T * P) = (base * C) * S + a
  <2>1. v * (T * P) = (v * T) * P
    BY <1>1, <1>2, <1>5
  <2>2. (k * S + y) * P = (k * S) * P + y * P
    BY <1>1, <1>2, <1>3, <1>5
  <2>3. base * C = k * P
    <3>1. base * C = k * (C * U)
      BY <1>1, <1>5
    <3> QED BY <1>5, <3>1
  <2>4. (k * S) * P = (k * P) * S
    BY <1>1, <1>2, <1>5
  <2> QED BY <1>3, <2>1, <2>2, <2>3, <2>4
<1>9. base \in Nat \ {0} /\ a \in Int /\ (base * C) % 2 = 0
  <2>1. base * C = 2 * (k * 5000000000)
    <3>1. base * C = k * (C * U)
      BY <1>1, <1>5
    <3> QED BY <1>1, <1>5, <1>d, <3>1, SMT
  <2>2. k * 5000000000 \in Nat
    BY <1>1, SMT
  <2>3. (base * C) % 2 = 0
    BY <2>1, <2>2, SMT
  <2> QED BY <1>1, <1>3, <1>5, <2>3, SMT
<1>a. a < (C - 1) * S /\ -a < (C - 1) * S
  <2>1. 9999999 * S <= (C - 1) * S
    BY <1>2, <1>5, <1>d, TimesRises, SMT
  <2>2. a <= P * W /\ -a <= P * W /\ P * W \in Nat
    <3>1. W \in Nat
      BY <1>4, SMT
    <3>2. a = 10000000000 * y
      BY <1>3, <1>d, SMT
    <3>3. P * W = 10000000000 * W
      BY <1>d, <3>1, SMT
    <3> HIDE DEF a
    <3> QED BY <1>3, <3>1, <3>2, <3>3, SMT
  <2>3. P * W < 9999999 * S
    BY <1>2, <1>4, <1>d, SMT
  <2>4. (C - 1) * S \in Int
    BY <1>2, <1>5
  <2> HIDE DEF a
  <2> QED BY <1>2, <1>9, <2>1, <2>2, <2>3, <2>4, SMT
<1>b. k < 32 * T => ~short
  <2> SUFFICES ASSUME k < 32 * T PROVE -2 * a <= S
    BY <1>2, <1>9
  <2>1. -2 * y <= 55200000000
    BY <1>3
  <2>0. W \in Nat
    BY <1>4, SMT
  <2>2. a = 1024 * (y * 9765625) /\ S = 1024 * (128 * W)
    BY <1>2, <1>3, <1>d, <2>0, SMT
  <2>3. -2 * (y * 9765625) <= 128 * W
    BY <1>3, <1>4, <2>1, SMT
  <2> HIDE DEF a
  <2> DEFINE z == y * 9765625
  <2>4. z \in Int /\ a = 1024 * z /\ -2 * z <= 128 * W
    BY <1>3, <2>2, <2>3, SMT
  <2> HIDE DEF z
  <2> QED BY <2>0, <2>2, <2>4, SMT
<1>c. short \in BOOLEAN
  OBVIOUS
<1>g. short => DividesShort(k)
  <2> DEFINE s == BitsAfterPoint(k, T)
             D == Double(k, T)
             err == QuoteError(k, T)
             G == Pow2[69 - s]
             B == Pow2[s]
  <2>1. k \in Quotes /\ T \in Quotes
    BY SizeIsQuote
  <2>2. s \in Nat /\ s <= 69 /\ D * G <= v
    BY ProductIsNoLess DEF v
  <2>3. err \in Int /\ D \in Nat /\ D * T = k * B + err
    BY <2>1, FirstRounding
  <2>4. B \in Nat \ {0} /\ G \in Nat \ {0} /\ S = B * G
    BY <2>2, Pow2Parts, Pow2Is DEF S
  <2>5. DividesShort(k) <=> -2 * (err * P) > B
    BY DividesShortIs DEF P
  <2> HIDE DEF s, D, err, G, B
  <2>6. err * G <= y
    <3>1. (D * G) * T <= v * T
      BY <1>1, <1>2, <2>2, <2>3, <2>4, TimesRises
    <3>2. (D * G) * T = (D * T) * G
      BY <1>1, <2>3, <2>4
    <3>3. (k * B + err) * G = (k * B) * G + err * G
      BY <1>1, <2>3, <2>4
    <3>4. (k * B) * G = k * S
      BY <1>1, <2>4
    <3>5. k * S \in Nat /\ err * G \in Int /\ v * T \in Nat
      BY <1>1, <1>2, <2>3, <2>4
    <3> QED BY <1>3, <2>3, <3>1, <3>2, <3>3, <3>4, <3>5
  <2>7. ASSUME -2 * (err * P) <= B
        PROVE  -2 * a <= S
    <3> DEFINE lack == B + 2 * (err * P)
    <3>1. err * P \in Int
      BY <1>5, <2>3
    <3>2. lack \in Nat
      BY <2>4, <2>7, <3>1
    <3>3. lack * G = S + 2 * ((err * G) * P)
      <4>1. (err * P) * G = (err * G) * P
        BY <1>5, <2>3, <2>4
      <4>2. lack * G = B * G + 2 * ((err * P) * G)
        BY <1>5, <2>3, <2>4
      <4> QED BY <2>4, <4>1, <4>2
    <3>4. lack * G \in Nat
      BY <2>4, <3>2
    <3>5. (err * G) * P <= y * P
      <4>1. y - err * G \in Nat
        BY <1>3, <2>3, <2>4, <2>6
      <4>2. (y - err * G) * P \in Nat
        BY <1>5, <4>1
      <4>3. (y - err * G) * P = y * P - (err * G) * P
        BY <1>3, <1>5, <2>3, <2>4
      <4>4. y * P \in Int /\ (err * G) * P \in Int
        BY <1>3, <1>5, <2>3, <2>4
      <4> QED BY <4>2, <4>3, <4>4
    <3>6. (err * G) * P \in Int /\ y * P \in Int /\ S \in Nat
      BY <1>2, <1>3, <1>5, <2>3, <2>4
    <3> QED BY <3>3, <3>4, <3>5, <3>6
  <2>8. err * P \in Int
    BY <1>5, <2>3
  <2> QED BY <1>2, <1>9, <2>4, <2>5, <2>7, <2>8
<1> HIDE DEF base, a
<1>e. Nearest((base * C) * S + a, S) \div C = IF -2 * a > S THEN base - 1 ELSE base
  <2>1. S \in Nat \ {0}
    BY <1>2, SMT
  <2> QED BY <1>5, <1>9, <1>a, <2>1, CutIs
<1>f. Text(v, BitsAfterPoint(1, T), k) = trim(k, short)
  BY <1>6, <1>7, <1>8, <1>e
<1> HIDE DEF short
<1> QED BY <1>b, <1>c, <1>f, <1>g DEF v

\* The text of a size is the one that Display writes: the size, or one below
\* in the last place where FallsShort allows it.  Written rounds as the code's
\* doubles do; Display says the same in numbers that TLC can hold.
THEOREM TextIsWritten ==
  ASSUME NEW b \in {"debug", "release"}, NEW k \in Sizes, k # 0
  PROVE  \E short \in FallsShort(b, k) : Written(b, k) = trim(k, short)
<1>0. DividesShort(k) \in BOOLEAN
  BY SMT DEF DividesShort
<1> HIDE DEF DividesShort
<1>1. CASE b = "debug"
  <2>1. DividesShort(k) \in FallsShort(b, k)
    BY <1>0, <1>1 DEF FallsShort
  <2> QED BY <1>1, <2>1, WrittenByDivision DEF Written
<1>2. CASE b = "release"
  <2>1. Written(b, k) = Text(Significant(k * Double(1, T)), BitsAfterPoint(1, T), k)
    BY <1>2 DEF Written
  <2>2. FallsShort(b, k) = IF DividesShort(k) /\ k >= 32 * T THEN BOOLEAN ELSE {FALSE}
    BY <1>2 DEF FallsShort
  <2>3. PICK short \in BOOLEAN : /\ Written(b, k) = trim(k, short)
                                 /\ k < 32 * T => ~short
                                 /\ short => DividesShort(k)
    BY <2>1, WrittenByProduct
  <2>4. k < 32 * T \/ k >= 32 * T
    BY SizeIsQuote
  <2> QED BY <2>2, <2>3, <2>4
<1> QED BY <1>1, <1>2

\* The text that the doubles of either build give, rounded to the lot by its
\* reader, is the size, or one lot less from 1000 units where no decimal is
\* left to round by; it is never above the size.
THEOREM ShownRoundsToStored ==
  ASSUME NEW b \in {"debug", "release"}, NEW k \in Sizes, k # 0
  PROVE  LET unit == Pow10[ExtraDecimals(k)]
             rounded == (Written(b, k) + unit \div 2) \div unit
         IN  /\ Written(b, k) <= k * unit
             /\ rounded \in (IF unit = 1 THEN {k - 1, k} ELSE {k})
<1>1. PICK short \in FallsShort(b, k) : Written(b, k) = trim(k, short)
  BY TextIsWritten
<1>2. short \in BOOLEAN
  BY FallsShortIs
<1> QED BY <1>1, <1>2, RoundsToTheStored

-----------------------------------------------------------------------------
(* The scan.                                                               *)
ScanInv == quote \in Nat /\ left \in Nat /\ quote + left \in Sizes
           /\ px = price_to_ticks(quote, Instrument) /\ sz = size_to_ticks(quote, Instrument)
           /\ \E short \in FallsShort(build, sz) : shown = trim(sz, short)

LEMMA ScanInvariant == Scan => []ScanInv
<1>1. ScanInit => ScanInv
  <2> SUFFICES ASSUME ScanInit PROVE ScanInv
    OBVIOUS
  <2>1. quote \in Nat /\ left \in Nat /\ quote + left \in Sizes
    BY RangeAssumption DEF ScanInit
  <2>2. \E short \in FallsShort(build, sz) : shown = trim(sz, short)
    BY DEF ScanInit
  <2> QED BY <2>1, <2>2 DEF ScanInit, ScanInv
<1>2. ScanInv /\ [ScanNext]_scanVars => ScanInv'
  <2> SUFFICES ASSUME ScanInv, [ScanNext]_scanVars PROVE ScanInv'
    OBVIOUS
  <2>1. CASE ScanNext
    <3>1. quote' \in Nat /\ left' \in Nat /\ quote' + left' \in Sizes
      BY <2>1 DEF ScanInv, ScanNext
    <3>2. \E short \in FallsShort(build', sz') : shown' = trim(sz', short)
      BY <2>1 DEF ScanNext, Look
    <3> QED BY <2>1, <3>1, <3>2 DEF ScanNext, Look, ScanInv
  <2>2. CASE UNCHANGED scanVars
    BY <2>2 DEF ScanInv, scanVars
  <2> QED BY <2>1, <2>2
<1> QED BY <1>1, <1>2, PTL DEF Scan

\* What is stored is what toUint64 makes of the quote, and quotes are few.
LEMMA StoredIs ==
  ASSUME ScanInv
  PROVE  /\ px = toUint64(quote, 100)
         /\ sz = toUint64(quote, size_ticks_per_unit(Instrument))
         /\ size_ticks_per_unit(Instrument) \in {10000, 100000}
         /\ price_ticks_per_unit(Instrument) = 100
         /\ quote \in Nat /\ quote \in Sizes
<1>1. price_ticks_per_unit(Instrument) = 100 /\ size_ticks_per_unit(Instrument) \in {10000, 100000}
  BY DEF price_ticks_per_unit, size_ticks_per_unit
<1>2. px = toUint64(quote, 100) /\ sz = toUint64(quote, size_ticks_per_unit(Instrument))
  BY <1>1 DEF ScanInv, price_to_ticks, size_to_ticks
<1>3. \A k \in Nat, m \in Nat : k + m \in Sizes => k \in Sizes
  BY SizesAre
<1> QED BY <1>1, <1>2, <1>3 DEF ScanInv

\* In the upper part of a binade the gap is at least the power of two above T,
\* and the first rounding is off by less than half of it.  At a power of two,
\* where the gap below is half as wide, the decimal is read as a double above.
LEMMA UpperBandIs ==
  ASSUME NEW k \in Quotes, k < Pow2[52], NEW unit \in Quotes, NEW m \in Nat, NEW n \in Nat,
         unit < Pow2[m], Pow2[m] * Pow2[n] <= k, k < (2 * unit) * Pow2[n],
         unit < 2 * (Pow2[52 + m] % unit)
  PROVE  toUint64(k, unit) = k
<1> DEFINE W == Pow2[52]
           s == BitsAfterPoint(k, unit)
           S == Pow2[s]
           err == QuoteError(k, unit)
           g == Exponent(k, 1) - Exponent(k, unit)
           N == k * Pow2[52 - Exponent(k, 1)]
           G == Pow2[g]
           p == Pow2[m]
           c == Pow2[n]
<1>1. k \in Nat \ {0} /\ unit \in Nat \ {0} /\ W \in Nat \ {0} /\ p \in Nat \ {0} /\ c \in Nat \ {0}
  BY QuotesAre, Pow2Is
<1>2. /\ s \in Nat /\ S \in Nat \ {0} /\ s = 52 - Exponent(k, unit)
      /\ W * unit <= k * S /\ k * S < 2 * (W * unit)
  BY ExponentIs, Pow2Is DEF BitsAfterPoint
<1>3. err \in Int /\ -unit <= 2 * err
  BY FirstRounding
<1>4. /\ g \in Nat /\ G \in Nat \ {0} /\ Gap(k, unit) = G /\ N \in Nat /\ W <= N /\ N < 2 * W
      /\ k * S = N * G /\ (IsPowerOf2(k) <=> N = W)
  BY GapIs, Pow2Is, Pow2Values
<1>5. unit < p /\ p * c <= k /\ k < (2 * unit) * c /\ unit < 2 * (Pow2[52 + m] % unit)
  OBVIOUS
<1> HIDE DEF W, s, S, err, g, N, G, p, c
<1>6. W <= c * S
  <2>1. c * S = Pow2[n + s]
    BY <1>2, Pow2Sum DEF c, S
  <2>2. W < 2 * (c * S)
    <3>1. k * S < ((2 * unit) * c) * S
      <4>1. (2 * unit) * c \in Nat
        BY <1>1
      <4> QED BY <1>1, <1>2, <1>5, <4>1, TimesRises
    <3>2. ((2 * unit) * c) * S = (2 * (c * S)) * unit /\ 2 * (c * S) \in Nat
      BY <1>1, <1>2
    <3>3. 2 * (c * S) <= W => (2 * (c * S)) * unit <= W * unit
      BY <1>1, <3>2, TimesRises
    <3>4. k * S \in Nat /\ W * unit \in Nat /\ (2 * (c * S)) * unit \in Nat
      BY <1>1, <1>2, <3>2
    <3> QED BY <1>1, <1>2, <3>1, <3>2, <3>3, <3>4
  <2>3. 52 <= n + s /\ n + s \in Nat
    <3>1. n + s \in Nat /\ Pow2[52] < 2 * Pow2[n + s]
      BY <1>2, <2>1, <2>2 DEF W
    <3> QED BY <3>1, Pow2AtLeast
  <2>4. CASE n + s = 52
    BY <1>1, <2>1, <2>4 DEF W
  <2>5. CASE 52 < n + s
    <3>1. 2 * W <= c * S
      BY <2>1, <2>3, <2>5, Pow2Rises DEF W
    <3> QED BY <1>1, <1>2, <3>1
  <2> QED BY <2>3, <2>4, <2>5
<1>7. W * p <= N * G
  <2>1. W * p <= (c * S) * p
    BY <1>1, <1>2, <1>6, TimesRises
  <2>2. (p * c) * S <= k * S
    BY <1>1, <1>2, <1>5, TimesRises
  <2>3. (c * S) * p = (p * c) * S
    BY <1>1, <1>2
  <2>4. W * p \in Nat /\ (p * c) * S \in Nat /\ k * S \in Nat
    BY <1>1, <1>2
  <2> QED BY <1>4, <2>1, <2>2, <2>3, <2>4
<1>8. m <= g
  <2> SUFFICES ASSUME g < m PROVE FALSE
    BY <1>4
  <2>1. 2 * G <= p
    BY <1>4, Pow2Rises DEF G, p
  <2>2. N * G < (2 * W) * G
    BY <1>1, <1>4, TimesRises
  <2>3. (2 * W) * G = (2 * G) * W /\ p * W = W * p
    BY <1>1, <1>4
  <2>4. (2 * G) * W <= p * W
    BY <1>1, <1>4, <2>1, TimesRises
  <2>5. N * G \in Nat /\ (2 * G) * W \in Nat /\ W * p \in Nat
    BY <1>1, <1>4
  <2> QED BY <1>7, <2>2, <2>3, <2>4, <2>5
<1>9. p <= G
  <2>1. CASE g = m
    BY <1>1, <2>1 DEF p, G
  <2>2. CASE m < g
    <3>1. 2 * p <= G
      BY <1>4, <2>2, Pow2Rises DEF p, G
    <3> QED BY <1>1, <1>4, <3>1
  <2> QED BY <1>4, <1>8, <2>1, <2>2
<1>a. ASSUME N = W PROVE 0 < err
  <2>1. G < 2 * p
    <3>1. G * W < (2 * unit) * W
      <4>1. W * G = G * W /\ 2 * (W * unit) = (2 * unit) * W
        BY <1>1, <1>4
      <4> QED BY <1>2, <1>4, <1>a, <4>1
    <3>2. 2 * unit <= G => (2 * unit) * W <= G * W
      BY <1>1, <1>4, TimesRises
    <3>3. (2 * unit) * W \in Nat /\ G * W \in Nat
      BY <1>1, <1>4
    <3> QED BY <1>1, <1>4, <1>5, <3>1, <3>2, <3>3
  <2>2. g = m
    <3>1. g <= m
      BY <1>4, <2>1, Pow2AtLeast DEF G, p
    <3> QED BY <1>4, <1>8, <3>1
  <2>3. k * S = Pow2[52 + m]
    <3>1. Pow2[52 + m] = W * p
      BY Pow2Sum DEF W, p
    <3> QED BY <1>4, <1>a, <2>2, <3>1 DEF G, p
  <2> DEFINE x == Pow2[52 + m] % unit
  <2>4. ShiftedRemainder(k, s, unit) = x
    BY <1>1, <1>2, <2>3, ShiftedRemainderIs DEF S
  <2>5. x \in Nat /\ x < unit /\ unit < 2 * x
    <3>1. Pow2[52 + m] \in Nat
      BY Pow2Is
    <3> QED BY <1>1, <1>5, <3>1, DivMod
  <2>6. err = IF 2 * x < unit THEN -x ELSE unit - x
    BY <1>2, <2>4 DEF QuoteError, err
  <2> HIDE DEF x
  <2> QED BY <1>1, <2>5, <2>6
<1>b. ~FallsBelow(k, unit)
  <2>1. FallsBelow(k, unit) <=> (IF N = W THEN -4 ELSE -2) * err > G
    BY <1>4 DEF FallsBelow, err
  <2>2. CASE N = W
    BY <1>4, <1>a, <1>3, <2>1, <2>2
  <2>3. CASE N # W
    BY <1>1, <1>3, <1>4, <1>5, <1>9, <2>1, <2>3
  <2> QED BY <2>2, <2>3
<1> QED BY <1>b DEF toUint64

LEMMA RemainderIs ==
  ASSUME NEW unit \in Nat \ {0}, NEW v \in Nat, NEW q \in Nat, NEW r \in Nat,
         r < unit, v = q * unit + r, unit < 2 * r
  PROVE  unit < 2 * (v % unit)
BY DivModUnique

LEMMA Products ==
  /\ 4503599627370496 * 128 = 5764607523034234 * 100 + 88
  /\ 4503599627370496 * 16384 = 7378697629483820 * 10000 + 6464
  /\ 4503599627370496 * 131072 = 5902958103587056 * 100000 + 51712
BY SMT

LEMMA AboveHalf ==
  /\ 100 < 2 * ((Pow2[52] * 128) % 100)
  /\ 10000 < 2 * ((Pow2[52] * 16384) % 10000)
  /\ 100000 < 2 * ((Pow2[52] * 131072) % 100000)
<1> DEFINE v1 == Pow2[52] * 128
           v2 == Pow2[52] * 16384
           v3 == Pow2[52] * 131072
<1>1. v1 = 5764607523034234 * 100 + 88 /\ v2 = 7378697629483820 * 10000 + 6464
      /\ v3 = 5902958103587056 * 100000 + 51712
  BY Products, Pow2Large, SMT
<1>2. v1 \in Nat /\ v2 \in Nat /\ v3 \in Nat
  BY Pow2Is
<1> HIDE DEF v1, v2, v3
<1>3. 100 < 2 * (v1 % 100)
  BY <1>1, <1>2, RemainderIs, SMT
<1>4. 10000 < 2 * (v2 % 10000)
  <2> DEFINE u == 10000
             q == 7378697629483820
             r == 6464
  <2>1. u \in Nat \ {0} /\ q \in Nat /\ r \in Nat /\ r < u /\ u < 2 * r /\ v2 = q * u + r
    BY <1>1, SMT
  <2> HIDE DEF u, q, r
  <2>2. u < 2 * (v2 % u)
    BY <1>2, <2>1, RemainderIs, SMT
  <2> QED BY <2>2 DEF u
<1>5. 100000 < 2 * (v3 % 100000)
  <2> DEFINE u == 100000
             q == 5902958103587056
             r == 51712
  <2>1. u \in Nat \ {0} /\ q \in Nat /\ r \in Nat /\ r < u /\ u < 2 * r /\ v3 = q * u + r
    BY <1>1, SMT
  <2> HIDE DEF u, q, r
  <2>2. u < 2 * (v3 % u)
    BY <1>2, <2>1, RemainderIs, SMT
  <2> QED BY <2>2 DEF u
<1> QED BY <1>3, <1>4, <1>5, SMT DEF v1, v2, v3

\* The three numbers of ticks per unit that Config knows.
LEMMA UnitsAre ==
  ASSUME NEW unit \in {100, 10000, 100000}
  PROVE  /\ unit \in Quotes
         /\ \E m \in Nat : /\ Log2(unit) + 1 = m /\ unit < Pow2[m]
                           /\ unit < 2 * (Pow2[52 + m] % unit)
<1>1. /\ Pow2[6] = 64 /\ Pow2[7] = 128 /\ Pow2[13] = 8192 /\ Pow2[14] = 16384
      /\ Pow2[16] = 65536 /\ Pow2[17] = 131072
  <2>1. Pow2[3] = 8
    <3>1. 2 + 1 = 3 /\ Pow2[2 + 1] = 2 * Pow2[2]
      BY Pow2Is
    <3> QED BY <3>1, Pow2Values
  <2>2. Pow2[6] = 64
    <3>1. 3 + 3 = 6 /\ Pow2[3 + 3] = Pow2[3] * Pow2[3]
      BY Pow2Sum
    <3> QED BY <2>1, <3>1
  <2>3. Pow2[7] = 128
    <3>1. 6 + 1 = 7 /\ Pow2[6 + 1] = 2 * Pow2[6]
      BY Pow2Is
    <3> QED BY <2>2, <3>1
  <2>4. Pow2[13] = 8192
    <3>1. 6 + 7 = 13 /\ Pow2[6 + 7] = Pow2[6] * Pow2[7]
      BY Pow2Sum
    <3> QED BY <2>2, <2>3, <3>1
  <2>5. Pow2[14] = 16384
    <3>1. 13 + 1 = 14 /\ Pow2[13 + 1] = 2 * Pow2[13]
      BY Pow2Is
    <3> QED BY <2>4, <3>1
  <2>6. Pow2[16] = 65536
    <3>1. 14 + 2 = 16 /\ Pow2[14 + 2] = Pow2[14] * Pow2[2]
      BY Pow2Sum
    <3> QED BY <2>5, <3>1, Pow2Values
  <2>7. Pow2[17] = 131072
    <3>1. 16 + 1 = 17 /\ Pow2[16 + 1] = 2 * Pow2[16]
      BY Pow2Is
    <3> QED BY <2>6, <3>1
  <2> QED BY <2>2, <2>3, <2>4, <2>5, <2>6, <2>7
<1>2. /\ Pow2[52 + 7] = Pow2[52] * 128 /\ Pow2[52 + 14] = Pow2[52] * 16384
      /\ Pow2[52 + 17] = Pow2[52] * 131072
  <2>1. Pow2[52 + 7] = Pow2[52] * Pow2[7]
    BY Pow2Sum
  <2>2. Pow2[52 + 14] = Pow2[52] * Pow2[14]
    BY Pow2Sum
  <2>3. Pow2[52 + 17] = Pow2[52] * Pow2[17]
    BY Pow2Sum
  <2> QED BY <1>1, <2>1, <2>2, <2>3
<1>3. unit \in Nat \ {0} /\ unit < Pow2[53]
  BY Pow2Values, Pow2Large, SMT
<1>4. unit \in Quotes
  BY <1>3, QuotesAre
<1>5. Log2(unit) \in Nat /\ Pow2[Log2(unit)] <= unit /\ unit < Pow2[Log2(unit) + 1]
  BY <1>4, Log2Is
<1>6. ASSUME NEW b \in Nat, Pow2[b] <= unit, unit < Pow2[b + 1] PROVE Log2(unit) = b
  BY <1>3, <1>5, <1>6, Pow2Unique
<1>7. CASE unit = 100
  <2>1. Log2(unit) = 6
    <3>1. 6 \in Nat /\ 6 + 1 = 7
      OBVIOUS
    <3>2. Pow2[6] <= unit /\ unit < Pow2[6 + 1]
      BY <1>1, <1>7, <3>1
    <3> QED BY <1>6, <3>1, <3>2
  <2>2. unit < 2 * (Pow2[52 + 7] % unit)
    BY <1>2, <1>7, AboveHalf, SMT
  <2>3. Log2(unit) + 1 = 7 /\ unit < Pow2[7] /\ 7 \in Nat
    BY <1>1, <1>7, <2>1
  <2> QED BY <1>4, <2>2, <2>3
<1>8. CASE unit = 10000
  <2>1. Log2(unit) = 13
    <3>1. 13 \in Nat /\ 13 + 1 = 14
      OBVIOUS
    <3>2. Pow2[13] <= unit /\ unit < Pow2[13 + 1]
      BY <1>1, <1>8, <3>1
    <3> QED BY <1>6, <3>1, <3>2
  <2>2. unit < 2 * (Pow2[52 + 14] % unit)
    BY <1>2, <1>8, AboveHalf, SMT
  <2>3. Log2(unit) + 1 = 14 /\ unit < Pow2[14] /\ 14 \in Nat
    BY <1>1, <1>8, <2>1
  <2> QED BY <1>4, <2>2, <2>3
<1>9. CASE unit = 100000
  <2>1. Log2(unit) = 16
    <3>1. 16 \in Nat /\ 16 + 1 = 17
      OBVIOUS
    <3>2. Pow2[16] <= unit /\ unit < Pow2[16 + 1]
      BY <1>1, <1>9, <3>1
    <3> QED BY <1>6, <3>1, <3>2
  <2>2. unit < 2 * (Pow2[52 + 17] % unit)
    BY <1>2, <1>9, AboveHalf, SMT
  <2>3. Log2(unit) + 1 = 17 /\ unit < Pow2[17] /\ 17 \in Nat
    BY <1>1, <1>9, <2>1
  <2> QED BY <1>4, <2>2, <2>3
<1> QED BY <1>7, <1>8, <1>9

LEMMA QuotientBounds ==
  ASSUME NEW a \in Nat, NEW b \in Nat \ {0}
  PROVE  a \div b \in Nat /\ (a \div b) * b <= a /\ a < (a \div b) * b + b
<1> DEFINE q == a \div b
           r == a % b
<1>1. q \in Nat /\ r \in Nat /\ r < b /\ a = q * b + r
  BY DivMod
<1> HIDE DEF q, r
<1>2. q * b \in Nat
  BY <1>1
<1> QED BY <1>1, <1>2 DEF q

\* Every price and size in the upper part of its binade is stored as quoted, so
\* that two quotes that share a key are both in a lower part.
THEOREM UpperBandStored == Scan => []UpperBandExact
<1>1. ScanInv => UpperBandExact
  <2> SUFFICES ASSUME ScanInv PROVE UpperBandExact
    OBVIOUS
  <2>1. ASSUME NEW unit \in {100, 10000, 100000}, InUpperBand(quote, unit)
        PROVE  toUint64(quote, unit) = quote
    <3>1. PICK m \in Nat : /\ Log2(unit) + 1 = m /\ unit < Pow2[m]
                           /\ unit < 2 * (Pow2[52 + m] % unit)
      BY UnitsAre
    <3>2. PICK n \in 0..22 : quote \div Pow2[n] \in Pow2[m] .. (2 * unit - 1)
      BY <2>1, <3>1 DEF InUpperBand
    <3>3. /\ quote \in Nat /\ unit \in Nat \ {0} /\ n \in Nat
          /\ Pow2[n] \in Nat \ {0} /\ Pow2[m] \in Nat \ {0}
      BY StoredIs, Pow2Is
    <3> DEFINE q == quote \div Pow2[n]
               c == Pow2[n]
               p == Pow2[m]
    <3>4. q \in Nat /\ q * c <= quote /\ quote < q * c + c
      <4>1. c \in Nat \ {0}
        BY <3>3
      <4> HIDE DEF c
      <4>2. quote \div c \in Nat /\ (quote \div c) * c <= quote /\ quote < (quote \div c) * c + c
        BY <3>3, <4>1, QuotientBounds
      <4> QED BY <4>2 DEF c
    <3>5. p <= q /\ q + 1 <= 2 * unit /\ unit < p
      BY <3>1, <3>2, <3>3, <3>4
    <3>6. c \in Nat \ {0} /\ p \in Nat \ {0}
      BY <3>3
    <3> HIDE DEF q, c, p
    <3>7. p * c <= quote
      <4>1. p * c <= q * c /\ p * c \in Nat /\ q * c \in Nat
        BY <3>4, <3>5, <3>6, TimesRises
      <4> QED BY <3>3, <3>4, <4>1
    <3>8. quote < (2 * unit) * c
      <4>1. (q + 1) * c <= (2 * unit) * c /\ (q + 1) * c = q * c + c
        BY <3>3, <3>4, <3>5, <3>6, TimesRises
      <4>2. q * c \in Nat /\ (2 * unit) * c \in Nat
        BY <3>3, <3>4, <3>6
      <4> QED BY <3>3, <3>4, <3>6, <4>1, <4>2
    <3>9. quote \in Quotes /\ quote < Pow2[52]
      <4>1. quote < Pow2[52]
        BY StoredIs, SizesAre, Pow2Large, SMT
      <4>2. quote # 0
        <5>1. p * c # 0
          BY <3>6
        <5> QED BY <3>3, <3>6, <3>7, <5>1
      <4> QED BY <3>3, <4>1, <4>2, Pow2Values, QuotesAre
    <3>a. unit \in Quotes
      BY UnitsAre
    <3> QED BY <3>1, <3>3, <3>7, <3>8, <3>9, <3>a, UpperBandIs DEF c, p
  <2> QED BY <2>1, StoredIs DEF UpperBandExact
<1> QED BY <1>1, ScanInvariant, PTL

\* A quotient by a power of two is an integer that many doublings away: it needs
\* no rounding.
LEMMA DyadicHasNoError ==
  ASSUME NEW k \in Quotes, NEW unit \in Quotes, NEW d \in Nat, NEW part \in Nat \ {0},
         unit = Pow2[d] * part, k % part = 0, d <= BitsAfterPoint(k, unit)
  PROVE  QuoteError(k, unit) = 0
<1> DEFINE s == BitsAfterPoint(k, unit)
           D == Pow2[d]
           E == Pow2[s - d]
           m == k \div part
<1>1. k \in Nat \ {0} /\ unit \in Nat \ {0}
  BY QuotesAre
<1>2. s \in Nat /\ s = 52 - Exponent(k, unit)
  BY ExponentIs DEF BitsAfterPoint
<1> HIDE DEF s
<1>3. D \in Nat \ {0} /\ E \in Nat \ {0} /\ Pow2[s] = D * E
  <2>1. s - d \in Nat /\ s = d + (s - d)
    BY <1>2 DEF s
  <2>2. Pow2[d + (s - d)] = D * E
    BY <2>1, Pow2Sum
  <2> QED BY <2>1, <2>2, Pow2Is
<1>4. m \in Nat /\ k = m * part
  <2>1. m \in Nat /\ k = m * part + (k % part)
    BY <1>1, DivMod
  <2> HIDE DEF m
  <2>2. m * part \in Nat
    BY <2>1
  <2> QED BY <2>1, <2>2
<1>5. unit = D * part
  OBVIOUS
<1> HIDE DEF D, E, m
<1>6. k * Pow2[s] = (m * E) * unit + 0 /\ m * E \in Nat
  <2>1. (m * part) * (D * E) = (m * E) * (D * part) /\ m * E \in Nat
    BY <1>3, <1>4
  <2>2. (m * E) * unit \in Nat
    BY <1>1, <2>1
  <2> QED BY <1>3, <1>4, <1>5, <2>1, <2>2
<1>7. (k * Pow2[s]) % unit = 0
  <2>1. k * Pow2[s] \in Nat /\ 0 < unit /\ 0 \in Nat
    BY <1>1, <1>2, Pow2Is
  <2> QED BY <1>1, <1>6, <2>1, DivModUnique
<1>8. ShiftedRemainder(k, s, unit) = 0
  BY <1>1, <1>2, <1>7, ShiftedRemainderIs
<1> QED BY <1>1, <1>2, <1>8 DEF QuoteError

\* A quarter of a unit is stored as quoted.
LEMMA QuartersAreExact ==
  ASSUME NEW k \in Nat, k < Pow2[52], NEW unit \in Quotes,
         NEW quarter \in Nat, unit = 4 * quarter, k % quarter = 0
  PROVE  toUint64(k, unit) = k
<1>1. CASE k = 0
  BY <1>1 DEF toUint64
<1>2. CASE k # 0
  <2> DEFINE s == BitsAfterPoint(k, unit)
  <2>1. k \in Quotes /\ unit \in Nat \ {0} /\ quarter \in Nat \ {0}
    BY <1>2, Pow2Values, QuotesAre
  <2>2. s \in Nat /\ Pow2[52] * unit <= k * Pow2[s]
    BY <2>1, ExponentIs
  <2> HIDE DEF s
  <2>3. s # 0 /\ s # 1
    <3>1. Pow2[52] \in Nat /\ 4 * Pow2[52] <= Pow2[52] * unit
      BY <2>1, Pow2Is
    <3>2. ASSUME Pow2[s] \in {1, 2} PROVE FALSE
      <4>1. k * Pow2[s] <= 2 * k
        BY <3>2
      <4> QED BY <2>2, <3>1, <4>1, Pow2Is
    <3> QED BY <3>2, Pow2Is, Pow2Values
  <2>4. 2 <= s
    BY <2>2, <2>3
  <2>5. QuoteError(k, unit) = 0
    <3>1. unit = Pow2[2] * quarter /\ 2 \in Nat
      BY Pow2Values
    <3> QED BY <2>1, <2>4, <3>1, DyadicHasNoError DEF s
  <2>6. Gap(k, unit) \in Nat
    BY <2>1, GapIs, Pow2Is
  <2>7. ~FallsBelow(k, unit)
    BY <2>5, <2>6 DEF FallsBelow
  <2> QED BY <2>7 DEF toUint64
<1> QED BY <1>1, <1>2

\* Prices and sizes in whole units, halves and quarters are stored as quoted.
THEOREM DyadicQuotesStored == Scan => []DyadicQuotesExact
<1>1. ScanInv => DyadicQuotesExact
  <2> SUFFICES ASSUME ScanInv PROVE DyadicQuotesExact
    OBVIOUS
  <2>1. quote < Pow2[52]
    BY StoredIs, SizesAre, Pow2Large, SMT
  <2>2. ASSUME NEW unit \in {100, 10000, 100000}, quote % (unit \div 4) = 0
        PROVE  toUint64(quote, unit) = quote
    <3>1. unit \in Quotes
      <4>1. unit \in Nat \ {0} /\ unit < Pow2[53]
        BY Pow2Values, Pow2Large, SMT
      <4> QED BY <4>1, QuotesAre, SMT
    <3>2. unit \div 4 \in Nat /\ unit = 4 * (unit \div 4)
      BY SMT
    <3> QED BY <2>1, <2>2, <3>1, <3>2, StoredIs, QuartersAreExact, SMT
  <2>3. size_ticks_per_unit(Instrument) \in {100, 10000, 100000}
    BY StoredIs
  <2> QED BY <2>2, <2>3, StoredIs, SMT DEF DyadicQuotesExact
<1> QED BY <1>1, ScanInvariant, PTL

\* Sizes below 8, and sizes in 32nds of a unit, reach the screen without loss
\* in a debug and in a release build.
THEOREM SmallAndDyadicSizesShown == Scan => []ShownDigitForDigit
<1>1. ScanInv => ShownDigitForDigit
  <2> SUFFICES ASSUME ScanInv, sz < 8 * T \/ sz % (T \div 32) = 0
               PROVE  shown = sz * Pow10[ExtraDecimals(sz)]
    BY DEF ShownDigitForDigit
  <2>1. sz \in Sizes /\ sz \in Nat
    <3>1. sz \in {quote - 1, quote} /\ (quote = 0 => sz = quote) /\ quote \in Sizes
      BY StoredIs DEF toUint64
    <3> QED BY <3>1, SizesAre
  <2>2. PICK short \in FallsShort(build, sz) : shown = trim(sz, short)
    BY DEF ScanInv
  <2>3. ~DividesShort(sz)
    <3>1. CASE sz = 0
      BY <3>1, SizesAre, SMT DEF DividesShort
    <3>2. CASE sz # 0 /\ sz < 8 * T
      BY <2>1, <3>2, DividesShortIs, SizesAre, SMT
    <3>3. CASE sz # 0 /\ sz % (T \div 32) = 0
      <4>1. sz \in Quotes /\ T \in Quotes
        BY <2>1, <3>3, SizeIsQuote
      <4>2. 5 <= BitsAfterPoint(sz, T) /\ BitsAfterPoint(sz, T) \in Nat
        <5>1. BitsAfterPoint(sz, T) >= 11
          BY <2>1, <3>3, DividesShortIs
        <5>2. BitsAfterPoint(sz, T) \in Nat
          BY <4>1, ExponentIs
        <5> QED BY <5>1, <5>2
      <4>3. T = Pow2[5] * 3125 /\ sz % 3125 = 0 /\ 3125 \in Nat \ {0} /\ 5 \in Nat
        <5>1. 2 + 2 = 4 /\ 4 + 1 = 5
          OBVIOUS
        <5>2. Pow2[2 + 2] = Pow2[2] * Pow2[2] /\ Pow2[4 + 1] = 2 * Pow2[4] /\ Pow2[4] \in Nat
          BY Pow2Is, Pow2Sum
        <5>3. Pow2[5] = 32
          BY <5>1, <5>2, Pow2Values
        <5>4. T \div 32 = 3125 /\ T = 32 * 3125
          BY SizesAre, SMT
        <5> QED BY <3>3, <5>3, <5>4, SMT
      <4>4. QuoteError(sz, T) = 0
        BY <4>1, <4>2, <4>3, DyadicHasNoError
      <4>5. -2 * (QuoteError(sz, T) * Pow10[10]) = 0
        <5>1. Pow10[10] \in Nat
          BY Pow10Is
        <5>2. \A n \in Nat : -2 * (0 * n) = 0
          OBVIOUS
        <5> QED BY <4>4, <5>1, <5>2
      <4>6. Pow2[BitsAfterPoint(sz, T)] \in Nat
        BY <4>2, Pow2Is
      <4> QED BY <2>1, <3>3, <4>5, <4>6, DividesShortIs
    <3> QED BY <2>1, <3>1, <3>2, <3>3
  <2>4. short = FALSE
    BY <2>3, FallsShortIs
  <2>5. Pow10[ExtraDecimals(sz)] \in Nat
    BY <2>1, DecimalsAre
  <2> HIDE DEF DividesShort
  <2> QED BY <2>1, <2>2, <2>4, <2>5 DEF trim
<1> QED BY <1>1, ScanInvariant, PTL
=============================================================================
