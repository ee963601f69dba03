------------------------------- MODULE PriceFeed -------------------------------
(***************************************************************************)
(* The price path from end to end: the venue's BTCUSDT book (external),    *)
(* the PX session that FixApp subscribes to the configured symbols on each *)
(* logon, the order queue, and the book that OrderBookBox builds.  A       *)
(* message is applied as a whole here, which is what AtomicBook promises   *)
(* and OrderBookBox implements.                                            *)
(*                                                                         *)
(* The venue is as the code takes it to be: on a subscription it sends the *)
(* levels it publishes, then every change of them; at depth 1 it publishes *)
(* the best level of each side, and a CHANGE moves it.  What is in flight  *)
(* is lost with the connection.                                            *)
(*                                                                         *)
(* ThreadedSocketInitiator runs each connection on a thread of its own,    *)
(* and moodycamel's queue keeps one lane per producing thread: first in,   *)
(* first out within a lane only.  A new thread may get the identity, and   *)
(* so the lane, of one that has ended.                                     *)
(***************************************************************************)
EXTENDS OrderBook

CONSTANTS
  BTC,             \* the subscribed name, a member of SymbolNames
  Openings,        \* bound: the venue's books to start with
  Depths,          \* values of MAX_DEPTH: 1, or more levels than there are
  SymbolLists,     \* values of SYMBOLS, as sequences of names
  MaxMoves,        \* bound: changes of the venue's book
  MaxConnections   \* bound: logons of the PX session

\* Quotes whose keys differ, and so rise with them: TicksScan shows where that
\* fails.  Names that
\* from_str takes for what they are: MCOrderBookCalls shows where that fails,
\* and MCOrderBookBox what a name it rejects does to the worker.
ASSUME FeedAssumption ==
  /\ BTC \in SymbolNames /\ Known(BTC) /\ from_str(BTC) = "BTCUSDT"
  /\ Quotes \subseteq Int /\ IsFiniteSet(Quotes) /\ Quotes # {} /\ Amounts # {}
  /\ \A p, q \in Quotes : p < q => PxTicks[p] < PxTicks[q]
  /\ \A list \in SymbolLists :
       /\ list \in Seq(SymbolNames) /\ BTC \in Range(list)
       /\ \A n \in Range(list) : Known(n) /\ (IsBTC(n) => n = BTC)
  /\ Depths \subseteq Nat /\ MaxMoves \in Nat /\ MaxConnections \in Nat \ {0}

VARIABLES
  MAX_DEPTH,    \* Config::MAX_DEPTH, fixed by the build
  symbols,      \* Config::symbols, fixed by the environment
  venue,        \* the venue's book, by quote
  moves,        \* its changes so far
  session,      \* the PX session: "down", "up"
  connections,  \* logons so far
  request,      \* a MarketDataRequest is on its way to the venue
  subscribed,   \* the venue has served it
  wire,         \* messages on their way to the session
  order_queue,  \* FixApp::order_queue_, lane by lane
  lane,         \* the lane of the session's present or last thread
  outrun,       \* history: connections whose snapshot was queued while
                \* messages of earlier ones waited in other lanes
  book,         \* OrderBook's maps
  failed        \* the worker has thrown
configVars  == <<MAX_DEPTH, symbols>>
venueVars   == <<configVars, venue, moves>>
sessionVars == <<session, connections, request>>
queueVars   == <<order_queue, lane, outrun>>
vars == <<venueVars, sessionVars, subscribed, wire, queueVars, book, failed>>

IS_BOOK_CLEAR_NEEDED == MAX_DEPTH = 1
Lanes == 1..MaxConnections

-----------------------------------------------------------------------------
(* What the venue publishes.                                               *)
Amount == Amounts \cup {NoLevel}
VenueBook == [Sides -> [Quotes -> Amount]]
Offered(b, s) == {q \in Quotes : b[s][q] # NoLevel}
Uncrossed(b) == \A p \in Offered(b, "BID"), q \in Offered(b, "OFFER") : p < q
VenueBooks == {b \in VenueBook : Uncrossed(b)}
ASSUME OpeningsAssumption == Openings \subseteq VenueBooks

Best(b, s) == {q \in Offered(b, s) :
                 \A p \in Offered(b, s) : IF s = "BID" THEN p <= q ELSE q <= p}
View(b) == IF IS_BOOK_CLEAR_NEEDED
           THEN [s \in Sides |-> [q \in Quotes |-> IF q \in Best(b, s) THEN b[s][q] ELSE NoLevel]]
           ELSE b

\* The published levels as the maps hold them.
QuoteOf(p) == CHOOSE q \in Quotes : PxTicks[q] = p
Size(amount) == IF amount = NoLevel THEN NoLevel ELSE SzTicks[amount]
AsBook(b) == [s \in Sides |-> [p \in Prices |-> Size(b[s][QuoteOf(p)])]]

\* A message lists levels, pairs of a side and a quote, in some order.
OfferedLevels(b) == {l \in Sides \X Quotes : l[2] \in Offered(b, l[1])}
SnapshotOf(b) ==
  LET levels == SetToSeq(OfferedLevels(b))
  IN  [kind |-> "W", symbol |-> BTC,
       entries |-> [k \in DOMAIN levels |->
                      [type |-> levels[k][1], px |-> levels[k][2],
                       sz |-> b[levels[k][1]][levels[k][2]]]]]

\* One entry per level that differs.  The first one names the instrument; a
\* depth-1 level moves by one CHANGE, the old level not being mentioned.
Differs(old, new, s) ==
  {q \in Quotes : /\ old[s][q] # new[s][q]
                  /\ (IS_BOOK_CLEAR_NEEDED /\ Offered(new, s) # {}) => q \in Offered(new, s)}
ActionFor(old, new, s, q) ==
  IF new[s][q] = NoLevel THEN "DELETE"
  ELSE IF old[s][q] # NoLevel \/ (IS_BOOK_CLEAR_NEEDED /\ Offered(old, s) # {}) THEN "CHANGE"
  ELSE "NEW"
\* Of another instrument only its messages matter: they tell of one bid.
OtherBid == [type |-> "BID", px |-> CHOOSE q \in Quotes : \A p \in Quotes : p <= q,
             sz |-> CHOOSE a \in Amounts : TRUE]
OtherNames == SetToSeq(Range(symbols) \ {BTC})

\* In one message, entries of the other instruments follow those of BTC.
LevelEntry(old, new, s, q, k) ==
  [symbol |-> IF k = 1 THEN BTC ELSE Missing, type |-> s,
   action |-> ActionFor(old, new, s, q), px |-> q,
   sz |-> IF new[s][q] = NoLevel THEN Missing ELSE new[s][q]]
OtherEntry(n) == [symbol |-> n, type |-> OtherBid.type, action |-> "NEW",
                  px |-> OtherBid.px, sz |-> OtherBid.sz]
DifferingLevels(old, new) == {l \in Sides \X Quotes : l[2] \in Differs(old, new, l[1])}
IncrementOf(old, new) ==
  LET levels == SetToSeq(DifferingLevels(old, new))
  IN  [kind |-> "X",
       entries |-> [k \in DOMAIN levels |-> LevelEntry(old, new, levels[k][1], levels[k][2], k)]
                   \o [k \in DOMAIN OtherNames |-> OtherEntry(OtherNames[k])]]

Snapshot(n) == IF n = BTC THEN SnapshotOf(View(venue))
               ELSE [kind |-> "W", symbol |-> n, entries |-> <<OtherBid>>]

-----------------------------------------------------------------------------
Init ==
  /\ MAX_DEPTH \in Depths /\ symbols \in SymbolLists
  /\ venue \in Openings /\ moves = 0
  /\ session = "down" /\ connections = 0 /\ request = FALSE
  /\ subscribed = FALSE
  /\ wire = <<>>
  /\ order_queue = [l \in Lanes |-> <<>>] /\ lane = 1 /\ outrun = {}
  /\ book = EmptyBook /\ failed = FALSE

VenueMoves ==
  /\ moves < MaxMoves
  /\ moves' = moves + 1
  /\ \E b \in VenueBooks \ {venue} :
       /\ venue' = b
       /\ wire' = IF subscribed /\ View(b) # View(venue)
                  THEN Append(wire, IncrementOf(View(venue), View(b))) ELSE wire
  /\ UNCHANGED <<configVars, sessionVars, subscribed, queueVars, book, failed>>

\* One snapshot for each symbol of the request.
VenueServes ==
  /\ request
  /\ request' = FALSE
  /\ subscribed' = TRUE
  /\ wire' = wire \o [k \in DOMAIN symbols |-> Snapshot(symbols[k])]
  /\ UNCHANGED <<venueVars, session, connections, queueVars, book, failed>>

\* The engine reconnects by itself; onLogon subscribes to prices, each time.
onLogon ==
  /\ session = "down"
  /\ connections < MaxConnections
  /\ connections' = connections + 1
  /\ session' = "up"
  /\ request' = TRUE
  /\ lane' \in 1..connections'
  /\ UNCHANGED <<venueVars, subscribed, wire, order_queue, outrun, book, failed>>

\* onLogout does nothing: the queue and the book stay as they are.
Disconnect ==
  /\ session = "up"
  /\ session' = "down"
  /\ request' = FALSE
  /\ subscribed' = FALSE
  /\ wire' = <<>>
  /\ UNCHANGED <<venueVars, connections, queueVars, book, failed>>

Outruns(m) == m.kind = "W" /\ m.symbol = BTC /\ \E l \in Lanes \ {lane} : order_queue[l] # <<>>
\* Mutant: a snapshot overtakes the increments that wait in its lane.
Queued_urgent(q, m) == IF m.kind = "W" THEN <<m>> \o q ELSE Append(q, m)
\* Both overloads put the message on the one order queue.
Queued(q, m) == Append(q, m)
onMessage ==
  /\ wire # <<>>
  /\ order_queue' = [order_queue EXCEPT ![lane] = Queued(@, Head(wire))]
  /\ outrun' = outrun \cup {c \in {connections} : Outruns(Head(wire))}
  /\ wire' = Tail(wire)
  /\ UNCHANGED <<venueVars, sessionVars, subscribed, lane, book, failed>>

\* Mutant: only one of the two message kinds has a branch in std::visit.
Visit_snapshots(b, m) == IF m.kind = "W" THEN Apply(b, m, IS_BOOK_CLEAR_NEEDED)
                         ELSE Progress(b, NoSymbol, FALSE)
Visit(b, m) == Apply(b, m, IS_BOOK_CLEAR_NEEDED)
\* poll_queue takes the head of any lane.
ApplyHead ==
  \E l \in Lanes :
    /\ order_queue[l] # <<>> /\ ~failed
    /\ LET result == Visit(book, Head(order_queue[l]))
       IN  book' = result.book /\ failed' = result.thrown
    /\ order_queue' = [order_queue EXCEPT ![l] = Tail(@)]
    /\ UNCHANGED <<venueVars, sessionVars, subscribed, wire, lane, outrun>>

Next == VenueMoves \/ VenueServes \/ onLogon \/ Disconnect \/ onMessage \/ ApplyHead

\* The venue answers, the engine reconnects and reads, the worker applies.
Fairness == /\ WF_vars(VenueServes) /\ WF_vars(onLogon)
            /\ WF_vars(onMessage)   /\ WF_vars(ApplyHead)
Spec == Init /\ [][Next]_vars /\ Fairness

-----------------------------------------------------------------------------
TypeOK ==
  /\ MAX_DEPTH \in Depths /\ symbols \in SymbolLists
  /\ venue \in VenueBooks /\ moves \in 0..MaxMoves
  /\ session \in {"down", "up"} /\ connections \in 0..MaxConnections
  /\ request \in BOOLEAN /\ subscribed \in BOOLEAN
  /\ lane \in Lanes /\ outrun \subseteq Lanes
  /\ book \in BookType /\ failed \in BOOLEAN

\* Once the venue has served a subscription, the book is the published book
\* but for the messages still on their way: what older connections left in
\* the book, in the lane or half-way lost cannot show through.  The order
\* queue guarantees it only for a snapshot that no other lane can outlast.
\* Other instruments of the subscription leave no trace.
Replay(b, ms, is_book_clear_needed) ==
  LET after[k \in 0..Len(ms)] ==
        IF k = 0 THEN b ELSE Apply(after[k - 1], ms[k], is_book_clear_needed).book
  IN  after
Coming(l) == IF l = lane THEN order_queue[l] \o wire ELSE order_queue[l]
Drained == Replay(book, Coming(lane), IS_BOOK_CLEAR_NEEDED)[Len(Coming(lane))]
InSync == (subscribed /\ connections \notin outrun) => Drained = AsBook(View(venue))

\* The book is uncrossed between any two messages, at every stage of every
\* reconnection, provided the venue's is and no lane has outlasted a snapshot.
NeverCrossed ==
  outrun = {} =>
    \A p \in Levels(book["BID"]), q \in Levels(book["OFFER"]) : p < q

\* A feed of well-formed messages never ends the worker, in whatever order
\* the lanes are served.
NeverFails == ~failed

\* When the venue and the line calm down, the book becomes the published
\* book and stays it, after any number of losses before.
ComesUpToDate ==
  <>[](session = "up" /\ connections \notin outrun) =>
    <>[](book = AsBook(View(venue)))
=============================================================================
