------------------------------ MODULE PriceSystem ------------------------------
(***************************************************************************)
(* The whole price path: the venue and the PX session of PriceFeed, and    *)
(* the threads of OrderBookBox, entry by entry and side by side.           *)
(*                                                                         *)
(* Feed is PriceFeed with what the box has in its place: what waits in the *)
(* queue or in the worker's hand, the outcome of the call in progress, and *)
(* whether the worker has thrown.  The instance is of the proofs, so that  *)
(* the lemmas come with the definitions.                                   *)
(***************************************************************************)
EXTENDS OrderBookBox

\* Those of PriceFeed; MAX_DEPTH is the box's.
CONSTANTS BTC, Openings, SymbolLists, MaxMoves, MaxConnections
VARIABLES symbols, venue, moves, session, connections, request, subscribed, wire, lane, outrun
feedVars == <<symbols, venue, moves, session, connections, request, subscribed, wire, lane, outrun>>

Feed == INSTANCE PriceFeed_proofs WITH
  Depths      <- {MAX_DEPTH},
  order_queue <- Unapplied,
  book        <- Outcome.book,
  failed      <- Outcome.thrown

\* What PriceFeed says of the venue and the subscription; the queue has a lane
\* for each connection, and the box takes whatever the venue sends.
SystemAssumption ==
  /\ Feed!FeedAssumption /\ Feed!OpeningsAssumption
  /\ Lanes = 1..MaxConnections
  /\ Feed!FeedMessages \subseteq Messages

SystemInit == Init /\ Feed!Init

\* Away from the queue; no session logs on once Worker::stop has returned.
SessionStep == /\ UNCHANGED vars
               /\ \/ Feed!VenueMoves \/ Feed!VenueServes \/ Feed!Disconnect
                  \/ FeedRuns /\ Feed!onLogon

\* The thread of the present connection puts the next message on the queue.
onMessage ==
  /\ wire # <<>> /\ wire' = Tail(wire)
  /\ sent < MaxMessages /\ sent' = sent + 1
  /\ Receive(lane, Head(wire))
  /\ outrun' = outrun \cup {c \in {connections} : Feed!Outruns(Head(wire))}
  /\ UNCHANGED <<msg, origin, callVars, frameVars>>
  /\ UNCHANGED <<symbols, venue, moves, session, connections, request, subscribed, lane>>

BoxStep == (WorkerStep \/ User \/ UiStep \/ Ended) /\ UNCHANGED feedVars

SystemNext == SessionStep \/ onMessage \/ BoxStep
System == SystemInit /\ [][SystemNext]_<<vars, feedVars>>

-----------------------------------------------------------------------------
\* The ladder that to_table has drawn is uncrossed at every moment, whatever
\* poll_queue and to_vector are in the middle of, through every loss and new
\* subscription (onLogout, onLogon), unless a message of an ended connection
\* outlasts a snapshot in another lane.
CanTrade(rows) ==
  \E j, k \in DOMAIN rows : /\ rows[j].bid_px # Sentinel /\ rows[k].ask_px # Sentinel
                            /\ ~(rows[j].bid_px < rows[k].ask_px)
ScreenIsNeverCrossed == outrun = {} => ~CanTrade(table)
=============================================================================
