-------------------------------- MODULE FixApp --------------------------------
(***************************************************************************)
(* binance::FixApp (src/binance/fix_app.cpp): the callbacks that QuickFIX  *)
(* makes for each session, on that connection's own thread.  A session is  *)
(* signed in (toAdmin), subscribed once it is logged on (onLogon), and its *)
(* messages are put on one of two queues (onMessage).  The engine logs on  *)
(* again after every drop.                                                 *)
(*                                                                         *)
(* An exception that leaves a callback is one the engine does not know:    *)
(* nothing catches it on the session's thread, and handle_terminate ends   *)
(* the process.                                                            *)
(***************************************************************************)
EXTENDS Config, Host, SequencesExt

CONSTANTS
  Sessions,         \* the configured sessions
  getQualifier,     \* SessionID::getSessionQualifier, a function
  Environments,     \* what the environment may hold, by variable
  Machines,         \* the hosts to run on
  Traded,           \* the names the venue has a market for
  MaxConnections,   \* bound: logons of one session
  MaxMessages       \* bound: messages the venue sends on one connection
ASSUME SessionAssumption ==
  /\ getQualifier \in [Sessions -> STRING]
  /\ Machines \subseteq Hosts
  /\ MaxConnections \in Nat /\ MaxMessages \in Nat

VARIABLES
  env, host,   \* where the process runs
  alive,       \* the process has not been terminated
  keys,        \* Auth's api_key_ and private_pem_path_ are still there
  line,        \* of each session: "down", "logon" (sent), "up"
  thread,      \* of each session: its present or last connection's thread
  connection,  \* of each session: logons so far
  request,     \* of each session: the MarketDataRequest on its way, or "none"
  served,      \* of each session: messages of this connection's stream so far
  wire,        \* of each session: messages on their way
  order_queue, trade_queue,
  rejected     \* messages the engine has answered with a business reject
hostVars  == <<env, host, alive>>
lineVars  == <<line, thread, connection>>
venueVars == <<request, served, wire>>
queueVars == <<order_queue, trade_queue, rejected>>
vars == <<hostVars, keys, lineVars, venueVars, queueVars>>

conf == from_env(env)
SessionsOf(q) == {s \in Sessions : getQualifier[s] = q}
Subscribed(s) == served[s] > 0

\* The venue opens a depth stream with a snapshot, a trade stream with none.
\* News reach any session, execution reports that of the orders.
Message(s, kind) == [kind |-> kind, session |-> s, connection |-> connection[s], n |-> served[s] + 1]
KindOf(stream, n) == IF stream = "prices" /\ n = 1 THEN "W" ELSE "X"
Unsolicited(s) == IF getQualifier[s] = "OX" THEN {"ExecutionReport", "News"} ELSE {"News"}

Init ==
  /\ env \in {e \in Environments : ~from_env_throws(e)}
  /\ host \in Machines
  /\ alive = TRUE /\ keys = TRUE
  /\ line = [s \in Sessions |-> "down"]
  /\ thread = [s \in Sessions |-> NewThread]
  /\ connection = [s \in Sessions |-> 0]
  /\ request = [s \in Sessions |-> "none"]
  /\ served = [s \in Sessions |-> 0]
  /\ wire = [s \in Sessions |-> <<>>]
  /\ order_queue = <<>> /\ trade_queue = <<>> /\ rejected = 0

Terminate ==
  /\ alive' = FALSE
  /\ UNCHANGED <<env, host, keys, lineVars, venueVars, queueVars>>

-----------------------------------------------------------------------------
(* The callbacks.                                                          *)

\* sign_payload reads the PEM file for every logon.
SignThrows == ~keys \/ get_seed_from_pem_throws(host)
\* ThreadedSocketInitiator has a new thread run each connection.
toAdmin(s) ==
  /\ alive /\ line[s] = "down" /\ connection[s] < MaxConnections
  /\ \/ SignThrows /\ Terminate
     \/ /\ ~SignThrows
        /\ line' = [line EXCEPT ![s] = "logon"]
        /\ thread' = [thread EXCEPT ![s] = NewThread]
        /\ UNCHANGED <<hostVars, keys, connection, venueVars, queueVars>>

\* The prices' thread is pinned and made real-time, the trades' is pinned, each
\* before its subscription is sent; that of the orders stays as it is.
CpuFor(s) == IF getQualifier[s] = "PX" THEN conf.px_cpu ELSE conf.tx_cpu
SetupThrows(s) ==
  \/ getQualifier[s] \in {"PX", "TX"} /\ set_thread_cpu_throws(host, CpuFor(s))
  \/ getQualifier[s] = "PX" /\ set_thread_realtime_throws(host)
SetUp(s) == CASE getQualifier[s] = "PX" -> set_thread_realtime(set_thread_cpu(NewThread, CpuFor(s)))
              [] getQualifier[s] = "TX" -> set_thread_cpu(NewThread, CpuFor(s))
              [] OTHER -> NewThread
Subscription(s) == CASE getQualifier[s] = "PX" -> "prices"
                     [] getQualifier[s] = "TX" -> "trades"
                     [] OTHER -> "none"
\* Mutant: the keys go as soon as one session is logged on.
KeysAfterLogon_cleared == FALSE
\* They stay: other sessions, and this one after a drop, will want them.
KeysAfterLogon == keys
onLogon(s) ==
  /\ alive /\ line[s] = "logon"
  /\ \/ SetupThrows(s) /\ Terminate
     \/ /\ ~SetupThrows(s)
        /\ line' = [line EXCEPT ![s] = "up"]
        /\ thread' = [thread EXCEPT ![s] = SetUp(s)]
        /\ connection' = [connection EXCEPT ![s] = @ + 1]
        /\ request' = [request EXCEPT ![s] = Subscription(s)]
        /\ keys' = KeysAfterLogon
        /\ UNCHANGED <<hostVars, served, wire, queueVars>>

\* Mutant: crack finds no overload for snapshots.
Overloads_increments == {"X", "ExecutionReport"}
\* The message types that FixApp overloads onMessage for.
Overloads == {"W", "X", "ExecutionReport"}
\* Mutant: increments are told apart by nothing.
Routed_all(m) == IF m.kind \in {"W", "X"} THEN "orders" ELSE "nowhere"
\* The overloads of onMessage: a snapshot is for the order queue whichever
\* session it comes from, an increment goes by its session.
Routed(m) ==
  CASE m.kind \notin Overloads -> "rejected"   \* crack throws UnsupportedMessageType
    [] m.kind = "W" -> "orders"
    [] m.kind = "X" /\ getQualifier[m.session] = "PX" -> "orders"
    [] m.kind = "X" /\ getQualifier[m.session] = "TX" -> "trades"
    [] OTHER -> "nowhere"
fromApp(s) ==
  /\ alive /\ wire[s] # <<>>
  /\ LET m == Head(wire[s])
     IN  /\ order_queue' = IF Routed(m) = "orders" THEN Append(order_queue, m) ELSE order_queue
         /\ trade_queue' = IF Routed(m) = "trades" THEN Append(trade_queue, m) ELSE trade_queue
         /\ rejected' = IF Routed(m) = "rejected" THEN rejected + 1 ELSE rejected
  /\ wire' = [wire EXCEPT ![s] = Tail(@)]
  /\ UNCHANGED <<hostVars, keys, lineVars, request, served>>

-----------------------------------------------------------------------------
(* The venue and the line (external).                                      *)
Send(s, m) == wire' = [wire EXCEPT ![s] = Append(@, m)]

\* The venue takes a request for markets it has, and refuses any other.
Accepted == conf.symbols # <<>> /\ Range(conf.symbols) \subseteq Traded
VenueServes(s) ==
  /\ alive /\ request[s] # "none" /\ Accepted
  /\ request' = [request EXCEPT ![s] = "none"]
  /\ Send(s, Message(s, KindOf(request[s], 1)))
  /\ served' = [served EXCEPT ![s] = 1]
  /\ UNCHANGED <<hostVars, keys, lineVars, queueVars>>

VenueRefuses(s) ==
  /\ alive /\ request[s] # "none" /\ ~Accepted
  /\ request' = [request EXCEPT ![s] = "none"]
  /\ Send(s, Message(s, "MarketDataRequestReject"))
  /\ UNCHANGED <<hostVars, keys, lineVars, served, queueVars>>

VenueUpdates(s) ==
  /\ alive /\ Subscribed(s) /\ served[s] < MaxMessages
  /\ Send(s, Message(s, "X"))
  /\ served' = [served EXCEPT ![s] = @ + 1]
  /\ UNCHANGED <<hostVars, keys, lineVars, request, queueVars>>

\* At most one at a time, which bounds the wire.
VenueNotifies(s) ==
  /\ alive /\ line[s] = "up" /\ wire[s] = <<>> /\ rejected = 0
  /\ \E kind \in Unsolicited(s) : Send(s, Message(s, kind))
  /\ UNCHANGED <<hostVars, keys, lineVars, request, served, queueVars>>

\* A lost connection, or a logout; onLogout changes nothing.
Disconnect(s) ==
  /\ alive /\ line[s] = "up"
  /\ line' = [line EXCEPT ![s] = "down"]
  /\ request' = [request EXCEPT ![s] = "none"]
  /\ served' = [served EXCEPT ![s] = 0]
  /\ wire' = [wire EXCEPT ![s] = <<>>]
  /\ UNCHANGED <<hostVars, keys, thread, connection, queueVars>>

Next == \E s \in Sessions : \/ toAdmin(s) \/ onLogon(s) \/ fromApp(s)
                            \/ VenueServes(s) \/ VenueRefuses(s) \/ VenueUpdates(s)
                            \/ VenueNotifies(s) \/ Disconnect(s)

\* The engine logs on again and reads; the venue answers.
Fairness == \A s \in Sessions : /\ WF_vars(toAdmin(s)) /\ WF_vars(onLogon(s))
                                /\ WF_vars(fromApp(s)) /\ WF_vars(VenueServes(s))
Spec == Init /\ [][Next]_vars /\ Fairness

-----------------------------------------------------------------------------
\* Each queue carries the stream it is named for, from the session that
\* subscribed it: OrderBook sees no trades and TradeBox no price levels.
OneStreamPerQueue ==
  /\ \A k \in DOMAIN order_queue : getQualifier[order_queue[k].session] = "PX"
  /\ \A k \in DOMAIN trade_queue : /\ getQualifier[trade_queue[k].session] = "TX"
                                   /\ trade_queue[k].kind = "X"

\* What a connection has put on its queue is a prefix of its stream, without
\* gap, repetition or exchange, however sessions and reconnections interleave:
\* each message finds the ones before it there, and no others; on the order
\* queue the first is the snapshot.
SameConnection(m, l) == m.session = l.session /\ m.connection = l.connection
InOrder(queue, stream) ==
  \A k \in DOMAIN queue :
    LET m == queue[k]
        earlier == {j \in 1..(k - 1) : SameConnection(queue[j], m)}
    IN  /\ m.n > 0 /\ m.kind = KindOf(stream, m.n)
        /\ {queue[j].n : j \in earlier} = 1..(m.n - 1)
StreamsAreComplete == InOrder(order_queue, "prices") /\ InOrder(trade_queue, "trades")

\* Market data is only ever received on the CPU its variable names, and
\* prices at real-time priority, on every connection's new thread; a number
\* that is no uint8_t is not taken for another one.
Named(s) == env[IF getQualifier[s] = "PX" THEN "PX_SESSION_CPU" ELSE "TX_SESSION_CPU"].number
MarketDataIsPinned ==
  \A s \in Sessions : Subscribed(s) =>
    thread[s].cpu = Named(s) /\ (getQualifier[s] = "PX" => thread[s].realtime)

\* A market data session that is down is subscribed again, on a host where the
\* set-up can succeed and for names the venue knows, however the logons of the
\* others fall; the bound on connections is the only other way out.
Suitable ==
  /\ host.key /\ \A s \in Sessions : ~SetupThrows(s)
  /\ LET names == Range(env["SYMBOLS"].fields) \ {NoName} IN names # {} /\ names \subseteq Traded
EverySessionComesBack ==
  \A s \in Sessions :
    (line[s] = "down" /\ Subscription(s) # "none" /\ Suitable) ~>
      Subscribed(s) \/ connection[s] = MaxConnections

\* The comment over the last function of fix_app.cpp calls it the error
\* catch-all: a message nobody expects would be logged, not rejected.
UnexpectedIsCaught == rejected = 0
=============================================================================
