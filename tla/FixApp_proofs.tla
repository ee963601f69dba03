---------------------------- MODULE FixApp_proofs ----------------------------
(***************************************************************************)
(* Safety of FixApp for any sessions, environments, hosts and bounds.      *)
(***************************************************************************)
EXTENDS FixApp, SequenceTheorems, TLAPS

-----------------------------------------------------------------------------
(* What is on its way, and what has arrived.                               *)
Kinds == {"W", "X", "ExecutionReport", "News", "MarketDataRequestReject"}
Messages == [kind: Kinds, session: Sessions, connection: Nat, n: Nat]
\* A session's connection carries its own messages; a snapshot is an answer to
\* a subscription to prices.
Own(s)    == {m \in Messages : m.session = s /\ (m.kind = "W" => getQualifier[s] = "PX")}
Orders    == {m \in Messages : getQualifier[m.session] = "PX"}
Increments == {m \in Messages : getQualifier[m.session] = "TX" /\ m.kind = "X"}

TypeInv ==
  /\ connection \in [Sessions -> Nat] /\ served \in [Sessions -> Nat]
  /\ DOMAIN wire = Sessions /\ DOMAIN request = Sessions
  /\ \A s \in Sessions : wire[s] \in Seq(Own(s)) /\ request[s] \in {"none", Subscription(s)}
  /\ order_queue \in Seq(Orders) /\ trade_queue \in Seq(Increments)

\* What the venue may send on a connection.
LEMMA MessageType ==
  ASSUME TypeInv, NEW s \in Sessions, NEW kind \in Kinds,
         kind = "W" => getQualifier[s] = "PX"
  PROVE  Message(s, kind) \in Own(s)
BY DEF TypeInv, Message, Messages, Own

\* Sending leaves the connections of the other sessions alone.
LEMMA SendType ==
  ASSUME TypeInv, NEW s \in Sessions, NEW m \in Own(s), Send(s, m)
  PROVE  DOMAIN wire' = Sessions /\ \A r \in Sessions : wire'[r] \in Seq(Own(r))
<1>1. Append(wire[s], m) \in Seq(Own(s))
  BY AppendProperties DEF TypeInv
<1> QED BY <1>1 DEF Send, TypeInv

\* The overloads put a message where its stream belongs.
LEMMA RoutedType ==
  ASSUME NEW s \in Sessions, NEW m \in Own(s)
  PROVE  /\ Routed(m) = "orders" => m \in Orders
         /\ Routed(m) = "trades" => m \in Increments
BY SessionAssumption DEF Routed, Overloads, Own, Orders, Increments, Messages

LEMMA TypeInit == Init => TypeInv
<1>1. \A S : <<>> \in Seq(S)
  BY EmptySeq
<1> QED BY <1>1 DEF Init, TypeInv

LEMMA TypeStep == TypeInv /\ [Next]_vars => TypeInv'
<1> SUFFICES ASSUME TypeInv, [Next]_vars PROVE TypeInv'
  OBVIOUS
<1> USE DEF hostVars, lineVars, venueVars, queueVars
<1>0. CASE UNCHANGED vars
  BY <1>0 DEF vars, TypeInv, Subscription
<1>1. ASSUME NEW s \in Sessions, toAdmin(s) PROVE TypeInv'
  <2>1. UNCHANGED connection /\ UNCHANGED venueVars /\ UNCHANGED queueVars
    BY <1>1 DEF toAdmin, Terminate
  <2> QED BY <2>1 DEF TypeInv, Subscription
<1>2. ASSUME NEW s \in Sessions, onLogon(s) PROVE TypeInv'
  <2>1. CASE Terminate
    BY <2>1 DEF Terminate, TypeInv, Subscription
  <2>2. CASE ~Terminate
    <3>1. /\ connection' = [connection EXCEPT ![s] = @ + 1]
          /\ request' = [request EXCEPT ![s] = Subscription(s)]
          /\ UNCHANGED <<served, wire>> /\ UNCHANGED queueVars
      BY <1>2, <2>2 DEF onLogon
    <3> QED BY <3>1 DEF TypeInv, Subscription
  <2> QED BY <2>1, <2>2
<1>3. ASSUME NEW s \in Sessions, fromApp(s) PROVE TypeInv'
  <2> DEFINE m == Head(wire[s])
  <2>1. m \in Own(s) /\ Tail(wire[s]) \in Seq(Own(s))
    BY <1>3, HeadTailProperties DEF fromApp, TypeInv
  <2>2. order_queue' \in Seq(Orders)
    <3>1. CASE Routed(m) = "orders"
      BY <1>3, <2>1, <3>1, RoutedType, AppendProperties DEF fromApp, TypeInv
    <3>2. CASE Routed(m) # "orders"
      BY <1>3, <3>2 DEF fromApp, TypeInv
    <3> QED BY <3>1, <3>2
  <2>3. trade_queue' \in Seq(Increments)
    <3>1. CASE Routed(m) = "trades"
      BY <1>3, <2>1, <3>1, RoutedType, AppendProperties DEF fromApp, TypeInv
    <3>2. CASE Routed(m) # "trades"
      BY <1>3, <3>2 DEF fromApp, TypeInv
    <3> QED BY <3>1, <3>2
  <2>4. DOMAIN wire' = Sessions /\ \A r \in Sessions : wire'[r] \in Seq(Own(r))
    BY <1>3, <2>1 DEF fromApp, TypeInv
  <2> QED BY <1>3, <2>2, <2>3, <2>4 DEF fromApp, TypeInv, Subscription
<1>4. ASSUME NEW s \in Sessions, VenueServes(s) PROVE TypeInv'
  <2>1. request[s] = Subscription(s) /\ KindOf(request[s], 1) \in Kinds
    BY <1>4 DEF VenueServes, TypeInv, KindOf, Kinds
  <2>2. KindOf(request[s], 1) = "W" => getQualifier[s] = "PX"
    BY <2>1 DEF KindOf, Subscription
  <2>3. DOMAIN wire' = Sessions /\ \A r \in Sessions : wire'[r] \in Seq(Own(r))
    BY <1>4, <2>1, <2>2, MessageType, SendType DEF VenueServes
  <2> QED BY <1>4, <2>3 DEF VenueServes, TypeInv, Subscription
<1>5. ASSUME NEW s \in Sessions, VenueRefuses(s) PROVE TypeInv'
  <2>1. DOMAIN wire' = Sessions /\ \A r \in Sessions : wire'[r] \in Seq(Own(r))
    BY <1>5, MessageType, SendType DEF VenueRefuses, Kinds
  <2> QED BY <1>5, <2>1 DEF VenueRefuses, TypeInv, Subscription
<1>6. ASSUME NEW s \in Sessions, VenueUpdates(s) PROVE TypeInv'
  <2>1. DOMAIN wire' = Sessions /\ \A r \in Sessions : wire'[r] \in Seq(Own(r))
    BY <1>6, MessageType, SendType DEF VenueUpdates, Kinds
  <2> QED BY <1>6, <2>1 DEF VenueUpdates, TypeInv, Subscription
<1>7. ASSUME NEW s \in Sessions, VenueNotifies(s) PROVE TypeInv'
  <2> PICK kind \in Unsolicited(s) : Send(s, Message(s, kind))
    BY <1>7 DEF VenueNotifies
  <2>1. kind \in Kinds /\ kind # "W"
    BY DEF Unsolicited, Kinds
  <2>2. DOMAIN wire' = Sessions /\ \A r \in Sessions : wire'[r] \in Seq(Own(r))
    BY <2>1, MessageType, SendType
  <2> QED BY <1>7, <2>2 DEF VenueNotifies, TypeInv, Subscription
<1>8. ASSUME NEW s \in Sessions, Disconnect(s) PROVE TypeInv'
  <2>1. <<>> \in Seq(Own(s))
    BY EmptySeq
  <2> QED BY <1>8, <2>1 DEF Disconnect, TypeInv, Subscription
<1> QED
  BY <1>0, <1>1, <1>2, <1>3, <1>4, <1>5, <1>6, <1>7, <1>8 DEF Next

\* However many sessions there are and however they interleave, the order queue
\* only carries what the price session received, the trade queue increments of
\* the trade session.
THEOREM QueuesAreSeparate == Spec => []OneStreamPerQueue
<1>1. TypeInv => OneStreamPerQueue
  <2> SUFFICES ASSUME TypeInv PROVE OneStreamPerQueue
    OBVIOUS
  <2>1. \A k \in DOMAIN order_queue : order_queue[k] \in Orders
    BY ElementOfSeq, LenProperties DEF TypeInv
  <2>2. \A k \in DOMAIN trade_queue : trade_queue[k] \in Increments
    BY ElementOfSeq, LenProperties DEF TypeInv
  <2> QED BY <2>1, <2>2 DEF OneStreamPerQueue, Orders, Increments
<1> QED BY <1>1, TypeInit, TypeStep, PTL DEF Spec
-----------------------------------------------------------------------------
(***************************************************************************)
(* Pinning.  Data comes only on a connection that is up and subscribed,    *)
(* and the thread of a connection that is up is set up as the environment  *)
(* says: of the number that was parsed, which from_chars did not change.   *)
(***************************************************************************)
SetUpBeforeData ==
  /\ ~from_env_throws(env)
  /\ DOMAIN line = Sessions /\ DOMAIN thread = Sessions
  /\ \A s \in Sessions :
       /\ line[s] = "up" => thread[s] = SetUp(s)
       /\ request[s] # "none" \/ served[s] > 0 => line[s] = "up" /\ Subscription(s) # "none"
PinInv == TypeInv /\ SetUpBeforeData

\* What from_env accepts it takes for what it says.
LEMMA NumberIsTaken ==
  ASSUME ~from_env_throws(env), NEW v \in {"PX_SESSION_CPU", "TX_SESSION_CPU"}
  PROVE  from_chars(env[v]) = env[v].number
BY DEF from_env_throws, from_chars

LEMMA PinnedThread ==
  ASSUME PinInv, NEW s \in Sessions, Subscribed(s)
  PROVE  thread[s].cpu = Named(s) /\ (getQualifier[s] = "PX" => thread[s].realtime)
<1>1. Subscription(s) # "none" /\ thread[s] = SetUp(s)
  BY DEF PinInv, SetUpBeforeData, Subscribed
<1>2. CASE getQualifier[s] = "PX"
  <2>1. thread[s] = [cpu |-> conf.px_cpu, realtime |-> TRUE]
    BY <1>1, <1>2 DEF SetUp, CpuFor, set_thread_cpu, set_thread_realtime, NewThread
  <2>2. conf.px_cpu = env["PX_SESSION_CPU"].number
    BY NumberIsTaken DEF PinInv, SetUpBeforeData, conf, from_env
  <2> QED BY <1>2, <2>1, <2>2 DEF Named
<1>3. CASE getQualifier[s] = "TX"
  <2>1. thread[s] = [cpu |-> conf.tx_cpu, realtime |-> FALSE]
    BY <1>1, <1>3 DEF SetUp, CpuFor, set_thread_cpu, NewThread
  <2>2. conf.tx_cpu = env["TX_SESSION_CPU"].number
    BY NumberIsTaken DEF PinInv, SetUpBeforeData, conf, from_env
  <2> QED BY <1>3, <2>1, <2>2 DEF Named
<1> QED BY <1>1, <1>2, <1>3 DEF Subscription

\* What one session does leaves the others as they are.
LEMMA PinStep == PinInv /\ [Next]_vars => SetUpBeforeData'
<1> SUFFICES ASSUME PinInv, [Next]_vars PROVE SetUpBeforeData'
  OBVIOUS
<1> USE DEF PinInv, SetUpBeforeData, TypeInv, hostVars, lineVars, venueVars, queueVars
<1>e. env' = env
  BY DEF Next, vars, toAdmin, onLogon, Terminate, fromApp, VenueServes, VenueRefuses, VenueUpdates,
         VenueNotifies, Disconnect
<1>s. \A s \in Sessions : SetUp(s)' = SetUp(s) /\ Subscription(s)' = Subscription(s)
  BY <1>e DEF SetUp, CpuFor, conf, from_env, Subscription, set_thread_cpu, set_thread_realtime
<1>0. CASE UNCHANGED vars
  BY <1>0, <1>e, <1>s DEF vars
<1>1. ASSUME NEW s \in Sessions, toAdmin(s) PROVE SetUpBeforeData'
  BY <1>1, <1>e, <1>s DEF toAdmin, Terminate
<1>2. ASSUME NEW s \in Sessions, onLogon(s) PROVE SetUpBeforeData'
  BY <1>2, <1>e, <1>s DEF onLogon, Terminate
<1>3. ASSUME NEW s \in Sessions, fromApp(s) PROVE SetUpBeforeData'
  BY <1>3, <1>e, <1>s DEF fromApp
<1>4. ASSUME NEW s \in Sessions, VenueServes(s) PROVE SetUpBeforeData'
  BY <1>4, <1>e, <1>s DEF VenueServes
<1>5. ASSUME NEW s \in Sessions, VenueRefuses(s) PROVE SetUpBeforeData'
  BY <1>5, <1>e, <1>s DEF VenueRefuses
<1>6. ASSUME NEW s \in Sessions, VenueUpdates(s) PROVE SetUpBeforeData'
  BY <1>6, <1>e, <1>s DEF VenueUpdates, Subscribed
<1>7. ASSUME NEW s \in Sessions, VenueNotifies(s) PROVE SetUpBeforeData'
  BY <1>7, <1>e, <1>s DEF VenueNotifies
<1>8. ASSUME NEW s \in Sessions, Disconnect(s) PROVE SetUpBeforeData'
  BY <1>8, <1>e, <1>s DEF Disconnect
<1> QED
  BY <1>0, <1>1, <1>2, <1>3, <1>4, <1>5, <1>6, <1>7, <1>8 DEF Next

\* Under every environment that from_env accepts and on every host, market data
\* is only received on the CPU its variable names, and prices in real time.
THEOREM PinnedBeforeData == Spec => []MarketDataIsPinned
<1>1. Init => PinInv
  <2>1. Init => SetUpBeforeData
    BY DEF Init, SetUpBeforeData
  <2> QED BY <2>1, TypeInit DEF PinInv
<1>2. PinInv /\ [Next]_vars => PinInv'
  BY TypeStep, PinStep DEF PinInv
<1>3. PinInv => MarketDataIsPinned
  BY PinnedThread DEF MarketDataIsPinned
<1> QED BY <1>1, <1>2, <1>3, PTL DEF Spec

-----------------------------------------------------------------------------
(***************************************************************************)
(* Completeness.  StreamsAreComplete speaks of what has been queued and is *)
(* not inductive: it holds on because what is still on the wire of a       *)
(* connection that is up is the rest of its stream, in order, and because  *)
(* the messages of older connections can no longer be mistaken for it.     *)
(***************************************************************************)
InStream(m, s, c) == m.session = s /\ m.connection = c /\ m.kind \in {"W", "X"}
Numbers(q, s, c) == {q[j].n : j \in {j \in DOMAIN q : InStream(q[j], s, c)}}
QueueOf(s) == IF Subscription(s) = "prices" THEN order_queue ELSE trade_queue
Got(s)     == Numbers(QueueOf(s), s, connection[s])
Coming(s)  == Numbers(wire[s], s, connection[s])

Waiting(q, s) ==
  \A k \in DOMAIN q :
    /\ q[k].connection = connection[s]
    /\ q[k].kind \in {"W", "X"} =>
         /\ q[k].kind = KindOf(Subscription(s), q[k].n)
         /\ \A j \in 1..(k - 1) : q[j].kind \in {"W", "X"} => q[j].n < q[k].n
Stream(s) ==
  /\ line[s] # "up" => wire[s] = <<>>
  /\ request[s] # "none" => served[s] = 0
  /\ Waiting(wire[s], s)
  /\ line[s] = "up" => /\ Got(s) \cup Coming(s) = 1..served[s]
                       /\ \A x \in Got(s), y \in Coming(s) : x < y
Past(q) == \A k \in DOMAIN q : q[k].connection <= connection[q[k].session]
Streaming == \A s \in Sessions : Stream(s)
StreamInv == /\ PinInv /\ DOMAIN line = Sessions /\ StreamsAreComplete /\ Streaming
             /\ Past(order_queue) /\ Past(trade_queue)

\* The numbers of a queue that has one message more, and one less.
LEMMA NumbersAppend ==
  ASSUME NEW q \in Seq(Messages), NEW m \in Messages, NEW s, NEW c
  PROVE  /\ InStream(m, s, c) => Numbers(Append(q, m), s, c) = Numbers(q, s, c) \cup {m.n}
         /\ ~InStream(m, s, c) => Numbers(Append(q, m), s, c) = Numbers(q, s, c)
<1> DEFINE p == Append(q, m)
<1>1. /\ DOMAIN q = 1..Len(q) /\ Len(q) \in Nat /\ DOMAIN p = 1..(Len(q) + 1)
      /\ p[Len(q) + 1] = m /\ \A k \in 1..Len(q) : p[k] = q[k]
  BY AppendProperties, LenProperties
<1> HIDE DEF p
<1>2. \A j : j \in DOMAIN p <=> j \in DOMAIN q \/ j = Len(q) + 1
  BY <1>1
<1>3. \A n : n \in Numbers(p, s, c) <=> n \in Numbers(q, s, c) \/ (InStream(m, s, c) /\ n = m.n)
  <2>1. ASSUME NEW n, n \in Numbers(p, s, c)
        PROVE  n \in Numbers(q, s, c) \/ (InStream(m, s, c) /\ n = m.n)
    <3>1. PICK j \in DOMAIN p : InStream(p[j], s, c) /\ n = p[j].n
      BY <2>1 DEF Numbers
    <3>2. CASE j \in DOMAIN q
      BY <1>1, <3>1, <3>2 DEF Numbers
    <3>3. CASE j = Len(q) + 1
      BY <1>1, <3>1, <3>3
    <3> QED BY <1>2, <3>2, <3>3
  <2>2. ASSUME NEW n, n \in Numbers(q, s, c) PROVE n \in Numbers(p, s, c)
    <3>1. PICK j \in DOMAIN q : InStream(q[j], s, c) /\ n = q[j].n
      BY <2>2 DEF Numbers
    <3>2. j \in DOMAIN p /\ InStream(p[j], s, c) /\ n = p[j].n
      BY <1>1, <1>2, <3>1
    <3> QED BY <3>2 DEF Numbers
  <2>3. ASSUME InStream(m, s, c) PROVE m.n \in Numbers(p, s, c)
    <3>1. Len(q) + 1 \in DOMAIN p /\ p[Len(q) + 1] = m
      BY <1>1
    <3> QED BY <2>3, <3>1 DEF Numbers
  <2> QED BY <2>1, <2>2, <2>3
<1> QED BY <1>3 DEF p

LEMMA NumbersTail ==
  ASSUME NEW q \in Seq(Messages), q # <<>>, NEW s, NEW c
  PROVE  /\ InStream(Head(q), s, c) => Numbers(q, s, c) = Numbers(Tail(q), s, c) \cup {Head(q).n}
         /\ ~InStream(Head(q), s, c) => Numbers(q, s, c) = Numbers(Tail(q), s, c)
<1> DEFINE p == Tail(q)
<1>1. /\ DOMAIN q = 1..Len(q) /\ Len(q) \in Nat \ {0} /\ DOMAIN p = 1..(Len(q) - 1)
      /\ Head(q) = q[1] /\ \A k \in 1..(Len(q) - 1) : p[k] = q[k + 1]
  BY HeadTailProperties, LenProperties, EmptySeq
<1> HIDE DEF p
<1>2. \A n : n \in Numbers(q, s, c) <=> n \in Numbers(p, s, c) \/ (InStream(q[1], s, c) /\ n = q[1].n)
  <2>1. ASSUME NEW n, n \in Numbers(q, s, c)
        PROVE  n \in Numbers(p, s, c) \/ (InStream(q[1], s, c) /\ n = q[1].n)
    <3>1. PICK j \in DOMAIN q : InStream(q[j], s, c) /\ n = q[j].n
      BY <2>1 DEF Numbers
    <3>2. CASE j # 1
      <4>1. j - 1 \in DOMAIN p /\ p[j - 1] = q[j]
        BY <1>1, <3>2
      <4> QED BY <3>1, <4>1 DEF Numbers
    <3> QED BY <3>1, <3>2
  <2>2. ASSUME NEW n, n \in Numbers(p, s, c) PROVE n \in Numbers(q, s, c)
    <3>1. PICK j \in DOMAIN p : InStream(p[j], s, c) /\ n = p[j].n
      BY <2>2 DEF Numbers
    <3>2. j + 1 \in DOMAIN q /\ q[j + 1] = p[j]
      BY <1>1
    <3> QED BY <3>1, <3>2 DEF Numbers
  <2>3. ASSUME InStream(q[1], s, c) PROVE q[1].n \in Numbers(q, s, c)
    <3>1. 1 \in DOMAIN q
      BY <1>1
    <3> QED BY <2>3, <3>1 DEF Numbers
  <2> QED BY <2>1, <2>2, <2>3
<1> QED BY <1>1, <1>2 DEF p

LEMMA OwnMessages ==
  ASSUME TypeInv
  PROVE  /\ \A s \in Sessions : wire[s] \in Seq(Messages) /\ \A k \in DOMAIN wire[s] : wire[s][k] \in Own(s)
         /\ order_queue \in Seq(Messages) /\ trade_queue \in Seq(Messages)
         /\ \A k \in DOMAIN order_queue : order_queue[k] \in Orders
         /\ \A k \in DOMAIN trade_queue : trade_queue[k] \in Increments
<1>1. \A S, q : q \in Seq(S) => \A k \in DOMAIN q : q[k] \in S
  BY ElementOfSeq, LenProperties
<1>2. ASSUME NEW S \in SUBSET Messages, NEW q \in Seq(S) PROVE q \in Seq(Messages)
  BY <1>2
<1>3. /\ \A s : Own(s) \subseteq Messages
      /\ Orders \subseteq Messages /\ Increments \subseteq Messages
  BY DEF Own, Orders, Increments
<1> HIDE DEF Own, Orders, Increments, Messages
<1> QED BY <1>1, <1>2, <1>3 DEF TypeInv

\* A session that a step leaves alone.
LEMMA Untouched ==
  ASSUME NEW s \in Sessions, Stream(s), Subscription(s)' = Subscription(s),
         line'[s] = line[s], request'[s] = request[s], served'[s] = served[s],
         wire'[s] = wire[s], connection'[s] = connection[s], Got(s)' = Got(s)
  PROVE  Stream(s)'
BY DEF Stream, Waiting, Coming

\* Sending the next message of a stream, or one that is no part of it.
LEMMA SendStream ==
  ASSUME StreamInv, NEW s \in Sessions, NEW m \in Own(s), Send(s, m),
         line[s] = "up", line' = line, connection' = connection, env' = env,
         UNCHANGED <<order_queue, trade_queue>>, DOMAIN request' = Sessions, DOMAIN served' = Sessions,
         m.connection = connection[s], request'[s] # "none" => served'[s] = 0,
         \/ m.kind \notin {"W", "X"} /\ served'[s] = served[s]
         \/ /\ m.kind = KindOf(Subscription(s), m.n)
            /\ m.n = served[s] + 1 /\ served'[s] = m.n,
         \A r \in Sessions \ {s} : request'[r] = request[r] /\ served'[r] = served[r]
  PROVE  Streaming'
<1> USE DEF StreamInv, PinInv
<1>0. /\ wire[s] \in Seq(Messages) /\ m \in Messages /\ m.session = s /\ DOMAIN wire = Sessions
      /\ served[s] \in Nat /\ connection[s] \in Nat
  BY OwnMessages DEF TypeInv, Own
<1>1. /\ wire'[s] = Append(wire[s], m)
      /\ \A r \in Sessions \ {s} : wire'[r] = wire[r]
  BY <1>0 DEF Send
<1>2. \A r \in Sessions : Subscription(r)' = Subscription(r) /\ Got(r)' = Got(r)
  BY DEF Subscription, Got, QueueOf
<1>3. ASSUME NEW r \in Sessions \ {s} PROVE Stream(r)'
  BY <1>1, <1>2, Untouched DEF Streaming
<1>4. Stream(s)'
  <2> DEFINE q == wire[s]
             p == wire'[s]
  <2>0. Stream(s)
    BY DEF Streaming
  <2>1. /\ DOMAIN q = 1..Len(q) /\ Len(q) \in Nat /\ DOMAIN p = 1..(Len(q) + 1)
        /\ p[Len(q) + 1] = m /\ \A k \in 1..Len(q) : p[k] = q[k]
    BY <1>0, <1>1, AppendProperties, LenProperties
  <2>2. Got(s) \cup Coming(s) = 1..served[s] /\ \A x \in Got(s), y \in Coming(s) : x < y
    BY <2>0 DEF Stream
  <2>3. Coming(s)' = IF m.kind \in {"W", "X"} THEN Coming(s) \cup {m.n} ELSE Coming(s)
    <3>1. Coming(s)' = Numbers(Append(wire[s], m), s, connection[s])
      BY <1>1 DEF Coming
    <3>2. InStream(m, s, connection[s]) <=> m.kind \in {"W", "X"}
      BY <1>0 DEF InStream
    <3>3. /\ InStream(m, s, connection[s]) =>
               Numbers(Append(wire[s], m), s, connection[s]) = Coming(s) \cup {m.n}
          /\ ~InStream(m, s, connection[s]) =>
               Numbers(Append(wire[s], m), s, connection[s]) = Coming(s)
      BY <1>0, NumbersAppend DEF Coming
    <3> QED BY <3>1, <3>2, <3>3
  <2>4. Got(s)' \cup Coming(s)' = 1..served'[s] /\ \A x \in Got(s)', y \in Coming(s)' : x < y
    <3>1. CASE m.kind \notin {"W", "X"}
      <4>1. served'[s] = served[s]
        BY <3>1 DEF KindOf
      <4> QED BY <1>2, <2>2, <2>3, <3>1, <4>1
    <3>2. CASE m.kind \in {"W", "X"}
      <4>1. m.n = served[s] + 1 /\ served'[s] = m.n
        BY <3>2
      <4>2. Coming(s)' = Coming(s) \cup {served[s] + 1}
        BY <2>3, <3>2, <4>1
      <4>3. 1..(served[s] + 1) = (1..served[s]) \cup {served[s] + 1}
        BY <1>0
      <4>4. \A x \in Got(s) : x < served[s] + 1
        BY <1>0, <2>2
      <4> QED BY <1>2, <2>2, <4>1, <4>2, <4>3, <4>4
    <3> QED BY <3>1, <3>2
  <2>5. Waiting(wire[s], s)'
    <3>1. \A k \in DOMAIN q : q[k].kind \in {"W", "X"} => q[k].n \in Coming(s)
      BY <2>0, OwnMessages DEF Stream, Waiting, Coming, Numbers, InStream, Own
    <3>2. \A k \in DOMAIN q : q[k].kind \in {"W", "X"} => q[k].n <= served[s]
      BY <1>0, <2>2, <3>1
    <3>3. Waiting(q, s)
      BY <2>0 DEF Stream
    <3>4. ASSUME NEW k \in DOMAIN p
          PROVE  /\ p[k].connection = connection[s]
                 /\ p[k].kind \in {"W", "X"} =>
                      /\ p[k].kind = KindOf(Subscription(s), p[k].n)
                      /\ \A j \in 1..(k - 1) : p[j].kind \in {"W", "X"} => p[j].n < p[k].n
      <4>1. CASE k \in DOMAIN q
        <5>1. p[k] = q[k] /\ \A j \in 1..(k - 1) : p[j] = q[j]
          BY <2>1, <4>1
        <5> QED BY <3>3, <4>1, <5>1 DEF Waiting
      <4>2. CASE k = Len(q) + 1
        <5>1. p[k] = m /\ \A j \in 1..(k - 1) : p[j] = q[j] /\ j \in DOMAIN q
          BY <2>1, <4>2
        <5>2. m.kind \in {"W", "X"} => m.kind = KindOf(Subscription(s), m.n) /\ m.n = served[s] + 1
          OBVIOUS
        <5>3. \A j \in 1..(k - 1) : q[j].kind \in {"W", "X"} => q[j].n <= served[s] /\ q[j].n \in Nat
          BY <3>2, <5>1, OwnMessages DEF Own, Messages
        <5> QED BY <1>0, <5>1, <5>2, <5>3
      <4> QED BY <2>1, <4>1, <4>2
    <3> QED BY <1>2, <3>4 DEF Waiting
  <2> QED BY <2>0, <2>4, <2>5 DEF Stream
<1> QED BY <1>3, <1>4 DEF Streaming

\* Taking the head of a wire: if it is of the stream, its queue holds all that
\* comes before it, and nothing else of the connection.
LEMMA NextOfStream ==
  ASSUME StreamInv, NEW s \in Sessions, wire[s] # <<>>, Head(wire[s]).kind \in {"W", "X"}
  PROVE  LET m == Head(wire[s])
         IN  /\ Got(s) = 1..(m.n - 1) /\ m.n > 0 /\ m.kind = KindOf(Subscription(s), m.n)
             /\ m.session = s /\ m.connection = connection[s] /\ m \in Own(s)
             /\ Subscription(s) # "none"
<1> DEFINE q == wire[s]
           m == Head(q)
<1> USE DEF StreamInv, PinInv
<1>1. /\ q \in Seq(Messages) /\ m \in Own(s) /\ m \in Messages /\ m.session = s /\ m.n \in Nat
      /\ DOMAIN q = 1..Len(q) /\ Len(q) \in Nat \ {0} /\ m = q[1]
      /\ \A k \in DOMAIN q : q[k] \in Own(s) /\ q[k].n \in Nat
  <2>1. q \in Seq(Messages) /\ \A k \in DOMAIN q : q[k] \in Own(s)
    BY OwnMessages
  <2>2. DOMAIN q = 1..Len(q) /\ Len(q) \in Nat \ {0} /\ m = q[1]
    BY <2>1, LenProperties, HeadTailProperties, EmptySeq
  <2> QED BY <2>1, <2>2 DEF Own, Messages
<1>2. Stream(s) /\ line[s] = "up" /\ served[s] \in Nat
  BY DEF Streaming, Stream, TypeInv
<1>3. Got(s) \cup Coming(s) = 1..served[s] /\ \A x \in Got(s), y \in Coming(s) : x < y
  BY <1>2 DEF Stream
<1>4. m.n \in Coming(s) /\ m.connection = connection[s] /\ m.kind = KindOf(Subscription(s), m.n)
  BY <1>1, <1>2 DEF Stream, Waiting, Coming, Numbers, InStream
<1>5. \A y \in Coming(s) : m.n <= y
  <2> SUFFICES ASSUME NEW k \in DOMAIN q, q[k].kind \in {"W", "X"} PROVE m.n <= q[k].n
    BY DEF Coming, Numbers, InStream
  <2>1. CASE k = 1
    BY <1>1, <2>1
  <2>2. CASE k # 1
    <3>1. 1 \in 1..(k - 1)
      BY <1>1, <2>2
    <3> QED BY <1>1, <1>2, <3>1 DEF Stream, Waiting
  <2> QED BY <2>1, <2>2
<1>6. m.n \in 1..served[s]
  BY <1>3, <1>4
<1>7. ASSUME NEW x PROVE x \in Got(s) <=> x \in 1..(m.n - 1)
  <2>1. ASSUME x \in Got(s) PROVE x \in 1..(m.n - 1)
    BY <1>1, <1>2, <1>3, <1>4, <2>1
  <2>2. ASSUME x \in 1..(m.n - 1) PROVE x \in Got(s)
    <3>1. x \in 1..served[s] /\ ~(m.n <= x)
      BY <1>1, <1>2, <1>6, <2>2
    <3> QED BY <1>3, <1>5, <3>1
  <2> QED BY <2>1, <2>2
<1>8. Got(s) = 1..(m.n - 1)
  BY <1>7, Zenon
<1>9. m.n > 0 /\ Subscription(s) # "none"
  BY <1>2, <1>6 DEF SetUpBeforeData
<1> HIDE DEF q
<1> QED BY <1>1, <1>4, <1>8, <1>9 DEF q

\* A message that finds the ones before it may be queued.
LEMMA InOrderAppend ==
  ASSUME NEW q \in Seq(Messages), NEW m \in Messages, NEW stream, InOrder(q, stream),
         \A k \in DOMAIN q : q[k].kind \in {"W", "X"},
         Numbers(q, m.session, m.connection) = 1..(m.n - 1), m.n > 0, m.kind = KindOf(stream, m.n)
  PROVE  InOrder(Append(q, m), stream)
<1> DEFINE p == Append(q, m)
<1>1. /\ DOMAIN q = 1..Len(q) /\ Len(q) \in Nat /\ DOMAIN p = 1..(Len(q) + 1)
      /\ p[Len(q) + 1] = m /\ \A k \in 1..Len(q) : p[k] = q[k]
  BY AppendProperties, LenProperties
<1> HIDE DEF p
<1> SUFFICES ASSUME NEW k \in DOMAIN p
             PROVE  /\ p[k].n > 0 /\ p[k].kind = KindOf(stream, p[k].n)
                    /\ {p[j].n : j \in {j \in 1..(k - 1) : SameConnection(p[j], p[k])}} = 1..(p[k].n - 1)
  BY DEF InOrder, p
<1>2. \A j \in 1..(k - 1) : j \in DOMAIN q /\ p[j] = q[j]
  BY <1>1
<1>3. CASE k \in DOMAIN q
  <2>1. p[k] = q[k]
    BY <1>1, <1>3
  <2>2. {p[j].n : j \in {j \in 1..(k - 1) : SameConnection(p[j], p[k])}} =
        {q[j].n : j \in {j \in 1..(k - 1) : SameConnection(q[j], q[k])}}
    BY <1>2, <2>1
  <2> QED BY <1>3, <2>1, <2>2 DEF InOrder
<1>4. CASE k = Len(q) + 1
  <2>1. p[k] = m /\ DOMAIN q = 1..(k - 1)
    BY <1>1, <1>4
  <2>2. {p[j].n : j \in {j \in 1..(k - 1) : SameConnection(p[j], p[k])}} =
          Numbers(q, m.session, m.connection)
    BY <1>2, <2>1 DEF Numbers, InStream, SameConnection
  <2> QED BY <2>1, <2>2
<1> QED BY <1>1, <1>3, <1>4

\* What is left of a wire waits as before, behind its head.
LEMMA WaitingTail ==
  ASSUME NEW s \in Sessions, NEW q \in Seq(Messages), q # <<>>, Waiting(q, s)
  PROVE  /\ Waiting(Tail(q), s)
         /\ Head(q).kind \in {"W", "X"} =>
              \A y \in Numbers(Tail(q), s, connection[s]) : Head(q).n < y
<1> DEFINE p == Tail(q)
<1>1. /\ DOMAIN q = 1..Len(q) /\ Len(q) \in Nat \ {0} /\ DOMAIN p = 1..(Len(q) - 1)
      /\ Head(q) = q[1] /\ \A k \in 1..(Len(q) - 1) : p[k] = q[k + 1]
  BY HeadTailProperties, LenProperties, EmptySeq
<1> HIDE DEF p
<1>2. ASSUME NEW k \in DOMAIN p
      PROVE  /\ p[k] = q[k + 1] /\ k + 1 \in DOMAIN q
             /\ \A j \in 1..(k - 1) : p[j] = q[j + 1] /\ j + 1 \in 1..((k + 1) - 1)
             /\ 1 \in 1..((k + 1) - 1)
  BY <1>1
<1>3. Waiting(p, s)
  <2> SUFFICES ASSUME NEW k \in DOMAIN p
               PROVE  /\ p[k].connection = connection[s]
                      /\ p[k].kind \in {"W", "X"} =>
                           /\ p[k].kind = KindOf(Subscription(s), p[k].n)
                           /\ \A j \in 1..(k - 1) : p[j].kind \in {"W", "X"} => p[j].n < p[k].n
    BY DEF Waiting
  <2> QED BY <1>2 DEF Waiting
<1>4. ASSUME Head(q).kind \in {"W", "X"}, NEW k \in DOMAIN p, p[k].kind \in {"W", "X"}
      PROVE  Head(q).n < p[k].n
  BY <1>1, <1>2, <1>4 DEF Waiting
<1>5. ASSUME Head(q).kind \in {"W", "X"}, NEW y \in Numbers(p, s, connection[s])
      PROVE  Head(q).n < y
  BY <1>4, <1>5 DEF Numbers, InStream
<1> QED BY <1>3, <1>5 DEF p

LEMMA ReceiveStep ==
  ASSUME StreamInv, NEW s \in Sessions, fromApp(s)
  PROVE  StreamsAreComplete' /\ Streaming' /\ Past(order_queue)' /\ Past(trade_queue)'
<1> USE DEF StreamInv, PinInv
<1> DEFINE m == Head(wire[s])
<1>0. /\ wire[s] \in Seq(Messages) /\ m \in Messages /\ wire[s] # <<>> /\ m \in Own(s) /\ m.session = s
      /\ DOMAIN wire = Sessions /\ order_queue \in Seq(Messages) /\ trade_queue \in Seq(Messages)
      /\ connection[s] \in Nat /\ served[s] \in Nat
  <2>1. wire[s] \in Seq(Own(s)) /\ wire[s] # <<>>
    BY DEF fromApp, TypeInv
  <2>2. m \in Own(s)
    BY <2>1, HeadTailProperties
  <2> QED BY <2>1, <2>2, OwnMessages DEF Own, TypeInv
<1>1. /\ wire'[s] = Tail(wire[s]) /\ \A r \in Sessions \ {s} : wire'[r] = wire[r]
      /\ UNCHANGED <<env, line, connection, request, served>>
  BY <1>0 DEF fromApp, hostVars, lineVars
<1>2. \A r \in Sessions : Subscription(r)' = Subscription(r)
  BY DEF Subscription
<1>3. Stream(s) /\ Waiting(wire[s], s) /\ Waiting(Tail(wire[s]), s)
  BY <1>0, WaitingTail DEF Streaming, Stream
<1>4. Waiting(wire[s], s)'
  BY <1>1, <1>2, <1>3 DEF Waiting
<1>5. line[s] = "up"
  BY <1>0, <1>3 DEF Stream
<1>6. Coming(s)' = Numbers(Tail(wire[s]), s, connection[s])
  BY <1>1 DEF Coming
<1>7. CASE m.kind \in {"W", "X"}
  <2>1. /\ Got(s) = 1..(m.n - 1) /\ m.n > 0 /\ m.kind = KindOf(Subscription(s), m.n)
        /\ m.connection = connection[s] /\ Subscription(s) # "none"
    BY <1>0, <1>7, NextOfStream
  <2>2. Routed(m) = IF Subscription(s) = "prices" THEN "orders" ELSE "trades"
    BY <1>0, <1>7, <2>1, SessionAssumption DEF Routed, Overloads, Subscription, Own
  <2>3. InStream(m, s, connection[s]) /\ \A r \in Sessions \ {s} : \A c : ~InStream(m, r, c)
    BY <1>0, <1>7, <2>1 DEF InStream
  <2>4. /\ QueueOf(s)' = Append(QueueOf(s), m)
        /\ Subscription(s) = "prices" => order_queue' = Append(order_queue, m) /\ trade_queue' = trade_queue
        /\ Subscription(s) # "prices" => order_queue' = order_queue /\ trade_queue' = Append(trade_queue, m)
    BY <1>2, <2>2 DEF QueueOf, fromApp
  <2>5. Got(s)' = Got(s) \cup {m.n}
    <3>1. Got(s)' = Numbers(Append(QueueOf(s), m), s, connection[s])
      BY <1>1, <2>4 DEF Got
    <3>2. QueueOf(s) \in Seq(Messages)
      BY <1>0 DEF QueueOf
    <3> QED BY <1>0, <2>3, <3>1, <3>2, NumbersAppend DEF Got
  <2>6. ASSUME NEW r \in Sessions \ {s} PROVE Got(r)' = Got(r)
    <3>1. Got(r)' = Numbers(QueueOf(r)', r, connection[r])
      BY <1>1 DEF Got
    <3>2. QueueOf(r)' = QueueOf(r) \/ QueueOf(r)' = Append(QueueOf(r), m)
      BY <1>2, <2>4 DEF QueueOf
    <3>3. QueueOf(r) \in Seq(Messages)
      BY <1>0 DEF QueueOf
    <3>4. Numbers(Append(QueueOf(r), m), r, connection[r]) = Numbers(QueueOf(r), r, connection[r])
      BY <1>0, <2>3, <3>3, NumbersAppend
    <3> QED BY <3>1, <3>2, <3>4 DEF Got
  <2>7. Coming(s) = Coming(s)' \cup {m.n} /\ \A y \in Coming(s)' : m.n < y
    <3>1. Coming(s) = Numbers(Tail(wire[s]), s, connection[s]) \cup {m.n}
      BY <1>0, <2>3, NumbersTail DEF Coming
    <3>2. \A y \in Numbers(Tail(wire[s]), s, connection[s]) : m.n < y
      BY <1>0, <1>3, <1>7, WaitingTail
    <3> QED BY <1>6, <3>1, <3>2
  <2>8. Stream(s)'
    <3>1. Got(s) \cup Coming(s) = 1..served[s] /\ \A x \in Got(s), y \in Coming(s) : x < y
      BY <1>3, <1>5 DEF Stream
    <3>2. Got(s)' \cup Coming(s)' = 1..served[s]
      BY <2>5, <2>7, <3>1
    <3>3. \A x \in Got(s)', y \in Coming(s)' : x < y
      BY <2>5, <2>7, <3>1
    <3> QED BY <1>1, <1>3, <1>4, <1>5, <3>2, <3>3 DEF Stream
  <2>9. Streaming'
    BY <1>1, <1>2, <2>6, <2>8, Untouched DEF Streaming
  <2>10. StreamsAreComplete'
    <3>1. \A k \in DOMAIN order_queue : order_queue[k].kind \in {"W", "X"}
      BY DEF StreamsAreComplete, InOrder, KindOf
    <3>2. \A k \in DOMAIN trade_queue : trade_queue[k].kind \in {"W", "X"}
      BY DEF StreamsAreComplete, InOrder, KindOf
    <3>3. CASE Subscription(s) = "prices"
      <4>1. Numbers(order_queue, m.session, m.connection) = 1..(m.n - 1)
        BY <1>0, <2>1, <3>3 DEF Got, QueueOf
      <4>2. InOrder(Append(order_queue, m), "prices")
        BY <1>0, <2>1, <3>1, <3>3, <4>1, InOrderAppend DEF StreamsAreComplete
      <4> QED BY <2>4, <3>3, <4>2 DEF StreamsAreComplete
    <3>4. CASE Subscription(s) # "prices"
      <4>1. Numbers(trade_queue, m.session, m.connection) = 1..(m.n - 1) /\ Subscription(s) = "trades"
        BY <1>0, <2>1, <3>4 DEF Got, QueueOf, Subscription
      <4>2. InOrder(Append(trade_queue, m), "trades")
        BY <1>0, <2>1, <3>2, <3>4, <4>1, InOrderAppend DEF StreamsAreComplete
      <4> QED BY <2>4, <3>4, <4>2 DEF StreamsAreComplete
    <3> QED BY <3>3, <3>4
  <2>11. Past(order_queue)' /\ Past(trade_queue)'
    <3>1. ASSUME NEW q \in Seq(Messages), Past(q)
          PROVE  \A k \in DOMAIN Append(q, m) : Append(q, m)[k].connection <= connection[Append(q, m)[k].session]
      BY <1>0, <2>1, <3>1 DEF Past
    <3> QED BY <1>0, <1>1, <2>4, <3>1 DEF Past
  <2> QED BY <2>9, <2>10, <2>11
<1>8. CASE m.kind \notin {"W", "X"}
  <2>1. UNCHANGED <<order_queue, trade_queue>>
    BY <1>8 DEF fromApp, Routed
  <2>2. Coming(s)' = Coming(s)
    BY <1>0, <1>6, <1>8, NumbersTail DEF Coming, InStream
  <2>3. \A r \in Sessions : Got(r)' = Got(r)
    BY <1>1, <1>2, <2>1 DEF Got, QueueOf
  <2>4. Stream(s)'
    BY <1>1, <1>3, <1>4, <1>5, <2>2, <2>3 DEF Stream
  <2>5. Streaming'
    BY <1>1, <1>2, <2>3, <2>4, Untouched DEF Streaming
  <2> QED BY <1>1, <2>1, <2>5 DEF StreamsAreComplete, Past
<1> QED BY <1>7, <1>8

LEMMA StreamInit == Init => StreamInv
<1> SUFFICES ASSUME Init PROVE StreamInv
  OBVIOUS
<1>1. PinInv /\ DOMAIN line = Sessions
  BY TypeInit DEF Init, SetUpBeforeData, PinInv
<1>2. StreamsAreComplete /\ Past(order_queue) /\ Past(trade_queue)
  BY DEF Init, StreamsAreComplete, InOrder, Past
<1>3. Streaming
  BY DEF Init, Streaming, Stream, Waiting
<1> QED BY <1>1, <1>2, <1>3 DEF StreamInv

LEMMA StreamStep == StreamInv /\ [Next]_vars => StreamInv'
<1> SUFFICES ASSUME StreamInv, [Next]_vars
             PROVE  StreamsAreComplete' /\ Streaming' /\ Past(order_queue)' /\ Past(trade_queue)'
                    /\ (DOMAIN line = Sessions)'
  BY TypeStep, PinStep DEF StreamInv, PinInv
<1> USE DEF StreamInv, PinInv, hostVars, lineVars, venueVars, queueVars
<1>d. (DOMAIN line = Sessions)'
  BY TypeStep, PinStep DEF SetUpBeforeData
<1>t. TypeInv
  OBVIOUS
<1>e. env' = env
  BY DEF Next, vars, toAdmin, onLogon, Terminate, fromApp, VenueServes, VenueRefuses, VenueUpdates,
         VenueNotifies, Disconnect
<1>s. \A s \in Sessions : Subscription(s)' = Subscription(s)
  BY DEF Subscription
\* Where the queues and the connections stay, so does what is complete.
<1>q. ASSUME UNCHANGED <<order_queue, trade_queue, connection>>
      PROVE  /\ StreamsAreComplete' /\ Past(order_queue)' /\ Past(trade_queue)'
             /\ \A s \in Sessions : Got(s)' = Got(s)
  BY <1>s, <1>q DEF StreamsAreComplete, Past, Got, QueueOf
<1>0. CASE UNCHANGED vars
  BY <1>0, <1>d, <1>q, <1>s, Untouched DEF vars, Streaming
<1>1. ASSUME NEW s \in Sessions, toAdmin(s) PROVE Streaming' /\ UNCHANGED <<order_queue, trade_queue, connection>>
  <2>1. UNCHANGED <<order_queue, trade_queue, connection, served, wire, request>>
    BY <1>1 DEF toAdmin, Terminate
  <2>2. ASSUME NEW r \in Sessions, line'[r] = line[r] PROVE Stream(r)'
    BY <1>q, <1>s, <2>1, <2>2, Untouched DEF Streaming
  <2>3. CASE line'[s] # line[s]
    <3>1. line'[s] = "logon" /\ line[s] = "down" /\ \A r \in Sessions \ {s} : line'[r] = line[r]
      BY <1>1, <2>3 DEF toAdmin, Terminate
    <3>2. Stream(s)'
      BY <1>s, <2>1, <3>1 DEF Streaming, Stream, Waiting
    <3> QED BY <2>1, <2>2, <3>1, <3>2 DEF Streaming
  <2>4. CASE line'[s] = line[s]
    <3>1. \A r \in Sessions : line'[r] = line[r]
      BY <1>1, <2>4 DEF toAdmin, Terminate
    <3> QED BY <2>1, <2>2, <3>1 DEF Streaming
  <2> QED BY <2>3, <2>4
<1>2. ASSUME NEW s \in Sessions, onLogon(s)
      PROVE  Streaming' /\ StreamsAreComplete' /\ Past(order_queue)' /\ Past(trade_queue)'
  <2>1. CASE Terminate
    BY <1>q, <1>s, <2>1, Untouched DEF Terminate, Streaming
  <2>2. CASE ~Terminate
    <3>1. /\ line[s] = "logon" /\ line' = [line EXCEPT ![s] = "up"]
          /\ connection' = [connection EXCEPT ![s] = @ + 1]
          /\ request' = [request EXCEPT ![s] = Subscription(s)]
          /\ UNCHANGED <<served, wire, order_queue, trade_queue>>
      BY <1>2, <2>2 DEF onLogon
    <3>2. connection'[s] = connection[s] + 1 /\ \A r \in Sessions \ {s} : connection'[r] = connection[r]
      BY <3>1, <1>t DEF TypeInv
    <3>3. ASSUME NEW r \in Sessions \ {s} PROVE Stream(r)'
      <4>1. Got(r)' = Got(r)
        BY <1>s, <3>1, <3>2 DEF Got, QueueOf
      <4> QED BY <1>s, <1>t, <3>1, <3>2, <4>1, Untouched DEF Streaming, TypeInv
    <3>4. Stream(s)'
      <4>1. wire[s] = <<>> /\ served[s] = 0 /\ line'[s] = "up"
        BY <1>t, <3>1 DEF Streaming, Stream, SetUpBeforeData, TypeInv
      <4>2. Got(s)' = {}
        <5>1. QueueOf(s)' = QueueOf(s) /\ Past(QueueOf(s))
          BY <1>s, <3>1 DEF QueueOf
        <5>2. Numbers(QueueOf(s), s, connection'[s]) = {}
          BY <1>t, <3>2, <5>1 DEF Numbers, InStream, Past, TypeInv
        <5> QED BY <5>1, <5>2 DEF Got
      <4>3. Coming(s)' = {} /\ Waiting(wire[s], s)'
        BY <3>1, <4>1 DEF Coming, Numbers, Waiting
      <4> QED BY <3>1, <4>1, <4>2, <4>3 DEF Stream
    <3>5. \A r \in Sessions : connection[r] <= connection'[r] /\ connection[r] \in Nat /\ connection'[r] \in Nat
      <4>1. \A r \in Sessions : connection[r] \in Nat
        BY <1>t DEF TypeInv
      <4>2. ASSUME NEW r \in Sessions
            PROVE  connection[r] <= connection'[r] /\ connection'[r] \in Nat
        <5>1. CASE r = s
          BY <3>2, <4>1, <5>1
        <5>2. CASE r # s
          BY <3>2, <4>1, <5>2
        <5> QED BY <5>1, <5>2
      <4> QED BY <4>1, <4>2
    <3>6. Past(order_queue)' /\ Past(trade_queue)'
      BY <1>t, <3>1, <3>5, OwnMessages DEF Past, Orders, Increments, Messages
    <3> QED BY <3>1, <3>3, <3>4, <3>6 DEF Streaming, StreamsAreComplete
  <2> QED BY <2>1, <2>2
<1>3. ASSUME NEW s \in Sessions, fromApp(s)
      PROVE  Streaming' /\ StreamsAreComplete' /\ Past(order_queue)' /\ Past(trade_queue)'
  BY <1>3, ReceiveStep
<1>4. ASSUME NEW s \in Sessions, VenueServes(s) PROVE Streaming' /\ UNCHANGED <<order_queue, trade_queue, connection>>
  <2> DEFINE m == Message(s, KindOf(request[s], 1))
  <2>1. request[s] = Subscription(s) /\ Subscription(s) # "none" /\ line[s] = "up" /\ served[s] = 0
    BY <1>4, <1>t DEF VenueServes, TypeInv, SetUpBeforeData, Streaming, Stream
  <2>2. m \in Own(s)
    <3>1. KindOf(request[s], 1) \in Kinds /\ (KindOf(request[s], 1) = "W" => getQualifier[s] = "PX")
      BY <2>1 DEF KindOf, Kinds, Subscription
    <3> QED BY <1>t, <3>1, MessageType
  <2>3. m.n = 1 /\ m.kind = KindOf(Subscription(s), 1) /\ m.connection = connection[s]
    BY <2>1 DEF Message
  <2>4. /\ Send(s, m) /\ UNCHANGED <<order_queue, trade_queue, connection, line>>
        /\ request' = [request EXCEPT ![s] = "none"] /\ served' = [served EXCEPT ![s] = 1]
    BY <1>4 DEF VenueServes
  <2>5. /\ DOMAIN request' = Sessions /\ DOMAIN served' = Sessions
        /\ request'[s] = "none" /\ served'[s] = 1
        /\ \A r \in Sessions \ {s} : request'[r] = request[r] /\ served'[r] = served[r]
    BY <1>t, <2>4 DEF TypeInv
  <2> HIDE DEF m
  <2> QED BY <1>e, <2>1, <2>2, <2>3, <2>4, <2>5, SendStream
<1>5. ASSUME NEW s \in Sessions, VenueRefuses(s) PROVE Streaming' /\ UNCHANGED <<order_queue, trade_queue, connection>>
  <2> DEFINE m == Message(s, "MarketDataRequestReject")
  <2>1. line[s] = "up"
    BY <1>5 DEF VenueRefuses, SetUpBeforeData
  <2>2. m \in Own(s) /\ m.kind \notin {"W", "X"} /\ m.connection = connection[s]
    BY <1>t, MessageType DEF Kinds, Message
  <2>3. /\ Send(s, m) /\ UNCHANGED <<order_queue, trade_queue, connection, line, served>>
        /\ request' = [request EXCEPT ![s] = "none"]
    BY <1>5 DEF VenueRefuses
  <2>4. /\ DOMAIN request' = Sessions /\ DOMAIN served' = Sessions /\ request'[s] = "none"
        /\ \A r \in Sessions \ {s} : request'[r] = request[r] /\ served'[r] = served[r]
    BY <1>t, <2>3 DEF TypeInv
  <2> HIDE DEF m
  <2> QED BY <1>e, <2>1, <2>2, <2>3, <2>4, SendStream
<1>6. ASSUME NEW s \in Sessions, VenueUpdates(s) PROVE Streaming' /\ UNCHANGED <<order_queue, trade_queue, connection>>
  <2> DEFINE m == Message(s, "X")
  <2>1. line[s] = "up" /\ Subscription(s) # "none" /\ served[s] \in Nat \ {0} /\ request[s] = "none"
    BY <1>6, <1>t DEF VenueUpdates, Subscribed, SetUpBeforeData, TypeInv, Streaming, Stream
  <2>2. m \in Own(s) /\ m.connection = connection[s] /\ m.n = served[s] + 1 /\ m.kind = "X"
    BY <1>t, MessageType DEF Kinds, Message
  <2>3. KindOf(Subscription(s), m.n) = "X"
    BY <2>1, <2>2 DEF KindOf
  <2>4. /\ Send(s, m) /\ UNCHANGED <<order_queue, trade_queue, connection, line, request>>
        /\ served' = [served EXCEPT ![s] = @ + 1]
    BY <1>6 DEF VenueUpdates
  <2>5. /\ DOMAIN request' = Sessions /\ DOMAIN served' = Sessions /\ request'[s] = "none"
        /\ served'[s] = served[s] + 1
        /\ \A r \in Sessions \ {s} : request'[r] = request[r] /\ served'[r] = served[r]
    BY <1>t, <2>1, <2>4 DEF TypeInv
  <2> HIDE DEF m
  <2> QED BY <1>e, <2>1, <2>2, <2>3, <2>4, <2>5, SendStream
<1>7. ASSUME NEW s \in Sessions, VenueNotifies(s) PROVE Streaming' /\ UNCHANGED <<order_queue, trade_queue, connection>>
  <2> PICK kind \in Unsolicited(s) : Send(s, Message(s, kind))
    BY <1>7 DEF VenueNotifies
  <2> DEFINE m == Message(s, kind)
  <2>1. line[s] = "up" /\ UNCHANGED <<order_queue, trade_queue, connection, line, request, served>>
    BY <1>7 DEF VenueNotifies
  <2>2. kind \in Kinds /\ kind \notin {"W", "X"}
    BY DEF Unsolicited, Kinds
  <2>3. m \in Own(s) /\ m.kind \notin {"W", "X"} /\ m.connection = connection[s]
    BY <1>t, <2>2, MessageType DEF Message
  <2>4. DOMAIN request' = Sessions /\ DOMAIN served' = Sessions
    BY <1>t, <2>1 DEF TypeInv
  <2>5. Send(s, m)
    OBVIOUS
  <2>6. request'[s] # "none" => served'[s] = 0
    BY <2>1 DEF Streaming, Stream
  <2> HIDE DEF m
  <2> QED BY <1>e, <2>1, <2>3, <2>4, <2>5, <2>6, SendStream
<1>8. ASSUME NEW s \in Sessions, Disconnect(s) PROVE Streaming' /\ UNCHANGED <<order_queue, trade_queue, connection>>
  <2>1. /\ line' = [line EXCEPT ![s] = "down"] /\ request' = [request EXCEPT ![s] = "none"]
        /\ served' = [served EXCEPT ![s] = 0] /\ wire' = [wire EXCEPT ![s] = <<>>]
        /\ UNCHANGED <<order_queue, trade_queue, connection>>
    BY <1>8 DEF Disconnect
  <2>2. ASSUME NEW r \in Sessions \ {s} PROVE Stream(r)'
    BY <1>q, <1>s, <1>t, <2>1, Untouched DEF Streaming, TypeInv
  <2>3. Stream(s)'
    BY <1>t, <2>1 DEF Stream, Waiting, TypeInv
  <2> QED BY <2>1, <2>2, <2>3 DEF Streaming
<1> QED
  BY <1>d, <1>q, <1>0, <1>1, <1>2, <1>3, <1>4, <1>5, <1>6, <1>7, <1>8 DEF Next

\* For any number of sessions, connections and messages, what a queue holds of a
\* connection is a prefix of its stream, the snapshot first: the interleaving of
\* the sessions' threads, drops and logons lose, repeat and exchange nothing.
THEOREM NothingIsSkipped == Spec => []StreamsAreComplete
<1>1. StreamInv => StreamsAreComplete
  BY DEF StreamInv
<1> QED BY <1>1, StreamInit, StreamStep, PTL DEF Spec
=============================================================================
