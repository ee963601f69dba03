# trader.cpp in TLA+

A verification project for the market data path of trader.cpp: the FIX sessions
to Binance, the two queues between threads, the BTCUSDT order book, the ring of
trades, and the terminal UI that shows them. TLC checks every module on small
instances; TLAPS proves, for every value of the constants, all of the safety that
TLC checks: the conversion to ticks and the text of a size, the book and what a message
does to it, the thread protocols of the boxes, the price path over reconnections, the
sessions, the log and the way out of `main`. Beyond what TLC can hold, it proves that the
price path as a whole, every thread of it, keeps the ladder on the screen uncrossed.

Paths below are relative to the repository.

## 1. Inventory

### The parts, their state and their operations

| Part | Code | State | Operations |
|---|---|---|---|
| Order book | `src/core/order_book.cpp`, `bid_ask.h` | two maps price → size in ticks, a mutex | `apply_snapshot`, `apply_increment`, `to_vector`, move construction |
| Symbols | `src/binance/symbol.h` | none (the sticky `std::optional<SymbolEnum>` of a message loop) | `from_str`, `to_str` |
| Ticks | `src/utils/double.h`, `src/binance/config.h` | none | `toUint64`, `price_to_ticks`, ticks per unit |
| Order book box | `src/ui/order_book_box.cpp` | a worker thread, its stop token, `thread_exception` | `start`, `poll_queue`, `to_table`, destruction |
| Trade box | `src/ui/trade_box.cpp` | ring of 100 trades, a mutex, a worker thread | `start`, `poll_queue`, `on_trade`, `to_table`, destruction |
| Log box | `src/ui/log_box/*` | ring of 100 lines, a mutex, an open file, a watcher thread | `start`, `handleFileAction`, `on_log_lines`, render |
| FIX application | `src/binance/fix_app.cpp` | `order_queue_`, `trade_queue_` | `toAdmin`, `onLogon`, `onLogout`, `fromApp`, `onMessage` |
| Worker, Auth | `src/binance/worker.cpp`, `auth.cpp` | engine objects, the key and the PEM path | `start`, `stop`, `sign_payload`, `clear_keys` |
| App and main | `src/ui/app/ui_app.cpp`, `src/main.cpp` | ownership and lifetime of the above | `from_env`, `start`, the way out of `main` |
| Config | `src/binance/config.cpp`, `src/utils/env.h` | the parsed environment | `from_env` |
| Host services | `src/utils/threading.cpp`, `process.h`, `auth.cpp` | a thread's affinity and scheduling | `set_thread_cpu`, `set_thread_realtime`, `set_high_priority`, reading the PEM file |
| Crash and logging | `src/utils/crash.h`, `logging.h` | the sinks, the handlers | `configure`, `configure_handlers`, the handlers |
| Display | `src/utils/double.h`, `src/ui/helpers.h` | none | `trim`, `pretty`, `Pad` |

### How they interact

QuickFIX runs one thread per connection (`ThreadedSocketInitiator`). On logon the
PX session subscribes to prices and the TX session to trades; `onMessage` copies
each message into one of two `moodycamel::ConcurrentQueue`s. Each box polls its
queue on a `std::jthread` of its own, changes its data under its mutex, and posts
an event to the FTXUI screen. The main thread runs the screen's loop; it draws a
frame after the events it has taken, reading the data under the same mutex. When
the loop returns, `main` stops the initiator, then destroys the boxes, whose
jthreads are asked to stop and joined.

### What is hard, and what makes each part correct

* **Order book.** Entries leave the symbol out; sizes are optional; a throw in the
  middle of a message leaves its first half applied; a depth-1 CHANGE clears the
  side before it can throw. Correct: the maps say what the message sequence says
  (`LastWriterWins`), and `to_vector` shows the maps (`LadderIsTheBook`).
* **Ticks.** A double is multiplied and truncated, so neighbouring quotes can get
  one key. Back on the screen a size is divided, printed, trimmed and cut. Correct:
  the loss is confined to quotes that a double does not hold, in the lower part of a
  binade (`DyadicQuotesExact`, `UpperBandExact`), and sizes that the 15 decimals can
  tell apart are shown as they are stored (`ShownDigitForDigit`).
* **Order book box.** Three threads, one mutex, a queue, a stop token, a flag of
  the screen; a throw ends the worker. Correct: messages are atomic and in order
  for the screen (`ImplementsAtomicBook`), no update stays unseen
  (`StaleScreenIsRedrawn`, `QueueReachesScreen`), shutdown ends (`QuitEnds`) and
  nothing runs after it (`NothingRunsAfterJoin`).
* **Price path.** Connections drop with messages in flight; the queue is only
  ordered per producing thread and each connection has a new thread. Correct: a
  new subscription brings the book back in step (`InSync`, `ComesUpToDate`), and it
  is never crossed on the way (`NeverCrossed`), with other instruments in the same
  subscription. Nor is the ladder on the screen, whatever the threads of the box are
  in the middle of (`ScreenIsNeverCrossed`).
* **Trade box.** As the order book box, with the events posted inside the lock and
  a ring that overwrites; a missing field throws after earlier trades of the
  message are in. Correct: the ring is the newest trades (`RingIsNewestTrades`), drawn
  between messages only (`FramesAreWhole`), all of them shown (`StaleTradesAreRedrawn`).
* **Log box.** File events are coalesced and race with the writer; a line can be
  read half-written. Correct: no text lost or repeated, and the last line shown.
* **Sessions.** Three sessions log on independently and again after each drop;
  set-up of a thread can throw before the subscription; keys may not be cleared
  while a session still needs them; each connection has a new thread, to be pinned
  again. Correct: each queue carries one stream (`OneStreamPerQueue`), whole
  (`StreamsAreComplete`), received where the settings say (`MarketDataIsPinned`),
  and each session subscribes again (`EverySessionComesBack`).
* **Lifetime.** Threads start before the objects that can fail to be built; the
  failure of a worker is kept in a field that nobody reads; what is logged reaches
  the console only at one level; members are destroyed in the order that their
  declarations happen to have. Correct: what a thread uses after its end is known, and
  is at most two members of the log's watcher (`OnlyWatcherMembersAreOutlived`), or the
  queues after one setting (`FeedEndsBeforeItsQueues`); every failure is announced (`EveryEndIsAnnounced`), and the process ends (`ProcessEnds`).

PROJECT.json lists the hazards line by line, with the properties that cover them.

## 2. The modules

| Module | Models | State ↔ code |
|---|---|---|
| `Symbol` | `Symbol::from_str`, the sticky symbol of a message loop | operators only; a name is its first character and its length, which is all the code looks at |
| `Ticks` | `Double::toUint64`, `Config::*_ticks_per_unit` | operators only; IEEE doubles as integers |
| `Display` | the text of a size: division, `Double::trim`, `Helpers::Pad` | operators only; a text is a natural, in units of its last decimal |
| `TicksScan` | a walk through quotes: stored, and shown | `build` ↔ with or without `-ffast-math` |
| `Doubles` | the same multiplication, division and text, as IEEE 754 defines them | operators only: the reference that `Ticks` and `Display` are proved equal to |
| `OrderBook` | `apply_snapshot`, `apply_increment`, `to_vector`, as operators on a book | `book["BID"]`, `book["OFFER"]` ↔ `bid_map_`, `ask_map_`; a missing key is `NoLevel`; a record with `thrown` is a call in progress |
| `OrderBookReference` | what a message says of each level, and rows of a book, without a loop | operators only: the reference that `OrderBook` is compared with |
| `OrderBookPromise` | what an order book promises in every state it is in | `book` ↔ `bid_map_`, `ask_map_` |
| `OrderBookCalls` | any sequence of calls on one book | `book` |
| `AtomicBook` | what the order book box promises (abstract) | the lanes of the queue, book, what has been read, what is shown |
| `PollingBox` | what the two boxes share: the queue, `poll_queue`, the screen's loop, the way out of `main` | `queue_[l]` ↔ the lane of one producing thread; `worker`, `ui` ↔ where the threads are; `mutex` ↔ the mutex of the data; `stop` ↔ the stop token; `redraw` ↔ an event in the screen's queue |
| `OrderBookBox` | the order book between the three threads | `PollingBox`'s state, `book`, the message in progress, the copy being read |
| `TradeBox` | the ring of trades between the three threads | `ring` ↔ `trade_ring_` |
| `PriceFeed` | venue, PX session, lanes of the order queue, book | `order_queue[l]` ↔ the lane of one producing thread |
| `PriceSystem` | the whole price path: `PriceFeed`'s venue and session before `OrderBookBox`'s threads | the variables of both; the queue and the book are the box's |
| `LogBox` | log file, efsw's thread, ring of lines, UI | `pos`, `eof` ↔ the state of `file_`; `log_ring` ↔ `log_ring_` |
| `Config` | `Config::from_env` and the other readers of the environment | operators only; a text is its length, its number, its fields and whether it has a slash |
| `Host` | affinity, priority and the PEM file: what the machine grants | operators on a host and on a thread |
| `FixApp` | the callbacks of three sessions | `line`, `connection`, `thread`, `request`: per session; `keys` ↔ `Auth`'s members |
| `Lifecycle` | `main`, `App`, `Worker`, crash handlers, logging: start, stop, destruction, crash | `main` ↔ the next statement or member to be destroyed; `alive` ↔ object lifetimes; `said` ↔ the console |
| `Recursion` | nothing of the code: induction and recursion over the naturals, and what they show of sequences | lemmas only |
| `OrderBook_proofs` | lemmas about the operators of `OrderBook`: types, the loop, the reference, the rows | |
| `OrderBookBox_proofs`, `TradeBox_proofs`, `PriceFeed_proofs`, `LogBox_proofs`, `FixApp_proofs`, `Lifecycle_proofs` | the theorems, one module per component; those of `OrderBookCalls` and `PriceSystem` are in `OrderBookBox_proofs`, those of `Ticks`, `Display` and `TicksScan` in `TradeBox_proofs` | |

`OrderBook` is used by `OrderBookCalls`, `OrderBookBox`, `AtomicBook` and
`PriceFeed`; `OrderBook` and `TradeBox` use `Symbol`. `OrderBookBox` and `TradeBox` extend
`PollingBox` with their data: its actions leave the data alone, theirs name the step
of the loop they are. `FixApp` and `Lifecycle` use `Config` and `Host`: the same
environments and hosts decide which statement of `main` and which callback throws.
`OrderBookBox` takes a
message entry by entry and implements `AtomicBook`, which takes it at once;
`PriceFeed` builds on that and takes it at once too. `PriceSystem` puts the two together:
its `SessionStep` is the venue's or the session's and leaves the box alone, its `onMessage`
takes a message from the wire onto the connection's lane of the box's queue, and its
`BoxStep` is any step of the worker, the user or the main thread. In place of its own queue
and book, the instance of `PriceFeed` has what of the box's queue has not been applied
(`Unapplied`) and the outcome of the call in progress (`Outcome`). `FixApp` is about which
messages get onto which queue, and has no book. `MC*` modules give small values to
constants. Operators marked `Mutant:` are wrong on purpose: each stands next to
the definition it spoils, and PROJECT.json pairs it with the property that notices.

Loops that a proof reasons about are functions on the naturals rather than folds:
`Rounds` after k entries of a message, `Ahead` after k steps of an iterator, `Pushed` after k
lines of a batch. `Lifecycle` takes the statements of `main` and the members it destroys from
one tuple, `Block`, in the order of the code; `After` is the next of them.

Quotes are integers (hundredths of a USDT) and the conversion to ticks is a
constant function of them. So everything but `Ticks` holds for whatever the
conversion does, collisions included, and the MC modules check that their values
are the ones `Ticks` computes. `Ticks` and `Display` work with remainders, in numbers that TLC
can hold; `Doubles` says the same with the doubles themselves, which are beyond TLC.

## 3. What is checked

| Run | Bounds | Shows |
|---|---|---|
| `ticks` | six stretches of 5000 quotes, two builds | a key is the quote's ticks in the upper part of each binade (`UpperBandExact`) and whenever the double is exact (`DyadicQuotesExact`); sizes below 8 and multiples of 1/32 lose no digit on the screen (`ShownDigitForDigit`) |
| `ticks_exact` (violated) | 65536.00 to 65600.00 | 65536.01 is stored one tick low (`PriceIsExact`) |
| `calls` | messages of ≤ 3 entries, 3 quotes on 2 keys, in every reachable book, clearing or not | a message does what a loop-free definition says (`LastWriterWins`); rows are the maps (`LadderIsTheBook`) |
| `other_instruments` (violated) | the same names and BNBUSDT | another instrument's levels land in the book (`OtherInstrumentsAreSkipped`) |
| `book_box` | 3 messages of 3 kinds, 2 lanes | `LockDiscipline`, `StaleScreenIsRedrawn`, `NothingRunsAfterJoin`, `ImplementsAtomicBook`, `QueueReachesScreen`, `QuitEnds` |
| `feed` | 2 prices, 2 moves, 2 connections, 2 lanes, 2 instruments, full depth and depth 1 | `InSync`, `NeverCrossed`, `NeverFails`, `ComesUpToDate` over reconnections |
| `trade_box` | 3 messages of 7 kinds, 2 lanes, ring of 2 | `RingIsNewestTrades`, `FramesAreWhole`, `StaleTradesAreRedrawn`, `TradesReachScreen`, `QuitEnds` |
| `sessions` | 3 sessions, 2 connections each, 2 messages each, 3 environments, 5 hosts | `OneStreamPerQueue`, `StreamsAreComplete`, `MarketDataIsPinned`, `EverySessionComesBack` |
| `catch_all` (violated) | 3 sessions, 1 connection, 1 message | the catch-all is never called (`UnexpectedIsCaught`) |
| `log_box` | 8 pieces of text (4 lines), ring of 2 | `NothingLostOrRepeated`, `LinesAreWhole`, `RingIsNewestLines`, `UnreadTextIsAnnounced`, `TextReachesScreen` |
| `lifecycle` | 9 environments, 5 hosts; else finite | `OnlyWatcherMembersAreOutlived`, `FeedEndsBeforeItsQueues`, `EveryEndIsAnnounced`, `ProcessEnds` |
| `report` (violated) | the same | a worker's failure goes unreported (`WorkerFailureIsReported`) |

The largest are `feed` (157,000 distinct states), `sessions` (149,000), `trade_box` (148,000),
`ticks` (68,000) and `book_box` (51,000).

### Why the bounds are enough

* A loop over entries keeps the maps, the sticky symbol and whether it is the first
  round. Three entries let a symbol be set, inherited and set again, and let a
  throw come after a change; two keys, one of them hit by two quotes, show every
  relation of two levels. `OrderBookCalls` starts from every reachable book, so
  sequences of messages need no bound.
* In the boxes, three messages put one in the worker's hands, one in the queue
  and one still to come; a ring of two overflows with the third trade. With two lanes, a
  later message can be taken before an earlier one, or each be alone in its lane.
* Two connections are the least with something left over from an older one. A
  third adds leftovers of the same kind.
* Two instruments in a subscription are the least with one to be skipped; every
  further one is skipped in the same way.
* The log's pieces come in portions of any size, so eight of them let every read
  end before, at and behind a newline, with a second event pending or not.
* An environment spoils one setting at a time, a host refuses one thing at a time:
  the first throw ends start-up, so a second one would go unseen.
* Ticks are checked for stretches of quotes, chosen where the exponent of the double
  or the number of digits changes; `ticks_exact` looks where a new exponent starts.

### Fairness

* Each thread is weakly fair: the OS suspends none for good. A lock is taken with
  strong fairness (`LockBook`, `LockRing`, `LockForCopy`): the holder leaves after
  finitely many steps and the other one polls or sleeps between two sections, so
  nobody loses the race for ever. Nothing is assumed of the user or the venue in
  the boxes: they may stop.
* In `PriceFeed` and `FixApp` the venue answers a request that reaches it and the
  engine logs on again (`ReconnectInterval` is QuickFIX's default); the line may
  drop at any time, so what must eventually happen is stated for a line that
  stays up, or up to the bound on connections.
* In `Lifecycle` the way out of `main` is strongly fair, because the destructor of the
  watcher waits for its turn between callbacks. The screen's loop has no fairness:
  the user may stay.
* In `LogBox` the watcher's and the main thread are weakly fair; the sink is not.

### What the violated runs say

1. `ticks_exact`: `Double::toUint64` truncates. `config.h:40` promises "performance and
   correctness". 0.29 and 0.28 share a key.
2. `other_instruments`: `Symbol::from_str` looks at the length and the first
   character, so BNBUSDT, which `config_test.cpp` configures, is taken for BTCUSDT.
3. `catch_all`: the function under "error catch-all" in `fix_app.cpp` is not a member
   of `FixApp`, so nothing calls it and News messages are rejected. So is the venue's
   refusal of a subscription.
4. `report`: `App::thread_exception` is never set, so `main`'s rethrow is dead and a
   frozen box is not reported. Two TODOs in the boxes mention it.

### Conditions that matter

`InSync` and `NeverCrossed` have a condition on lanes. `moodycamel::ConcurrentQueue`
keeps the order of one producing thread only, and `ThreadedSocketInitiator` gives each
connection a thread. If increments of an ended connection are still waiting in
another lane when the new snapshot is queued, the worker may apply the snapshot
first and the old increments on top of it. Without the condition TLC refutes both.
The worker polls at least once a millisecond and the engine takes seconds to log
on again, so this needs a stalled worker; nothing in the code rules it out. The boxes are checked
with two lanes, so what their properties say does not depend on the order between them.

`FeedEndsBeforeItsQueues` excepts a `LOG_PATH` without a slash. The logger takes it, the
FIX threads start, then `LogBox::from_env` throws for it, and `main` leaves through the
destructors, without `Worker::stop`. What the engine's destructor then does with its
threads is QuickFIX's; the code does not rely on it anywhere else.

`EverySessionComesBack` is for a host that grants what the set-up asks for and for names
the venue has (`Suitable`). A refused affinity or priority ends the process, and a
refused subscription leaves the session up without data: the code has no answer to
`MarketDataRequestReject`.

`EveryEndIsAnnounced` rests on the signal handler: `handle_terminate` logs an error, which
goes to the file only, and aborts; the SIGABRT handler's own line is what the console
gets.

`OnlyWatcherMembersAreOutlived` has two exceptions, both in `log_file_watcher.h:76-85`,
whose members go from the last to the first. `cb_` is destroyed before `watcher_`, whose
thread may be in a callback or about to make one, and `watcher_` before the jthread, which may
not have called `watch()` yet. The model has both as possible crashes (`DeadCallbackCrashes`,
`LateWatchCrashes`), and as calls that happen to go well.

`UpperBandExact` and `ShownDigitForDigit` say where nothing is lost. Elsewhere something may be: in
the lower part of a binade the doubles around the product lie too close together
(`ticks_exact`), and the text of a size from 8 on, no multiple of 1/32, may end in 9s, or from
1000 on be one lot low where no decimal is left to round by. All of it is about quotes of fewer
than 10^9 ticks, which are sizes below 10000.

## 4. What is proved

Each theorem below is checked by TLAPS for every value of the constants. A property in
brackets is the one that a run of section 3 checks on an instance.

### The order book (`OrderBook_proofs`, theorems in `OrderBookBox_proofs`)

* `LastEntryWins` [`LastWriterWins`]: after any sequence of calls, a message of any
  length leaves each level as the last entry that concerns it says, and a message that
  throws has applied exactly the entries before the bad one. The loop invariant is
  `Agrees`: after n entries of an increment the call has thrown if one of them was bad;
  else its symbol is that of the name in force, and each level is what the last of the
  n entries that wrote it or cleared its side made of it. `RoundAgrees` is the step,
  one case per branch of the loop body; `Lists` and `RoundLists` are the same for a snapshot.
* `LadderShowsTheBook` [`LadderIsTheBook`]: of every such book `to_vector` lists each
  level once, best first, sentinels at the end. `KeysInOrder` follows an iterator: after k
  increments n - k keys are ahead of it, the k visited ones make up the rest, and each of
  these beats those ahead.

Both are stated of the behaviours of `OrderBookCalls`, whose invariant is that `book` is a map
from keys to sizes (`CallsKeepType`). The same holds of the box's book, between any two entries
(`TypeCorrect` below).

### The order book box (`OrderBookBox_proofs`)

* `TypeCorrect` [`TypeOK`], `MutexHeld` [`LockDiscipline`], `NoLostRedraw`
  [`StaleScreenIsRedrawn`], `QuietAfterJoin` [`NothingRunsAfterJoin`].
* `UpdatesAreAtomic`: `Spec => Abstract!Safety`, the safety of `AtomicBook` under the
  refinement mapping that `ImplementsAtomicBook` checks with its fairness too.

`StaleScreenIsRedrawn` is about the screen and the book, but a frame is
drawn from a copy. So the inductive invariant `IInv` adds `CopyIsFresh`: the half
that is copied under the mutex is the book's half, and a finished copy is the book
unless an event is waiting, the worker has yet to post one, or it has thrown.
That needs `LockDiscipline`, since only the mutex keeps the book still between the
two halves. `QuietAfterJoin` needs to know that a joined worker has exited and that
its exit is final (`JoinedAfterExit`).

The abstract book of the refinement is the outcome of the call in progress, so a message
takes effect where the worker takes the mutex. Every later step of the call leaves the
outcome as it is, because the loop can be unrolled from its front (`RemainingStep`,
`RemainingEnd`); the view of a frame is the book where the frame took the mutex, which
`CopyIsFresh` says is what has been copied when both halves are read. `ThrownIsLast` adds
that a worker with an exception takes no message any more.

### The trade box (`TradeBox_proofs`)

* `TypeCorrect` [`TypeOK`], inductive with `HasMessage`: a call is only in progress once a
  message has been taken.
* `NoHalfMessageIsDrawn` [`FramesAreWhole`], from the ring's `LockDiscipline`.
* `NoLostRedraw` [`StaleTradesAreRedrawn`], inductive as it is, because the event is
  posted with the trade and the frame is drawn from one copy.
* `RingHoldsNewestTrades` [`RingIsNewestTrades`]: the ring is the newest part of all that
  the messages taken have said so far (`Said`), entry by entry; a message that throws has
  said what comes before the entry at fault. The symbol the call carries is that of
  `NameAt`, the last name at or before the entry.

### The price path (`PriceFeed_proofs`)

The invariant is in layers.

* `TypeCorrect` [`TypeOK`] and `WorkerSurvives` [`NeverFails`]. `Carried` says what any
  lane and the wire may hold: a snapshot of some published book, an increment between two
  of them, or what concerns other instruments; none of these makes `from_str` or
  `MDEntrySize` throw. `Subscriptions` says when a connection has been served.
* `BookIsInStep` [`InSync`]. The book after replaying everything that is still coming in
  the lane is the published book. A step of the worker moves a message from the lane into
  the book, and the venue appends one whose effect is the difference (`IncrementOf`), entry by
  entry; at depth 1 the CHANGE clears the old level. The condition on lanes is carried by
  `NoLaneOutlasts`: a snapshot of the present connection is still on the wire, or it has been queued
  and all other lanes are empty.
* `BookIsNeverCrossed` [`NeverCrossed`], from `PublishedInv`: as long as no snapshot has outrun
  a message, replaying any lane from the present book only goes through books the venue has
  published (`StaysPublished`), at most one lane has messages that change the book
  (`OneBusyLane`), and where another one has, the wire starts with a snapshot (`SnapshotFirst`).

It rests on `FeedAssumption`: keys rise with quotes, so distinct quotes have distinct keys
(`ticks_exact` shows where that fails), and `from_str` takes the subscribed names for what
they are (`other_instruments` shows where that fails).

### The whole price path (`PriceSystem`, theorems in `OrderBookBox_proofs`)

* `SystemIsTheFeed`: a behaviour of `PriceSystem` is one of the box, and at the same time one of
  `PriceFeed`: entry by entry, with frames and shutdown in between, it does
  what `PriceFeed` says of whole messages. Each step of the box is first a step of `AtomicBook`
  (`BoxMapped`, from the refinement above), and then of the feed (`BoxStepMapped`): `ApplyHead` is
  the feed's, the others leave the queue and the book of the feed alone. A message joins
  its lane in both at once (`ReceiveMapped`).
* `ScreenNeverCrossed`: `ScreenIsNeverCrossed`, which is about the rows on the screen and the venue. The
  invariant `ScreenInv` adds to those of the box and the feed that the book a frame is
  reading, or has read, is uncrossed. A frame takes it from the feed's book, uncrossed as
  long as nothing has been outrun (`FeedUncrossed`), at the moment it takes the mutex; later
  messages do not reach it, and `RowsUncrossed` says that rows show what the book has.
  Between two entries of a message the maps themselves may well be crossed.

The proof uses that of `PriceFeed` as it stands: `PriceSystem` has an instance of
`PriceFeed_proofs`, and `FeedInvInit`, `FeedInvStep` and `FeedInvUncrossed` come with it. The
conditions are in `SystemAssumption`: those of `PriceFeed`, a lane for each connection, and
that the messages the venue sends are among those the box is for. They are not empty: with
`MAX_DEPTH + 0` for `MAX_DEPTH` in the instance, TLC went through half a million states of two
prices, one move, two connections and two lanes, and found both theorems to hold.

### Ticks and text (`TradeBox_proofs`, its second half)

* `TicksAreRoundedTwice`: `toUint64` of `Ticks`, worked out from a remainder, is what
  `Doubles` says in so many words: the quote to 53 significant bits, times the ticks per
  unit, to 53 bits again, cut off. For every quote below 2^52 ticks and every number of
  ticks per unit below 2^53. `FirstRounding` gives the double and its error, `GapIs` the
  distance to the next double below, which is a power of two as `Pow2Around` finds it, and
  `SecondRounding` which way the product goes; `NoTie` says that the first never lies
  halfway, and where the second does, the even neighbour is the quote itself.
* `TextIsWritten`: the text of `Display`, for every size below 10000 in either build, is
  what `Doubles` says: quotient (or product with the double above 1/T) to 53 bits,
  15 decimals, cut to the column. `CutIs` is the crux: an error below the last decimal shown
  takes one off the text when it is more than half a unit of the 15th decimal below,
  and is cut off in every other case. `WrittenByDivision` matches that against `DividesShort`;
  `WrittenByProduct` bounds what the reciprocal adds (`ReciprocalIs`: 48288 above 2^69
  in the units used, `ProductError`), which below 32 leaves less than half a unit missing.
* `StoredWithinOneTick` and `ShownRoundsToStored` are about `Doubles`: two roundings and the
  truncation give the quote or one tick less, and the text that a build's doubles give rounds
  back to the size, or to one lot less where it has no decimal to spare. `Ticks` and `Display`
  have this by their form; that the doubles have it is what the two theorems above are for.
* `UpperBandStored` [`UpperBandExact`], `DyadicQuotesStored` [`DyadicQuotesExact`] and
  `SmallAndDyadicSizesShown` [`ShownDigitForDigit`], of any walk of `TicksScan`. In the upper
  band the error of the first rounding is less than half the gap below the product, so the second
  rounds back (`UpperBandIs`); at a power of two the gap is half as wide, and the
  decimal is read as a double above it (`AboveHalf`). Below 8 the error of the quotient is no more
  than half a unit of the 15th decimal, and a multiple of 1/32 has none (`DyadicHasNoError`). The invariant
  `ScanInv` says that what is stored and shown belongs to the present quote, and that the
  quote is a size. `QuartersAreExact` shows that a multiple of a quarter has no remainder to
  round.

They share a module with the trade box, which stores and writes what they are about.

### Sessions, log and lifetime

`FixApp_proofs`, for any set of sessions, environments, hosts and bounds:

* `QueuesAreSeparate` [`OneStreamPerQueue`]. The invariant `TypeInv` follows a
  message from its request: a session asks for its own stream only, its connection
  carries its own messages, a snapshot on it is an answer to a subscription to
  prices. The snapshot overload does not look at the session, so this is what keeps
  it off the book for any other.
* `NothingIsSkipped` [`StreamsAreComplete`]: the messages of a connection get onto the
  queue in order and without a gap, the first of them first. `StreamInv` numbers what is on
  the queues and what is on the wire: the latter goes on where the former ends.
* `PinnedBeforeData` [`MarketDataIsPinned`]. `SetUpBeforeData` says that a
  request on its way, or a stream being served, belongs to a connection whose
  thread has been set up; `NumberIsTaken` that the CPU is the number in the text.

`LogBox_proofs`, for a file and a ring of any size:

* `NoTextIsForgotten` [`UnreadTextIsAnnounced`]. The end of the file may only
  be noted during a read, and only with all of the file read or another event
  waiting (`EndIsReached`); `LineEndIsAhead` says that `getline` goes forward and not past
  the end.
* `TextIsReadOnce` [`NothingLostOrRepeated`] and `LinesStayWhole` [`LinesAreWhole`]: joining
  the lines delivered and held gives the text before the read position; a line at a time
  unless a read has ended within one.
* `RingHoldsNewestLines` [`RingIsNewestLines`], by induction over the lines of a batch.

`Lifecycle_proofs`, for any set of environments and hosts: `WatcherMembersAreOutlived`
[`OnlyWatcherMembersAreOutlived`], `OnlyLogPathLeavesTheFeed` [`FeedEndsBeforeItsQueues`] and
`NoFailureIsSilent` [`EveryEndIsAnnounced`]. The inductive invariant `LifeInv` ties what is
alive, which threads run and whether the feed runs to the place of `main` in `Block`
(`InScope`, `Fed`), and what has been said to whether logging was configured (`Announced`).

### How induction is done

The library's induction theorems take an operator as a parameter, which the provers cannot
instantiate. `Recursion` states induction with a set instead of an operator (`Induction`,
from the well-foundedness of < on the naturals), shows that step functions have a
function that follows them (`Recursion`), and from there what is needed of `FlattenSeq`
(`FlattenAppend`) and of the newest elements of a sequence (`NewestAppend`).

### Assumptions

Those of the modules, named there: the conversion maps quotes and amounts to naturals
(`TicksAssumption`); keys are 64-bit numbers, so there are finitely many, and no price is
`UINT64_MAX` ticks (`KeyAssumption`); the values for "no level" and "no such field" are not
sizes; messages are of the shape that the FIX dictionary admits; bounds are naturals; the
quotes that `TicksScan` walks through are sizes below 10000 (`RangeAssumption`), which is what the
column of the screen is made for.

### What is only model-checked

* Liveness and the fairness half of `ImplementsAtomicBook`: out of the prover's reach.
  So the screen's coming up to date is known in two halves: `ComesUpToDate` for the
  book of `PriceFeed`, `QueueReachesScreen` for the way from the queue to the screen.

`PriceSystem`, in turn, is proved and has no run: its parts are those of the runs `feed` and
`book_box`, and TLC does not evaluate the instance as it stands, in which a constant, the
box's `MAX_DEPTH`, is in place of a variable.

## 5. What is taken from outside

* QuickFIX calls `FixApp` on one thread per connection and reconnects; an
  exception it does not know ends the process through `handle_terminate`.
* moodycamel's queue: one lane per producer, first in first out in each.
* FTXUI's screen: an event is kept from the first draw on, all waiting events
  are taken before a frame, and what is posted outside the loop is dropped.
* efsw: one thread for callbacks, an event after every change of the file,
  merged while one is waiting.
* The venue: a snapshot first, then every change of the levels it publishes.
  Execution reports only on the order session.

## 6. What is not modelled

* The traffic box (a fixed text), the layout of tables, padding other than its cut,
  scrolling, names and ids of threads: no state that anything depends on.
* `Double::pretty`, which groups a price by thousands, and the times of trades: they are
  printed and go nowhere else.
* Of `Auth`, the Ed25519 signature and the parsing of PEM (libsodium, OpenSSL); whether
  the key is there, when it is read and what throws are modelled.
* Of logging, the text of lines and `LOG_LEVEL`: a level of `off` would silence the
  console's sink too, and `EveryEndIsAnnounced` is for the others. Where a line of which level goes is in
  `Lifecycle`, that the sink writes in portions in `LogBox`.
* A connection that drops between `toAdmin` and `onLogon`, a PEM file that goes between two
  logons, and a thread that `App::start` cannot create.
* Errors of efsw's `addWatch` other than those that the logger's own file rules out.
* The move constructor of `OrderBook`: it runs before any thread does.
* The branches for macOS and Windows in `src/utils`; the model's host is Linux.
* The FIX callbacks that only log (`onCreate`, `toApp`, `fromAdmin`).
* The TODO parts (orders, signals) have no code yet.

## 7. Plan

Order of work: order book, box and price path first, since everything on
the screen comes from them; then trades, sessions, log and lifetime; then settings,
host and display. All of these modules exist, and
`PriceSystem` joins the price path. What could follow: the same for `FixApp` and the trade box, and
the parts of the program that are still TODO, orders and signals, once they have code.
