--------------------------- MODULE Lifecycle_proofs ---------------------------
(***************************************************************************)
(* Safety of Lifecycle under every environment and on every host: whatever *)
(* throws, and whenever the workers die, only two members of the log's     *)
(* watcher may be used after their end, and no failure is silent.          *)
(***************************************************************************)
EXTENDS Lifecycle, SequenceTheorems, TLAPS

-----------------------------------------------------------------------------
(* The statements of main, in order.                                       *)
LEMMA BlockIs ==
  /\ Len(Block) = 19
  /\ Block[1] = "Logging::configure" /\ Block[2] = "Crash::configure_handlers" /\ Block[3] = "Process::set_high_priority"
  /\ Block[4] = "Config::from_env" /\ Block[5] = "Worker::from_conf" /\ Block[6] = "Worker::start"
  /\ Block[7] = "App::from_env" /\ Block[8] = "App::start" /\ Block[9] = "rethrow_exception"
  /\ Block[10] = "Worker::stop" /\ Block[11] = "~trade" /\ Block[12] = "~cb"
  /\ Block[13] = "~watcher" /\ Block[14] = "~log" /\ Block[15] = "~book" /\ Block[16] = "~screen"
  /\ Block[17] = "~Worker" /\ Block[18] = "catch" /\ Block[19] = "returned"
BY DEF Block

LEMMA BoxesAre == Range(Boxes) = {"book", "log", "trade"}
<1>1. DOMAIN Boxes = {1, 2, 3} /\ Boxes[1] = "book" /\ Boxes[2] = "log" /\ Boxes[3] = "trade"
  BY DEF Boxes
<1> QED BY <1>1 DEF Range

\* A statement is followed by the one after its only place.
LEMMA AfterItsPlace ==
  ASSUME NEW k \in 1..18, NEW pc, Block[k] = pc
  PROVE  After(pc) = Block[k + 1]
<1>1. Len(Block) = 19 /\ \A j \in 1..19 : Block[j] = pc => j = k
  BY BlockIs
<1> DEFINE I == {j \in 1..Len(Block) : Block[j] = pc}
<1>2. I = {k}
  BY <1>1
<1>3. SelectInSeq(Block, LAMBDA p : p = pc) = IF I # {} THEN Min(I) ELSE 0
  BY DEF SelectInSeq
<1>4. Min({k}) = k
  BY DEF Min
<1> QED BY <1>2, <1>3, <1>4 DEF After

LEMMA AfterIs ==
  /\ After("Logging::configure") = "Crash::configure_handlers"
  /\ After("Crash::configure_handlers") = "Process::set_high_priority"
  /\ After("Process::set_high_priority") = "Config::from_env"
  /\ After("Config::from_env") = "Worker::from_conf"
  /\ After("Worker::from_conf") = "Worker::start"
  /\ After("Worker::start") = "App::from_env"
  /\ After("App::from_env") = "App::start"
  /\ After("App::start") = "rethrow_exception"
  /\ After("rethrow_exception") = "Worker::stop"
  /\ After("Worker::stop") = "~trade"
  /\ After("~trade") = "~cb"
  /\ After("~cb") = "~watcher"
  /\ After("~watcher") = "~log"
  /\ After("~log") = "~book"
  /\ After("~book") = "~screen"
  /\ After("~screen") = "~Worker"
  /\ After("~Worker") = "catch"
  /\ After("catch") = "returned"
<1>1. \A k \in 1..18 : After(Block[k]) = Block[k + 1]
  BY AfterItsPlace
<1> QED BY <1>1, BlockIs

-----------------------------------------------------------------------------
(***************************************************************************)
(* What is alive is a matter of where main is, whichever way it came; a    *)
(* thread only runs between the statement that starts it and the one that  *)
(* waits for it, so that what is destroyed after the latter is alive.      *)
(***************************************************************************)
Building == {"Logging::configure", "Crash::configure_handlers", "Process::set_high_priority",
             "Config::from_env", "Worker::from_conf"}
Feeding  == {"App::from_env", "App::start", "rethrow_exception", "Worker::stop"}
Objects  == {"worker", "app", "screen", "cb", "watcher", "book", "log", "trade"}
AliveAt(pc) ==
  CASE pc \in Building \cup {"catch", "returned"} -> {}
    [] pc \in {"Worker::start", "App::from_env", "~Worker"} -> {"worker"}
    [] pc \in {"App::start", "rethrow_exception", "Worker::stop", "~trade"} -> Objects
    [] pc = "~cb" -> Objects \ {"trade"}
    [] pc = "~watcher" -> Objects \ {"trade", "cb"}
    [] pc = "~log" -> Objects \ {"trade", "cb", "watcher"}
    [] pc = "~book" -> Objects \ {"trade", "cb", "watcher", "log"}
    [] pc = "~screen" -> Objects \ {"trade", "cb", "watcher", "log", "book"}
Places == Building \cup Feeding \cup
          {"Worker::start", "~trade", "~cb", "~watcher", "~log", "~book", "~screen", "~Worker",
           "catch", "returned"}

InScope ==
  /\ main \in Places \cup {"crashed"}
  /\ main # "crashed" => alive = AliveAt(main)
  /\ thread \in [{"book", "log", "trade"} -> {"none", "running", "ended"}]
  /\ efsw \in {"none", "idle", "callback", "ended"}
  /\ \A b \in Pollers : thread[b] = "running" => {b, "screen", "worker"} \subseteq alive
  /\ thread["log"] = "running" => "log" \in alive
  /\ efsw \in {"idle", "callback"} => {"log", "watcher", "screen"} \subseteq alive

\* Beyond configure LOG_PATH names a file, and the feed runs from its start to
\* its stop, unless App::from_env threw in between for want of a directory.
Fed ==
  /\ thread_exception = FALSE
  /\ main \in (Building \ {"Logging::configure"}) \cup {"Worker::start", "App::from_env"}
       => ~configure_throws(env)
  /\ feed => main \in Feeding \cup {"crashed"} \/ ~env["LOG_PATH"].slash
  /\ FeedEndsBeforeItsQueues

\* There are handlers before there is a thread that may crash.
Announced ==
  /\ main \in (Feeding \cup {"Process::set_high_priority", "Config::from_env", "Worker::from_conf",
                            "Worker::start"}) => handlers
  /\ feed \/ thread["log"] = "running" \/ efsw = "callback" \/ efsw = "idle" => handlers
  /\ EveryEndIsAnnounced

LifeInv == InScope /\ Fed /\ Announced

\* Where a statement leads.
Goes(pc, throws) ==
  /\ main = pc /\ alive = AliveAt(pc)
  /\ failed' = throws
  /\ ~throws => main' = After(pc)
  /\ throws => main' = IF pc \in Building THEN "catch"
                      ELSE IF pc \in {"Worker::start", "App::from_env"} THEN "~Worker" ELSE "~trade"
  /\ UNCHANGED <<env, host, said, thread, stop, efsw, box_exception, thread_exception>>
LEMMA StatementGoes ==
  ASSUME InScope, NEW pc \in Building \cup Feeding \cup {"Worker::start"}, NEW throws,
         Statement(pc, throws)
  PROVE  Goes(pc, throws)
<1>1. main = pc /\ alive = AliveAt(pc)
  BY DEF Statement, InScope, Building, Feeding
<1>2. ASSUME throws
      PROVE  main' = IF pc \in Building THEN "catch"
                     ELSE IF pc \in {"Worker::start", "App::from_env"} THEN "~Worker" ELSE "~trade"
  <2>1. CASE pc \in Building
    <3>1. alive = {}
      BY <1>1, <2>1 DEF AliveAt, Building
    <3> QED BY <1>2, <2>1, <3>1 DEF Statement
  <2>2. CASE pc \in {"Worker::start", "App::from_env"}
    <3>1. alive = {"worker"} /\ pc \notin Building
      BY <1>1, <2>2 DEF AliveAt, Building
    <3> QED BY <1>2, <2>2, <3>1 DEF Statement
  <2>3. CASE pc \in Feeding \ {"App::from_env"}
    <3>1. alive = Objects /\ pc \notin Building
      BY <1>1, <2>3 DEF AliveAt, Building, Feeding
    <3>2. "app" \in alive /\ pc \notin {"Worker::start", "App::from_env"}
      BY <2>3, <3>1 DEF Objects, Feeding
    <3> QED BY <1>2, <3>1, <3>2 DEF Statement
  <2> QED BY <2>1, <2>2, <2>3
<1>3. ASSUME ~throws PROVE main' = After(pc)
  BY <1>3 DEF Statement
<1>4. failed' = throws
  BY DEF Statement
<1> QED BY <1>1, <1>2, <1>3, <1>4 DEF Goes, Statement, placeVars, threadVars

\* The rest of the block.
Leaves(pc, objects) ==
  /\ main = pc /\ alive = AliveAt(pc) /\ main' = After(pc)
  /\ alive' = AliveAt(pc) \ objects
  /\ UNCHANGED <<env, host, failed, configured, handlers, feed, thread_exception>>
LEMMA EndsLeaves ==
  ASSUME InScope, NEW pc \in {"~trade", "~cb", "~watcher", "~log", "~book", "~screen", "~Worker", "catch"},
         NEW objects, Ends(pc, objects)
  PROVE  Leaves(pc, objects)
BY DEF Leaves, Ends, InScope, placeVars

\* main crashes in the midst of things.
LEMMA CrashGoes ==
  ASSUME Crash, handlers
  PROVE  /\ main' = "crashed" /\ said' # {}
         /\ UNCHANGED <<env, host, failed, alive, configured, handlers, feed, thread, stop, efsw,
                       box_exception, thread_exception>>
BY DEF Crash, placeVars, threadVars

LEMMA LifeInit == Init => LifeInv
<1> SUFFICES ASSUME Init PROVE LifeInv
  OBVIOUS
<1>1. /\ main = "Logging::configure" /\ failed = FALSE /\ alive = {} /\ feed = FALSE
      /\ efsw = "none" /\ thread_exception = FALSE
  BY BlockIs DEF Init
<1>2. thread = [b \in {"book", "log", "trade"} |-> "none"]
  BY BoxesAre DEF Init
<1>3. thread \in [{"book", "log", "trade"} -> {"none", "running", "ended"}]
      /\ \A b \in {"book", "log", "trade"} : thread[b] = "none"
  BY <1>2
<1>4. InScope
  BY <1>1, <1>3 DEF InScope, Places, Building, AliveAt, Pollers
<1>5. Fed
  BY <1>1 DEF Fed, Building, FeedEndsBeforeItsQueues
<1>6. Announced
  BY <1>1, <1>3 DEF Announced, Feeding, EveryEndIsAnnounced
<1> QED BY <1>4, <1>5, <1>6 DEF LifeInv


LEMMA LifeStep == LifeInv /\ [Next]_vars => LifeInv'
<1> SUFFICES ASSUME LifeInv, [Next]_vars PROVE LifeInv'
  OBVIOUS
<1> USE DEF LifeInv, InScope, Fed, Announced, FeedEndsBeforeItsQueues,
            EveryEndIsAnnounced, Pollers, Places, Building, Feeding
<1>1. CASE configure
  <2>1. Goes("Logging::configure", configure_throws(env))
    BY <1>1, StatementGoes DEF configure
  <2> QED BY <1>1, <2>1, AfterIs DEF Goes, configure, AliveAt, Objects
<1>2. CASE configure_handlers
  <2>1. Goes("Crash::configure_handlers", FALSE)
    BY <1>2, StatementGoes DEF configure_handlers
  <2> QED BY <1>2, <2>1, AfterIs DEF Goes, configure_handlers, AliveAt, Objects
<1>3. CASE set_high_priority
  <2>1. Goes("Process::set_high_priority", set_high_priority_throws(host))
    BY <1>3, StatementGoes DEF set_high_priority
  <2> QED BY <1>3, <2>1, AfterIs DEF Goes, set_high_priority, AliveAt, Objects
<1>4. CASE read_environment
  <2>1. Goes("Config::from_env", from_env_throws(env))
    BY <1>4, StatementGoes DEF read_environment
  <2> QED BY <1>4, <2>1, AfterIs DEF Goes, read_environment, AliveAt, Objects
<1>5. CASE from_conf
  <2> PICK throws \in BOOLEAN : Statement("Worker::from_conf", throws)
    BY <1>5 DEF from_conf
  <2>1. Goes("Worker::from_conf", throws)
    BY StatementGoes
  <2> QED BY <1>5, <2>1, AfterIs DEF Goes, from_conf, AliveAt, Objects
<1>6. CASE StartFeed
  <2> PICK throws \in BOOLEAN : Statement("Worker::start", throws)
    BY <1>6 DEF StartFeed
  <2>1. Goes("Worker::start", throws)
    BY StatementGoes
  <2> QED BY <1>6, <2>1, AfterIs DEF Goes, StartFeed, AliveAt, Objects
<1>7. CASE BuildApp
  <2>1. Goes("App::from_env", LogBox_throws(env))
    BY <1>7, StatementGoes DEF BuildApp
  <2> QED BY <1>7, <2>1, AfterIs, BoxesAre DEF Goes, BuildApp, AliveAt, Objects, LogBox_throws, configure_throws
<1>8. CASE LoopReturns
  <2>1. Goes("App::start", FALSE)
    BY <1>8, StatementGoes DEF LoopReturns
  <2> QED BY <1>8, <2>1, AfterIs DEF Goes, LoopReturns, AliveAt, Objects
<1>9. CASE CheckException
  <2>1. Goes("rethrow_exception", thread_exception)
    BY <1>9, StatementGoes DEF CheckException
  <2> QED BY <1>9, <2>1, AfterIs DEF Goes, CheckException, AliveAt, Objects
<1>10. CASE StopFeed
  <2>1. Goes("Worker::stop", FALSE)
    BY <1>10, StatementGoes DEF StopFeed
  <2> QED BY <1>10, <2>1, AfterIs DEF Goes, StopFeed, AliveAt, Objects, FeedAfterStop
<1>11. CASE StartBox
  <2>1. /\ main = "App::start" /\ alive = Objects
        /\ \E b \in {"book", "log", "trade"} : thread' = [thread EXCEPT ![b] = "running"]
    BY <1>11, BoxesAre DEF StartBox, AliveAt, Range
  <2> HIDE DEF LifeInv, InScope, Fed, Announced, Places, Building
  <2>2. UNCHANGED <<env, main, failed, alive, handlers, said, feed, efsw, thread_exception>>
    BY <1>11 DEF StartBox, placeVars, logVars
  <2>3. thread' \in [{"book", "log", "trade"} -> {"none", "running", "ended"}]
    <3>1. thread \in [{"book", "log", "trade"} -> {"none", "running", "ended"}]
      BY DEF LifeInv, InScope
    <3> QED BY <2>1, <3>1
  <2>4. handlers /\ alive' = Objects /\ main' = "App::start"
    BY <2>1, <2>2 DEF LifeInv, Announced
  <2>5. InScope'
    <3>1. main' \in Places \cup {"crashed"} /\ alive' = AliveAt(main)'
      BY <2>1, <2>2 DEF LifeInv, InScope
    <3>2. /\ efsw' \in {"none", "idle", "callback", "ended"}
          /\ efsw' \in {"idle", "callback"} => {"log", "watcher", "screen"} \subseteq alive'
      BY <2>2 DEF LifeInv, InScope
    <3>3. /\ \A b \in Pollers : thread'[b] = "running" => {b, "screen", "worker"} \subseteq alive'
          /\ thread'["log"] = "running" => "log" \in alive'
      BY <2>2, <2>4 DEF LifeInv, InScope, Objects
    <3> QED BY <2>3, <3>1, <3>2, <3>3 DEF InScope
  <2>6. Fed'
    BY <2>2 DEF LifeInv, Fed
  <2>7. Announced'
    BY <2>2, <2>4 DEF LifeInv, Announced
  <2> QED BY <2>5, <2>6, <2>7 DEF LifeInv
<1>12. ASSUME NEW b \in Range(Boxes), RequestStop(b) PROVE LifeInv'
  BY <1>12 DEF RequestStop, placeVars, logVars
<1>13. ASSUME NEW b \in Range(Boxes), Destroy(b) PROVE LifeInv'
  <2>1. thread[b] # "running" /\ Leaves(Destructor[b], {b}) /\ UNCHANGED <<said, thread, efsw>>
    BY <1>13, BoxesAre, EndsLeaves DEF Destroy, Joinable, Destructor, threadVars
  <2>2. CASE b = "book"
    BY <2>1, <2>2, AfterIs DEF Leaves, Destructor, AliveAt, Objects
  <2>3. CASE b = "log"
    BY <2>1, <2>3, AfterIs DEF Leaves, Destructor, AliveAt, Objects
  <2>4. CASE b = "trade"
    BY <2>1, <2>4, AfterIs DEF Leaves, Destructor, AliveAt, Objects
  <2> QED BY <2>2, <2>3, <2>4, BoxesAre
<1>14. CASE DestroyWatcher
  <2>1. Leaves("~watcher", {"watcher"}) /\ UNCHANGED <<said, thread>>
    BY <1>14, EndsLeaves DEF DestroyWatcher
  <2> QED BY <1>14, <2>1, AfterIs DEF DestroyWatcher, Leaves, AliveAt, Objects
<1>15. CASE DestroyCallback
  <2>1. Leaves("~cb", {"cb"}) /\ UNCHANGED <<said, thread, efsw>>
    BY <1>15, EndsLeaves DEF DestroyCallback, threadVars
  <2> QED BY <2>1, AfterIs DEF Leaves, AliveAt, Objects
<1>16. CASE DestroyScreen
  <2>1. Leaves("~screen", {"screen", "app"}) /\ UNCHANGED <<said, thread, efsw>>
    BY <1>16, EndsLeaves DEF DestroyScreen, threadVars
  <2> QED BY <2>1, AfterIs DEF Leaves, AliveAt, Objects
<1>17. CASE DestroyWorker
  <2>1. Leaves("~Worker", {"worker"}) /\ UNCHANGED <<said, thread, efsw>>
    BY <1>17, EndsLeaves DEF DestroyWorker, threadVars
  <2> QED BY <2>1, AfterIs DEF Leaves, AliveAt, Objects
<1>18. CASE Return
  <2>1. Leaves("catch", {}) /\ UNCHANGED <<thread, efsw>>
    BY <1>18, EndsLeaves DEF Return, threadVars
  <2>2. "console" \in Sinks("critical")
    BY DEF Sinks
  <2>3. failed => said' # {}
    BY <1>18, <2>2 DEF Return
  <2> QED BY <2>1, <2>3, AfterIs DEF Leaves, AliveAt
<1>19. CASE main # "crashed" /\ Watch
  <2>1. /\ UNCHANGED <<env, main, failed, alive, handlers, said, feed, thread_exception>>
        /\ thread' = [thread EXCEPT !["log"] = "ended"]
        /\ efsw' = IF "watcher" \in alive THEN "idle" ELSE efsw
    BY <1>19 DEF Watch, KeepMain, placeVars, logVars
  <2>2. "watcher" \in alive /\ main # "crashed" => {"log", "watcher", "screen"} \subseteq alive
    BY DEF AliveAt, Objects
  <2>3. thread["log"] = "running" /\ efsw' \in {efsw, "idle"}
    BY <1>19, <2>1 DEF Watch
  <2>4. /\ thread' \in [{"book", "log", "trade"} -> {"none", "running", "ended"}]
        /\ thread'["log"] = "ended"
        /\ \A b \in Pollers : thread'[b] = thread[b]
    BY <2>1
  <2>5. efsw' \in {"idle", "callback"} => {"log", "watcher", "screen"} \subseteq alive'
    BY <1>19, <2>1, <2>2
  <2>6. InScope'
    BY <2>1, <2>3, <2>4, <2>5
  <2>7. Fed' /\ Announced'
    BY <2>1, <2>3, <2>4
  <2> QED BY <2>6, <2>7 DEF LifeInv
<1>20. CASE FileEvent \/ CallbackReturns
  <2>1. /\ UNCHANGED <<env, main, failed, alive, handlers, said, feed, thread, thread_exception>>
        /\ efsw \in {"idle", "callback"} /\ efsw' \in {"idle", "callback"}
    BY <1>20 DEF FileEvent, CallbackReturns, KeepMain, placeVars, logVars
  <2>2. InScope'
    BY <2>1
  <2>3. Fed' /\ Announced'
    BY <2>1
  <2> QED BY <2>2, <2>3 DEF LifeInv
<1>21. ASSUME NEW b \in Pollers, PollStops(b) \/ PollThrows(b) PROVE LifeInv'
  BY <1>21 DEF PollStops, PollThrows, KeepMain, placeVars, logVars
<1>22. CASE FeedCrashes \/ LateWatchCrashes \/ DeadCallbackCrashes \/ OutOfMemory
  <2>1. Crash /\ handlers
    BY <1>22 DEF FeedCrashes, LateWatchCrashes, DeadCallbackCrashes, OutOfMemory
  <2> QED BY <2>1, CrashGoes
<1>23. CASE UNCHANGED vars
  BY <1>23 DEF vars, placeVars, logVars, threadVars
<1> QED
  BY <1>1, <1>2, <1>3, <1>4, <1>5, <1>6, <1>7, <1>8, <1>9, <1>10, <1>11, <1>12, <1>13, <1>14,
     <1>15, <1>16, <1>17, <1>18, <1>19, <1>20, <1>21, <1>22, <1>23
  DEF Next, SetUp, MainLeaves

-----------------------------------------------------------------------------
LEMMA LifeHolds == Spec => []LifeInv
BY LifeInit, LifeStep, PTL DEF Spec

\* On every way out of main, those by an exception included, the pollers end
\* before the box, the screen and the queue that they have references to;
\* efsw's thread may be in a callback that is destroyed already, and the log's
\* jthread about to use a watcher that is, but all else that these two use dies
\* after they end.
THEOREM WatcherMembersAreOutlived == Spec => []OnlyWatcherMembersAreOutlived
<1>1. LifeInv => OnlyWatcherMembersAreOutlived
  <2> SUFFICES ASSUME LifeInv PROVE OnlyWatcherMembersAreOutlived
    OBVIOUS
  <2>1. /\ \A b \in {"book", "trade"} : thread[b] = "running" => {b, "screen", "worker"} \subseteq alive
        /\ thread["log"] = "running" => "log" \in alive
        /\ efsw = "callback" => {"log", "watcher", "screen"} \subseteq alive
    BY DEF LifeInv, InScope, Pollers
  <2>2. /\ \A b \in {"book", "log", "trade"} : b \in Busy => thread[b] = "running"
        /\ "efsw" \in Busy => efsw = "callback"
    BY BoxesAre DEF Busy
  <2>3. \A b \in {"book", "trade"} : Dangling(b) = {}
    BY <2>1, <2>2 DEF Dangling, Uses
  <2>4. Dangling("efsw") \subseteq {"cb"}
    BY <2>1, <2>2 DEF Dangling, Uses
  <2>5. Dangling("log") \subseteq {"watcher"}
    BY <2>1, <2>2 DEF Dangling, Uses
  <2> QED BY <2>3, <2>4, <2>5 DEF OnlyWatcherMembersAreOutlived, Pollers
<1> QED BY <1>1, LifeHolds, PTL

\* Worker::stop is skipped when App's constructor throws, and the Worker then
\* goes with its FIX threads running: a LOG_PATH without a slash is the only
\* value of any variable, on any host, that leads there.
THEOREM OnlyLogPathLeavesTheFeed == Spec => []FeedEndsBeforeItsQueues
<1>1. LifeInv => FeedEndsBeforeItsQueues
  BY DEF LifeInv, Fed
<1> QED BY <1>1, LifeHolds, PTL

\* A start-up that fails at any step, and a thread that crashes at any time,
\* have left a word on the console before the process is gone: the handlers are
\* installed before there is a thread, the logger's critical lines reach the
\* console configured or not.
THEOREM NoFailureIsSilent == Spec => []EveryEndIsAnnounced
<1>1. LifeInv => EveryEndIsAnnounced
  BY DEF LifeInv, Announced
<1> QED BY <1>1, LifeHolds, PTL
===============================================================================
