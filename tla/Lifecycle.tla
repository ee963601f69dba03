------------------------------- MODULE Lifecycle -------------------------------
(***************************************************************************)
(* main (src/main.cpp), App (src/ui/app/ui_app.cpp) and binance::Worker    *)
(* (src/binance/worker.cpp): what is set up, built, started, stopped and   *)
(* destroyed in which order, and what becomes of an exception, on the main *)
(* thread, in the worker of a box or on the thread of a FIX session.       *)
(*                                                                         *)
(* Each box has a jthread.  The book's and the trades' poll a queue; the   *)
(* log's only has efsw start a thread of its own, and ends.                *)
(***************************************************************************)
EXTENDS Config, Host, SequencesExt

CONSTANTS
  Environments,  \* what the environment may hold, by variable
  Machines       \* the hosts to run on
ASSUME MachineAssumption == Machines \subseteq Hosts

VARIABLES
  env, host,  \* where the process runs
  main,       \* the statement main is at; "returned", or "crashed": no process
  failed,     \* main has thrown
  alive,      \* the objects whose lifetime has begun and not ended
  configured, \* the logger has its two sinks
  handlers,   \* those of Crash are installed
  said,       \* what the console has been told
  feed,       \* the FIX threads run
  thread,     \* of each box, its jthread: "none", "running", "ended"
  stop,       \* the boxes whose jthread has been asked to stop
  efsw,       \* efsw's thread: "none", "idle", "callback" (in on_log_lines), "ended"
  box_exception,    \* the boxes whose thread_exception is set
  thread_exception  \* App::thread_exception is set
placeVars  == <<env, host>>
logVars    == <<configured, handlers, said>>
threadVars == <<thread, stop, efsw, box_exception>>
vars == <<placeVars, main, failed, alive, logVars, feed, threadVars, thread_exception>>

Boxes == <<"book", "log", "trade">>   \* as App declares them
Pollers == {"book", "trade"}
\* The try block, then the way out of it: App's members from the last to the
\* first, and the Worker with its queues.  The last members of LogBox are those
\* of LogFileWatcher: the callback goes before the efsw::FileWatcher, and this
\* before the jthread.
Block == <<"Logging::configure", "Crash::configure_handlers", "Process::set_high_priority",
           "Config::from_env", "Worker::from_conf", "Worker::start", "App::from_env",
           "App::start", "rethrow_exception", "Worker::stop",
           "~trade", "~cb", "~watcher", "~log", "~book", "~screen", "~Worker", "catch", "returned">>
After(pc) == Block[SelectInSeq(Block, LAMBDA p : p = pc) + 1]
Destructor == [book |-> "~book", log |-> "~log", trade |-> "~trade"]

Init ==
  /\ env \in Environments /\ host \in Machines
  /\ main = Head(Block) /\ failed = FALSE /\ alive = {}
  /\ configured = FALSE /\ handlers = FALSE /\ said = {}
  /\ feed = FALSE
  /\ thread = [b \in Range(Boxes) |-> "none"]
  /\ stop = {} /\ efsw = "none"
  /\ box_exception = {} /\ thread_exception = FALSE

-----------------------------------------------------------------------------
(* The try block of main.  A throw destroys what has been built so far.    *)
Statement(pc, throws) ==
  /\ main = pc
  /\ failed' = throws
  /\ main' = CASE ~throws -> After(pc)
               [] throws /\ "app" \in alive -> "~trade"
               [] OTHER -> IF "worker" \in alive THEN "~Worker" ELSE "catch"
  /\ UNCHANGED <<placeVars, said, threadVars, thread_exception>>

configure ==
  /\ Statement("Logging::configure", configure_throws(env))
  /\ configured' = ~failed'
  /\ UNCHANGED <<alive, handlers, feed>>
configure_handlers ==
  /\ Statement("Crash::configure_handlers", FALSE)
  /\ handlers' = TRUE
  /\ UNCHANGED <<alive, configured, feed>>
set_high_priority ==
  /\ Statement("Process::set_high_priority", set_high_priority_throws(host))
  /\ UNCHANGED <<alive, configured, handlers, feed>>
read_environment ==
  /\ Statement("Config::from_env", from_env_throws(env))
  /\ UNCHANGED <<alive, configured, handlers, feed>>

\* The FIX settings, their files and the initiator may all refuse.
from_conf ==
  /\ \E throws \in BOOLEAN : Statement("Worker::from_conf", throws)
  /\ alive' = IF failed' THEN alive ELSE alive \cup {"worker"}
  /\ UNCHANGED <<configured, handlers, feed>>
\* The initiator's threads log on and fill the queues from here on.
StartFeed ==
  /\ \E throws \in BOOLEAN : Statement("Worker::start", throws)
  /\ feed' = ~failed'
  /\ UNCHANGED <<alive, configured, handlers>>

\* The sink has made the log file, so that opening and watching it succeed.
BuildApp ==
  /\ Statement("App::from_env", LogBox_throws(env))
  /\ alive' = IF failed' THEN alive
              ELSE alive \cup {"app", "screen", "cb", "watcher"} \cup Range(Boxes)
  /\ UNCHANGED <<configured, handlers, feed>>

\* The jthreads start one after the other, then the screen's loop.
StartBox ==
  /\ main = "App::start"
  /\ \E k \in DOMAIN Boxes :
       /\ thread[Boxes[k]] = "none"
       /\ \A l \in 1..(k - 1) : thread[Boxes[l]] # "none"
       /\ thread' = [thread EXCEPT ![Boxes[k]] = "running"]
  /\ UNCHANGED <<placeVars, main, failed, alive, logVars, feed, stop, efsw, box_exception,
                 thread_exception>>
LoopReturns ==
  /\ \A b \in Range(Boxes) : thread[b] # "none"
  /\ Statement("App::start", FALSE)
  /\ UNCHANGED <<alive, configured, handlers, feed>>

\* if (ui.thread_exception): nothing has set it.
CheckException ==
  /\ Statement("rethrow_exception", thread_exception)
  /\ UNCHANGED <<alive, configured, handlers, feed>>

\* Mutant: stop() does not wait for the threads.
FeedAfterStop_kept == feed
\* stop() returns when the FIX threads have ended.
FeedAfterStop == FALSE
StopFeed ==
  /\ Statement("Worker::stop", FALSE)
  /\ feed' = FeedAfterStop
  /\ UNCHANGED <<alive, configured, handlers>>

-----------------------------------------------------------------------------
(* The way out of the block.                                               *)
Ends(pc, objects) ==
  /\ main = pc /\ main' = After(pc)
  /\ alive' = alive \ objects
  /\ UNCHANGED <<placeVars, failed, configured, handlers, feed, thread_exception>>

\* ~jthread asks its thread to stop, and waits.
RequestStop(b) ==
  /\ main = Destructor[b] /\ b \notin stop
  /\ stop' = stop \cup {b}
  /\ UNCHANGED <<placeVars, main, failed, alive, logVars, feed, thread, efsw, box_exception,
                 thread_exception>>
\* Mutant: main does not wait for the thread.
Joinable_detached(b) == TRUE
Joinable(b) == thread[b] # "running"
Destroy(b) ==
  /\ b \in stop /\ Joinable(b)
  /\ Ends(Destructor[b], {b})
  /\ UNCHANGED <<said, threadVars>>

\* cb_, which efsw's thread may be in or about to call.
DestroyCallback == Ends("~cb", {"cb"}) /\ UNCHANGED <<said, threadVars>>
\* efsw's destructor waits for its thread to leave a callback.
DestroyWatcher ==
  /\ efsw # "callback"
  /\ Ends("~watcher", {"watcher"})
  /\ efsw' = IF efsw = "none" THEN "none" ELSE "ended"
  /\ UNCHANGED <<said, thread, stop, box_exception>>
DestroyScreen == Ends("~screen", {"screen", "app"}) /\ UNCHANGED <<said, threadVars>>
DestroyWorker == Ends("~Worker", {"worker"}) /\ UNCHANGED <<said, threadVars>>

\* Mutant: critical lines go where all the others go.
Sinks_file(level) == IF configured THEN {"file"} ELSE {"console"}
\* Until it is configured, spdlog's logger writes to the console.
Sinks(level) == CASE ~configured -> {"console"}
                  [] configured /\ level = "critical" -> {"file", "console"}
                  [] OTHER -> {"file"}
\* Both catch clauses log what was thrown, and main returns either way.
Return ==
  /\ Ends("catch", {})
  /\ said' = IF failed /\ "console" \in Sinks("critical") THEN said \cup {"critical"} ELSE said
  /\ UNCHANGED threadVars

MainLeaves ==
  \/ CheckException \/ StopFeed
  \/ \E b \in Range(Boxes) : RequestStop(b) \/ Destroy(b)
  \/ DestroyCallback \/ DestroyWatcher \/ DestroyScreen \/ DestroyWorker \/ Return

-----------------------------------------------------------------------------
(* The threads of the boxes.                                               *)
KeepMain == UNCHANGED <<placeVars, main, failed, alive, logVars, feed, thread_exception>>

\* poll_queue catches what is thrown, and ends.
PollThrows(b) ==
  /\ thread[b] = "running"
  /\ thread' = [thread EXCEPT ![b] = "ended"]
  /\ box_exception' = box_exception \cup {b}
  /\ KeepMain /\ UNCHANGED <<stop, efsw>>

\* Mutant: a worker that waits for a message before it looks at its token.
MayStop_deaf(b) == b \in stop /\ feed
MayStop(b) == b \in stop
PollStops(b) ==
  /\ thread[b] = "running" /\ MayStop(b)
  /\ thread' = [thread EXCEPT ![b] = "ended"]
  /\ KeepMain /\ UNCHANGED <<stop, efsw, box_exception>>

\* watcher_.watch() on the log's jthread.
Watch ==
  /\ thread["log"] = "running"
  /\ thread' = [thread EXCEPT !["log"] = "ended"]
  /\ efsw' = IF "watcher" \in alive THEN "idle" ELSE efsw
  /\ KeepMain /\ UNCHANGED <<stop, box_exception>>
FileEvent ==
  /\ efsw = "idle"
  /\ efsw' = "callback"
  /\ KeepMain /\ UNCHANGED <<thread, stop, box_exception>>
CallbackReturns ==
  /\ efsw = "callback"
  /\ efsw' = "idle"
  /\ KeepMain /\ UNCHANGED <<thread, stop, box_exception>>

-----------------------------------------------------------------------------
(* Crashes.  handle_terminate and handle_bad_alloc log an error, which goes *)
(* to the file, and abort; handle_signal writes to stderr and exits.       *)
Crash ==
  /\ main' = "crashed"
  /\ said' = IF handlers THEN said \cup {"signal"} ELSE said
  /\ UNCHANGED <<placeVars, failed, alive, configured, handlers, feed, threadVars,
                 thread_exception>>

\* toAdmin or onLogon throws on the thread of a session.
SessionThrows ==
  \/ get_seed_from_pem_throws(host) \/ set_thread_realtime_throws(host)
  \/ set_thread_cpu_throws(host, from_env(env).px_cpu)
  \/ set_thread_cpu_throws(host, from_env(env).tx_cpu)
FeedCrashes == feed /\ (SessionThrows \/ "worker" \notin alive) /\ Crash
\* When the log's jthread is so late that main has destroyed the watcher, the
\* call is undefined and may crash.
LateWatchCrashes == thread["log"] = "running" /\ "watcher" \notin alive /\ Crash
\* So is a call of the callback that is no more.
DeadCallbackCrashes == efsw = "callback" /\ "cb" \notin alive /\ Crash
OutOfMemory == handlers /\ Crash

SetUp == \/ configure \/ configure_handlers \/ set_high_priority \/ read_environment
         \/ from_conf \/ StartFeed \/ BuildApp \/ StartBox \/ LoopReturns
Next == /\ main \notin {"crashed", "returned"}
        /\ \/ SetUp \/ MainLeaves
           \/ Watch \/ FileEvent \/ CallbackReturns
           \/ \E b \in Pollers : PollStops(b) \/ PollThrows(b)
           \/ FeedCrashes \/ LateWatchCrashes \/ DeadCallbackCrashes \/ OutOfMemory

\* No thread is suspended for good; the loop may run for ever.  The watcher's
\* destructor takes its chance between two callbacks.
Running(A) == main \notin {"crashed", "returned"} /\ A
Fairness ==
  /\ SF_vars(Running(MainLeaves))
  /\ WF_vars(Running(Watch)) /\ WF_vars(Running(CallbackReturns))
  /\ \A b \in Pollers : WF_vars(Running(PollStops(b)))
Spec == Init /\ [][Next]_vars /\ Fairness

-----------------------------------------------------------------------------
\* What the thread of a box, or efsw's in a callback, has references to.
Uses == [book  |-> {"book", "screen", "worker"},
         trade |-> {"trade", "screen", "worker"},
         log   |-> {"log", "watcher"},
         efsw  |-> {"cb", "watcher", "log", "screen"}]
Busy == {b \in Range(Boxes) : thread[b] = "running"}
        \cup (IF efsw = "callback" THEN {"efsw"} ELSE {})
Dangling(t) == IF t \in Busy THEN Uses[t] \ alive ELSE {}
\* On any path out of main nothing dies before a thread that uses it, but for
\* two members of LogFileWatcher: cb_ goes before efsw's thread, and watcher_
\* before the jthread that may still have to call watch().  The rest of what
\* these two use is there until they end.
OnlyWatcherMembersAreOutlived ==
  /\ \A b \in Pollers : Dangling(b) = {}
  /\ Dangling("efsw") \subseteq {"cb"}
  /\ Dangling("log") \subseteq {"watcher"}

\* The FIX threads do not outlive the queues they fill, except for one setting
\* that main looks at too late: a LOG_PATH without a slash serves the logger,
\* and has App::from_env throw when the feed runs already.
FeedEndsBeforeItsQueues == feed /\ "worker" \notin alive => ~env["LOG_PATH"].slash

\* No failure passes in silence: whatever ends the process other than the user
\* leaves a word on the console, at every stage of logging and start-up.
EveryEndIsAnnounced ==
  main = "crashed" \/ (main = "returned" /\ failed) => said # {}

\* Once the loop has returned or main has thrown, the process ends, whatever
\* the workers are doing and whichever have died.
ProcessEnds ==
  (main = "rethrow_exception" \/ failed) ~> main \in {"returned", "crashed"}

\* "if any exceptions occurred", says ui_app.h of App::thread_exception, which
\* main rethrows: once a worker has failed, main does not carry on as usual.
WorkerFailureIsReported ==
  [][main = "rethrow_exception" /\ box_exception # {} => main' # "Worker::stop"]_vars
=============================================================================
