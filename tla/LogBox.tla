-------------------------------- MODULE LogBox --------------------------------
(***************************************************************************)
(* ui::LogBox and ui::LogFileWatcher (src/ui/log_box/): the log file grows *)
(* while efsw's thread reads what is new into the ring of the newest lines *)
(* and the FTXUI thread draws the ring.                                    *)
(*                                                                         *)
(* The file is lines 1, 2, 3, ... each ended by a newline, and what the    *)
(* sink has flushed of it ends anywhere: spdlog's file sink writes through *)
(* stdio, whose buffer does not stop at a newline.  A critical section of  *)
(* log_ring_mutex_ is one step here: it holds a copy or a few pushes.      *)
(***************************************************************************)
EXTENDS Integers, Sequences, SequencesExt

CONSTANTS
  NewLine,    \* the newline character
  MaxSize,    \* bound: pieces of text the sink writes, two to a line
  MAX_LINES   \* LogBox::MAX_LINES_
ASSUME LogAssumption ==
  MaxSize \in Nat /\ MAX_LINES \in Nat \ {0} /\ NewLine \notin 1..MaxSize

VARIABLES
  size,       \* pieces in the file
  pos,        \* the read position of file_
  eof,        \* file_.eof()
  modified,   \* a Modified event waits for efsw's thread
  watcher,    \* that thread: "off", "idle", "reading", "callback"
  lines,      \* the lines handleFileAction has read so far
  log_ring,   \* log_ring_, oldest line first
  read,       \* history: every line read before this event
  torn,       \* history: a read has ended within a line
  redraw,     \* a posted event waits in the screen's queue
  ui,         \* the main thread: "starting", "idle", "drawing"
  shown       \* the lines on the screen
fileVars == <<size, modified>>
ringVars == <<log_ring, read, redraw>>
uiVars   == <<ui, shown>>
vars == <<fileVars, pos, eof, watcher, lines, ringVars, torn, uiVars>>

\* The k-th piece of the file: the body of a line, then its newline.
Piece(k) == IF k % 2 = 1 THEN (k + 1) \div 2 ELSE NewLine
NewLines(from, to) == {k \in from..to : Piece(k) = NewLine}

\* The file is open and watched; it may hold lines from before.
Init ==
  /\ size \in 0..MaxSize /\ modified = FALSE
  /\ pos = 0 /\ eof = FALSE
  /\ watcher = "off" /\ lines = <<>>
  /\ log_ring = <<>> /\ read = <<>> /\ torn = FALSE
  /\ redraw = FALSE /\ ui = "starting" /\ shown = <<>>

\* The sink flushes, and the kernel reports it.
Write ==
  /\ size < MaxSize
  /\ size' \in (size + 1)..MaxSize
  /\ modified' = TRUE
  /\ UNCHANGED <<pos, eof, watcher, lines, ringVars, torn, uiVars>>

start ==
  /\ watcher = "off"
  /\ watcher' = "idle"
  /\ UNCHANGED <<fileVars, pos, eof, lines, ringVars, torn, uiVars>>

-----------------------------------------------------------------------------
(* efsw's thread: handleFileAction for Actions::Modified.                  *)

\* Mutant: the file is read again from its start.
ReadFrom_start == 0
\* Reading goes on where it ended.
ReadFrom == pos
handleFileAction ==
  /\ watcher = "idle" /\ modified
  /\ modified' = FALSE
  /\ watcher' = "reading"
  /\ lines' = <<>> /\ pos' = ReadFrom
  /\ UNCHANGED <<size, eof, ringVars, torn, uiVars>>

\* std::getline gives the text up to the next newline and skips that, or up to
\* the end of the file, and notes that it was the end.
LineEnd == IF NewLines(pos + 1, size) = {} THEN size + 1
           ELSE CHOOSE k \in NewLines(pos + 1, size) : \A l \in NewLines(pos + 1, size) : k <= l
GetLine ==
  /\ watcher = "reading" /\ ~eof /\ pos < size
  /\ lines' = Append(lines, [k \in 1..(LineEnd - pos - 1) |-> Piece(pos + k)])
  /\ pos' = IF LineEnd > size THEN size ELSE LineEnd
  /\ eof' = (LineEnd > size)
  /\ torn' = (torn \/ LineEnd > size)
  /\ UNCHANGED <<fileVars, watcher, ringVars, uiVars>>

\* Mutant: the stream stays at its end of file.
EofAfterRead_sticky == TRUE
\* file_.clear() lets getline go on later.
EofAfterRead == FALSE
EndRead ==
  /\ watcher = "reading" /\ (eof \/ pos = size)
  /\ eof' = EofAfterRead
  /\ watcher' = "callback"
  /\ UNCHANGED <<fileVars, pos, lines, ringVars, torn, uiVars>>

\* Mutant: a line too many.
Push_above(ring, line) == Append(IF Len(ring) > MAX_LINES THEN Tail(ring) ELSE ring, line)
Push(ring, line) == Append(IF Len(ring) >= MAX_LINES THEN Tail(ring) ELSE ring, line)

\* The ring after each of the lines.
Pushed(ring, new) ==
  LET after[k \in 0..Len(new)] == IF k = 0 THEN ring ELSE Push(after[k - 1], new[k])
  IN  after

\* Mutant: no event when nothing had to make room.
Posts_full == Len(log_ring) + Len(lines) > MAX_LINES
\* An event posted before the loop runs asks for nothing the loop does not do.
Posts == ui # "starting"
\* The callback: the ring takes the lines and the screen is told, under the lock.
on_log_lines ==
  /\ watcher = "callback"
  /\ log_ring' = Pushed(log_ring, lines)[Len(lines)]
  /\ read' = read \o lines /\ lines' = <<>>
  /\ redraw' = (redraw \/ Posts)
  /\ watcher' = "idle"
  /\ UNCHANGED <<fileVars, pos, eof, torn, uiVars>>

-----------------------------------------------------------------------------
(* The main thread, while the screen's loop runs.                          *)
StartLoop ==
  /\ ui = "starting" /\ watcher # "off"
  /\ ui' = "drawing"
  /\ UNCHANGED <<fileVars, pos, eof, watcher, lines, ringVars, torn, shown>>

BeginFrame ==
  /\ ui = "idle" /\ redraw
  /\ redraw' = FALSE
  /\ ui' = "drawing"
  /\ UNCHANGED <<fileVars, pos, eof, watcher, lines, log_ring, read, torn, shown>>

\* The renderer draws from its copy of the ring.
Draw ==
  /\ ui = "drawing"
  /\ shown' = log_ring
  /\ ui' = "idle"
  /\ UNCHANGED <<fileVars, pos, eof, watcher, lines, ringVars, torn>>

WatcherStep == handleFileAction \/ GetLine \/ EndRead \/ on_log_lines
UiStep == StartLoop \/ BeginFrame \/ Draw
Next == Write \/ start \/ WatcherStep \/ UiStep

Fairness == WF_vars(start) /\ WF_vars(WatcherStep) /\ WF_vars(UiStep)
Spec == Init /\ [][Next]_vars /\ Fairness

-----------------------------------------------------------------------------
\* Of the text before the read position every piece has been read once, and in
\* order: growth of the file during a read, a read that ends within a line and
\* the failures of getline at the end of the file lose and repeat nothing.
NothingLostOrRepeated ==
  FlattenSeq(read \o lines) = [k \in 1..((pos + 1) \div 2) |-> k]

\* Lines come through whole and one by one, unless a read has ended within one.
LinesAreWhole ==
  torn \/ read \o lines = [k \in 1..(pos \div 2) |-> <<k>>]

\* The ring is the newest lines read.
RingIsNewestLines ==
  log_ring = SubSeq(read, IF Len(read) > MAX_LINES THEN Len(read) - MAX_LINES + 1 ELSE 1, Len(read))

\* Text that has come since the first event never waits without one: either it
\* is being read, or another event will have it read.
UnreadTextIsAnnounced ==
  (pos > 0 /\ pos < size) => modified \/ watcher = "reading"

\* The newest lines are shown in the end, once the file has been written to.
TextReachesScreen ==
  \A k \in 1..MaxSize : (modified /\ size >= k) ~> (pos >= k /\ shown = log_ring)
=============================================================================
