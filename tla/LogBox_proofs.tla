---------------------------- MODULE LogBox_proofs ----------------------------
(***************************************************************************)
(* Safety of LogBox for any size of the file and of the ring: no text of   *)
(* the log file is forgotten, lost or repeated, and the ring is the newest *)
(* lines.                                                                  *)
(***************************************************************************)
EXTENDS LogBox, Recursion, TLAPS

-----------------------------------------------------------------------------
(* Reading.                                                                *)
Positions == size \in 0..MaxSize /\ pos \in 0..size

\* getline stops at the next newline, or where it would come: the newlines are
\* the even pieces.
LEMMA NextLineEnd ==
  ASSUME Positions, pos < size
  PROVE  LineEnd = IF pos % 2 = 1 THEN pos + 1 ELSE pos + 2
<1> USE LogAssumption DEF Positions
<1> DEFINE next == IF pos % 2 = 1 THEN pos + 1 ELSE pos + 2
           least == CHOOSE k \in NewLines(pos + 1, size) : \A l \in NewLines(pos + 1, size) : k <= l
<1>0. size \in Nat /\ pos \in Nat /\ pos < size
  OBVIOUS
<1>1. \A k \in (pos + 1)..size : Piece(k) = NewLine <=> k % 2 = 0
  <2> SUFFICES ASSUME NEW k \in (pos + 1)..size PROVE Piece(k) = NewLine <=> k % 2 = 0
    OBVIOUS
  <2>1. CASE k % 2 = 1
    <3>1. Piece(k) \in 1..MaxSize
      BY <2>1 DEF Piece
    <3> QED BY <2>1, <3>1
  <2>2. CASE k % 2 # 1
    BY <2>2 DEF Piece
  <2> QED BY <2>1, <2>2
<1>2. \A k \in NewLines(pos + 1, size) : k \in (pos + 1)..size /\ next <= k
  BY <1>1 DEF NewLines
<1>3. CASE next <= size
  <2>1. next \in NewLines(pos + 1, size)
    <3>1. next \in (pos + 1)..size /\ next % 2 = 0
      BY <1>0, <1>3
    <3> QED BY <1>1, <3>1 DEF NewLines
  <2>2. least = next
    <3>1. least \in NewLines(pos + 1, size) /\ least <= next
      BY <1>2, <2>1
    <3>2. least \in (pos + 1)..size /\ next <= least
      BY <1>2, <3>1
    <3> HIDE DEF least
    <3> QED BY <1>0, <3>1, <3>2
  <2> QED BY <2>1, <2>2 DEF LineEnd
<1>4. CASE ~(next <= size)
  <2>1. NewLines(pos + 1, size) = {}
    BY <1>0, <1>2, <1>4
  <2>2. next = size + 1
    BY <1>0, <1>4
  <2> QED BY <2>1, <2>2 DEF LineEnd
<1> QED BY <1>3, <1>4

\* It goes forward, and not past what is there.
LEMMA LineEndIsAhead ==
  ASSUME Positions, pos < size
  PROVE  LineEnd \in (pos + 1)..(size + 1)
BY NextLineEnd, LogAssumption DEF Positions

-----------------------------------------------------------------------------
(* The end of the file is noted only during a read, and only with all of   *)
(* the file read: what has come since then has an event of its own.        *)
EndIsReached == eof => watcher = "reading" /\ (pos = size \/ modified)
IInv == /\ Positions /\ eof \in BOOLEAN /\ modified \in BOOLEAN
        /\ EndIsReached /\ UnreadTextIsAnnounced

LEMMA Initially == Init => IInv
<1> SUFFICES ASSUME Init PROVE IInv
  OBVIOUS
<1>1. Positions /\ pos = 0
  BY LogAssumption DEF Init, Positions
<1>2. eof \in BOOLEAN /\ modified \in BOOLEAN
  BY Zenon DEF Init
<1>3. EndIsReached
  BY Zenon DEF Init, EndIsReached
<1>4. UnreadTextIsAnnounced
  BY <1>1 DEF Positions, UnreadTextIsAnnounced
<1> QED BY <1>1, <1>2, <1>3, <1>4, Zenon DEF IInv

LEMMA Step == IInv /\ [Next]_vars => IInv'
<1> SUFFICES ASSUME IInv, [Next]_vars PROVE IInv'
  OBVIOUS
<1> USE LogAssumption
    DEF IInv, Positions, EndIsReached, UnreadTextIsAnnounced, fileVars, ringVars, uiVars
<1>1. CASE Write
  BY <1>1 DEF Write
<1>2. CASE start
  BY <1>2 DEF start
<1>3. CASE handleFileAction
  BY <1>3 DEF handleFileAction, ReadFrom
<1>4. CASE GetLine
  <2>1. pos' \in 0..size /\ (eof' => pos' = size) /\ eof' \in BOOLEAN
    BY <1>4, LineEndIsAhead DEF GetLine
  <2> QED BY <1>4, <2>1 DEF GetLine
<1>5. CASE EndRead
  <2>1. pos = size \/ modified
    BY <1>5 DEF EndRead
  <2>2. UNCHANGED <<size, pos, modified>>
    BY <1>5 DEF EndRead
  <2>3. ~eof' /\ eof' \in BOOLEAN
    BY <1>5, Zenon DEF EndRead, EofAfterRead
  <2> QED BY <2>1, <2>2, <2>3
<1>6. CASE on_log_lines
  BY <1>6 DEF on_log_lines
<1>7. CASE UiStep
  BY <1>7 DEF UiStep, StartLoop, BeginFrame, Draw
<1>8. CASE UNCHANGED vars
  BY <1>8 DEF vars
<1> QED
  BY <1>1, <1>2, <1>3, <1>4, <1>5, <1>6, <1>7, <1>8 DEF Next, WatcherStep

\* However the sink, the kernel's events and the reads interleave, text that
\* nobody is reading has an event that will have it read.
THEOREM NoTextIsForgotten == Spec => []UnreadTextIsAnnounced
<1>1. IInv => UnreadTextIsAnnounced
  BY DEF IInv
<1> QED
  BY <1>1, Initially, Step, PTL DEF Spec

-----------------------------------------------------------------------------
(***************************************************************************)
(* What has been read.  A line is at most one piece of text; between       *)
(* events there are no lines on the way to the ring, and as long as no     *)
(* read has ended within a line the read position is at the end of one.    *)
(***************************************************************************)
Line == Seq(Nat)
Contents == /\ read \in Seq(Line) /\ lines \in Seq(Line)
            /\ watcher \in {"off", "idle"} => lines = <<>>
            /\ ~torn => pos % 2 = 0
ReadInv == IInv /\ Contents /\ NothingLostOrRepeated /\ LinesAreWhole

\* The text getline gives, and where it leaves the read position.
Text == [k \in 1..(LineEnd - pos - 1) |-> Piece(pos + k)]
LEMMA TextRead ==
  ASSUME Positions, pos < size
  PROVE  /\ Text \in Line
         /\ Text = IF pos % 2 = 1 THEN <<>> ELSE <<pos \div 2 + 1>>
<1>0. pos \in Nat
  BY LogAssumption DEF Positions
<1>1. CASE pos % 2 = 1
  <2>1. LineEnd - pos - 1 = 0
    BY <1>0, <1>1, NextLineEnd
  <2>2. Text = <<>>
    BY <2>1 DEF Text
  <2> QED BY <1>1, <2>2 DEF Line
<1>2. CASE pos % 2 # 1
  <2>1. LineEnd - pos - 1 = 1
    BY <1>0, <1>2, NextLineEnd
  <2>2. Piece(pos + 1) = pos \div 2 + 1 /\ pos \div 2 + 1 \in Nat
    <3>1. (pos + 1) % 2 = 1 /\ ((pos + 1) + 1) \div 2 = pos \div 2 + 1 /\ pos \div 2 + 1 \in Nat
      BY <1>0, <1>2
    <3> QED BY <3>1 DEF Piece
  <2>3. Text = [k \in 1..1 |-> Piece(pos + k)]
    BY <2>1 DEF Text
  <2>4. \A k \in 1..1 : Piece(pos + k) = pos \div 2 + 1
    BY <2>2
  <2>5. Text = [k \in 1..1 |-> pos \div 2 + 1]
    BY <2>3, <2>4
  <2>6. Text = <<pos \div 2 + 1>>
    BY <2>5
  <2> QED BY <1>2, <2>2, <2>6 DEF Line
<1> QED BY <1>1, <1>2

\* The numbers up to one more.
LEMMA CountingOn ==
  ASSUME NEW n \in Nat
  PROVE  [k \in 1..n |-> k] \o <<n + 1>> = [k \in 1..(n + 1) |-> k]
OBVIOUS
LEMMA LinesOn ==
  ASSUME NEW n \in Nat
  PROVE  Append([k \in 1..n |-> <<k>>], <<n + 1>>) = [k \in 1..(n + 1) |-> <<k>>]
OBVIOUS

LEMMA ReadInit == Init => ReadInv
<1> SUFFICES ASSUME Init PROVE ReadInv
  OBVIOUS
<1>1. read = <<>> /\ lines = <<>> /\ pos = 0
  BY DEF Init
<1>2. read \o lines = <<>> /\ FlattenSeq(<<>>) = <<>>
  BY <1>1 DEF FlattenSeq
<1>3. [k \in 1..((0 + 1) \div 2) |-> k] = <<>> /\ [k \in 1..(0 \div 2) |-> <<k>>] = <<>>
  OBVIOUS
<1>4. Contents
  BY <1>1, EmptySeq DEF Contents
<1> QED BY <1>1, <1>2, <1>3, <1>4, Initially DEF ReadInv, NothingLostOrRepeated, LinesAreWhole

LEMMA ReadStep == ReadInv /\ [Next]_vars => ReadInv'
<1> SUFFICES ASSUME ReadInv, [Next]_vars PROVE Contents' /\ NothingLostOrRepeated' /\ LinesAreWhole'
  BY Step DEF ReadInv
<1> DEFINE all == read \o lines
<1>0. /\ read \in Seq(Line) /\ lines \in Seq(Line) /\ all \in Seq(Line)
      /\ Positions /\ pos \in Nat
      /\ FlattenSeq(all) = [k \in 1..((pos + 1) \div 2) |-> k]
      /\ torn \/ all = [k \in 1..(pos \div 2) |-> <<k>>]
  <2>1. all \in Seq(Line)
    BY ConcatProperties DEF ReadInv, Contents
  <2>2. Positions /\ pos \in Nat
    BY LogAssumption DEF ReadInv, IInv, Positions
  <2> QED BY <2>1, <2>2 DEF ReadInv, Contents, NothingLostOrRepeated, LinesAreWhole
<1>1. ASSUME UNCHANGED <<read, lines, pos, torn>>, watcher' \in {"off", "idle"} => lines = <<>>
      PROVE  Contents' /\ NothingLostOrRepeated' /\ LinesAreWhole'
  BY <1>1 DEF ReadInv, Contents, NothingLostOrRepeated, LinesAreWhole
<1>2. CASE Write
  BY <1>1, <1>2 DEF Write, ringVars, ReadInv, Contents
<1>3. CASE start
  BY <1>1, <1>3 DEF start, ringVars, ReadInv, Contents
<1>4. CASE handleFileAction
  <2>1. lines = <<>> /\ lines' = lines
    BY <1>4 DEF handleFileAction, ReadInv, Contents
  <2> QED BY <1>1, <1>4, <2>1 DEF handleFileAction, ReadFrom, ringVars
<1>5. CASE GetLine
  <2>1. /\ pos < size /\ lines' = Append(lines, Text) /\ read' = read
        /\ pos' = IF LineEnd > size THEN size ELSE LineEnd
        /\ torn' = (torn \/ LineEnd > size) /\ watcher = "reading" /\ watcher' = watcher
    BY <1>5 DEF GetLine, Text, ringVars
  <2>2. Text \in Line /\ Text = IF pos % 2 = 1 THEN <<>> ELSE <<pos \div 2 + 1>>
    BY <1>0, <2>1, TextRead
  <2>3. size \in Nat /\ LineEnd = IF pos % 2 = 1 THEN pos + 1 ELSE pos + 2
    BY <1>0, <2>1, NextLineEnd, LogAssumption DEF Positions
  <2>4. lines' \in Seq(Line) /\ read' \o lines' = Append(all, Text)
    BY <1>0, <2>1, <2>2, AppendProperties
  <2>5. FlattenSeq(read' \o lines') = FlattenSeq(all) \o Text
    <3>1. FlattenSeq(Append(all, Text)) = FlattenSeq(all) \o Text
      <4>1. all \in Seq(Seq(Nat)) /\ Text \in Seq(Nat)
        BY <1>0, <2>2 DEF Line
      <4> HIDE DEF all
      <4> QED BY <4>1, FlattenAppend
    <3> QED BY <2>4, <3>1
  <2>6. NothingLostOrRepeated'
    <3>1. CASE pos % 2 = 1
      <4>1. pos' = pos + 1 /\ (pos' + 1) \div 2 = (pos + 1) \div 2
        BY <1>0, <2>1, <2>3, <3>1
      <4>2. FlattenSeq(all) \o Text = FlattenSeq(all)
        BY <1>0, <2>2, <3>1
      <4> QED BY <1>0, <2>5, <4>1, <4>2 DEF NothingLostOrRepeated
    <3>2. CASE pos % 2 # 1
      <4>1. /\ (pos' + 1) \div 2 = pos \div 2 + 1 /\ (pos + 1) \div 2 = pos \div 2
            /\ pos \div 2 \in Nat
        BY <1>0, <2>1, <2>3, <3>2
      <4>2. [k \in 1..(pos \div 2) |-> k] \o <<pos \div 2 + 1>> = [k \in 1..(pos \div 2 + 1) |-> k]
        BY <4>1, CountingOn
      <4> QED BY <1>0, <2>2, <2>5, <3>2, <4>1, <4>2 DEF NothingLostOrRepeated
    <3> QED BY <3>1, <3>2
  <2>7. LinesAreWhole' /\ (~torn' => pos' % 2 = 0)
    <3> SUFFICES ASSUME ~torn'
                 PROVE  /\ read' \o lines' = [k \in 1..(pos' \div 2) |-> <<k>>]
                        /\ pos' % 2 = 0
      BY DEF LinesAreWhole
    <3>1. ~torn /\ ~(LineEnd > size) /\ pos % 2 = 0
      BY <2>1 DEF ReadInv, Contents
    <3>2. pos' = pos + 2 /\ pos' \div 2 = pos \div 2 + 1 /\ pos' % 2 = 0 /\ pos \div 2 \in Nat
      BY <1>0, <2>1, <2>3, <3>1
    <3>3. all = [k \in 1..(pos \div 2) |-> <<k>>] /\ Text = <<pos \div 2 + 1>>
      BY <1>0, <2>2, <3>1
    <3> HIDE DEF all
    <3>4. Append([k \in 1..(pos \div 2) |-> <<k>>], <<pos \div 2 + 1>>) = [k \in 1..(pos \div 2 + 1) |-> <<k>>]
      BY <3>2, LinesOn
    <3> QED BY <2>4, <3>2, <3>3, <3>4
  <2> QED BY <1>0, <2>1, <2>4, <2>6, <2>7 DEF Contents
<1>6. CASE EndRead
  BY <1>1, <1>6 DEF EndRead, ringVars
<1>7. CASE on_log_lines
  <2>1. read' = all /\ lines' = <<>> /\ pos' = pos /\ torn' = torn
    BY <1>7 DEF on_log_lines
  <2>2. read' \o lines' = all
    BY <1>0, <2>1
  <2>3. Contents'
    BY <1>0, <2>1, EmptySeq DEF ReadInv, Contents
  <2> HIDE DEF all
  <2> QED BY <1>0, <2>1, <2>2, <2>3 DEF NothingLostOrRepeated, LinesAreWhole
<1>8. CASE UiStep
  BY <1>1, <1>8 DEF UiStep, StartLoop, BeginFrame, Draw, ringVars, ReadInv, Contents
<1>9. CASE UNCHANGED vars
  BY <1>1, <1>9 DEF vars, ringVars, ReadInv, Contents
<1> QED BY <1>2, <1>3, <1>4, <1>5, <1>6, <1>7, <1>8, <1>9 DEF Next, WatcherStep

\* However the file grows while it is read, and wherever the sink's portions
\* end, every piece of text is read exactly once and in order.
THEOREM TextIsReadOnce == Spec => []NothingLostOrRepeated
<1>1. ReadInv => NothingLostOrRepeated
  BY DEF ReadInv
<1> QED BY <1>1, ReadInit, ReadStep, PTL DEF Spec

\* A line is torn or merged only if a read has ended within one.
THEOREM LinesStayWhole == Spec => []LinesAreWhole
<1>1. ReadInv => LinesAreWhole
  BY DEF ReadInv
<1> QED BY <1>1, ReadInit, ReadStep, PTL DEF Spec

-----------------------------------------------------------------------------
(* The ring.                                                               *)

\* Pushing lines one by one on the newest of those before them gives the
\* newest of all.
LEMMA PushedAreNewest ==
  ASSUME NEW T, NEW s \in Seq(T), NEW new \in Seq(T), NEW ring, ring = Newest(s, MAX_LINES)
  PROVE  Pushed(ring, new)[Len(new)] = Newest(s \o new, MAX_LINES)
<1> DEFINE n == Len(new)
           Upto == [k \in Nat |-> s \o SubSeq(new, 1, k)]
           Goes(f) == [k \in 0..n |-> IF k = 0 THEN ring ELSE Push(f[k - 1], new[k])]
           h == [k \in 0..n |-> Newest(Upto[k], MAX_LINES)]
<1>0. n \in Nat /\ \A k \in 1..n : new[k] \in T
  BY LenProperties, ElementOfSeq
<1>1. Upto[0] = s /\ Upto[n] = s \o new
  <2>1. SubSeq(new, 1, 0) = <<>>
    BY SubSeqEmpty
  <2>2. SubSeq(new, 1, n) = new
    BY SubSeqFull
  <2>3. s \o <<>> = s
    OBVIOUS
  <2> QED BY <1>0, <2>1, <2>2, <2>3
<1>2. ASSUME NEW k \in 1..n
      PROVE  Upto[k] = Append(Upto[k - 1], new[k]) /\ Upto[k - 1] \in Seq(T)
  <2>1. k \in Nat /\ k - 1 \in Nat /\ 1 \in 1..n /\ k \in 1..n
    BY <1>0
  <2>2. SubSeq(new, 1, k) = SubSeq(new, 1, k - 1) \o <<new[k]>>
    BY <2>1, SubSeqRecursiveSecond
  <2> DEFINE part == SubSeq(new, 1, k - 1)
  <2>3. part \in Seq(T)
    <3>1. \A i \in 1..(k - 1) : new[i] \in T
      BY <1>0
    <3> QED BY <2>1, <3>1, SubSeqProperties
  <2> HIDE DEF part
  <2>4. s \o (part \o <<new[k]>>) = Append(s \o part, new[k]) /\ s \o part \in Seq(T)
    BY <1>0, <2>3
  <2> QED BY <2>1, <2>2, <2>4 DEF part
<1> HIDE DEF Upto, n
<1>3. h = Goes(h)
  <2>1. ASSUME NEW k \in 0..n PROVE h[k] = IF k = 0 THEN ring ELSE Push(h[k - 1], new[k])
    <3>1. CASE k = 0
      BY <1>0, <1>1, <3>1
    <3>2. CASE k # 0
      <4>1. k \in 1..n /\ k - 1 \in 0..n
        BY <1>0, <3>2
      <4>2. Upto[k] = Append(Upto[k - 1], new[k]) /\ Upto[k - 1] \in Seq(T) /\ new[k] \in T
        BY <1>0, <1>2, <4>1
      <4> DEFINE old == Newest(Upto[k - 1], MAX_LINES)
                 u == Upto[k - 1]
                 y == new[k]
      <4>3. /\ old \in Seq(T)
            /\ Newest(Append(Upto[k - 1], new[k]), MAX_LINES)
                 = Append(IF Len(old) < MAX_LINES THEN old ELSE Tail(old), new[k])
        <5>1. u \in Seq(T) /\ y \in T /\ MAX_LINES \in Nat \ {0}
          BY <4>2, LogAssumption
        <5>2. old = Newest(u, MAX_LINES)
          OBVIOUS
        <5> HIDE DEF u, y, old
        <5>3. /\ Newest(u, MAX_LINES) \in Seq(T)
              /\ Newest(Append(u, y), MAX_LINES)
                   = Append(IF Len(Newest(u, MAX_LINES)) < MAX_LINES
                            THEN Newest(u, MAX_LINES) ELSE Tail(Newest(u, MAX_LINES)), y)
          BY <5>1, NewestAppend
        <5> QED BY <5>2, <5>3 DEF u, y
      <4>4. h[k] = Newest(Upto[k], MAX_LINES) /\ h[k - 1] = old
        BY <4>1
      <4> HIDE DEF old, h
      <4>5. Len(old) \in Nat /\ MAX_LINES \in Nat
        BY <4>3, LenProperties, LogAssumption
      <4> QED BY <3>2, <4>2, <4>3, <4>4, <4>5 DEF Push
    <3> QED BY <3>1, <3>2
  <2> QED BY <2>1
<1>4. Pushed(ring, new) = CHOOSE f : f = Goes(f)
  BY DEF Pushed, n
<1> DEFINE f == Pushed(ring, new)
<1> HIDE DEF f, h
<1>5. f = Goes(f)
  BY <1>3, <1>4 DEF f
<1> DEFINE S == {k \in Nat : k <= n => f[k] = h[k]}
<1>6. Nat \subseteq S
  <2>1. 0 \in S
    <3>1. 0 \in 0..n
      BY <1>0
    <3> QED BY <1>3, <1>5, <3>1
  <2>2. ASSUME NEW k \in Nat, k \in S PROVE k + 1 \in S
    <3>1. CASE k + 1 <= n
      <4>1. k + 1 \in 0..n /\ k + 1 # 0 /\ (k + 1) - 1 = k
        BY <1>0, <3>1
      <4>2. f[k + 1] = Push(f[k], new[k + 1]) /\ h[k + 1] = Push(h[k], new[k + 1])
        BY <1>3, <1>5, <4>1
      <4> QED BY <1>0, <2>2, <3>1, <4>2
    <3>2. CASE ~(k + 1 <= n)
      BY <3>2
    <3> QED BY <3>1, <3>2
  <2> HIDE DEF S
  <2> QED BY <2>1, <2>2, Induction
<1>7. f[n] = h[n]
  BY <1>0, <1>6
<1>8. h[n] = Newest(Upto[n], MAX_LINES)
  <2>1. n \in 0..n
    BY <1>0
  <2> QED BY <2>1 DEF h
<1> QED BY <1>1, <1>7, <1>8 DEF f, n

LEMMA RingStep == ReadInv /\ RingIsNewestLines /\ [Next]_vars => RingIsNewestLines'
<1> SUFFICES ASSUME ReadInv, RingIsNewestLines, [Next]_vars PROVE RingIsNewestLines'
  OBVIOUS
<1>1. CASE on_log_lines
  <2>1. read \in Seq(Line) /\ lines \in Seq(Line)
    BY DEF ReadInv, Contents
  <2>2. log_ring = Newest(read, MAX_LINES)
    BY DEF RingIsNewestLines, Newest
  <2>3. Pushed(log_ring, lines)[Len(lines)] = Newest(read \o lines, MAX_LINES)
    BY <2>1, <2>2, PushedAreNewest
  <2> QED BY <1>1, <2>3 DEF on_log_lines, RingIsNewestLines, Newest
<1>2. CASE ~on_log_lines
  <2>1. log_ring' = log_ring /\ read' = read
    BY <1>2 DEF Next, WatcherStep, UiStep, Write, start, handleFileAction, GetLine, EndRead,
                StartLoop, BeginFrame, Draw, ringVars, vars
  <2> QED BY <2>1 DEF RingIsNewestLines
<1> QED BY <1>1, <1>2

\* The ring is the newest lines read, however many come at once.
THEOREM RingHoldsNewestLines == Spec => []RingIsNewestLines
<1>1. Init => RingIsNewestLines
  <2>1. Len(<<>>) = 0 /\ ~(0 > MAX_LINES)
    BY LogAssumption
  <2>2. SubSeq(<<>>, 1, 0) = <<>>
    BY SubSeqEmpty
  <2> QED BY <2>1, <2>2 DEF Init, RingIsNewestLines
<1> QED BY <1>1, ReadInit, ReadStep, RingStep, PTL DEF Spec
=============================================================================
