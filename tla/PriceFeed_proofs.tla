--------------------------- MODULE PriceFeed_proofs ---------------------------
(***************************************************************************)
(* The price path, for every market, depth, list of instruments and number *)
(* of connections: messages of the feed never throw, a new subscription    *)
(* brings the book back in step, and the book is never crossed on the way. *)
(***************************************************************************)
EXTENDS PriceFeed, OrderBook_proofs, FiniteSetTheorems, TLAPS

-----------------------------------------------------------------------------
(* Sequences made of sets and of other sequences.                          *)

\* A finite set is listed without repetition and without loss.
Lists(f, S) == /\ f \in Seq(S)
               /\ \A x \in S : \E k \in DOMAIN f : f[k] = x
               /\ IsInjective(f)
LEMMA SetToSeqLists ==
  ASSUME NEW S, IsFiniteSet(S)
  PROVE  Lists(SetToSeq(S), S)
<1> DEFINE n == Cardinality(S)
           f == SetToSeq(S)
<1>1. n \in Nat /\ ExistsBijection(1..n, S)
  BY FS_CardinalityType
<1> HIDE DEF n
<1>2. PICK g \in [1..n -> S] : IsInjective(g)
  BY <1>1 DEF ExistsBijection, Bijection, Injection
<1>3. f = CHOOSE h \in [1..n -> S] : IsInjective(h)
  BY DEF SetToSeq, n
<1> HIDE DEF f
<1>4. f \in [1..n -> S] /\ IsInjective(f)
  BY <1>2, <1>3
<1>5. f \in Injection(1..n, S)
  BY <1>4 DEF Injection
<1>6. Cardinality(1..n) = Cardinality(S)
  BY <1>1, FS_Interval DEF n
<1>7. f \in Surjection(1..n, S)
  BY <1>5, <1>6, FS_Injection
<1>8. \A x \in S : \E k \in DOMAIN f : f[k] = x
  BY <1>7 DEF Surjection
<1>9. f \in Seq(S)
  BY <1>1, <1>4
<1> QED BY <1>4, <1>8, <1>9 DEF Lists, f

\* The head of one sequence moved behind another one.
LEMMA HeadMoves ==
  ASSUME NEW T, NEW s \in Seq(T), NEW t \in Seq(T), t # <<>>
  PROVE  Append(s, Head(t)) \o Tail(t) = s \o t
OBVIOUS

-----------------------------------------------------------------------------
(* Replaying messages on a book.                                           *)

\* The replay exists, that is, follows its recursive definition.
LEMMA ReplayDef ==
  ASSUME NEW b \in BookType, NEW ms \in Seq(MessageType), NEW clear \in BOOLEAN
  PROVE  /\ Replay(b, ms, clear) \in [0..Len(ms) -> BookType]
         /\ Replay(b, ms, clear)[0] = b
         /\ \A k \in 1..Len(ms) : Replay(b, ms, clear)[k] =
              Apply(Replay(b, ms, clear)[k - 1], ms[k], clear).book
<1> DEFINE n == Len(ms)
           Goes(f) == [k \in 0..n |-> IF k = 0 THEN b ELSE Apply(f[k - 1], ms[k], clear).book]
           D == [k \in Nat |-> [x \in BookType |->
                  IF k + 1 \in 1..n THEN Apply(x, ms[k + 1], clear).book ELSE x]]
<1>0. n \in Nat /\ \A k \in 1..n : ms[k] \in MessageType
  BY LenProperties, ElementOfSeq
<1> HIDE DEF D, n
<1>1. D \in [Nat -> [BookType -> BookType]]
  <2>1. ASSUME NEW k \in Nat, NEW x \in BookType
        PROVE  (IF k + 1 \in 1..n THEN Apply(x, ms[k + 1], clear).book ELSE x) \in BookType
    <3>1. CASE k + 1 \in 1..n
      BY <1>0, <3>1, ApplyType DEF ProgressType
    <3>2. CASE k + 1 \notin 1..n
      BY <3>2
    <3> QED BY <3>1, <3>2
  <2> QED BY <2>1 DEF D
<1>2. PICK f : Run(f, BookType, b, D)
  BY <1>1, Recursion
<1> DEFINE g == [k \in 0..n |-> f[k]]
<1>3. g = Goes(g)
  <2>1. ASSUME NEW k \in 0..n PROVE g[k] = Goes(g)[k]
    <3>1. CASE k = 0
      BY <1>2, <3>1 DEF Run
    <3>2. CASE k # 0
      <4>1. k - 1 \in Nat /\ k - 1 \in 0..n /\ k = (k - 1) + 1 /\ k \in 1..n
        BY <1>0, <3>2
      <4>2. f[k] = D[k - 1][f[k - 1]] /\ f[k - 1] \in BookType
        BY <1>2, <4>1 DEF Run
      <4>3. f[k] = Apply(f[k - 1], ms[k], clear).book
        BY <4>1, <4>2 DEF D
      <4> QED BY <3>2, <4>1, <4>3
    <3> QED BY <3>1, <3>2
  <2> QED BY <2>1
<1>4. Replay(b, ms, clear) = CHOOSE h : h = Goes(h)
  BY DEF Replay, n
<1> DEFINE r == Replay(b, ms, clear)
<1> HIDE DEF r, g
<1>5. r = Goes(r)
  BY <1>3, <1>4 DEF r
<1>6. /\ r[0] = b
      /\ \A k \in 1..n : r[k] = Apply(r[k - 1], ms[k], clear).book
  <2>1. 0 \in 0..n /\ \A k \in 1..n : k \in 0..n /\ k # 0
    BY <1>0
  <2> QED BY <1>5, <2>1
<1> DEFINE S == {k \in Nat : k <= n => r[k] \in BookType}
<1>7. Nat \subseteq S
  <2>1. 0 \in S
    BY <1>6
  <2>2. ASSUME NEW k \in Nat, k \in S PROVE k + 1 \in S
    <3>1. CASE k + 1 <= n
      <4>1. r[k + 1] = Apply(r[k], ms[k + 1], clear).book
        BY <1>0, <1>6, <3>1
      <4> QED BY <1>0, <2>2, <3>1, <4>1, ApplyType DEF ProgressType
    <3>2. CASE ~(k + 1 <= n)
      BY <3>2
    <3> QED BY <3>1, <3>2
  <2> HIDE DEF S
  <2> QED BY <2>1, <2>2, Induction
<1>8. r \in [0..n -> BookType]
  BY <1>0, <1>5, <1>7
<1> QED BY <1>6, <1>8 DEF r, n

\* The messages of ms1 behind the i-th, up to the n-th, are those of ms2 that
\* are d places further back.
SameMessages(ms1, ms2, i, n, d) == \A k \in (i + 1)..n : ms1[k] = ms2[k + d]
\* Two replays agree from the i-th message on, up to the n-th.
SameBooks(r1, r2, i, n, d) == \A k \in i..n : r1[k] = r2[k + d]

\* Replays that agree at one point, on the same messages from there on, agree
\* from there on.
LEMMA ReplayAgrees ==
  ASSUME NEW b1 \in BookType, NEW ms1 \in Seq(MessageType),
         NEW b2 \in BookType, NEW ms2 \in Seq(MessageType), NEW clear \in BOOLEAN,
         NEW i \in 0..Len(ms1), NEW d \in Nat, NEW n \in Nat,
         i + d <= Len(ms2), n <= Len(ms1), n + d <= Len(ms2),
         SameBooks(Replay(b1, ms1, clear), Replay(b2, ms2, clear), i, i, d),
         SameMessages(ms1, ms2, i, n, d)
  PROVE  SameBooks(Replay(b1, ms1, clear), Replay(b2, ms2, clear), i, n, d)
<1> DEFINE r1 == Replay(b1, ms1, clear)
           r2 == Replay(b2, ms2, clear)
           S == {k \in Nat : k \in i..n => r1[k] = r2[k + d]}
<1>0. Len(ms1) \in Nat /\ Len(ms2) \in Nat /\ i \in Nat
  BY LenProperties
<1>a. \A k \in 1..Len(ms1) : r1[k] = Apply(r1[k - 1], ms1[k], clear).book
  BY ReplayDef
<1>b. \A k \in 1..Len(ms2) : r2[k] = Apply(r2[k - 1], ms2[k], clear).book
  BY ReplayDef
<1>c. r1[i] = r2[i + d]
  BY <1>0 DEF SameBooks
<1> HIDE DEF r1, r2
<1>1. Nat \subseteq S
  <2>1. 0 \in S
    BY <1>0, <1>c
  <2>2. ASSUME NEW k \in Nat, k \in S PROVE k + 1 \in S
    <3>1. CASE k + 1 = i \/ ~(k + 1 \in i..n)
      BY <1>0, <1>c, <3>1
    <3>2. CASE k + 1 # i /\ k + 1 \in i..n
      <4>1. k \in i..n /\ k + 1 \in 1..Len(ms1) /\ k + 1 + d \in 1..Len(ms2)
            /\ k + 1 \in (i + 1)..n /\ (k + 1) - 1 = k /\ (k + 1 + d) - 1 = k + d
        BY <1>0, <3>2
      <4>2. r1[k + 1] = Apply(r1[k], ms1[k + 1], clear).book
        BY <1>a, <4>1
      <4>3. r2[k + 1 + d] = Apply(r2[k + d], ms2[k + 1 + d], clear).book
        BY <1>b, <4>1
      <4>4. ms1[k + 1] = ms2[k + 1 + d]
        BY <4>1 DEF SameMessages
      <4>5. r1[k] = r2[k + d]
        BY <2>2, <4>1
      <4> QED BY <4>1, <4>2, <4>3, <4>4, <4>5
    <3> QED BY <3>1, <3>2
  <2> HIDE DEF S
  <2> QED BY <2>1, <2>2, Induction
<1> QED BY <1>0, <1>1 DEF SameBooks, r1, r2

-----------------------------------------------------------------------------
(* The messages of the feed.                                               *)

\* What can be on the line or in the queue: every name is known and BTC the
\* only one taken for it, nothing that is read is missing.
FeedMessages ==
  {m \in MessageType :
     /\ m.kind = "W" => Known(m.symbol) /\ (IsBTC(m.symbol) => m.symbol = BTC)
     /\ m.kind = "X" => \A i \in DOMAIN m.entries : /\ ~SymbolThrows(m.entries[i], i)
                                                    /\ ~UpdateThrows(m.entries[i])}
\* The two kinds of snapshots: one makes the book new, the other leaves it.
Resets(m) == m.kind = "W" /\ m.symbol = BTC
Skipped(m) == m.kind = "W" /\ m.symbol # BTC

LEMMA FeedNeverThrows ==
  ASSUME NEW b \in BookType, NEW m \in FeedMessages, NEW clear \in BOOLEAN
  PROVE  Apply(b, m, clear).thrown = FALSE
<1> DEFINE acc == Begin(b, m)
           r == Rounds(acc, m, 1, clear)
           S == {k \in Nat : r[k].thrown = FALSE}
<1>0. m \in MessageType /\ (m.kind = "W" \/ m.kind = "X")
  BY DEF FeedMessages, MessageType, Snapshots, Increments
<1>1. acc \in ProgressType
  BY <1>0, BeginType
<1>2. acc.thrown = FALSE
  BY <1>0 DEF Begin, SnapshotBegin, Progress, FeedMessages
<1> HIDE DEF acc, r
<1>3. /\ r \in [Nat -> ProgressType]
      /\ \A k \in Nat : r[k] = IF k < 1 THEN acc ELSE Round(r[k - 1], m, k, clear)
  BY <1>0, <1>1, RoundsDef DEF r
<1>4. ASSUME NEW a \in ProgressType, a.thrown = FALSE, NEW i \in Nat \ {0}
      PROVE  Round(a, m, i, clear).thrown = FALSE
  <2>1. CASE ~Iterates(a, m, i)
    BY <1>4, <2>1 DEF Round
  <2>2. CASE Iterates(a, m, i) /\ m.kind = "W"
    BY <1>4, <2>2 DEF Round, Entry, SnapshotEntry, ProgressType
  <2>3. CASE Iterates(a, m, i) /\ m.kind = "X"
    <3>1. i \in DOMAIN m.entries
      <4>1. m.entries \in Seq([symbol: SymbolNames \cup {Missing}, type: EntryTypes,
                               action: Actions, px: Quotes, sz: Amounts \cup {Missing}])
        BY <1>0, <2>3 DEF MessageType, Snapshots, Increments
      <4> QED BY <2>3, <4>1, LenProperties DEF Iterates
    <3>2. ~SymbolThrows(m.entries[i], i) /\ ~UpdateThrows(m.entries[i])
      BY <2>3, <3>1 DEF FeedMessages
    <3>3. UpdateThrows(m.entries[i]) = FALSE
      BY <3>2 DEF UpdateThrows
    <3> QED BY <2>3, <3>2, <3>3 DEF Round, Entry, IncrementEntry, Progress
  <2> QED BY <1>0, <2>1, <2>2, <2>3
<1>5. Nat \subseteq S
  <2>1. 0 \in S
    BY <1>2, <1>3
  <2>2. ASSUME NEW n \in Nat, n \in S PROVE n + 1 \in S
    <3>1. r[n + 1] = Round(r[n], m, n + 1, clear)
      BY <1>3
    <3>2. r[n] \in ProgressType /\ r[n].thrown = FALSE
      BY <1>3, <2>2
    <3>3. n + 1 \in Nat \ {0}
      OBVIOUS
    <3>4. Round(r[n], m, n + 1, clear).thrown = FALSE
      BY <1>4, <3>2, <3>3, Zenon
    <3> QED BY <3>1, <3>4
  <2> HIDE DEF S
  <2> QED BY <2>1, <2>2, Induction
<1>6. r[Len(m.entries)].thrown = FALSE
  BY <1>0, <1>5, EntriesType
<1> QED BY <1>6 DEF Apply, Remaining, r, acc

LEMMA SkippedLeavesBook ==
  ASSUME NEW b \in BookType, NEW m \in FeedMessages, Skipped(m), NEW clear \in BOOLEAN
  PROVE  Apply(b, m, clear).book = b
<1>1. m \in MessageType /\ m.kind = "W" /\ ~IsBTC(m.symbol) /\ Known(m.symbol)
  BY DEF FeedMessages, Skipped
<1>2. m.symbol # Missing
  BY <1>1, NameAssumption DEF MessageType, Snapshots, Increments
<1>3. Begin(b, m).book = b /\ Begin(b, m).symbol # "BTCUSDT"
  BY <1>1, <1>2 DEF Begin, SnapshotBegin, SnapshotBase, Progress, IsBTC
<1>4. ~Iterates(Begin(b, m), m, 1)
  BY <1>1, <1>3 DEF Iterates
<1>5. Begin(b, m) \in ProgressType
  BY <1>1, BeginType
<1>6. Apply(b, m, clear) = Begin(b, m)
  BY <1>1, <1>4, <1>5, RemainingEnd DEF Apply
<1> QED BY <1>3, <1>6

LEMMA ResetForgetsBook ==
  ASSUME NEW b1, NEW b2, NEW m, Resets(m), NEW clear
  PROVE  Apply(b1, m, clear) = Apply(b2, m, clear)
<1>1. IsBTC(BTC)
  BY FeedAssumption, NameAssumption DEF IsBTC
<1>2. Begin(b1, m) = Begin(b2, m)
  BY <1>1 DEF Resets, Begin, SnapshotBegin, SnapshotBase
<1> QED BY <1>2 DEF Apply

-----------------------------------------------------------------------------
(* Replaying the feed.                                                     *)

\* Messages behind others leave the replay of those as it is.
LEMMA ReplayPrefix ==
  ASSUME NEW b \in BookType, NEW ms \in Seq(MessageType), NEW more \in Seq(MessageType),
         NEW clear \in BOOLEAN
  PROVE  \A k \in 0..Len(ms) : Replay(b, ms \o more, clear)[k] = Replay(b, ms, clear)[k]
<1> DEFINE all == ms \o more
<1>1. /\ all \in Seq(MessageType) /\ Len(all) = Len(ms) + Len(more)
      /\ \A k \in 1..Len(ms) : ms[k] = all[k + 0]
  BY ConcatProperties, LenProperties
<1>2. Len(ms) \in Nat /\ Len(more) \in Nat
  BY LenProperties
<1> HIDE DEF all
<1>3. Replay(b, ms, clear)[0] = b /\ Replay(b, all, clear)[0] = b
  BY <1>1, ReplayDef
<1>4. SameBooks(Replay(b, ms, clear), Replay(b, all, clear), 0, Len(ms), 0)
  <2>1. 0 \in 0..Len(ms) /\ 0 + 0 <= Len(all) /\ Len(ms) <= Len(ms) /\ Len(ms) + 0 <= Len(all)
        /\ SameMessages(ms, all, 0, Len(ms), 0)
    BY <1>1, <1>2 DEF SameMessages
  <2>2. SameBooks(Replay(b, ms, clear), Replay(b, all, clear), 0, 0, 0)
    BY <1>3 DEF SameBooks
  <2> QED BY <1>1, <1>2, <2>1, <2>2, ReplayAgrees
<1> QED BY <1>2, <1>4 DEF SameBooks, all

\* The message at the front, applied, is out of the replay.
LEMMA ReplayTail ==
  ASSUME NEW b \in BookType, NEW ms \in Seq(MessageType), ms # <<>>, NEW clear \in BOOLEAN
  PROVE  \A k \in 0..Len(Tail(ms)) :
           Replay(Apply(b, Head(ms), clear).book, Tail(ms), clear)[k] = Replay(b, ms, clear)[k + 1]
<1> DEFINE t == Tail(ms)
           next == Apply(b, Head(ms), clear).book
<1>1. /\ t \in Seq(MessageType) /\ Len(t) \in Nat /\ Len(ms) = Len(t) + 1
      /\ Head(ms) = ms[1] /\ Head(ms) \in MessageType
      /\ \A k \in 1..Len(t) : t[k] = ms[k + 1]
  BY HeadTailProperties, LenProperties, EmptySeq
<1>2. next \in BookType
  BY <1>1, ApplyType DEF ProgressType
<1>3. Replay(b, ms, clear)[1] = next
  <2>1. 1 \in 1..Len(ms) /\ 1 - 1 = 0
    BY <1>1
  <2>2. Replay(b, ms, clear)[0] = b
    BY ReplayDef
  <2>3. Replay(b, ms, clear)[1] = Apply(Replay(b, ms, clear)[1 - 1], ms[1], clear).book
    BY <2>1, ReplayDef
  <2> QED BY <1>1, <2>1, <2>2, <2>3
<1> HIDE DEF t, next
<1>4. Replay(next, t, clear)[0] = next
  BY <1>1, <1>2, ReplayDef
<1>5. SameBooks(Replay(next, t, clear), Replay(b, ms, clear), 0, Len(t), 1)
  <2>1. 0 \in 0..Len(t) /\ 0 + 1 <= Len(ms) /\ Len(t) <= Len(t) /\ Len(t) + 1 <= Len(ms)
        /\ SameMessages(t, ms, 0, Len(t), 1)
    BY <1>1 DEF SameMessages
  <2>2. SameBooks(Replay(next, t, clear), Replay(b, ms, clear), 0, 0, 1)
    BY <1>3, <1>4 DEF SameBooks
  <2> QED BY <1>1, <1>2, <2>1, <2>2, ReplayAgrees
<1> QED BY <1>5 DEF SameBooks, t, next

\* Behind a snapshot of BTC, what the book was before does not matter.
LEMMA ReplayForgets ==
  ASSUME NEW b1 \in BookType, NEW b2 \in BookType, NEW ms \in Seq(MessageType),
         NEW clear \in BOOLEAN, NEW j \in DOMAIN ms, Resets(ms[j])
  PROVE  \A k \in j..Len(ms) : Replay(b1, ms, clear)[k] = Replay(b2, ms, clear)[k]
<1>1. Len(ms) \in Nat /\ j \in 1..Len(ms) /\ j \in Nat
  BY LenProperties
<1>2. /\ Replay(b1, ms, clear)[j] = Apply(Replay(b1, ms, clear)[j - 1], ms[j], clear).book
      /\ Replay(b2, ms, clear)[j] = Apply(Replay(b2, ms, clear)[j - 1], ms[j], clear).book
  BY <1>1, ReplayDef
<1>3. SameBooks(Replay(b1, ms, clear), Replay(b2, ms, clear), j, j, 0)
  <2>1. Replay(b1, ms, clear)[j] = Replay(b2, ms, clear)[j]
    BY <1>2, ResetForgetsBook
  <2> QED BY <1>1, <2>1 DEF SameBooks
<1>4. SameBooks(Replay(b1, ms, clear), Replay(b2, ms, clear), j, Len(ms), 0)
  <2>1. j \in 0..Len(ms) /\ j + 0 <= Len(ms) /\ Len(ms) <= Len(ms) /\ Len(ms) + 0 <= Len(ms)
        /\ SameMessages(ms, ms, j, Len(ms), 0)
    BY <1>1 DEF SameMessages
  <2> QED BY <1>1, <1>3, <2>1, ReplayAgrees
<1> QED BY <1>1, <1>4 DEF SameBooks

\* As long as only other instruments come, the book stays.
LEMMA ReplayStays ==
  ASSUME NEW b \in BookType, NEW ms \in Seq(FeedMessages), NEW clear \in BOOLEAN,
         NEW i \in 0..Len(ms), NEW n \in i..Len(ms), \A k \in (i + 1)..n : Skipped(ms[k])
  PROVE  Replay(b, ms, clear)[n] = Replay(b, ms, clear)[i]
<1> DEFINE r == Replay(b, ms, clear)
           S == {k \in Nat : k \in i..n => r[k] = r[i]}
<1>0. Len(ms) \in Nat /\ ms \in Seq(MessageType) /\ \A k \in 1..Len(ms) : ms[k] \in FeedMessages
  BY LenProperties, ElementOfSeq DEF FeedMessages
<1>1. r \in [0..Len(ms) -> BookType] /\ \A k \in 1..Len(ms) : r[k] = Apply(r[k - 1], ms[k], clear).book
  BY <1>0, ReplayDef
<1> HIDE DEF r
<1>2. Nat \subseteq S
  <2>1. 0 \in S
    BY <1>0
  <2>2. ASSUME NEW k \in Nat, k \in S PROVE k + 1 \in S
    <3>1. CASE k + 1 = i \/ ~(k + 1 \in i..n)
      BY <3>1
    <3>2. CASE k + 1 # i /\ k + 1 \in i..n
      <4>1. k \in i..n /\ k \in 0..Len(ms) /\ k + 1 \in 1..Len(ms) /\ k + 1 \in (i + 1)..n /\ (k + 1) - 1 = k
        BY <1>0, <3>2
      <4>2. r[k + 1] = Apply(r[k], ms[k + 1], clear).book
        BY <1>1, <4>1
      <4>3. Apply(r[k], ms[k + 1], clear).book = r[k]
        BY <1>0, <1>1, <4>1, SkippedLeavesBook
      <4> QED BY <2>2, <4>1, <4>2, <4>3
    <3> QED BY <3>1, <3>2
  <2> HIDE DEF S
  <2> QED BY <2>1, <2>2, Induction
<1> QED BY <1>0, <1>2 DEF r

-----------------------------------------------------------------------------
(* Quotes, keys and the books of the venue.                                *)

\* Each key is the key of one quote, and keys rise with quotes.
LEMMA QuoteOfKey ==
  /\ \A q \in Quotes : PxTicks[q] \in Prices /\ QuoteOf(PxTicks[q]) = q
  /\ \A p \in Prices : QuoteOf(p) \in Quotes /\ PxTicks[QuoteOf(p)] = p
<1>1. \A p, q \in Quotes : PxTicks[p] = PxTicks[q] => p = q
  <2>1. \A p, q \in Quotes : p \in Int /\ q \in Int /\ PxTicks[p] \in Nat /\ PxTicks[q] \in Nat
    BY FeedAssumption, TicksAssumption DEF Quotes
  <2> QED BY <2>1, FeedAssumption
<1>2. \A q \in Quotes : PxTicks[q] \in Prices
  BY DEF Prices
<1>3. ASSUME NEW p \in Prices PROVE QuoteOf(p) \in Quotes /\ PxTicks[QuoteOf(p)] = p
  BY DEF Prices, QuoteOf
<1>4. ASSUME NEW q \in Quotes PROVE QuoteOf(PxTicks[q]) = q
  BY <1>1, <1>2, <1>3
<1> QED BY <1>2, <1>3, <1>4

LEMMA SizeType == \A a \in Amount : Size(a) \in Sizes \cup {NoLevel}
BY DEF Amount, Size, Sizes, Amounts

LEMMA AsBookType == ASSUME NEW v \in VenueBook PROVE AsBook(v) \in BookType
BY QuoteOfKey, SizeType DEF AsBook, VenueBook, BookType, SideType

\* Of what the venue publishes at depth 1 there is one level to a side.
Shown(b) == /\ b \in VenueBook
            /\ IS_BOOK_CLEAR_NEEDED => \A s \in Sides : \A p, q \in Offered(b, s) : p = q
LEMMA ViewIsShown == ASSUME NEW v \in VenueBook PROVE Shown(View(v))
<1>1. CASE ~IS_BOOK_CLEAR_NEEDED
  BY <1>1 DEF Shown, View
<1>2. CASE IS_BOOK_CLEAR_NEEDED
  <2>1. View(v) \in VenueBook
    BY <1>2 DEF View, VenueBook, Amount
  <2>2. ASSUME NEW s \in Sides, NEW q \in Offered(View(v), s) PROVE q \in Best(v, s)
    BY <1>2, <2>2 DEF Offered, View
  <2>3. ASSUME NEW s \in Sides, NEW p \in Best(v, s), NEW q \in Best(v, s) PROVE p = q
    <3>1. p \in Int /\ q \in Int
      BY FeedAssumption DEF Best, Offered
    <3> QED BY <3>1 DEF Best
  <2> QED BY <2>1, <2>2, <2>3 DEF Shown
<1> QED BY <1>1, <1>2

-----------------------------------------------------------------------------
(* What the messages of the venue do to the book.                          *)

\* The levels of new at those of D, or, at depth 1, on the sides of those of D;
\* the levels of old elsewhere.
Taken(D, s, q) == IF IS_BOOK_CLEAR_NEEDED THEN \E r \in Quotes : <<s, r>> \in D ELSE <<s, q>> \in D
MixedSide(old, new, D, s) ==
  [p \in Prices |-> Size(IF Taken(D, s, QuoteOf(p)) THEN new[s][QuoteOf(p)] ELSE old[s][QuoteOf(p)])]
Mixed(old, new, D) == [s \in Sides |-> MixedSide(old, new, D, s)]

LEMMA MixedType ==
  ASSUME NEW old \in VenueBook, NEW new \in VenueBook, NEW D
  PROVE  Mixed(old, new, D) \in BookType
<1>1. ASSUME NEW s \in Sides PROVE MixedSide(old, new, D, s) \in SideType
  BY QuoteOfKey, SizeType DEF MixedSide, VenueBook, SideType
<1> QED BY <1>1 DEF Mixed, BookType

LEMMA MixedStart == ASSUME NEW old \in VenueBook, NEW new PROVE Mixed(old, new, {}) = AsBook(old)
<1>1. \A s, q : ~Taken({}, s, q)
  BY DEF Taken
<1> QED BY <1>1 DEF Mixed, MixedSide, AsBook

\* At depth 1, a side has one level that differs, if any.
LEMMA DiffersOnce ==
  ASSUME NEW old, Shown(old), NEW new, Shown(new), IS_BOOK_CLEAR_NEEDED, NEW s \in Sides,
         NEW p \in Differs(old, new, s), NEW q \in Differs(old, new, s)
  PROVE  p = q
<1>1. CASE Offered(new, s) # {}
  BY <1>1 DEF Differs, Shown
<1>2. CASE Offered(new, s) = {}
  <2>1. p \in Offered(old, s) /\ q \in Offered(old, s)
    BY <1>2 DEF Differs, Offered
  <2> QED BY <2>1 DEF Shown
<1> QED BY <1>1, <1>2

LEMMA MixedEnd ==
  ASSUME NEW old, Shown(old), NEW new, Shown(new)
  PROVE  Mixed(old, new, DifferingLevels(old, new)) = AsBook(new)
<1> DEFINE D == DifferingLevels(old, new)
<1>1. ASSUME NEW s \in Sides, NEW q \in Quotes, ~Taken(D, s, q) PROVE old[s][q] = new[s][q]
  <2>1. CASE ~IS_BOOK_CLEAR_NEEDED
    BY <1>1, <2>1 DEF Taken, DifferingLevels, Differs
  <2>2. CASE IS_BOOK_CLEAR_NEEDED
    <3>1. \A r \in Quotes : r \notin Differs(old, new, s)
      BY <1>1, <2>2 DEF Taken, DifferingLevels
    <3>2. CASE Offered(new, s) = {}
      BY <3>1, <3>2 DEF Differs
    <3>3. CASE Offered(new, s) # {}
      <4>1. PICK r \in Offered(new, s) : TRUE
        BY <3>3
      <4>2. r \in Quotes /\ old[s][r] = new[s][r] /\ r \in Offered(old, s)
        BY <3>1, <4>1 DEF Differs, Offered
      <4>3. \A x \in Quotes : x # r => x \notin Offered(old, s) /\ x \notin Offered(new, s)
        BY <2>2, <4>1, <4>2 DEF Shown
      <4> QED BY <4>2, <4>3 DEF Offered
    <3> QED BY <3>2, <3>3
  <2> QED BY <2>1, <2>2
<1>2. ASSUME NEW s \in Sides, NEW p \in Prices
      PROVE  MixedSide(old, new, D, s)[p] = Size(new[s][QuoteOf(p)])
  BY <1>1, QuoteOfKey DEF MixedSide
<1>3. ASSUME NEW s \in Sides PROVE MixedSide(old, new, D, s) = AsBook(new)[s]
  BY <1>2 DEF MixedSide, AsBook
<1> QED BY <1>3 DEF Mixed, AsBook

\* One entry of an increment brings its level, or its side, from old to new.
LEMMA LevelEntryApplied ==
  ASSUME NEW old, Shown(old), NEW new, Shown(new), NEW k,
         NEW s \in Sides, NEW q \in Differs(old, new, s),
         NEW D \in SUBSET DifferingLevels(old, new), <<s, q>> \notin D
  PROVE  handle_price_level_update(MixedSide(old, new, D, s), LevelEntry(old, new, s, q, k),
                                   IS_BOOK_CLEAR_NEEDED)
           = MixedSide(old, new, D \cup {<<s, q>>}, s)
<1> DEFINE e == LevelEntry(old, new, s, q, k)
           level == MixedSide(old, new, D, s)
           after == MixedSide(old, new, D \cup {<<s, q>>}, s)
           result == handle_price_level_update(level, e, IS_BOOK_CLEAR_NEEDED)
<1> SUFFICES result = after
  OBVIOUS
<1>0. /\ q \in Quotes /\ old[s][q] \in Amount /\ new[s][q] \in Amount /\ old[s][q] # new[s][q]
      /\ \A r \in Quotes : old[s][r] \in Amount /\ new[s][r] \in Amount
  BY DEF Differs, Shown, VenueBook
<1>1. /\ e.px = q /\ e.action = ActionFor(old, new, s, q)
      /\ e.sz = IF new[s][q] = NoLevel THEN Missing ELSE new[s][q]
  BY DEF LevelEntry
<1>2. new[s][q] # NoLevel => ~UpdateThrows(e)
  <2>1. new[s][q] # NoLevel => new[s][q] # Missing
    BY <1>0, MissingAssumption DEF Amount, Amounts
  <2> QED BY <1>1, <2>1 DEF UpdateThrows
<1>3. /\ \A p \in Prices : level[p] = Size(IF Taken(D, s, QuoteOf(p)) THEN new[s][QuoteOf(p)]
                                                                  ELSE old[s][QuoteOf(p)])
      /\ DOMAIN level = Prices
  BY DEF MixedSide
<1>4. \A r \in Quotes : IF IS_BOOK_CLEAR_NEEDED
                        THEN ~Taken(D, s, r) /\ Taken(D \cup {<<s, q>>}, s, r)
                        ELSE Taken(D \cup {<<s, q>>}, s, r) <=> Taken(D, s, r) \/ r = q
  <2>1. CASE ~IS_BOOK_CLEAR_NEEDED
    BY <2>1 DEF Taken
  <2>2. CASE IS_BOOK_CLEAR_NEEDED
    <3>1. \A r \in Quotes : <<s, r>> \notin D
      <4>1. ASSUME NEW r \in Quotes, <<s, r>> \in D PROVE FALSE
        <5>1. r \in Differs(old, new, s)
          BY <4>1 DEF DifferingLevels
        <5> QED BY <2>2, <4>1, <5>1, DiffersOnce
      <4> QED BY <4>1
    <3> QED BY <1>0, <2>2, <3>1 DEF Taken
  <2> QED BY <2>1, <2>2
<1>5. after = [p \in Prices |->
                 IF IS_BOOK_CLEAR_NEEDED THEN Size(new[s][QuoteOf(p)])
                 ELSE IF QuoteOf(p) = q THEN Size(new[s][q]) ELSE level[p]]
  <2>1. ASSUME NEW p \in Prices
        PROVE  Size(IF Taken(D \cup {<<s, q>>}, s, QuoteOf(p)) THEN new[s][QuoteOf(p)]
                                                           ELSE old[s][QuoteOf(p)])
                 = IF IS_BOOK_CLEAR_NEEDED THEN Size(new[s][QuoteOf(p)])
                   ELSE IF QuoteOf(p) = q THEN Size(new[s][q]) ELSE level[p]
    <3>1. QuoteOf(p) \in Quotes
      BY QuoteOfKey
    <3> QED BY <1>3, <1>4, <3>1
  <2> QED BY <2>1 DEF MixedSide
<1>6. \A p \in Prices : (p = PxTicks[q]) <=> (QuoteOf(p) = q)
  BY <1>0, QuoteOfKey
<1>7. PxTicks[q] \in Prices
  BY <1>0, QuoteOfKey
<1>8. CASE ~IS_BOOK_CLEAR_NEEDED
  <2>1. result = [level EXCEPT ![PxTicks[q]] = Size(new[s][q])]
    <3>1. CASE new[s][q] = NoLevel
      BY <1>1, <3>1 DEF handle_price_level_update, ActionFor, Erased, Size
    <3>2. CASE new[s][q] # NoLevel
      <4>1. e.action # "DELETE" /\ e.sz = new[s][q] /\ Cleared(level, e, IS_BOOK_CLEAR_NEEDED) = level
        BY <1>1, <1>8, <3>2 DEF ActionFor, Cleared
      <4> QED BY <1>1, <1>2, <3>2, <4>1 DEF handle_price_level_update, Size
    <3> QED BY <3>1, <3>2
  <2>2. [level EXCEPT ![PxTicks[q]] = Size(new[s][q])]
          = [p \in Prices |-> IF QuoteOf(p) = q THEN Size(new[s][q]) ELSE level[p]]
    <3> HIDE DEF level
    <3> QED BY <1>3, <1>6
  <2> HIDE DEF result, after
  <2> QED BY <1>5, <1>8, <2>1, <2>2
<1>9. CASE IS_BOOK_CLEAR_NEEDED
  <2>1. after = [p \in Prices |-> Size(new[s][QuoteOf(p)])]
    BY <1>5, <1>9
  <2>2. \A p \in Prices : level[p] = Size(old[s][QuoteOf(p)])
    BY <1>3, <1>4, <1>9, QuoteOfKey
  <2>3. CASE new[s][q] = NoLevel
    <3>1. Offered(new, s) = {}
      BY <1>0, <1>9, <2>3 DEF Differs, Offered
    <3>2. \A r \in Quotes : r # q => old[s][r] = NoLevel
      BY <1>0, <1>9, <2>3 DEF Shown, Offered
    <3>3. result = [level EXCEPT ![PxTicks[q]] = NoLevel]
      BY <1>1, <2>3 DEF handle_price_level_update, ActionFor, Erased
    <3>4. \A r \in Quotes : new[s][r] = NoLevel
      BY <3>1 DEF Offered
    <3>5. [level EXCEPT ![PxTicks[q]] = NoLevel] = [p \in Prices |-> Size(new[s][QuoteOf(p)])]
      <4>1. ASSUME NEW p \in Prices
            PROVE  (IF p = PxTicks[q] THEN NoLevel ELSE level[p]) = Size(new[s][QuoteOf(p)])
        BY <1>6, <2>2, <3>2, <3>4, QuoteOfKey DEF Size
      <4> HIDE DEF level
      <4> QED BY <1>3, <4>1
    <3> HIDE DEF result, after
    <3> QED BY <2>1, <3>3, <3>5
  <2>4. CASE new[s][q] # NoLevel
    <3>1. \A r \in Quotes : r # q => new[s][r] = NoLevel
      BY <1>0, <1>9, <2>4 DEF Shown, Offered
    <3>2. Cleared(level, e, IS_BOOK_CLEAR_NEEDED) = EmptySide
      <4>1. CASE Offered(old, s) # {}
        BY <1>1, <1>9, <2>4, <4>1 DEF ActionFor, Cleared
      <4>2. CASE Offered(old, s) = {}
        <5>1. \A r \in Quotes : old[s][r] = NoLevel
          BY <4>2 DEF Offered
        <5>2. e.action = "NEW"
          BY <1>0, <1>1, <2>4, <4>2, <5>1 DEF ActionFor
        <5>3. \A p \in Prices : level[p] = NoLevel
          BY <2>2, <5>1, QuoteOfKey DEF Size
        <5>4. level = EmptySide
          BY <5>3 DEF MixedSide, EmptySide
        <5> QED BY <5>2, <5>4 DEF Cleared
      <4> QED BY <4>1, <4>2
    <3>3. result = [EmptySide EXCEPT ![PxTicks[q]] = SzTicks[new[s][q]]]
      <4>1. e.action # "DELETE" /\ e.sz = new[s][q]
        BY <1>1, <2>4 DEF ActionFor
      <4> QED BY <1>1, <1>2, <2>4, <3>2, <4>1 DEF handle_price_level_update
    <3>4. [EmptySide EXCEPT ![PxTicks[q]] = SzTicks[new[s][q]]] = [p \in Prices |-> Size(new[s][QuoteOf(p)])]
      <4>1. ASSUME NEW p \in Prices
            PROVE  (IF p = PxTicks[q] THEN SzTicks[new[s][q]] ELSE NoLevel) = Size(new[s][QuoteOf(p)])
        BY <1>6, <2>4, <3>1, QuoteOfKey DEF Size
      <4> QED BY <4>1 DEF EmptySide
    <3> HIDE DEF result, after
    <3> QED BY <2>1, <3>3, <3>4
  <2> QED BY <2>3, <2>4
<1> QED BY <1>8, <1>9

\* There is a highest quote, for the bid of the other instruments.
LEMMA OtherBidType == OtherBid.type = "BID" /\ OtherBid.px \in Quotes /\ OtherBid.sz \in Amounts
<1>1. PICK f : Lists(f, Quotes)
  BY FeedAssumption, SetToSeqLists
<1> DEFINE n == Len(f)
<1>2. n \in Nat /\ \A k \in 1..n : f[k] \in Quotes /\ f[k] \in Int
  BY <1>1, LenProperties, ElementOfSeq, FeedAssumption DEF Lists
<1>3. \A q \in Quotes : \E k \in 1..n : f[k] = q
  BY <1>1, LenProperties DEF Lists
<1>4. n # 0
  <2>1. PICK q \in Quotes : TRUE
    BY FeedAssumption
  <2> QED BY <1>2, <1>3, <2>1
<1> HIDE DEF n
<1> DEFINE Highest(k, i) == \A j \in 1..k : f[j] <= f[i]
           S == {k \in Nat : k \in 1..n => \E i \in 1..k : Highest(k, i)}
<1>5. Nat \subseteq S
  <2>1. 0 \in S
    OBVIOUS
  <2>2. ASSUME NEW k \in Nat, k \in S PROVE k + 1 \in S
    <3>1. CASE k + 1 \notin 1..n
      BY <3>1
    <3>2. CASE k = 0 /\ k + 1 \in 1..n
      <4>1. 1 \in 1..(k + 1) /\ Highest(k + 1, 1)
        BY <1>2, <3>2
      <4> HIDE DEF Highest
      <4> QED BY <3>2, <4>1
    <3>3. CASE k # 0 /\ k + 1 \in 1..n
      <4>1. k \in 1..n
        BY <1>2, <3>3
      <4>2. PICK i \in 1..k : Highest(k, i)
        BY <2>2, <4>1
      <4>3. CASE f[k + 1] <= f[i]
        <5>1. i \in 1..(k + 1) /\ Highest(k + 1, i)
          BY <1>2, <3>3, <4>2, <4>3
        <5> HIDE DEF Highest
        <5> QED BY <3>3, <5>1
      <4>4. CASE ~(f[k + 1] <= f[i])
        <5>1. k + 1 \in 1..(k + 1) /\ Highest(k + 1, k + 1)
          <6>1. ASSUME NEW j \in 1..(k + 1) PROVE f[j] <= f[k + 1]
            <7>1. j \in 1..n /\ i \in 1..n /\ k + 1 \in 1..n
              BY <1>2, <3>3, <4>2
            <7>2. f[j] \in Int /\ f[i] \in Int /\ f[k + 1] \in Int
              BY <1>2, <7>1
            <7>3. j \in 1..k => f[j] <= f[i]
              BY <4>2
            <7>4. j \in 1..k \/ j = k + 1
              OBVIOUS
            <7> QED BY <4>4, <7>2, <7>3, <7>4
          <6> QED BY <6>1
        <5> HIDE DEF Highest
        <5> QED BY <3>3, <5>1
      <4> QED BY <4>3, <4>4
    <3> QED BY <3>1, <3>2, <3>3
  <2> HIDE DEF S
  <2> QED BY <2>1, <2>2, Induction
<1>6. PICK i \in 1..n : Highest(n, i)
  BY <1>2, <1>4, <1>5
<1>7. \E q \in Quotes : \A p \in Quotes : p <= q
  <2>1. f[i] \in Quotes /\ \A p \in Quotes : p <= f[i]
    BY <1>2, <1>3, <1>6
  <2> QED BY <2>1
<1> QED BY <1>7, FeedAssumption DEF OtherBid

LEMMA OtherNamesListed ==
  ASSUME symbols \in SymbolLists
  PROVE  /\ Lists(OtherNames, Range(symbols) \ {BTC})
         /\ \A n \in Range(symbols) \ {BTC} : n \in SymbolNames /\ Known(n) /\ ~IsBTC(n)
<1>1. symbols \in Seq(SymbolNames) /\ Len(symbols) \in Nat /\ symbols \in [1..Len(symbols) -> SymbolNames]
  BY FeedAssumption, LenProperties
<1> DEFINE R == Range(symbols)
<1>2. symbols \in Surjection(1..Len(symbols), R)
  BY <1>1 DEF Range, Surjection
<1>3. IsFiniteSet(R)
  <2>1. IsFiniteSet(1..Len(symbols))
    BY <1>1, FS_Interval
  <2> HIDE DEF R
  <2> QED BY <1>2, <2>1, FS_Surjection
<1>4. IsFiniteSet(R \ {BTC})
  <2> HIDE DEF R
  <2> QED BY <1>3, FS_RemoveElement
<1>5. \A n \in R \ {BTC} : n \in SymbolNames /\ Known(n) /\ ~IsBTC(n)
  BY <1>1, FeedAssumption DEF Range
<1> QED BY <1>4, <1>5, SetToSeqLists DEF OtherNames

LEMMA DifferingLevelsListed ==
  ASSUME NEW old, NEW new
  PROVE  Lists(SetToSeq(DifferingLevels(old, new)), DifferingLevels(old, new))
<1>1. IsFiniteSet(Sides)
  <2>1. IsFiniteSet({"BID"}) /\ IsFiniteSet({"OFFER"}) /\ Sides = {"BID"} \cup {"OFFER"}
    BY FS_Singleton DEF Sides
  <2> QED BY <2>1, FS_Union
<1>2. IsFiniteSet(Sides \X Quotes)
  BY <1>1, FS_Product, FeedAssumption
<1>3. DifferingLevels(old, new) \in SUBSET (Sides \X Quotes)
  BY DEF DifferingLevels
<1>4. IsFiniteSet(DifferingLevels(old, new))
  BY <1>2, <1>3, FS_Subset
<1> QED BY <1>4, SetToSeqLists

\* An increment of the venue entry by entry: the levels, then the others.
IncrementEntries == [symbol: SymbolNames \cup {Missing}, type: EntryTypes,
                     action: Actions, px: Quotes, sz: Amounts \cup {Missing}]
LEMMA IncrementIsOfTheFeed ==
  ASSUME symbols \in SymbolLists, NEW old, Shown(old), NEW new, Shown(new)
  PROVE  LET m == IncrementOf(old, new)
             levels == SetToSeq(DifferingLevels(old, new))
         IN  /\ m \in FeedMessages /\ m.kind = "X"
             /\ Len(m.entries) = Len(levels) + Len(OtherNames)
             /\ \A k \in 1..Len(levels) :
                  m.entries[k] = LevelEntry(old, new, levels[k][1], levels[k][2], k)
             /\ \A k \in 1..Len(OtherNames) :
                  m.entries[Len(levels) + k] = OtherEntry(OtherNames[k])
<1> DEFINE m == IncrementOf(old, new)
           L == DifferingLevels(old, new)
           levels == SetToSeq(L)
           own == [k \in DOMAIN levels |-> LevelEntry(old, new, levels[k][1], levels[k][2], k)]
           others == [k \in DOMAIN OtherNames |-> OtherEntry(OtherNames[k])]
<1>1. /\ levels \in Seq(L) /\ Len(levels) \in Nat /\ DOMAIN levels = 1..Len(levels)
      /\ \A k \in 1..Len(levels) : levels[k] \in L
  BY DifferingLevelsListed, LenProperties, ElementOfSeq DEF Lists
<1>2. /\ OtherNames \in Seq(Range(symbols) \ {BTC}) /\ Len(OtherNames) \in Nat
      /\ DOMAIN OtherNames = 1..Len(OtherNames)
      /\ \A k \in 1..Len(OtherNames) : OtherNames[k] \in Range(symbols) \ {BTC}
  <2> DEFINE R == Range(symbols) \ {BTC}
  <2>1. OtherNames \in Seq(R)
    BY OtherNamesListed DEF Lists
  <2> HIDE DEF R
  <2>2. Len(OtherNames) \in Nat /\ DOMAIN OtherNames = 1..Len(OtherNames)
        /\ \A k \in 1..Len(OtherNames) : OtherNames[k] \in R
    BY <2>1, LenProperties, ElementOfSeq
  <2> QED BY <2>1, <2>2 DEF R
<1>3. \A n \in Range(symbols) \ {BTC} : n \in SymbolNames /\ Known(n) /\ n # Missing
  BY OtherNamesListed, NameAssumption
<1>4. ASSUME NEW l \in L, NEW k \in Nat \ {0}
      PROVE  /\ LevelEntry(old, new, l[1], l[2], k) \in IncrementEntries
             /\ ~SymbolThrows(LevelEntry(old, new, l[1], l[2], k), k)
             /\ ~UpdateThrows(LevelEntry(old, new, l[1], l[2], k))
  <2>1. l[1] \in Sides /\ l[2] \in Quotes /\ new[l[1]][l[2]] \in Amounts \cup {NoLevel}
    BY DEF DifferingLevels, Shown, VenueBook, Amount
  <2>2. ActionFor(old, new, l[1], l[2]) \in Actions
        /\ (new[l[1]][l[2]] # NoLevel <=> ActionFor(old, new, l[1], l[2]) # "DELETE")
    BY DEF ActionFor, Actions
  <2>3. BTC \in SymbolNames /\ Known(BTC) /\ BTC # Missing
    BY FeedAssumption, NameAssumption
  <2>4. Missing \notin Amounts
    BY MissingAssumption DEF Amounts
  <2>5. LevelEntry(old, new, l[1], l[2], k) \in IncrementEntries
    BY <2>1, <2>2, <2>3 DEF LevelEntry, IncrementEntries, EntryTypes
  <2>6. ~SymbolThrows(LevelEntry(old, new, l[1], l[2], k), k)
    BY <2>3 DEF LevelEntry, SymbolThrows, ReadsSymbol
  <2>7. ~UpdateThrows(LevelEntry(old, new, l[1], l[2], k))
    BY <2>1, <2>2, <2>4 DEF LevelEntry, UpdateThrows
  <2> QED BY <2>5, <2>6, <2>7
<1>5. ASSUME NEW n \in Range(symbols) \ {BTC}, NEW k
      PROVE  /\ OtherEntry(n) \in IncrementEntries
             /\ ~SymbolThrows(OtherEntry(n), k)
             /\ ~UpdateThrows(OtherEntry(n))
  <2>1. OtherEntry(n) \in IncrementEntries
    BY <1>3, OtherBidType DEF OtherEntry, IncrementEntries, EntryTypes, Sides, Actions
  <2>2. ~SymbolThrows(OtherEntry(n), k)
    BY <1>3 DEF OtherEntry, SymbolThrows
  <2>3. ~UpdateThrows(OtherEntry(n))
    BY OtherBidType, MissingAssumption DEF OtherEntry, UpdateThrows, Amounts
  <2> QED BY <2>1, <2>2, <2>3
<1>6. own \in Seq(IncrementEntries) /\ Len(own) = Len(levels)
  <2>1. \A k \in 1..Len(levels) : LevelEntry(old, new, levels[k][1], levels[k][2], k) \in IncrementEntries
    BY <1>1, <1>4
  <2> HIDE DEF levels
  <2> QED BY <1>1, <2>1
<1>7. others \in Seq(IncrementEntries) /\ Len(others) = Len(OtherNames)
  <2>1. \A k \in 1..Len(OtherNames) : OtherEntry(OtherNames[k]) \in IncrementEntries
    BY <1>2, <1>5
  <2> QED BY <1>2, <2>1
<1>8. m = [kind |-> "X", entries |-> own \o others]
  BY DEF IncrementOf
<1>9. /\ own \o others \in Seq(IncrementEntries)
      /\ Len(own \o others) = Len(levels) + Len(OtherNames)
      /\ DOMAIN (own \o others) = 1..(Len(levels) + Len(OtherNames))
      /\ \A k \in 1..Len(levels) : (own \o others)[k] = own[k]
      /\ \A k \in 1..Len(OtherNames) : (own \o others)[Len(levels) + k] = others[k]
  <2> HIDE DEF own, others, levels
  <2>1. /\ own \o others \in Seq(IncrementEntries)
        /\ Len(own \o others) = Len(own) + Len(others)
        /\ \A i \in 1..(Len(own) + Len(others)) : (own \o others)[i] =
             IF i <= Len(own) THEN own[i] ELSE others[i - Len(own)]
    BY <1>6, <1>7, ConcatProperties
  <2>2. DOMAIN (own \o others) = 1..Len(own \o others)
    BY <2>1, LenProperties
  <2>3. ASSUME NEW k \in 1..Len(levels) PROVE (own \o others)[k] = own[k]
    BY <1>1, <1>2, <1>6, <1>7, <2>1
  <2>4. ASSUME NEW k \in 1..Len(OtherNames) PROVE (own \o others)[Len(levels) + k] = others[k]
    BY <1>1, <1>2, <1>6, <1>7, <2>1
  <2> QED BY <1>6, <1>7, <2>1, <2>2, <2>3, <2>4
<1>a. /\ \A k \in 1..Len(levels) : own[k] = LevelEntry(old, new, levels[k][1], levels[k][2], k)
      /\ \A k \in 1..Len(OtherNames) : others[k] = OtherEntry(OtherNames[k])
  <2> HIDE DEF levels
  <2> QED BY <1>1, <1>2
<1> HIDE DEF m, own, others, levels, L
<1>b. \A i \in DOMAIN m.entries : ~SymbolThrows(m.entries[i], i) /\ ~UpdateThrows(m.entries[i])
  <2>1. ASSUME NEW i \in 1..(Len(levels) + Len(OtherNames))
        PROVE  ~SymbolThrows((own \o others)[i], i) /\ ~UpdateThrows((own \o others)[i])
    <3>1. CASE i <= Len(levels)
      <4>1. i \in 1..Len(levels) /\ i \in Nat \ {0}
        BY <1>1, <3>1
      <4>2. (own \o others)[i] = LevelEntry(old, new, levels[i][1], levels[i][2], i)
        BY <1>9, <1>a, <4>1
      <4> QED BY <1>1, <1>4, <4>1, <4>2
    <3>2. CASE i > Len(levels)
      <4>1. i - Len(levels) \in 1..Len(OtherNames) /\ i = Len(levels) + (i - Len(levels))
        BY <1>1, <1>2, <3>2
      <4>2. (own \o others)[i] = OtherEntry(OtherNames[i - Len(levels)])
        BY <1>9, <1>a, <4>1
      <4>3. OtherNames[i - Len(levels)] \in Range(symbols) \ {BTC}
        BY <1>2, <4>1
      <4> QED BY <1>5, <4>2, <4>3
    <3>3. i <= Len(levels) \/ i > Len(levels)
      BY <1>1, <1>2
    <3> QED BY <3>1, <3>2, <3>3, Zenon
  <2> QED BY <1>8, <1>9, <2>1
<1>c. m \in MessageType
  BY <1>8, <1>9 DEF MessageType, Increments, IncrementEntries
<1>d. m \in FeedMessages /\ m.kind = "X"
  BY <1>8, <1>b, <1>c DEF FeedMessages
<1>e. Len(m.entries) = Len(levels) + Len(OtherNames)
  BY <1>8, <1>9
<1>f. \A k \in 1..Len(levels) : m.entries[k] = LevelEntry(old, new, levels[k][1], levels[k][2], k)
  BY <1>8, <1>9, <1>a
<1>g. \A k \in 1..Len(OtherNames) : m.entries[Len(levels) + k] = OtherEntry(OtherNames[k])
  BY <1>8, <1>9, <1>a
<1> QED BY <1>d, <1>e, <1>f, <1>g, Zenon DEF m, levels, L

\* A call that has not thrown.
Going(b, symbol) == Progress(b, symbol, FALSE)
LEMMA GoingOn == \A b, x : /\ Going(b, x).book = b /\ Going(b, x).symbol = x
                           /\ Going(b, x).thrown = FALSE /\ ~Going(b, x).thrown
BY DEF Going, Progress

LEMMA LevelRound ==
  ASSUME NEW old, Shown(old), NEW new, Shown(new), NEW k \in Nat \ {0},
         NEW s \in Sides, NEW q \in Differs(old, new, s),
         NEW D \in SUBSET DifferingLevels(old, new), <<s, q>> \notin D,
         NEW x, k = 1 \/ x = "BTCUSDT"
  PROVE  IncrementEntry(Going(Mixed(old, new, D), x),
                        LevelEntry(old, new, s, q, k), k, IS_BOOK_CLEAR_NEEDED)
           = Going(Mixed(old, new, D \cup {<<s, q>>}), "BTCUSDT")
<1> DEFINE e == LevelEntry(old, new, s, q, k)
           before == Mixed(old, new, D)
           after == Mixed(old, new, D \cup {<<s, q>>})
<1>1. /\ e.type = s /\ e.symbol = (IF k = 1 THEN BTC ELSE Missing)
      /\ e.action = ActionFor(old, new, s, q)
      /\ e.sz = IF new[s][q] = NoLevel THEN Missing ELSE new[s][q]
  BY DEF LevelEntry
<1>2. BTC # Missing /\ Known(BTC) /\ from_str(BTC) = "BTCUSDT"
  BY FeedAssumption, NameAssumption
<1>3. ~SymbolThrows(e, k) /\ SymbolAfter(e, k, x) = "BTCUSDT"
  <2> HIDE DEF e
  <2> QED BY <1>1, <1>2 DEF SymbolThrows, SymbolAfter, ReadsSymbol
<1>4. UpdateThrows(e) = FALSE
  <2>1. new[s][q] \in Amounts \cup {NoLevel} /\ Missing \notin Amounts
    BY MissingAssumption DEF Differs, Shown, VenueBook, Amount, Amounts
  <2>2. ~UpdateThrows(e)
    <3> HIDE DEF e
    <3> QED BY <1>1, <2>1 DEF UpdateThrows, ActionFor
  <2> QED BY <2>2 DEF UpdateThrows
<1>5. [before EXCEPT ![e.type] = handle_price_level_update(@, e, IS_BOOK_CLEAR_NEEDED)] = after
  <2>1. before[s] = MixedSide(old, new, D, s) /\ after[s] = MixedSide(old, new, D \cup {<<s, q>>}, s)
    BY DEF Mixed
  <2>2. handle_price_level_update(before[s], e, IS_BOOK_CLEAR_NEEDED) = after[s]
    BY <2>1, LevelEntryApplied
  <2>3. ASSUME NEW t \in Sides, t # s PROVE before[t] = after[t]
    <3>1. \A r : Taken(D \cup {<<s, q>>}, t, r) <=> Taken(D, t, r)
      BY <2>3 DEF Taken
    <3>2. MixedSide(old, new, D \cup {<<s, q>>}, t) = MixedSide(old, new, D, t)
      BY <3>1 DEF MixedSide
    <3> QED BY <3>2 DEF Mixed
  <2>4. before = [t \in Sides |-> before[t]] /\ after = [t \in Sides |-> after[t]]
    BY DEF Mixed
  <2> HIDE DEF before, after, e
  <2> QED BY <1>1, <2>2, <2>3, <2>4
<1> DEFINE acc == Going(before, x)
<1>6. acc.book = before /\ acc.symbol = x
  BY GoingOn
<1> HIDE DEF e, before, after, acc
<1>7. IncrementEntry(acc, e, k, IS_BOOK_CLEAR_NEEDED) = Going(after, "BTCUSDT")
  BY <1>1, <1>3, <1>4, <1>5, <1>6 DEF IncrementEntry, Going
<1> QED BY <1>7 DEF e, before, after, acc

LEMMA OtherRound ==
  ASSUME symbols \in SymbolLists, NEW n \in Range(symbols) \ {BTC}, NEW acc, NEW k
  PROVE  IncrementEntry(acc, OtherEntry(n), k, IS_BOOK_CLEAR_NEEDED)
           = Going(acc.book, from_str(n))
<1>1. n # Missing /\ Known(n) /\ from_str(n) # "BTCUSDT"
  BY OtherNamesListed, NameAssumption DEF IsBTC
<1>2. OtherEntry(n).symbol = n
  BY DEF OtherEntry
<1>3. ~SymbolThrows(OtherEntry(n), k) /\ SymbolAfter(OtherEntry(n), k, acc.symbol) = from_str(n)
  BY <1>1, <1>2 DEF SymbolThrows, SymbolAfter, ReadsSymbol
<1> QED BY <1>1, <1>3 DEF IncrementEntry, Going

\* An increment of the venue brings the published book from one to the next.
LEMMA IncrementApplied ==
  ASSUME symbols \in SymbolLists, NEW old, Shown(old), NEW new, Shown(new)
  PROVE  Apply(AsBook(old), IncrementOf(old, new), IS_BOOK_CLEAR_NEEDED).book = AsBook(new)
<1> DEFINE m == IncrementOf(old, new)
           L == DifferingLevels(old, new)
           levels == SetToSeq(L)
           n == Len(levels)
           acc == Begin(AsBook(old), m)
           r == Rounds(acc, m, 1, IS_BOOK_CLEAR_NEEDED)
           Done == [k \in Nat |-> {levels[j] : j \in 1..k}]
           At == [k \in Nat |-> Going(Mixed(old, new, Done[k]), IF k = 0 THEN NoSymbol ELSE "BTCUSDT")]
<1>1. /\ m \in MessageType /\ m.kind = "X" /\ Len(m.entries) = n + Len(OtherNames)
      /\ \A k \in 1..n : m.entries[k] = LevelEntry(old, new, levels[k][1], levels[k][2], k)
      /\ \A k \in 1..Len(OtherNames) : m.entries[n + k] = OtherEntry(OtherNames[k])
  <2> HIDE DEF n, levels, L, m
  <2> QED BY IncrementIsOfTheFeed DEF n, levels, L, m, FeedMessages
<1>2. /\ n \in Nat /\ DOMAIN levels = 1..n /\ \A k \in 1..n : levels[k] \in L
      /\ \A x \in L : \E k \in 1..n : levels[k] = x
      /\ \A j, k \in 1..n : levels[j] = levels[k] => j = k
  BY DifferingLevelsListed, LenProperties, ElementOfSeq DEF Lists, IsInjective
<1>3. Len(OtherNames) \in Nat /\ \A k \in 1..Len(OtherNames) : OtherNames[k] \in Range(symbols) \ {BTC}
  <2> DEFINE R == Range(symbols) \ {BTC}
  <2>1. OtherNames \in Seq(R)
    BY OtherNamesListed DEF Lists
  <2> HIDE DEF R
  <2>2. Len(OtherNames) \in Nat /\ \A k \in 1..Len(OtherNames) : OtherNames[k] \in R
    BY <2>1, LenProperties, ElementOfSeq
  <2> QED BY <2>2 DEF R
<1>4. old \in VenueBook /\ new \in VenueBook /\ IS_BOOK_CLEAR_NEEDED \in BOOLEAN /\ AsBook(old) \in BookType
  BY AsBookType DEF Shown, IS_BOOK_CLEAR_NEEDED
<1>5. acc = Going(AsBook(old), NoSymbol) /\ acc \in ProgressType
  <2>1. acc = Going(AsBook(old), NoSymbol)
    BY <1>1 DEF Begin, Going
  <2> HIDE DEF m
  <2> QED BY <1>1, <1>4, <2>1, BeginType
<1> HIDE DEF m, levels, n, acc, r, L
<1>6. /\ r \in [Nat -> ProgressType]
      /\ \A k \in Nat : r[k] = IF k < 1 THEN acc ELSE Round(r[k - 1], m, k, IS_BOOK_CLEAR_NEEDED)
  <2>1. m \in MessageType /\ acc \in ProgressType /\ IS_BOOK_CLEAR_NEEDED \in BOOLEAN
    BY <1>1, <1>4, <1>5, Zenon
  <2> QED BY <2>1, RoundsDef DEF r
<1>7. Done[0] = {} /\ Done[n] = L
  BY <1>2
<1>8. ASSUME NEW k \in Nat, k + 1 \in 1..n
      PROVE  /\ Done[k + 1] = Done[k] \cup {levels[k + 1]}
             /\ levels[k + 1] \notin Done[k] /\ Done[k] \in SUBSET L
  BY <1>2, <1>8
<1>a. /\ At[0] = Going(Mixed(old, new, Done[0]), NoSymbol)
      /\ \A k \in Nat : At[k].book = Mixed(old, new, Done[k]) /\ At[k].thrown = FALSE
      /\ \A k \in Nat : At[k + 1] = Going(Mixed(old, new, Done[k + 1]), "BTCUSDT")
  <2> HIDE DEF Done
  <2>1. \A k \in Nat : k + 1 \in Nat /\ k + 1 # 0
    OBVIOUS
  <2>2. \A k \in Nat : At[k + 1] = Going(Mixed(old, new, Done[k + 1]), "BTCUSDT")
    BY <2>1
  <2> QED BY <2>2, GoingOn
<1>b. \A k \in Nat : At[k] = Going(Mixed(old, new, Done[k]), IF k = 0 THEN NoSymbol ELSE "BTCUSDT")
  OBVIOUS
<1> HIDE DEF Done, At
<1> DEFINE S == {k \in Nat : k \in 0..n => r[k] = At[k]}
<1>9. Nat \subseteq S
  <2>1. 0 \in S
    <3>1. r[0] = acc
      BY <1>6
    <3>2. Mixed(old, new, Done[0]) = AsBook(old)
      BY <1>4, <1>7, MixedStart
    <3> QED BY <1>5, <1>a, <3>1, <3>2
  <2>2. ASSUME NEW k \in Nat, k \in S PROVE k + 1 \in S
    <3>1. CASE k + 1 \notin 1..n
      BY <1>2, <3>1
    <3>2. CASE k + 1 \in 1..n
      <4>1. r[k] = At[k]
        BY <1>2, <2>2, <3>2
      <4>2. r[k + 1] = Round(r[k], m, k + 1, IS_BOOK_CLEAR_NEEDED)
        BY <1>6
      <4>3. PICK s \in Sides, q \in Quotes : levels[k + 1] = <<s, q>> /\ q \in Differs(old, new, s)
        <5>1. levels[k + 1] \in DifferingLevels(old, new)
          BY <1>2, <3>2 DEF L
        <5> QED BY <5>1 DEF DifferingLevels
      <4>4. m.entries[k + 1] = LevelEntry(old, new, s, q, k + 1)
        BY <1>1, <3>2, <4>3
      <4>5. Iterates(r[k], m, k + 1)
        BY <1>1, <1>2, <1>3, <1>a, <3>2, <4>1 DEF Iterates
      <4>6. r[k + 1] = IncrementEntry(At[k], LevelEntry(old, new, s, q, k + 1), k + 1, IS_BOOK_CLEAR_NEEDED)
        BY <1>1, <4>1, <4>2, <4>4, <4>5 DEF Round, Entry
      <4>7. k + 1 \in Nat \ {0} /\ <<s, q>> \notin Done[k] /\ Done[k] \in SUBSET DifferingLevels(old, new)
            /\ Done[k + 1] = Done[k] \cup {<<s, q>>}
        BY <1>8, <3>2, <4>3 DEF L
      <4>8. IncrementEntry(At[k], LevelEntry(old, new, s, q, k + 1), k + 1, IS_BOOK_CLEAR_NEEDED)
              = Going(Mixed(old, new, Done[k] \cup {<<s, q>>}), "BTCUSDT")
        <5> DEFINE x == IF k = 0 THEN NoSymbol ELSE "BTCUSDT"
        <5>1. k + 1 = 1 \/ x = "BTCUSDT"
          OBVIOUS
        <5>2. At[k] = Going(Mixed(old, new, Done[k]), x)
          BY <1>b
        <5> HIDE DEF x
        <5>3. IncrementEntry(Going(Mixed(old, new, Done[k]), x),
                             LevelEntry(old, new, s, q, k + 1), k + 1, IS_BOOK_CLEAR_NEEDED)
                = Going(Mixed(old, new, Done[k] \cup {<<s, q>>}), "BTCUSDT")
          <6>1. /\ k + 1 \in Nat \ {0} /\ s \in Sides /\ q \in Differs(old, new, s)
                /\ Done[k] \in SUBSET DifferingLevels(old, new) /\ <<s, q>> \notin Done[k]
                /\ Shown(old) /\ Shown(new)
            BY <4>3, <4>7
          <6> QED BY <5>1, <6>1, LevelRound
        <5> QED BY <5>2, <5>3
      <4> QED BY <1>a, <4>6, <4>7, <4>8
    <3> QED BY <3>1, <3>2
  <2> HIDE DEF S
  <2> QED BY <2>1, <2>2, Induction
<1>10. r[n].book = AsBook(new) /\ r[n].thrown = FALSE
  <2>1. r[n] = At[n]
    BY <1>2, <1>9
  <2>2. Mixed(old, new, Done[n]) = AsBook(new)
    BY <1>7, MixedEnd DEF L
  <2> QED BY <1>2, <1>a, <2>1, <2>2
<1> DEFINE Z == {k \in Nat : k >= n => r[k].book = r[n].book /\ r[k].thrown = FALSE}
<1>11. Nat \subseteq Z
  <2>1. 0 \in Z
    BY <1>2, <1>10
  <2>2. ASSUME NEW k \in Nat, k \in Z PROVE k + 1 \in Z
    <3>1. CASE k + 1 <= n
      BY <1>2, <1>10, <3>1
    <3>2. CASE k >= n
      <4>1. r[k].book = r[n].book /\ r[k].thrown = FALSE /\ r[k + 1] = Round(r[k], m, k + 1, IS_BOOK_CLEAR_NEEDED)
        BY <1>6, <2>2, <3>2
      <4>2. CASE ~Iterates(r[k], m, k + 1)
        BY <4>1, <4>2 DEF Round
      <4>3. CASE Iterates(r[k], m, k + 1)
        <5>1. (k + 1) - n \in 1..Len(OtherNames) /\ k + 1 = n + ((k + 1) - n)
          BY <1>1, <1>2, <1>3, <3>2, <4>3 DEF Iterates
        <5>2. m.entries[k + 1] = OtherEntry(OtherNames[(k + 1) - n])
          BY <1>1, <5>1
        <5>3. r[k + 1] = IncrementEntry(r[k], OtherEntry(OtherNames[(k + 1) - n]), k + 1, IS_BOOK_CLEAR_NEEDED)
          BY <1>1, <4>1, <4>3, <5>2 DEF Round, Entry
        <5>4. r[k + 1] = Going(r[k].book, from_str(OtherNames[(k + 1) - n]))
          BY <1>3, <5>1, <5>3, OtherRound
        <5> QED BY <4>1, <5>4, GoingOn
      <4> QED BY <4>2, <4>3
    <3>3. k + 1 <= n \/ k >= n
      BY <1>2
    <3> QED BY <3>1, <3>2, <3>3
  <2> HIDE DEF Z
  <2> QED BY <2>1, <2>2, Induction
<1>12. Apply(AsBook(old), m, IS_BOOK_CLEAR_NEEDED) = r[Len(m.entries)] /\ Len(m.entries) \in Nat /\ Len(m.entries) >= n
  BY <1>1, <1>2, <1>3 DEF Apply, Remaining, r, acc
<1>13. Apply(AsBook(old), m, IS_BOOK_CLEAR_NEEDED).book = AsBook(new)
  BY <1>10, <1>11, <1>12
<1> QED BY <1>13 DEF m

-----------------------------------------------------------------------------
(* Snapshots.                                                              *)

SnapshotEntries == [type: EntryTypes, px: Quotes, sz: Amounts]
LEMMA OfferedLevelsListed ==
  ASSUME NEW v
  PROVE  Lists(SetToSeq(OfferedLevels(v)), OfferedLevels(v))
<1>1. IsFiniteSet(Sides)
  <2>1. IsFiniteSet({"BID"}) /\ IsFiniteSet({"OFFER"}) /\ Sides = {"BID"} \cup {"OFFER"}
    BY FS_Singleton DEF Sides
  <2> QED BY <2>1, FS_Union
<1>2. IsFiniteSet(Sides \X Quotes)
  BY <1>1, FS_Product, FeedAssumption
<1>3. OfferedLevels(v) \in SUBSET (Sides \X Quotes)
  BY DEF OfferedLevels
<1>4. IsFiniteSet(OfferedLevels(v))
  BY <1>2, <1>3, FS_Subset
<1> QED BY <1>4, SetToSeqLists

LEMMA SnapshotIsOfTheFeed ==
  ASSUME NEW v \in VenueBook
  PROVE  LET m == SnapshotOf(v)
             levels == SetToSeq(OfferedLevels(v))
         IN  /\ m \in FeedMessages /\ Resets(m)
             /\ Len(m.entries) = Len(levels)
             /\ \A k \in 1..Len(levels) :
                  m.entries[k] = [type |-> levels[k][1], px |-> levels[k][2],
                                  sz |-> v[levels[k][1]][levels[k][2]]]
<1> DEFINE L == OfferedLevels(v)
           levels == SetToSeq(L)
           entries == [k \in DOMAIN levels |->
                         [type |-> levels[k][1], px |-> levels[k][2],
                          sz |-> v[levels[k][1]][levels[k][2]]]]
<1>1. /\ levels \in Seq(L) /\ Len(levels) \in Nat /\ DOMAIN levels = 1..Len(levels)
      /\ \A k \in 1..Len(levels) : levels[k] \in L
  BY OfferedLevelsListed, LenProperties, ElementOfSeq DEF Lists
<1>2. ASSUME NEW l \in L
      PROVE  [type |-> l[1], px |-> l[2], sz |-> v[l[1]][l[2]]] \in SnapshotEntries
  BY DEF OfferedLevels, Offered, VenueBook, Amount, SnapshotEntries, EntryTypes
<1>3. SnapshotOf(v) = [kind |-> "W", symbol |-> BTC, entries |-> entries]
  BY DEF SnapshotOf
<1> HIDE DEF levels, L
<1>4. entries \in Seq(SnapshotEntries) /\ Len(entries) = Len(levels)
  <2>1. \A k \in 1..Len(levels) :
          [type |-> levels[k][1], px |-> levels[k][2], sz |-> v[levels[k][1]][levels[k][2]]]
            \in SnapshotEntries
    BY <1>1, <1>2
  <2> QED BY <1>1, <2>1
<1>5. \A k \in 1..Len(levels) :
        entries[k] = [type |-> levels[k][1], px |-> levels[k][2], sz |-> v[levels[k][1]][levels[k][2]]]
  BY <1>1
<1> HIDE DEF entries
<1>6. SnapshotOf(v) \in MessageType
  BY <1>3, <1>4, FeedAssumption DEF MessageType, Snapshots, SnapshotEntries
<1>7. SnapshotOf(v) \in FeedMessages /\ Resets(SnapshotOf(v))
  BY <1>3, <1>6, FeedAssumption DEF FeedMessages, Resets
<1> QED BY <1>3, <1>4, <1>5, <1>7 DEF levels, L

\* The levels of v at those of D, and no others.
Part(v, D) == [s \in Sides |-> [p \in Prices |->
                 IF <<s, QuoteOf(p)>> \in D THEN Size(v[s][QuoteOf(p)]) ELSE NoLevel]]
LEMMA SnapshotRound ==
  ASSUME NEW v \in VenueBook, NEW D, NEW s \in Sides, NEW q \in Offered(v, s)
  PROVE  SnapshotEntry(Going(Part(v, D), "BTCUSDT"), [type |-> s, px |-> q, sz |-> v[s][q]])
           = Going(Part(v, D \cup {<<s, q>>}), "BTCUSDT")
<1> DEFINE before == Part(v, D)
           after == Part(v, D \cup {<<s, q>>})
           new == [before EXCEPT ![s][PxTicks[q]] = SzTicks[v[s][q]]]
<1>1. q \in Quotes /\ v[s][q] # NoLevel /\ PxTicks[q] \in Prices
  BY QuoteOfKey DEF Offered
<1>2. \A p \in Prices : (p = PxTicks[q]) <=> (QuoteOf(p) = q)
  BY <1>1, QuoteOfKey
<1>3. /\ DOMAIN before = Sides /\ DOMAIN after = Sides
      /\ \A t \in Sides : DOMAIN before[t] = Prices /\ DOMAIN after[t] = Prices
      /\ before = [t \in Sides |-> before[t]] /\ after = [t \in Sides |-> after[t]]
      /\ \A t \in Sides : /\ before[t] = [p \in Prices |-> before[t][p]]
                          /\ after[t] = [p \in Prices |-> after[t][p]]
  BY DEF Part
<1>4. ASSUME NEW p \in Prices
      PROVE  after[s][p] = IF p = PxTicks[q] THEN SzTicks[v[s][q]] ELSE before[s][p]
  BY <1>1, <1>2 DEF Part, Size
<1>5. ASSUME NEW t \in Sides, t # s, NEW p \in Prices PROVE after[t][p] = before[t][p]
  BY <1>5 DEF Part
<1>6. new = after
  <2>1. new = [before EXCEPT ![s] = [before[s] EXCEPT ![PxTicks[q]] = SzTicks[v[s][q]]]]
    OBVIOUS
  <2> HIDE DEF before, after, new
  <2>2. [before[s] EXCEPT ![PxTicks[q]] = SzTicks[v[s][q]]] = after[s]
    BY <1>1, <1>3, <1>4
  <2>3. ASSUME NEW t \in Sides, t # s PROVE before[t] = after[t]
    BY <1>3, <1>5, <2>3
  <2> QED BY <1>3, <2>1, <2>2, <2>3
<1>7. SnapshotEntry(Going(before, "BTCUSDT"), [type |-> s, px |-> q, sz |-> v[s][q]])
        = Going(new, "BTCUSDT")
  BY DEF SnapshotEntry, Going, Progress
<1> HIDE DEF new
<1> QED BY <1>6, <1>7

\* A snapshot of the venue makes any book the published one.
LEMMA SnapshotApplied ==
  ASSUME NEW v \in VenueBook, NEW b \in BookType, NEW clear \in BOOLEAN
  PROVE  Apply(b, SnapshotOf(v), clear).book = AsBook(v)
<1> DEFINE m == SnapshotOf(v)
           L == OfferedLevels(v)
           levels == SetToSeq(L)
           n == Len(levels)
           acc == Begin(b, m)
           r == Rounds(acc, m, 1, clear)
           Done == [k \in Nat |-> {levels[j] : j \in 1..k}]
           At == [k \in Nat |-> Going(Part(v, Done[k]), "BTCUSDT")]
<1>1. /\ m \in MessageType /\ m.kind = "W" /\ m.symbol = BTC /\ Len(m.entries) = n
      /\ \A k \in 1..n : m.entries[k] = [type |-> levels[k][1], px |-> levels[k][2],
                                         sz |-> v[levels[k][1]][levels[k][2]]]
  <2> HIDE DEF n, levels, L, m
  <2> QED BY SnapshotIsOfTheFeed DEF n, levels, L, m, FeedMessages, Resets
<1>2. /\ n \in Nat /\ \A k \in 1..n : levels[k] \in L
      /\ \A x \in L : \E k \in 1..n : levels[k] = x
  BY OfferedLevelsListed, LenProperties, ElementOfSeq DEF Lists
<1>3. acc = Going(EmptyBook, "BTCUSDT")
  <2>1. IsBTC(BTC) /\ Known(BTC) /\ from_str(BTC) = "BTCUSDT"
    BY FeedAssumption, NameAssumption DEF IsBTC
  <2> HIDE DEF m
  <2> QED BY <1>1, <2>1 DEF Begin, SnapshotBegin, SnapshotBase, Going
<1>4. acc \in ProgressType
  <2> HIDE DEF m
  <2> QED BY <1>1, BeginType
<1> HIDE DEF m, levels, n, acc, r, L
<1>5. /\ r \in [Nat -> ProgressType]
      /\ \A k \in Nat : r[k] = IF k < 1 THEN acc ELSE Round(r[k - 1], m, k, clear)
  <2>1. m \in MessageType
    BY <1>1
  <2> QED BY <1>4, <2>1, RoundsDef DEF r
<1>6. Done[0] = {} /\ Done[n] = L /\ \A k \in Nat : Done[k + 1] = Done[k] \cup {levels[k + 1]}
  BY <1>2
<1> HIDE DEF Done
<1>7. /\ \A k \in Nat : At[k].thrown = FALSE /\ At[k].symbol = "BTCUSDT" /\ At[k].book = Part(v, Done[k])
      /\ \A k \in Nat : At[k] = Going(Part(v, Done[k]), "BTCUSDT")
  BY GoingOn
<1>8. r[0] = At[0]
  <2>1. Part(v, {}) = EmptyBook
    BY DEF Part, EmptyBook, EmptySide
  <2>2. At[0] = Going(Part(v, Done[0]), "BTCUSDT")
    OBVIOUS
  <2>3. r[0] = acc
    BY <1>5
  <2> HIDE DEF At
  <2> QED BY <1>3, <1>6, <2>1, <2>2, <2>3, Zenon
<1> HIDE DEF At
<1> DEFINE S == {k \in Nat : k \in 0..n => r[k] = At[k]}
<1>9. Nat \subseteq S
  <2>1. 0 \in S
    BY <1>8
  <2>2. ASSUME NEW k \in Nat, k \in S PROVE k + 1 \in S
    <3>1. CASE k + 1 \notin 1..n
      BY <1>2, <3>1
    <3>2. CASE k + 1 \in 1..n
      <4>1. r[k] = At[k]
        BY <1>2, <2>2, <3>2
      <4>2. PICK s \in Sides, q \in Quotes : levels[k + 1] = <<s, q>> /\ q \in Offered(v, s)
        <5>1. levels[k + 1] \in OfferedLevels(v)
          BY <1>2, <3>2 DEF L
        <5> QED BY <5>1 DEF OfferedLevels
      <4>3. m.entries[k + 1] = [type |-> s, px |-> q, sz |-> v[s][q]]
        BY <1>1, <3>2, <4>2
      <4>4. Iterates(r[k], m, k + 1)
        BY <1>1, <1>2, <1>7, <3>2, <4>1 DEF Iterates
      <4>5. r[k + 1] = Round(r[k], m, k + 1, clear)
        BY <1>5
      <4>6. r[k + 1] = SnapshotEntry(At[k], [type |-> s, px |-> q, sz |-> v[s][q]])
        BY <1>1, <4>1, <4>3, <4>4, <4>5 DEF Round, Entry
      <4>7. r[k + 1] = Going(Part(v, Done[k] \cup {<<s, q>>}), "BTCUSDT")
        BY <1>7, <4>2, <4>6, SnapshotRound
      <4>8. k + 1 \in Nat /\ Done[k + 1] = Done[k] \cup {<<s, q>>}
        <5>1. Done[k + 1] = Done[k] \cup {levels[k + 1]}
          BY <1>6
        <5> QED BY <4>2, <5>1
      <4>9. r[k + 1] = At[k + 1]
        BY <1>7, <4>7, <4>8
      <4> QED BY <4>8, <4>9
    <3> QED BY <3>1, <3>2
  <2> HIDE DEF S
  <2> QED BY <2>1, <2>2, Induction
<1>10. r[n].book = Part(v, L)
  BY <1>2, <1>6, <1>7, <1>9
<1>11. Part(v, L) = AsBook(v)
  <2>1. ASSUME NEW s \in Sides, NEW p \in Prices
        PROVE  (IF <<s, QuoteOf(p)>> \in L THEN Size(v[s][QuoteOf(p)]) ELSE NoLevel)
                 = Size(v[s][QuoteOf(p)])
    BY QuoteOfKey DEF L, OfferedLevels, Offered, Size
  <2> QED BY <2>1 DEF Part, AsBook
<1>12. Apply(b, m, clear) = r[n]
  BY <1>1 DEF Apply, Remaining, r, acc
<1> QED BY <1>10, <1>11, <1>12 DEF m

\* What the venue sends for a subscription.
Served == [k \in DOMAIN symbols |-> Snapshot(symbols[k])]
LEMMA ServedIsOfTheFeed ==
  ASSUME symbols \in SymbolLists, venue \in VenueBook
  PROVE  /\ Served \in Seq(FeedMessages) /\ Len(Served) = Len(symbols) /\ Len(Served) \in Nat
         /\ \A k \in 1..Len(symbols) : Served[k] = SnapshotOf(View(venue)) \/ Skipped(Served[k])
         /\ \E k \in 1..Len(symbols) : Resets(Served[k])
         /\ \A k \in 1..Len(symbols) : Resets(Served[k]) => Served[k] = SnapshotOf(View(venue))
<1>1. /\ symbols \in Seq(SymbolNames) /\ Len(symbols) \in Nat /\ DOMAIN symbols = 1..Len(symbols)
      /\ \A k \in 1..Len(symbols) : symbols[k] \in SymbolNames /\ symbols[k] \in Range(symbols)
  BY FeedAssumption, LenProperties, ElementOfSeq DEF Range
<1>2. SnapshotOf(View(venue)) \in FeedMessages /\ Resets(SnapshotOf(View(venue)))
  BY ViewIsShown, SnapshotIsOfTheFeed DEF Shown
<1>3. ASSUME NEW n \in Range(symbols), n # BTC
      PROVE  Snapshot(n) \in FeedMessages /\ Skipped(Snapshot(n))
  <2>1. n \in SymbolNames /\ Known(n) /\ ~IsBTC(n)
    BY <1>3, OtherNamesListed
  <2>2. Snapshot(n) = [kind |-> "W", symbol |-> n, entries |-> <<OtherBid>>]
    BY <1>3 DEF Snapshot
  <2>3. OtherBid \in [type: EntryTypes, px: Quotes, sz: Amounts]
    <3>1. OtherBid = [type |-> OtherBid.type, px |-> OtherBid.px, sz |-> OtherBid.sz]
      BY DEF OtherBid
    <3> QED BY <3>1, OtherBidType DEF EntryTypes, Sides
  <2>4. <<OtherBid>> \in Seq([type: EntryTypes, px: Quotes, sz: Amounts])
    BY <2>3
  <2>5. Snapshot(n) \in MessageType
    BY <2>1, <2>2, <2>4 DEF MessageType, Snapshots
  <2> QED BY <1>3, <2>1, <2>2, <2>5 DEF FeedMessages, Skipped
<1>4. ASSUME NEW k \in 1..Len(symbols)
      PROVE  /\ Served[k] \in FeedMessages
             /\ symbols[k] = BTC => Served[k] = SnapshotOf(View(venue))
             /\ symbols[k] # BTC => Skipped(Served[k])
  <2>1. Served[k] = Snapshot(symbols[k])
    BY <1>1 DEF Served
  <2>2. CASE symbols[k] = BTC
    BY <1>2, <2>1, <2>2 DEF Snapshot
  <2>3. CASE symbols[k] # BTC
    BY <1>1, <1>3, <2>1, <2>3
  <2> QED BY <2>2, <2>3
<1>5. Served \in Seq(FeedMessages) /\ Len(Served) = Len(symbols)
  <2>1. \A k \in 1..Len(symbols) : Snapshot(symbols[k]) \in FeedMessages
    BY <1>1, <1>4 DEF Served
  <2> QED BY <1>1, <2>1 DEF Served
<1>6. \E k \in 1..Len(symbols) : symbols[k] = BTC
  BY <1>1, FeedAssumption DEF Range
<1>7. \A k \in 1..Len(symbols) : Skipped(Served[k]) => ~Resets(Served[k])
  BY DEF Skipped, Resets
<1> QED BY <1>1, <1>2, <1>4, <1>5, <1>6, <1>7

-----------------------------------------------------------------------------
(***************************************************************************)
(* Types, and why nothing throws: every message on the line or in the      *)
(* queue is one of the feed.  A line only carries messages of a            *)
(* subscription, and a subscription needs a session.                       *)
(***************************************************************************)
Carried == /\ wire \in Seq(FeedMessages)
           /\ order_queue \in [Lanes -> Seq(FeedMessages)]
Subscriptions == /\ session = "up" => connections # 0
                 /\ request => session = "up" /\ ~subscribed
                 /\ ~subscribed => wire = <<>>
                 /\ session = "down" => ~subscribed
TypeInv == TypeOK /\ Carried /\ Subscriptions /\ NeverFails

LEMMA FeedIsTyped == Seq(FeedMessages) \subseteq Seq(MessageType) /\ FeedMessages \subseteq MessageType
<1>1. FeedMessages \subseteq MessageType
  BY DEF FeedMessages
<1> QED BY <1>1, SeqMonotonic

LEMMA InitTypeInv == Init => TypeInv
<1> SUFFICES ASSUME Init PROVE TypeInv
  OBVIOUS
<1>1. 1 \in Lanes /\ MaxMoves \in Nat /\ MaxConnections \in Nat /\ Depths \subseteq Nat
  BY FeedAssumption DEF Lanes
<1>2. venue \in VenueBooks
  BY OpeningsAssumption DEF Init
<1>3. TypeOK
  <2>1. moves \in 0..MaxMoves /\ connections \in 0..MaxConnections
    BY <1>1 DEF Init
  <2>2. book \in BookType
    BY EmptyBookType DEF Init
  <2>3. request \in BOOLEAN /\ subscribed \in BOOLEAN /\ failed \in BOOLEAN
    BY DEF Init
  <2> QED BY <1>1, <1>2, <2>1, <2>2, <2>3 DEF Init, TypeOK
<1>4. Carried
  BY EmptySeq DEF Init, Carried
<1> QED BY <1>3, <1>4 DEF Init, TypeInv, Subscriptions, NeverFails

LEMMA StepTypeInv == TypeInv /\ [Next]_vars => TypeInv'
<1> SUFFICES ASSUME TypeInv, [Next]_vars PROVE TypeInv'
  OBVIOUS
<1> USE DEF TypeInv, NeverFails
<1>0. /\ MaxMoves \in Nat /\ MaxConnections \in Nat \ {0}
      /\ symbols \in SymbolLists /\ venue \in VenueBook
      /\ connections \in 0..MaxConnections /\ moves \in 0..MaxMoves
  BY FeedAssumption DEF TypeOK, VenueBooks
<1>1. CASE VenueMoves
  <2>1. PICK b \in VenueBooks \ {venue} :
          /\ venue' = b
          /\ wire' = IF subscribed /\ View(b) # View(venue)
                     THEN Append(wire, IncrementOf(View(venue), View(b))) ELSE wire
    BY <1>1 DEF VenueMoves
  <2>2. IncrementOf(View(venue), View(b)) \in FeedMessages
    BY <1>0, ViewIsShown, IncrementIsOfTheFeed DEF VenueBooks
  <2>3. wire' \in Seq(FeedMessages) /\ (~subscribed => wire' = wire)
    BY <2>1, <2>2, AppendProperties DEF Carried
  <2>4. moves' \in 0..MaxMoves
    BY <1>0, <1>1 DEF VenueMoves
  <2>5. TypeOK'
    BY <1>1, <2>1, <2>4 DEF VenueMoves, TypeOK, configVars, sessionVars, queueVars, Lanes
  <2> QED BY <1>1, <2>3, <2>5 DEF VenueMoves, Carried, Subscriptions, sessionVars, queueVars, Lanes
<1>2. CASE VenueServes
  <2>1. wire' = wire \o Served /\ Served \in Seq(FeedMessages)
    BY <1>0, <1>2, ServedIsOfTheFeed DEF VenueServes, Served
  <2>2. wire' \in Seq(FeedMessages)
    BY <2>1, ConcatProperties DEF Carried
  <2>3. TypeOK'
    BY <1>2 DEF VenueServes, TypeOK, venueVars, configVars, queueVars, Lanes
  <2> QED BY <1>2, <2>2, <2>3 DEF VenueServes, Carried, Subscriptions, queueVars, Lanes
<1>3. CASE onLogon
  <2>1. connections' = connections + 1 /\ connections' \in 1..MaxConnections /\ lane' \in Lanes
    BY <1>0, <1>3 DEF onLogon, Lanes
  <2>2. TypeOK'
    BY <1>3, <2>1 DEF onLogon, TypeOK, venueVars, configVars, Lanes
  <2> QED BY <1>3, <2>1, <2>2 DEF onLogon, Carried, Subscriptions, Lanes
<1>4. CASE Disconnect
  <2>1. TypeOK'
    BY <1>4 DEF Disconnect, TypeOK, venueVars, configVars, queueVars, Lanes
  <2> QED BY <1>4, <2>1, EmptySeq DEF Disconnect, Carried, Subscriptions, queueVars, Lanes
<1>5. CASE onMessage
  <2>1. Head(wire) \in FeedMessages /\ Tail(wire) \in Seq(FeedMessages)
    BY <1>5, HeadTailProperties DEF onMessage, Carried
  <2>2. Append(order_queue[lane], Head(wire)) \in Seq(FeedMessages)
    BY <2>1, AppendProperties DEF Carried, TypeOK
  <2>3. order_queue' \in [Lanes -> Seq(FeedMessages)]
    BY <1>5, <2>2 DEF onMessage, Carried, Queued
  <2>4. connections \in Lanes /\ outrun' \subseteq Lanes
    <3>1. subscribed /\ session # "down"
      BY <1>5 DEF onMessage, Subscriptions
    <3>2. session = "up"
      BY <3>1 DEF TypeOK
    <3>3. connections \in Lanes
      BY <1>0, <3>2 DEF Subscriptions, Lanes
    <3> QED BY <1>5, <3>3 DEF onMessage, TypeOK
  <2>5. TypeOK'
    BY <1>5, <2>4 DEF onMessage, TypeOK, venueVars, configVars, sessionVars, Lanes
  <2>6. subscribed
    BY <1>5 DEF onMessage, Subscriptions
  <2> QED BY <1>5, <2>1, <2>3, <2>5, <2>6 DEF onMessage, Carried, Subscriptions, sessionVars, Lanes
<1>6. CASE ApplyHead
  <2>1. PICK l \in Lanes :
          /\ order_queue[l] # <<>>
          /\ book' = Apply(book, Head(order_queue[l]), IS_BOOK_CLEAR_NEEDED).book
          /\ failed' = Apply(book, Head(order_queue[l]), IS_BOOK_CLEAR_NEEDED).thrown
          /\ order_queue' = [order_queue EXCEPT ![l] = Tail(@)]
          /\ UNCHANGED <<venueVars, sessionVars, subscribed, wire, lane, outrun>>
    BY <1>6 DEF ApplyHead, Visit
  <2>2. Head(order_queue[l]) \in FeedMessages /\ Tail(order_queue[l]) \in Seq(FeedMessages)
    BY <2>1, HeadTailProperties DEF Carried
  <2>3. book \in BookType /\ IS_BOOK_CLEAR_NEEDED \in BOOLEAN
    BY DEF TypeOK, IS_BOOK_CLEAR_NEEDED
  <2>4. book' \in BookType
    BY <2>1, <2>2, <2>3, ApplyType, FeedIsTyped DEF ProgressType
  <2>5. failed' = FALSE
    BY <2>1, <2>2, <2>3, FeedNeverThrows
  <2>6. order_queue' \in [Lanes -> Seq(FeedMessages)]
    BY <2>1, <2>2 DEF Carried
  <2>7. TypeOK'
    BY <2>1, <2>4, <2>5 DEF TypeOK, venueVars, configVars, sessionVars, Lanes
  <2> QED BY <2>1, <2>5, <2>6, <2>7 DEF Carried, Subscriptions, sessionVars, Lanes
<1>7. CASE UNCHANGED vars
  BY <1>7 DEF vars, venueVars, configVars, sessionVars, queueVars, TypeOK, Carried, Subscriptions, Lanes
<1> QED BY <1>1, <1>2, <1>3, <1>4, <1>5, <1>6, <1>7 DEF Next

\* Every variable keeps its type: the book holds sizes at keys, whatever comes.
THEOREM TypeCorrect == Spec => []TypeOK
<1>1. TypeInv => TypeOK
  BY DEF TypeInv
<1> QED BY <1>1, InitTypeInv, StepTypeInv, PTL DEF Spec

\* No message of the feed ends the worker, in whatever order the lanes are
\* served.
THEOREM WorkerSurvives == Spec => []NeverFails
<1>1. TypeInv => NeverFails
  BY DEF TypeInv
<1> QED BY <1>1, InitTypeInv, StepTypeInv, PTL DEF Spec

-----------------------------------------------------------------------------
(***************************************************************************)
(* In step.  A message applied from another lane than the present one      *)
(* changes the book under the messages that are coming; that is harmless   *)
(* as long as the snapshot is among those.  NoLaneOutlasts says it is,     *)
(* unless no other lane has anything left.                                 *)
(***************************************************************************)
NoLaneOutlasts ==
  (subscribed /\ connections \notin outrun) =>
    \/ \E j \in DOMAIN wire : Resets(wire[j])
    \/ \A l \in Lanes \ {lane} : order_queue[l] = <<>>

LEMMA StepNoLaneOutlasts == TypeInv /\ NoLaneOutlasts /\ [Next]_vars => NoLaneOutlasts'
<1> SUFFICES ASSUME TypeInv, NoLaneOutlasts, [Next]_vars,
                    subscribed', connections' \notin outrun'
             PROVE  \/ \E j \in DOMAIN wire' : Resets(wire'[j])
                    \/ \A l \in Lanes \ {lane'} : order_queue'[l] = <<>>
  BY DEF NoLaneOutlasts, Lanes
<1>0. wire \in Seq(FeedMessages) /\ order_queue \in [Lanes -> Seq(FeedMessages)]
      /\ symbols \in SymbolLists /\ venue \in VenueBook /\ lane \in Lanes
  BY DEF TypeInv, Carried, TypeOK, VenueBooks
<1>1. CASE VenueMoves
  <2>1. PICK b \in VenueBooks \ {venue} :
          wire' = IF subscribed /\ View(b) # View(venue)
                  THEN Append(wire, IncrementOf(View(venue), View(b))) ELSE wire
    BY <1>1 DEF VenueMoves
  <2>2. \A j \in DOMAIN wire : j \in DOMAIN wire' /\ wire'[j] = wire[j]
    <3>1. CASE wire' = wire
      BY <3>1
    <3>2. CASE wire' = Append(wire, IncrementOf(View(venue), View(b)))
      <4>1. IncrementOf(View(venue), View(b)) \in FeedMessages
        BY <1>0, ViewIsShown, IncrementIsOfTheFeed DEF VenueBooks
      <4> QED BY <1>0, <3>2, <4>1, AppendProperties, LenProperties
    <3> QED BY <2>1, <3>1, <3>2
  <2>3. /\ subscribed /\ connections \notin outrun
        /\ lane' = lane /\ order_queue' = order_queue
    BY <1>1 DEF VenueMoves, sessionVars, queueVars
  <2> QED BY <2>2, <2>3 DEF NoLaneOutlasts
<1>2. CASE VenueServes
  <2>1. wire' = wire \o Served
    BY <1>2 DEF VenueServes, Served
  <2>2. PICK k \in 1..Len(symbols) : Resets(Served[k])
    BY <1>0, ServedIsOfTheFeed
  <2>3. Served \in Seq(FeedMessages) /\ k \in 1..Len(Served)
    BY <1>0, ServedIsOfTheFeed
  <2>4. Len(wire) + k \in DOMAIN wire' /\ wire'[Len(wire) + k] = Served[k]
    BY <1>0, <2>1, <2>3, ConcatProperties, LenProperties
  <2> QED BY <2>2, <2>4
<1>3. CASE onLogon
  BY <1>3 DEF onLogon, TypeInv, Subscriptions
<1>4. CASE Disconnect
  BY <1>4 DEF Disconnect
<1>5. CASE onMessage
  <2>1. /\ wire # <<>> /\ subscribed /\ connections \notin outrun /\ connections \notin outrun'
        /\ lane' = lane /\ connections' = connections
        /\ wire' = Tail(wire)
        /\ \A l \in Lanes \ {lane} : order_queue'[l] = order_queue[l]
    BY <1>0, <1>5 DEF onMessage, sessionVars
  <2>2. CASE \A l \in Lanes \ {lane} : order_queue[l] = <<>>
    BY <2>1, <2>2
  <2>3. CASE \E j \in DOMAIN wire : Resets(wire[j])
    <3>1. PICK j \in DOMAIN wire : Resets(wire[j])
      BY <2>3
    <3>2. CASE j = 1
      <4>1. Head(wire) = wire[1]
        BY <1>0, <2>1
      <4>2. ~Outruns(Head(wire))
        BY <1>5, <2>1 DEF onMessage
      <4> QED BY <2>1, <3>1, <3>2, <4>1, <4>2 DEF Outruns, Resets
    <3>3. CASE j # 1
      <4>1. j - 1 \in DOMAIN wire' /\ wire'[j - 1] = wire[j]
        <5>1. j \in 1..Len(wire) /\ Len(wire) \in Nat
          BY <1>0, LenProperties
        <5>2. Tail(wire) \in Seq(FeedMessages) /\ Len(Tail(wire)) = Len(wire) - 1
              /\ \A i \in 1..Len(Tail(wire)) : Tail(wire)[i] = wire[i + 1]
          BY <1>0, <2>1, HeadTailProperties
        <5>3. DOMAIN Tail(wire) = 1..Len(Tail(wire))
          BY <5>2, LenProperties
        <5>4. j - 1 \in 1..Len(Tail(wire)) /\ (j - 1) + 1 = j
          BY <3>3, <5>1, <5>2
        <5> QED BY <2>1, <5>2, <5>3, <5>4
      <4> QED BY <3>1, <4>1
    <3> QED BY <3>2, <3>3
  <2> QED BY <2>1, <2>2, <2>3 DEF NoLaneOutlasts
<1>6. CASE ApplyHead
  <2>1. PICK l \in Lanes : order_queue' = [order_queue EXCEPT ![l] = Tail(@)]
                           /\ order_queue[l] # <<>>
    BY <1>6 DEF ApplyHead
  <2>2. \A k \in Lanes : order_queue[k] = <<>> => order_queue'[k] = <<>>
    BY <1>0, <2>1
  <2>3. /\ subscribed /\ connections \notin outrun /\ lane' = lane /\ wire' = wire
    BY <1>6 DEF ApplyHead, sessionVars
  <2> QED BY <2>2, <2>3 DEF NoLaneOutlasts
<1>7. CASE UNCHANGED vars
  BY <1>7 DEF vars, venueVars, sessionVars, queueVars, NoLaneOutlasts
<1> QED BY <1>1, <1>2, <1>3, <1>4, <1>5, <1>6, <1>7 DEF Next

\* One more message behind the others.
LEMMA ReplayAppend ==
  ASSUME NEW b \in BookType, NEW ms \in Seq(MessageType), NEW m \in MessageType,
         NEW clear \in BOOLEAN
  PROVE  /\ \A k \in 0..Len(ms) : Replay(b, Append(ms, m), clear)[k] = Replay(b, ms, clear)[k]
         /\ Replay(b, Append(ms, m), clear)[Len(ms) + 1]
              = Apply(Replay(b, ms, clear)[Len(ms)], m, clear).book
<1> DEFINE all == Append(ms, m)
<1>1. all = ms \o <<m>> /\ <<m>> \in Seq(MessageType)
  OBVIOUS
<1>a. \A k \in 0..Len(ms) : Replay(b, ms \o <<m>>, clear)[k] = Replay(b, ms, clear)[k]
  BY <1>1, ReplayPrefix
<1>2. /\ all \in Seq(MessageType) /\ Len(all) = Len(ms) + 1 /\ all[Len(ms) + 1] = m
      /\ Len(ms) \in Nat
  BY AppendProperties, LenProperties
<1>3. \A k \in 0..Len(ms) : Replay(b, all, clear)[k] = Replay(b, ms, clear)[k]
  <2> HIDE DEF all
  <2> QED BY <1>1, <1>a
<1> HIDE DEF all
<1>4. Replay(b, all, clear)[Len(ms) + 1] = Apply(Replay(b, all, clear)[Len(ms)], m, clear).book
  <2>1. Len(ms) + 1 \in 1..Len(all) /\ (Len(ms) + 1) - 1 = Len(ms)
    BY <1>2
  <2>2. \A k \in 1..Len(all) :
          Replay(b, all, clear)[k] = Apply(Replay(b, all, clear)[k - 1], all[k], clear).book
    BY <1>2, ReplayDef
  <2> QED BY <1>2, <2>1, <2>2
<1> QED BY <1>2, <1>3, <1>4 DEF all

\* What is served leaves the book up to the snapshot of BTC, and makes it the
\* published one there.
LEMMA ReplayServed ==
  ASSUME symbols \in SymbolLists, venue \in VenueBook,
         NEW b \in BookType, NEW ms \in Seq(FeedMessages), NEW clear \in BOOLEAN,
         NEW k \in 0..Len(Served)
  PROVE  LET r == Replay(b, ms \o Served, clear)
         IN  /\ (\E j \in 1..k : Resets(Served[j])) => r[Len(ms) + k] = AsBook(View(venue))
             /\ r[Len(ms) + k] \in {r[Len(ms)], AsBook(View(venue))}
<1> DEFINE all == ms \o Served
           r == Replay(b, all, clear)
           n == Len(ms)
           B == AsBook(View(venue))
           Met(i) == (\E j \in 1..i : Resets(Served[j])) => r[n + i] = B
           S == {i \in Nat : i <= Len(Served) => Met(i) /\ r[n + i] \in {r[n], B}}
<1>1. /\ Served \in Seq(FeedMessages) /\ Len(Served) \in Nat
      /\ \A i \in 1..Len(Served) : Served[i] = SnapshotOf(View(venue)) \/ Skipped(Served[i])
  BY ServedIsOfTheFeed
<1>2. n \in Nat /\ all \in Seq(FeedMessages) /\ Len(all) = n + Len(Served)
      /\ \A i \in 1..Len(Served) : all[n + i] = Served[i]
  BY <1>1, ConcatProperties, LenProperties
<1>3. View(venue) \in VenueBook
  BY ViewIsShown DEF Shown
<1> HIDE DEF all
<1>4. r \in [0..Len(all) -> BookType] /\ \A i \in 1..Len(all) : r[i] = Apply(r[i - 1], all[i], clear).book
  BY <1>2, ReplayDef, FeedIsTyped
<1> HIDE DEF r, n, B
<1>5. Nat \subseteq S
  <2>1. 0 \in S
    BY <1>2
  <2>2. ASSUME NEW i \in Nat, i \in S PROVE i + 1 \in S
    <3> SUFFICES ASSUME i + 1 <= Len(Served) PROVE Met(i + 1) /\ r[n + (i + 1)] \in {r[n], B}
      OBVIOUS
    <3>1. /\ i + 1 \in 1..Len(Served) /\ n + (i + 1) \in 1..Len(all) /\ n + i \in 0..Len(all)
          /\ (n + (i + 1)) - 1 = n + i
      BY <1>1, <1>2
    <3>2. r[n + (i + 1)] = Apply(r[n + i], Served[i + 1], clear).book
      BY <1>2, <1>4, <3>1
    <3>3. Met(i) /\ r[n + i] \in {r[n], B} /\ r[n + i] \in BookType
      BY <1>1, <1>4, <2>2, <3>1
    <3>4. CASE Served[i + 1] = SnapshotOf(View(venue))
      <4>1. r[n + (i + 1)] = B
        BY <1>3, <3>2, <3>3, <3>4, SnapshotApplied DEF B
      <4> QED BY <4>1
    <3>5. CASE Skipped(Served[i + 1])
      <4>1. Served[i + 1] \in FeedMessages
        BY <1>1, <3>1, ElementOfSeq
      <4>2. r[n + (i + 1)] = r[n + i]
        BY <3>2, <3>3, <3>5, <4>1, SkippedLeavesBook
      <4>3. ~Resets(Served[i + 1])
        BY <3>5 DEF Skipped, Resets
      <4>4. ASSUME NEW j \in 1..(i + 1), Resets(Served[j]) PROVE \E h \in 1..i : Resets(Served[h])
        <5>1. j # i + 1
          BY <4>3, <4>4
        <5>2. j \in 1..i
          BY <5>1
        <5> QED BY <4>4, <5>2
      <4> QED BY <3>3, <4>2, <4>4
    <3> QED BY <1>1, <3>1, <3>4, <3>5
  <2> HIDE DEF S
  <2> QED BY <2>1, <2>2, Induction
<1>6. k \in Nat /\ k <= Len(Served)
  BY <1>1
<1>7. Met(k) /\ r[n + k] \in {r[n], B}
  BY <1>5, <1>6
<1> QED BY <1>7 DEF all, r, n, B

\* In the lanes and on the line there are messages of the feed, and what is
\* coming from the present lane goes on to the line.
LEMMA ComingType ==
  ASSUME TypeInv
  PROVE  /\ \A l \in Lanes : Coming(l) \in Seq(FeedMessages) /\ order_queue[l] \in Seq(FeedMessages)
         /\ Coming(lane) = order_queue[lane] \o wire
         /\ \A l \in Lanes : wire = <<>> => Coming(l) = order_queue[l]
         /\ \A l \in Lanes : l # lane => Coming(l) = order_queue[l]
<1>1. lane \in Lanes /\ wire \in Seq(FeedMessages) /\ \A l \in Lanes : order_queue[l] \in Seq(FeedMessages)
  BY DEF TypeInv, TypeOK, Carried
<1>2. \A l \in Lanes : order_queue[l] \o wire \in Seq(FeedMessages)
  BY <1>1, ConcatProperties
<1>3. \A l \in Lanes : wire = <<>> => order_queue[l] \o wire = order_queue[l]
  BY <1>1
<1> QED BY <1>1, <1>2, <1>3 DEF Coming

\* What a step leaves alone for good: the configuration.
LEMMA ConfigurationStays ==
  ASSUME [Next]_vars
  PROVE  /\ IS_BOOK_CLEAR_NEEDED' = IS_BOOK_CLEAR_NEEDED
         /\ View(venue)' = View(venue')
<1>1. MAX_DEPTH' = MAX_DEPTH
  BY DEF Next, vars, VenueMoves, VenueServes, onLogon, Disconnect, onMessage, ApplyHead,
         venueVars, configVars
<1> QED BY <1>1 DEF IS_BOOK_CLEAR_NEEDED, View, Best, Offered

LEMMA StepInSync == TypeInv /\ NoLaneOutlasts /\ InSync /\ [Next]_vars => InSync'
<1> DEFINE clear == IS_BOOK_CLEAR_NEEDED
           q == Coming(lane)
           now == AsBook(View(venue))
           later == AsBook(View(venue'))
           after == Replay(book', Coming(lane)', clear)[Len(Coming(lane)')]
<1> SUFFICES ASSUME TypeInv, NoLaneOutlasts, InSync, [Next]_vars,
                    subscribed', connections' \notin outrun'
             PROVE  after = later
  <2>1. ASSUME [Next]_vars, after = later PROVE Drained' = AsBook(View(venue))'
    BY <2>1, ConfigurationStays DEF Drained
  <2> QED BY <2>1 DEF InSync
<1>0. /\ q \in Seq(FeedMessages) /\ q = order_queue[lane] \o wire
      /\ Len(q) \in Nat
      /\ Coming(lane)' = order_queue'[lane'] \o wire'
      /\ book \in BookType /\ clear \in BOOLEAN /\ lane \in Lanes
      /\ wire \in Seq(FeedMessages) /\ order_queue \in [Lanes -> Seq(FeedMessages)]
      /\ symbols \in SymbolLists /\ venue \in VenueBook
  <2>1. q \in Seq(FeedMessages) /\ q = order_queue[lane] \o wire /\ lane \in Lanes
    BY ComingType DEF TypeInv, TypeOK
  <2>2. Coming(lane)' = order_queue'[lane'] \o wire'
    BY DEF Coming
  <2> QED BY <2>1, <2>2, LenProperties
          DEF TypeInv, TypeOK, Carried, VenueBooks, IS_BOOK_CLEAR_NEEDED
<1>i. (subscribed /\ connections \notin outrun) => Replay(book, q, clear)[Len(q)] = now
  BY DEF InSync, Drained
<1> HIDE DEF q, clear, now, later
<1>1. CASE VenueMoves
  <2>1. PICK b \in VenueBooks \ {venue} :
          /\ venue' = b
          /\ wire' = IF subscribed /\ View(b) # View(venue)
                     THEN Append(wire, IncrementOf(View(venue), View(b))) ELSE wire
    BY <1>1 DEF VenueMoves
  <2>2. /\ subscribed /\ connections \notin outrun /\ lane' = lane
        /\ order_queue' = order_queue /\ book' = book
    BY <1>1 DEF VenueMoves, sessionVars, queueVars
  <2>3. CASE View(b) = View(venue)
    <3>1. Coming(lane)' = q
      BY <1>0, <2>1, <2>2, <2>3
    <3> QED BY <1>i, <2>1, <2>2, <2>3, <3>1 DEF now, later
  <2>4. CASE View(b) # View(venue)
    <3> DEFINE m == IncrementOf(View(venue), View(b))
    <3>1. Shown(View(venue)) /\ Shown(View(b))
      BY <1>0, ViewIsShown DEF VenueBooks
    <3>2. m \in FeedMessages /\ Apply(now, m, clear).book = later
      BY <1>0, <2>1, <3>1, IncrementIsOfTheFeed, IncrementApplied DEF now, later, clear
    <3> HIDE DEF m
    <3>3. Coming(lane)' = Append(q, m) /\ Len(Append(q, m)) = Len(q) + 1
      <4>1. wire' = Append(wire, m)
        BY <2>1, <2>2, <2>4 DEF m
      <4>2. order_queue[lane] \o Append(wire, m) = Append(order_queue[lane] \o wire, m)
        BY <1>0, <3>2
      <4> QED BY <1>0, <2>2, <3>2, <4>1, <4>2, AppendProperties
    <3>4. Replay(book, Append(q, m), clear)[Len(q) + 1]
            = Apply(Replay(book, q, clear)[Len(q)], m, clear).book
      <4>1. q \in Seq(MessageType) /\ m \in MessageType
        BY <1>0, <3>2, FeedIsTyped
      <4>2. book \in BookType /\ clear \in BOOLEAN
        BY <1>0
      <4> QED BY <4>1, <4>2, ReplayAppend
    <3> QED BY <1>i, <2>2, <3>2, <3>3, <3>4
  <2> QED BY <2>3, <2>4
<1>2. CASE VenueServes
  <2>1. /\ wire = <<>> /\ wire' = wire \o Served /\ book' = book /\ venue' = venue
        /\ lane' = lane /\ order_queue' = order_queue
    BY <1>2 DEF VenueServes, Served, TypeInv, Subscriptions, venueVars, queueVars
  <2>2. /\ Served \in Seq(FeedMessages) /\ Len(Served) \in Nat
        /\ \E k \in 1..Len(Served) : Resets(Served[k])
    BY <1>0, ServedIsOfTheFeed
  <2>3. Coming(lane)' = q \o Served /\ Len(q \o Served) = Len(q) + Len(Served)
    <3>1. q = order_queue[lane] /\ wire' = Served
      BY <1>0, <2>1, <2>2
    <3> QED BY <1>0, <2>1, <2>2, <3>1, ConcatProperties
  <2>4. Replay(book, q \o Served, clear)[Len(q) + Len(Served)] = AsBook(View(venue))
    <3>1. Len(Served) \in 0..Len(Served)
      BY <2>2
    <3>2. (\E k \in 1..Len(Served) : Resets(Served[k])) =>
            Replay(book, q \o Served, clear)[Len(q) + Len(Served)] = AsBook(View(venue))
      BY <1>0, <3>1, ReplayServed
    <3> QED BY <2>2, <3>2
  <2> QED BY <2>1, <2>3, <2>4 DEF later
<1>3. CASE onLogon
  BY <1>3 DEF onLogon, TypeInv, Subscriptions
<1>4. CASE Disconnect
  BY <1>4 DEF Disconnect
<1>5. CASE onMessage
  <2>1. /\ wire # <<>> /\ connections \notin outrun /\ subscribed
        /\ lane' = lane /\ book' = book /\ venue' = venue /\ wire' = Tail(wire)
        /\ order_queue'[lane] = Append(order_queue[lane], Head(wire))
    BY <1>0, <1>5 DEF onMessage, Queued, sessionVars, venueVars
  <2>2. Coming(lane)' = q
    <3>1. order_queue[lane] \in Seq(FeedMessages)
      BY <1>0
    <3>2. Append(order_queue[lane], Head(wire)) \o Tail(wire) = order_queue[lane] \o wire
      BY <1>0, <2>1, <3>1, HeadMoves
    <3> QED BY <1>0, <2>1, <3>2
  <2> QED BY <1>i, <2>1, <2>2 DEF now, later
<1>6. CASE ApplyHead
  <2>1. PICK l \in Lanes :
          /\ order_queue[l] # <<>>
          /\ book' = Apply(book, Head(order_queue[l]), clear).book
          /\ order_queue' = [order_queue EXCEPT ![l] = Tail(@)]
    BY <1>6 DEF ApplyHead, Visit, clear
  <2>2. /\ subscribed /\ connections \notin outrun /\ lane' = lane /\ venue' = venue /\ wire' = wire
    BY <1>6 DEF ApplyHead, sessionVars, venueVars
  <2>3. Head(order_queue[l]) \in FeedMessages /\ book' \in BookType
    <3>1. Head(order_queue[l]) \in FeedMessages
      BY <1>0, <2>1, HeadTailProperties
    <3> QED BY <1>0, <2>1, <3>1, ApplyType, FeedIsTyped DEF ProgressType
  <2>4. CASE l = lane
    <3>1. /\ q # <<>> /\ Head(q) = Head(order_queue[lane])
          /\ Coming(lane)' = Tail(q) /\ Len(Tail(q)) \in Nat /\ Len(q) = Len(Tail(q)) + 1
      <4>1. order_queue'[lane'] = Tail(order_queue[lane])
        BY <1>0, <2>1, <2>2, <2>4
      <4>2. \A s, t \in Seq(FeedMessages) : s # <<>> =>
              s \o t # <<>> /\ Head(s \o t) = Head(s) /\ Tail(s \o t) = Tail(s) \o t
        OBVIOUS
      <4>3. q # <<>> /\ Head(q) = Head(order_queue[lane]) /\ Tail(q) = Tail(order_queue[lane]) \o wire
        BY <1>0, <2>1, <2>4, <4>2
      <4>4. Coming(lane)' = Tail(q)
        BY <1>0, <2>2, <4>1, <4>3
      <4>5. Len(Tail(q)) \in Nat /\ Len(q) = Len(Tail(q)) + 1
        <5>1. q \in Seq(FeedMessages) /\ q # <<>>
          BY <1>0, <4>3
        <5> QED BY <5>1, HeadTailProperties, LenProperties
      <4> QED BY <4>3, <4>4, <4>5
    <3>2. Replay(Apply(book, Head(q), clear).book, Tail(q), clear)[Len(Tail(q))]
            = Replay(book, q, clear)[Len(Tail(q)) + 1]
      <4>1. q \in Seq(MessageType) /\ Len(Tail(q)) \in 0..Len(Tail(q))
        BY <1>0, <3>1, FeedIsTyped
      <4>2. \A k \in 0..Len(Tail(q)) :
              Replay(Apply(book, Head(q), clear).book, Tail(q), clear)[k] = Replay(book, q, clear)[k + 1]
        BY <1>0, <3>1, <4>1, ReplayTail
      <4> QED BY <4>1, <4>2
    <3> QED BY <1>i, <2>1, <2>2, <2>4, <3>1, <3>2 DEF now, later
  <2>5. CASE l # lane
    <3>1. Coming(lane)' = q
      BY <1>0, <2>1, <2>2, <2>5
    <3>2. PICK j \in DOMAIN wire : Resets(wire[j])
      BY <2>1, <2>2, <2>5 DEF NoLaneOutlasts
    <3>3. PICK i \in DOMAIN q : q[i] = wire[j]
      <4>1. Len(order_queue[lane]) + j \in DOMAIN q /\ q[Len(order_queue[lane]) + j] = wire[j]
        BY <1>0, ConcatProperties, LenProperties
      <4> QED BY <4>1
    <3>4. Resets(q[i])
      BY <3>2, <3>3
    <3>5. q \in Seq(MessageType) /\ Len(q) \in i..Len(q)
      BY <1>0, LenProperties, FeedIsTyped
    <3>6. ASSUME NEW b \in BookType
          PROVE  \A k \in i..Len(q) : Replay(b, q, clear)[k] = Replay(book, q, clear)[k]
      <4>1. q \in Seq(MessageType) /\ book \in BookType /\ clear \in BOOLEAN
        BY <1>0, <3>5
      <4> QED BY <3>4, <4>1, ReplayForgets
    <3>7. Replay(book', q, clear)[Len(q)] = Replay(book, q, clear)[Len(q)]
      BY <2>3, <3>5, <3>6
    <3> QED BY <1>i, <2>2, <3>1, <3>7 DEF now, later
  <2> QED BY <2>4, <2>5
<1>7. CASE UNCHANGED vars
  <2>1. /\ subscribed /\ connections \notin outrun /\ venue' = venue /\ book' = book
        /\ Coming(lane)' = q
    BY <1>0, <1>7 DEF vars, venueVars, sessionVars, queueVars
  <2> QED BY <1>i, <2>1 DEF now, later
<1> QED BY <1>1, <1>2, <1>3, <1>4, <1>5, <1>6, <1>7 DEF Next

\* Once a subscription is served, and no other lane has outlasted its
\* snapshot, the book is the published one but for the messages that are
\* coming: no loss, no leftover and no other instrument shows through.
THEOREM BookIsInStep == Spec => []InSync
<1>1. Init => NoLaneOutlasts /\ InSync
  BY DEF Init, NoLaneOutlasts, InSync
<1> QED BY <1>1, InitTypeInv, StepTypeInv, StepNoLaneOutlasts, StepInSync, PTL DEF Spec

-----------------------------------------------------------------------------
(***************************************************************************)
(* Uncrossed.  The book goes from one published book to another, whatever  *)
(* lane is served next: StaysPublished says it of every book that a lane   *)
(* can still lead to.  It is preserved because at most one lane holds      *)
(* messages that change the book, and those of another lane meet a         *)
(* snapshot first.                                                         *)
(***************************************************************************)
Published == {AsBook(View(v)) : v \in VenueBooks}
OnlyPublished(b, ms) == \A k \in 0..Len(ms) : Replay(b, ms, IS_BOOK_CLEAR_NEEDED)[k] \in Published
\* A lane without a message that changes the book, and messages of which none
\* changes it before a snapshot makes it new.
Idle(ms) == \A k \in DOMAIN ms : Skipped(ms[k])
Fresh(ms) == \A k \in DOMAIN ms : ms[k].kind = "X" => \E j \in 1..k : Resets(ms[j])

StaysPublished == \A l \in Lanes : OnlyPublished(book, Coming(l))
OneBusyLane == \A l1, l2 \in Lanes : l1 # l2 => Idle(order_queue[l1]) \/ Idle(order_queue[l2])
SnapshotFirst == \A l \in Lanes \ {lane} : Idle(order_queue[l]) \/ Fresh(wire)
PublishedInv == outrun = {} => StaysPublished /\ OneBusyLane /\ SnapshotFirst

LEMMA KindsOfMessages ==
  ASSUME NEW m \in FeedMessages
  PROVE  /\ m.kind = "X" \/ Resets(m) \/ Skipped(m)
         /\ Skipped(m) => m.kind # "X" /\ ~Resets(m)
         /\ Resets(m) => m.kind # "X"
BY DEF FeedMessages, MessageType, Snapshots, Increments, Resets, Skipped

\* A published book is not crossed.
LEMMA PublishedUncrossed ==
  ASSUME NEW v \in VenueBooks
  PROVE  LET b == AsBook(View(v))
         IN  \A p \in Levels(b["BID"]), q \in Levels(b["OFFER"]) : p < q
<1> DEFINE w == View(v)
           b == AsBook(w)
<1>1. w \in VenueBook /\ \A s \in Sides : Offered(w, s) \subseteq Offered(v, s)
  <2>1. w \in VenueBook
    BY ViewIsShown DEF VenueBooks, Shown
  <2>2. CASE IS_BOOK_CLEAR_NEEDED
    <3>1. \A s \in Sides, q \in Quotes : w[s][q] # NoLevel => w[s][q] = v[s][q]
      BY <2>2 DEF View
    <3> HIDE DEF w
    <3> QED BY <2>1, <3>1 DEF Offered
  <2>3. CASE ~IS_BOOK_CLEAR_NEEDED
    BY <2>1, <2>3 DEF View
  <2> QED BY <2>1, <2>2, <2>3
<1> HIDE DEF w
<1>2. ASSUME NEW s \in Sides, NEW p \in Levels(b[s])
      PROVE  QuoteOf(p) \in Offered(v, s) /\ PxTicks[QuoteOf(p)] = p
  <2>1. p \in Prices /\ b[s][p] = Size(w[s][QuoteOf(p)]) /\ b[s][p] # NoLevel
    BY <1>2 DEF Levels, AsBook
  <2>2. QuoteOf(p) \in Quotes /\ PxTicks[QuoteOf(p)] = p
    BY <2>1, QuoteOfKey
  <2>3. w[s][QuoteOf(p)] # NoLevel
    BY <2>1 DEF Size
  <2> QED BY <1>1, <2>2, <2>3 DEF Offered
<1>3. ASSUME NEW p \in Levels(b["BID"]), NEW q \in Levels(b["OFFER"]) PROVE p < q
  <2>1. /\ QuoteOf(p) \in Offered(v, "BID") /\ PxTicks[QuoteOf(p)] = p
        /\ QuoteOf(q) \in Offered(v, "OFFER") /\ PxTicks[QuoteOf(q)] = q
    <3> HIDE DEF b
    <3> QED BY <1>2 DEF Sides
  <2>2. QuoteOf(p) < QuoteOf(q)
    BY <2>1 DEF VenueBooks, Uncrossed
  <2>3. QuoteOf(p) \in Quotes /\ QuoteOf(q) \in Quotes
    BY <2>1 DEF Offered
  <2>4. PxTicks[QuoteOf(p)] < PxTicks[QuoteOf(q)]
    BY <2>2, <2>3, FeedAssumption
  <2> HIDE DEF b
  <2> QED BY <2>1, <2>4
<1> QED BY <1>3 DEF w

\* The empty book is a published one.
LEMMA EmptyIsPublished == EmptyBook \in Published
<1> DEFINE e == [s \in Sides |-> [q \in Quotes |-> NoLevel]]
<1>1. e \in VenueBook /\ \A s \in Sides : Offered(e, s) = {}
  BY DEF VenueBook, Amount, Offered
<1>2. e \in VenueBooks
  BY <1>1 DEF VenueBooks, Uncrossed, Sides
<1>3. View(e) = e
  <2>1. \A s \in Sides : Best(e, s) = {}
    BY <1>1 DEF Best
  <2> QED BY <2>1 DEF View
<1>4. AsBook(e) = EmptyBook
  <2>1. ASSUME NEW s \in Sides, NEW p \in Prices PROVE Size(e[s][QuoteOf(p)]) = NoLevel
    BY QuoteOfKey DEF Size
  <2> HIDE DEF e
  <2> QED BY <2>1 DEF AsBook, EmptyBook, EmptySide
<1> HIDE DEF e
<1> QED BY <1>2, <1>3, <1>4 DEF Published

\* Fresh messages bring about the same books from everywhere, once they
\* change one.
LEMMA ReplayFresh ==
  ASSUME NEW b1 \in BookType, NEW b2 \in BookType, NEW ms \in Seq(FeedMessages), Fresh(ms),
         NEW clear \in BOOLEAN, NEW k \in 0..Len(ms)
  PROVE  Replay(b2, ms, clear)[k] \in {b2, Replay(b1, ms, clear)[k]}
<1>0. Len(ms) \in Nat /\ DOMAIN ms = 1..Len(ms) /\ ms \in Seq(MessageType)
      /\ \A j \in 1..Len(ms) : ms[j] \in FeedMessages
  BY LenProperties, ElementOfSeq, FeedIsTyped
<1>1. CASE \E j \in 1..k : Resets(ms[j])
  <2>1. PICK j \in 1..k : Resets(ms[j])
    BY <1>1
  <2>2. j \in DOMAIN ms /\ k \in j..Len(ms)
    BY <1>0
  <2>3. \A i \in j..Len(ms) : Replay(b1, ms, clear)[i] = Replay(b2, ms, clear)[i]
    BY <1>0, <2>1, <2>2, ReplayForgets
  <2> QED BY <2>2, <2>3
<1>2. CASE ~\E j \in 1..k : Resets(ms[j])
  <2>1. ASSUME NEW j \in 1..k PROVE Skipped(ms[j])
    <3>1. j \in DOMAIN ms /\ ms[j] \in FeedMessages /\ ~Resets(ms[j])
          /\ \A i \in 1..j : i \in 1..k
      BY <1>0, <1>2
    <3>2. ms[j].kind # "X"
      BY <1>2, <3>1 DEF Fresh
    <3> QED BY <3>1, <3>2, KindsOfMessages
  <2>2. 0 \in 0..Len(ms) /\ k \in 0..Len(ms) /\ \A j \in (0 + 1)..k : Skipped(ms[j])
    BY <1>0, <2>1
  <2>3. Replay(b2, ms, clear)[k] = Replay(b2, ms, clear)[0]
    BY <2>2, ReplayStays
  <2>4. Replay(b2, ms, clear)[0] = b2
    BY <1>0, ReplayDef
  <2> QED BY <2>3, <2>4
<1> QED BY <1>1, <1>2

\* Idle messages before fresh ones, or alone, are fresh.
LEMMA IdleThenFresh ==
  ASSUME NEW s \in Seq(FeedMessages), Idle(s), NEW t \in Seq(FeedMessages), Fresh(t)
  PROVE  Fresh(s \o t)
<1>1. /\ Len(s) \in Nat /\ Len(t) \in Nat /\ DOMAIN s = 1..Len(s) /\ DOMAIN t = 1..Len(t)
      /\ DOMAIN (s \o t) = 1..(Len(s) + Len(t))
      /\ \A k \in 1..Len(s) : (s \o t)[k] = s[k] /\ s[k] \in FeedMessages
      /\ \A k \in 1..Len(t) : (s \o t)[Len(s) + k] = t[k]
  BY ConcatProperties, LenProperties, ElementOfSeq
<1> DEFINE all == s \o t
<1> HIDE DEF all
<1>2. ASSUME NEW k \in DOMAIN all, all[k].kind = "X" PROVE \E j \in 1..k : Resets(all[j])
  <2>1. k \in 1..(Len(s) + Len(t))
    BY <1>1 DEF all
  <2>2. CASE k \in 1..Len(s)
    <3>1. all[k] = s[k] /\ Skipped(s[k]) /\ s[k] \in FeedMessages
      BY <1>1, <2>2 DEF Idle, all
    <3> QED BY <1>2, <3>1, KindsOfMessages
  <2>3. CASE k \notin 1..Len(s)
    <3>1. k - Len(s) \in 1..Len(t) /\ Len(s) + (k - Len(s)) = k
      BY <1>1, <2>1, <2>3
    <3>2. all[k] = t[k - Len(s)]
      BY <1>1, <3>1 DEF all
    <3>3. PICK j \in 1..(k - Len(s)) : Resets(t[j])
      BY <1>1, <1>2, <3>1, <3>2 DEF Fresh
    <3>4. j \in 1..Len(t) /\ Len(s) + j \in 1..k
      BY <1>1, <2>1, <3>1, <3>3
    <3>5. all[Len(s) + j] = t[j]
      BY <1>1, <3>4 DEF all
    <3> QED BY <3>3, <3>4, <3>5
  <2> QED BY <2>2, <2>3
<1>3. Fresh(all)
  BY <1>2 DEF Fresh
<1> QED BY <1>3 DEF all

\* Some parts of a sequence of fresh messages, and of an idle one.
LEMMA FreshParts ==
  ASSUME NEW ms \in Seq(FeedMessages)
  PROVE  /\ Fresh(<<>>) /\ Idle(<<>>)
         /\ Idle(ms) => Fresh(ms)
         /\ (Idle(ms) /\ ms # <<>>) => Idle(Tail(ms)) /\ Skipped(Head(ms))
         /\ (Fresh(ms) /\ ms # <<>>) => Head(ms).kind # "X"
         /\ (Fresh(ms) /\ ms # <<>> /\ Skipped(Head(ms))) => Fresh(Tail(ms))
<1>0. Len(ms) \in Nat /\ DOMAIN ms = 1..Len(ms) /\ \A k \in 1..Len(ms) : ms[k] \in FeedMessages
  BY LenProperties, ElementOfSeq
<1>1. Fresh(<<>>) /\ Idle(<<>>)
  BY DEF Fresh, Idle
<1>2. Idle(ms) => Fresh(ms)
  BY <1>0, KindsOfMessages DEF Idle, Fresh
<1>3. ASSUME ms # <<>>
      PROVE  /\ Head(ms) = ms[1] /\ Tail(ms) \in Seq(FeedMessages) /\ Len(Tail(ms)) = Len(ms) - 1
             /\ DOMAIN Tail(ms) = 1..Len(Tail(ms)) /\ 1 \in 1..Len(ms)
             /\ \A k \in 1..Len(Tail(ms)) : Tail(ms)[k] = ms[k + 1]
  BY <1>0, <1>3, HeadTailProperties, LenProperties, EmptySeq
<1>4. ASSUME ms # <<>>, Idle(ms) PROVE Idle(Tail(ms)) /\ Skipped(Head(ms))
  <2>1. \A k \in DOMAIN Tail(ms) : k + 1 \in DOMAIN ms /\ Tail(ms)[k] = ms[k + 1]
    BY <1>0, <1>3, <1>4
  <2> QED BY <1>0, <1>3, <1>4, <2>1 DEF Idle
<1>5. ASSUME ms # <<>>, Fresh(ms) PROVE Head(ms).kind # "X"
  <2>1. SUFFICES ASSUME Head(ms).kind = "X" PROVE FALSE
    OBVIOUS
  <2>2. PICK j \in 1..1 : Resets(ms[j])
    BY <1>0, <1>3, <1>5, <2>1 DEF Fresh
  <2>3. Resets(Head(ms))
    BY <1>3, <1>5, <2>2
  <2> QED BY <2>1, <2>3 DEF Resets
<1>6. ASSUME ms # <<>>, Fresh(ms), Skipped(Head(ms)) PROVE Fresh(Tail(ms))
  <2> DEFINE t == Tail(ms)
  <2>0. /\ Head(ms) = ms[1] /\ Len(t) = Len(ms) - 1 /\ DOMAIN t = 1..Len(t)
        /\ \A k \in 1..Len(t) : t[k] = ms[k + 1]
    BY <1>3, <1>6
  <2> HIDE DEF t
  <2> SUFFICES ASSUME NEW k \in DOMAIN t, t[k].kind = "X" PROVE \E j \in 1..k : Resets(t[j])
    BY DEF Fresh, t
  <2>1. k + 1 \in DOMAIN ms /\ ms[k + 1].kind = "X"
    BY <1>0, <2>0
  <2>2. PICK j \in 1..(k + 1) : Resets(ms[j])
    BY <1>6, <2>1 DEF Fresh
  <2>3. j # 1
    BY <1>6, <2>0, <2>2 DEF Resets, Skipped
  <2>4. j - 1 \in 1..k /\ j - 1 \in 1..Len(t) /\ (j - 1) + 1 = j
    BY <1>0, <2>0, <2>3
  <2>5. t[j - 1] = ms[j]
    BY <2>0, <2>4
  <2> QED BY <2>2, <2>4, <2>5
<1> QED BY <1>1, <1>2, <1>4, <1>5, <1>6

LEMMA InitPublished == Init => PublishedInv
<1> SUFFICES ASSUME Init PROVE StaysPublished /\ OneBusyLane /\ SnapshotFirst
  BY DEF PublishedInv
<1>1. /\ wire = <<>> /\ lane \in Lanes /\ book = EmptyBook
      /\ \A l \in Lanes : order_queue[l] = <<>> /\ Coming(l) = <<>>
  <2>1. wire = <<>> /\ lane \in Lanes /\ \A l \in Lanes : order_queue[l] = <<>>
    BY FeedAssumption DEF Init, Lanes
  <2>2. <<>> \o <<>> = <<>>
    OBVIOUS
  <2> QED BY <2>1, <2>2 DEF Init, Coming
<1>2. OnlyPublished(book, <<>>)
  <2>1. book \in BookType /\ <<>> \in Seq(MessageType) /\ IS_BOOK_CLEAR_NEEDED \in BOOLEAN
    BY <1>1, EmptyBookType, EmptySeq DEF IS_BOOK_CLEAR_NEEDED
  <2>2. Replay(book, <<>>, IS_BOOK_CLEAR_NEEDED)[0] = book
    BY <2>1, ReplayDef
  <2>3. \A k \in 0..Len(<<>>) : k = 0
    OBVIOUS
  <2> QED BY <1>1, <2>2, <2>3, EmptyIsPublished DEF OnlyPublished
<1>3. Idle(<<>>)
  BY DEF Idle
<1> QED BY <1>1, <1>2, <1>3 DEF StaysPublished, OneBusyLane, SnapshotFirst

\* From the next book on, with a sequence changed as a step changes it, there
\* are only published books if there were.
LEMMA OnlyPublishedTail ==
  ASSUME NEW b \in BookType, NEW ms \in Seq(FeedMessages), ms # <<>>, OnlyPublished(b, ms)
  PROVE  LET next == Apply(b, Head(ms), IS_BOOK_CLEAR_NEEDED).book
         IN  next \in Published /\ OnlyPublished(next, Tail(ms))
<1> DEFINE clear == IS_BOOK_CLEAR_NEEDED
           next == Apply(b, Head(ms), clear).book
<1>1. /\ ms \in Seq(MessageType) /\ clear \in BOOLEAN /\ Len(Tail(ms)) \in Nat
      /\ Len(ms) = Len(Tail(ms)) + 1 /\ Head(ms) \in MessageType /\ Tail(ms) \in Seq(MessageType)
  BY FeedIsTyped, HeadTailProperties, LenProperties DEF IS_BOOK_CLEAR_NEEDED
<1>2. next \in BookType
  BY <1>1, ApplyType DEF ProgressType
<1> HIDE DEF clear
<1>3. \A k \in 0..Len(Tail(ms)) : Replay(next, Tail(ms), clear)[k] = Replay(b, ms, clear)[k + 1]
  BY <1>1, ReplayTail
<1> HIDE DEF next
<1>4. \A k \in 0..Len(Tail(ms)) : Replay(next, Tail(ms), clear)[k] \in Published
  <2>1. \A k \in 0..Len(Tail(ms)) : k + 1 \in 0..Len(ms)
    BY <1>1
  <2> QED BY <1>3, <2>1 DEF OnlyPublished, clear
<1>5. Replay(next, Tail(ms), clear)[0] = next
  BY <1>1, <1>2, ReplayDef
<1>6. next \in Published
  <2>1. 0 \in 0..Len(Tail(ms))
    BY <1>1
  <2> QED BY <1>4, <1>5, <2>1
<1> QED BY <1>4, <1>6 DEF OnlyPublished, next, clear

LEMMA OnlyPublishedFresh ==
  ASSUME NEW b \in BookType, NEW next \in BookType, NEW ms \in Seq(FeedMessages), Fresh(ms),
         next \in Published, OnlyPublished(b, ms)
  PROVE  OnlyPublished(next, ms)
<1> DEFINE clear == IS_BOOK_CLEAR_NEEDED
<1>1. clear \in BOOLEAN
  BY DEF IS_BOOK_CLEAR_NEEDED
<1> HIDE DEF clear
<1>2. ASSUME NEW k \in 0..Len(ms) PROVE Replay(next, ms, clear)[k] \in Published
  <2>1. Replay(next, ms, clear)[k] \in {next, Replay(b, ms, clear)[k]}
    BY <1>1, ReplayFresh
  <2>2. Replay(b, ms, clear)[k] \in Published
    BY DEF OnlyPublished, clear
  <2> QED BY <2>1, <2>2
<1> QED BY <1>2 DEF OnlyPublished, clear

LEMMA OnlyPublishedPrefix ==
  ASSUME NEW b \in BookType, NEW ms \in Seq(FeedMessages), NEW more \in Seq(FeedMessages),
         OnlyPublished(b, ms \o more)
  PROVE  OnlyPublished(b, ms)
<1> DEFINE clear == IS_BOOK_CLEAR_NEEDED
<1>1. /\ clear \in BOOLEAN /\ ms \in Seq(MessageType) /\ more \in Seq(MessageType)
      /\ Len(ms) \in Nat /\ Len(more) \in Nat /\ Len(ms \o more) = Len(ms) + Len(more)
  BY FeedIsTyped, ConcatProperties, LenProperties DEF IS_BOOK_CLEAR_NEEDED
<1> HIDE DEF clear
<1>2. \A k \in 0..Len(ms) : Replay(b, ms \o more, clear)[k] = Replay(b, ms, clear)[k]
  BY <1>1, ReplayPrefix
<1>3. \A k \in 0..Len(ms) : k \in 0..Len(ms \o more)
  BY <1>1
<1> QED BY <1>2, <1>3 DEF OnlyPublished, clear

LEMMA OnlyPublishedServed ==
  ASSUME symbols \in SymbolLists, venue \in VenueBooks,
         NEW b \in BookType, NEW ms \in Seq(FeedMessages), OnlyPublished(b, ms)
  PROVE  OnlyPublished(b, ms \o Served)
<1> DEFINE clear == IS_BOOK_CLEAR_NEEDED
           all == ms \o Served
<1>1. /\ clear \in BOOLEAN /\ ms \in Seq(MessageType) /\ Served \in Seq(MessageType)
      /\ Len(ms) \in Nat /\ Len(Served) \in Nat /\ Len(all) = Len(ms) + Len(Served)
      /\ venue \in VenueBook
  <2>1. Served \in Seq(FeedMessages) /\ venue \in VenueBook
    BY ServedIsOfTheFeed DEF VenueBooks
  <2> QED BY <2>1, FeedIsTyped, ConcatProperties, LenProperties DEF IS_BOOK_CLEAR_NEEDED
<1> HIDE DEF clear
<1>2. \A k \in 0..Len(ms) : Replay(b, all, clear)[k] = Replay(b, ms, clear)[k]
  BY <1>1, ReplayPrefix
<1>3. \A k \in 0..Len(ms) : Replay(b, all, clear)[k] \in Published
  BY <1>2 DEF OnlyPublished, clear
<1>4. AsBook(View(venue)) \in Published
  BY DEF Published
<1>5. ASSUME NEW k \in 0..Len(Served) PROVE Replay(b, all, clear)[Len(ms) + k] \in Published
  <2>1. Replay(b, all, clear)[Len(ms) + k] \in {Replay(b, all, clear)[Len(ms)], AsBook(View(venue))}
    BY <1>1, ReplayServed
  <2>2. Len(ms) \in 0..Len(ms)
    BY <1>1
  <2> HIDE DEF all
  <2> QED BY <1>3, <1>4, <2>1, <2>2
<1> HIDE DEF all
<1>6. ASSUME NEW k \in 0..Len(all) PROVE Replay(b, all, clear)[k] \in Published
  <2>1. CASE k \in 0..Len(ms)
    BY <1>3, <2>1
  <2>2. CASE k \notin 0..Len(ms)
    <3>1. k - Len(ms) \in 0..Len(Served) /\ Len(ms) + (k - Len(ms)) = k
      BY <1>1, <2>2
    <3> QED BY <1>5, <3>1
  <2> QED BY <2>1, <2>2
<1> QED BY <1>6 DEF OnlyPublished, clear, all

\* What one more message leads to is the last book of the replay.
LEMMA OnlyPublishedAppend ==
  ASSUME NEW b \in BookType, NEW ms \in Seq(FeedMessages), NEW m \in FeedMessages,
         OnlyPublished(b, ms),
         Replay(b, Append(ms, m), IS_BOOK_CLEAR_NEEDED)[Len(Append(ms, m))] \in Published
  PROVE  OnlyPublished(b, Append(ms, m))
<1> DEFINE clear == IS_BOOK_CLEAR_NEEDED
           all == Append(ms, m)
<1>1. /\ clear \in BOOLEAN /\ ms \in Seq(MessageType) /\ m \in MessageType
      /\ Len(ms) \in Nat /\ Len(all) = Len(ms) + 1
  BY FeedIsTyped, AppendProperties, LenProperties DEF IS_BOOK_CLEAR_NEEDED
<1>a. Replay(b, all, clear)[Len(all)] \in Published
  OBVIOUS
<1> HIDE DEF clear
<1>2. \A k \in 0..Len(ms) : Replay(b, all, clear)[k] = Replay(b, ms, clear)[k]
  BY <1>1, ReplayAppend
<1>3. \A k \in 0..Len(ms) : Replay(b, all, clear)[k] \in Published
  BY <1>2 DEF OnlyPublished, clear
<1> HIDE DEF all
<1>4. \A k \in 0..Len(all) : k \in 0..Len(ms) \/ k = Len(all)
  BY <1>1
<1> QED BY <1>3, <1>4, <1>a DEF OnlyPublished, clear, all

\* What is said of the state after a step, with the configuration before it.
LEMMA PublishedAfter ==
  ASSUME [Next]_vars,
         outrun' = {} =>
           /\ \A l \in Lanes : OnlyPublished(book', Coming(l)')
           /\ \A l1, l2 \in Lanes : l1 # l2 => Idle(order_queue'[l1]) \/ Idle(order_queue'[l2])
           /\ \A l \in Lanes \ {lane'} : Idle(order_queue'[l]) \/ Fresh(wire')
  PROVE  PublishedInv'
<1>1. MAX_DEPTH' = MAX_DEPTH
  BY DEF Next, vars, VenueMoves, VenueServes, onLogon, Disconnect, onMessage, ApplyHead,
         venueVars, configVars
<1>2. IS_BOOK_CLEAR_NEEDED' = IS_BOOK_CLEAR_NEEDED
  BY ConfigurationStays
<1>3. Published' = Published
  <2>1. \A v : View(v)' = View(v)
    BY <1>1 DEF View, Best, Offered, IS_BOOK_CLEAR_NEEDED
  <2> QED BY <2>1 DEF Published, VenueBooks, VenueBook, Uncrossed, Offered, Amount
<1>4. ASSUME \A l \in Lanes : OnlyPublished(book', Coming(l)')
      PROVE  StaysPublished'
  <2>1. ASSUME NEW l \in Lanes PROVE OnlyPublished(book, Coming(l))'
    BY <1>2, <1>3, <1>4 DEF OnlyPublished
  <2> QED BY <2>1 DEF StaysPublished, Lanes
<1>5. ASSUME \A l1, l2 \in Lanes : l1 # l2 => Idle(order_queue'[l1]) \/ Idle(order_queue'[l2])
      PROVE  OneBusyLane'
  BY <1>5 DEF OneBusyLane, Lanes
<1>6. ASSUME \A l \in Lanes \ {lane'} : Idle(order_queue'[l]) \/ Fresh(wire')
      PROVE  SnapshotFirst'
  BY <1>6 DEF SnapshotFirst, Lanes
<1> QED BY <1>4, <1>5, <1>6 DEF PublishedInv

LEMMA StepPublished == TypeInv /\ NoLaneOutlasts /\ InSync /\ PublishedInv /\ [Next]_vars => PublishedInv'
<1> SUFFICES ASSUME TypeInv, NoLaneOutlasts, InSync, PublishedInv, [Next]_vars, outrun' = {}
             PROVE  /\ \A l \in Lanes : OnlyPublished(book', Coming(l)')
                    /\ \A l1, l2 \in Lanes :
                         l1 # l2 => Idle(order_queue'[l1]) \/ Idle(order_queue'[l2])
                    /\ \A l \in Lanes \ {lane'} : Idle(order_queue'[l]) \/ Fresh(wire')
  BY PublishedAfter
<1>0. /\ wire \in Seq(FeedMessages) /\ order_queue \in [Lanes -> Seq(FeedMessages)]
      /\ book \in BookType /\ lane \in Lanes /\ symbols \in SymbolLists
      /\ venue \in VenueBooks /\ venue \in VenueBook
      /\ \A l \in Lanes : order_queue[l] \in Seq(FeedMessages) /\ Coming(l) \in Seq(FeedMessages)
  BY ComingType DEF TypeInv, TypeOK, Carried, VenueBooks
<1>1. outrun = {}
  <2>1. outrun \subseteq outrun'
    BY DEF Next, vars, VenueMoves, VenueServes, onLogon, Disconnect, onMessage, ApplyHead, queueVars
  <2> QED BY <2>1
<1>2. /\ \A l \in Lanes : OnlyPublished(book, Coming(l))
      /\ \A l1, l2 \in Lanes : l1 # l2 => Idle(order_queue[l1]) \/ Idle(order_queue[l2])
      /\ \A l \in Lanes \ {lane} : Idle(order_queue[l]) \/ Fresh(wire)
  BY <1>1 DEF PublishedInv, StaysPublished, OneBusyLane, SnapshotFirst
<1>3. \A l \in Lanes : Coming(l)' = IF l = lane' THEN order_queue'[l] \o wire' ELSE order_queue'[l]
  BY DEF Coming
<1>4. /\ Coming(lane) = order_queue[lane] \o wire
      /\ \A l \in Lanes : l # lane \/ wire = <<>> => Coming(l) = order_queue[l]
  BY ComingType
<1>5. CASE VenueMoves
  <2>1. PICK b \in VenueBooks \ {venue} :
          /\ venue' = b
          /\ wire' = IF subscribed /\ View(b) # View(venue)
                     THEN Append(wire, IncrementOf(View(venue), View(b))) ELSE wire
    BY <1>5 DEF VenueMoves
  <2>2. lane' = lane /\ order_queue' = order_queue /\ book' = book
    BY <1>5 DEF VenueMoves, sessionVars, queueVars
  <2>3. CASE wire' = wire
    BY <1>2, <1>3, <1>4, <2>2, <2>3 DEF Coming
  <2>4. CASE wire' # wire
    <3> DEFINE m == IncrementOf(View(venue), View(b))
    <3>1. subscribed /\ wire' = Append(wire, m)
      BY <2>1, <2>4
    <3>2. m \in FeedMessages /\ Shown(View(venue)) /\ Shown(View(b))
      BY <1>0, ViewIsShown, IncrementIsOfTheFeed DEF VenueBooks
    <3> HIDE DEF m
    <3>3. Coming(lane)' = Append(Coming(lane), m)
      <4>1. order_queue[lane] \o Append(wire, m) = Append(order_queue[lane] \o wire, m)
        BY <1>0, <3>2
      <4> QED BY <1>0, <1>3, <1>4, <2>2, <3>1, <4>1
    <3>4. Replay(book', Coming(lane)', IS_BOOK_CLEAR_NEEDED)[Len(Coming(lane)')] = AsBook(View(b))
      <4>1. subscribed' /\ connections' \notin outrun'
        BY <1>5, <3>1 DEF VenueMoves
      <4>2. InSync'
        BY StepInSync
      <4>3. Drained' = AsBook(View(venue))'
        BY <4>1, <4>2 DEF InSync
      <4>4. Drained' = AsBook(View(b))
        BY <2>1, <4>3, ConfigurationStays
      <4> QED BY <2>2, <4>4, ConfigurationStays DEF Drained
    <3>5. OnlyPublished(book', Coming(lane)')
      <4>1. AsBook(View(b)) \in Published
        BY DEF Published
      <4>2. OnlyPublished(book, Append(Coming(lane), m))
        BY <1>0, <1>2, <2>2, <3>2, <3>3, <3>4, <4>1, OnlyPublishedAppend
      <4> QED BY <2>2, <3>3, <4>2
    <3>6. ASSUME NEW l \in Lanes, l # lane PROVE OnlyPublished(book', Coming(l)')
      <4>1. Coming(l)' = Coming(l)
        BY <1>3, <1>4, <2>2, <3>6
      <4> QED BY <1>2, <2>2, <4>1
    <3>7. ASSUME NEW l \in Lanes \ {lane} PROVE Idle(order_queue[l]) \/ Fresh(Append(wire, m))
      <4>1. CASE order_queue[l] = <<>>
        BY <4>1 DEF Idle
      <4>2. CASE order_queue[l] # <<>> /\ Fresh(wire)
        <5>1. PICK j \in DOMAIN wire : Resets(wire[j])
          BY <1>1, <3>1, <4>2 DEF NoLaneOutlasts
        <5> DEFINE all == Append(wire, m)
        <5>2. /\ Len(wire) \in Nat /\ j \in 1..Len(wire) /\ DOMAIN all = 1..(Len(wire) + 1)
              /\ \A k \in 1..Len(wire) : all[k] = wire[k] /\ k \in DOMAIN wire
          BY <1>0, <3>2, AppendProperties, LenProperties
        <5> HIDE DEF all
        <5>3. ASSUME NEW k \in DOMAIN all, all[k].kind = "X" PROVE \E i \in 1..k : Resets(all[i])
          <6>1. CASE k \in 1..Len(wire)
            <7>1. PICK i \in 1..k : Resets(wire[i])
              BY <4>2, <5>2, <5>3, <6>1 DEF Fresh
            <7>2. i \in 1..Len(wire)
              BY <6>1, <7>1
            <7> QED BY <5>2, <7>1, <7>2
          <6>2. CASE k \notin 1..Len(wire)
            <7>1. j \in 1..k
              BY <5>2, <6>2
            <7> QED BY <5>1, <5>2, <7>1
          <6> QED BY <6>1, <6>2
        <5> QED BY <5>3 DEF Fresh, all
      <4> QED BY <1>2, <4>1, <4>2
    <3> QED BY <1>2, <2>2, <3>1, <3>5, <3>6, <3>7
  <2> QED BY <2>3, <2>4
<1>6. CASE VenueServes
  <2>1. /\ wire = <<>> /\ wire' = wire \o Served /\ book' = book
        /\ lane' = lane /\ order_queue' = order_queue
    BY <1>6 DEF VenueServes, Served, TypeInv, Subscriptions, queueVars
  <2>2. /\ Served \in Seq(FeedMessages) /\ DOMAIN Served = 1..Len(symbols)
        /\ \A k \in 1..Len(symbols) : Served[k] = SnapshotOf(View(venue)) \/ Skipped(Served[k])
    BY <1>0, ServedIsOfTheFeed, LenProperties
  <2>3. wire' = Served /\ Coming(lane)' = Coming(lane) \o Served
    <3>1. \A s \in Seq(FeedMessages) : <<>> \o s = s
      OBVIOUS
    <3>2. wire' = Served
      BY <2>1, <2>2, <3>1
    <3>3. Coming(lane) = order_queue[lane] /\ Coming(lane)' = order_queue[lane] \o Served
      BY <1>0, <1>3, <1>4, <2>1, <3>2
    <3> QED BY <3>2, <3>3
  <2>4. OnlyPublished(book', Coming(lane)')
    BY <1>0, <1>2, <2>1, <2>3, OnlyPublishedServed
  <2>5. ASSUME NEW l \in Lanes, l # lane PROVE OnlyPublished(book', Coming(l)')
    <3>1. Coming(l)' = Coming(l)
      BY <1>3, <1>4, <2>1, <2>5
    <3> QED BY <1>2, <2>1, <3>1
  <2>6. Fresh(wire')
    BY <2>2, <2>3 DEF Fresh, SnapshotOf, Skipped
  <2> QED BY <1>2, <2>1, <2>4, <2>5, <2>6
<1>7. CASE onLogon
  <2>1. /\ wire = <<>> /\ wire' = wire /\ book' = book /\ order_queue' = order_queue
    BY <1>7 DEF onLogon, TypeInv, Subscriptions
  <2>2. \A l \in Lanes : Coming(l)' = Coming(l)
    <3>1. \A l \in Lanes : order_queue[l] \o <<>> = order_queue[l]
      BY <1>0
    <3> QED BY <1>3, <1>4, <2>1, <3>1
  <2>3. Fresh(wire')
    BY <2>1 DEF Fresh
  <2> QED BY <1>2, <2>1, <2>2, <2>3
<1>8. CASE Disconnect
  <2>1. /\ wire' = <<>> /\ book' = book /\ order_queue' = order_queue /\ lane' = lane
    BY <1>8 DEF Disconnect, queueVars
  <2>2. ASSUME NEW l \in Lanes PROVE OnlyPublished(book', Coming(l)')
    <3>1. Coming(l)' = order_queue[l]
      BY <1>0, <1>3, <2>1
    <3>2. OnlyPublished(book, order_queue[l])
      <4>1. CASE l = lane
        BY <1>0, <1>2, <1>4, <4>1, OnlyPublishedPrefix
      <4>2. CASE l # lane
        BY <1>2, <1>4, <4>2
      <4> QED BY <4>1, <4>2
    <3> QED BY <2>1, <3>1, <3>2
  <2>3. Fresh(wire')
    BY <2>1 DEF Fresh
  <2> QED BY <1>2, <2>1, <2>2, <2>3
<1>9. CASE onMessage
  <2> DEFINE m == Head(wire)
  <2>1. /\ wire # <<>> /\ subscribed /\ book' = book /\ lane' = lane /\ wire' = Tail(wire)
        /\ connections' = connections
        /\ order_queue' = [order_queue EXCEPT ![lane] = Append(@, m)]
        /\ outrun' = outrun \cup {c \in {connections} : Outruns(m)}
    BY <1>9 DEF onMessage, Queued, sessionVars, TypeInv, Subscriptions
  <2>2. ~Outruns(m) /\ m \in FeedMessages
    BY <1>0, <2>1, HeadTailProperties
  <2> HIDE DEF m
  <2>3. /\ order_queue'[lane] = Append(order_queue[lane], m)
        /\ \A l \in Lanes : l # lane => order_queue'[l] = order_queue[l]
    BY <1>0, <2>1
  <2>4. \A l \in Lanes : Coming(l)' = Coming(l)
    <3>1. Append(order_queue[lane], m) \o Tail(wire) = order_queue[lane] \o wire
      BY <1>0, <2>1, HeadMoves DEF m
    <3> QED BY <1>0, <1>3, <1>4, <2>1, <2>3, <3>1
  <2>5. CASE Skipped(m)
    <3>1. Idle(order_queue[lane]) => Idle(Append(order_queue[lane], m))
      <4> SUFFICES ASSUME Idle(order_queue[lane]),
                          NEW k \in DOMAIN Append(order_queue[lane], m)
                   PROVE  Skipped(Append(order_queue[lane], m)[k])
        BY DEF Idle
      <4>1. /\ order_queue[lane] \in Seq(FeedMessages)
            /\ DOMAIN order_queue[lane] = 1..Len(order_queue[lane])
            /\ DOMAIN Append(order_queue[lane], m) = 1..(Len(order_queue[lane]) + 1)
            /\ Len(order_queue[lane]) \in Nat
        BY <1>0, <2>2, AppendProperties, LenProperties
      <4>2. CASE k \in 1..Len(order_queue[lane])
        BY <1>0, <2>2, <4>1, <4>2, AppendProperties DEF Idle
      <4>3. CASE k = Len(order_queue[lane]) + 1
        BY <1>0, <2>2, <2>5, <4>1, <4>3, AppendProperties
      <4> QED BY <4>1, <4>2, <4>3
    <3>2. Fresh(wire) => Fresh(wire')
      BY <1>0, <2>1, <2>5, FreshParts DEF m
    <3>3. \A l \in Lanes : Idle(order_queue[l]) => Idle(order_queue'[l])
      BY <2>3, <3>1
    <3> QED BY <1>2, <2>1, <2>4, <3>2, <3>3
  <2>6. CASE ~Skipped(m)
    <3>1. \A l \in Lanes \ {lane} : Idle(order_queue[l])
      <4>1. CASE m.kind = "X"
        <5>1. ~Fresh(wire)
          BY <1>0, <2>1, <4>1, FreshParts DEF m
        <5> QED BY <1>2, <5>1
      <4>2. CASE m.kind # "X"
        <5>1. m.kind = "W" /\ m.symbol = BTC
          BY <2>2, <2>6, <4>2, KindsOfMessages DEF Resets
        <5>2. \A l \in Lanes \ {lane} : order_queue[l] = <<>>
          BY <2>2, <5>1 DEF Outruns
        <5> QED BY <5>2 DEF Idle
      <4> QED BY <4>1, <4>2
    <3>2. \A l \in Lanes \ {lane} : Idle(order_queue'[l])
      BY <2>3, <3>1
    <3>3. \A l \in Lanes : OnlyPublished(book', Coming(l)')
      BY <1>2, <2>1, <2>4
    <3> QED BY <2>1, <3>2, <3>3
  <2> QED BY <2>5, <2>6
<1>10. CASE ApplyHead
  <2>1. PICK h \in Lanes :
          /\ order_queue[h] # <<>>
          /\ book' = Apply(book, Head(order_queue[h]), IS_BOOK_CLEAR_NEEDED).book
          /\ order_queue' = [order_queue EXCEPT ![h] = Tail(@)]
    BY <1>10 DEF ApplyHead, Visit
  <2> DEFINE m == Head(order_queue[h])
  <2>2. lane' = lane /\ wire' = wire
    BY <1>10 DEF ApplyHead
  <2>3. /\ order_queue'[h] = Tail(order_queue[h])
        /\ \A l \in Lanes : l # h => order_queue'[l] = order_queue[l] /\ Coming(l)' = Coming(l)
    <3>1. /\ order_queue'[h] = Tail(order_queue[h])
          /\ \A l \in Lanes : l # h => order_queue'[l] = order_queue[l]
      BY <1>0, <2>1
    <3> QED BY <1>3, <2>2, <3>1 DEF Coming
  <2>4. Coming(h) # <<>> /\ Head(Coming(h)) = m /\ Coming(h)' = Tail(Coming(h))
    <3>1. CASE h = lane
      <4>1. \A s, t \in Seq(FeedMessages) : s # <<>> =>
              s \o t # <<>> /\ Head(s \o t) = Head(s) /\ Tail(s \o t) = Tail(s) \o t
        OBVIOUS
      <4>2. Coming(h)' = Tail(order_queue[h]) \o wire
        BY <1>3, <2>2, <2>3, <3>1
      <4>3. Coming(h) = order_queue[h] \o wire /\ order_queue[h] \in Seq(FeedMessages)
        BY <1>0, <1>4, <3>1
      <4>4. /\ order_queue[h] \o wire # <<>> /\ Head(order_queue[h] \o wire) = m
            /\ Tail(order_queue[h] \o wire) = Tail(order_queue[h]) \o wire
        BY <1>0, <2>1, <4>1, <4>3
      <4> HIDE DEF m
      <4> QED BY <4>2, <4>3, <4>4
    <3>2. CASE h # lane
      BY <1>3, <1>4, <2>1, <2>2, <2>3, <3>2
    <3> QED BY <3>1, <3>2
  <2>5. book' \in Published /\ OnlyPublished(book', Coming(h)')
    BY <1>0, <1>2, <2>1, <2>4, OnlyPublishedTail
  <2>6. m \in FeedMessages /\ book' \in BookType
    <3>1. m \in FeedMessages
      BY <1>0, <2>1, HeadTailProperties
    <3>2. m \in MessageType /\ IS_BOOK_CLEAR_NEEDED \in BOOLEAN
      BY <3>1, FeedIsTyped DEF IS_BOOK_CLEAR_NEEDED
    <3> QED BY <1>0, <2>1, <3>1, <3>2, ApplyType DEF ProgressType
  <2>7. \A l \in Lanes : Idle(order_queue[l]) => Idle(order_queue'[l])
    BY <1>0, <2>1, <2>3, FreshParts
  <2>8. ASSUME NEW l \in Lanes, l # h PROVE OnlyPublished(book', Coming(l)')
    <3>1. CASE Skipped(m)
      <4>1. book' = book
        BY <1>0, <2>1, <2>6, <3>1, SkippedLeavesBook DEF IS_BOOK_CLEAR_NEEDED
      <4> QED BY <1>2, <2>3, <2>8, <4>1
    <3>2. CASE ~Skipped(m)
      <4>1. ~Idle(order_queue[h])
        BY <1>0, <2>1, <3>2, FreshParts
      <4>2. Idle(order_queue[l]) /\ (h # lane => Fresh(wire))
        BY <1>2, <2>8, <4>1
      <4>3. Fresh(Coming(l))
        <5>1. CASE l = lane
          BY <1>0, <1>4, <2>8, <4>2, <5>1, IdleThenFresh
        <5>2. CASE l # lane
          BY <1>0, <1>4, <4>2, <5>2, FreshParts
        <5> QED BY <5>1, <5>2
      <4>4. OnlyPublished(book', Coming(l))
        BY <1>0, <1>2, <2>5, <2>6, <4>3, OnlyPublishedFresh
      <4> QED BY <2>3, <2>8, <4>4
    <3> QED BY <3>1, <3>2
  <2> QED BY <1>2, <2>2, <2>5, <2>7, <2>8
<1>11. CASE UNCHANGED vars
  <2>1. /\ wire' = wire /\ lane' = lane /\ order_queue' = order_queue /\ book' = book
    BY <1>11 DEF vars, queueVars
  <2>2. \A l \in Lanes : Coming(l)' = Coming(l)
    BY <1>3, <2>1 DEF Coming
  <2> QED BY <1>2, <2>1, <2>2
<1> QED BY <1>5, <1>6, <1>7, <1>8, <1>9, <1>10, <1>11 DEF Next

\* The invariant as a whole.
FeedInv == TypeInv /\ NoLaneOutlasts /\ InSync /\ PublishedInv

LEMMA FeedInvInit == Init => FeedInv
<1>1. Init => NoLaneOutlasts /\ InSync
  BY DEF Init, NoLaneOutlasts, InSync
<1> QED BY <1>1, InitTypeInv, InitPublished DEF FeedInv

LEMMA FeedInvStep == FeedInv /\ [Next]_vars => FeedInv'
BY StepTypeInv, StepNoLaneOutlasts, StepInSync, StepPublished DEF FeedInv

LEMMA FeedInvUncrossed == FeedInv => NeverCrossed
<1> SUFFICES ASSUME FeedInv, outrun = {}
             PROVE  \A p \in Levels(book["BID"]), q \in Levels(book["OFFER"]) : p < q
  BY DEF NeverCrossed
<1>1. lane \in Lanes /\ book \in BookType /\ IS_BOOK_CLEAR_NEEDED \in BOOLEAN
      /\ Coming(lane) \in Seq(FeedMessages) /\ Coming(lane) \in Seq(MessageType)
  BY ComingType, FeedIsTyped DEF FeedInv, TypeInv, TypeOK, IS_BOOK_CLEAR_NEEDED
<1>2. Replay(book, Coming(lane), IS_BOOK_CLEAR_NEEDED)[0] = book
  BY <1>1, ReplayDef
<1>3. 0 \in 0..Len(Coming(lane))
  BY <1>1, LenProperties
<1>4. OnlyPublished(book, Coming(lane))
  BY <1>1 DEF FeedInv, PublishedInv, StaysPublished
<1>5. book \in Published
  BY <1>2, <1>3, <1>4 DEF OnlyPublished
<1>6. PICK v \in VenueBooks : book = AsBook(View(v))
  BY <1>5 DEF Published
<1> QED BY <1>6, PublishedUncrossed

\* At no stage of a reconnection is the book crossed, as long as the venue's
\* is not and no lane has outlasted a snapshot.
THEOREM BookIsNeverCrossed == Spec => []NeverCrossed
BY FeedInvInit, FeedInvStep, FeedInvUncrossed, PTL DEF Spec
=============================================================================
