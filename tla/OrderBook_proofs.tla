--------------------------- MODULE OrderBook_proofs ---------------------------
(***************************************************************************)
(* What the operators of OrderBook return, for any message the data        *)
(* dictionary admits: the types of a call in progress, and the loop of     *)
(* apply_* unrolled from its front, one entry at a time.                   *)
(***************************************************************************)
EXTENDS OrderBookReference, Recursion, SequenceTheorems, FiniteSetTheorems, TLAPS

-----------------------------------------------------------------------------
(* What the steps of a call return.                                        *)

LEMMA EmptyBookType == EmptyBook \in BookType
BY DEF EmptyBook, EmptySide, BookType, SideType

\* One entry of an increment leaves each side a map from keys to sizes.
LEMMA LevelUpdateType ==
  ASSUME NEW level \in SideType, NEW clear \in BOOLEAN,
         NEW e \in [symbol: SymbolNames \cup {Missing}, type: EntryTypes,
                    action: Actions, px: Quotes, sz: Amounts \cup {Missing}]
  PROVE  handle_price_level_update(level, e, clear) \in SideType
<1>1. PxTicks[e.px] \in Prices /\ (e.sz # Missing => SzTicks[e.sz] \in Sizes)
  BY DEF Prices, Sizes, Quotes, Amounts
<1>2. Cleared(level, e, clear) \in SideType
  BY DEF Cleared, EmptySide, SideType
<1>3. ASSUME ~UpdateThrows(e), e.action # "DELETE" PROVE e.sz # Missing
  BY <1>3 DEF UpdateThrows
<1> QED
  BY <1>1, <1>2, <1>3 DEF handle_price_level_update, Erased, SideType

LEMMA BeginType ==
  ASSUME NEW b \in BookType, NEW m \in MessageType
  PROVE  Begin(b, m) \in ProgressType
BY EmptyBookType
   DEF Begin, SnapshotBegin, SnapshotBase, Progress, ProgressType, from_str, Symbols

LEMMA SnapshotEntryType ==
  ASSUME NEW acc \in ProgressType,
         NEW e \in [type: EntryTypes, px: Quotes, sz: Amounts]
  PROVE  SnapshotEntry(acc, e) \in ProgressType
<1>1. PxTicks[e.px] \in Prices /\ SzTicks[e.sz] \in Sizes
  BY DEF Prices, Sizes, Quotes, Amounts
<1>2. CASE e.type \notin Sides
  BY <1>2 DEF SnapshotEntry
<1>3. CASE e.type \in Sides
  <2>1. acc.book \in BookType /\ acc.symbol \in Symbols \cup {NoSymbol} /\ acc.thrown \in BOOLEAN
    BY DEF ProgressType
  <2>2. [acc.book[e.type] EXCEPT ![PxTicks[e.px]] = SzTicks[e.sz]] \in SideType
    BY <1>1, <1>3, <2>1 DEF BookType, SideType
  <2>3. [acc.book EXCEPT ![e.type] = [acc.book[e.type] EXCEPT ![PxTicks[e.px]] = SzTicks[e.sz]]]
          \in BookType
    BY <1>3, <2>1, <2>2 DEF BookType
  <2> QED
    BY <1>3, <2>1, <2>3 DEF SnapshotEntry, ProgressType
<1> QED BY <1>2, <1>3

LEMMA IncrementEntryType ==
  ASSUME NEW acc \in ProgressType, NEW n, NEW clear \in BOOLEAN,
         NEW e \in [symbol: SymbolNames \cup {Missing}, type: EntryTypes,
                    action: Actions, px: Quotes, sz: Amounts \cup {Missing}]
  PROVE  IncrementEntry(acc, e, n, clear) \in ProgressType
<1>1. acc.book \in BookType /\ acc.symbol \in Symbols \cup {NoSymbol}
  BY DEF ProgressType
<1>2. from_str(e.symbol) \in Symbols
  BY DEF from_str, Symbols
<1>3. ASSUME e.type \in Sides
      PROVE  [acc.book EXCEPT ![e.type] = handle_price_level_update(@, e, clear)] \in BookType
  BY <1>1, <1>3, LevelUpdateType DEF BookType
<1>4. UpdateThrows(e) \in BOOLEAN
  BY DEF UpdateThrows
<1> QED
  BY <1>1, <1>2, <1>3, <1>4 DEF IncrementEntry, SymbolAfter, Progress, ProgressType

\* A call in progress only goes on with an entry the message has.
LEMMA EntryType ==
  ASSUME NEW acc \in ProgressType, NEW m \in MessageType, NEW n \in Nat \ {0},
         NEW clear \in BOOLEAN, Iterates(acc, m, n)
  PROVE  Entry(acc, m, n, clear) \in ProgressType
<1> DEFINE WEntries == [type: EntryTypes, px: Quotes, sz: Amounts]
           XEntries == [symbol: SymbolNames \cup {Missing}, type: EntryTypes,
                        action: Actions, px: Quotes, sz: Amounts \cup {Missing}]
<1>0. n \in Nat \ {0} /\ n <= Len(m.entries)
  BY DEF Iterates
<1>2. CASE m.kind = "W"
  <2>1. m.entries \in Seq(WEntries)
    BY <1>2 DEF MessageType, Snapshots, Increments
  <2>2. m.entries[n] \in WEntries
    <3> HIDE DEF WEntries
    <3> QED BY <2>1, <1>0, ElementOfSeq
  <2> QED BY <1>2, <2>2, SnapshotEntryType DEF Entry
<1>3. CASE m.kind # "W"
  <2>1. m.entries \in Seq(XEntries)
    BY <1>3 DEF MessageType, Snapshots, Increments
  <2>2. m.entries[n] \in XEntries
    <3> HIDE DEF XEntries
    <3> QED BY <2>1, <1>0, ElementOfSeq
  <2> QED BY <1>3, <2>2, IncrementEntryType DEF Entry
<1> QED BY <1>2, <1>3

-----------------------------------------------------------------------------
(* The loop.                                                               *)

LEMMA RoundType ==
  ASSUME NEW acc \in ProgressType, NEW m \in MessageType, NEW n \in Nat \ {0},
         NEW clear \in BOOLEAN
  PROVE  Round(acc, m, n, clear) \in ProgressType
BY EntryType DEF Round

LEMMA EntriesType == ASSUME NEW m \in MessageType PROVE Len(m.entries) \in Nat
BY LenProperties DEF MessageType, Snapshots, Increments

\* The rounds exist, that is, follow their recursive definition.
LEMMA RoundsDef ==
  ASSUME NEW acc \in ProgressType, NEW m \in MessageType, NEW i \in Nat \ {0},
         NEW clear \in BOOLEAN
  PROVE  /\ Rounds(acc, m, i, clear) \in [Nat -> ProgressType]
         /\ \A k \in Nat : Rounds(acc, m, i, clear)[k] =
              IF k < i THEN acc ELSE Round(Rounds(acc, m, i, clear)[k - 1], m, k, clear)
<1> DEFINE Goes(f) == [k \in Nat |-> IF k < i THEN acc ELSE Round(f[k - 1], m, k, clear)]
           D == [n \in Nat |-> [x \in ProgressType |->
                  IF n + 1 < i THEN acc ELSE Round(x, m, n + 1, clear)]]
<1> HIDE DEF D
<1>1. D \in [Nat -> [ProgressType -> ProgressType]]
  BY RoundType DEF D
<1>2. PICK f : Run(f, ProgressType, acc, D)
  BY <1>1, Recursion
<1>3. f = Goes(f)
  <2>1. ASSUME NEW k \in Nat PROVE f[k] = Goes(f)[k]
    <3>1. CASE k = 0
      BY <1>2, <3>1 DEF Run
    <3>2. CASE k # 0
      <4>1. k - 1 \in Nat /\ k = (k - 1) + 1
        BY <3>2
      <4>2. f[k] = D[k - 1][f[k - 1]]
        BY <1>2, <4>1 DEF Run
      <4>3. f[k - 1] \in ProgressType
        BY <1>2, <4>1 DEF Run
      <4> QED BY <4>1, <4>2, <4>3 DEF D
    <3> QED BY <3>1, <3>2
  <2> QED BY <1>2, <2>1 DEF Run
<1>4. Rounds(acc, m, i, clear) = CHOOSE g : g = Goes(g)
  BY DEF Rounds
<1> DEFINE r == Rounds(acc, m, i, clear)
<1> HIDE DEF r
<1>5. r = Goes(r)
  BY <1>3, <1>4 DEF r
<1>6. \A k \in Nat : r[k] = IF k < i THEN acc ELSE Round(r[k - 1], m, k, clear)
  BY <1>5
<1> DEFINE S == {k \in Nat : r[k] \in ProgressType}
<1>7. Nat \subseteq S
  <2>1. 0 \in S
    BY <1>6
  <2>2. ASSUME NEW n \in Nat, n \in S PROVE n + 1 \in S
    <3>1. r[n + 1] = IF n + 1 < i THEN acc ELSE Round(r[n], m, n + 1, clear)
      BY <1>6
    <3> QED BY <2>2, <3>1, RoundType
  <2> HIDE DEF S
  <2> QED BY <2>1, <2>2, Induction
<1>8. r \in [Nat -> ProgressType]
  BY <1>5, <1>7
<1> QED BY <1>6, <1>8 DEF r

LEMMA RemainingType ==
  ASSUME NEW acc \in ProgressType, NEW m \in MessageType, NEW i \in Nat \ {0},
         NEW clear \in BOOLEAN
  PROVE  Remaining(acc, m, i, clear) \in ProgressType
BY RoundsDef, EntriesType DEF Remaining

\* A call that does not go on with entry i is over.
LEMMA RemainingEnd ==
  ASSUME NEW acc \in ProgressType, NEW m \in MessageType, NEW i \in Nat \ {0},
         NEW clear \in BOOLEAN, ~Iterates(acc, m, i)
  PROVE  Remaining(acc, m, i, clear) = acc
<1> DEFINE r == Rounds(acc, m, i, clear)
           S == {k \in Nat : r[k] = acc}
<1> HIDE DEF r
<1>1. \A k \in Nat : r[k] = IF k < i THEN acc ELSE Round(r[k - 1], m, k, clear)
  BY RoundsDef DEF r
<1>2. \A k \in Nat : k >= i => ~Iterates(acc, m, k)
  BY EntriesType DEF Iterates
<1>3. Nat \subseteq S
  <2>1. 0 \in S
    BY <1>1
  <2>2. ASSUME NEW n \in Nat, n \in S PROVE n + 1 \in S
    <3>1. r[n + 1] = IF n + 1 < i THEN acc ELSE Round(r[n], m, n + 1, clear)
      BY <1>1
    <3> QED BY <1>2, <2>2, <3>1 DEF Round
  <2> HIDE DEF S
  <2> QED BY <2>1, <2>2, Induction
<1> QED BY <1>3, EntriesType DEF Remaining, r

\* One that does has that entry done first.
LEMMA RemainingStep ==
  ASSUME NEW acc \in ProgressType, NEW m \in MessageType, NEW i \in Nat \ {0},
         NEW clear \in BOOLEAN, Iterates(acc, m, i)
  PROVE  Remaining(acc, m, i, clear) = Remaining(Entry(acc, m, i, clear), m, i + 1, clear)
<1> DEFINE next == Entry(acc, m, i, clear)
           r == Rounds(acc, m, i, clear)
           q == Rounds(next, m, i + 1, clear)
           S == {k \in Nat : k >= i => r[k] = q[k]}
<1>0. next \in ProgressType /\ i + 1 \in Nat \ {0} /\ i <= Len(m.entries)
  BY EntryType DEF Iterates
<1>n. Round(acc, m, i, clear) = next
  BY DEF Round
<1> HIDE DEF r, q, next
<1>1. \A k \in Nat : r[k] = IF k < i THEN acc ELSE Round(r[k - 1], m, k, clear)
  BY RoundsDef DEF r
<1>2. \A k \in Nat : q[k] = IF k < i + 1 THEN next ELSE Round(q[k - 1], m, k, clear)
  BY <1>0, RoundsDef DEF q
<1>3. Nat \subseteq S
  <2>1. 0 \in S
    OBVIOUS
  <2>2. ASSUME NEW n \in Nat, n \in S PROVE n + 1 \in S
    <3>1. r[n + 1] = IF n + 1 < i THEN acc ELSE Round(r[n], m, n + 1, clear)
      BY <1>1
    <3>2. q[n + 1] = IF n + 1 < i + 1 THEN next ELSE Round(q[n], m, n + 1, clear)
      BY <1>2
    <3>3. CASE n + 1 = i
      <4>1. r[n] = acc
        BY <1>1, <3>3
      <4> QED BY <1>n, <3>1, <3>2, <3>3, <4>1
    <3>4. CASE n >= i
      BY <2>2, <3>1, <3>2, <3>4
    <3> QED BY <3>3, <3>4
  <2> HIDE DEF S
  <2> QED BY <2>1, <2>2, Induction
<1>4. r[Len(m.entries)] = q[Len(m.entries)]
  BY <1>0, <1>3, EntriesType
<1> QED BY <1>4 DEF Remaining, r, q, next

LEMMA ApplyType ==
  ASSUME NEW b \in BookType, NEW m \in MessageType, NEW clear \in BOOLEAN
  PROVE  Apply(b, m, clear) \in ProgressType
BY BeginType, RemainingType DEF Apply

-----------------------------------------------------------------------------
(***************************************************************************)
(* The loop against the reference.  After n entries of an increment it has *)
(* thrown if one of them was bad; else it carries the symbol of the name   *)
(* in force, and each level is what the last of the n entries that wrote   *)
(* it or cleared its side has made of it.                                  *)
(***************************************************************************)
LEMMA NameAtStart == ASSUME NEW es PROVE NameAt(es, 1) = es[1].symbol
<1> DEFINE S == {j \in 1..1 : j = 1 \/ es[j].symbol # Missing}
<1>1. S \in SUBSET Int /\ 1 \in S /\ \A y \in S : y <= 1
  OBVIOUS
<1>2. NameAt(es, 1) = es[Max(S)].symbol
  BY DEF NameAt
<1> HIDE DEF S
<1> QED BY <1>1, <1>2, TopIsMax

LEMMA NameAtNext ==
  ASSUME NEW es, NEW i \in Nat \ {0}
  PROVE  NameAt(es, i + 1) = IF es[i + 1].symbol # Missing THEN es[i + 1].symbol ELSE NameAt(es, i)
<1> DEFINE S(n) == {j \in 1..n : j = 1 \/ es[j].symbol # Missing}
<1>1. NameAt(es, i) = es[Max(S(i))].symbol /\ NameAt(es, i + 1) = es[Max(S(i + 1))].symbol
  BY DEF NameAt
<1>2. CASE es[i + 1].symbol # Missing
  <2>1. S(i + 1) \in SUBSET Int /\ i + 1 \in S(i + 1) /\ \A y \in S(i + 1) : y <= i + 1
    BY <1>2
  <2> HIDE DEF S
  <2>2. Max(S(i + 1)) = i + 1
    BY <2>1, TopIsMax
  <2> QED BY <1>1, <1>2, <2>2
<1>3. CASE es[i + 1].symbol = Missing
  <2>1. S(i + 1) = S(i)
    BY <1>3
  <2> HIDE DEF S
  <2> QED BY <1>1, <1>3, <2>1
<1> QED BY <1>2, <1>3

Reached(m, n)       == \A j \in 1..(n - 1) : ~Bad(m, j)
Passed(m, n)        == \A j \in 1..n : ~Bad(m, j)
WritesTo(m, n, s, p) ==
  {i \in 1..n : Passed(m, i) /\ Targets(m, i, s) /\ PxTicks[m.entries[i].px] = p}
ClearsTo(m, n, s, clear) ==
  {i \in 1..n : Reached(m, i) /\ Targets(m, i, s) /\ m.entries[i].action = "CHANGE" /\ clear}
LevelTo(b, m, n, s, p, clear) ==
  LevelAfter(b, m, s, p, WritesTo(m, n, s, p), ClearsTo(m, n, s, clear))

\* What the reference says of the calls in progress.
Agrees(acc, b, m, n, clear) ==
  /\ acc.thrown = ~Passed(m, n)
  /\ n # 0 /\ ~acc.thrown => ~BadName(m.entries, n) /\ acc.symbol = from_str(NameAt(m.entries, n))
  /\ \A s \in Sides, p \in Prices : acc.book[s][p] = LevelTo(b, m, n, s, p, clear)

XEntries == [symbol: SymbolNames \cup {Missing}, type: EntryTypes,
             action: Actions, px: Quotes, sz: Amounts \cup {Missing}]

LEMMA XEntryType ==
  ASSUME NEW m \in Increments, NEW i \in 1..Len(m.entries)
  PROVE  m.entries[i] \in XEntries
<1>1. m.entries \in Seq(XEntries)
  BY DEF Increments, XEntries
<1> HIDE DEF XEntries
<1> QED BY <1>1, ElementOfSeq

\* The symbol that the loop holds is that of the name in force.
LEMMA SymbolInForce ==
  ASSUME NEW m \in Increments, NEW i \in 1..Len(m.entries), NEW symbol,
         i # 1 => ~BadName(m.entries, i - 1) /\ symbol = from_str(NameAt(m.entries, i - 1))
  PROVE  LET e == m.entries[i]
         IN  /\ SymbolThrows(e, i) <=> BadName(m.entries, i)
             /\ ~BadName(m.entries, i) => SymbolAfter(e, i, symbol) = from_str(NameAt(m.entries, i))
<1> DEFINE es == m.entries
           e == es[i]
<1>0. i \in Nat \ {0}
  OBVIOUS
<1>1. CASE i = 1
  BY <1>1, NameAtStart DEF SymbolThrows, SymbolAfter, ReadsSymbol, BadName
<1>2. CASE i # 1
  <2>1. i - 1 \in Nat \ {0} /\ (i - 1) + 1 = i
    BY <1>0, <1>2
  <2>2. NameAt(es, (i - 1) + 1) = IF es[(i - 1) + 1].symbol # Missing
                                  THEN es[(i - 1) + 1].symbol ELSE NameAt(es, i - 1)
    BY <2>1, NameAtNext
  <2>3. NameAt(es, i) = IF e.symbol # Missing THEN e.symbol ELSE NameAt(es, i - 1)
    BY <2>1, <2>2
  <2>4. CASE e.symbol # Missing
    BY <1>2, <2>3, <2>4 DEF SymbolThrows, SymbolAfter, ReadsSymbol, BadName
  <2>5. CASE e.symbol = Missing
    BY <1>2, <2>3, <2>5 DEF SymbolThrows, SymbolAfter, ReadsSymbol, BadName
  <2> QED BY <2>4, <2>5
<1> QED BY <1>1, <1>2

\* An entry that does not touch a level leaves it, one that does decides it.
LEMMA Untouched ==
  ASSUME NEW b, NEW m, NEW n \in Nat, NEW s, NEW p, NEW clear,
         n + 1 \notin WritesTo(m, n + 1, s, p), n + 1 \notin ClearsTo(m, n + 1, s, clear)
  PROVE  LevelTo(b, m, n + 1, s, p, clear) = LevelTo(b, m, n, s, p, clear)
<1>1. \A i \in 1..(n + 1) : i \in 1..n \/ i = n + 1
  OBVIOUS
<1>2. \A i \in 1..n : i \in 1..(n + 1)
  OBVIOUS
<1>3. WritesTo(m, n + 1, s, p) = WritesTo(m, n, s, p)
  BY <1>1, <1>2 DEF WritesTo
<1>4. ClearsTo(m, n + 1, s, clear) = ClearsTo(m, n, s, clear)
  BY <1>1, <1>2 DEF ClearsTo
<1> QED BY <1>3, <1>4 DEF LevelTo

LEMMA Touched ==
  ASSUME NEW b, NEW m, NEW n \in Nat, NEW s, NEW p, NEW clear,
         n + 1 \in WritesTo(m, n + 1, s, p) \cup ClearsTo(m, n + 1, s, clear)
  PROVE  LevelTo(b, m, n + 1, s, p, clear) =
           IF n + 1 \notin WritesTo(m, n + 1, s, p) \/ m.entries[n + 1].action = "DELETE" THEN NoLevel
           ELSE SzTicks[m.entries[n + 1].sz]
<1> DEFINE touched == WritesTo(m, n + 1, s, p) \cup ClearsTo(m, n + 1, s, clear)
<1>1. touched \in SUBSET Int /\ n + 1 \in touched /\ \A y \in touched : y <= n + 1
  BY DEF WritesTo, ClearsTo
<1>2. Max(touched) = n + 1
  <2> HIDE DEF touched
  <2> QED BY <1>1, TopIsMax
<1> QED BY <1>1, <1>2 DEF LevelTo, LevelAfter

\* One round of the loop.
LEMMA RoundAgrees ==
  ASSUME NEW b \in BookType, NEW m \in Increments, NEW n \in Nat, n + 1 <= Len(m.entries),
         NEW acc \in ProgressType, NEW clear \in BOOLEAN, Agrees(acc, b, m, n, clear)
  PROVE  Agrees(Round(acc, m, n + 1, clear), b, m, n + 1, clear)
<1> DEFINE i == n + 1
           e == m.entries[i]
           next == Round(acc, m, i, clear)
<1> SUFFICES Agrees(next, b, m, i, clear)
  OBVIOUS
<1>0. /\ i \in 1..Len(m.entries) /\ m.kind = "X" /\ m \in MessageType /\ e \in XEntries
      /\ i # 0 /\ (i # 1 => n # 0 /\ i - 1 = n)
  <2>1. m.kind = "X" /\ m \in MessageType
    BY DEF Increments, MessageType
  <2>2. i \in 1..Len(m.entries) /\ i # 0 /\ (i # 1 => n # 0 /\ i - 1 = n)
    BY <2>1, EntriesType
  <2> HIDE DEF i
  <2> QED BY <2>1, <2>2, XEntryType
<1>1. \A j \in 1..i : j \in 1..n \/ j = i
  OBVIOUS
<1>2. Passed(m, i) <=> Passed(m, n) /\ ~Bad(m, i)
  <2>1. i \in 1..i /\ \A j \in 1..n : j \in 1..i
    OBVIOUS
  <2> QED BY <1>1, <2>1 DEF Passed
<1>3. Reached(m, i) <=> Passed(m, n)
  BY DEF Reached, Passed
<1> DEFINE W(s, p) == i \in WritesTo(m, i, s, p)
           C(s)    == i \in ClearsTo(m, i, s, clear)
<1>4. \A s, p : W(s, p) <=> Passed(m, i) /\ Targets(m, i, s) /\ PxTicks[e.px] = p
  BY DEF WritesTo
<1>5. \A s : C(s) <=> Passed(m, n) /\ Targets(m, i, s) /\ e.action = "CHANGE" /\ clear
  BY <1>3 DEF ClearsTo
<1>6. \A s, p : LevelTo(b, m, i, s, p, clear) =
                  IF ~W(s, p) /\ ~C(s) THEN LevelTo(b, m, n, s, p, clear)
                  ELSE IF ~W(s, p) \/ e.action = "DELETE" THEN NoLevel ELSE SzTicks[e.sz]
  BY Untouched, Touched
<1> HIDE DEF W, C
<1>7. CASE acc.thrown
  <2>1. next = acc
    BY <1>7 DEF Round, Iterates
  <2>2. ~Passed(m, n) /\ ~Passed(m, i)
    BY <1>2, <1>7 DEF Agrees
  <2>3. \A s, p : ~W(s, p) /\ ~C(s)
    BY <1>4, <1>5, <2>2
  <2> HIDE DEF i, e, next
  <2> QED BY <1>6, <1>7, <2>1, <2>2, <2>3 DEF Agrees
<1>8. CASE ~acc.thrown
  <2>1. Passed(m, n) /\ next = IncrementEntry(acc, e, i, clear)
    BY <1>0, <1>8 DEF Agrees, Round, Iterates, Entry
  <2> DEFINE symbol == SymbolAfter(e, i, acc.symbol)
             name == NameAt(m.entries, i)
  <2>2. /\ SymbolThrows(e, i) <=> BadName(m.entries, i)
        /\ ~BadName(m.entries, i) => symbol = from_str(name)
    BY <1>0, <1>8, SymbolInForce DEF Agrees
  <2>3. CASE BadName(m.entries, i)
    <3>1. next = Progress(acc.book, acc.symbol, TRUE)
      BY <2>1, <2>2, <2>3 DEF IncrementEntry
    <3>2. ~Passed(m, i) /\ \A s : ~Targets(m, i, s)
      BY <1>2, <2>3 DEF Bad, BadName, Targets, IsBTC
    <3>3. \A s, p : ~W(s, p) /\ ~C(s)
      BY <1>4, <1>5, <3>2
    <3> HIDE DEF i, e, next
    <3> QED BY <1>6, <3>1, <3>2, <3>3 DEF Agrees, Progress
  <2>4. CASE ~BadName(m.entries, i)
    <3>1. \A s : Targets(m, i, s) <=> symbol = "BTCUSDT" /\ e.type = s
      BY <2>2, <2>4 DEF Targets, IsBTC, BadName
    <3>2. BadSize(m, i) <=> symbol = "BTCUSDT" /\ e.type \in Sides /\ UpdateThrows(e)
      BY <3>1 DEF BadSize, UpdateThrows
    <3>3. CASE ~(symbol = "BTCUSDT" /\ e.type \in Sides)
      <4>1. next = Progress(acc.book, symbol, FALSE)
        BY <2>1, <2>2, <2>4, <3>3 DEF IncrementEntry
      <4>2. Passed(m, i) /\ \A s \in Sides : ~Targets(m, i, s)
        BY <1>2, <2>1, <2>4, <3>1, <3>2, <3>3 DEF Bad
      <4>3. \A s \in Sides, p \in Prices : ~W(s, p) /\ ~C(s)
        BY <1>4, <1>5, <4>2
      <4> HIDE DEF i, e, next, symbol, name
      <4> QED BY <1>6, <2>2, <2>4, <4>1, <4>2, <4>3 DEF Agrees, Progress, name
    <3>4. CASE symbol = "BTCUSDT" /\ e.type \in Sides
      <4> DEFINE level == handle_price_level_update(acc.book[e.type], e, clear)
      <4>1. next = Progress([acc.book EXCEPT ![e.type] = level], symbol, UpdateThrows(e))
        BY <2>1, <2>2, <2>4, <3>4 DEF IncrementEntry
      <4>2. Passed(m, i) <=> ~UpdateThrows(e)
        BY <1>2, <2>1, <2>4, <3>2, <3>4 DEF Bad
      <4>3. acc.book \in BookType /\ e.type \in Sides /\ acc.book[e.type] \in SideType
        BY <3>4 DEF ProgressType, BookType
      <4>4. ASSUME NEW s \in Sides \ {e.type}, NEW p \in Prices
            PROVE  next.book[s][p] = LevelTo(b, m, i, s, p, clear)
        <5>1. ~W(s, p) /\ ~C(s)
          BY <1>4, <1>5, <3>1
        <5>2. next.book[s] = acc.book[s]
          BY <4>1, <4>3 DEF Progress, BookType
        <5> HIDE DEF i, e, next
        <5> QED BY <1>6, <5>1, <5>2 DEF Agrees
      <4>5. ASSUME NEW p \in Prices
            PROVE  next.book[e.type][p] = LevelTo(b, m, i, e.type, p, clear)
        <5>1. next.book[e.type] = level
          BY <4>1, <4>3 DEF Progress, BookType
        <5>2. W(e.type, p) <=> ~UpdateThrows(e) /\ PxTicks[e.px] = p
          BY <1>4, <3>1, <3>4, <4>2
        <5>3. C(e.type) <=> e.action = "CHANGE" /\ clear
          BY <1>5, <2>1, <3>1, <3>4
        <5>4. acc.book[e.type][p] = LevelTo(b, m, n, e.type, p, clear)
          BY <3>4 DEF Agrees
        <5>5. Cleared(acc.book[e.type], e, clear)[p] = IF C(e.type) THEN NoLevel ELSE acc.book[e.type][p]
          BY <5>3 DEF Cleared, EmptySide
        <5>6. Cleared(acc.book[e.type], e, clear) \in SideType
          BY <4>3 DEF Cleared, EmptySide, SideType
        <5>7. level[p] = IF e.action = "DELETE"
                         THEN IF PxTicks[e.px] = p THEN NoLevel ELSE acc.book[e.type][p]
                         ELSE IF ~UpdateThrows(e) /\ PxTicks[e.px] = p THEN SzTicks[e.sz]
                         ELSE IF C(e.type) THEN NoLevel ELSE acc.book[e.type][p]
          BY <4>3, <5>5, <5>6 DEF handle_price_level_update, SideType, Erased
        <5>8. e.action = "DELETE" => ~UpdateThrows(e) /\ ~C(e.type)
          BY <5>3 DEF UpdateThrows
        <5> HIDE DEF i, e, next, level
        <5> QED BY <1>6, <5>1, <5>2, <5>4, <5>7, <5>8
      <4>6. next.thrown = ~Passed(m, i) /\ next.symbol = symbol
        BY <4>1, <4>2 DEF Progress, UpdateThrows
      <4> HIDE DEF i, e, next, symbol, name
      <4> QED BY <2>2, <2>4, <4>4, <4>5, <4>6 DEF Agrees, name
    <3> QED BY <3>3, <3>4
  <2> QED BY <2>3, <2>4
<1>9. acc.thrown \in BOOLEAN
  BY DEF ProgressType
<1> QED BY <1>7, <1>8, <1>9

\* The loop is done with the entries before the one it stops at, and reaches
\* that one.
LEMMA StopDef ==
  ASSUME NEW m \in MessageType
  PROVE  /\ Stop(m) \in 1..(Len(m.entries) + 1)
         /\ \A i \in 1..Len(m.entries) : (i <= Stop(m) - 1 <=> Passed(m, i)) /\ (i <= Stop(m) <=> Reached(m, i))
         /\ Stop(m) <= Len(m.entries) <=> ~Passed(m, Len(m.entries))
<1> DEFINE N == Len(m.entries)
           B == {n \in 1..(N + 1) : n = N + 1 \/ Bad(m, n)}
<1>0. N \in Nat
  BY EntriesType
<1>1. PICK x \in B : \A y \in B : x <= y
  <2>1. B \in SUBSET Nat /\ N + 1 \in B
    BY <1>0
  <2> HIDE DEF B
  <2> QED BY <2>1, Least
<1> HIDE DEF N
<1>2. \A i \in 1..(x - 1) : ~Bad(m, i)
  BY <1>0, <1>1
<1> DEFINE c == CHOOSE n \in 1..(N + 1) : (n = N + 1 \/ Bad(m, n)) /\ \A i \in 1..(n - 1) : ~Bad(m, i)
<1>3. c \in 1..(N + 1) /\ (c = N + 1 \/ Bad(m, c)) /\ \A i \in 1..(c - 1) : ~Bad(m, i)
  BY <1>1, <1>2
<1>4. Stop(m) = c
  BY DEF Stop, N
<1> HIDE DEF c
<1>5. ASSUME NEW i \in 1..N PROVE i <= c - 1 <=> Passed(m, i)
  <2>1. ASSUME i <= c - 1 PROVE Passed(m, i)
    BY <1>0, <1>3, <2>1 DEF Passed
  <2>2. ASSUME ~(i <= c - 1) PROVE ~Passed(m, i)
    <3>1. c \in 1..i /\ c # N + 1
      BY <1>0, <1>3, <2>2
    <3> QED BY <1>3, <3>1 DEF Passed
  <2> QED BY <2>1, <2>2
<1>6. ASSUME NEW i \in 1..N PROVE i <= c <=> Reached(m, i)
  <2>1. ASSUME i <= c PROVE Reached(m, i)
    BY <1>0, <1>3, <2>1 DEF Reached
  <2>2. ASSUME ~(i <= c) PROVE ~Reached(m, i)
    <3>1. c \in 1..(i - 1) /\ c # N + 1
      BY <1>0, <1>3, <2>2
    <3> QED BY <1>3, <3>1 DEF Reached
  <2> QED BY <2>1, <2>2
<1>7. c <= N <=> ~Passed(m, N)
  <2>1. CASE N = 0
    BY <1>3, <2>1 DEF Passed
  <2>2. CASE N # 0
    BY <1>0, <1>3, <1>5, <2>2
  <2> QED BY <2>1, <2>2
<1> QED BY <1>3, <1>4, <1>5, <1>6, <1>7 DEF N

LEMMA IncrementIsReference ==
  ASSUME NEW b \in BookType, NEW m \in Increments, NEW clear \in BOOLEAN
  PROVE  /\ Apply(b, m, clear).thrown = ReferenceThrows(m)
         /\ Apply(b, m, clear).book = ReferenceBook(b, m, clear)
<1> DEFINE N == Len(m.entries)
           acc == Progress(b, NoSymbol, FALSE)
           r == Rounds(acc, m, 1, clear)
           S == {n \in Nat : n <= N => Agrees(r[n], b, m, n, clear)}
<1>0. m \in MessageType /\ m.kind = "X" /\ m.kind # "W" /\ N \in Nat
  BY EntriesType DEF Increments, MessageType
<1>1. acc = Begin(b, m) /\ acc \in ProgressType
  BY <1>0, BeginType DEF Begin
<1>2. /\ r \in [Nat -> ProgressType] /\ r[0] = acc
      /\ \A k \in Nat : r[k + 1] = Round(r[k], m, k + 1, clear)
  <2>1. /\ r \in [Nat -> ProgressType]
        /\ \A k \in Nat : r[k] = IF k < 1 THEN acc ELSE Round(r[k - 1], m, k, clear)
    <3> HIDE DEF acc
    <3> QED BY <1>0, <1>1, RoundsDef
  <2> HIDE DEF acc, r
  <2> QED BY <2>1
<1>3. 0 \in S
  <2>1. ASSUME NEW s \in Sides, NEW p \in Prices PROVE LevelTo(b, m, 0, s, p, clear) = b[s][p]
    <3>1. WritesTo(m, 0, s, p) = {} /\ ClearsTo(m, 0, s, clear) = {}
      BY DEF WritesTo, ClearsTo
    <3> QED BY <3>1 DEF LevelTo, LevelAfter
  <2>2. acc.thrown = ~Passed(m, 0) /\ acc.book = b
    <3>1. Passed(m, 0)
      BY DEF Passed
    <3>2. acc.thrown = FALSE /\ acc.book = b
      BY DEF Progress
    <3> HIDE DEF acc
    <3> QED BY <3>1, <3>2
  <2> HIDE DEF acc, r
  <2> QED BY <1>2, <2>1, <2>2 DEF Agrees
<1>4. ASSUME NEW n \in Nat, n \in S PROVE n + 1 \in S
  <2> HIDE DEF r, acc
  <2>1. CASE n + 1 <= N
    <3>1. n <= N
      <4> HIDE DEF N, S
      <4> QED BY <1>0, <2>1
    <3>3. r[n] \in ProgressType /\ r[n + 1] = Round(r[n], m, n + 1, clear)
      BY <1>2
    <3>2. Agrees(r[n], b, m, n, clear)
      BY <1>4, <3>1
    <3> QED BY <2>1, <3>2, <3>3, RoundAgrees
  <2> QED BY <2>1
<1>5. Agrees(r[N], b, m, N, clear)
  <2>1. Nat \subseteq S
    <3> HIDE DEF S
    <3> QED BY <1>3, <1>4, Induction
  <2> HIDE DEF r
  <2> QED BY <1>0, <2>1
<1>6. Apply(b, m, clear) = r[N] /\ r[N] \in ProgressType
  BY <1>0, <1>1, <1>2 DEF Apply, Remaining
<1> HIDE DEF r, acc, S
<1>7. r[N].thrown = ReferenceThrows(m)
  BY <1>0, <1>5, StopDef DEF Agrees, ReferenceThrows
<1>s. /\ Stop(m) \in 1..(N + 1)
      /\ \A i \in 1..N : (i <= Stop(m) - 1 <=> Passed(m, i)) /\ (i <= Stop(m) <=> Reached(m, i))
  <2>1. m \in MessageType
    BY <1>0
  <2> QED BY <2>1, StopDef
<1>d. DOMAIN m.entries = 1..N
  BY LenProperties DEF Increments
<1> HIDE DEF N
<1>8. ASSUME NEW s \in Sides, NEW p \in Prices
      PROVE  LevelTo(b, m, N, s, p, clear) = IncrementLevel(b, m, s, p, clear)
  <2>1. WritesTo(m, N, s, p) = Writes(m, s, p)
    <3>1. \A i \in 1..N : i \in 1..(Stop(m) - 1) <=> Passed(m, i)
      BY <1>0, <1>s
    <3>2. \A i \in 1..(Stop(m) - 1) : i \in 1..N
      BY <1>0, <1>s
    <3> QED BY <3>1, <3>2 DEF WritesTo, Writes
  <2>2. ClearsTo(m, N, s, clear) = Clears(m, s, clear)
    <3>1. \A i \in 1..N : i \in 1..Stop(m) <=> Reached(m, i)
      BY <1>0, <1>s
    <3> QED BY <1>d, <3>1 DEF ClearsTo, Clears
  <2> QED BY <2>1, <2>2 DEF LevelTo, IncrementLevel
<1>9. r[N].book = ReferenceBook(b, m, clear)
  <2>1. r[N].book \in BookType
    BY <1>6 DEF ProgressType
  <2>2. \A s \in Sides : r[N].book[s] = [p \in Prices |-> r[N].book[s][p]]
    BY <2>1 DEF BookType, SideType
  <2>3. \A s \in Sides, p \in Prices : r[N].book[s][p] = IncrementLevel(b, m, s, p, clear)
    BY <1>5, <1>8 DEF Agrees
  <2>4. r[N].book = [s \in Sides |-> [p \in Prices |-> IncrementLevel(b, m, s, p, clear)]]
    BY <2>1, <2>2, <2>3 DEF BookType
  <2> QED BY <1>0, <2>4 DEF ReferenceBook
<1> QED BY <1>6, <1>7, <1>9

\* A snapshot: the levels listed so far.
Listed(m, n, s, p) == {i \in 1..n : m.entries[i].type = s /\ PxTicks[m.entries[i].px] = p}
ListedSoFar(acc, m, n) ==
  /\ acc.thrown = FALSE /\ acc.symbol = "BTCUSDT"
  /\ \A s \in Sides, p \in Prices : acc.book[s][p] = LevelListed(m, Listed(m, n, s, p))

LEMMA RoundLists ==
  ASSUME NEW m \in Snapshots, NEW n \in Nat, n + 1 <= Len(m.entries),
         NEW acc \in ProgressType, NEW clear \in BOOLEAN, ListedSoFar(acc, m, n)
  PROVE  ListedSoFar(Round(acc, m, n + 1, clear), m, n + 1)
<1> DEFINE i == n + 1
           e == m.entries[i]
           next == Round(acc, m, i, clear)
<1> SUFFICES ListedSoFar(next, m, i)
  OBVIOUS
<1>1. m.kind = "W"
  BY DEF Snapshots
<1>2. next = SnapshotEntry(acc, e)
  BY <1>1 DEF Round, Iterates, Entry, ListedSoFar
<1>3. acc.book \in BookType /\ DOMAIN acc = {"book", "symbol", "thrown"}
  BY DEF ProgressType
<1>4. ASSUME NEW s \in Sides, NEW p \in Prices
      PROVE  LevelListed(m, Listed(m, i, s, p)) =
               IF e.type = s /\ PxTicks[e.px] = p THEN SzTicks[e.sz]
               ELSE LevelListed(m, Listed(m, n, s, p))
  <2>0. \A j : j \in 1..i <=> j \in 1..n \/ j = i
    OBVIOUS
  <2>1. CASE e.type = s /\ PxTicks[e.px] = p
    <3> DEFINE L == Listed(m, i, s, p)
    <3>1. L \in SUBSET Int /\ i \in L /\ \A j \in L : j <= i
      BY <2>1 DEF Listed
    <3>2. Max(L) = i
      <4> HIDE DEF L, i
      <4> QED BY <3>1, TopIsMax
    <3> QED BY <2>1, <3>1, <3>2 DEF LevelListed
  <2>2. CASE ~(e.type = s /\ PxTicks[e.px] = p)
    <3>1. Listed(m, i, s, p) = Listed(m, n, s, p)
      BY <2>0, <2>2 DEF Listed
    <3> QED BY <2>2, <3>1
  <2> QED BY <2>1, <2>2
<1> HIDE DEF i, next
<1>5. CASE e.type \notin Sides
  <2>1. next = acc
    BY <1>2, <1>5 DEF SnapshotEntry
  <2> HIDE DEF e
  <2> QED BY <1>4, <1>5, <2>1 DEF ListedSoFar
<1>6. CASE e.type \in Sides
  <2>1. next = [acc EXCEPT !.book[e.type][PxTicks[e.px]] = SzTicks[e.sz]]
    BY <1>2, <1>6 DEF SnapshotEntry
  <2>2. next.thrown = acc.thrown /\ next.symbol = acc.symbol
    BY <1>3, <2>1
  <2>3. next.book = [acc.book EXCEPT ![e.type] = [@ EXCEPT ![PxTicks[e.px]] = SzTicks[e.sz]]]
    BY <1>3, <2>1
  <2> HIDE DEF e
  <2>4. ASSUME NEW s \in Sides, NEW p \in Prices
        PROVE  next.book[s][p] = IF e.type = s /\ PxTicks[e.px] = p THEN SzTicks[e.sz]
                                 ELSE acc.book[s][p]
    BY <1>3, <1>6, <2>3 DEF BookType, SideType
  <2> QED BY <1>4, <2>2, <2>4 DEF ListedSoFar
<1> QED BY <1>5, <1>6

LEMMA SnapshotIsReference ==
  ASSUME NEW b \in BookType, NEW m \in Snapshots, NEW clear \in BOOLEAN
  PROVE  /\ Apply(b, m, clear).thrown = ReferenceThrows(m)
         /\ Apply(b, m, clear).book = ReferenceBook(b, m, clear)
<1> DEFINE acc == Begin(b, m)
           N == Len(m.entries)
<1>0. m \in MessageType /\ m.kind = "W" /\ N \in Nat /\ m.symbol \in SymbolNames
  BY EntriesType DEF Snapshots, MessageType
<1>1. /\ acc \in ProgressType
      /\ acc = Progress(IF IsBTC(m.symbol) THEN EmptyBook ELSE b,
                        IF Known(m.symbol) THEN from_str(m.symbol) ELSE NoSymbol, ~Known(m.symbol))
  BY <1>0, BeginType DEF Begin, SnapshotBegin, SnapshotBase
<1>2. /\ acc.book = IF IsBTC(m.symbol) THEN EmptyBook ELSE b
      /\ acc.symbol = IF Known(m.symbol) THEN from_str(m.symbol) ELSE NoSymbol
      /\ acc.thrown = ~Known(m.symbol)
  BY <1>1 DEF Progress
<1>3. m.symbol # Missing
  BY <1>0, NameAssumption
<1>4. Apply(b, m, clear) = Remaining(acc, m, 1, clear)
  BY DEF Apply
<1> HIDE DEF acc
<1>5. CASE ~IsBTC(m.symbol)
  <2>1. ~Iterates(acc, m, 1)
    BY <1>0, <1>2, <1>3, <1>5 DEF Iterates, IsBTC
  <2>2. Apply(b, m, clear) = acc
    BY <1>0, <1>1, <1>4, <2>1, RemainingEnd
  <2>3. b = [s \in Sides |-> [p \in Prices |-> b[s][p]]]
    BY DEF BookType, SideType
  <2>4. ReferenceBook(b, m, clear) = [s \in Sides |-> [p \in Prices |-> b[s][p]]]
    BY <1>0, <1>5 DEF ReferenceBook, SnapshotLevel
  <2> QED BY <1>0, <1>2, <1>5, <2>2, <2>3, <2>4 DEF ReferenceThrows
<1>6. CASE IsBTC(m.symbol)
  <2> DEFINE r == Rounds(acc, m, 1, clear)
             S == {n \in Nat : n <= N => ListedSoFar(r[n], m, n)}
  <2>1. /\ r \in [Nat -> ProgressType] /\ r[0] = acc
        /\ \A k \in Nat : r[k + 1] = Round(r[k], m, k + 1, clear)
    <3>1. /\ r \in [Nat -> ProgressType]
          /\ \A k \in Nat : r[k] = IF k < 1 THEN acc ELSE Round(r[k - 1], m, k, clear)
      BY <1>0, <1>1, RoundsDef
    <3> HIDE DEF r
    <3> QED BY <3>1
  <2>2. Apply(b, m, clear) = r[N]
    BY <1>4 DEF Remaining
  <2> HIDE DEF r
  <2>3. 0 \in S
    <3>1. \A s \in Sides, p \in Prices : acc.book[s][p] = LevelListed(m, Listed(m, 0, s, p))
      BY <1>2, <1>6 DEF LevelListed, Listed, EmptyBook, EmptySide
    <3> QED BY <1>2, <1>6, <2>1, <3>1 DEF ListedSoFar, IsBTC
  <2>4. ASSUME NEW n \in Nat, n \in S PROVE n + 1 \in S
    <3>1. CASE n + 1 <= N
      <4>1. n <= N
        <5> HIDE DEF N, S
        <5> QED BY <1>0, <3>1
      <4>2. r[n] \in ProgressType /\ r[n + 1] = Round(r[n], m, n + 1, clear)
        BY <2>1
      <4>3. ListedSoFar(r[n], m, n)
        BY <2>4, <4>1
      <4> QED BY <3>1, <4>2, <4>3, RoundLists
    <3> QED BY <3>1
  <2>5. ListedSoFar(r[N], m, N)
    <3>1. Nat \subseteq S
      <4> HIDE DEF S
      <4> QED BY <2>3, <2>4, Induction
    <3> QED BY <1>0, <3>1
  <2>6. DOMAIN m.entries = 1..N
    BY LenProperties DEF Snapshots
  <2> HIDE DEF N
  <2>7. ASSUME NEW s \in Sides, NEW p \in Prices
        PROVE  r[N].book[s][p] = SnapshotLevel(b, m, s, p)
    BY <1>6, <2>5, <2>6 DEF ListedSoFar, Listed, SnapshotLevel
  <2>8. r[N].book = ReferenceBook(b, m, clear)
    <3>1. r[N].book \in BookType
      BY <1>0, <2>1 DEF ProgressType
    <3>2. \A s \in Sides : r[N].book[s] = [p \in Prices |-> r[N].book[s][p]]
      BY <3>1 DEF BookType, SideType
    <3>3. r[N].book = [s \in Sides |-> [p \in Prices |-> SnapshotLevel(b, m, s, p)]]
      BY <2>7, <3>1, <3>2 DEF BookType
    <3> QED BY <1>0, <3>3 DEF ReferenceBook
  <2>9. r[N].thrown = ReferenceThrows(m)
    BY <1>0, <1>6, <2>5 DEF ListedSoFar, ReferenceThrows, IsBTC
  <2> QED BY <2>2, <2>8, <2>9
<1> QED BY <1>5, <1>6

-----------------------------------------------------------------------------
(***************************************************************************)
(* to_vector.  An iterator visits every key of a map once, best first:     *)
(* after k increments it has n - k keys before it, and each key it has     *)
(* visited beats those.                                                    *)
(***************************************************************************)
\* A finite set of naturals has a greatest element.
LEMMA Greatest ==
  ASSUME NEW S \in SUBSET Nat, IsFiniteSet(S), S # {}
  PROVE  \E x \in S : \A y \in S : x >= y
<1> DEFINE Has(T) == \E x \in T : \A y \in T : x >= y
           I == {n \in Nat : \A T \in SUBSET Nat :
                   IsFiniteSet(T) /\ Cardinality(T) = n /\ T # {} => Has(T)}
<1>1. 0 \in I
  BY FS_EmptySet
<1>2. ASSUME NEW n \in Nat, n \in I PROVE n + 1 \in I
  <2> SUFFICES ASSUME NEW T \in SUBSET Nat, IsFiniteSet(T), Cardinality(T) = n + 1, T # {}
               PROVE  Has(T)
    OBVIOUS
  <2>1. PICK a \in T : TRUE
    OBVIOUS
  <2> DEFINE R == T \ {a}
  <2>2. R \in SUBSET Nat /\ IsFiniteSet(R) /\ Cardinality(R) = n
    <3>1. IsFiniteSet(R) /\ Cardinality(R) = Cardinality(T) - 1
      BY <2>1, FS_RemoveElement
    <3> QED BY <3>1
  <2>3. CASE R = {}
    <3>1. \A y \in T : y = a
      BY <2>3
    <3> QED BY <2>1, <3>1
  <2>4. CASE R # {}
    <3>1. PICK b \in R : \A y \in R : b >= y
      BY <1>2, <2>2, <2>4
    <3>2. \A y \in T : y \in R \/ y = a
      OBVIOUS
    <3>3. a \in Nat /\ b \in Nat /\ b \in T
      BY <2>1
    <3>4. CASE a >= b
      BY <2>1, <3>1, <3>2, <3>3, <3>4
    <3>5. CASE ~(a >= b)
      BY <3>1, <3>2, <3>3, <3>5
    <3> QED BY <3>4, <3>5
  <2> QED BY <2>3, <2>4
<1>3. Nat \subseteq I
  <2> HIDE DEF I
  <2> QED BY <1>1, <1>2, Induction
<1>4. Cardinality(S) \in Nat
  BY FS_CardinalityType
<1>5. Cardinality(S) \in I
  BY <1>3, <1>4
<1> QED BY <1>5

Beats(s, p, q) == IF s = "BID" THEN p > q ELSE p < q

LEMMA BestBeatsTheRest ==
  ASSUME NEW s, NEW S \in SUBSET Nat, IsFiniteSet(S), S # {}
  PROVE  BestOf(s, S) \in S /\ \A p \in S \ {BestOf(s, S)} : Beats(s, BestOf(s, S), p)
<1>1. CASE s = "BID"
  <2> DEFINE x == CHOOSE x \in S : \A y \in S : x >= y
  <2>1. x \in S /\ \A y \in S : x >= y
    BY Greatest
  <2>2. BestOf(s, S) = x
    BY <1>1 DEF BestOf, Max
  <2> HIDE DEF x
  <2> QED BY <1>1, <2>1, <2>2 DEF Beats
<1>2. CASE s # "BID"
  <2> DEFINE x == CHOOSE x \in S : \A y \in S : x <= y
  <2>1. x \in S /\ \A y \in S : x <= y
    BY Least
  <2>2. BestOf(s, S) = x
    BY <1>2 DEF BestOf, Min
  <2> HIDE DEF x
  <2> QED BY <1>2, <2>1, <2>2 DEF Beats
<1> QED BY <1>1, <1>2

LEMMA FiniteLevels ==
  ASSUME NEW level
  PROVE  Levels(level) \in SUBSET Nat /\ Levels(level) \subseteq Prices /\ IsFiniteSet(Levels(level))
<1>1. Prices \subseteq Nat
  BY TicksAssumption DEF Prices, Quotes
<1>2. Levels(level) \in SUBSET Prices
  BY DEF Levels
<1> QED BY <1>1, <1>2, KeyAssumption, FS_Subset

\* The keys before an iterator follow their recursive definition.
LEMMA AheadDef ==
  ASSUME NEW s, NEW level
  PROVE  /\ Ahead(s, level) \in [Nat -> SUBSET Levels(level)]
         /\ Ahead(s, level)[0] = Levels(level)
         /\ \A k \in Nat : Ahead(s, level)[k + 1] =
              Ahead(s, level)[k] \ {BestOf(s, Ahead(s, level)[k])}
<1> DEFINE L == Levels(level)
           Goes(f) == [k \in Nat |-> IF k = 0 THEN L ELSE f[k - 1] \ {BestOf(s, f[k - 1])}]
           D == [n \in Nat |-> [x \in SUBSET L |-> x \ {BestOf(s, x)}]]
           a == CHOOSE f : f = Goes(f)
<1>1. Ahead(s, level) = a
  BY DEF Ahead
<1>2. \E f : f = Goes(f)
  <2>1. L \in SUBSET L /\ D \in [Nat -> [SUBSET L -> SUBSET L]]
    OBVIOUS
  <2>2. PICK f : Run(f, SUBSET L, L, D)
    <3> HIDE DEF L, D
    <3> QED BY <2>1, Recursion
  <2>3. f \in [Nat -> SUBSET L] /\ f[0] = L /\ \A n \in Nat : f[n + 1] = f[n] \ {BestOf(s, f[n])}
    BY <2>2 DEF Run
  <2>4. ASSUME NEW k \in Nat PROVE f[k] = IF k = 0 THEN L ELSE f[k - 1] \ {BestOf(s, f[k - 1])}
    <3>1. CASE k = 0
      BY <2>3, <3>1
    <3>2. CASE k # 0
      <4>1. k - 1 \in Nat /\ (k - 1) + 1 = k
        BY <3>2
      <4> QED BY <2>3, <3>2, <4>1
    <3> QED BY <3>1, <3>2
  <2>5. f = Goes(f)
    <3> HIDE DEF L
    <3> QED BY <2>3, <2>4
  <2> QED BY <2>5
<1>3. a = Goes(a)
  BY <1>2
<1> HIDE DEF a
<1>4. DOMAIN a = Nat /\ \A k \in Nat : a[k] = IF k = 0 THEN L ELSE a[k - 1] \ {BestOf(s, a[k - 1])}
  BY <1>3
<1>5. a[0] = L /\ \A k \in Nat : a[k + 1] = a[k] \ {BestOf(s, a[k])}
  <2>1. \A k \in Nat : k + 1 \in Nat /\ k + 1 # 0 /\ (k + 1) - 1 = k
    OBVIOUS
  <2> QED BY <1>4, <2>1
<1>6. a \in [Nat -> SUBSET L]
  <2> DEFINE S == {k \in Nat : a[k] \in SUBSET L}
  <2>1. Nat \subseteq S
    <3>1. 0 \in S /\ \A k \in Nat : k \in S => k + 1 \in S
      BY <1>5
    <3> HIDE DEF S
    <3> QED BY <3>1, Induction
  <2>2. a = [k \in Nat |-> a[k]]
    BY <1>3
  <2> QED BY <2>1, <2>2
<1> QED BY <1>1, <1>5, <1>6

LEMMA KeysInOrder ==
  ASSUME NEW s, NEW level
  PROVE  LET n == Cardinality(Levels(level))
         IN  /\ n \in Nat /\ Keys(s, level) \in [1..n -> Levels(level)]
             /\ Levels(level) = {Keys(s, level)[j] : j \in 1..n}
             /\ \A j \in 1..n : \A k \in 1..n :
                  j < k => Beats(s, Keys(s, level)[j], Keys(s, level)[k])
<1> DEFINE L == Levels(level)
           n == Cardinality(L)
           u == Ahead(s, level)
           v == Keys(s, level)
           I == {k \in Nat : k <= n =>
                  /\ Cardinality(u[k]) = n - k
                  /\ L = u[k] \cup {v[j] : j \in 1..k}
                  /\ \A j \in 1..k : \A p \in u[k] : Beats(s, v[j], p)
                  /\ \A j, i \in 1..k : j < i => Beats(s, v[j], v[i])}
<1>1. L \in SUBSET Nat /\ IsFiniteSet(L) /\ n \in Nat
  BY FiniteLevels, FS_CardinalityType
<1>2. u \in [Nat -> SUBSET L] /\ u[0] = L /\ \A k \in Nat : u[k + 1] = u[k] \ {BestOf(s, u[k])}
  BY AheadDef
<1>3. DOMAIN v = 1..n /\ \A k \in 1..n : v[k] = BestOf(s, u[k - 1])
  BY DEF Keys
<1> HIDE DEF L, n, u, v
<1>4. \A k \in Nat : u[k] \in SUBSET Nat /\ IsFiniteSet(u[k])
  BY <1>1, <1>2, FS_Subset
<1>5. 0 \in I
  <2>1. 1..0 = {}
    OBVIOUS
  <2>2. n = Cardinality(L)
    BY DEF n
  <2> QED BY <1>1, <1>2, <2>1, <2>2
\* A key is visited as long as there is one ahead.
<1>6. ASSUME NEW k \in Nat, k \in I, k + 1 <= n
      PROVE  /\ v[k + 1] \in u[k] /\ v[k + 1] = BestOf(s, u[k])
             /\ \A p \in u[k + 1] : Beats(s, v[k + 1], p)
             /\ Cardinality(u[k + 1]) = n - (k + 1)
  <2>1. Cardinality(u[k]) = n - k /\ k + 1 \in 1..n /\ (k + 1) - 1 = k
    BY <1>1, <1>6
  <2>2. u[k] # {}
    <3>1. k + 1 <= n
      BY <1>6
    <3> HIDE DEF I
    <3>2. n - k # 0
      BY <1>1, <3>1
    <3> QED BY <2>1, <3>2, FS_EmptySet
  <2>3. v[k + 1] = BestOf(s, u[k])
    BY <1>3, <2>1
  <2>4. u[k] \in SUBSET Nat /\ IsFiniteSet(u[k])
    BY <1>4
  <2>5. BestOf(s, u[k]) \in u[k] /\ \A p \in u[k] \ {BestOf(s, u[k])} : Beats(s, BestOf(s, u[k]), p)
    BY <2>2, <2>4, BestBeatsTheRest
  <2>6. u[k + 1] = u[k] \ {v[k + 1]}
    BY <1>2, <2>3
  <2>7. Cardinality(u[k + 1]) = Cardinality(u[k]) - 1
    <3>1. v[k + 1] \in u[k] /\ IsFiniteSet(u[k])
      BY <2>3, <2>4, <2>5
    <3>2. Cardinality(u[k] \ {v[k + 1]}) = Cardinality(u[k]) - 1
      BY <3>1, FS_RemoveElement
    <3> QED BY <2>6, <3>2
  <2>8. Cardinality(u[k + 1]) = n - (k + 1)
    BY <1>1, <2>1, <2>7
  <2> QED BY <2>3, <2>5, <2>6, <2>8
<1>7. ASSUME NEW k \in Nat, k \in I PROVE k + 1 \in I
  <2> SUFFICES ASSUME k + 1 <= n PROVE k + 1 \in I
    OBVIOUS
  <2>1. /\ v[k + 1] \in u[k] /\ v[k + 1] = BestOf(s, u[k])
        /\ \A p \in u[k + 1] : Beats(s, v[k + 1], p)
        /\ Cardinality(u[k + 1]) = n - (k + 1)
    BY <1>6, <1>7
  <2>2. k <= n
    BY <1>1
  <2>3. /\ L = u[k] \cup {v[j] : j \in 1..k}
        /\ \A j \in 1..k : \A p \in u[k] : Beats(s, v[j], p)
        /\ \A j, i \in 1..k : j < i => Beats(s, v[j], v[i])
    BY <1>7, <2>2
  <2>4. u[k + 1] = u[k] \ {v[k + 1]}
    BY <1>2, <2>1
  <2>5. \A j : j \in 1..(k + 1) <=> j \in 1..k \/ j = k + 1
    OBVIOUS
  <2>6. {v[j] : j \in 1..(k + 1)} = {v[j] : j \in 1..k} \cup {v[k + 1]}
    BY <2>5
  <2>7. L = u[k + 1] \cup {v[j] : j \in 1..(k + 1)}
    BY <2>1, <2>3, <2>4, <2>6
  <2>8. \A j \in 1..(k + 1) : \A p \in u[k + 1] : Beats(s, v[j], p)
    BY <2>1, <2>3, <2>4, <2>5
  <2>9. ASSUME NEW j \in 1..(k + 1), NEW i \in 1..(k + 1), j < i PROVE Beats(s, v[j], v[i])
    <3>1. CASE i = k + 1
      <4>1. j \in 1..k
        BY <2>9, <3>1
      <4> QED BY <2>1, <2>3, <3>1, <4>1
    <3>2. CASE i # k + 1
      <4>1. j \in 1..k /\ i \in 1..k
        BY <2>9, <3>2
      <4> QED BY <2>3, <2>9, <4>1
    <3> QED BY <3>1, <3>2
  <2> QED BY <2>1, <2>7, <2>8, <2>9
<1>8. \A k \in Nat : k \in I
  <2> HIDE DEF I
  <2> QED BY <1>5, <1>7, Induction
<1>9. /\ u[n] = {} /\ L = {v[j] : j \in 1..n}
      /\ \A j \in 1..n : \A k \in 1..n : j < k => Beats(s, v[j], v[k])
  <2>1. n \in I /\ n <= n /\ n - n = 0
    BY <1>1, <1>8
  <2>2. Cardinality(u[n]) = 0
    BY <2>1
  <2>3. u[n] = {}
    BY <1>1, <1>4, <2>2, FS_EmptySet
  <2>4. L = u[n] \cup {v[j] : j \in 1..n}
    BY <2>1
  <2>5. \A j \in 1..n : \A k \in 1..n : j < k => Beats(s, v[j], v[k])
    BY <2>1
  <2> QED BY <2>3, <2>4, <2>5
<1>10. v \in [1..n -> L]
  <2>1. v = [k \in 1..n |-> v[k]]
    BY DEF v, Keys, n, L
  <2>2. \A k \in 1..n : v[k] \in L
    BY <1>9
  <2> QED BY <2>1, <2>2
<1> QED BY <1>1, <1>9, <1>10 DEF L, n, v

\* The rows of to_vector are the columns of keys side by side.
LEMMA ToVectorShows ==
  ASSUME NEW b \in BookType
  PROVE  Shows(to_vector(b), b)
<1> DEFINE B == Levels(b["BID"])
           A == Levels(b["OFFER"])
           bids == Bids(b)
           asks == Asks(b)
           nb == Cardinality(B)
           na == Cardinality(A)
           n == RowCount(b)
           rows == to_vector(b)
           hasBid == {k \in DOMAIN rows : rows[k].bid_px # Sentinel}
           hasAsk == {k \in DOMAIN rows : rows[k].ask_px # Sentinel}
<1>1. /\ nb \in Nat /\ bids \in [1..nb -> B] /\ B = {bids[j] : j \in 1..nb}
      /\ \A j \in 1..nb : \A k \in 1..nb : j < k => Beats("BID", bids[j], bids[k])
  BY KeysInOrder DEF Bids
<1>2. /\ na \in Nat /\ asks \in [1..na -> A] /\ A = {asks[j] : j \in 1..na}
      /\ \A j \in 1..na : \A k \in 1..na : j < k => Beats("OFFER", asks[j], asks[k])
  BY KeysInOrder DEF Asks
<1>3. n = IF nb > na THEN nb ELSE na
  BY DEF RowCount
<1>4. Sentinel \notin B /\ Sentinel \notin A
  BY KeyAssumption, FiniteLevels
<1>5. rows = [k \in 1..n |-> Row(b, k)]
  BY DEF to_vector
<1>6. Len(bids) = nb /\ Len(asks) = na
  <2>1. DOMAIN bids = 1..nb /\ DOMAIN asks = 1..na
    BY DEF Bids, Asks, Keys
  <2> HIDE DEF bids, asks, nb, na
  <2>2. Seq(B) = UNION {[1..k -> B] : k \in Nat} /\ Seq(A) = UNION {[1..k -> A] : k \in Nat}
    BY SeqDef
  <2>3. bids \in Seq(B) /\ asks \in Seq(A)
    <3> HIDE DEF A, B
    <3> QED BY <1>1, <1>2, <2>2, Zenon
  <2> QED BY <1>1, <1>2, <2>1, <2>3, LenProperties
<1>7. ASSUME NEW k \in 1..n
      PROVE  /\ rows[k].bid_px = IF k <= nb THEN bids[k] ELSE Sentinel
             /\ rows[k].bid_sz = IF k <= nb THEN b["BID"][bids[k]] ELSE Sentinel
             /\ rows[k].ask_px = IF k <= na THEN asks[k] ELSE Sentinel
             /\ rows[k].ask_sz = IF k <= na THEN b["OFFER"][asks[k]] ELSE Sentinel
  <2> HIDE DEF rows, n, nb, na
  <2> QED BY <1>5, <1>6 DEF Row
<1>8. DOMAIN rows = 1..n
  BY <1>5
<1> HIDE DEF B, A, bids, asks, nb, na, n, rows
<1>9. hasBid = 1..nb
  <2>1. \A k : k \in 1..nb <=> k \in 1..n /\ k <= nb
    BY <1>1, <1>2, <1>3
  <2>2. \A k \in 1..nb : bids[k] # Sentinel
    BY <1>1, <1>4
  <2> QED BY <1>7, <1>8, <2>1, <2>2
<1>10. hasAsk = 1..na
  <2>1. \A k : k \in 1..na <=> k \in 1..n /\ k <= na
    BY <1>1, <1>2, <1>3
  <2>2. \A k \in 1..na : asks[k] # Sentinel
    BY <1>2, <1>4
  <2> QED BY <1>7, <1>8, <2>1, <2>2
<1>11. /\ 1..nb \subseteq 1..n /\ 1..na \subseteq 1..n
       /\ (1..nb) \cup (1..na) = 1..n
  BY <1>1, <1>2, <1>3
<1>12. \A k \in 1..nb : rows[k].bid_px = bids[k] /\ rows[k].bid_sz = b["BID"][bids[k]]
  BY <1>1, <1>7, <1>11
<1>13. \A k \in 1..na : rows[k].ask_px = asks[k] /\ rows[k].ask_sz = b["OFFER"][asks[k]]
  BY <1>2, <1>7, <1>11
<1>14. B = {rows[k].bid_px : k \in hasBid} /\ A = {rows[k].ask_px : k \in hasAsk}
  <2>1. {rows[k].bid_px : k \in hasBid} = {bids[k] : k \in 1..nb}
    BY <1>9, <1>12
  <2>2. {rows[k].ask_px : k \in hasAsk} = {asks[k] : k \in 1..na}
    BY <1>10, <1>13
  <2> QED BY <1>1, <1>2, <2>1, <2>2
<1>15. ASSUME NEW k \in hasBid, NEW j \in 1..(k - 1)
       PROVE  j \in hasBid /\ rows[j].bid_px > rows[k].bid_px
  <2>1. k \in 1..nb /\ j \in 1..nb /\ j < k
    BY <1>1, <1>9
  <2>2. bids[j] > bids[k]
    BY <1>1, <2>1 DEF Beats
  <2> QED BY <1>9, <1>12, <2>1, <2>2
<1>16. ASSUME NEW k \in hasAsk, NEW j \in 1..(k - 1)
       PROVE  j \in hasAsk /\ rows[j].ask_px < rows[k].ask_px
  <2>1. k \in 1..na /\ j \in 1..na /\ j < k
    BY <1>2, <1>10
  <2>2. asks[j] < asks[k]
    BY <1>2, <2>1 DEF Beats
  <2> QED BY <1>10, <1>13, <2>1, <2>2
<1>17. ASSUME NEW k \in hasBid PROVE rows[k].bid_sz = b["BID"][rows[k].bid_px]
  BY <1>9, <1>12
<1>18. ASSUME NEW k \in hasAsk PROVE rows[k].ask_sz = b["OFFER"][rows[k].ask_px]
  BY <1>10, <1>13
<1>19. hasBid \cup hasAsk = DOMAIN rows
  BY <1>8, <1>9, <1>10, <1>11
<1>20. /\ Levels(b["BID"]) = {rows[k].bid_px : k \in hasBid}
       /\ Levels(b["OFFER"]) = {rows[k].ask_px : k \in hasAsk}
  BY <1>14 DEF A, B
<1> HIDE DEF hasBid, hasAsk
<1>21. /\ \A k \in hasBid : /\ rows[k].bid_sz = b["BID"][rows[k].bid_px]
                            /\ \A j \in 1..(k - 1) : j \in hasBid /\ rows[j].bid_px > rows[k].bid_px
       /\ \A k \in hasAsk : /\ rows[k].ask_sz = b["OFFER"][rows[k].ask_px]
                            /\ \A j \in 1..(k - 1) : j \in hasAsk /\ rows[j].ask_px < rows[k].ask_px
  BY <1>15, <1>16, <1>17, <1>18
<1> QED BY <1>19, <1>20, <1>21 DEF Shows, hasBid, hasAsk, rows
=============================================================================
