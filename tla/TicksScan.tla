------------------------------ MODULE TicksScan ------------------------------
(***************************************************************************)
(* Walks the quotes of an instrument upwards from some starting points and *)
(* looks at the ticks the code stores for each, and at the size it shows.  *)
(***************************************************************************)
EXTENDS Display

CONSTANTS Starts, Length,  \* the quotes to walk, in units of one tick
          Instrument       \* the SymbolEnum they are quoted for
\* The quotes are sizes that Display is about.
ASSUME RangeAssumption ==
  Length \in Nat /\ \A start \in Starts : start \in Nat /\ start + Length \in Sizes

VARIABLES build,  \* "debug" or "release"
          left,   \* quotes to go
          quote,  \* the exact quote, in ticks
          px,     \* what price_to_ticks stores for it as a price
          sz,     \* what toUint64 stores for it as a size
          shown   \* what the boxes show for it as a size
scanVars == <<build, left, quote, px, sz, shown>>

Look(k) == /\ px' = price_to_ticks(k, Instrument)
           /\ sz' = size_to_ticks(k, Instrument)
           /\ \E short \in FallsShort(build, sz') : shown' = trim(sz', short)
ScanInit == /\ build \in {"debug", "release"}
            /\ left = Length /\ quote \in Starts
            /\ px = price_to_ticks(quote, Instrument)
            /\ sz = size_to_ticks(quote, Instrument)
            /\ \E short \in FallsShort(build, sz) : shown = trim(sz, short)
ScanNext == /\ left > 0
            /\ left' = left - 1
            /\ quote' = quote + 1
            /\ Look(quote')
            /\ UNCHANGED build
Scan == ScanInit /\ [][ScanNext]_scanVars

\* The upper part of each binade, where the doubles around the product are
\* more than T apart and the decimal's error is less than half of that: from
\* 2^n times the power of two above T to 2^n times 2T, in ticks.
InUpperBand(k, ticks_per_unit) ==
  LET above == Pow2[Log2(ticks_per_unit) + 1]
  IN  \E n \in 0..22 : k \div Pow2[n] \in above .. (2 * ticks_per_unit - 1)
\* A quote there is stored exactly, so that no two prices from 83886.08 to
\* 131071.99, say, share a key: the loss is confined to the lower bands.
UpperBandExact ==
  /\ InUpperBand(quote, price_ticks_per_unit(Instrument)) => px = quote
  /\ InUpperBand(quote, size_ticks_per_unit(Instrument)) => sz = quote

\* Quotes a double holds exactly (multiples of 1/4 of a unit) are stored
\* exactly, whole prices among them: the loss is confined to the others.
DyadicQuotesExact ==
  /\ quote % (price_ticks_per_unit(Instrument) \div 4) = 0 => px = quote
  /\ quote % (size_ticks_per_unit(Instrument) \div 4) = 0 => sz = quote

\* A stored size below 8 units, and any multiple of 1/32 of a unit, is shown
\* digit for digit, whichever way the build divides: 15 decimals hide the
\* rounding of the quotient there.
ShownDigitForDigit ==
  sz < 8 * T \/ sz % (T \div 32) = 0 => shown = sz * Pow10[ExtraDecimals(sz)]

\* What the code says of itself: the conversion to ticks is there for
\* correctness, each price having its own integer.
PriceIsExact == px = quote
=============================================================================
