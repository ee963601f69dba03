-------------------------------- MODULE Doubles --------------------------------
(***************************************************************************)
(* What Ticks and Display work out, as IEEE 754 defines it: an operation   *)
(* on doubles rounds the exact result to the nearest number of 53          *)
(* significant bits, and of two equally near to the one with an even last  *)
(* bit.  Values are naturals, in units of 2^-s as in Ticks; the numbers    *)
(* are beyond TLC's integers, so this is a reference for the proofs.       *)
(***************************************************************************)
EXTENDS Display

\* The natural nearest to a/b.
Nearest(a, b) ==
  LET x == a % b
  IN  IF 2 * x < b \/ (2 * x = b /\ (a \div b) % 2 = 0) THEN a \div b ELSE a \div b + 1

\* The natural v > 0 to 53 significant bits.
LeadingBit(v) == CHOOSE b \in Nat : Pow2[b] <= v /\ v < Pow2[b + 1]
Significant(v) ==
  LET ulp == Pow2[LeadingBit(v) - 52]
  IN  IF LeadingBit(v) <= 52 THEN v ELSE Nearest(v, ulp) * ulp

\* The double nearest to k/unit, with s bits after the point; of the two
\* powers of two around k/unit the lower has exponent 52 - s.
BitsAfterPoint(k, unit) == 52 - Exponent(k, unit)
Double(k, unit) == Nearest(k * Pow2[BitsAfterPoint(k, unit)], unit)

\* static_cast<uint64_t>(value * ticks_per_unit), value read from the quote k/unit
RoundedTwice(k, unit) ==
  Significant(Double(k, unit) * unit) \div Pow2[BitsAfterPoint(k, unit)]

\* The first ten decimals of fifteen that to_chars writes of a double: the text
\* cut after the decimals that the column has room for, as a natural.
Text(double, bits, k) ==
  Nearest(double * Pow10[15], Pow2[bits]) \div Pow10[10 - ExtraDecimals(k)]

\* A debug build divides by T, a release build multiplies by the double 1/T.
Written(build, k) ==
  IF build = "debug" THEN Text(Double(k, T), BitsAfterPoint(k, T), k)
  ELSE Text(Significant(k * Double(1, T)), BitsAfterPoint(1, T), k)
=============================================================================
