-------------------------------- MODULE Ticks --------------------------------
(***************************************************************************)
(* utils::Double::toUint64 (src/utils/double.h) on a quoted decimal.       *)
(*                                                                         *)
(* A quote of k/T (k a natural, T ticks per unit) reaches the code as the  *)
(* nearest IEEE double; the code multiplies it by T, which rounds again,   *)
(* and truncates.  Everything is kept in units of 2^-s, s = 52 - e, where  *)
(* e is the binary exponent of k/T: the quote is then an integer plus a    *)
(* remainder, and only the remainder matters.                              *)
(***************************************************************************)
EXTENDS Integers

-----------------------------------------------------------------------------
\* 2^n
Pow2[n \in Nat] == IF n = 0 THEN 1 ELSE 2 * Pow2[n - 1]
\* floor(log2(n)), for 0 < n < 2^53
Log2(n) == CHOOSE e \in 0..52 : Pow2[e] <= n /\ n < Pow2[e + 1]
\* floor(log2(k / unit)), for k > 0
Exponent(k, unit) ==
  IF k >= unit THEN Log2(k \div unit)
  ELSE -(CHOOSE d \in 1..53 : Pow2[d - 1] * k < unit /\ unit <= Pow2[d] * k)

\* (k * 2^n) % unit, by doubling
ShiftedRemainder(k, n, unit) ==
  LET r[j \in 0..n] == IF j = 0 THEN k % unit ELSE (2 * r[j - 1]) % unit
  IN  r[n]

(***************************************************************************)
(* First rounding, decimal to double: the error of double * T against k,   *)
(* in units of 2^-s.  It is at most T/2 either way.                        *)
(***************************************************************************)
\* Mutant: a decimal read as the double strictly below it.
QuoteError_down(k, T) ==
  LET x == ShiftedRemainder(k, 52 - Exponent(k, T), T)
  IN  IF x = 0 THEN -T ELSE -x
QuoteError(k, T) ==
  LET x == ShiftedRemainder(k, 52 - Exponent(k, T), T)
  IN  IF 2 * x < T THEN -x ELSE T - x

(***************************************************************************)
(* Second rounding, of the product: it returns to k unless the error is    *)
(* more than half the gap to the double below k, in the same units.  That  *)
(* gap is halved when k is a power of two.  An error above k is cut off by *)
(* the truncation whatever the rounding does.                              *)
(***************************************************************************)
\* Mutant: the product is kept with a bit more than a double has.
Gap_extended(k, T) == Pow2[Exponent(k, 1) - Exponent(k, T) - 1]
Gap(k, T) == Pow2[Exponent(k, 1) - Exponent(k, T)]
IsPowerOf2(k) == k = Pow2[Exponent(k, 1)]
FallsBelow(k, T) ==
  LET err == QuoteError(k, T)
  IN  (IF IsPowerOf2(k) THEN -4 ELSE -2) * err > Gap(k, T)

\* toUint64 of the quote k/T with T ticks per unit
toUint64(k, T) == IF k > 0 /\ FallsBelow(k, T) THEN k - 1 ELSE k

-----------------------------------------------------------------------------
\* Config::get_price_ticks_per_unit and get_size_ticks_per_unit
price_ticks_per_unit(symbol) == 100
size_ticks_per_unit(symbol) == IF symbol = "BTCUSDT" THEN 100000 ELSE 10000
price_to_ticks(k, symbol) == toUint64(k, price_ticks_per_unit(symbol))
size_to_ticks(k, symbol)  == toUint64(k, size_ticks_per_unit(symbol))
=============================================================================
