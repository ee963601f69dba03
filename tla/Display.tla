-------------------------------- MODULE Display --------------------------------
(***************************************************************************)
(* How the boxes write a size (OrderBookBox::to_table, TradeBox::to_table):*)
(* the stored ticks over the ticks per unit as a double, utils::Double::   *)
(* trim to 15 decimals without trailing zeros, and Helpers::Pad, which     *)
(* cuts the text to its column.  Both boxes take BTCUSDT's ticks per unit. *)
(*                                                                         *)
(* A size of w integer digits has Width - 1 - w decimals left; the text is *)
(* a natural here, in units of the last of them.                           *)
(***************************************************************************)
EXTENDS Ticks

Width == 10   \* columns_, the sizes
T == size_ticks_per_unit("BTCUSDT")
Sizes == 0..(10000 * T - 1)   \* sizes with four digits before the point

Pow10[n \in Nat] == IF n = 0 THEN 1 ELSE 10 * Pow10[n - 1]
IntegerDigits(k) == CHOOSE w \in 1..9 : /\ k \div T < Pow10[w]
                                        /\ w = 1 \/ k \div T >= Pow10[w - 1]
\* Decimals beyond the five that a size has.
ExtraDecimals(k) == Width - 1 - IntegerDigits(k) - 5

\* 2^n \div d, by doubling
PowerQuotient(n, d) ==
  LET q[j \in 0..n] == IF j = 0 THEN [div |-> 1 \div d, mod |-> 1 % d]
                       ELSE LET p == q[j - 1]
                            IN  [div |-> 2 * p.div + (2 * p.mod) \div d, mod |-> (2 * p.mod) % d]
  IN  q[n].div

(***************************************************************************)
(* The quotient is off by the rounding of a double.  When it lies below by *)
(* more than half a unit of the 15th decimal (2^(41 - e) / 5^10 in the     *)
(* units of Ticks, more than any error when k < T), the text is 999...     *)
(* where it should be 000...; above, the excess is cut off.  A debug build *)
(* divides.  A release build (-ffast-math) may multiply by the double      *)
(* above 1/T instead, which never lies lower than the quotient, and makes  *)
(* up for the rounding below 32.                                           *)
(***************************************************************************)
\* Mutant: a decimal more than a double is good for.
DividesShort_16(k) == k >= T /\ -QuoteError(k, T) > PowerQuotient(40 - Exponent(k, T), 48828125)
DividesShort(k) == k >= T /\ -QuoteError(k, T) > PowerQuotient(41 - Exponent(k, T), 9765625)
FallsShort(build, k) == IF DividesShort(k) /\ build = "debug" THEN {TRUE}
                        ELSE IF DividesShort(k) /\ k >= 32 * T THEN BOOLEAN ELSE {FALSE}

trim(k, short) == k * Pow10[ExtraDecimals(k)] - (IF short THEN 1 ELSE 0)
=============================================================================
