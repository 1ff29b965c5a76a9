------------------------------ MODULE FarePolicy ------------------------------
(***************************************************************************)
(* The arithmetic of fares (pricing/fare-quote.ts): integer minor units    *)
(* and basis points, every fraction of a minor unit rounded up.  The       *)
(* program computes with IEEE doubles and refuses a product or a sum that  *)
(* is no safe integer; Rounded and DoubleCeil model that arithmetic for a  *)
(* mantissa of any width, and the quotes and payments are modelled with    *)
(* the exact operators that it is proved to agree with.                    *)
(***************************************************************************)
EXTENDS Integers

BasisPoints      == 10000
MetersPerKm      == 1000
SecondsPerMinute == 60

\* The rows migration 0004 seeds, one service type after the other; a version
\* that replaces the first is modelled by the second.
RateCards ==
  << [base |-> 12000, perKm |-> 6800, perMinute |-> 350,
      service |-> 10000, minSurge |-> 10000, maxSurge |-> 15000],
     [base |-> 18000, perKm |-> 9500, perMinute |-> 550,
      service |-> 10000, minSurge |-> 10000, maxSurge |-> 15000] >>

CeilRatio(numerator, denominator) ==
  (numerator + denominator - 1) \div denominator

Clamp(value, minimum, maximum) ==
  IF value < minimum THEN minimum ELSE IF value > maximum THEN maximum ELSE value

ApplyMultiplier(amount, multiplier) == CeilRatio(amount * multiplier, BasisPoints)

Subtotal(meters, seconds, card) ==
  card.base + CeilRatio(meters * card.perKm, MetersPerKm)
            + CeilRatio(seconds * card.perMinute, SecondsPerMinute)

\* What a journey costs under a rate card and a requested surge, the same for
\* the quote (quoteInitialFare) and for the observed metering of a completed
\* Trip (calculateFinalFare).
Fare(meters, seconds, surge, card) ==
  ApplyMultiplier(
    ApplyMultiplier(Subtotal(meters, seconds, card), card.service),
    Clamp(surge, card.minSurge, card.maxSurge))

-------------------------------------------------------------------------------
(* Doubles.  A double with a mantissa of w bits holds every integer up to   *)
(* 2^w exactly; a quotient is rounded to w significant bits, to nearest and *)
(* to even.  Quotients are kept as multiples of 2^-Scale(q).                *)

\* The powers of two.
PowerOfTwo[k \in Nat] == IF k = 0 THEN 1 ELSE 2 * PowerOfTwo[k - 1]

\* The power of two that puts the quotient n/d between 2^(w-1) and 2^w.
Scale(n, d, w) ==
  CHOOSE k \in 0..(2 * w) : /\ PowerOfTwo[w - 1] * d <= n * PowerOfTwo[k]
                            /\ n * PowerOfTwo[k] < PowerOfTwo[w] * d

\* n/d rounded to the nearest multiple of 2^-k, ties to the even one.
Rounded(n, d, k) ==
  LET whole == (n * PowerOfTwo[k]) \div d
      rest  == (n * PowerOfTwo[k]) % d
  IN  IF 2 * rest > d \/ (2 * rest = d /\ whole % 2 = 1) THEN whole + 1 ELSE whole

\* Math.ceil(n / d) as doubles with a mantissa of w bits compute it.
DoubleCeil(n, d, w) ==
  IF n = 0 THEN 0
  ELSE LET k == Scale(n, d, w) IN CeilRatio(Rounded(n, d, k), PowerOfTwo[k])

\* Mutant of Safe: the bound is one bit too wide.
SafeOneBitMore(w) == 0..(PowerOfTwo[w + 1] - 1)

\* Number.isSafeInteger bounds a numerator by 2^w - 1.
Safe(w) == 0..(PowerOfTwo[w] - 1)

\* Math.ceil of a quotient of doubles is the ceiling of the exact quotient as
\* long as numerator and denominator pass checkedMultiply and checkedSum: a
\* quotient is never rounded onto, or over, the integer just below it.
CeilingsExact(w) ==
  \A n \in Safe(w), d \in Safe(w) \ {0, 1} : DoubleCeil(n, d, w) = CeilRatio(n, d)

\* The fare as it is computed, every ceiling of a double quotient.
DoubleMultiplier(amount, multiplier, w) == DoubleCeil(amount * multiplier, BasisPoints, w)

DoubleSubtotal(meters, seconds, card, w) ==
  card.base + DoubleCeil(meters * card.perKm, MetersPerKm, w)
            + DoubleCeil(seconds * card.perMinute, SecondsPerMinute, w)

DoubleFare(meters, seconds, surge, card, w) ==
  DoubleMultiplier(
    DoubleMultiplier(DoubleSubtotal(meters, seconds, card, w), card.service, w),
    Clamp(surge, card.minSurge, card.maxSurge), w)

\* No step of that computation is refused.
FarePasses(meters, seconds, surge, card, w) ==
  LET subtotal == DoubleSubtotal(meters, seconds, card, w)
  IN  /\ {meters * card.perKm, seconds * card.perMinute, subtotal,
          subtotal * card.service} \subseteq Safe(w)
      /\ DoubleMultiplier(subtotal, card.service, w)
           * Clamp(surge, card.minSurge, card.maxSurge) \in Safe(w)

===============================================================================
