---------------------------- MODULE OfframpProofs ----------------------------
(***************************************************************************)
(* What holds of the off-ramp arithmetic for every deposit and every legal *)
(* fee rate.                                                               *)
(***************************************************************************)
EXTENDS Offramp, TLAPS

\* The par conversion floors: the cents are worth no more than the USDC they
\* came from, and what is left over is less than a cent.
THEOREM ParConversionFloors ==
  ASSUME NEW n \in Nat
  PROVE  /\ UsdcMinorToUsdCents(n) \in Nat
         /\ n - UsdcMinorToUsdCents(n) * USDC_MINOR_PER_CENT
              \in 0 .. (USDC_MINOR_PER_CENT - 1)
BY SMTT(30) DEF UsdcMinorToUsdCents, USDC_MINOR_PER_CENT

\* The fee is amount * bps / 10000 to the nearest integer, an exact tie going
\* to the even one.
THEOREM FeeRoundsHalfEven ==
  ASSUME NEW n \in Nat, NEW bps \in 0 .. BpsDenominator
  PROVE  LET fee == FeeFromBps(n, bps)
             error == 2 * (fee * BpsDenominator - n * bps)
         IN  /\ fee \in Nat
             /\ -BpsDenominator <= error /\ error <= BpsDenominator
             /\ (error = BpsDenominator \/ error = -BpsDenominator) => fee % 2 = 0
<1> DEFINE x == n * bps
           q == x \div BpsDenominator
           r == x % BpsDenominator
<1>1. x \in Nat
  BY DEF BpsDenominator
<1>2. q \in Nat /\ r \in 0 .. 9999 /\ x = 10000 * q + r
  <2> HIDE DEF x
  <2> QED BY <1>1 DEF BpsDenominator
<1>3. FeeFromBps(n, bps) = IF 2 * r > 10000 \/ (2 * r = 10000 /\ q % 2 # 0)
                           THEN q + 1 ELSE q
  BY DEF FeeFromBps, BpsDenominator
<1> HIDE DEF x, q, r
<1>4. n * bps = x
  BY DEF x
<1> QED BY <1>2, <1>3, <1>4 DEF BpsDenominator

\* A legal fee rate never takes more than the amount, so the client's net is
\* never negative and net plus fee is the converted gross.
THEOREM FeeWithinAmount ==
  ASSUME NEW n \in Nat, NEW bps \in 0 .. BpsDenominator
  PROVE  FeeFromBps(n, bps) \in 0 .. n
<1> DEFINE fee == FeeFromBps(n, bps)
           x == n * bps
<1>1. fee \in Nat /\ 2 * (fee * BpsDenominator - x) <= BpsDenominator
  BY FeeRoundsHalfEven
<1>2. x \in Nat /\ x <= n * 10000
  BY DEF BpsDenominator
<1> HIDE DEF fee, x
<1>3. fee <= n
  BY <1>1, <1>2 DEF BpsDenominator
<1> QED BY <1>1, <1>3 DEF fee

LEMMA QuoteType ==
  ASSUME NEW n \in Nat, NEW bps \in 0 .. BpsDenominator
  PROVE  LET q == QuoteUsdcToUsd(n, bps)
         IN  /\ q.grossUsdcMinor = n
             /\ q.grossUsdCents \in Nat /\ q.feeUsdCents \in Nat /\ q.netUsdCents \in Nat
             /\ q.netUsdCents + q.feeUsdCents = q.grossUsdCents
<1>1. UsdcMinorToUsdCents(n) \in Nat
  BY ParConversionFloors
<1>2. FeeFromBps(UsdcMinorToUsdCents(n), bps) \in 0 .. UsdcMinorToUsdCents(n)
  BY <1>1, FeeWithinAmount
<1> QED BY <1>1, <1>2 DEF QuoteUsdcToUsd

\* The exact fee in units of 1/10000, named so that the steps below see no
\* product of variables.
Exact(n, bps) == n * bps

LEMMA ExactType ==
  ASSUME NEW n \in Nat, NEW bps \in 0 .. BpsDenominator
  PROVE  Exact(n, bps) \in Nat
BY DEF Exact, BpsDenominator

LEMMA ExactFacts ==
  ASSUME NEW c \in Nat, NEW k \in Nat, NEW bps \in 0 .. BpsDenominator
  PROVE  /\ Exact(c + k, bps) = Exact(c, bps) + Exact(k, bps)
         /\ bps = 10000 => Exact(c, bps) = 10000 * c
         /\ bps < 10000 => Exact(k, bps) <= 9999 * k
<1>1. bps \in 0 .. 10000
  BY DEF BpsDenominator
<1>2. (c + k) * bps = c * bps + k * bps
  BY <1>1
<1>3. bps = 10000 => c * bps = 10000 * c
  OBVIOUS
<1>4. bps \in 0 .. 9999 => k * bps <= 9999 * k
  OBVIOUS
<1> QED BY <1>1, <1>2, <1>3, <1>4 DEF Exact

\* The distance of the fee from the exact one.
LEMMA FeeError ==
  ASSUME NEW n \in Nat, NEW bps \in 0 .. BpsDenominator
  PROVE  /\ FeeFromBps(n, bps) \in Nat
         /\ -10000 <= 2 * (FeeFromBps(n, bps) * 10000 - Exact(n, bps))
         /\ 2 * (FeeFromBps(n, bps) * 10000 - Exact(n, bps)) <= 10000
<1> DEFINE fee == FeeFromBps(n, bps)
           x == n * bps
<1>1. LET error == 2 * (fee * BpsDenominator - x)
      IN  fee \in Nat /\ -BpsDenominator <= error /\ error <= BpsDenominator
  BY FeeRoundsHalfEven
<1> HIDE DEF fee, x
<1>2. fee \in Nat /\ -10000 <= 2 * (fee * 10000 - x) /\ 2 * (fee * 10000 - x) <= 10000
  BY <1>1 DEF BpsDenominator
<1> QED BY <1>2 DEF fee, x, Exact

\* The fee grows no faster than the amount.
LEMMA FeeGrowsSlower ==
  ASSUME NEW c \in Nat, NEW k \in Nat, NEW bps \in 0 .. BpsDenominator
  PROVE  FeeFromBps(c + k, bps) - FeeFromBps(c, bps) <= k
<1> DEFINE f == FeeFromBps(c, bps)
           g == FeeFromBps(c + k, bps)
           x == Exact(c, bps)
           z == Exact(k, bps)
<1>1. c + k \in Nat /\ bps \in 0 .. 10000
  BY DEF BpsDenominator
<1>2. f \in Nat /\ -10000 <= 2 * (f * 10000 - x) /\ 2 * (f * 10000 - x) <= 10000
  BY FeeError
<1>3. g \in Nat /\ 2 * (g * 10000 - (x + z)) <= 10000
  <2>1. g \in Nat /\ 2 * (g * 10000 - Exact(c + k, bps)) <= 10000
    <3> DEFINE n == c + k
    <3> HIDE DEF n
    <3>1. n \in Nat
      BY <1>1 DEF n
    <3>2. /\ FeeFromBps(n, bps) \in Nat
          /\ 2 * (FeeFromBps(n, bps) * 10000 - Exact(n, bps)) <= 10000
      BY <3>1, FeeError
    <3> QED BY <3>2 DEF n
  <2>2. Exact(c + k, bps) = x + z
    BY ExactFacts
  <2> QED BY <2>1, <2>2
<1>4. x \in Nat /\ z \in Nat
  BY ExactType
<1>5. CASE k = 0
  BY <1>2, <1>5
<1>6. CASE bps = 10000
  <2>1. z = 10000 * k /\ x = 10000 * c
    BY <1>6 DEF Exact
  <2> HIDE DEF f, g, x, z
  <2>2. f = c /\ g <= c + k
    BY <1>2, <1>3, <2>1
  <2>3. g - f <= k
    BY <1>3, <2>2
  <2> QED BY <2>3 DEF f, g
<1>7. CASE k > 0 /\ bps < 10000
  <2>1. z <= 9999 * k
    BY <1>7, ExactFacts
  <2> HIDE DEF f, g, x, z
  <2>2. g - f <= k
    BY <1>2, <1>3, <1>4, <1>7, <2>1
  <2> QED BY <2>2 DEF f, g
<1> QED BY <1>1, <1>5, <1>6, <1>7

\* Who deposits more never nets less, at whatever rate: no rounding of the fee
\* costs more than the deposit grew.
THEOREM NetIsMonotone ==
  ASSUME NEW m \in Nat, NEW n \in Nat, m <= n, NEW bps \in 0 .. BpsDenominator
  PROVE  QuoteUsdcToUsd(m, bps).netUsdCents <= QuoteUsdcToUsd(n, bps).netUsdCents
<1> DEFINE c == UsdcMinorToUsdCents(m)
           d == UsdcMinorToUsdCents(n)
<1>1. c \in Nat /\ d \in Nat /\ c <= d
  BY DEF UsdcMinorToUsdCents, USDC_MINOR_PER_CENT
<1>2. FeeFromBps(c, bps) \in Nat /\ FeeFromBps(d, bps) \in Nat
  BY <1>1, FeeRoundsHalfEven
<1>3. FeeFromBps(d, bps) - FeeFromBps(c, bps) <= d - c
  <2> HIDE DEF c, d
  <2>1. d - c \in Nat /\ c + (d - c) = d
    BY <1>1
  <2>2. FeeFromBps(c + (d - c), bps) - FeeFromBps(c, bps) <= d - c
    BY <1>1, <2>1, FeeGrowsSlower
  <2> QED BY <2>1, <2>2
<1>4. /\ QuoteUsdcToUsd(m, bps).netUsdCents = c - FeeFromBps(c, bps)
      /\ QuoteUsdcToUsd(n, bps).netUsdCents = d - FeeFromBps(d, bps)
  BY DEF QuoteUsdcToUsd
<1> HIDE DEF c, d
<1> QED BY <1>1, <1>2, <1>3, <1>4
=============================================================================
