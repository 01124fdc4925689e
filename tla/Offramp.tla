------------------------------- MODULE Offramp -------------------------------
(***************************************************************************)
(* The arithmetic of the USDC -> USD off-ramp (src/domain/offramp.ts).     *)
(* USDC is counted in 10^-6 minor units, USD in cents, so the par          *)
(* conversion divides by 10^4 and floors; the basis-point fee is rounded   *)
(* half to even.  BigInt division truncates, which is \div on Nat.         *)
(***************************************************************************)
EXTENDS Integers

USDC_MINOR_PER_CENT == 10000
BpsDenominator == 10000

\* Mutant of the conversion: round up to the cent.
UsdcMinorToUsdCentsCeil(usdcMinor) ==
  (usdcMinor + USDC_MINOR_PER_CENT - 1) \div USDC_MINOR_PER_CENT

\* Par conversion, floored to the cent; the code throws below zero.
UsdcMinorToUsdCents(usdcMinor) == usdcMinor \div USDC_MINOR_PER_CENT

\* Mutant of the fee: ties always up.
FeeFromBpsHalfUp(amountMinor, feeBps) ==
  (2 * amountMinor * feeBps + BpsDenominator) \div (2 * BpsDenominator)

\* amount * bps / 10000, an exact tie going to the even quotient.
FeeFromBps(amountMinor, feeBps) ==
  LET numerator == amountMinor * feeBps
      quotient  == numerator \div BpsDenominator
      twice     == 2 * (numerator % BpsDenominator)
      roundsUp  == \/ twice > BpsDenominator
                   \/ twice = BpsDenominator /\ quotient % 2 # 0
  IN  IF roundsUp THEN quotient + 1 ELSE quotient

\* Mutant of the guard: dust is let through.
QuoteRefusedOnlyNegative(grossUsdcMinor) == grossUsdcMinor <= 0

\* The two throws of quoteUsdcToUsd that a deposit can meet: not positive, or
\* dust that rounds to zero cents.
QuoteRefused(grossUsdcMinor) ==
  \/ grossUsdcMinor <= 0
  \/ UsdcMinorToUsdCents(grossUsdcMinor) <= 0

\* Mutant of the quote: the fee is taken of the USDC amount.
QuoteFeeOnUsdc(grossUsdcMinor, feeBps) ==
  LET cents == UsdcMinorToUsdCents(grossUsdcMinor)
      fee   == FeeFromBps(grossUsdcMinor, feeBps)
  IN  [ grossUsdcMinor |-> grossUsdcMinor, grossUsdCents |-> cents,
        feeUsdCents |-> fee, netUsdCents |-> cents - fee ]

QuoteUsdcToUsd(grossUsdcMinor, feeBps) ==
  LET cents == UsdcMinorToUsdCents(grossUsdcMinor)
      fee   == FeeFromBps(cents, feeBps)
  IN  [ grossUsdcMinor |-> grossUsdcMinor,
        grossUsdCents  |-> cents,
        feeUsdCents    |-> fee,
        netUsdCents    |-> cents - fee ]
=============================================================================
