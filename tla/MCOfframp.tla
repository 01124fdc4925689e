------------------------------ MODULE MCOfframp ------------------------------
(***************************************************************************)
(* Evaluates the off-ramp arithmetic on a grid of deposits and fee rates   *)
(* around its boundaries: dust, exact cents, residues, exact ties.         *)
(***************************************************************************)
EXTENDS Offramp, FiniteSets

CONSTANTS
  CentsUpTo,   \* deposits of 0 .. CentsUpTo cents are tried ...
  Residues,    \* ... each with these sub-cent remainders of USDC
  Rates        \* fee rates, in basis points

ASSUME GridAssumption ==
  /\ CentsUpTo \in Nat
  /\ Residues \subseteq 0 .. (USDC_MINOR_PER_CENT - 1)
  /\ Rates \subseteq 0 .. BpsDenominator

VARIABLES deposit, rate
vars == <<deposit, rate>>

Deposits == { c * USDC_MINOR_PER_CENT + r : c \in 0 .. CentsUpTo, r \in Residues }

Init == deposit \in Deposits /\ rate \in Rates

\* Move to the next deposit of the grid at the same rate.
NextDeposit ==
  /\ \E d \in Deposits : d > deposit /\ deposit' = d
  /\ UNCHANGED rate

Spec == Init /\ [][NextDeposit]_vars

quote == QuoteUsdcToUsd(deposit, rate)

Distance(a, b) == IF a > b THEN a - b ELSE b - a

\* The definition of banker's rounding: among the integers, those nearest to
\* amount * bps / 10000, and of two equally near ones the even one.
BankersRounding(amount, bps) ==
  LET Error(f) == Distance(f * BpsDenominator, amount * bps)
      nearest  == { f \in 0 .. amount + 1 :
                      \A g \in 0 .. amount + 1 : Error(f) <= Error(g) }
  IN  CHOOSE f \in nearest : Cardinality(nearest) = 1 \/ f % 2 = 0

\* The fee is what banker's rounding defines (ADR-008), ties included: the
\* quotient/remainder branches of feeFromBps compute the nearest-even integer.
FeeIsBankersRounding ==
  quote.feeUsdCents = BankersRounding(quote.grossUsdCents, rate)

\* The conversion never credits more USD than the USDC it took is worth, and
\* never keeps a whole cent: the residue left on the conversion account is the
\* remainder of the deposit below one cent, up to 9999 USDC minor units.
Residue == deposit - (quote.netUsdCents + quote.feeUsdCents) * USDC_MINOR_PER_CENT
ResidueIsSubCent == Residue \in 0 .. (USDC_MINOR_PER_CENT - 1)

\* "The sub-cent residue (< 100th of a cent per deposit) stays as the
\* conversion account's net position": 100 minor units are a 100th of a cent.
ResidueIsHundredthOfCent == 100 * Residue < USDC_MINOR_PER_CENT

\* A client who deposits more never nets less: rounding the fee of the larger
\* amount up never costs more than the amount grew.
MoreDepositNeverNetsLess ==
  \A d \in Deposits :
    d >= deposit => QuoteUsdcToUsd(d, rate).netUsdCents >= quote.netUsdCents

\* A deposit the quote accepts is split into a net and a fee that are each
\* within the converted amount, so confirmOfframpConverted posts no negative
\* line; a refused deposit is exactly one that converts to nothing.
SplitIsWithinGross ==
  IF QuoteRefused(deposit)
  THEN deposit < USDC_MINOR_PER_CENT
  ELSE /\ quote.netUsdCents \in 0 .. quote.grossUsdCents
       /\ quote.feeUsdCents \in 0 .. quote.grossUsdCents
       /\ quote.netUsdCents + quote.feeUsdCents > 0
=============================================================================
