--------------------------- MODULE MCOfframpProofs ---------------------------
(***************************************************************************)
(* The properties the grid run checks hold on every grid: for deposits of  *)
(* any number of cents and remainders, at every legal fee rate.            *)
(***************************************************************************)
EXTENDS MCOfframp, OfframpProofs, FiniteSetTheorems

OnGrid == deposit \in Deposits /\ rate \in Rates

LEMMA DepositsType == Deposits \subseteq Nat
<1>1. ASSUME NEW c \in 0 .. CentsUpTo, NEW r \in Residues
      PROVE  c * USDC_MINOR_PER_CENT + r \in Nat
  BY GridAssumption DEF USDC_MINOR_PER_CENT
<1> QED BY <1>1 DEF Deposits

LEMMA GridType == OnGrid => deposit \in Nat /\ rate \in 0 .. BpsDenominator
BY DepositsType, GridAssumption DEF OnGrid

LEMMA StaysOnGrid == Spec => []OnGrid
<1>1. Init => OnGrid
  BY DEF Init, OnGrid
<1>2. OnGrid /\ [NextDeposit]_vars => OnGrid'
  BY DEF OnGrid, NextDeposit, vars, Deposits
<1> QED BY <1>1, <1>2, PTL DEF Spec

LEMMA QuoteParts ==
  ASSUME NEW n \in Nat, NEW bps \in 0 .. BpsDenominator
  PROVE  LET q == QuoteUsdcToUsd(n, bps)
             cents == UsdcMinorToUsdCents(n)
         IN  /\ cents \in Nat /\ q.grossUsdCents = cents
             /\ q.feeUsdCents = FeeFromBps(cents, bps) /\ q.feeUsdCents \in 0 .. cents
             /\ q.netUsdCents = cents - q.feeUsdCents
<1>1. UsdcMinorToUsdCents(n) \in Nat
  BY ParConversionFloors
<1>2. FeeFromBps(UsdcMinorToUsdCents(n), bps) \in 0 .. UsdcMinorToUsdCents(n)
  BY <1>1, FeeWithinAmount
<1> QED BY <1>1, <1>2 DEF QuoteUsdcToUsd
-----------------------------------------------------------------------------
\* An integer within half a step of the exact value is nearest to it; another
\* as near makes a tie, and is its odd neighbour when the first is even.
LEMMA NearestUnlessTied ==
  ASSUME NEW f \in Nat, NEW g \in Nat, NEW x \in Nat, f # g,
         -10000 <= 2 * (f * 10000 - x), 2 * (f * 10000 - x) <= 10000
  PROVE  /\ Distance(f * 10000, x) <= Distance(g * 10000, x)
         /\ Distance(g * 10000, x) <= Distance(f * 10000, x)
              => /\ 2 * (f * 10000 - x) = 10000 \/ 2 * (f * 10000 - x) = -10000
                 /\ g = f + 1 \/ g = f - 1
<1>1. CASE g < f
  <2>1. g <= f - 1
    BY <1>1
  <2> QED BY <2>1 DEF Distance
<1>2. CASE g > f
  <2>1. g >= f + 1
    BY <1>2
  <2> QED BY <2>1 DEF Distance
<1> QED BY <1>1, <1>2

\* feeFromBps is banker's rounding, ties included, for every amount.
THEOREM FeeIsNearestEven ==
  ASSUME NEW n \in Nat, NEW bps \in 0 .. BpsDenominator
  PROVE  FeeFromBps(n, bps) = BankersRounding(n, bps)
<1> DEFINE fee == FeeFromBps(n, bps)
           x == Exact(n, bps)
           Error(f) == Distance(f * 10000, x)
           range == 0 .. n + 1
           nearest == { f \in range : \A g \in range : Error(f) <= Error(g) }
           Chosen(f) == Cardinality(nearest) = 1 \/ f % 2 = 0
<1>1. fee \in Nat /\ -10000 <= 2 * (fee * 10000 - x) /\ 2 * (fee * 10000 - x) <= 10000
  BY FeeError
<1>2. x \in Nat
  BY ExactType
<1>3. 2 * (fee * 10000 - x) = 10000 \/ 2 * (fee * 10000 - x) = -10000 => fee % 2 = 0
  <2>1. LET error == 2 * (fee * BpsDenominator - n * bps)
        IN  (error = BpsDenominator \/ error = -BpsDenominator) => fee % 2 = 0
    BY FeeRoundsHalfEven
  <2> HIDE DEF fee
  <2> QED BY <2>1 DEF BpsDenominator, Exact
<1>4. fee \in range
  BY FeeWithinAmount
<1>5. BankersRounding(n, bps) = CHOOSE f \in nearest : Chosen(f)
  BY DEF BankersRounding, BpsDenominator, Exact
<1> HIDE DEF fee, x
<1>6. \A g \in range : g # fee =>
        /\ Error(fee) <= Error(g)
        /\ Error(g) <= Error(fee) => fee % 2 = 0 /\ (g = fee + 1 \/ g = fee - 1)
  BY <1>1, <1>2, <1>3, NearestUnlessTied
<1>7. Error(fee) <= Error(fee)
  BY <1>1, <1>2 DEF Distance
<1>8. fee \in nearest
  BY <1>4, <1>6, <1>7
<1>9. Chosen(fee)
  <2>1. CASE nearest = {fee}
    BY <2>1, FS_Singleton
  <2>2. CASE nearest # {fee}
    <3>1. PICK g \in nearest : g # fee
      BY <1>8, <2>2
    <3>2. g \in range /\ Error(g) <= Error(fee)
      BY <1>4, <3>1
    <3> QED BY <1>6, <3>1, <3>2
  <2> QED BY <2>1, <2>2
<1>10. ASSUME NEW g \in nearest, Chosen(g)
       PROVE  g = fee
  <2> SUFFICES ASSUME g # fee PROVE FALSE
    OBVIOUS
  <2>1. g \in range /\ Error(g) <= Error(fee)
    BY <1>4
  <2>2. fee % 2 = 0 /\ (g = fee + 1 \/ g = fee - 1)
    BY <1>6, <2>1
  <2>3. g % 2 # 0
    BY <1>1, <2>1, <2>2
  <2>4. Cardinality(nearest) # 1
    <3>1. IsFiniteSet(nearest)
      <4>1. IsFiniteSet(range)
        BY FS_Interval
      <4> QED BY <4>1, FS_Subset
    <3>2. g \in nearest /\ fee \in nearest
      BY <1>8
    <3> HIDE DEF nearest
    <3> QED BY <3>1, <3>2, FS_Singleton
  <2> QED BY <1>10, <2>3, <2>4
<1> HIDE DEF nearest, Chosen
<1> QED BY <1>5, <1>8, <1>9, <1>10 DEF fee
-----------------------------------------------------------------------------
\* On every grid the fee of the quote is what banker's rounding defines.
THEOREM GridFeeIsBankersRounding == Spec => []FeeIsBankersRounding
<1>1. OnGrid => FeeIsBankersRounding
  <2> SUFFICES ASSUME OnGrid PROVE FeeIsBankersRounding
    OBVIOUS
  <2>1. deposit \in Nat /\ rate \in 0 .. BpsDenominator
    BY GridType
  <2>2. /\ quote.grossUsdCents \in Nat
        /\ quote.feeUsdCents = FeeFromBps(quote.grossUsdCents, rate)
    BY <2>1, QuoteParts DEF quote
  <2> QED BY <2>1, <2>2, FeeIsNearestEven DEF FeeIsBankersRounding
<1> QED BY <1>1, StaysOnGrid, PTL

\* On every grid the conversion keeps less than a cent.
THEOREM GridResidueIsSubCent == Spec => []ResidueIsSubCent
<1>1. OnGrid => ResidueIsSubCent
  <2> SUFFICES ASSUME OnGrid PROVE ResidueIsSubCent
    OBVIOUS
  <2>1. deposit \in Nat /\ rate \in 0 .. BpsDenominator
    BY GridType
  <2>2. quote.netUsdCents + quote.feeUsdCents = UsdcMinorToUsdCents(deposit)
    BY <2>1, QuoteParts DEF quote
  <2> QED BY <2>1, <2>2, ParConversionFloors DEF ResidueIsSubCent, Residue
<1> QED BY <1>1, StaysOnGrid, PTL

\* On every grid a client who deposits more nets no less.
THEOREM GridMoreNeverNetsLess == Spec => []MoreDepositNeverNetsLess
<1>1. OnGrid => MoreDepositNeverNetsLess
  <2> SUFFICES ASSUME OnGrid, NEW d \in Deposits, d >= deposit
               PROVE  QuoteUsdcToUsd(d, rate).netUsdCents >= quote.netUsdCents
    BY DEF MoreDepositNeverNetsLess
  <2>1. deposit \in Nat /\ d \in Nat /\ rate \in 0 .. BpsDenominator
    BY GridType, DepositsType
  <2>2. deposit <= d
    BY <2>1
  <2>3. quote.netUsdCents <= QuoteUsdcToUsd(d, rate).netUsdCents
    BY <2>1, <2>2, NetIsMonotone DEF quote
  <2>4. quote.netUsdCents \in Int /\ QuoteUsdcToUsd(d, rate).netUsdCents \in Int
    BY <2>1, QuoteParts DEF quote
  <2> QED BY <2>3, <2>4
<1> QED BY <1>1, StaysOnGrid, PTL

\* On every grid an accepted deposit is split into non-negative parts, and a
\* refused one is below a cent.
THEOREM GridSplitIsWithinGross == Spec => []SplitIsWithinGross
<1>1. OnGrid => SplitIsWithinGross
  <2> SUFFICES ASSUME OnGrid PROVE SplitIsWithinGross
    OBVIOUS
  <2>1. deposit \in Nat /\ rate \in 0 .. BpsDenominator
    BY GridType
  <2> DEFINE cents == UsdcMinorToUsdCents(deposit)
  <2>2. /\ cents \in Nat /\ quote.grossUsdCents = cents
        /\ quote.feeUsdCents \in 0 .. cents
        /\ quote.netUsdCents = cents - quote.feeUsdCents
    BY <2>1, QuoteParts DEF quote
  <2>3. QuoteRefused(deposit) => cents = 0
    BY <2>1, <2>2 DEF QuoteRefused, UsdcMinorToUsdCents, USDC_MINOR_PER_CENT
  <2>4. ~QuoteRefused(deposit) => cents > 0
    BY <2>2 DEF QuoteRefused
  <2>5. cents = 0 => deposit < USDC_MINOR_PER_CENT
    BY <2>1 DEF UsdcMinorToUsdCents, USDC_MINOR_PER_CENT
  <2> HIDE DEF cents
  <2> QED BY <2>2, <2>3, <2>4, <2>5 DEF SplitIsWithinGross
<1> QED BY <1>1, StaysOnGrid, PTL
=============================================================================
