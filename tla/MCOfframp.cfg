CONSTANTS
  CentsUpTo = 40
  Residues = {0, 1, 9999}
  Rates = {0, 1, 50, 250, 2500, 5000, 7500, 9999, 10000}
SPECIFICATION Spec
INVARIANT FeeIsBankersRounding
INVARIANT ResidueIsSubCent
INVARIANT MoreDepositNeverNetsLess
INVARIANT SplitIsWithinGross
CHECK_DEADLOCK FALSE
