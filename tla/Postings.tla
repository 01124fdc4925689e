------------------------------ MODULE Postings -------------------------------
(***************************************************************************)
(* The posting lists the domain operations hand to createBalancedTransfer  *)
(* (src/domain/ledger.ts, src/domain/offramp.ts).                          *)
(*                                                                         *)
(* A posting writes `amount' to the append-only entries table and, when    *)
(* `bucket' is not "none", adds `delta' to that bucket of the account's    *)
(* spend_guards row.                                                       *)
(***************************************************************************)
EXTENDS Offramp, Sequences

CONSTANTS
  UserAccount,        \* client sub-accounts
  FeeAccount,         \* the fee account
  ExternalAccount,    \* mirrors of chain and bank: the far side of a movement
  ConversionAccount,  \* joins the two currency legs of an off-ramp
  Currency            \* currencies an entry may be booked in

ASSUME AccountAssumption ==
  /\ FeeAccount \notin UserAccount \cup ExternalAccount
  /\ ConversionAccount \notin UserAccount \cup ExternalAccount
  /\ ConversionAccount # FeeAccount
  /\ UserAccount \cap ExternalAccount = {}

ASSUME CurrencyAssumption == {"USDC", "USD"} \subseteq Currency

\* The accounts whose spend_guards row carries a balance (kind user or fee).
ClientAccount == UserAccount \cup {FeeAccount}
Account == ClientAccount \cup ExternalAccount \cup {ConversionAccount}

Bucket == {"available", "pending", "none"}

Posting == [account : Account, amount : Int, currency : Currency,
            bucket : Bucket, delta : Int]

Entry(account, amount, currency) ==
  [account |-> account, amount |-> amount, currency |-> currency,
   bucket |-> "none", delta |-> 0]

\* Mutant of ClientEntry: the delta keeps the sign of the amount.
ClientEntrySameSign(account, amount, currency, bucket) ==
  [account |-> account, amount |-> amount, currency |-> currency,
   bucket |-> bucket, delta |-> amount]

\* A posting on a client account moves a bucket by the negated amount: a
\* credit of the liability is negative in entries and raises the claim.
ClientEntry(account, amount, currency, bucket) ==
  [account |-> account, amount |-> amount, currency |-> currency,
   bucket |-> bucket, delta |-> -amount]

\* recordDeposit
DepositPostings(external, user, amount, currency) ==
  << Entry(external, amount, currency),
     ClientEntry(user, -amount, currency, "pending") >>

\* Mutant of confirmOfframp: the fee account is credited first.
ConfirmPostingsFeeFirst(user, amount, fee, currency) ==
  << ClientEntry(FeeAccount, -fee, currency, "available"),
     ClientEntry(user, amount, currency, "pending"),
     ClientEntry(user, -(amount - fee), currency, "available") >>

\* confirmOfframp: clear in the deposit's own currency.
ConfirmPostings(user, amount, fee, currency) ==
  << ClientEntry(user, amount, currency, "pending"),
     ClientEntry(user, -(amount - fee), currency, "available"),
     ClientEntry(FeeAccount, -fee, currency, "available") >>

\* confirmOfframpConverted: a USDC leg and a USD leg joined by the conversion
\* account, zero-amount lines left out.
ConvertedPostings(user, quote) ==
     << ClientEntry(user, quote.grossUsdcMinor, "USDC", "pending"),
        Entry(ConversionAccount, -quote.grossUsdcMinor, "USDC"),
        Entry(ConversionAccount, quote.grossUsdCents, "USD") >>
  \o (IF quote.netUsdCents > 0
      THEN << ClientEntry(user, -quote.netUsdCents, "USD", "available") >>
      ELSE << >>)
  \o (IF quote.feeUsdCents > 0
      THEN << ClientEntry(FeeAccount, -quote.feeUsdCents, "USD", "available") >>
      ELSE << >>)

\* createPayout: the spend is guarded, the destination carries no bucket,
\* whatever account it is.
PayoutPostings(user, destination, amount, currency) ==
  << ClientEntry(user, amount, currency, "available"),
     Entry(destination, -amount, currency) >>
=============================================================================
