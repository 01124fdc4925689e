--------------------------- MODULE PostingsProofs ----------------------------
(***************************************************************************)
(* What holds of the posting lists for every account and amount.           *)
(***************************************************************************)
EXTENDS Postings, OfframpProofs, SequenceTheorems

\* The postings that keep a guard in step with the entries: on a client
\* account, the bucket moves by the negated amount.
MirrorPosting ==
  { p \in Posting : p.account \in ClientAccount => p.bucket # "none" /\ p.delta = -p.amount }

LEMMA EntryType ==
  ASSUME NEW a \in Account, NEW n \in Int, NEW c \in Currency
  PROVE  /\ Entry(a, n, c) \in Posting
         /\ a \notin ClientAccount => Entry(a, n, c) \in MirrorPosting
BY DEF Entry, Posting, Bucket, MirrorPosting

LEMMA ClientEntryType ==
  ASSUME NEW a \in ClientAccount, NEW n \in Int, NEW c \in Currency,
         NEW b \in {"available", "pending"}
  PROVE  ClientEntry(a, n, c, b) \in MirrorPosting
BY DEF ClientEntry, Posting, Bucket, Account, MirrorPosting

LEMMA AccountKinds ==
  /\ FeeAccount \in ClientAccount
  /\ UserAccount \subseteq ClientAccount
  /\ ClientAccount \subseteq Account
  /\ ExternalAccount \subseteq Account \ ClientAccount
  /\ ConversionAccount \in Account \ ClientAccount
BY AccountAssumption DEF Account, ClientAccount

LEMMA DepositPostingsType ==
  ASSUME NEW e \in ExternalAccount, NEW u \in UserAccount, NEW n \in Int, NEW c \in Currency
  PROVE  DepositPostings(e, u, n, c) \in Seq(MirrorPosting)
<1>1. Entry(e, n, c) \in MirrorPosting
  BY EntryType, AccountKinds
<1>2. -n \in Int
  OBVIOUS
<1>3. ClientEntry(u, -n, c, "pending") \in MirrorPosting
  BY <1>2, ClientEntryType, AccountKinds
<1> QED BY <1>1, <1>3 DEF DepositPostings

LEMMA ConfirmPostingsType ==
  ASSUME NEW u \in UserAccount, NEW n \in Int, NEW fee \in Int, NEW c \in Currency
  PROVE  ConfirmPostings(u, n, fee, c) \in Seq(MirrorPosting)
<1>1. -(n - fee) \in Int /\ -fee \in Int
  OBVIOUS
<1>2. ClientEntry(u, n, c, "pending") \in MirrorPosting
  BY ClientEntryType, AccountKinds
<1>3. ClientEntry(u, -(n - fee), c, "available") \in MirrorPosting
  BY <1>1, ClientEntryType, AccountKinds
<1>4. ClientEntry(FeeAccount, -fee, c, "available") \in MirrorPosting
  BY <1>1, ClientEntryType, AccountKinds
<1> QED BY <1>2, <1>3, <1>4 DEF ConfirmPostings

LEMMA ConvertedPostingsType ==
  ASSUME NEW u \in UserAccount, NEW n \in Nat, NEW bps \in 0 .. BpsDenominator
  PROVE  ConvertedPostings(u, QuoteUsdcToUsd(n, bps)) \in Seq(MirrorPosting)
<1>1. PICK gross, cents, net, fee \in Nat :
        LET q == QuoteUsdcToUsd(n, bps)
        IN  /\ q.grossUsdcMinor = gross /\ q.grossUsdCents = cents
            /\ q.netUsdCents = net /\ q.feeUsdCents = fee
  BY QuoteType
<1>a. "USDC" \in Currency /\ "USD" \in Currency
  BY CurrencyAssumption
<1>2. -gross \in Int /\ -net \in Int /\ -fee \in Int
  OBVIOUS
<1> DEFINE
      always == << ClientEntry(u, gross, "USDC", "pending"),
                   Entry(ConversionAccount, -gross, "USDC"),
                   Entry(ConversionAccount, cents, "USD") >>
      netLine == IF net > 0
                 THEN << ClientEntry(u, -net, "USD", "available") >> ELSE << >>
      feeLine == IF fee > 0
                 THEN << ClientEntry(FeeAccount, -fee, "USD", "available") >> ELSE << >>
<1>3. ClientEntry(u, gross, "USDC", "pending") \in MirrorPosting
  BY <1>a, <1>2, ClientEntryType, AccountKinds
<1>4. Entry(ConversionAccount, -gross, "USDC") \in MirrorPosting
  BY <1>a, <1>2, EntryType, AccountKinds
<1>5. Entry(ConversionAccount, cents, "USD") \in MirrorPosting
  BY <1>a, <1>2, EntryType, AccountKinds
<1>6. ClientEntry(u, -net, "USD", "available") \in MirrorPosting
  BY <1>a, <1>2, ClientEntryType, AccountKinds
<1>7. ClientEntry(FeeAccount, -fee, "USD", "available") \in MirrorPosting
  BY <1>a, <1>2, ClientEntryType, AccountKinds
<1>8. always \in Seq(MirrorPosting)
  BY <1>3, <1>4, <1>5
<1>9. netLine \in Seq(MirrorPosting)
  BY <1>6
<1>10. feeLine \in Seq(MirrorPosting)
  BY <1>7
<1>11. ConvertedPostings(u, QuoteUsdcToUsd(n, bps)) = always \o netLine \o feeLine
  BY <1>1, Zenon DEF ConvertedPostings
<1> HIDE DEF always, netLine, feeLine
<1>12. always \o netLine \in Seq(MirrorPosting)
  BY <1>8, <1>9, ConcatProperties
<1>13. always \o netLine \o feeLine \in Seq(MirrorPosting)
  BY <1>10, <1>12, ConcatProperties
<1> QED BY <1>11, <1>13

LEMMA PayoutPostingsType ==
  ASSUME NEW u \in ClientAccount, NEW d \in Account, NEW n \in Int, NEW c \in Currency
  PROVE  /\ PayoutPostings(u, d, n, c) \in Seq(Posting)
         /\ d \notin ClientAccount => PayoutPostings(u, d, n, c) \in Seq(MirrorPosting)
<1>1. -n \in Int
  OBVIOUS
<1>2. Entry(d, -n, c) \in Posting /\ (d \notin ClientAccount => Entry(d, -n, c) \in MirrorPosting)
  BY <1>1, EntryType
<1>3. ClientEntry(u, n, c, "available") \in MirrorPosting
  BY ClientEntryType
<1>4. MirrorPosting \subseteq Posting
  BY DEF MirrorPosting
<1> QED BY <1>2, <1>3, <1>4 DEF PayoutPostings
=============================================================================
