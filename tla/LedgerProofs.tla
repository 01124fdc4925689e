---------------------------- MODULE LedgerProofs -----------------------------
(***************************************************************************)
(* Safety of the concurrent ledger for every set of sessions, keys,        *)
(* accounts, amounts and every legal fee rate.                             *)
(***************************************************************************)
EXTENDS MCLedger, PostingsProofs, SumTheorems

\* What recordDeposit books, read back by the confirmations.
DepositList(ps) ==
  \E e \in ExternalAccount, u \in UserAccount, n \in Nat \ {0} :
    ps = DepositPostings(e, u, n, "USDC")

\* A job is one of the callers': a deposit has the deposit's two lines, and a
\* job that clears a deposit has an off-ramp key and its deposit is committed.
GoodJob(j) ==
  /\ j \in Job
  /\ j.kind = "deposit" => DepositList(j.postings)
  /\ j.clears => /\ j.key[2] = "offramp"
                 /\ transfers[Own(j.key[1])].kind = "deposit"

JobInv ==
  \A s \in Session :
    /\ ~Inserting(s) => posted[s] = 0
    /\ ~Idle(s) => GoodJob(job[s]) /\ posted[s] <= Len(job[s].postings)

DepositInv ==
  \A k \in BaseKey : transfers[Own(k)].kind = "deposit" => DepositList(entries[Own(k)])

\* The UNIQUE index at work: one session at a time inserts a key, and none
\* inserts a key that is committed.
KeyInv ==
  /\ \A s \in Session : Inserting(s) => ~Exists(job[s].key)
  /\ \A s, t \in Session :
       Inserting(s) /\ Inserting(t) /\ job[s].key = job[t].key => s = t

\* The row locks at work: only the holder of a guard's lock has changed its
\* headroom, and what any session sees of it is never negative.
GuardInv ==
  /\ \A s \in Session, a \in Account : guardLock[a] # s => draft[s].headroom[a] = 0
  /\ \A s \in Session, a \in Account : SeenHeadroom(s, a) >= 0
  /\ NoOverdraft

IInv == TypeOK /\ JobInv /\ DepositInv /\ KeyInv /\ GuardInv
-----------------------------------------------------------------------------
LEMMA NotATransfer == NoTransfer \notin [kind : Kind, status : TransferStatus]
BY DEF NoTransfer, Kind

LEMMA KeyParts ==
  /\ \A k \in Key : k[1] \in BaseKey /\ k[2] \in {"own", "offramp"}
  /\ \A k \in BaseKey : Own(k) \in Key /\ OfframpKey(k) \in Key
  /\ \A k \in BaseKey : Own(k)[2] = "own" /\ OfframpKey(k)[2] = "offramp"
  /\ \A k \in BaseKey : OfframpKey(k)[1] = k
BY DEF Key, Own, OfframpKey

LEMMA MoveType ==
  ASSUME NEW d \in Change, NEW p \in Posting
  PROVE  /\ Move(d, p) \in Change
         /\ \A a \in Account :
              /\ Move(d, p).headroom[a] =
                   IF a = p.account /\ p.bucket = "available"
                   THEN d.headroom[a] + p.delta ELSE d.headroom[a]
              /\ Move(d, p).pending[a] =
                   IF a = p.account /\ p.bucket = "pending"
                   THEN d.pending[a] + p.delta ELSE d.pending[a]
              /\ Move(d, p).position[a] =
                   IF a = p.account THEN d.position[a] + p.amount ELSE d.position[a]
BY DEF Move, Change, Posting

LEMMA NoChangeType ==
  /\ NoChange \in Change
  /\ \A a \in Account : /\ NoChange.headroom[a] = 0 /\ NoChange.pending[a] = 0
                        /\ NoChange.position[a] = 0
BY DEF NoChange, Change, Flat

\* A posting about to be applied is a posting.
LEMMA NextPostingType ==
  ASSUME TypeOK, JobInv, NEW s \in Session, MorePostings(s)
  PROVE  NextPosting(s) \in Posting
<1>1. job[s] \in Job /\ posted[s] \in Nat
  BY DEF TypeOK, JobInv, GoodJob, Idle, Inserting, MorePostings
<1>2. job[s].postings \in Seq(Posting) /\ posted[s] + 1 \in 1 .. Len(job[s].postings)
  BY <1>1 DEF Job, MorePostings
<1>3. job[s].postings[posted[s] + 1] \in Posting
  BY <1>2, ElementOfSeq
<1> QED BY <1>3 DEF NextPosting
-----------------------------------------------------------------------------
LEMMA InitInv == Init => IInv
<1> SUFFICES ASSUME Init PROVE IInv
  OBVIOUS
<1>1. TypeOK
  BY NoChangeType DEF Init, TypeOK, Flat, Idle
<1>2. JobInv
  BY DEF Init, JobInv, Idle, Inserting
<1>3. DepositInv
  BY KeyParts DEF Init, DepositInv, NoTransfer
<1>4. KeyInv
  BY DEF Init, KeyInv, Inserting
<1>5. GuardInv
  BY NoChangeType DEF Init, GuardInv, NoOverdraft, SeenHeadroom, Flat
<1> QED BY <1>1, <1>2, <1>3, <1>4, <1>5 DEF IInv

\* Every caller hands over a good job.
LEMMA BeginInv ==
  ASSUME IInv, NEW s \in Session, NEW j, GoodJob(j), Begin(s, j)
  PROVE  IInv'
<1>1. j # NoJob
  BY DEF GoodJob, Job, NoJob, Kind
<1>2. TypeOK'
  BY <1>1 DEF IInv, TypeOK, Begin, Idle, GoodJob, ledgerVars
<1>3. JobInv'
  <2> SUFFICES ASSUME NEW t \in Session
               PROVE  (/\ ~Inserting(t) => posted[t] = 0
                       /\ ~Idle(t) => GoodJob(job[t]) /\ posted[t] <= Len(job[t].postings))'
    BY DEF JobInv
  <2>1. CASE t = s
    <3>1. posted[s] = 0 /\ Len(j.postings) \in Nat
      BY DEF IInv, JobInv, Begin, GoodJob, Job, Idle, Inserting
    <3> QED BY <2>1, <3>1 DEF Begin, Idle, Inserting, GoodJob, IInv, TypeOK, ledgerVars
  <2>2. CASE t # s
    BY <2>2 DEF IInv, JobInv, Begin, Idle, Inserting, GoodJob, TypeOK, ledgerVars
  <2> QED BY <2>1, <2>2
<1>4. DepositInv'
  BY DEF IInv, DepositInv, Begin, ledgerVars
<1>5. KeyInv'
  BY DEF IInv, TypeOK, KeyInv, Begin, Inserting, Exists, Idle, ledgerVars
<1>6. GuardInv'
  BY DEF IInv, GuardInv, NoOverdraft, SeenHeadroom, Begin, ledgerVars
<1> QED BY <1>2, <1>3, <1>4, <1>5, <1>6 DEF IInv

LEMMA BookedDeposit ==
  ASSUME IInv, NEW k \in BaseKey, ClearableDeposit(k)
  PROVE  /\ Booked(k).account \in UserAccount
         /\ Booked(k).delta \in Nat
         /\ Booked(k).currency \in Currency
<1>1. PICK e \in ExternalAccount, u \in UserAccount, n \in Nat \ {0} :
        entries[Own(k)] = DepositPostings(e, u, n, "USDC")
  BY DEF IInv, DepositInv, DepositList, ClearableDeposit
<1>2. Booked(k) = ClientEntry(u, -n, "USDC", "pending")
  BY <1>1 DEF Booked, DepositPostings
<1> QED BY <1>2, CurrencyAssumption DEF ClientEntry

LEMMA RecordDepositInv ==
  ASSUME IInv, NEW s \in Session, RecordDeposit(s)
  PROVE  IInv'
<1>1. PICK k \in BaseKey, e \in ExternalAccount, u \in UserAccount, n \in Amount :
        /\ n > 0
        /\ Begin(s, [key |-> Own(k), kind |-> "deposit", status |-> "pending",
                     postings |-> DepositPostings(e, u, n, "USDC"), clears |-> FALSE])
  BY DEF RecordDeposit
<1>2. n \in Nat \ {0} /\ "USDC" \in Currency
  BY <1>1, LedgerAssumption, CurrencyAssumption
<1>3. DepositPostings(e, u, n, "USDC") \in Seq(Posting)
  <2>1. DepositPostings(e, u, n, "USDC") \in Seq(MirrorPosting)
    BY <1>2, DepositPostingsType
  <2> QED BY <2>1, SeqMonotonic DEF MirrorPosting
<1>4. DepositList(DepositPostings(e, u, n, "USDC"))
  BY <1>2 DEF DepositList
<1> DEFINE j == [key |-> Own(k), kind |-> "deposit", status |-> "pending",
                 postings |-> DepositPostings(e, u, n, "USDC"), clears |-> FALSE]
<1>5. GoodJob(j)
  BY <1>3, <1>4, KeyParts DEF GoodJob, Job, Kind, TransferStatus
<1> QED BY <1>1, <1>5, BeginInv

LEMMA ConfirmOfframpInv ==
  ASSUME IInv, NEW s \in Session, ConfirmOfframp(s)
  PROVE  IInv'
<1>1. PICK k \in BaseKey, fee \in Fee :
        /\ ClearableDeposit(k)
        /\ Begin(s, [key |-> OfframpKey(k), kind |-> "offramp", status |-> "confirmed",
                     postings |-> ConfirmPostings(Booked(k).account, Booked(k).delta,
                                                  fee, Booked(k).currency),
                     clears |-> TRUE])
  BY DEF ConfirmOfframp
<1> DEFINE ps == ConfirmPostings(Booked(k).account, Booked(k).delta, fee, Booked(k).currency)
           j == [key |-> OfframpKey(k), kind |-> "offramp", status |-> "confirmed",
                 postings |-> ps, clears |-> TRUE]
<1>2. PICK u \in UserAccount, n \in Nat, c \in Currency :
        Booked(k).account = u /\ Booked(k).delta = n /\ Booked(k).currency = c
  BY <1>1, BookedDeposit
<1>3. ps \in Seq(Posting)
  <2>1. fee \in Int
    BY LedgerAssumption
  <2>2. ps \in Seq(MirrorPosting)
    BY <1>2, <2>1, ConfirmPostingsType
  <2> QED BY <2>2, SeqMonotonic DEF MirrorPosting
<1>4. GoodJob(j)
  BY <1>1, <1>3, KeyParts DEF GoodJob, Job, Kind, TransferStatus, ClearableDeposit
<1> QED BY <1>1, <1>4, BeginInv

LEMMA ConfirmOfframpConvertedInv ==
  ASSUME IInv, NEW s \in Session, ConfirmOfframpConverted(s)
  PROVE  IInv'
<1>1. PICK k \in BaseKey :
        /\ ClearableDeposit(k)
        /\ Begin(s, [key |-> OfframpKey(k), kind |-> "offramp", status |-> "confirmed",
                     postings |-> ConvertedPostings(Booked(k).account,
                                     QuoteUsdcToUsd(Booked(k).delta, FeeBps)),
                     clears |-> TRUE])
  BY DEF ConfirmOfframpConverted
<1> DEFINE ps == ConvertedPostings(Booked(k).account, QuoteUsdcToUsd(Booked(k).delta, FeeBps))
           j == [key |-> OfframpKey(k), kind |-> "offramp", status |-> "confirmed",
                 postings |-> ps, clears |-> TRUE]
<1>2. PICK u \in UserAccount, n \in Nat : Booked(k).account = u /\ Booked(k).delta = n
  BY <1>1, BookedDeposit
<1>3. ps \in Seq(Posting)
  <2>1. ps \in Seq(MirrorPosting)
    BY <1>2, ConvertedPostingsType, LedgerAssumption
  <2> QED BY <2>1, SeqMonotonic DEF MirrorPosting
<1>4. GoodJob(j)
  BY <1>1, <1>3, KeyParts DEF GoodJob, Job, Kind, TransferStatus, ClearableDeposit
<1> QED BY <1>1, <1>4, BeginInv

LEMMA CreatePayoutInv ==
  ASSUME IInv, NEW s \in Session, CreatePayout(s)
  PROVE  IInv'
<1>1. PICK k \in PayoutKey, u \in ClientAccount, d \in Destination, n \in Spend,
           c \in PayoutCurrency :
        Begin(s, [key |-> k, kind |-> "payout", status |-> "pending",
                  postings |-> PayoutPostings(u, d, n, c), clears |-> FALSE])
  BY DEF CreatePayout
<1> DEFINE j == [key |-> k, kind |-> "payout", status |-> "pending",
                 postings |-> PayoutPostings(u, d, n, c), clears |-> FALSE]
<1>2. k \in Key /\ d \in Account /\ n \in Int /\ c \in Currency
  BY LedgerAssumption, PayoutKeyAssumption
<1>3. PayoutPostings(u, d, n, c) \in Seq(Posting)
  BY <1>2, PayoutPostingsType
<1>4. GoodJob(j)
  BY <1>2, <1>3 DEF GoodJob, Job, Kind, TransferStatus
<1> QED BY <1>1, <1>4, BeginInv
-----------------------------------------------------------------------------
LEMMA InsertTransferInv ==
  ASSUME IInv, NEW s \in Session, InsertTransfer(s)
  PROVE  IInv'
<1>1. TypeOK'
  BY DEF IInv, TypeOK, InsertTransfer, Idle, ledgerVars
<1>2. JobInv'
  BY DEF IInv, TypeOK, JobInv, InsertTransfer, Idle, Inserting, GoodJob, ledgerVars
<1>3. DepositInv'
  BY DEF IInv, DepositInv, InsertTransfer, ledgerVars
<1>4. KeyInv'
  BY DEF IInv, TypeOK, KeyInv, InsertTransfer, Inserting, KeyTaken, Exists, ledgerVars
<1>5. GuardInv'
  BY DEF IInv, GuardInv, NoOverdraft, SeenHeadroom, InsertTransfer, ledgerVars
<1> QED BY <1>1, <1>2, <1>3, <1>4, <1>5 DEF IInv

LEMMA PostEntryInv ==
  ASSUME IInv, NEW s \in Session, PostEntry(s)
  PROVE  IInv'
<1> DEFINE p == NextPosting(s)
<1>1. p \in Posting /\ draft[s] \in Change
  BY NextPostingType DEF IInv, PostEntry, TypeOK
<1>2. draft' = [draft EXCEPT ![s] = Move(draft[s], p)]
  BY DEF PostEntry
<1>3. Move(draft[s], p) \in Change
      /\ \A a \in Account : Move(draft[s], p).headroom[a] = draft[s].headroom[a]
  BY <1>1, MoveType DEF PostEntry
<1> HIDE DEF p
<1>4. TypeOK'
  BY <1>2, <1>3 DEF IInv, TypeOK, PostEntry, Idle, ledgerVars
<1>5. JobInv'
  BY DEF IInv, TypeOK, JobInv, PostEntry, Idle, Inserting, GoodJob, Job, MorePostings, ledgerVars
<1>6. DepositInv'
  BY DEF IInv, DepositInv, PostEntry, ledgerVars
<1>7. KeyInv'
  BY DEF IInv, KeyInv, PostEntry, Inserting, Exists, ledgerVars
<1>8. \A t \in Session, a \in Account : draft'[t].headroom[a] = draft[t].headroom[a]
  BY <1>2, <1>3 DEF IInv, TypeOK
<1>9. GuardInv'
  BY <1>8 DEF IInv, GuardInv, NoOverdraft, SeenHeadroom, PostEntry, ledgerVars
<1> QED BY <1>4, <1>5, <1>6, <1>7, <1>9 DEF IInv

LEMMA PostWithBalanceInv ==
  ASSUME IInv, NEW s \in Session, PostWithBalance(s)
  PROVE  IInv'
<1> DEFINE p == NextPosting(s)
<1>1. p \in Posting /\ draft[s] \in Change
  BY NextPostingType DEF IInv, PostWithBalance, TypeOK
<1>2. /\ draft' = [draft EXCEPT ![s] = Move(draft[s], p)]
      /\ guardLock' = [guardLock EXCEPT ![p.account] = s]
      /\ CanLock(s, p.account) /\ Covered(s, p)
  BY DEF PostWithBalance
<1>3. /\ Move(draft[s], p) \in Change
      /\ \A a \in Account : Move(draft[s], p).headroom[a] =
              IF a = p.account /\ p.bucket = "available"
              THEN draft[s].headroom[a] + p.delta ELSE draft[s].headroom[a]
  BY <1>1, MoveType
<1> HIDE DEF p
<1>4. TypeOK'
  <2>1. p.account \in Account
    BY <1>1 DEF Posting
  <2>2. guardLock' \in [Account -> Session \cup {NoSession}]
    BY <1>2, <2>1 DEF IInv, TypeOK
  <2>3. draft' \in [Session -> Change]
    BY <1>2, <1>3 DEF IInv, TypeOK
  <2> QED BY <2>2, <2>3 DEF IInv, TypeOK, PostWithBalance, Idle, ledgerVars
<1>5. JobInv'
  BY DEF IInv, TypeOK, JobInv, PostWithBalance, Idle, Inserting, GoodJob, Job, MorePostings, ledgerVars
<1>6. DepositInv'
  BY DEF IInv, DepositInv, PostWithBalance, ledgerVars
<1>7. KeyInv'
  BY DEF IInv, KeyInv, PostWithBalance, Inserting, Exists, ledgerVars
<1>8. GuardInv'
  <2>1. headroom' = headroom /\ headroom \in [Account -> Int] /\ draft \in [Session -> Change]
        /\ guardLock \in [Account -> Session \cup {NoSession}]
    BY DEF IInv, TypeOK, PostWithBalance, ledgerVars
  <2>2. \A t \in Session, a \in Account :
          draft'[t].headroom[a] =
            IF t = s /\ a = p.account /\ p.bucket = "available"
            THEN draft[s].headroom[a] + p.delta ELSE draft[t].headroom[a]
    BY <1>2, <1>3, <2>1
  <2>3. \A t \in Session, a \in Account : guardLock'[a] # t => draft'[t].headroom[a] = 0
    BY <1>1, <1>2, <2>1, <2>2, LedgerAssumption DEF IInv, GuardInv, CanLock, Posting
  <2>4. \A t \in Session, a \in Account : headroom[a] + draft'[t].headroom[a] >= 0
    <3> SUFFICES ASSUME NEW t \in Session, NEW a \in Account
                 PROVE  headroom[a] + draft'[t].headroom[a] >= 0
      OBVIOUS
    <3>1. headroom[a] \in Int /\ draft[t].headroom[a] \in Int /\ p.delta \in Int
      BY <1>1, <2>1 DEF Change, Posting
    <3>2. headroom[a] + draft[t].headroom[a] >= 0
      BY DEF IInv, GuardInv, SeenHeadroom
    <3>3. CASE t = s /\ a = p.account /\ p.bucket = "available"
      <4>1. draft'[t].headroom[a] = draft[s].headroom[a] + p.delta
        BY <2>2, <3>3
      <4>2. p.delta < 0 => headroom[a] + draft[s].headroom[a] >= -p.delta
        BY <1>2, <3>3 DEF Covered, IsSpend, SeenHeadroom
      <4> QED BY <3>1, <3>2, <3>3, <4>1, <4>2
    <3>4. CASE ~(t = s /\ a = p.account /\ p.bucket = "available")
      BY <2>2, <3>2, <3>4
    <3> QED BY <3>3, <3>4
  <2> QED BY <2>1, <2>3, <2>4 DEF GuardInv, SeenHeadroom, NoOverdraft, IInv
<1> QED BY <1>4, <1>5, <1>6, <1>7, <1>8 DEF IInv

LEMMA RefuseSpendInv ==
  ASSUME IInv, NEW s \in Session, RefuseSpend(s)
  PROVE  IInv'
<1> DEFINE a == NextPosting(s).account
<1>1. a \in Account
  <2>1. NextPosting(s) \in Posting
    BY NextPostingType DEF IInv, RefuseSpend
  <2> QED BY <2>1 DEF Posting
<1>2. guardLock' = [guardLock EXCEPT ![a] = s] /\ CanLock(s, a)
  BY DEF RefuseSpend
<1> HIDE DEF a
<1>3. TypeOK'
  BY <1>1, <1>2 DEF IInv, TypeOK, RefuseSpend, Idle, MorePostings, ledgerVars
<1>4. JobInv'
  BY DEF IInv, TypeOK, JobInv, RefuseSpend, Idle, Inserting, GoodJob, MorePostings, ledgerVars
<1>5. DepositInv'
  BY DEF IInv, DepositInv, RefuseSpend, ledgerVars
<1>6. KeyInv'
  BY DEF IInv, TypeOK, KeyInv, RefuseSpend, Inserting, Exists, MorePostings, ledgerVars
<1>7. GuardInv'
  <2>1. \A t \in Session, b \in Account : guardLock'[b] # t => guardLock[b] # t \/ (b = a /\ t # s)
    BY <1>1, <1>2 DEF IInv, TypeOK
  <2>2. \A t \in Session : t # s => guardLock[a] # t
    BY <1>2, LedgerAssumption DEF CanLock
  <2> QED BY <2>1, <2>2 DEF IInv, GuardInv, NoOverdraft, SeenHeadroom, RefuseSpend, ledgerVars
<1> QED BY <1>3, <1>4, <1>5, <1>6, <1>7 DEF IInv

\* The end of a transaction that commits nothing: ROLLBACK, a crash.
LEMMA EndInv ==
  ASSUME IInv, NEW s \in Session, EndTransaction(s, "idle"),
         job' = [job EXCEPT ![s] = NoJob], UNCHANGED <<ledgerVars, announced>>
  PROVE  IInv'
<1>1. TypeOK'
  BY NoChangeType DEF IInv, TypeOK, EndTransaction, Idle, ledgerVars
<1>2. JobInv'
  BY DEF IInv, TypeOK, JobInv, EndTransaction, Idle, Inserting, GoodJob, ledgerVars
<1>3. DepositInv'
  BY DEF IInv, DepositInv, ledgerVars
<1>4. KeyInv'
  BY DEF IInv, TypeOK, KeyInv, EndTransaction, Inserting, Exists, ledgerVars
<1>5. \A t \in Session, a \in Account :
        draft'[t].headroom[a] = IF t = s THEN 0 ELSE draft[t].headroom[a]
  BY NoChangeType DEF IInv, TypeOK, EndTransaction
<1>6. \A t \in Session, a \in Account : t # s /\ guardLock'[a] # t => guardLock[a] # t
  BY DEF IInv, TypeOK, EndTransaction
<1>7. headroom' = headroom /\ headroom \in [Account -> Int]
  BY DEF ledgerVars, IInv, TypeOK
<1>8. GuardInv'
  BY <1>5, <1>6, <1>7 DEF IInv, GuardInv, NoOverdraft, SeenHeadroom
<1> QED BY <1>1, <1>2, <1>3, <1>4, <1>8 DEF IInv

LEMMA ReplayTransferInv ==
  ASSUME IInv, NEW s \in Session, ReplayTransfer(s)
  PROVE  IInv'
<1>1. TypeOK'
  BY DEF IInv, TypeOK, ReplayTransfer, Idle, ledgerVars
<1>2. JobInv'
  BY DEF IInv, TypeOK, JobInv, ReplayTransfer, Idle, Inserting, GoodJob, ledgerVars
<1>3. DepositInv'
  BY DEF IInv, DepositInv, ReplayTransfer, ledgerVars
<1>4. KeyInv'
  BY DEF IInv, TypeOK, KeyInv, ReplayTransfer, Inserting, Exists, ledgerVars
<1>5. GuardInv'
  BY DEF IInv, GuardInv, NoOverdraft, SeenHeadroom, ReplayTransfer, ledgerVars
<1> QED BY <1>1, <1>2, <1>3, <1>4, <1>5 DEF IInv

LEMMA ReplyInv ==
  ASSUME IInv, NEW s \in Session, Reply(s)
  PROVE  IInv'
<1>1. job[s] \in Job
  BY DEF IInv, TypeOK, Reply, JobInv, GoodJob, Idle
<1>2. announced' \in [Key -> Nat]
  BY <1>1 DEF IInv, TypeOK, Reply, Job
<1>3. TypeOK'
  BY <1>2 DEF IInv, TypeOK, Reply, Idle, ledgerVars
<1>4. JobInv'
  BY DEF IInv, TypeOK, JobInv, Reply, Idle, Inserting, GoodJob, ledgerVars
<1>5. DepositInv'
  BY DEF IInv, DepositInv, Reply, ledgerVars
<1>6. KeyInv'
  BY DEF IInv, TypeOK, KeyInv, Reply, Inserting, Exists, ledgerVars
<1>7. GuardInv'
  BY DEF IInv, GuardInv, NoOverdraft, SeenHeadroom, Reply, ledgerVars
<1> QED BY <1>3, <1>4, <1>5, <1>6, <1>7 DEF IInv

\* COMMIT: the session's draft becomes the ledger's, under a new key.
LEMMA CommitInv ==
  ASSUME IInv, NEW s \in Session, Commit(s)
  PROVE  IInv'
<1> DEFINE k == job[s].key
           ps == job[s].postings
<1>1. /\ job[s] \in Job /\ k \in Key /\ ps \in Seq(Posting)
      /\ GoodJob(job[s]) /\ Inserting(s) /\ ~Exists(k)
  BY DEF IInv, Commit, JobInv, GoodJob, Job, Idle, Inserting, KeyInv
<1>2. SubSeq(ps, 1, posted[s]) = ps
  BY <1>1, SubSeqFull DEF Commit
<1>3. entries' = [entries EXCEPT ![k] = ps]
  BY <1>2 DEF Commit
<1>4. PICK kind \in Kind, status \in TransferStatus :
        job[s].kind = kind /\ job[s].status = status
  BY <1>1 DEF Job
<1>5. job[s].clears => Own(k[1]) # k /\ Own(k[1]) \in Key /\ transfers[Own(k[1])].kind = "deposit"
  BY <1>1, KeyParts DEF GoodJob
<1>6. /\ transfers'[k] = [kind |-> kind, status |-> status]
      /\ \A other \in Key : other # k /\ ~(job[s].clears /\ other = Own(k[1]))
                              => transfers'[other] = transfers[other]
      /\ job[s].clears => transfers'[Own(k[1])] = [kind |-> "deposit", status |-> "confirmed"]
  BY <1>1, <1>4, <1>5 DEF Commit, StatusWrites
<1>7. DOMAIN transfers' = Key /\ transfers' = [other \in Key |-> transfers'[other]]
  BY DEF Commit, StatusWrites
<1>8. \A a \in Account : headroom'[a] = SeenHeadroom(s, a)
  BY DEF Commit, SeenHeadroom
<1> HIDE DEF k, ps
<1>kinds. \A other \in Key : other # k => transfers'[other].kind = transfers[other].kind
  BY <1>5, <1>6
<1>types. transfers' \in [Key -> [kind : Kind, status : TransferStatus] \cup {NoTransfer}]
  <2>1. \A other \in Key :
          transfers'[other] \in [kind : Kind, status : TransferStatus] \cup {NoTransfer}
    <3>1. TAKE other \in Key
    <3>2. CASE other = k
      BY <1>6, <3>2
    <3>3. CASE job[s].clears /\ other = Own(k[1])
      BY <1>6, <3>3 DEF Kind, TransferStatus
    <3>4. CASE other # k /\ ~(job[s].clears /\ other = Own(k[1]))
      BY <1>6, <3>4 DEF IInv, TypeOK
    <3> QED BY <3>2, <3>3, <3>4
  <2> QED BY <1>7, <2>1
<1>9. TypeOK'
  <2>1. entries' \in [Key -> Seq(Posting)]
    BY <1>1, <1>3 DEF IInv, TypeOK
  <2>2. draft[s] \in Change
    BY DEF IInv, TypeOK
  <2>3. /\ headroom' \in [Account -> Int] /\ pending' \in [Account -> Int]
        /\ position' \in [Account -> Int]
    BY <2>2 DEF IInv, TypeOK, Commit, Change
  <2> QED BY <1>types, <2>1, <2>3, NoChangeType DEF IInv, TypeOK, Commit, EndTransaction, Idle
<1>10. JobInv'
  <2> SUFFICES ASSUME NEW t \in Session
               PROVE  (/\ ~Inserting(t) => posted[t] = 0
                       /\ ~Idle(t) => GoodJob(job[t]) /\ posted[t] <= Len(job[t].postings))'
    BY DEF JobInv
  <2>1. ASSUME ~Idle(t)' PROVE GoodJob(job[t])'
    <3>1. job' = job /\ ~Idle(t)
      BY <2>1 DEF Commit, EndTransaction, Idle, IInv, TypeOK
    <3>2. GoodJob(job[t])
      BY <3>1 DEF IInv, JobInv
    <3>3. job[t].clears => Own(job[t].key[1]) \in Key /\ Own(job[t].key[1]) # k
      BY <1>1, <3>2, KeyParts DEF GoodJob, Job, Exists, NoTransfer
    <3> QED BY <1>kinds, <3>1, <3>2, <3>3 DEF GoodJob
  <2>2. CASE t = s
    <3>1. Len(job'[t].postings) \in Nat
      BY <1>1, <2>2 DEF Commit, Job
    <3> QED BY <2>1, <2>2, <3>1 DEF Commit, EndTransaction, IInv, TypeOK, JobInv, Inserting, Idle
  <2>3. CASE t # s
    BY <2>1, <2>3 DEF Commit, EndTransaction, IInv, TypeOK, JobInv, Inserting, Idle
  <2> QED BY <2>2, <2>3
<1>11. DepositInv'
  <2> SUFFICES ASSUME NEW b \in BaseKey, transfers'[Own(b)].kind = "deposit"
               PROVE  DepositList(entries'[Own(b)])
    BY DEF DepositInv, DepositList
  <2>1. CASE Own(b) = k
    <3>1. job[s].kind = "deposit"
      BY <1>4, <1>6, <2>1
    <3>2. DepositList(ps)
      BY <1>1, <3>1 DEF GoodJob, ps
    <3> QED BY <1>1, <1>3, <2>1, <3>2 DEF IInv, TypeOK
  <2>2. CASE Own(b) # k
    <3>1. entries'[Own(b)] = entries[Own(b)] /\ transfers[Own(b)].kind = "deposit"
      BY <1>3, <1>kinds, <2>2, KeyParts DEF IInv, TypeOK
    <3> QED BY <3>1 DEF IInv, DepositInv
  <2> QED BY <2>1, <2>2
<1>12. KeyInv'
  <2>1. \A t \in Session : Inserting(t)' => t # s /\ Inserting(t) /\ job'[t] = job[t]
    BY DEF Commit, EndTransaction, Inserting, IInv, TypeOK
  <2>2. ASSUME NEW t \in Session, Inserting(t)'
        PROVE  ~Exists(job[t].key)'
    <3>1. t # s /\ Inserting(t) /\ job'[t] = job[t]
      BY <2>1, <2>2
    <3>2. ~Exists(job[t].key) /\ job[t].key # k /\ job[t].key \in Key
      BY <1>1, <3>1 DEF IInv, KeyInv, JobInv, GoodJob, Job, Inserting, Idle, k
    <3>3. ~(job[s].clears /\ job[t].key = Own(k[1]))
      BY <1>5, <3>2 DEF Exists, NoTransfer
    <3> QED BY <1>6, <3>1, <3>2, <3>3 DEF Exists
  <2> QED BY <2>1, <2>2 DEF IInv, KeyInv
<1>13. GuardInv'
  <2>1. \A t \in Session, a \in Account :
          draft'[t].headroom[a] = IF t = s THEN 0 ELSE draft[t].headroom[a]
    BY NoChangeType DEF IInv, TypeOK, Commit, EndTransaction
  <2>2. \A t \in Session, a \in Account : t # s /\ guardLock'[a] # t => guardLock[a] # t
    BY DEF IInv, TypeOK, Commit, EndTransaction
  <2>3. \A a \in Account : headroom'[a] >= 0 /\ headroom'[a] \in Int
    BY <1>8, <1>9 DEF IInv, GuardInv, TypeOK
  <2>4. ASSUME NEW t \in Session, NEW a \in Account
        PROVE  headroom'[a] + draft'[t].headroom[a] >= 0
    <3>1. CASE t = s \/ guardLock[a] # t
      <4>1. draft'[t].headroom[a] = 0
        BY <2>1, <3>1 DEF IInv, GuardInv
      <4> QED BY <2>3, <4>1
    <3>2. CASE t # s /\ guardLock[a] = t
      <4>1. draft[s].headroom[a] = 0
        BY <3>2 DEF IInv, GuardInv
      <4>2. headroom'[a] = headroom[a]
        BY <1>8, <4>1 DEF SeenHeadroom, IInv, TypeOK
      <4>3. headroom[a] + draft[t].headroom[a] >= 0
        BY DEF IInv, GuardInv, SeenHeadroom
      <4> QED BY <2>1, <3>2, <4>2, <4>3
    <3> QED BY <3>1, <3>2
  <2> QED BY <2>1, <2>2, <2>3, <2>4 DEF IInv, GuardInv, NoOverdraft, SeenHeadroom
<1> QED BY <1>9, <1>10, <1>11, <1>12, <1>13 DEF IInv
-----------------------------------------------------------------------------
LEMMA NextInv == IInv /\ [Next]_vars => IInv'
<1> SUFFICES ASSUME IInv, [Next]_vars PROVE IInv'
  OBVIOUS
<1>1. ASSUME NEW s \in Session, Call(s) PROVE IInv'
  BY <1>1, RecordDepositInv, ConfirmOfframpInv, ConfirmOfframpConvertedInv,
     CreatePayoutInv DEF Call
<1>2. ASSUME NEW s \in Session, Step(s) PROVE IInv'
  <2>1. CASE Rollback(s)
    BY <2>1, EndInv DEF Rollback
  <2> QED BY <1>2, <2>1, InsertTransferInv, ReplayTransferInv, PostEntryInv,
             PostWithBalanceInv, RefuseSpendInv, CommitInv, ReplyInv DEF Step
<1>3. ASSUME NEW s \in Session, Crash(s) PROVE IInv'
  BY <1>3, EndInv DEF Crash
<1>4. CASE UNCHANGED vars
  <2>1. TypeOK'
    BY <1>4 DEF IInv, TypeOK, vars, ledgerVars, sessionVars, Idle
  <2>2. JobInv' /\ DepositInv'
    BY <1>4 DEF IInv, JobInv, DepositInv, GoodJob, Idle, Inserting,
                vars, ledgerVars, sessionVars
  <2>3. KeyInv' /\ GuardInv'
    BY <1>4 DEF IInv, KeyInv, GuardInv, NoOverdraft, SeenHeadroom, Exists, Inserting,
                vars, ledgerVars, sessionVars
  <2> QED BY <2>1, <2>2, <2>3 DEF IInv
<1> QED BY <1>1, <1>2, <1>3, <1>4 DEF Next

\* The inductive invariant: whatever calls interleave, crash and retry, the
\* sessions' views of keys and guards stay consistent with the ledger.
THEOREM Invariance == Spec => []IInv
<1>1. Init => IInv
  BY InitInv
<1>2. IInv /\ [Next]_vars => IInv'
  BY NextInv
<1> QED BY <1>1, <1>2, PTL DEF Spec

\* Every variable keeps its type.
THEOREM TypeCorrect == Spec => []TypeOK
<1>1. IInv => TypeOK
  BY DEF IInv
<1> QED BY <1>1, Invariance, PTL

\* No interleaving of payouts, deposits, confirmations and crashes overdraws
\* an account: the check of applyBalance holds until its COMMIT.
THEOREM NeverOverdrawn == Spec => []NoOverdraft
<1>1. IInv => NoOverdraft
  BY DEF IInv, GuardInv
<1> QED BY <1>1, Invariance, PTL
-----------------------------------------------------------------------------
\* COMMIT never touches the entries of a transfer that exists already.
LEMMA CommitAppends ==
  ASSUME IInv, NEW s \in Session, Commit(s), NEW k \in Key, Exists(k)
  PROVE  Exists(k)' /\ entries'[k] = entries[k]
<1>1. job[s].key # k
  BY DEF IInv, KeyInv, Commit, Inserting
<1>2. entries'[k] = entries[k]
  BY <1>1 DEF Commit, IInv, TypeOK
<1>3. \/ transfers'[k] = transfers[k]
      \/ transfers'[k] = [kind |-> transfers[k].kind, status |-> "confirmed"]
  BY <1>1 DEF Commit, StatusWrites
<1>4. Exists(k)'
  BY <1>3 DEF Exists, NoTransfer
<1> QED BY <1>2, <1>4

\* The ledger is append-only for racing sessions: the loser of a key replays
\* or rolls back, and never rewrites what the winner committed.
THEOREM AppendOnly == Spec => EntriesAppendOnly
<1> DEFINE Appends == \A k \in Key : Exists(k) => Exists(k)' /\ entries'[k] = entries[k]
<1>1. IInv /\ [Next]_vars => [Appends]_vars
  <2> SUFFICES ASSUME IInv, Next PROVE Appends
    BY DEF vars
  <2>1. PICK s \in Session : Call(s) \/ Step(s) \/ Crash(s)
    BY DEF Next
  <2>2. CASE Commit(s)
    BY <2>2, CommitAppends
  <2>3. CASE ~Commit(s)
    <3>1. UNCHANGED <<transfers, entries>>
      BY <2>1, <2>3 DEF Call, Step, RecordDeposit, ConfirmOfframp, ConfirmOfframpConverted,
         CreatePayout, Begin, InsertTransfer, ReplayTransfer, PostEntry, PostWithBalance,
         RefuseSpend, Rollback, Reply, Crash, ledgerVars
    <3> QED BY <3>1 DEF Exists
  <2> QED BY <2>2, <2>3
<1> QED BY <1>1, Invariance, PTL DEF Spec, EntriesAppendOnly
-----------------------------------------------------------------------------
(* Guards and entries agree, as long as payouts leave the client accounts.  *)

Mirrors(d, a) == d.headroom[a] + d.pending[a] = -d.position[a]

MirrorInv ==
  /\ \A s \in Session : ~Idle(s) => job[s].postings \in Seq(MirrorPosting)
  /\ \A s \in Session, a \in ClientAccount : Mirrors(draft[s], a)
  /\ GuardMatchesEntries

PayoutsLeave == Destination \cap ClientAccount = {}

LEMMA NoChangeMirrors == \A a \in ClientAccount : Mirrors(NoChange, a)
BY NoChangeType, AccountKinds DEF Mirrors

LEMMA MirrorInit == Init => MirrorInv
BY NoChangeMirrors, AccountKinds DEF Init, MirrorInv, Idle, GuardMatchesEntries, Flat

LEMMA BeginMirror ==
  ASSUME IInv, MirrorInv, NEW s \in Session, NEW j, Begin(s, j),
         j.postings \in Seq(MirrorPosting)
  PROVE  MirrorInv'
BY DEF IInv, TypeOK, MirrorInv, Begin, Idle, GuardMatchesEntries, ledgerVars

\* Whatever the call, its postings mirror.
LEMMA CallMirror ==
  ASSUME PayoutsLeave, IInv, MirrorInv, NEW s \in Session, Call(s)
  PROVE  MirrorInv'
<1>1. CASE RecordDeposit(s)
  <2>1. PICK k \in BaseKey, e \in ExternalAccount, u \in UserAccount, n \in Amount :
          Begin(s, [key |-> Own(k), kind |-> "deposit", status |-> "pending",
                    postings |-> DepositPostings(e, u, n, "USDC"), clears |-> FALSE])
    BY <1>1 DEF RecordDeposit
  <2>2. DepositPostings(e, u, n, "USDC") \in Seq(MirrorPosting)
    BY DepositPostingsType, LedgerAssumption, CurrencyAssumption
  <2> QED BY <2>1, <2>2, BeginMirror
<1>2. CASE ConfirmOfframp(s)
  <2>1. PICK k \in BaseKey, fee \in Fee :
          /\ ClearableDeposit(k)
          /\ Begin(s, [key |-> OfframpKey(k), kind |-> "offramp", status |-> "confirmed",
                       postings |-> ConfirmPostings(Booked(k).account, Booked(k).delta,
                                                    fee, Booked(k).currency),
                       clears |-> TRUE])
    BY <1>2 DEF ConfirmOfframp
  <2>2. ConfirmPostings(Booked(k).account, Booked(k).delta, fee, Booked(k).currency)
          \in Seq(MirrorPosting)
    BY <2>1, BookedDeposit, ConfirmPostingsType, LedgerAssumption
  <2> QED BY <2>1, <2>2, BeginMirror
<1>3. CASE ConfirmOfframpConverted(s)
  <2>1. PICK k \in BaseKey :
          /\ ClearableDeposit(k)
          /\ Begin(s, [key |-> OfframpKey(k), kind |-> "offramp", status |-> "confirmed",
                       postings |-> ConvertedPostings(Booked(k).account,
                                       QuoteUsdcToUsd(Booked(k).delta, FeeBps)),
                       clears |-> TRUE])
    BY <1>3 DEF ConfirmOfframpConverted
  <2>2. ConvertedPostings(Booked(k).account, QuoteUsdcToUsd(Booked(k).delta, FeeBps))
          \in Seq(MirrorPosting)
    BY <2>1, BookedDeposit, ConvertedPostingsType, LedgerAssumption
  <2> QED BY <2>1, <2>2, BeginMirror
<1>4. CASE CreatePayout(s)
  <2>1. PICK k \in PayoutKey, u \in ClientAccount, d \in Destination, n \in Spend,
             c \in PayoutCurrency :
          Begin(s, [key |-> k, kind |-> "payout", status |-> "pending",
                    postings |-> PayoutPostings(u, d, n, c), clears |-> FALSE])
    BY <1>4 DEF CreatePayout
  <2>2. d \notin ClientAccount /\ d \in Account /\ n \in Int /\ c \in Currency
    BY LedgerAssumption DEF PayoutsLeave
  <2>3. PayoutPostings(u, d, n, c) \in Seq(MirrorPosting)
    BY <2>2, PayoutPostingsType
  <2> QED BY <2>1, <2>3, BeginMirror
<1> QED BY <1>1, <1>2, <1>3, <1>4 DEF Call

LEMMA PostMirror ==
  ASSUME IInv, MirrorInv, NEW s \in Session, MorePostings(s),
         draft' = [draft EXCEPT ![s] = Move(draft[s], NextPosting(s))],
         UNCHANGED <<ledgerVars, pc, job>>
  PROVE  MirrorInv'
<1> DEFINE p == NextPosting(s)
           d == draft[s]
           n == Move(d, p)
<1>1. p \in MirrorPosting
  <2>1. job[s].postings \in Seq(MirrorPosting) /\ posted[s] \in Nat
    BY DEF MirrorInv, MorePostings, Idle, IInv, TypeOK
  <2>2. posted[s] + 1 \in 1 .. Len(job[s].postings)
    BY <2>1 DEF MorePostings
  <2> QED BY <2>1, <2>2, ElementOfSeq DEF NextPosting
<1>2. p \in Posting /\ d \in Change
  BY <1>1 DEF MirrorPosting, IInv, TypeOK
<1>3. n \in Change
  BY <1>2, MoveType
<1>4. draft' = [draft EXCEPT ![s] = n]
  OBVIOUS
<1> HIDE DEF p, d, n
<1>5. ASSUME NEW a \in ClientAccount PROVE Mirrors(n, a)
  <2>1. /\ n.headroom[a] = IF a = p.account /\ p.bucket = "available"
                           THEN d.headroom[a] + p.delta ELSE d.headroom[a]
        /\ n.pending[a] = IF a = p.account /\ p.bucket = "pending"
                          THEN d.pending[a] + p.delta ELSE d.pending[a]
        /\ n.position[a] = IF a = p.account THEN d.position[a] + p.amount ELSE d.position[a]
    BY <1>2, MoveType, AccountKinds DEF n
  <2>2. /\ d.headroom[a] \in Int /\ d.pending[a] \in Int /\ d.position[a] \in Int
        /\ p.delta \in Int /\ p.amount \in Int
    BY <1>2, AccountKinds DEF Change, Posting
  <2>3. a = p.account => p.delta = -p.amount /\ p.bucket \in {"available", "pending"}
    BY <1>1, <1>2 DEF MirrorPosting, Posting, Bucket
  <2>4. d.headroom[a] + d.pending[a] = -d.position[a]
    BY DEF MirrorInv, Mirrors, d
  <2>5. CASE a # p.account
    BY <2>1, <2>4, <2>5 DEF Mirrors
  <2>6. CASE a = p.account /\ p.bucket = "available"
    BY <2>1, <2>2, <2>3, <2>4, <2>6 DEF Mirrors
  <2>7. CASE a = p.account /\ p.bucket = "pending"
    BY <2>1, <2>2, <2>3, <2>4, <2>7 DEF Mirrors
  <2> QED BY <2>3, <2>5, <2>6, <2>7
<1>6. \A t \in Session, a \in ClientAccount : Mirrors(draft'[t], a)
  BY <1>4, <1>5 DEF MirrorInv, IInv, TypeOK
<1> QED BY <1>6 DEF MirrorInv, GuardMatchesEntries, Idle, ledgerVars

\* A session ends without committing.
LEMMA DropMirror ==
  ASSUME IInv, MirrorInv, NEW s \in Session, EndTransaction(s, "idle"),
         job' = [job EXCEPT ![s] = NoJob], UNCHANGED ledgerVars
  PROVE  MirrorInv'
<1>1. \A t \in Session, a \in ClientAccount : Mirrors(draft'[t], a)
  BY NoChangeMirrors DEF MirrorInv, EndTransaction, IInv, TypeOK
<1>2. \A t \in Session : ~Idle(t)' => ~Idle(t) /\ job'[t] = job[t]
  BY DEF EndTransaction, Idle, IInv, TypeOK
<1> QED BY <1>1, <1>2 DEF MirrorInv, GuardMatchesEntries, ledgerVars

LEMMA CommitMirror ==
  ASSUME IInv, MirrorInv, NEW s \in Session, Commit(s)
  PROVE  MirrorInv'
<1>1. \A t \in Session, a \in ClientAccount : Mirrors(draft'[t], a)
  BY NoChangeMirrors DEF MirrorInv, Commit, EndTransaction, IInv, TypeOK
<1>2. \A t \in Session : ~Idle(t)' => ~Idle(t) /\ job'[t] = job[t]
  BY DEF Commit, EndTransaction, Idle, IInv, TypeOK
<1>3. GuardMatchesEntries'
  <2> SUFFICES ASSUME NEW a \in ClientAccount
               PROVE  headroom'[a] + pending'[a] = -position'[a]
    BY DEF GuardMatchesEntries
  <2>1. /\ headroom[a] \in Int /\ pending[a] \in Int /\ position[a] \in Int
        /\ draft[s].headroom[a] \in Int /\ draft[s].pending[a] \in Int
        /\ draft[s].position[a] \in Int
    BY AccountKinds DEF IInv, TypeOK, Change
  <2>2. /\ headroom[a] + pending[a] = -position[a]
        /\ draft[s].headroom[a] + draft[s].pending[a] = -draft[s].position[a]
    BY DEF MirrorInv, GuardMatchesEntries, Mirrors
  <2>3. /\ headroom'[a] = headroom[a] + draft[s].headroom[a]
        /\ pending'[a] = pending[a] + draft[s].pending[a]
        /\ position'[a] = position[a] + draft[s].position[a]
    BY AccountKinds DEF Commit
  <2>4. \A h, p, q, dh, dp, dq \in Int :
          h + p = -q /\ dh + dp = -dq => (h + dh) + (p + dp) = -(q + dq)
    OBVIOUS
  <2>5. (headroom[a] + draft[s].headroom[a]) + (pending[a] + draft[s].pending[a])
          = -(position[a] + draft[s].position[a])
    BY <2>1, <2>2, <2>4
  <2> QED BY <2>3, <2>5
<1> QED BY <1>1, <1>2, <1>3 DEF MirrorInv

LEMMA MirrorNext ==
  ASSUME PayoutsLeave, IInv, MirrorInv, [Next]_vars
  PROVE  MirrorInv'
<1>1. ASSUME NEW s \in Session, Step(s) PROVE MirrorInv'
  <2>1. CASE InsertTransfer(s)
    BY <2>1 DEF MirrorInv, InsertTransfer, GuardMatchesEntries, Idle, IInv, TypeOK, ledgerVars
  <2>2. CASE ReplayTransfer(s)
    BY <2>2 DEF MirrorInv, ReplayTransfer, GuardMatchesEntries, Idle, IInv, TypeOK, ledgerVars
  <2>3. CASE PostEntry(s)
    BY <2>3, PostMirror DEF PostEntry
  <2>4. CASE PostWithBalance(s)
    BY <2>4, PostMirror DEF PostWithBalance
  <2>5. CASE RefuseSpend(s)
    BY <2>5 DEF MirrorInv, RefuseSpend, MorePostings, GuardMatchesEntries, Idle, IInv, TypeOK, ledgerVars
  <2>6. CASE Rollback(s)
    BY <2>6, DropMirror DEF Rollback
  <2>7. CASE Reply(s)
    BY <2>7 DEF MirrorInv, Reply, GuardMatchesEntries, Idle, IInv, TypeOK, ledgerVars
  <2> QED BY <1>1, <2>1, <2>2, <2>3, <2>4, <2>5, <2>6, <2>7, CommitMirror DEF Step
<1>2. ASSUME NEW s \in Session, Crash(s) PROVE MirrorInv'
  BY <1>2, DropMirror DEF Crash
<1>3. CASE UNCHANGED vars
  BY <1>3 DEF MirrorInv, GuardMatchesEntries, Idle, vars, ledgerVars, sessionVars
<1> QED BY <1>1, <1>2, <1>3, CallMirror DEF Next

\* When no payout names a client account as its destination, the reservation
\* counters of the guards and the entries never drift apart, in any
\* interleaving: what recon's balance-drift check relies on.
THEOREM GuardsMatch ==
  ASSUME PayoutsLeave
  PROVE  Spec => []GuardMatchesEntries
<1>1. Init => MirrorInv
  BY MirrorInit
<1>2. IInv /\ MirrorInv /\ [Next]_vars => MirrorInv'
  BY MirrorNext
<1>3. MirrorInv => GuardMatchesEntries
  BY DEF MirrorInv
<1> QED BY <1>1, <1>2, <1>3, Invariance, PTL DEF Spec
-----------------------------------------------------------------------------
(* What the lists of the callers add up to.                                 *)

\* The terms that AtomicLedger sums over a list of entries.
DeltaOf(es, a, bucket) ==
  [i \in DOMAIN es |-> IF es[i].account = a /\ es[i].bucket = bucket THEN es[i].delta ELSE 0]
AmountOf(es, a) == [i \in DOMAIN es |-> IF es[i].account = a THEN es[i].amount ELSE 0]
InCurrency(es, c) == [i \in DOMAIN es |-> IF es[i].currency = c THEN es[i].amount ELSE 0]

\* The sums of the abstract ledger are those of SumTheorems.
LEMMA AtomicSum ==
  ASSUME NEW f
  PROVE  Atomic!SumFunction(f) = SumFunctionOnSet(f, DOMAIN f)
<1>1. Atomic!SumFunctionOnSet(f, DOMAIN f)
        = (CHOOSE g : Tabulates(g, f, DOMAIN f))[DOMAIN f]
  BY DEF Atomic!SumFunctionOnSet, Atomic!FoldFunctionOnSet, Atomic!MapThenFoldSet,
     Tabulates, Pick
<1> QED BY <1>1, SumDef DEF Atomic!SumFunction

LEMMA AtomicSums ==
  ASSUME NEW es
  PROVE  /\ \A a, b : Atomic!Effect(es, a, b) = SumFunctionOnSet(DeltaOf(es, a, b), DOMAIN es)
         /\ \A a : Atomic!Sum(es, a) = SumFunctionOnSet(AmountOf(es, a), DOMAIN es)
         /\ Atomic!Balanced(es) <=>
              \A c \in { es[i].currency : i \in DOMAIN es } :
                SumFunctionOnSet(InCurrency(es, c), DOMAIN es) = 0
BY AtomicSum DEF Atomic!Effect, Atomic!Sum, Atomic!Balanced, DeltaOf, AmountOf, InCurrency

\* A list of postings has integer terms.
LEMMA TermsAreInt ==
  ASSUME NEW es \in Seq(Posting)
  PROVE  /\ DOMAIN es = 1 .. Len(es) /\ Len(es) \in Nat
         /\ \A a, b : \A i \in DOMAIN es : DeltaOf(es, a, b)[i] \in Int
         /\ \A a : \A i \in DOMAIN es : AmountOf(es, a)[i] \in Int
         /\ \A c : \A i \in DOMAIN es : InCurrency(es, c)[i] \in Int
<1>1. DOMAIN es = 1 .. Len(es) /\ Len(es) \in Nat
  OBVIOUS
<1>2. ASSUME NEW i \in DOMAIN es PROVE es[i].delta \in Int /\ es[i].amount \in Int
  <2>1. es[i] \in Posting
    BY <1>1, ElementOfSeq
  <2> QED BY <2>1 DEF Posting
<1> QED BY <1>1, <1>2 DEF DeltaOf, AmountOf, InCurrency

\* Sums over the lists of two, three, four or five entries the callers make.
LEMMA ShortSums ==
  ASSUME NEW f, NEW n \in 2 .. 5, \A i \in 1 .. n : f[i] \in Int
  PROVE  SumFunctionOnSet(f, 1 .. n) =
           f[1] + f[2] + (IF n >= 3 THEN f[3] ELSE 0) + (IF n >= 4 THEN f[4] ELSE 0)
                       + (IF n >= 5 THEN f[5] ELSE 0)
<1> DEFINE sum(m) == SumFunctionOnSet(f, 1 .. m)
<1>1. 1 .. 0 = {} /\ sum(0) = 0
  BY SumEmpty
<1>2. ASSUME NEW m \in Nat, m + 1 <= n
      PROVE  sum(m + 1) = sum(m) + f[m + 1]
  <2>1. \A i \in 1 .. m + 1 : f[i] \in Int
    BY <1>2
  <2> QED BY <2>1, SumNext
<1> HIDE DEF sum
<1>3. sum(1) = sum(0) + f[1]
  BY <1>2, 0 + 1 = 1
<1>4. sum(2) = sum(1) + f[2]
  BY <1>2, 1 + 1 = 2
<1>5. n >= 3 => sum(3) = sum(2) + f[3]
  BY <1>2, 2 + 1 = 3
<1>6. n >= 4 => sum(4) = sum(3) + f[4]
  BY <1>2, 3 + 1 = 4
<1>a. n >= 5 => sum(5) = sum(4) + f[5]
  BY <1>2, 4 + 1 = 5
<1>7. /\ f[1] \in Int /\ f[2] \in Int /\ (n >= 3 => f[3] \in Int)
      /\ (n >= 4 => f[4] \in Int) /\ (n >= 5 => f[5] \in Int)
  OBVIOUS
<1>8. n = 2 \/ n = 3 \/ n = 4 \/ n = 5
  OBVIOUS
<1>9. /\ sum(2) = f[1] + f[2]
      /\ n >= 3 => sum(3) = f[1] + f[2] + f[3]
      /\ n >= 4 => sum(4) = f[1] + f[2] + f[3] + f[4]
      /\ n >= 5 => sum(5) = f[1] + f[2] + f[3] + f[4] + f[5]
  BY <1>1, <1>3, <1>4, <1>5, <1>6, <1>a, <1>7
<1>10. sum(n) = f[1] + f[2] + (IF n >= 3 THEN f[3] ELSE 0) + (IF n >= 4 THEN f[4] ELSE 0)
                       + (IF n >= 5 THEN f[5] ELSE 0)
  <2>1. CASE n = 2
    BY <2>1, <1>7, <1>9
  <2>2. CASE n = 3
    BY <2>2, <1>7, <1>9
  <2>3. CASE n = 4
    BY <2>3, <1>7, <1>9
  <2>4. CASE n = 5
    BY <2>4, <1>7, <1>9
  <2> QED BY <1>8, <2>1, <2>2, <2>3, <2>4
<1> QED BY <1>10 DEF sum

\* What refining the abstract ledger asks of a list: it has lines, they
\* balance, and `gain' says what they do to the pending buckets.
GoodList(ps, gain) ==
  /\ ps \in Seq(Posting) /\ ps # << >>
  /\ Atomic!Balanced(ps)
  /\ \A a \in Account : Atomic!Effect(ps, a, "pending") = gain[a]

GainOf(u, n) == [a \in Account |-> IF a = u THEN n ELSE 0]

LEMMA DepositGain ==
  ASSUME NEW e \in ExternalAccount, NEW u \in UserAccount, NEW n \in Int, NEW c \in Currency
  PROVE  GoodList(DepositPostings(e, u, n, c), GainOf(u, n))
<1> DEFINE ps == DepositPostings(e, u, n, c)
<1>1. ps \in Seq(Posting)
  BY DepositPostingsType, SeqMonotonic DEF MirrorPosting
<1>2. /\ DOMAIN ps = 1 .. 2 /\ Len(ps) = 2
      /\ ps[1] = Entry(e, n, c)
      /\ ps[2] = ClientEntry(u, -n, c, "pending")
  BY DEF DepositPostings
<1> HIDE DEF ps
<1>3. Atomic!Balanced(ps)
  <2>1. \A i \in DOMAIN ps : ps[i].currency = c
    BY <1>2 DEF Entry, ClientEntry
  <2>2. SumFunctionOnSet(InCurrency(ps, c), 1 .. 2) = InCurrency(ps, c)[1] + InCurrency(ps, c)[2]
    BY <1>1, <1>2, TermsAreInt, ShortSums
  <2>3. InCurrency(ps, c)[1] = n /\ InCurrency(ps, c)[2] = -n
    BY <1>2 DEF InCurrency, Entry, ClientEntry
  <2> QED BY <1>2, <2>1, <2>2, <2>3, AtomicSums
<1>4. ASSUME NEW a \in Account
      PROVE  Atomic!Effect(ps, a, "pending") = GainOf(u, n)[a]
  <2> DEFINE f == DeltaOf(ps, a, "pending")
  <2>1. SumFunctionOnSet(f, 1 .. 2) = f[1] + f[2]
    BY <1>1, <1>2, TermsAreInt, ShortSums
  <2>2. f[1] = 0 /\ f[2] = IF a = u THEN n ELSE 0
    BY <1>2 DEF DeltaOf, Entry, ClientEntry
  <2> HIDE DEF f
  <2>3. SumFunctionOnSet(f, 1 .. 2) = GainOf(u, n)[a]
    BY <2>1, <2>2 DEF GainOf
  <2> QED BY <1>2, <2>3, AtomicSums DEF f
<1>5. ps # << >>
  BY <1>2
<1> QED BY <1>1, <1>3, <1>4, <1>5 DEF GoodList, ps

LEMMA ConfirmGain ==
  ASSUME NEW u \in UserAccount, NEW n \in Int, NEW fee \in Int, NEW c \in Currency
  PROVE  GoodList(ConfirmPostings(u, n, fee, c), GainOf(u, -n))
<1> DEFINE ps == ConfirmPostings(u, n, fee, c)
<1>1. ps \in Seq(Posting)
  BY ConfirmPostingsType, SeqMonotonic DEF MirrorPosting
<1>2. /\ DOMAIN ps = 1 .. 3 /\ Len(ps) = 3
      /\ ps[1] = ClientEntry(u, n, c, "pending")
      /\ ps[2] = ClientEntry(u, -(n - fee), c, "available")
      /\ ps[3] = ClientEntry(FeeAccount, -fee, c, "available")
  BY DEF ConfirmPostings
<1> HIDE DEF ps
<1>3. Atomic!Balanced(ps)
  <2> DEFINE f == InCurrency(ps, c)
  <2>1. \A i \in DOMAIN ps : ps[i].currency = c
    BY <1>2 DEF ClientEntry
  <2>2. SumFunctionOnSet(f, 1 .. 3) = f[1] + f[2] + f[3]
    BY <1>1, <1>2, TermsAreInt, ShortSums
  <2>3. f[1] = n /\ f[2] = -(n - fee) /\ f[3] = -fee
    BY <1>2 DEF InCurrency, ClientEntry
  <2> HIDE DEF f
  <2>4. SumFunctionOnSet(f, 1 .. 3) = 0
    BY <2>2, <2>3
  <2> QED BY <1>2, <2>1, <2>4, AtomicSums DEF f
<1>4. ASSUME NEW a \in Account
      PROVE  Atomic!Effect(ps, a, "pending") = GainOf(u, -n)[a]
  <2> DEFINE f == DeltaOf(ps, a, "pending")
  <2>1. SumFunctionOnSet(f, 1 .. 3) = f[1] + f[2] + f[3]
    BY <1>1, <1>2, TermsAreInt, ShortSums
  <2>2. f[1] = (IF a = u THEN -n ELSE 0) /\ f[2] = 0 /\ f[3] = 0
    BY <1>2 DEF DeltaOf, ClientEntry
  <2> HIDE DEF f
  <2>3. SumFunctionOnSet(f, 1 .. 3) = GainOf(u, -n)[a]
    BY <2>1, <2>2 DEF GainOf
  <2> QED BY <1>2, <2>3, AtomicSums DEF f
<1>5. ps # << >>
  BY <1>2
<1> QED BY <1>1, <1>3, <1>4, <1>5 DEF GoodList, ps

LEMMA PayoutGain ==
  ASSUME NEW u \in ClientAccount, NEW d \in Account, NEW n \in Int, NEW c \in Currency
  PROVE  GoodList(PayoutPostings(u, d, n, c), Flat)
<1> DEFINE ps == PayoutPostings(u, d, n, c)
<1>1. ps \in Seq(Posting)
  BY PayoutPostingsType
<1>2. /\ DOMAIN ps = 1 .. 2 /\ Len(ps) = 2
      /\ ps[1] = ClientEntry(u, n, c, "available")
      /\ ps[2] = Entry(d, -n, c)
  BY DEF PayoutPostings
<1> HIDE DEF ps
<1>3. Atomic!Balanced(ps)
  <2> DEFINE f == InCurrency(ps, c)
  <2>1. \A i \in DOMAIN ps : ps[i].currency = c
    BY <1>2 DEF Entry, ClientEntry
  <2>2. SumFunctionOnSet(f, 1 .. 2) = f[1] + f[2]
    BY <1>1, <1>2, TermsAreInt, ShortSums
  <2>3. f[1] = n /\ f[2] = -n
    BY <1>2 DEF InCurrency, Entry, ClientEntry
  <2> HIDE DEF f
  <2>4. SumFunctionOnSet(f, 1 .. 2) = 0
    BY <2>2, <2>3
  <2> QED BY <1>2, <2>1, <2>4, AtomicSums DEF f
<1>4. ASSUME NEW a \in Account
      PROVE  Atomic!Effect(ps, a, "pending") = Flat[a]
  <2> DEFINE f == DeltaOf(ps, a, "pending")
  <2>1. SumFunctionOnSet(f, 1 .. 2) = f[1] + f[2]
    BY <1>1, <1>2, TermsAreInt, ShortSums
  <2>2. f[1] = 0 /\ f[2] = 0
    BY <1>2 DEF DeltaOf, Entry, ClientEntry
  <2> HIDE DEF f
  <2>3. SumFunctionOnSet(f, 1 .. 2) = Flat[a]
    BY <2>1, <2>2 DEF Flat
  <2> QED BY <1>2, <2>3, AtomicSums DEF f
<1>5. ps # << >>
  BY <1>1, <1>2
<1> QED BY <1>1, <1>3, <1>4, <1>5 DEF GoodList, ps

\* The lines of a converted off-ramp: three always, one for the net and one
\* for the fee when they are positive.
LEMMA ConvertedLines ==
  ASSUME NEW u \in UserAccount, NEW gross \in Nat, NEW cents \in Nat,
         NEW net \in Nat, NEW fee \in Nat, NEW q,
         q.grossUsdcMinor = gross, q.grossUsdCents = cents,
         q.netUsdCents = net, q.feeUsdCents = fee
  PROVE  LET ps == ConvertedPostings(u, q)
             n == 3 + (IF net > 0 THEN 1 ELSE 0) + (IF fee > 0 THEN 1 ELSE 0)
         IN  /\ DOMAIN ps = 1 .. n
             /\ ps[1] = ClientEntry(u, gross, "USDC", "pending")
             /\ ps[2] = Entry(ConversionAccount, -gross, "USDC")
             /\ ps[3] = Entry(ConversionAccount, cents, "USD")
             /\ net > 0 => ps[4] = ClientEntry(u, -net, "USD", "available")
             /\ fee > 0 => ps[n] = ClientEntry(FeeAccount, -fee, "USD", "available")
<1> DEFINE e1 == ClientEntry(u, gross, "USDC", "pending")
           e2 == Entry(ConversionAccount, -gross, "USDC")
           e3 == Entry(ConversionAccount, cents, "USD")
           e4 == ClientEntry(u, -net, "USD", "available")
           e5 == ClientEntry(FeeAccount, -fee, "USD", "available")
<1>1. ConvertedPostings(u, q) =
        <<e1, e2, e3>> \o (IF net > 0 THEN <<e4>> ELSE << >>)
                       \o (IF fee > 0 THEN <<e5>> ELSE << >>)
  BY Zenon DEF ConvertedPostings
<1> HIDE DEF e1, e2, e3, e4, e5
<1> DEFINE Lines == Seq({e1, e2, e3, e4, e5})
           s3 == <<e1, e2, e3>>
           More(s, e) == s \o <<e>>
<1>a. ASSUME NEW s \in Lines, NEW e \in {e4, e5}
      PROVE  /\ More(s, e) \in Lines
             /\ DOMAIN More(s, e) = 1 .. Len(s) + 1 /\ Len(More(s, e)) = Len(s) + 1
             /\ \A i \in 1 .. Len(s) : More(s, e)[i] = s[i]
             /\ More(s, e)[Len(s) + 1] = e
  <2>1. Append(s, e) = More(s, e)
    BY AppendIsConcat
  <2>2. /\ Append(s, e) \in Lines /\ Len(Append(s, e)) = Len(s) + 1
        /\ \A i \in 1 .. Len(s) : Append(s, e)[i] = s[i]
        /\ Append(s, e)[Len(s) + 1] = e
    BY AppendProperties
  <2>3. DOMAIN Append(s, e) = 1 .. Len(s) + 1
    BY <2>2
  <2> QED BY <2>1, <2>2, <2>3
<1>b. \A s \in Lines : s \o << >> = s
  BY ConcatEmptySeq
<1>c. /\ s3 \in Lines /\ Len(s3) = 3 /\ DOMAIN s3 = 1 .. 3
      /\ s3[1] = e1 /\ s3[2] = e2 /\ s3[3] = e3
  OBVIOUS
<1> HIDE DEF Lines, s3, More
<1> DEFINE s4 == More(s3, e4)
<1>d. /\ s4 \in Lines /\ Len(s4) = 4 /\ DOMAIN s4 = 1 .. 4
      /\ s4[1] = e1 /\ s4[2] = e2 /\ s4[3] = e3 /\ s4[4] = e4
  <2>1. /\ More(s3, e4) \in Lines /\ DOMAIN More(s3, e4) = 1 .. Len(s3) + 1
        /\ Len(More(s3, e4)) = Len(s3) + 1
        /\ \A i \in 1 .. Len(s3) : More(s3, e4)[i] = s3[i]
        /\ More(s3, e4)[Len(s3) + 1] = e4
    BY <1>a, <1>c
  <2> QED BY <1>c, <2>1
<1> HIDE DEF s4
<1>2. CASE net > 0 /\ fee > 0
  <2>1. ConvertedPostings(u, q) = More(s4, e5)
    BY <1>1, <1>2 DEF s3, s4, More
  <2>2. /\ DOMAIN More(s4, e5) = 1 .. 5
        /\ \A i \in 1 .. 4 : More(s4, e5)[i] = s4[i]
        /\ More(s4, e5)[5] = e5
    <3>1. /\ More(s4, e5) \in Lines /\ DOMAIN More(s4, e5) = 1 .. Len(s4) + 1
          /\ Len(More(s4, e5)) = Len(s4) + 1
          /\ \A i \in 1 .. Len(s4) : More(s4, e5)[i] = s4[i]
          /\ More(s4, e5)[Len(s4) + 1] = e5
      BY <1>a, <1>d
    <3> QED BY <1>d, <3>1
  <2> QED BY <1>2, <1>d, <2>1, <2>2 DEF e1, e2, e3, e4, e5
<1>3. CASE net > 0 /\ ~(fee > 0)
  <2>1. ConvertedPostings(u, q) = s4
    BY <1>1, <1>3, <1>b, <1>d DEF s3, s4, More
  <2> QED BY <1>3, <1>d, <2>1 DEF e1, e2, e3, e4, e5
<1>4. CASE ~(net > 0) /\ fee > 0
  <2>1. ConvertedPostings(u, q) = More(s3, e5)
    BY <1>1, <1>4, <1>b, <1>c DEF s3, More
  <2>2. /\ DOMAIN More(s3, e5) = 1 .. 4
        /\ \A i \in 1 .. 3 : More(s3, e5)[i] = s3[i]
        /\ More(s3, e5)[4] = e5
    <3>1. /\ More(s3, e5) \in Lines /\ DOMAIN More(s3, e5) = 1 .. Len(s3) + 1
          /\ Len(More(s3, e5)) = Len(s3) + 1
          /\ \A i \in 1 .. Len(s3) : More(s3, e5)[i] = s3[i]
          /\ More(s3, e5)[Len(s3) + 1] = e5
      BY <1>a, <1>c
    <3> QED BY <1>c, <3>1
  <2> QED BY <1>4, <1>c, <2>1, <2>2 DEF e1, e2, e3, e4, e5
<1>5. CASE ~(net > 0) /\ ~(fee > 0)
  <2>1. ConvertedPostings(u, q) = s3
    BY <1>1, <1>5, <1>b, <1>c DEF s3
  <2> QED BY <1>5, <1>c, <2>1 DEF e1, e2, e3, e4, e5
<1> QED BY <1>2, <1>3, <1>4, <1>5

LEMMA ConvertedGain ==
  ASSUME NEW u \in UserAccount, NEW n \in Nat, NEW bps \in 0 .. BpsDenominator
  PROVE  GoodList(ConvertedPostings(u, QuoteUsdcToUsd(n, bps)), GainOf(u, -n))
<1> DEFINE q == QuoteUsdcToUsd(n, bps)
           ps == ConvertedPostings(u, q)
<1>1. PICK cents, net, fee \in Nat :
        /\ q.grossUsdcMinor = n /\ q.grossUsdCents = cents
        /\ q.netUsdCents = net /\ q.feeUsdCents = fee
        /\ net + fee = cents
  BY QuoteType
<1>2. ps \in Seq(Posting)
  BY ConvertedPostingsType, SeqMonotonic DEF MirrorPosting
<1> DEFINE m == 3 + (IF net > 0 THEN 1 ELSE 0) + (IF fee > 0 THEN 1 ELSE 0)
<1>3. /\ DOMAIN ps = 1 .. m
      /\ ps[1] = ClientEntry(u, n, "USDC", "pending")
      /\ ps[2] = Entry(ConversionAccount, -n, "USDC")
      /\ ps[3] = Entry(ConversionAccount, cents, "USD")
      /\ net > 0 => ps[4] = ClientEntry(u, -net, "USD", "available")
      /\ fee > 0 => ps[m] = ClientEntry(FeeAccount, -fee, "USD", "available")
  <2> HIDE DEF q
  <2> QED BY <1>1, ConvertedLines
<1> HIDE DEF q, ps
<1>4. m \in 3 .. 5 /\ ps # << >>
      /\ (net > 0 => m >= 4) /\ (net > 0 /\ fee > 0 => m = 5)
      /\ (~(net > 0) /\ fee > 0 => m = 4) /\ (net > 0 /\ ~(fee > 0) => m = 4)
      /\ (~(net > 0) /\ ~(fee > 0) => m = 3)
  BY <1>3
<1> HIDE DEF m
<1>5. ASSUME NEW f, \A i \in 1 .. m : f[i] \in Int
      PROVE  SumFunctionOnSet(f, 1 .. m) =
               f[1] + f[2] + f[3] + (IF net > 0 THEN f[4] ELSE 0) + (IF fee > 0 THEN f[m] ELSE 0)
  <2> DEFINE total == SumFunctionOnSet(f, 1 .. m)
  <2>1. total = f[1] + f[2] + (IF m >= 3 THEN f[3] ELSE 0) + (IF m >= 4 THEN f[4] ELSE 0)
                           + (IF m >= 5 THEN f[5] ELSE 0)
    <3>1. m \in 2 .. 5
      BY <1>4
    <3> QED BY <3>1, <1>5, ShortSums
  <2>2. /\ f[1] \in Int /\ f[2] \in Int /\ f[3] \in Int
        /\ (m >= 4 => f[4] \in Int) /\ (m >= 5 => f[5] \in Int)
    BY <1>4, <1>5
  <2> HIDE DEF total
  <2> QED BY <1>4, <2>1, <2>2 DEF total
<1>6. Atomic!Balanced(ps)
  <2>1. \A i \in DOMAIN ps : ps[i].currency = "USDC" \/ ps[i].currency = "USD"
    <3> SUFFICES ASSUME NEW i \in 1 .. m PROVE ps[i].currency = "USDC" \/ ps[i].currency = "USD"
      BY <1>3
    <3>1. i = 1 \/ i = 2 \/ i = 3 \/ (net > 0 /\ i = 4) \/ (fee > 0 /\ i = m)
      BY <1>4
    <3> QED BY <1>3, <3>1 DEF Entry, ClientEntry
  <2>2. SumFunctionOnSet(InCurrency(ps, "USDC"), 1 .. m) = 0
    <3> DEFINE f == InCurrency(ps, "USDC")
    <3>1. /\ f[1] = n /\ f[2] = -n /\ f[3] = 0
          /\ (net > 0 => f[4] = 0) /\ (fee > 0 => f[m] = 0)
      BY <1>3, <1>4 DEF InCurrency, Entry, ClientEntry
    <3>2. \A i \in 1 .. m : f[i] \in Int
      BY <1>2, <1>3, TermsAreInt
    <3> HIDE DEF f
    <3> QED BY <1>5, <3>1, <3>2 DEF f
  <2>3. SumFunctionOnSet(InCurrency(ps, "USD"), 1 .. m) = 0
    <3> DEFINE f == InCurrency(ps, "USD")
    <3>1. /\ f[1] = 0 /\ f[2] = 0 /\ f[3] = cents
          /\ (net > 0 => f[4] = -net) /\ (fee > 0 => f[m] = -fee)
      BY <1>3, <1>4 DEF InCurrency, Entry, ClientEntry
    <3>2. \A i \in 1 .. m : f[i] \in Int
      BY <1>2, <1>3, TermsAreInt
    <3> HIDE DEF f
    <3>3. SumFunctionOnSet(f, 1 .. m) =
            cents + (IF net > 0 THEN -net ELSE 0) + (IF fee > 0 THEN -fee ELSE 0)
      BY <1>5, <3>1, <3>2
    <3> QED BY <1>1, <3>3 DEF f
  <2> QED BY <1>3, <2>1, <2>2, <2>3, AtomicSums
<1>7. ASSUME NEW a \in Account
      PROVE  Atomic!Effect(ps, a, "pending") = GainOf(u, -n)[a]
  <2> DEFINE f == DeltaOf(ps, a, "pending")
  <2>1. /\ f[1] = (IF a = u THEN -n ELSE 0) /\ f[2] = 0 /\ f[3] = 0
        /\ (net > 0 => f[4] = 0) /\ (fee > 0 => f[m] = 0)
    BY <1>3, <1>4 DEF DeltaOf, Entry, ClientEntry
  <2>2. \A i \in 1 .. m : f[i] \in Int
    BY <1>2, <1>3, TermsAreInt
  <2> HIDE DEF f
  <2>3. SumFunctionOnSet(f, 1 .. m) = GainOf(u, -n)[a]
    BY <1>5, <2>1, <2>2 DEF GainOf
  <2> QED BY <1>3, <2>3, AtomicSums DEF f
<1> QED BY <1>2, <1>4, <1>6, <1>7 DEF GoodList, ps, q
-----------------------------------------------------------------------------
(* Every commit is one whole transfer of the abstract ledger.               *)

\* What a job asks is a transfer of the abstract ledger: its entries balance,
\* only a deposit adds to a pending bucket, and an off-ramp takes from it what
\* the deposit it clears has put there.
Shape(j) ==
  /\ j.postings # << >> /\ Atomic!Balanced(j.postings)
  /\ j.clears <=> j.kind = "offramp"
  /\ j.kind = "deposit" => j.key[2] = "own" /\ j.status = "pending"
  /\ j.kind = "payout" =>
       \A a \in Account : Atomic!Effect(j.postings, a, "pending") = 0
  /\ j.clears =>
       \A a \in Account : Atomic!Effect(j.postings, a, "pending")
                           = -Atomic!Effect(entries[Own(j.key[1])], a, "pending")

ShapeInv == \A s \in Session : ~Idle(s) => Shape(job[s])

\* A session's draft is what the postings it has applied add up to.
DraftInv ==
  \A s \in Session :
    IF Inserting(s)
    THEN \A a \in Account :
           LET ps == job[s].postings
               Done(f) == SumFunctionOnSet(f, 1 .. posted[s]) IN
           /\ draft[s].headroom[a] = Done(DeltaOf(ps, a, "available"))
           /\ draft[s].pending[a] = Done(DeltaOf(ps, a, "pending"))
           /\ draft[s].position[a] = Done(AmountOf(ps, a))
    ELSE draft[s] = NoChange

\* A deposit that is no longer pending has a transfer under its off-ramp key.
ClearInv ==
  \A b \in BaseKey :
    transfers[Own(b)].kind = "deposit" =>
      transfers[Own(b)].status = "pending" \/ Exists(OfframpKey(b))

DetailInv == ShapeInv /\ DraftInv /\ ClearInv

LEMMA DetailInit == Init => DetailInv
<1> SUFFICES ASSUME Init PROVE DetailInv
  OBVIOUS
<1>1. ShapeInv
  BY DEF Init, ShapeInv, Idle
<1>2. DraftInv
  BY DEF Init, DraftInv, Inserting
<1>3. ClearInv
  BY KeyParts DEF Init, ClearInv, NoTransfer
<1> QED BY <1>1, <1>2, <1>3 DEF DetailInv

LEMMA BeginDetail ==
  ASSUME IInv, DetailInv, NEW s \in Session, NEW j, Shape(j), Begin(s, j)
  PROVE  DetailInv'
<1>1. ShapeInv'
  <2> SUFFICES ASSUME NEW t \in Session, pc'[t] # "idle" PROVE Shape(job[t])'
    BY DEF ShapeInv, Idle
  <2>1. CASE t = s
    <3>1. job'[t] = j /\ entries' = entries
      BY <2>1 DEF Begin, IInv, TypeOK, ledgerVars
    <3> QED BY <3>1 DEF Shape
  <2>2. CASE t # s
    <3>1. job'[t] = job[t] /\ entries' = entries /\ Shape(job[t])
      BY <2>2 DEF Begin, IInv, TypeOK, ledgerVars, DetailInv, ShapeInv, Idle
    <3> QED BY <3>1 DEF Shape
  <2> QED BY <2>1, <2>2
<1>2. DraftInv'
  <2>1. \A t \in Session : Inserting(t)' <=> Inserting(t)
    BY DEF Begin, IInv, TypeOK, Inserting, Idle
  <2>2. \A t \in Session : Inserting(t) => job'[t] = job[t]
    BY DEF Begin, IInv, TypeOK, Inserting, Idle
  <2>3. draft' = draft /\ posted' = posted
    BY DEF Begin
  <2> QED BY <2>1, <2>2, <2>3 DEF DetailInv, DraftInv
<1>3. ClearInv'
  BY DEF Begin, DetailInv, ClearInv, Exists, ledgerVars
<1> QED BY <1>1, <1>2, <1>3 DEF DetailInv

\* Every caller's job has the shape.
LEMMA CallDetail ==
  ASSUME IInv, DetailInv, NEW s \in Session, Call(s)
  PROVE  DetailInv'
<1>1. CASE RecordDeposit(s)
  <2>1. PICK k \in BaseKey, e \in ExternalAccount, u \in UserAccount, n \in Amount :
          Begin(s, [key |-> Own(k), kind |-> "deposit", status |-> "pending",
                    postings |-> DepositPostings(e, u, n, "USDC"), clears |-> FALSE])
    BY <1>1 DEF RecordDeposit
  <2>2. GoodList(DepositPostings(e, u, n, "USDC"), GainOf(u, n))
    BY DepositGain, LedgerAssumption, CurrencyAssumption
  <2>3. Shape([key |-> Own(k), kind |-> "deposit", status |-> "pending",
               postings |-> DepositPostings(e, u, n, "USDC"), clears |-> FALSE])
    BY <2>2, KeyParts DEF Shape, GoodList
  <2> QED BY <2>1, <2>3, BeginDetail
<1>2. CASE CreatePayout(s)
  <2>1. PICK k \in PayoutKey, u \in ClientAccount, d \in Destination, n \in Spend,
             c \in PayoutCurrency :
          Begin(s, [key |-> k, kind |-> "payout", status |-> "pending",
                    postings |-> PayoutPostings(u, d, n, c), clears |-> FALSE])
    BY <1>2 DEF CreatePayout
  <2>2. GoodList(PayoutPostings(u, d, n, c), Flat)
    BY PayoutGain, LedgerAssumption
  <2>3. Shape([key |-> k, kind |-> "payout", status |-> "pending",
               postings |-> PayoutPostings(u, d, n, c), clears |-> FALSE])
    BY <2>2 DEF Shape, GoodList, Flat
  <2> QED BY <2>1, <2>3, BeginDetail
\* The entries of the deposit an off-ramp clears, and what it must take back.
<1> DEFINE Clearing(k, ps) == [key |-> OfframpKey(k), kind |-> "offramp",
                               status |-> "confirmed", postings |-> ps, clears |-> TRUE]
<1>3. ASSUME NEW k \in BaseKey, NEW ps, ClearableDeposit(k),
             GoodList(ps, GainOf(Booked(k).account, -Booked(k).delta))
      PROVE  Shape(Clearing(k, ps))
  <2>1. PICK e \in ExternalAccount, u \in UserAccount, n \in Nat \ {0} :
          entries[Own(k)] = DepositPostings(e, u, n, "USDC")
    BY <1>3 DEF IInv, DepositInv, DepositList, ClearableDeposit
  <2>2. Booked(k).account = u /\ Booked(k).delta = n
    BY <2>1 DEF Booked, DepositPostings, ClientEntry
  <2>3. GoodList(entries[Own(k)], GainOf(u, n))
    BY <2>1, DepositGain, CurrencyAssumption
  <2>4. \A a \in Account : Atomic!Effect(ps, a, "pending")
                            = -Atomic!Effect(entries[Own(k)], a, "pending")
    BY <1>3, <2>2, <2>3 DEF GoodList, GainOf
  <2>5. Own(Clearing(k, ps).key[1]) = Own(k)
    BY KeyParts
  <2> QED BY <1>3, <2>4, <2>5 DEF Shape, GoodList
<1>4. CASE ConfirmOfframp(s)
  <2>1. PICK k \in BaseKey, fee \in Fee :
          /\ ClearableDeposit(k)
          /\ Begin(s, Clearing(k, ConfirmPostings(Booked(k).account, Booked(k).delta,
                                                  fee, Booked(k).currency)))
    BY <1>4 DEF ConfirmOfframp
  <2>2. GoodList(ConfirmPostings(Booked(k).account, Booked(k).delta, fee, Booked(k).currency),
                 GainOf(Booked(k).account, -Booked(k).delta))
    <3>1. fee \in Int /\ Booked(k).account \in UserAccount
          /\ Booked(k).delta \in Int /\ Booked(k).currency \in Currency
      BY <2>1, BookedDeposit, LedgerAssumption
    <3> QED BY <3>1, ConfirmGain
  <2> HIDE DEF Clearing
  <2> QED BY <1>3, <2>1, <2>2, BeginDetail
<1>5. CASE ConfirmOfframpConverted(s)
  <2>1. PICK k \in BaseKey :
          /\ ClearableDeposit(k)
          /\ Begin(s, Clearing(k, ConvertedPostings(Booked(k).account,
                                     QuoteUsdcToUsd(Booked(k).delta, FeeBps))))
    BY <1>5 DEF ConfirmOfframpConverted
  <2>2. GoodList(ConvertedPostings(Booked(k).account, QuoteUsdcToUsd(Booked(k).delta, FeeBps)),
                 GainOf(Booked(k).account, -Booked(k).delta))
    BY <2>1, BookedDeposit, ConvertedGain, LedgerAssumption
  <2> HIDE DEF Clearing
  <2> QED BY <1>3, <2>1, <2>2, BeginDetail
<1> QED BY <1>1, <1>2, <1>4, <1>5 DEF Call

\* One more posting applied, one more term in each sum.
LEMMA PostDetail ==
  ASSUME IInv, DetailInv, NEW s \in Session, MorePostings(s),
         draft' = [draft EXCEPT ![s] = Move(draft[s], NextPosting(s))],
         posted' = [posted EXCEPT ![s] = @ + 1],
         UNCHANGED <<ledgerVars, pc, job>>
  PROVE  DetailInv'
<1>1. ShapeInv' /\ ClearInv'
  BY DEF DetailInv, ShapeInv, ClearInv, Shape, Idle, Exists, ledgerVars
<1>2. ASSUME NEW a \in Account
      PROVE  LET ps == job[s].postings
                 Done(f) == SumFunctionOnSet(f, 1 .. posted[s] + 1)
                 d == draft'[s] IN
             /\ d.headroom[a] = Done(DeltaOf(ps, a, "available"))
             /\ d.pending[a] = Done(DeltaOf(ps, a, "pending"))
             /\ d.position[a] = Done(AmountOf(ps, a))
  <2> DEFINE ps == job[s].postings
             n == posted[s]
             p == NextPosting(s)
             d == draft[s]
  <2>1. ps \in Seq(Posting) /\ n \in Nat /\ n + 1 \in 1 .. Len(ps) /\ p = ps[n + 1]
    BY DEF IInv, TypeOK, JobInv, GoodJob, Job, MorePostings, NextPosting, Idle
  <2>2. p \in Posting /\ d \in Change
    BY NextPostingType DEF IInv, TypeOK
  <2>3. draft'[s] = Move(d, p)
    BY DEF IInv, TypeOK
  <2>4. ASSUME NEW f, \A i \in DOMAIN ps : f[i] \in Int
        PROVE  SumFunctionOnSet(f, 1 .. n + 1) = SumFunctionOnSet(f, 1 .. n) + f[n + 1]
    <3>1. \A i \in 1 .. n + 1 : f[i] \in Int
      BY <2>1, <2>4
    <3> QED BY <2>1, <3>1, SumNext
  <2>5. /\ d.headroom[a] = SumFunctionOnSet(DeltaOf(ps, a, "available"), 1 .. n)
        /\ d.pending[a] = SumFunctionOnSet(DeltaOf(ps, a, "pending"), 1 .. n)
        /\ d.position[a] = SumFunctionOnSet(AmountOf(ps, a), 1 .. n)
    BY DEF DetailInv, DraftInv, MorePostings, Inserting
  <2> HIDE DEF ps, n, p, d
  <2>6. \A b : DeltaOf(ps, a, b)[n + 1] = IF p.account = a /\ p.bucket = b THEN p.delta ELSE 0
    BY <2>1 DEF DeltaOf
  <2>7. AmountOf(ps, a)[n + 1] = IF p.account = a THEN p.amount ELSE 0
    BY <2>1 DEF AmountOf
  <2>8. /\ \A b : SumFunctionOnSet(DeltaOf(ps, a, b), 1 .. n + 1)
               = SumFunctionOnSet(DeltaOf(ps, a, b), 1 .. n) + DeltaOf(ps, a, b)[n + 1]
        /\ SumFunctionOnSet(AmountOf(ps, a), 1 .. n + 1)
               = SumFunctionOnSet(AmountOf(ps, a), 1 .. n) + AmountOf(ps, a)[n + 1]
    BY <2>1, <2>4, TermsAreInt
  <2>9. /\ d.headroom[a] \in Int /\ d.pending[a] \in Int /\ d.position[a] \in Int
        /\ p.delta \in Int /\ p.amount \in Int
    BY <2>2 DEF Change, Posting
  <2>10. /\ Move(d, p).headroom[a] = SumFunctionOnSet(DeltaOf(ps, a, "available"), 1 .. n + 1)
         /\ Move(d, p).pending[a] = SumFunctionOnSet(DeltaOf(ps, a, "pending"), 1 .. n + 1)
         /\ Move(d, p).position[a] = SumFunctionOnSet(AmountOf(ps, a), 1 .. n + 1)
    BY <2>2, <2>5, <2>6, <2>7, <2>8, <2>9, MoveType
  <2> QED BY <2>3, <2>10 DEF ps, n
<1>3. DraftInv'
  <2>1. /\ posted'[s] = posted[s] + 1
        /\ \A t \in Session \ {s} : posted'[t] = posted[t] /\ draft'[t] = draft[t]
        /\ job' = job /\ pc' = pc /\ Inserting(s)
    BY DEF IInv, TypeOK, MorePostings, Inserting
  <2> QED BY <1>2, <2>1 DEF DetailInv, DraftInv, Inserting
<1> QED BY <1>1, <1>3 DEF DetailInv

\* A session that ends without committing, or waits, leaves the rest as it is.
LEMMA QuietDetail ==
  ASSUME IInv, DetailInv, NEW s \in Session, UNCHANGED ledgerVars,
         \A t \in Session \ {s} : /\ pc'[t] = pc[t] /\ job'[t] = job[t]
                                /\ posted'[t] = posted[t] /\ draft'[t] = draft[t],
         \/ pc'[s] = "idle" /\ draft'[s] = NoChange
         \/ pc[s] \in {"begun", "posting"} /\ pc'[s] \in {"posting", "refused"}
            /\ job'[s] = job[s] /\ posted'[s] = posted[s] /\ draft'[s] = draft[s]
  PROVE  DetailInv'
<1>1. ClearInv'
  BY DEF DetailInv, ClearInv, Exists, ledgerVars
<1>2. ShapeInv'
  <2> SUFFICES ASSUME NEW t \in Session, pc'[t] # "idle" PROVE Shape(job[t])'
    BY DEF ShapeInv, Idle
  <2>1. job'[t] = job[t] /\ pc[t] # "idle" /\ entries' = entries
    BY DEF ledgerVars
  <2>2. Shape(job[t])
    BY <2>1 DEF DetailInv, ShapeInv, Idle
  <2> QED BY <2>1, <2>2 DEF Shape
<1>3. DraftInv'
  <2>1. ASSUME pc[s] = "begun"
        PROVE  \A f : SumFunctionOnSet(f, 1 .. posted[s]) = 0
    <3>1. posted[s] = 0
      BY <2>1 DEF IInv, JobInv, Inserting
    <3> QED BY <3>1, SumEmpty
  <2>2. CASE pc[s] = "begun"
    <3>1. draft[s] = NoChange
      BY <2>2 DEF DetailInv, DraftInv, Inserting
    <3> QED BY <2>1, <2>2, <3>1, NoChangeType DEF DetailInv, DraftInv, Inserting
  <2>3. CASE pc[s] # "begun"
    BY <2>3 DEF DetailInv, DraftInv, Inserting
  <2> QED BY <2>2, <2>3
<1> QED BY <1>1, <1>2, <1>3 DEF DetailInv

\* What COMMIT writes, in the words of the abstract ledger.
LEMMA CommitFacts ==
  ASSUME IInv, DetailInv, NEW s \in Session, Commit(s),
         NEW j, NEW k, NEW ps, j = job[s], k = j.key, ps = j.postings
  PROVE  /\ j \in Job /\ k \in Key /\ ps \in Seq(Posting)
         /\ GoodJob(j) /\ Shape(j) /\ ~Exists(k)
         /\ entries' = [entries EXCEPT ![k] = ps]
         /\ transfers'[k] = [kind |-> j.kind, status |-> j.status]
         /\ \A other \in Key : other # k /\ ~(j.clears /\ other = Own(k[1]))
                               => transfers'[other] = transfers[other]
         /\ j.clears =>
              /\ k = OfframpKey(k[1]) /\ Own(k[1]) # k
              /\ transfers[Own(k[1])] = [kind |-> "deposit", status |-> "pending"]
              /\ transfers'[Own(k[1])] = [kind |-> "deposit", status |-> "confirmed"]
         /\ headroom' = [a \in Account |-> headroom[a] + Atomic!Effect(ps, a, "available")]
         /\ pending' = [a \in Account |-> pending[a] + Atomic!Effect(ps, a, "pending")]
         /\ position' = [a \in Account |-> position[a] + Atomic!Sum(ps, a)]
<1>1. /\ j \in Job /\ k \in Key /\ ps \in Seq(Posting)
      /\ GoodJob(j) /\ Inserting(s) /\ ~Exists(k)
  BY DEF IInv, Commit, JobInv, GoodJob, Job, Idle, Inserting, KeyInv
<1>2. Shape(j)
  BY DEF DetailInv, ShapeInv, Commit, Idle
<1>3. SubSeq(ps, 1, posted[s]) = ps /\ DOMAIN ps = 1 .. posted[s]
  BY <1>1, SubSeqFull DEF Commit
<1>4. entries' = [entries EXCEPT ![k] = ps]
  BY <1>3 DEF Commit
<1>5. j.clears => /\ k = OfframpKey(k[1]) /\ Own(k[1]) # k /\ Own(k[1]) \in Key
                  /\ transfers[Own(k[1])].kind = "deposit"
  BY <1>1 DEF GoodJob, Key, Own, OfframpKey
<1>6. /\ transfers'[k] = [kind |-> j.kind, status |-> j.status]
      /\ \A other \in Key : other # k /\ ~(j.clears /\ other = Own(k[1]))
                              => transfers'[other] = transfers[other]
      /\ j.clears => transfers'[Own(k[1])] = [kind |-> "deposit", status |-> "confirmed"]
  BY <1>1, <1>5 DEF Commit, StatusWrites
<1>7. j.clears => transfers[Own(k[1])] = [kind |-> "deposit", status |-> "pending"]
  <2> SUFFICES ASSUME j.clears
               PROVE  transfers[Own(k[1])] = [kind |-> "deposit", status |-> "pending"]
    OBVIOUS
  <2>1. k[1] \in BaseKey
    BY <1>1, KeyParts
  <2>2. transfers[Own(k[1])].status = "pending"
    BY <1>1, <1>5, <2>1 DEF DetailInv, ClearInv
  <2>3. transfers[Own(k[1])] \in [kind : Kind, status : TransferStatus]
    BY <1>5, KeyParts DEF IInv, TypeOK, NoTransfer
  <2> QED BY <1>5, <2>2, <2>3
<1>8. ASSUME NEW a \in Account
      PROVE  /\ draft[s].headroom[a] = Atomic!Effect(ps, a, "available")
             /\ draft[s].pending[a] = Atomic!Effect(ps, a, "pending")
             /\ draft[s].position[a] = Atomic!Sum(ps, a)
  <2>1. /\ draft[s].headroom[a] = SumFunctionOnSet(DeltaOf(ps, a, "available"), 1 .. posted[s])
        /\ draft[s].pending[a] = SumFunctionOnSet(DeltaOf(ps, a, "pending"), 1 .. posted[s])
        /\ draft[s].position[a] = SumFunctionOnSet(AmountOf(ps, a), 1 .. posted[s])
    BY <1>1 DEF DetailInv, DraftInv
  <2> QED BY <1>3, <2>1, AtomicSums
<1>9. /\ headroom' = [a \in Account |-> headroom[a] + draft[s].headroom[a]]
      /\ pending' = [a \in Account |-> pending[a] + draft[s].pending[a]]
      /\ position' = [a \in Account |-> position[a] + draft[s].position[a]]
  BY DEF Commit
<1>10. /\ headroom' = [a \in Account |-> headroom[a] + Atomic!Effect(ps, a, "available")]
       /\ pending' = [a \in Account |-> pending[a] + Atomic!Effect(ps, a, "pending")]
       /\ position' = [a \in Account |-> position[a] + Atomic!Sum(ps, a)]
  BY <1>8, <1>9
<1> QED BY <1>1, <1>2, <1>4, <1>5, <1>6, <1>7, <1>10

LEMMA CommitDetail ==
  ASSUME IInv, DetailInv, NEW s \in Session, Commit(s)
  PROVE  DetailInv'
<1> DEFINE j == job[s]
           k == j.key
           ps == j.postings
<1> HIDE DEF j, k, ps
<1>1. /\ j \in Job /\ k \in Key /\ ps \in Seq(Posting)
      /\ GoodJob(j) /\ Shape(j) /\ ~Exists(k)
      /\ entries' = [entries EXCEPT ![k] = ps]
      /\ transfers'[k] = [kind |-> j.kind, status |-> j.status]
      /\ \A other \in Key : other # k /\ ~(j.clears /\ other = Own(k[1]))
                            => transfers'[other] = transfers[other]
      /\ j.clears => k = OfframpKey(k[1]) /\ Own(k[1]) # k
  <2>1. j = job[s] /\ k = j.key /\ ps = j.postings
    BY DEF j, k, ps
  <2> QED BY <2>1, CommitFacts
<1>2. ShapeInv'
  <2> SUFFICES ASSUME NEW t \in Session, pc'[t] # "idle" PROVE Shape(job[t])'
    BY DEF ShapeInv, Idle
  <2>1. job' = job /\ pc[t] # "idle"
    BY DEF Commit, EndTransaction, IInv, TypeOK
  <2>2. Shape(job[t]) /\ GoodJob(job[t])
    BY <2>1 DEF IInv, JobInv, DetailInv, ShapeInv, Idle
  <2>3. job[t].clears => entries'[Own(job[t].key[1])] = entries[Own(job[t].key[1])]
    <3> SUFFICES ASSUME job[t].clears
                 PROVE  entries'[Own(job[t].key[1])] = entries[Own(job[t].key[1])]
      OBVIOUS
    <3>1. Own(job[t].key[1]) \in Key
      BY <2>2, KeyParts DEF GoodJob, Job
    <3>2. Exists(Own(job[t].key[1]))
      BY <2>2 DEF GoodJob, Exists, NoTransfer
    <3> QED BY <1>1, <3>1, <3>2 DEF IInv, TypeOK
  <2> QED BY <2>1, <2>2, <2>3 DEF Shape
<1>3. DraftInv'
  <2>1. \A t \in Session \ {s} : /\ pc'[t] = pc[t] /\ job'[t] = job[t]
                                /\ posted'[t] = posted[t] /\ draft'[t] = draft[t]
    BY DEF Commit, EndTransaction, IInv, TypeOK
  <2>2. pc'[s] = "committed" /\ draft'[s] = NoChange
    BY DEF Commit, EndTransaction, IInv, TypeOK
  <2> QED BY <2>1, <2>2 DEF DetailInv, DraftInv, Inserting
<1>4. ClearInv'
  <2> SUFFICES ASSUME NEW b \in BaseKey, transfers'[Own(b)].kind = "deposit"
               PROVE  transfers'[Own(b)].status = "pending" \/ Exists(OfframpKey(b))'
    BY DEF ClearInv
  <2>1. Own(b) \in Key /\ OfframpKey(b) \in Key /\ Own(b) # OfframpKey(b)
    BY KeyParts
  <2>2. \A x \in Key : Exists(x) => Exists(x)'
    BY CommitAppends
  <2>3. CASE Own(b) = k
    <3>1. j.kind = "deposit"
      BY <1>1, <2>3
    <3> QED BY <1>1, <2>3, <3>1 DEF Shape
  <2>4. CASE j.clears /\ Own(b) = Own(k[1]) /\ Own(b) # k
    <3>1. k = OfframpKey(b)
      BY <1>1, <2>4 DEF Own
    <3> QED BY <1>1, <3>1, NotATransfer DEF Exists, NoTransfer, Job, Kind
  <2>5. CASE Own(b) # k /\ ~(j.clears /\ Own(b) = Own(k[1]))
    <3>1. transfers'[Own(b)] = transfers[Own(b)]
      BY <1>1, <2>1, <2>5
    <3> QED BY <2>1, <2>2, <3>1 DEF DetailInv, ClearInv
  <2> QED BY <2>3, <2>4, <2>5
<1> QED BY <1>2, <1>3, <1>4 DEF DetailInv

LEMMA DetailNext ==
  ASSUME IInv, DetailInv, [Next]_vars
  PROVE  DetailInv'
<1>1. CASE UNCHANGED vars
  BY <1>1 DEF DetailInv, ShapeInv, DraftInv, ClearInv, Shape, Idle, Inserting, Exists,
              vars, ledgerVars, sessionVars
<1>2. ASSUME NEW s \in Session, Step(s) PROVE DetailInv'
  <2>1. CASE PostEntry(s)
    BY <2>1, PostDetail DEF PostEntry
  <2>2. CASE PostWithBalance(s)
    BY <2>2, PostDetail DEF PostWithBalance
  <2>3. CASE Commit(s)
    BY <2>3, CommitDetail
  <2>4. CASE InsertTransfer(s)
    BY <2>4, QuietDetail DEF InsertTransfer, IInv, TypeOK
  <2>5. CASE RefuseSpend(s)
    BY <2>5, QuietDetail DEF RefuseSpend, MorePostings, IInv, TypeOK
  <2>6. CASE Rollback(s)
    BY <2>6, QuietDetail DEF Rollback, EndTransaction, IInv, TypeOK
  <2>7. CASE ReplayTransfer(s)
    <3>1. draft[s] = NoChange
      BY <2>7 DEF ReplayTransfer, DetailInv, DraftInv, Inserting
    <3> QED BY <2>7, <3>1, QuietDetail DEF ReplayTransfer, IInv, TypeOK
  <2>8. CASE Reply(s)
    <3>1. draft[s] = NoChange
      BY <2>8 DEF Reply, DetailInv, DraftInv, Inserting
    <3> QED BY <2>8, <3>1, QuietDetail DEF Reply, IInv, TypeOK
  <2> QED BY <1>2, <2>1, <2>2, <2>3, <2>4, <2>5, <2>6, <2>7, <2>8 DEF Step
<1>3. ASSUME NEW s \in Session, Crash(s) PROVE DetailInv'
  BY <1>3, QuietDetail DEF Crash, EndTransaction, IInv, TypeOK
<1> QED BY <1>1, <1>2, <1>3, CallDetail DEF Next

LEMMA CommitRefines ==
  ASSUME IInv, IInv', DetailInv, NEW s \in Session, Commit(s)
  PROVE  Atomic!Transfer(job[s].key)
<1> DEFINE j == job[s]
           k == j.key
           ps == j.postings
<1> HIDE DEF j, k, ps
<1>1. /\ j \in Job /\ k \in Key /\ ps \in Seq(Posting)
      /\ Shape(j) /\ ~Exists(k)
      /\ entries' = [entries EXCEPT ![k] = ps]
      /\ transfers'[k] = [kind |-> j.kind, status |-> j.status]
      /\ \A other \in Key : other # k /\ ~(j.clears /\ other = Own(k[1]))
                            => transfers'[other] = transfers[other]
      /\ j.clears =>
           /\ transfers[Own(k[1])] = [kind |-> "deposit", status |-> "pending"]
           /\ transfers'[Own(k[1])] = [kind |-> "deposit", status |-> "confirmed"]
      /\ headroom' = [a \in Account |-> headroom[a] + Atomic!Effect(ps, a, "available")]
      /\ pending' = [a \in Account |-> pending[a] + Atomic!Effect(ps, a, "pending")]
      /\ position' = [a \in Account |-> position[a] + Atomic!Sum(ps, a)]
  <2>1. j = job[s] /\ k = j.key /\ ps = j.postings
    BY DEF j, k, ps
  <2> QED BY <2>1, CommitFacts
<1>2. entries'[k] = ps
  BY <1>1 DEF IInv, TypeOK
<1>3. transfers[k] = NoTransfer /\ transfers'[k] # NoTransfer
  BY <1>1 DEF Exists, NoTransfer, Job, Kind
<1>4. \A a \in Account : headroom'[a] >= 0
  BY DEF IInv, GuardInv, NoOverdraft
<1>5. ps # << >> /\ Atomic!Balanced(ps) /\ (j.clears <=> j.kind = "offramp")
  BY <1>1 DEF Shape, ps
<1>6. transfers'[k].kind = "offramp" => Atomic!Clears(k, ps)
  <2> SUFFICES ASSUME j.clears PROVE Atomic!Clears(k, ps)
    BY <1>1, <1>5
  <2>1. \A a \in Account : Atomic!Effect(ps, a, "pending")
                            = -Atomic!Effect(entries[Own(k[1])], a, "pending")
    BY <1>1 DEF Shape, ps, k
  <2> QED BY <1>1, <2>1 DEF Atomic!Clears
<1>7. \A other \in Key \ {k} :
        \/ transfers'[other] = transfers[other]
        \/ transfers'[k].kind = "offramp" /\ other = Own(k[1])
  BY <1>1, <1>5
<1>8. Atomic!Transfer(k)
  BY <1>1, <1>2, <1>3, <1>4, <1>5, <1>6, <1>7 DEF Atomic!Transfer
<1> QED BY <1>8 DEF j, k

\* The detailed invariant holds of every behaviour.
LEMMA DetailAlways == Spec => []DetailInv
<1>1. Init => DetailInv
  BY DetailInit
<1>2. IInv /\ DetailInv /\ [Next]_vars => DetailInv'
  BY DetailNext
<1> QED BY <1>1, <1>2, Invariance, PTL DEF Spec

\* A step that is no COMMIT leaves the ledger as it is.
LEMMA OnlyCommitWrites ==
  ASSUME [Next]_vars, \A s \in Session : ~Commit(s)
  PROVE  UNCHANGED ledgerVars
<1>1. CASE UNCHANGED vars
  BY <1>1 DEF vars, ledgerVars
<1>2. CASE Next
  <2>1. PICK s \in Session : Call(s) \/ Step(s) \/ Crash(s)
    BY <1>2 DEF Next
  <2> QED BY <2>1 DEF Call, Step, RecordDeposit, ConfirmOfframp, ConfirmOfframpConverted,
         CreatePayout, Begin, InsertTransfer, ReplayTransfer, PostEntry, PostWithBalance,
         RefuseSpend, Rollback, Reply, Crash
<1> QED BY <1>1, <1>2

\* The concurrent ledger implements the atomic one: whatever sessions race,
\* crash and retry, every COMMIT is one whole transfer under a key used never
\* before, balanced and covered, and nothing else changes the ledger.
THEOREM Refinement == Spec => ImplementsAtomicLedger
<1>1. Init => Atomic!Init
  BY DEF Init, Atomic!Init, Flat
<1>2. IInv /\ IInv' /\ DetailInv /\ [Next]_vars => [Atomic!Next]_(Atomic!vars)
  <2> SUFFICES ASSUME IInv, IInv', DetailInv, [Next]_vars
               PROVE  [Atomic!Next]_(Atomic!vars)
    OBVIOUS
  <2>1. CASE \E s \in Session : Commit(s)
    <3>1. PICK s \in Session : Commit(s)
      BY <2>1
    <3>2. Atomic!Transfer(job[s].key)
      BY <3>1, CommitRefines
    <3>3. job[s].key \in Key
      BY <3>1 DEF IInv, Commit, JobInv, GoodJob, Job, Idle
    <3> QED BY <3>2, <3>3 DEF Atomic!Next
  <2>2. CASE \A s \in Session : ~Commit(s)
    <3>1. UNCHANGED ledgerVars
      BY <2>2, OnlyCommitWrites
    <3> QED BY <3>1 DEF ledgerVars, Atomic!vars
  <2> QED BY <2>1, <2>2
<1>3. ImplementsAtomicLedger <=> Atomic!Init /\ [][Atomic!Next]_(Atomic!vars)
  BY PTL DEF ImplementsAtomicLedger, Atomic!Spec
<1> QED BY <1>1, <1>2, <1>3, Invariance, DetailAlways, PTL DEF Spec
-----------------------------------------------------------------------------
(* The pending bucket.                                                      *)

\* What each deposit still waiting for its off-ramp holds of a client.
OpenOf(u) ==
  [k \in BaseKey |->
     IF transfers[Own(k)] = [kind |-> "deposit", status |-> "pending"]
     THEN Atomic!Effect(entries[Own(k)], u, "pending") ELSE 0]

\* The effect of a list on a bucket is an integer.
LEMMA EffectType ==
  ASSUME NEW es \in Seq(Posting), NEW a, NEW b
  PROVE  Atomic!Effect(es, a, b) \in Int
<1> DEFINE f == DeltaOf(es, a, b)
<1>1. Atomic!Effect(es, a, b) = SumFunctionOnSet(f, DOMAIN es)
  BY AtomicSums
<1>2. IsFiniteSet(DOMAIN es) /\ \A i \in DOMAIN es : f[i] \in Int
  BY TermsAreInt, FS_Interval
<1> HIDE DEF f
<1> QED BY <1>1, <1>2, SumInt

LEMMA OpenType ==
  ASSUME IInv, NEW u
  PROVE  \A k \in BaseKey : OpenOf(u)[k] \in Int
BY EffectType, KeyParts DEF IInv, TypeOK, OpenOf

LEMMA CommitPending ==
  ASSUME IInv, IInv', DetailInv, PendingIsOpenDeposits, NEW s \in Session, Commit(s)
  PROVE  PendingIsOpenDeposits'
<1> DEFINE j == job[s]
           k == j.key
           ps == j.postings
<1> HIDE DEF j, k, ps
<1>1. /\ j \in Job /\ k \in Key /\ ps \in Seq(Posting)
      /\ GoodJob(j) /\ Shape(j) /\ ~Exists(k)
      /\ entries' = [entries EXCEPT ![k] = ps]
      /\ transfers'[k] = [kind |-> j.kind, status |-> j.status]
      /\ \A other \in Key : other # k /\ ~(j.clears /\ other = Own(k[1]))
                            => transfers'[other] = transfers[other]
      /\ j.clears =>
           /\ k = OfframpKey(k[1]) /\ Own(k[1]) # k
           /\ transfers[Own(k[1])] = [kind |-> "deposit", status |-> "pending"]
           /\ transfers'[Own(k[1])] = [kind |-> "deposit", status |-> "confirmed"]
      /\ pending' = [a \in Account |-> pending[a] + Atomic!Effect(ps, a, "pending")]
  <2>1. j = job[s] /\ k = j.key /\ ps = j.postings
    BY DEF j, k, ps
  <2> QED BY <2>1, CommitFacts
<1>2. k[1] \in BaseKey
  BY <1>1, KeyParts
<1> SUFFICES ASSUME NEW u \in UserAccount
             PROVE  pending'[u] = SumFunctionOnSet(OpenOf(u)', BaseKey)
  BY DEF PendingIsOpenDeposits, OpenOf, SumFunction
<1> DEFINE f == OpenOf(u)
           g == OpenOf(u)'
           gain == Atomic!Effect(ps, u, "pending")
<1>3. pending[u] = SumFunctionOnSet(f, BaseKey) /\ pending'[u] = pending[u] + gain
      /\ gain \in Int /\ u \in Account
  <2>1. u \in Account
    BY AccountKinds
  <2>2. gain \in Int
    BY <1>1, EffectType
  <2> QED BY <1>1, <2>1, <2>2 DEF PendingIsOpenDeposits, OpenOf, SumFunction
<1>4. \A b \in BaseKey : f[b] \in Int /\ g[b] \in Int
  <2>1. \A b \in BaseKey : f[b] \in Int
    BY OpenType
  <2>2. \A b \in BaseKey : g[b] \in Int
    <3> SUFFICES ASSUME NEW b \in BaseKey PROVE g[b] \in Int
      OBVIOUS
    <3>1. entries'[Own(b)] \in Seq(Posting)
      BY KeyParts DEF IInv, TypeOK
    <3>2. Atomic!Effect(entries'[Own(b)], u, "pending") \in Int
      BY <3>1, EffectType
    <3> QED BY <3>2 DEF OpenOf
  <2> QED BY <2>1, <2>2
<1>5. ASSUME NEW b \in BaseKey, b # k[1]
      PROVE  f[b] = g[b]
  <2>1. Own(b) \in Key /\ Own(b) # k /\ Own(b) # Own(k[1])
    BY <1>5, KeyParts DEF Own
  <2>2. transfers'[Own(b)] = transfers[Own(b)] /\ entries'[Own(b)] = entries[Own(b)]
    BY <1>1, <2>1 DEF IInv, TypeOK
  <2> QED BY <2>2 DEF OpenOf
<1>6. g[k[1]] - f[k[1]] = gain
  <2> DEFINE d == Own(k[1])
             Before == transfers[d] = [kind |-> "deposit", status |-> "pending"]
             After == transfers'[d] = [kind |-> "deposit", status |-> "pending"]
             was == Atomic!Effect(entries[d], u, "pending")
             is == Atomic!Effect(entries'[d], u, "pending")
  <2>1. f[k[1]] = (IF Before THEN was ELSE 0) /\ g[k[1]] = (IF After THEN is ELSE 0)
    BY <1>2 DEF OpenOf
  <2>2. d \in Key /\ was \in Int /\ is \in Int
    <3>1. d \in Key
      BY <1>2, KeyParts
    <3>2. entries[d] \in Seq(Posting) /\ entries'[d] \in Seq(Posting)
      BY <3>1 DEF IInv, TypeOK
    <3> QED BY <3>1, <3>2, EffectType
  <2>3. CASE j.clears
    <3>1. gain = -was
      BY <1>1, <1>3, <2>3 DEF Shape, ps, k
    <3>2. Before /\ ~After
      BY <1>1, <2>3
    <3> HIDE DEF f, g, gain, was, is, Before, After
    <3> QED BY <1>3, <2>1, <2>2, <3>1, <3>2
  <2>4. CASE ~j.clears /\ d = k
    <3>1. ~Before
      BY <1>1, <2>4 DEF Exists, NoTransfer
    <3>2. is = gain
      BY <1>1, <2>4 DEF IInv, TypeOK
    <3>3. CASE j.kind = "deposit"
      <4>1. After
        BY <1>1, <2>4, <3>3 DEF Shape
      <4> HIDE DEF f, g, gain, was, is, Before, After
      <4> QED BY <1>3, <2>1, <2>2, <3>1, <3>2, <4>1
    <3>4. CASE j.kind = "payout"
      <4>1. ~After
        BY <1>1, <2>4, <3>4
      <4>2. gain = 0
        BY <1>1, <1>3, <3>4 DEF Shape, ps
      <4> HIDE DEF f, g, gain, was, is, Before, After
      <4> QED BY <2>1, <3>1, <4>1, <4>2
    <3> QED BY <1>1, <2>4, <3>3, <3>4 DEF Shape, Job, Kind
  <2>5. CASE ~j.clears /\ d # k
    <3>1. k[2] # "own"
      BY <1>1, <2>5 DEF Own, Key
    <3>2. j.kind = "payout"
      BY <1>1, <2>5, <3>1 DEF Shape, Job, Kind, k
    <3>3. gain = 0
      BY <1>1, <1>3, <3>2 DEF Shape, ps
    <3>4. f[k[1]] = g[k[1]]
      <4>1. transfers'[d] = transfers[d] /\ entries'[d] = entries[d]
        BY <1>1, <2>2, <2>5 DEF IInv, TypeOK
      <4> QED BY <1>2, <4>1 DEF OpenOf
    <3>5. g[k[1]] \in Int
      BY <1>2, <1>4
    <3> QED BY <3>3, <3>4, <3>5
  <2> QED BY <2>3, <2>4, <2>5
<1> HIDE DEF f, g, gain
<1>7. SumFunctionOnSet(g, BaseKey) = SumFunctionOnSet(f, BaseKey) + (g[k[1]] - f[k[1]])
  BY <1>2, <1>4, <1>5, SumChange, FiniteKeys
<1>8. pending'[u] = SumFunctionOnSet(g, BaseKey)
  BY <1>3, <1>6, <1>7
<1> QED BY <1>8 DEF g

\* The pending bucket of every client is exactly its deposits still waiting
\* for their off-ramp: racing confirmations clear a deposit once, and none
\* clears what another caller has booked.
THEOREM PendingMatchesDeposits == Spec => []PendingIsOpenDeposits
<1>1. Init => PendingIsOpenDeposits
  <2> SUFFICES ASSUME Init, NEW u \in UserAccount
               PROVE  pending[u] = SumFunctionOnSet(OpenOf(u), BaseKey)
    BY DEF PendingIsOpenDeposits, OpenOf, SumFunction
  <2>1. pending[u] = 0
    BY AccountKinds DEF Init, Flat
  <2>2. \A k \in BaseKey : OpenOf(u)[k] = 0
    BY KeyParts DEF Init, OpenOf, NoTransfer
  <2> QED BY <2>1, <2>2, SumZero, FiniteKeys
<1>2. IInv /\ IInv' /\ DetailInv /\ PendingIsOpenDeposits /\ [Next]_vars
        => PendingIsOpenDeposits'
  <2> SUFFICES ASSUME IInv, IInv', DetailInv, PendingIsOpenDeposits, [Next]_vars,
                      \A s \in Session : ~Commit(s)
               PROVE  PendingIsOpenDeposits'
    BY CommitPending
  <2>1. UNCHANGED ledgerVars
    BY OnlyCommitWrites
  <2> QED BY <2>1 DEF PendingIsOpenDeposits, ledgerVars
<1> QED BY <1>1, <1>2, Invariance, DetailAlways, PTL DEF Spec
-----------------------------------------------------------------------------
(* The event of a payout.                                                   *)

\* A payout's event is emitted by the one session that committed it: until it
\* has, nothing was announced under its key.
AnnouncedInv ==
  /\ \A k \in Key : announced[k] = 0 \/ (announced[k] = 1 /\ transfers[k].kind = "payout")
  /\ \A s \in Session : pc[s] = "committed" =>
       /\ transfers[job[s].key].kind = job[s].kind
       /\ job[s].kind = "payout" => announced[job[s].key] = 0
  /\ \A s, t \in Session :
       pc[s] = "committed" /\ pc[t] = "committed" /\ job[s].key = job[t].key => s = t

\* What a step of s that neither commits nor replies does to the others.
LEMMA QuietAnnounced ==
  ASSUME IInv, AnnouncedInv, NEW s \in Session, UNCHANGED <<transfers, announced>>,
         \A t \in Session \ {s} : pc'[t] = pc[t] /\ job'[t] = job[t],
         pc'[s] # "committed"
  PROVE  AnnouncedInv'
BY DEF AnnouncedInv

LEMMA CommitAnnounced ==
  ASSUME IInv, AnnouncedInv, NEW s \in Session, Commit(s)
  PROVE  AnnouncedInv'
<1> DEFINE k == job[s].key
<1>1. k \in Key /\ ~Exists(k) /\ Inserting(s) /\ GoodJob(job[s])
  BY DEF IInv, Commit, JobInv, GoodJob, Job, Idle, Inserting, KeyInv
<1>2. announced[k] = 0
  BY <1>1 DEF AnnouncedInv, Exists, NoTransfer
<1>3. transfers'[k].kind = job[s].kind
  BY <1>1 DEF Commit, StatusWrites
<1>4. \A other \in Key : other # k => transfers'[other].kind = transfers[other].kind
  BY <1>1, NotATransfer DEF Commit, StatusWrites
<1>5. \A t \in Session : pc'[t] = "committed" /\ t # s => pc[t] = "committed"
  BY DEF Commit, EndTransaction, IInv, TypeOK
<1>6. job' = job /\ announced' = announced
  BY DEF Commit
<1>7. ASSUME NEW t \in Session, pc[t] = "committed"
      PROVE  job[t].key \in Key /\ job[t].key # k
  <2>1. job[t] \in Job
    BY <1>7 DEF IInv, JobInv, GoodJob, Idle
  <2>2. transfers[job[t].key].kind = job[t].kind
    BY <1>7 DEF AnnouncedInv
  <2> QED BY <1>1, <2>1, <2>2 DEF Exists, NoTransfer, Job, Kind
<1>8. \A other \in Key :
        announced[other] = 0 \/ (announced[other] = 1 /\ transfers'[other].kind = "payout")
  BY <1>2, <1>4 DEF AnnouncedInv
<1>9. ASSUME NEW t \in Session, pc'[t] = "committed"
      PROVE  /\ transfers'[job[t].key].kind = job[t].kind
             /\ job[t].kind = "payout" => announced[job[t].key] = 0
  <2>1. CASE t = s
    BY <1>2, <1>3, <2>1
  <2>2. CASE t # s
    BY <1>4, <1>5, <1>7, <1>9, <2>2 DEF AnnouncedInv
  <2> QED BY <2>1, <2>2
<1>10. ASSUME NEW t \in Session, NEW v \in Session, pc'[t] = "committed",
              pc'[v] = "committed", job[t].key = job[v].key
       PROVE  t = v
  BY <1>5, <1>7, <1>10 DEF AnnouncedInv
<1> QED BY <1>6, <1>8, <1>9, <1>10 DEF AnnouncedInv

LEMMA ReplyAnnounced ==
  ASSUME IInv, AnnouncedInv, NEW s \in Session, Reply(s)
  PROVE  AnnouncedInv'
<1> DEFINE k == job[s].key
<1>1. job[s] \in Job /\ k \in Key
  BY DEF IInv, Reply, JobInv, GoodJob, Job, Idle
<1>2. \A t \in Session \ {s} : pc'[t] = pc[t] /\ job'[t] = job[t]
  BY DEF Reply, IInv, TypeOK
<1>3. transfers' = transfers /\ pc'[s] = "idle" /\ pc[s] = "committed"
  BY DEF Reply, IInv, TypeOK, ledgerVars
<1>4. CASE job[s].kind = "payout"
  <2>1. announced' = [announced EXCEPT ![k] = @ + 1] /\ announced[k] = 0
    BY <1>3, <1>4 DEF Reply, AnnouncedInv
  <2>2. transfers[k].kind = "payout"
    BY <1>3, <1>4 DEF AnnouncedInv
  <2>3. \A t \in Session \ {s} : pc[t] = "committed" => job[t].key # k
    BY <1>3 DEF AnnouncedInv
  <2>4. \A other \in Key : announced'[other] = IF other = k THEN 1 ELSE announced[other]
    BY <1>1, <2>1 DEF IInv, TypeOK
  <2>5. \A other \in Key :
          \/ announced'[other] = 0
          \/ announced'[other] = 1 /\ transfers'[other].kind = "payout"
    BY <1>3, <2>2, <2>4 DEF AnnouncedInv
  <2>6. \A t \in Session \ {s} : pc[t] = "committed" => job[t].key \in Key
    BY DEF IInv, JobInv, GoodJob, Job, Idle
  <2>7. \A t \in Session : pc'[t] = "committed" =>
          /\ t # s /\ pc[t] = "committed" /\ job'[t] = job[t]
          /\ announced'[job[t].key] = announced[job[t].key]
    BY <1>2, <1>3, <2>3, <2>4, <2>6
  <2> QED BY <1>3, <2>5, <2>7 DEF AnnouncedInv
<1>5. CASE job[s].kind # "payout"
  BY <1>2, <1>3, <1>5, QuietAnnounced DEF Reply
<1> QED BY <1>4, <1>5

LEMMA AnnouncedNext ==
  ASSUME IInv, AnnouncedInv, [Next]_vars
  PROVE  AnnouncedInv'
<1>1. CASE UNCHANGED vars
  BY <1>1 DEF AnnouncedInv, vars, ledgerVars, sessionVars
<1>2. ASSUME NEW s \in Session, Call(s) PROVE AnnouncedInv'
  <2>1. PICK j : Begin(s, j)
    BY <1>2 DEF Call, RecordDeposit, ConfirmOfframp, ConfirmOfframpConverted, CreatePayout
  <2> QED BY <2>1, QuietAnnounced DEF Begin, IInv, TypeOK, ledgerVars
<1>3. ASSUME NEW s \in Session, Step(s) PROVE AnnouncedInv'
  <2>1. CASE InsertTransfer(s)
    BY <2>1, QuietAnnounced DEF InsertTransfer, IInv, TypeOK, ledgerVars
  <2>2. CASE ReplayTransfer(s)
    BY <2>2, QuietAnnounced DEF ReplayTransfer, IInv, TypeOK, ledgerVars
  <2>3. CASE PostEntry(s) \/ PostWithBalance(s)
    BY <2>3, QuietAnnounced DEF PostEntry, PostWithBalance, MorePostings, IInv, TypeOK, ledgerVars
  <2>4. CASE RefuseSpend(s)
    BY <2>4, QuietAnnounced DEF RefuseSpend, IInv, TypeOK, ledgerVars
  <2>5. CASE Rollback(s)
    BY <2>5, QuietAnnounced DEF Rollback, EndTransaction, IInv, TypeOK, ledgerVars
  <2> QED BY <1>3, <2>1, <2>2, <2>3, <2>4, <2>5, CommitAnnounced, ReplyAnnounced DEF Step
<1>4. ASSUME NEW s \in Session, Crash(s) PROVE AnnouncedInv'
  BY <1>4, QuietAnnounced DEF Crash, EndTransaction, IInv, TypeOK, ledgerVars
<1> QED BY <1>1, <1>2, <1>3, <1>4 DEF Next

\* A payout is announced at most once and only after its COMMIT, whichever of
\* the callers that race for its key, replay or crash gets to answer.
THEOREM AnnouncedOnce == Spec => []AnnouncedOnceAfterCommit
<1>1. Init => AnnouncedInv
  BY DEF Init, AnnouncedInv
<1>2. IInv /\ AnnouncedInv /\ [Next]_vars => AnnouncedInv'
  BY AnnouncedNext
<1>3. IInv /\ AnnouncedInv => AnnouncedOnceAfterCommit
  BY DEF AnnouncedInv, AnnouncedOnceAfterCommit
<1> QED BY <1>1, <1>2, <1>3, Invariance, PTL DEF Spec
=============================================================================
