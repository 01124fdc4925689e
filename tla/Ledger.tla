------------------------------- MODULE Ledger --------------------------------
(***************************************************************************)
(* The money core (src/domain/ledger.ts) as concurrent Postgres            *)
(* transactions under READ COMMITTED.                                      *)
(*                                                                         *)
(* A session is one withTx() call: it inserts the transfer under its       *)
(* UNIQUE idempotency key, posts the lines one by one, taking the row lock *)
(* of each spend_guards row it moves, and commits or rolls back.  What it  *)
(* wrote is in `draft', seen by nobody else until COMMIT; it waits where   *)
(* Postgres makes it wait: on a key another session has inserted but not   *)
(* committed, and on a locked guard row.                                   *)
(*                                                                         *)
(* position[a] is SUM(entries) of account a, the ledger's own balance of   *)
(* it, kept beside the entries it sums.                                    *)
(***************************************************************************)
EXTENDS Postings, FiniteSets

CONSTANTS
  Session,        \* concurrent withTx() calls
  BaseKey,        \* keys of deposits: chain and transaction hash
  PayoutKey,      \* keys payout callers put in their header
  Destination,    \* accounts a payout names as its destination
  Amount,         \* amounts of deposits, in USDC minor units
  Spend,          \* amounts of payouts, in cents
  Fee,            \* fees of a same-currency confirmation
  FeeBps,         \* the configured off-ramp fee
  PayoutCurrency, \* currencies a payout names
  NoSession

ASSUME LedgerAssumption ==
  /\ NoSession \notin Session
  /\ Destination \subseteq Account
  /\ Amount \subseteq Nat /\ Spend \subseteq Nat /\ Fee \subseteq Nat
  /\ FeeBps \in 0 .. BpsDenominator
  /\ PayoutCurrency \subseteq Currency

\* A deposit key, or the key of the off-ramp of that deposit; a payout's header
\* is any string, so it may be either.
Key == BaseKey \X {"own", "offramp"}
Own(k) == <<k, "own">>
OfframpKey(k) == <<k, "offramp">>

ASSUME PayoutKeyAssumption == PayoutKey \subseteq Key

\* The transfers table has finitely many rows.
ASSUME FiniteKeys == IsFiniteSet(BaseKey)

Kind == {"deposit", "offramp", "payout"}
TransferStatus == {"pending", "confirmed", "failed"}

\* What a caller asks of createBalancedTransfer.  `clears' says that the
\* transfer, once created, confirms the deposit of the same base key.
Job == [key : Key, kind : Kind, status : TransferStatus,
        postings : Seq(Posting), clears : BOOLEAN]

VARIABLES
  transfers,   \* committed transfers by key: kind and status
  entries,     \* committed entries by key of their transfer, never changed
  headroom,    \* spend_guards.headroom_minor, committed
  pending,     \* spend_guards.pending_minor, committed
  position,    \* SUM(entries.amount) per account, committed
  guardLock,   \* who holds the row lock of an account's guard
  pc,          \* where each session is
  job,         \* what it was asked to post
  posted,      \* how many of its postings it has applied
  draft,       \* its uncommitted changes to headroom, pending and position
  announced    \* money.payout.initiated events emitted, per key

ledgerVars  == <<transfers, entries, headroom, pending, position>>
sessionVars == <<guardLock, pc, job, posted, draft>>
vars == <<ledgerVars, sessionVars, announced>>

NoJob == [kind |-> "none"]
NoTransfer == [kind |-> "none", status |-> "absent"]
Exists(k) == transfers[k] # NoTransfer

Flat == [a \in Account |-> 0]
NoChange == [headroom |-> Flat, pending |-> Flat, position |-> Flat]

Idle(s) == pc[s] = "idle"
\* The session that has inserted this key and not ended its transaction.
Inserting(s) == pc[s] \in {"posting", "refused"}
\* Mutant: no UNIQUE index makes a second insert of a key wait.
KeyNeverTaken(k) == FALSE
KeyTaken(k) == \E s \in Session : Inserting(s) /\ job[s].key = k

\* A session's own view of an account's headroom: the committed row plus what
\* it wrote itself.
SeenHeadroom(s, a) == headroom[a] + draft[s].headroom[a]

Init ==
  /\ transfers = [k \in Key |-> NoTransfer]
  /\ entries = [k \in Key |-> << >>]
  /\ headroom = Flat /\ pending = Flat /\ position = Flat
  /\ guardLock = [a \in Account |-> NoSession]
  /\ pc = [s \in Session |-> "idle"]
  /\ job = [s \in Session |-> NoJob]
  /\ posted = [s \in Session |-> 0]
  /\ draft = [s \in Session |-> NoChange]
  /\ announced = [k \in Key |-> 0]
-----------------------------------------------------------------------------
(* Callers: one action per domain operation that opens a transaction.       *)

Begin(s, j) ==
  /\ Idle(s)
  /\ pc' = [pc EXCEPT ![s] = "begun"]
  /\ job' = [job EXCEPT ![s] = j]
  /\ UNCHANGED <<ledgerVars, guardLock, posted, draft, announced>>

RecordDeposit(s) ==
  \E k \in BaseKey, e \in ExternalAccount, u \in UserAccount, n \in Amount :
    /\ n > 0
    /\ Begin(s, [key |-> Own(k), kind |-> "deposit", status |-> "pending",
                 postings |-> DepositPostings(e, u, n, "USDC"), clears |-> FALSE])

\* The deposit a confirmation clears: its user and gross amount are those the
\* deposit booked to pending, which is what both confirmations ask of callers.
Booked(k) == entries[Own(k)][2]
ClearableDeposit(k) == transfers[Own(k)].kind = "deposit"

ConfirmOfframp(s) ==
  \E k \in BaseKey, fee \in Fee :
    /\ ClearableDeposit(k)
    /\ fee < Booked(k).delta
    /\ Begin(s, [key |-> OfframpKey(k), kind |-> "offramp", status |-> "confirmed",
                 postings |-> ConfirmPostings(Booked(k).account, Booked(k).delta,
                                              fee, Booked(k).currency),
                 clears |-> TRUE])

ConfirmOfframpConverted(s) ==
  \E k \in BaseKey :
    /\ ClearableDeposit(k)
    /\ ~QuoteRefused(Booked(k).delta)
    /\ Begin(s, [key |-> OfframpKey(k), kind |-> "offramp", status |-> "confirmed",
                 postings |-> ConvertedPostings(Booked(k).account,
                                 QuoteUsdcToUsd(Booked(k).delta, FeeBps)),
                 clears |-> TRUE])

CreatePayout(s) ==
  \E k \in PayoutKey, u \in ClientAccount, d \in Destination, n \in Spend,
     c \in PayoutCurrency :
    /\ n > 0
    /\ Begin(s, [key |-> k, kind |-> "payout", status |-> "pending",
                 postings |-> PayoutPostings(u, d, n, c), clears |-> FALSE])
-----------------------------------------------------------------------------
(* createBalancedTransfer, statement by statement.                          *)

\* Mutant of the insert: ON CONFLICT DO UPDATE.
UpsertTransfer(s) ==
  /\ pc[s] = "begun"
  /\ ~KeyTaken(job[s].key)
  /\ pc' = [pc EXCEPT ![s] = "posting"]
  /\ UNCHANGED <<ledgerVars, guardLock, job, posted, draft, announced>>

\* INSERT ... ON CONFLICT DO NOTHING wins the key.  While another session
\* has the key inserted and uncommitted, the statement waits for its end.
InsertTransfer(s) ==
  /\ pc[s] = "begun"
  /\ ~KeyTaken(job[s].key)
  /\ ~Exists(job[s].key)
  /\ pc' = [pc EXCEPT ![s] = "posting"]
  /\ UNCHANGED <<ledgerVars, guardLock, job, posted, draft, announced>>

\* Mutant of the replay: the handler takes it for a transfer it created.
ReplayAsCreated(s) ==
  /\ pc[s] = "begun"
  /\ Exists(job[s].key)
  /\ pc' = [pc EXCEPT ![s] = "committed"]
  /\ UNCHANGED <<ledgerVars, guardLock, job, posted, draft, announced>>

\* The key is committed already: read the stored transfer, write nothing.
ReplayTransfer(s) ==
  /\ pc[s] = "begun"
  /\ Exists(job[s].key)
  /\ pc' = [pc EXCEPT ![s] = "idle"]
  /\ job' = [job EXCEPT ![s] = NoJob]
  /\ UNCHANGED <<ledgerVars, guardLock, posted, draft, announced>>

NextPosting(s) == job[s].postings[posted[s] + 1]
MorePostings(s) == pc[s] = "posting" /\ posted[s] < Len(job[s].postings)

Move(d, p) ==
  [ headroom |-> [d.headroom EXCEPT ![p.account] =
                    IF p.bucket = "available" THEN @ + p.delta ELSE @],
    pending  |-> [d.pending EXCEPT ![p.account] =
                    IF p.bucket = "pending" THEN @ + p.delta ELSE @],
    position |-> [d.position EXCEPT ![p.account] = @ + p.amount] ]

IsSpend(p) == p.bucket = "available" /\ p.delta < 0
\* Mutant: the headroom is read without FOR UPDATE.
NoRowLock(s, a) == TRUE
\* The row lock of the guard: held already, or free to take.
CanLock(s, a) == guardLock[a] \in {NoSession, s}
Covered(s, p) == IsSpend(p) => SeenHeadroom(s, p.account) >= -p.delta

\* An entry without a bucket touches no guard row.
PostEntry(s) ==
  /\ MorePostings(s)
  /\ NextPosting(s).bucket = "none"
  /\ draft' = [draft EXCEPT ![s] = Move(@, NextPosting(s))]
  /\ posted' = [posted EXCEPT ![s] = @ + 1]
  /\ UNCHANGED <<ledgerVars, guardLock, pc, job, announced>>

\* An entry with its applyBalance: the guard row is locked (a spend by
\* SELECT ... FOR UPDATE, any other move by its UPDATE) until the transaction
\* ends, and a spend goes through only while the headroom covers it.
PostWithBalance(s) ==
  LET p == NextPosting(s) IN
  /\ MorePostings(s)
  /\ p.bucket # "none"
  /\ CanLock(s, p.account)
  /\ Covered(s, p)
  /\ guardLock' = [guardLock EXCEPT ![p.account] = s]
  /\ draft' = [draft EXCEPT ![s] = Move(@, p)]
  /\ posted' = [posted EXCEPT ![s] = @ + 1]
  /\ UNCHANGED <<ledgerVars, pc, job, announced>>

\* The conditional UPDATE matches no row: InsufficientFundsError.
RefuseSpend(s) ==
  LET p == NextPosting(s) IN
  /\ MorePostings(s)
  /\ p.bucket # "none"
  /\ CanLock(s, p.account)
  /\ ~Covered(s, p)
  /\ guardLock' = [guardLock EXCEPT ![p.account] = s]
  /\ pc' = [pc EXCEPT ![s] = "refused"]
  /\ UNCHANGED <<ledgerVars, job, posted, draft, announced>>

\* The transaction of s ends: its locks fall and it keeps no draft.
EndTransaction(s, next) ==
  /\ guardLock' = [a \in Account |-> IF guardLock[a] = s THEN NoSession ELSE guardLock[a]]
  /\ draft' = [draft EXCEPT ![s] = NoChange]
  /\ posted' = [posted EXCEPT ![s] = 0]
  /\ pc' = [pc EXCEPT ![s] = next]

\* Mutants of the status writes: a status the column does not know; the
\* cleared deposit left pending.
StatusWritesTypo(j) ==
  [k \in Key |-> IF k = j.key THEN [kind |-> j.kind, status |-> "settled"] ELSE transfers[k]]
StatusWritesOwnRow(j) ==
  [k \in Key |-> IF k = j.key THEN [kind |-> j.kind, status |-> j.status] ELSE transfers[k]]

\* The status writes of the transaction: the new row, and setTransferStatus
\* on the deposit it clears.
StatusWrites(j) ==
  [k \in Key |->
     IF k = j.key THEN [kind |-> j.kind, status |-> j.status]
     ELSE IF j.clears /\ k = Own(j.key[1]) 
          THEN [kind |-> transfers[k].kind, status |-> "confirmed"]
     ELSE transfers[k]]

\* COMMIT of a transaction that has posted every line.
Commit(s) ==
  /\ pc[s] = "posting"
  /\ posted[s] = Len(job[s].postings)
  /\ transfers' = StatusWrites(job[s])
  /\ entries' = [entries EXCEPT ![job[s].key] = SubSeq(job[s].postings, 1, posted[s])]
  /\ headroom' = [a \in Account |-> headroom[a] + draft[s].headroom[a]]
  /\ pending' = [a \in Account |-> pending[a] + draft[s].pending[a]]
  /\ position' = [a \in Account |-> position[a] + draft[s].position[a]]
  /\ EndTransaction(s, "committed")
  /\ UNCHANGED <<job, announced>>

\* withTx's ROLLBACK after InsufficientFundsError.
Rollback(s) ==
  /\ pc[s] = "refused"
  /\ EndTransaction(s, "idle")
  /\ job' = [job EXCEPT ![s] = NoJob]
  /\ UNCHANGED <<ledgerVars, announced>>

\* After COMMIT the payout handler emits its event and replies.
Reply(s) ==
  /\ pc[s] = "committed"
  /\ announced' = IF job[s].kind = "payout"
                  THEN [announced EXCEPT ![job[s].key] = @ + 1]
                  ELSE announced
  /\ pc' = [pc EXCEPT ![s] = "idle"]
  /\ job' = [job EXCEPT ![s] = NoJob]
  /\ UNCHANGED <<ledgerVars, guardLock, posted, draft>>

\* The process dies, or a statement fails: Postgres rolls back what is
\* uncommitted; what is committed stays, with no event and no reply.
Crash(s) ==
  /\ ~Idle(s)
  /\ EndTransaction(s, "idle")
  /\ job' = [job EXCEPT ![s] = NoJob]
  /\ UNCHANGED <<ledgerVars, announced>>
-----------------------------------------------------------------------------
Call(s) == \/ RecordDeposit(s) \/ ConfirmOfframp(s)
           \/ ConfirmOfframpConverted(s) \/ CreatePayout(s)

Step(s) == \/ InsertTransfer(s) \/ ReplayTransfer(s)
           \/ PostEntry(s) \/ PostWithBalance(s) \/ RefuseSpend(s)
           \/ Commit(s) \/ Rollback(s) \/ Reply(s)

Next == \E s \in Session : Call(s) \/ Step(s) \/ Crash(s)

Spec == Init /\ [][Next]_vars

\* Postgres queues the waiters of a key or of a row and wakes them in turn,
\* so a session that can run its next statement again and again runs it.
\* Nothing obliges a caller to call.
FairSpec == Spec /\ \A s \in Session : SF_vars(Step(s))
-----------------------------------------------------------------------------
Change == [headroom : [Account -> Int], pending : [Account -> Int],
           position : [Account -> Int]]

\* Every variable has its type; the statuses a row takes are those of the
\* column's comment in 001_init.sql.
TypeOK ==
  /\ transfers \in [Key -> [kind : Kind, status : TransferStatus] \cup {NoTransfer}]
  /\ entries \in [Key -> Seq(Posting)]
  /\ headroom \in [Account -> Int]
  /\ pending \in [Account -> Int]
  /\ position \in [Account -> Int]
  /\ guardLock \in [Account -> Session \cup {NoSession}]
  /\ pc \in [Session -> {"idle", "begun", "posting", "refused", "committed"}]
  /\ job \in [Session -> Job \cup {NoJob}]
  /\ \A s \in Session : job[s] = NoJob <=> Idle(s)
  /\ posted \in [Session -> Nat]
  /\ draft \in [Session -> Change]
  /\ announced \in [Key -> Nat]

\* No interleaving of spends overdraws an account: the headroom a payout was
\* checked against under the row lock is still there when it commits.
NoOverdraft == \A a \in Account : headroom[a] >= 0

\* The reservation counter of a client account is rebuildable from the ledger:
\* headroom + pending = -SUM(entries), what recon's balance-drift check asks.
GuardMatchesEntries ==
  \A a \in ClientAccount : headroom[a] + pending[a] = -position[a]

\* The ledger is append-only: whatever sessions race for a key, the entries
\* committed under it are never replaced or extended.
EntriesAppendOnly ==
  [][\A k \in Key : Exists(k) => Exists(k)' /\ entries'[k] = entries[k]]_vars
=============================================================================
