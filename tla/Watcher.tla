------------------------------- MODULE Watcher -------------------------------
(***************************************************************************)
(* The deposit watcher (src/chain/watcher.ts) and the chain webhook        *)
(* (src/routes/webhooks.ts), the two paths that book the same deposits.    *)
(*                                                                         *)
(* Workers tick: they detect what the chain shows, then credit what is    *)
(* final or deep enough, each deposit in a transaction of its own.  Such a *)
(* transaction is one step: it opens with a write on the deposit's row of  *)
(* chain_events or on its UNIQUE key, and keeps that lock until COMMIT.    *)
(* The conversion is booked here by what it takes from pending; its        *)
(* postings are in Postings and Ledger.                                    *)
(***************************************************************************)
EXTENDS Offramp, SequencesExt

CONSTANTS
  Worker,       \* watcher processes
  Tx,           \* deposits sent to the watched address
  User,
  CreditedUser, \* opts.userAccountId
  ChainAmount,  \* what each deposit moves on chain, in USDC minor units
  WebhookBody,  \* the [user, amount] a webhook may name for each deposit
  Droppable,    \* deposits on a fork the chain may leave before it is final
  ScanLimit,    \* SIGNATURE_SCAN_LIMIT
  BatchLimit,   \* LIMIT of the detected rows one tick reads
  MaxCrashes    \* bound: how often workers die

ASSUME WatcherAssumption ==
  /\ CreditedUser \in User
  /\ ChainAmount \in [Tx -> Nat \ {0}]
  /\ WebhookBody \in [Tx -> SUBSET [user : User, amount : Nat \ {0}]]
  /\ Droppable \subseteq Tx
  /\ ScanLimit \in Nat /\ BatchLimit \in Nat /\ MaxCrashes \in Nat

\* The tables of one database have finitely many rows.
ASSUME FiniteTx == IsFiniteSet(Tx)

VARIABLES
  landed,     \* the signatures of the address, oldest first
  finality,   \* what the chain says of each deposit
  chainEvent, \* chain_events.status
  seen,       \* the rows of chain_events by seen_at
  deposit,    \* the transfer under the deposit's key
  offramps,   \* deposits with an off-ramp transfer
  pending,    \* the users' pending buckets
  fired,      \* calls of the routing hook per deposit
  pc, todo,   \* per worker: where its tick is, what it has yet to look at,
  rooted,     \* and the rows of its batch the chain showed as final
  crashes

chainVars  == <<landed, finality>>
bookVars   == <<chainEvent, seen, deposit, offramps, pending>>
workerVars == <<pc, todo, rooted, crashes>>
vars == <<chainVars, bookVars, fired, workerVars>>

NoDeposit == [status |-> "absent"]

Init ==
  /\ landed = << >> /\ seen = << >>
  /\ finality = [t \in Tx |-> "absent"]
  /\ chainEvent = [t \in Tx |-> "absent"]
  /\ deposit = [t \in Tx |-> NoDeposit]
  /\ offramps = {}
  /\ pending = [u \in User |-> 0]
  /\ fired = [t \in Tx |-> 0]
  /\ pc = [w \in Worker |-> "idle"]
  /\ todo = [w \in Worker |-> << >>]
  /\ rooted = [w \in Worker |-> {}]
  /\ crashes = 0

FirstOf(n, s) == SubSeq(s, 1, IF Len(s) < n THEN Len(s) ELSE n)

\* The entries of s that are in S, in their order (SelectSeq, as a fold).
Only(s, S) == FoldLeft(LAMBDA kept, t : IF t \in S THEN Append(kept, t) ELSE kept, << >>, s)
-----------------------------------------------------------------------------
(* The chain.                                                               *)

Land(t) ==
  /\ finality[t] = "absent"
  /\ finality' = [finality EXCEPT ![t] = "confirmed"]
  /\ landed' = Append(landed, t)
  /\ UNCHANGED <<bookVars, fired, workerVars>>

\* The deposit is under as many confirmations as the watcher asks for.
Deepen(t) ==
  /\ finality[t] = "confirmed"
  /\ finality' = [finality EXCEPT ![t] = "deep"]
  /\ UNCHANGED <<landed, bookVars, fired, workerVars>>

Finalize(t) ==
  /\ finality[t] \in {"confirmed", "deep"}
  /\ finality' = [finality EXCEPT ![t] = "final"]
  /\ UNCHANGED <<landed, bookVars, fired, workerVars>>

\* A fork the chain leaves takes the deposit with it, however deep it is.
Drop(t) ==
  /\ t \in Droppable
  /\ \/ /\ finality[t] = "confirmed"
        /\ finality' = [finality EXCEPT ![t] = "dropped"]
     \/ /\ finality[t] = "deep"
        /\ finality' = [finality EXCEPT ![t] = "reorged"]
  /\ landed' = Only(landed, Tx \ {t})
  /\ UNCHANGED <<bookVars, fired, workerVars>>

\* The node has the transaction, at commitment confirmed or better.
Shown(t) == finality[t] \in {"confirmed", "deep", "final"}
-----------------------------------------------------------------------------
\* Mutant: the key of the deposit dedupes nothing.
KeyAlwaysFree(t) == TRUE
KeyFree(t) == deposit[t] = NoDeposit

\* Mutant: the deposit is booked with the chain's status for it.
BookDepositConfirmed(t, user, amount) ==
  /\ deposit' = [deposit EXCEPT ![t] =
                   [status |-> finality[t], user |-> user, amount |-> amount]]
  /\ UNCHANGED pending

\* recordDeposit under the key both paths derive; who comes second is a no-op.
BookDeposit(t, user, amount) ==
  IF KeyFree(t)
  THEN /\ deposit' = [deposit EXCEPT ![t] =
                        [status |-> "pending", user |-> user, amount |-> amount]]
       /\ pending' = [pending EXCEPT ![user] = @ + amount]
  ELSE UNCHANGED <<deposit, pending>>

\* POST /webhooks/chain, its signature and timestamp verified.
Webhook(t) ==
  /\ finality[t] # "absent"
  /\ \E b \in WebhookBody[t] : BookDeposit(t, b.user, b.amount)
  /\ UNCHANGED <<chainVars, chainEvent, seen, offramps, fired, workerVars>>
-----------------------------------------------------------------------------
(* detectDeposits.                                                          *)

\* Mutant: the newest signatures down to the first one known.
NewestUnknown ==
  LET newest == FirstOf(ScanLimit, Reverse(landed))
      known == { i \in DOMAIN newest : chainEvent[newest[i]] # "absent" }
  IN  IF known = {} THEN newest ELSE SubSeq(newest, 1, Min(known) - 1)

\* The newest signatures of the address, less those already in chain_events.
Candidates ==
  Only(FirstOf(ScanLimit, Reverse(landed)), { t \in Tx : chainEvent[t] = "absent" })

Scan(w) ==
  /\ pc[w] = "idle"
  /\ todo' = [todo EXCEPT ![w] = Candidates]
  /\ pc' = [pc EXCEPT ![w] = "detect"]
  /\ UNCHANGED <<chainVars, bookVars, fired, rooted, crashes>>

Advance(w, next) ==
  /\ todo' = [todo EXCEPT ![w] = Tail(@)]
  /\ pc' = [pc EXCEPT ![w] = next]
  /\ UNCHANGED <<rooted, crashes>>

\* Mutant: the event and the deposit are two transactions, and the second fails.
DetectEventOnly(w) ==
  LET t == Head(todo[w]) IN
  /\ pc[w] = "detect" /\ todo[w] # << >>
  /\ Shown(t)
  /\ chainEvent[t] = "absent"
  /\ chainEvent' = [chainEvent EXCEPT ![t] = "detected"]
  /\ seen' = Append(seen, t)
  /\ Advance(w, "detect")
  /\ UNCHANGED <<chainVars, deposit, pending, offramps, fired>>

\* The insert of the event wins and the deposit is booked with it.
DetectDeposit(w) ==
  \E t \in Tx :
    /\ pc[w] = "detect" /\ todo[w] # << >> /\ t = Head(todo[w])
    /\ Shown(t)
    /\ chainEvent[t] = "absent"
    /\ chainEvent' = [chainEvent EXCEPT ![t] = "detected"]
    /\ seen' = Append(seen, t)
    /\ BookDeposit(t, CreditedUser, ChainAmount[t])
    /\ Advance(w, "detect")
    /\ UNCHANGED <<chainVars, offramps, fired>>

\* Another worker inserted it, the node does not have it, or a call failed:
\* left for the next tick.
SkipSignature(w) ==
  /\ pc[w] = "detect" /\ todo[w] # << >>
  /\ Advance(w, "detect")
  /\ UNCHANGED <<chainVars, bookVars, fired>>
-----------------------------------------------------------------------------
(* confirmDeposits.                                                         *)

\* Mutant: the deposit counts as final once it is seen.
FinalOnceSeen(t) == Shown(t)
\* isFinal: finalised, or rooted, or as deep as the threshold asks, in which
\* case the chain may still drop it.
IsFinal(t) == finality[t] \in {"deep", "final"}

Batch == FirstOf(BatchLimit, Only(seen, { t \in Tx : chainEvent[t] = "detected" }))

\* The oldest detected rows, and one look at the chain for all of them.
BeginConfirm(w) ==
  /\ pc[w] = "detect" /\ todo[w] = << >>
  /\ todo' = [todo EXCEPT ![w] = Batch]
  /\ rooted' = [rooted EXCEPT ![w] = { t \in Tx : Contains(Batch, t) /\ IsFinal(t) }]
  /\ pc' = [pc EXCEPT ![w] = "credit"]
  /\ UNCHANGED <<chainVars, bookVars, fired, crashes>>

\* Mutant: the transition to credited is not guarded.
AnyStatusAdvances(t) == TRUE
Advances(t) == chainEvent[t] = "detected"

\* Mutant: the deposit's own transfer stays pending.
CreditLeavesPending(w) ==
  LET t == Head(todo[w]) IN
  /\ pc[w] = "credit" /\ todo[w] # << >>
  /\ t \in rooted[w] /\ Advances(t)
  /\ ~QuoteRefused(ChainAmount[t])
  /\ chainEvent' = [chainEvent EXCEPT ![t] = "credited"]
  /\ offramps' = offramps \cup {t}
  /\ pending' = [pending EXCEPT ![CreditedUser] = @ - ChainAmount[t]]
  /\ pc' = [pc EXCEPT ![w] = "hook"]
  /\ UNCHANGED <<chainVars, deposit, seen, fired, todo, rooted, crashes>>

\* detected -> credited and confirmOfframpConverted, for the account and the
\* amount the watcher knows, whatever the deposit booked.
CreditDeposit(w) ==
  LET t == Head(todo[w]) IN
  /\ pc[w] = "credit" /\ todo[w] # << >>
  /\ t \in rooted[w] /\ Advances(t)
  /\ ~QuoteRefused(ChainAmount[t])
  /\ chainEvent' = [chainEvent EXCEPT ![t] = "credited"]
  /\ offramps' = offramps \cup {t}
  /\ IF t \in offramps
     THEN UNCHANGED <<deposit, pending>>
     ELSE /\ deposit' = [deposit EXCEPT ![t].status = "confirmed"]
          /\ pending' = [pending EXCEPT ![CreditedUser] = @ - ChainAmount[t]]
  /\ pc' = [pc EXCEPT ![w] = "hook"]
  /\ UNCHANGED <<chainVars, seen, fired, todo, rooted, crashes>>

\* It was not final, another worker credited it, the quote refuses its amount,
\* or a statement failed: the transaction leaves nothing.
SkipRow(w) ==
  /\ pc[w] = "credit" /\ todo[w] # << >>
  /\ Advance(w, "credit")
  /\ UNCHANGED <<chainVars, bookVars, fired>>

\* The routing hook, after COMMIT; what it throws is logged.
FireHook(w) ==
  /\ pc[w] = "hook"
  /\ fired' = [fired EXCEPT ![Head(todo[w])] = @ + 1]
  /\ Advance(w, "credit")
  /\ UNCHANGED <<chainVars, bookVars>>

EndTick(w) ==
  /\ pc[w] = "credit" /\ todo[w] = << >>
  /\ pc' = [pc EXCEPT ![w] = "idle"]
  /\ rooted' = [rooted EXCEPT ![w] = {}]
  /\ UNCHANGED <<chainVars, bookVars, fired, todo, crashes>>

\* A statement or a call outside the per-row handlers fails: the tick is over,
\* the next one is scheduled.
FailTick(w) ==
  /\ pc[w] = "detect" /\ todo[w] = << >>
  /\ pc' = [pc EXCEPT ![w] = "idle"]
  /\ UNCHANGED <<chainVars, bookVars, fired, todo, rooted, crashes>>

\* The process dies and is started again.
Crash(w) ==
  /\ pc[w] # "idle"
  /\ crashes < MaxCrashes
  /\ crashes' = crashes + 1
  /\ pc' = [pc EXCEPT ![w] = "idle"]
  /\ todo' = [todo EXCEPT ![w] = << >>]
  /\ rooted' = [rooted EXCEPT ![w] = {}]
  /\ UNCHANGED <<chainVars, bookVars, fired>>
-----------------------------------------------------------------------------
Tick(w) == \/ Scan(w) \/ DetectDeposit(w) \/ SkipSignature(w)
           \/ BeginConfirm(w) \/ CreditDeposit(w) \/ SkipRow(w)
           \/ FireHook(w) \/ EndTick(w) \/ FailTick(w)

Decided(t) == Deepen(t) \/ Finalize(t) \/ Drop(t)

Next == \/ \E t \in Tx : Land(t) \/ Decided(t) \/ Webhook(t)
        \/ \E w \in Worker : Tick(w) \/ Crash(w)

Spec == Init /\ [][Next]_vars

\* The chain finalises or drops what it shows, the poller reschedules itself
\* after every tick, and a call that is tried again and again succeeds in the
\* end.
FairSpec ==
  /\ Spec
  /\ \A t \in Tx : WF_vars(Decided(t))
  /\ \A w \in Worker :
       /\ WF_vars(Tick(w))
       /\ SF_vars(DetectDeposit(w)) /\ SF_vars(BeginConfirm(w)) /\ SF_vars(CreditDeposit(w))
-----------------------------------------------------------------------------
TypeOK ==
  /\ landed \in Seq(Tx) /\ seen \in Seq(Tx)
  /\ finality \in [Tx -> {"absent", "confirmed", "deep", "final", "dropped", "reorged"}]
  /\ chainEvent \in [Tx -> {"absent", "detected", "credited"}]
  /\ deposit \in [Tx -> {NoDeposit} \cup
                        [status : {"pending", "confirmed"}, user : User, amount : Nat]]
  /\ offramps \subseteq Tx
  /\ pending \in [User -> Int]
  /\ fired \in [Tx -> Nat]
  /\ pc \in [Worker -> {"idle", "detect", "credit", "hook"}]
  /\ todo \in [Worker -> Seq(Tx)] /\ rooted \in [Worker -> SUBSET Tx]
  /\ crashes \in 0 .. MaxCrashes

\* chain_events is the chain statement recon joins against the ledger: every
\* row has its deposit, and is credited exactly when the off-ramp is booked
\* and the deposit confirmed, whichever worker or webhook booked it and
\* whichever died.
EventsMatchLedger ==
  \A t \in Tx :
    /\ chainEvent[t] # "absent" => deposit[t] # NoDeposit
    /\ chainEvent[t] = "credited" <=> t \in offramps
    /\ chainEvent[t] = "credited" <=> deposit[t].status = "confirmed"

\* Routes hear of a deposit at most once, and only after its credit: two
\* workers that read the same detected row do not both fire the hook.
HookOncePerCredit ==
  \A t \in Tx : fired[t] > 0 => fired[t] = 1 /\ chainEvent[t] = "credited"

\* No spendable credit for a deposit the chain dropped before it was final or
\* past the threshold, although a credit relies on a status read in an earlier
\* await and a webhook may have booked the deposit.  What the chain drops past
\* the threshold ("reorged") may have been credited.
CreditedPastThreshold ==
  \A t \in Tx : t \in offramps => finality[t] \in {"deep", "final", "reorged"}

\* What each deposit still waiting for its off-ramp booked for a user.
Open(u) ==
  [t \in Tx |-> IF deposit[t].status = "pending" /\ deposit[t].user = u
                THEN deposit[t].amount ELSE 0]

\* A user's pending bucket is what the open deposits booked for them:
\* confirmOfframpConverted "drains pending by exactly what recordDeposit added".
PendingIsOpenDeposits ==
  \A u \in User : pending[u] = SumFunction(Open(u))

\* Every final deposit that converts is credited in the end, through lost
\* ticks, crashes and rows of the batch that never leave it.
FinalDepositIsCredited ==
  \A t \in Tx : finality[t] = "final" /\ ~QuoteRefused(ChainAmount[t])
                  ~> chainEvent[t] = "credited"
=============================================================================
