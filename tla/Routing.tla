------------------------------- MODULE Routing -------------------------------
(***************************************************************************)
(* The routing engine (src/routing/engine.ts): standing rules that fire    *)
(* when an off-ramp is confirmed, reserve every leg or none, and hand the  *)
(* reserved legs to the payout providers (Providers) after the COMMIT.     *)
(*                                                                         *)
(* A reservation is one transaction over all routes of the account, split  *)
(* at its statements: each execution it inserts or claims, each leg under  *)
(* a savepoint of its own execution, the rollback to that savepoint, and   *)
(* the COMMIT that shows it to others.  Until then its writes are in       *)
(* `draft' and `won', and its row locks are all that others feel of it.    *)
(* Dispatch runs outside any transaction and is split at every await.      *)
(***************************************************************************)
EXTENDS Integers, Sequences, FiniteSetsExt

CONSTANTS
  Session,       \* concurrent request handlers and hook calls
  NoSession,
  User,
  Route,         \* route ids, numbered in created_at order
  Trigger,       \* off-ramp transfers
  WatchedUser,   \* trigger_account_id of each route
  RouteActions,  \* the actions of each route in seq order
  Credit         \* what each off-ramp credits, and to whom

Action == [provider : {"acmepay", "legacybank", "polygon-usdt"},
           amount : Nat \ {0}, source : Nat \ {0},
           cross : BOOLEAN,   \* the two currencies differ
           paired : BOOLEAN]  \* its conversion accounts are set

ASSUME RouteAssumption ==
  /\ NoSession \notin Session
  /\ Route \subseteq Nat
  /\ WatchedUser \in [Route -> User]
  /\ RouteActions \in [Route -> Seq(Action)]
  /\ Credit \in [Trigger -> [user : User, amount : Nat]]

\* Tables have finitely many rows.
ASSUME FiniteAssumption == IsFiniteSet(Route) /\ IsFiniteSet(Trigger)

\* UNIQUE(route_id, trigger_transfer_id) and UNIQUE(execution_id, seq).
Execution == Route \X Trigger
Leg == UNION { {x} \X DOMAIN RouteActions[x[1]] : x \in Execution }
LegsOf(x) == { l \in Leg : l[1] = x }
ActionOf(l) == RouteActions[l[1][1]][l[2]]
UserOf(x) == WatchedUser[x[1]]

\* What a leg takes from the user: createPayout posts `amount' when the
\* currencies agree, buildLegPostings posts `source' when they do not.
Debit == [l \in Leg |-> IF ActionOf(l).cross THEN ActionOf(l).source ELSE ActionOf(l).amount]

ExecutionStatus == {"absent", "reserved", "insufficient_funds", "completed", "failed"}
LegStatus == {"absent", "reserved", "initiated", "settled", "failed"}
HoldStatus == {"absent", "pending", "confirmed", "failed"}

VARIABLES
  confirmed,  \* off-ramps confirmed and credited
  execution,  \* route_executions.status
  leg,        \* route_legs.status
  ref,        \* route_legs.external_ref
  hold,       \* status of the leg's reservation transfer
  headroom,   \* the user's available bucket
  payout, issued,  \* the memory of the providers, which know a leg by its key
  guardLock, execLock,  \* row locks of spend_guards and route_executions
  pc,
  firing,     \* per reservation: executions it has yet to reserve,
  draft, won, \* the legs it inserted and the executions it reserved, uncommitted
  queue,      \* per dispatch: executions it has yet to hand over,
  left        \* and the legs of one that it read and has yet to hand over

ProviderOf == [l \in Leg |-> ActionOf(l).provider]
INSTANCE Providers WITH Payout <- Leg

providerVars == <<payout, issued>>
bookVars == <<confirmed, execution, leg, ref, hold, headroom>>
lockVars == <<guardLock, execLock>>
draftVars == <<firing, draft, won>>
dispatchVars == <<queue, left>>
routingVars == <<bookVars, providerVars, lockVars, pc, draftVars, dispatchVars>>

NoRef == [provider |-> "none"]

Idle(s) == pc[s] = "idle"

RoutingInit ==
  /\ confirmed = [t \in Trigger |-> FALSE]
  /\ execution = [x \in Execution |-> "absent"]
  /\ leg = [l \in Leg |-> "absent"]
  /\ ref = [l \in Leg |-> NoRef]
  /\ hold = [l \in Leg |-> "absent"]
  /\ headroom = [u \in User |-> 0]
  /\ ProvidersInit
  /\ guardLock = [u \in User |-> NoSession]
  /\ execLock = [x \in Execution |-> NoSession]
  /\ pc = [s \in Session |-> "idle"]
  /\ firing = [s \in Session |-> {}]
  /\ draft = [s \in Session |-> {}]
  /\ won = [s \in Session |-> {}]
  /\ queue = [s \in Session |-> {}]
  /\ left = [s \in Session |-> {}]
-----------------------------------------------------------------------------
(* Row locks.                                                               *)

\* A lock is the session's already, or free; either way it is now the session's.
LockGuard(s, u) ==
  /\ guardLock[u] \in {NoSession, s}
  /\ guardLock' = [guardLock EXCEPT ![u] = s]
LockExecution(s, x) ==
  /\ execLock[x] = NoSession
  /\ execLock' = [execLock EXCEPT ![x] = s]

\* Mutant of the end: the row locks outlive the transaction.
ReleaseNoLocks(s) == UNCHANGED lockVars
\* COMMIT and ROLLBACK release what the transaction locked.
ReleaseLocks(s) ==
  /\ guardLock' = [u \in User |-> IF guardLock[u] = s THEN NoSession ELSE guardLock[u]]
  /\ execLock' = [x \in Execution |-> IF execLock[x] = s THEN NoSession ELSE execLock[x]]

\* The off-ramp commits and credits its user, whose guard row it updates; the
\* routes fire later, if at all.
ConfirmTrigger(t) ==
  /\ ~confirmed[t]
  /\ guardLock[Credit[t].user] = NoSession
  /\ confirmed' = [confirmed EXCEPT ![t] = TRUE]
  /\ headroom' = [headroom EXCEPT ![Credit[t].user] = @ + Credit[t].amount]
  /\ UNCHANGED <<execution, leg, ref, hold, providerVars, lockVars, pc, draftVars,
                 dispatchVars>>
-----------------------------------------------------------------------------
(* The reservation transaction.                                             *)

\* Mutant: the loop over the routes returns after the oldest.
OldestWatching(u) == { r \in Route : WatchedUser[r] = u /\ \A q \in Route : WatchedUser[q] = u => r <= q }
Watching(u) == { r \in Route : WatchedUser[r] = u }

\* onOfframpConfirmed: every route watching the account is to fire.  The
\* account is the caller's word (POST /routing/trigger), not the one the
\* off-ramp credited.
BeginTrigger(s, t, u) ==
  /\ Idle(s)
  /\ confirmed[t]
  /\ pc' = [pc EXCEPT ![s] = "fire"]
  /\ firing' = [firing EXCEPT ![s] = { <<r, t>> : r \in Watching(u) }]
  /\ UNCHANGED <<bookVars, providerVars, lockVars, draft, won, dispatchVars>>

\* Mutant of the retry: a failed execution may be claimed too.
AnyStall(x) == execution[x] \in {"insufficient_funds", "failed"}
Retryable(x) == execution[x] = "insufficient_funds"

\* retryExecution claims a stalled execution by its UPDATE.
BeginRetry(s, x) ==
  /\ Idle(s)
  /\ Retryable(x)
  /\ LockExecution(s, x)
  /\ pc' = [pc EXCEPT ![s] = "reserve"]
  /\ firing' = [firing EXCEPT ![s] = {x}]
  /\ UNCHANGED <<bookVars, providerVars, guardLock, draft, won, dispatchVars>>

\* The loop over the routes takes them in created_at order.
Oldest(xs, x) == x \in xs /\ \A y \in xs : x[1] <= y[1]

\* fireRoute: the insert of the execution, which waits for one in progress.
InsertExecution(s) ==
  \E x \in Execution :
    /\ pc[s] = "fire"
    /\ Oldest(firing[s], x)
    /\ execution[x] = "absent"
    /\ LockExecution(s, x)
    /\ pc' = [pc EXCEPT ![s] = "reserve"]
    /\ UNCHANGED <<bookVars, providerVars, guardLock, draftVars, dispatchVars>>

\* ON CONFLICT: the route has fired for this trigger.
AlreadyFired(s) ==
  \E x \in Execution :
    /\ pc[s] = "fire"
    /\ Oldest(firing[s], x)
    /\ execution[x] # "absent"
    /\ firing' = [firing EXCEPT ![s] = @ \ {x}]
    /\ UNCHANGED <<bookVars, providerVars, lockVars, pc, draft, won, dispatchVars>>

\* The loop over the actions of the oldest execution is at leg l.
AtLeg(s, l) ==
  /\ pc[s] = "reserve"
  /\ Oldest(firing[s], l[1])
  /\ l \notin draft[s]
  /\ \A k \in LegsOf(l[1]) : k[2] < l[2] => k \in draft[s]

\* buildLegPostings throws at a cross-currency leg without its conversion accounts.
Throws(l) == ActionOf(l).cross /\ ~ActionOf(l).paired

\* What the transaction has taken from a user, and what that leaves.
Drafted(s, u) == SumFunctionOnSet(Debit, { l \in draft[s] : UserOf(l[1]) = u })
Covered(s, l) == Drafted(s, UserOf(l[1])) + Debit[l] <= headroom[UserOf(l[1])]

\* reserveLeg: the hold and the leg, under the lock of the user's guard.
ReserveLeg(s) ==
  \E l \in Leg :
    /\ AtLeg(s, l) /\ ~Throws(l)
    /\ LockGuard(s, UserOf(l[1]))
    /\ Covered(s, l)
    /\ draft' = [draft EXCEPT ![s] = @ \cup {l}]
    /\ UNCHANGED <<bookVars, providerVars, execLock, pc, firing, won, dispatchVars>>

\* Mutant: the catch forgets the rollback.
KeepPartial(s, x) == UNCHANGED <<draft, guardLock>>
\* ROLLBACK TO SAVEPOINT: the legs of the execution, and the guard's lock when
\* it was taken for them.
RollbackToSavepoint(s, x) ==
  /\ draft' = [draft EXCEPT ![s] = @ \ LegsOf(x)]
  /\ guardLock' = [u \in User |-> IF guardLock[u] = s /\ draft[s] \subseteq LegsOf(x)
                                  THEN NoSession ELSE guardLock[u]]

\* InsufficientFundsError: no partial fills; the execution stalls.
RefuseLeg(s) ==
  \E l \in Leg :
    /\ AtLeg(s, l) /\ ~Throws(l)
    /\ guardLock[UserOf(l[1])] \in {NoSession, s}
    /\ ~Covered(s, l)
    /\ RollbackToSavepoint(s, l[1])
    /\ pc' = [pc EXCEPT ![s] = "fire"]
    /\ firing' = [firing EXCEPT ![s] = @ \ {l[1]}]
    /\ UNCHANGED <<bookVars, providerVars, execLock, won, dispatchVars>>

\* RELEASE SAVEPOINT: every leg of the execution is in.
ReleaseSavepoint(s) ==
  \E x \in Execution :
    /\ pc[s] = "reserve"
    /\ Oldest(firing[s], x)
    /\ LegsOf(x) \subseteq draft[s]
    /\ pc' = [pc EXCEPT ![s] = "fire"]
    /\ firing' = [firing EXCEPT ![s] = @ \ {x}]
    /\ won' = [won EXCEPT ![s] = @ \cup {x}]
    /\ UNCHANGED <<bookVars, providerVars, lockVars, draft, dispatchVars>>

EndReservation(s) ==
  /\ ReleaseLocks(s)
  /\ firing' = [firing EXCEPT ![s] = {}]
  /\ draft' = [draft EXCEPT ![s] = {}]
  /\ won' = [won EXCEPT ![s] = {}]

\* ROLLBACK: nothing the transaction wrote was ever seen.
RollbackReservation(s) ==
  /\ EndReservation(s)
  /\ pc' = [pc EXCEPT ![s] = "idle"]
  /\ UNCHANGED <<bookVars, providerVars, dispatchVars>>

\* Any other error than insufficient funds takes the transaction along.
ThrowLeg(s) ==
  /\ \E l \in Leg : AtLeg(s, l) /\ Throws(l)
  /\ RollbackReservation(s)

\* A statement fails or the connection is lost.
AbandonReservation(s) ==
  /\ pc[s] \in {"fire", "reserve"}
  /\ RollbackReservation(s)

\* Mutant: the hold takes the leg's status.
BookHoldReserved(ls) ==
  /\ leg' = [l \in Leg |-> IF l \in ls THEN "reserved" ELSE leg[l]]
  /\ hold' = [l \in Leg |-> IF l \in ls THEN "reserved" ELSE hold[l]]
BookLegs(ls) ==
  /\ leg' = [l \in Leg |-> IF l \in ls THEN "reserved" ELSE leg[l]]
  /\ hold' = [l \in Leg |-> IF l \in ls THEN "pending" ELSE hold[l]]

\* COMMIT of onOfframpConfirmed or retryExecution; what it reserved is dispatched.
CommitReservation(s) ==
  /\ pc[s] = "fire" /\ firing[s] = {}
  /\ BookLegs(draft[s])
  /\ headroom' = [u \in User |-> headroom[u] - Drafted(s, u)]
  /\ execution' = [x \in Execution |-> IF x \in won[s] THEN "reserved"
                                       ELSE IF execLock[x] = s THEN "insufficient_funds"
                                       ELSE execution[x]]
  /\ EndReservation(s)
  /\ pc' = [pc EXCEPT ![s] = IF won[s] = {} THEN "idle" ELSE "dispatch"]
  /\ queue' = [queue EXCEPT ![s] = won[s]]
  /\ UNCHANGED <<confirmed, ref, providerVars, left>>
-----------------------------------------------------------------------------
(* dispatchExecution, await by await.                                       *)

\* The oldest route first, and its reserved legs in seq order.
ReadReservedLegs(s) ==
  \E x \in queue[s] :
    /\ pc[s] = "dispatch"
    /\ left[s] = {} /\ Oldest(queue[s], x)
    /\ left' = [left EXCEPT ![s] = { l \in LegsOf(x) : leg[l] = "reserved" }]
    /\ queue' = [queue EXCEPT ![s] = @ \ {x}]
    /\ UNCHANGED <<bookVars, providerVars, lockVars, pc, draftVars>>

\* The loop over the rows takes them in seq order.
NextLeg(s) == CHOOSE l \in left[s] : \A k \in left[s] : l[2] <= k[2]

InitiatePayout(s) ==
  /\ pc[s] = "dispatch"
  /\ left[s] # {}
  /\ InitiatePayoutAt(NextLeg(s))
  /\ pc' = [pc EXCEPT ![s] = "acked"]
  /\ UNCHANGED <<bookVars, lockVars, draftVars, dispatchVars>>

\* UPDATE ... SET status = 'initiated', external_ref WHERE status = 'reserved'.
RecordAck(s) ==
  LET l == NextLeg(s) IN
  /\ pc[s] = "acked"
  /\ IF leg[l] = "reserved"
     THEN /\ leg' = [leg EXCEPT ![l] = "initiated"]
          /\ ref' = [ref EXCEPT ![l] = payout[l].ref]
     ELSE UNCHANGED <<leg, ref>>
  /\ left' = [left EXCEPT ![s] = @ \ {l}]
  /\ pc' = [pc EXCEPT ![s] = "dispatch"]
  /\ UNCHANGED <<confirmed, execution, hold, headroom, providerVars, lockVars, draftVars, queue>>

EndDispatch(s) ==
  /\ pc[s] = "dispatch"
  /\ left[s] = {} /\ queue[s] = {}
  /\ pc' = [pc EXCEPT ![s] = "idle"]
  /\ UNCHANGED <<bookVars, providerVars, lockVars, draftVars, dispatchVars>>

\* The provider call throws or the UPDATE fails: the rest of the dispatch is
\* dropped, and what was acknowledged may go unrecorded.
AbandonDispatch(s) ==
  /\ pc[s] \in {"dispatch", "acked"}
  /\ pc' = [pc EXCEPT ![s] = "idle"]
  /\ queue' = [queue EXCEPT ![s] = {}]
  /\ left' = [left EXCEPT ![s] = {}]
  /\ UNCHANGED <<bookVars, providerVars, lockVars, draftVars>>

Requests(s) == \/ \E t \in Trigger, u \in User : BeginTrigger(s, t, u)
               \/ \E x \in Execution : BeginRetry(s, x)
ReserveStep(s) == \/ InsertExecution(s) \/ AlreadyFired(s) \/ ReserveLeg(s)
                  \/ RefuseLeg(s) \/ ReleaseSavepoint(s)
ReservationStep(s) == ReserveStep(s) \/ ThrowLeg(s) \/ CommitReservation(s)
DispatchStep(s) == \/ ReadReservedLegs(s) \/ InitiatePayout(s)
                   \/ RecordAck(s) \/ EndDispatch(s)
=============================================================================
