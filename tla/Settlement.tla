----------------------------- MODULE Settlement ------------------------------
(***************************************************************************)
(* Settlement (src/routing/settlement.ts) beside the routing engine: every *)
(* provider event is one transaction under READ COMMITTED, split at its    *)
(* statements.  A session sees the legs other transactions have committed  *)
(* and its own; it waits only for row locks.                               *)
(*                                                                         *)
(* Events come from the settle lever of the mock providers and from polls, *)
(* as often and in any order as callers like, and name a payout by its     *)
(* external reference.  The process may die and start again with an empty  *)
(* provider memory.                                                        *)
(***************************************************************************)
EXTENDS Routing

CONSTANTS
  NoLeg,
  MaxRestarts  \* bound: how often the process dies

ASSUME SettlementAssumption ==
  /\ NoLeg \notin Leg
  /\ MaxRestarts \in Nat

VARIABLES
  reversed,   \* legs whose reversal transfer is committed
  statement,  \* the references in provider_statements
  event,      \* the event each session applies
  target,     \* the leg it found
  verdict,    \* what it wrote to route_executions, uncommitted
  legLock,    \* row locks of route_legs
  restarts

eventVars == <<event, target, verdict, legLock>>
settlementVars == <<reversed, statement, eventVars, restarts>>
vars == <<routingVars, settlementVars>>

NoEvent == [status |-> "none"]
Event == [ref : ExternalRef, status : {"settled", "failed"}]

Init ==
  /\ RoutingInit
  /\ reversed = {} /\ statement = {}
  /\ event = [s \in Session |-> NoEvent]
  /\ target = [s \in Session |-> NoLeg]
  /\ verdict = [s \in Session |-> "none"]
  /\ legLock = [l \in Leg |-> NoSession]
  /\ restarts = 0

ExecutionOf(s) == target[s][1]
-----------------------------------------------------------------------------
(* Where events come from.                                                  *)

Receive(s, p, status) ==
  /\ Idle(s)
  /\ pc' = [pc EXCEPT ![s] = "lookup"]
  /\ event' = [event EXCEPT ![s] = [ref |-> payout[p].ref, status |-> status]]
  /\ UNCHANGED <<bookVars, lockVars, draftVars, dispatchVars, reversed, statement,
                 target, verdict, legLock, restarts>>

\* The settle lever applies the event its provider emits.
Settle(s) ==
  \E p \in Leg, outcome \in {"settled", "failed"} :
    /\ EmitSettlementEvent(p, outcome)
    /\ Receive(s, p, outcome)

FinalizeSend(p) ==
  /\ FinalizeSendAt(p)
  /\ UNCHANGED <<bookVars, lockVars, pc, draftVars, dispatchVars, settlementVars>>

\* A poll applies the status the provider has, if terminal.
Poll(s) ==
  \E p \in Leg :
    /\ Terminal(p)
    /\ Receive(s, p, payout[p].status)
    /\ UNCHANGED providerVars
-----------------------------------------------------------------------------
(* applyProviderEvent, statement by statement.                              *)

EndSession(s) ==
  /\ pc' = [pc EXCEPT ![s] = "idle"]
  /\ event' = [event EXCEPT ![s] = NoEvent]
  /\ target' = [target EXCEPT ![s] = NoLeg]
  /\ verdict' = [verdict EXCEPT ![s] = "none"]
  /\ legLock' = [l \in Leg |-> IF legLock[l] = s THEN NoSession ELSE legLock[l]]
  /\ ReleaseLocks(s)

NothingWritten ==
  UNCHANGED <<bookVars, providerVars, draftVars, dispatchVars, reversed, statement, restarts>>

\* The rows of route_legs with the event's provider and reference.
Matches(s) == { l \in Leg : ref[l] = event[s].ref }

UnknownReference(s) ==
  /\ pc[s] = "lookup"
  /\ Matches(s) = {}
  /\ EndSession(s)
  /\ NothingWritten

\* SELECT ... FOR UPDATE waits for the rows it matches; one of them is the leg.
LockLeg(s) ==
  /\ pc[s] = "lookup"
  /\ \A l \in Matches(s) : legLock[l] = NoSession
  /\ \E l \in Matches(s) : target' = [target EXCEPT ![s] = l]
  /\ legLock' = [l \in Leg |-> IF l \in Matches(s) THEN s ELSE legLock[l]]
  /\ pc' = [pc EXCEPT ![s] = "move"]
  /\ UNCHANGED <<event, verdict, lockVars>>
  /\ NothingWritten

\* Mutant: the leg's UPDATE has no guard on its status.
AnyLegMoves(l) == TRUE
Movable(l) == leg[l] \in {"reserved", "initiated"}

StaleEvent(s) ==
  /\ pc[s] = "move"
  /\ ~Movable(target[s])
  /\ EndSession(s)
  /\ NothingWritten

\* Mutant: an unbalanced reversal is posted.
NoBalanceAssertion(l) == TRUE
\* The negated postings of the hold balance: always across currencies; within
\* one, only when the action's two amounts agree.
Reversible(l) == ActionOf(l).cross \/ ActionOf(l).source = ActionOf(l).amount

\* The guarded UPDATE of the leg, and for a failure its reversal, which
\* updates the user's guard row and keeps its lock.
MoveLeg(s) ==
  /\ pc[s] = "move"
  /\ Movable(target[s])
  /\ \/ /\ event[s].status = "settled"
        /\ UNCHANGED guardLock
     \/ /\ event[s].status = "failed" /\ Reversible(target[s])
        /\ LockGuard(s, UserOf(ExecutionOf(s)))
  /\ pc' = [pc EXCEPT ![s] = "close"]
  /\ UNCHANGED <<eventVars, execLock>>
  /\ NothingWritten

\* assertBalanced throws on the reversal: the transaction rolls back.
RefuseReversal(s) ==
  /\ pc[s] = "move"
  /\ Movable(target[s])
  /\ event[s].status = "failed" /\ ~Reversible(target[s])
  /\ EndSession(s)
  /\ NothingWritten

\* Mutant: the execution is completed by the first leg that settles.
FirstSettledIsEnough(s) == TRUE
\* NOT EXISTS (a leg that has not settled), as this session sees the legs.
SeesAllSettled(s) ==
  \A l \in LegsOf(ExecutionOf(s)) : l = target[s] \/ leg[l] = "settled"

\* The UPDATE of the execution matches its row.
Closes(s) ==
  /\ execution[ExecutionOf(s)] = "reserved"
  /\ event[s].status = "settled" => SeesAllSettled(s)

CloseExecution(s) ==
  /\ pc[s] = "close"
  /\ Closes(s)
  /\ LockExecution(s, ExecutionOf(s))
  /\ verdict' = [verdict EXCEPT ![s] =
                   IF event[s].status = "settled" THEN "completed" ELSE "failed"]
  /\ pc' = [pc EXCEPT ![s] = "commit"]
  /\ UNCHANGED <<event, target, legLock, guardLock>>
  /\ NothingWritten

LeaveExecution(s) ==
  /\ pc[s] = "close"
  /\ ~Closes(s)
  /\ pc' = [pc EXCEPT ![s] = "commit"]
  /\ UNCHANGED <<eventVars, lockVars>>
  /\ NothingWritten

\* COMMIT: the leg, its hold, the statement or the reversal, the execution.
CommitSettlement(s) ==
  LET l == target[s]
      failed == event[s].status = "failed" IN
  /\ pc[s] = "commit"
  /\ leg' = [leg EXCEPT ![l] = event[s].status]
  /\ hold' = [hold EXCEPT ![l] = IF failed THEN "failed" ELSE "confirmed"]
  /\ statement' = IF failed THEN statement ELSE statement \cup {ref[l]}
  /\ reversed' = IF failed THEN reversed \cup {l} ELSE reversed
  /\ headroom' = [headroom EXCEPT ![UserOf(l[1])] =
                    IF failed THEN @ + ActionOf(l).source ELSE @]
  /\ execution' = [execution EXCEPT ![l[1]] =
                     IF verdict[s] = "none" THEN @ ELSE verdict[s]]
  /\ EndSession(s)
  /\ UNCHANGED <<confirmed, ref, providerVars, draftVars, dispatchVars, restarts>>

\* A statement fails or the connection is lost: the transaction rolls back.
AbandonSettlement(s) ==
  /\ pc[s] \in {"lookup", "move", "close", "commit"}
  /\ EndSession(s)
  /\ NothingWritten

\* The process dies and starts again: handlers stop where they are, their
\* transactions roll back, the providers forget.
Restart ==
  /\ restarts < MaxRestarts
  /\ restarts' = restarts + 1
  /\ ForgetPayouts
  /\ pc' = [s \in Session |-> "idle"]
  /\ firing' = [s \in Session |-> {}] /\ draft' = [s \in Session |-> {}]
  /\ won' = [s \in Session |-> {}]
  /\ queue' = [s \in Session |-> {}] /\ left' = [s \in Session |-> {}]
  /\ event' = [s \in Session |-> NoEvent]
  /\ target' = [s \in Session |-> NoLeg]
  /\ verdict' = [s \in Session |-> "none"]
  /\ legLock' = [l \in Leg |-> NoSession]
  /\ execLock' = [x \in Execution |-> NoSession]
  /\ guardLock' = [u \in User |-> NoSession]
  /\ UNCHANGED <<bookVars, reversed, statement>>
-----------------------------------------------------------------------------
SettlementStep(s) ==
  \/ UnknownReference(s) \/ LockLeg(s) \/ StaleEvent(s)
  \/ MoveLeg(s) \/ RefuseReversal(s)
  \/ CloseExecution(s) \/ LeaveExecution(s) \/ CommitSettlement(s)

\* A handler that has started goes on.
HandlerStep(s) ==
  \/ SettlementStep(s)
  \/ (ReservationStep(s) \/ DispatchStep(s)) /\ UNCHANGED settlementVars

RoutingStep ==
  /\ \/ \E t \in Trigger : ConfirmTrigger(t)
     \/ \E s \in Session : \/ Requests(s) \/ ReservationStep(s) \/ AbandonReservation(s)
                           \/ DispatchStep(s) \/ AbandonDispatch(s)
  /\ UNCHANGED settlementVars

Next ==
  \/ RoutingStep
  \/ \E p \in Leg : FinalizeSend(p)
  \/ \E s \in Session : Settle(s) \/ Poll(s) \/ SettlementStep(s) \/ AbandonSettlement(s)
  \/ Restart

Spec == Init /\ [][Next]_vars

\* A handler or a transaction that has started runs on: Node resumes its
\* awaits, and Postgres grants a row lock to its waiters in turn.
FairSpec ==
  /\ Spec
  /\ \A s \in Session : SF_vars(HandlerStep(s))
-----------------------------------------------------------------------------
TypeOK ==
  /\ confirmed \in [Trigger -> BOOLEAN]
  /\ execution \in [Execution -> ExecutionStatus]
  /\ leg \in [Leg -> LegStatus]
  /\ ref \in [Leg -> ExternalRef \cup {NoRef}]
  /\ hold \in [Leg -> HoldStatus]
  /\ headroom \in [User -> Int]
  /\ payout \in [Leg -> PayoutRecord \cup {NoPayout}] /\ issued \in Nat
  /\ guardLock \in [User -> Session \cup {NoSession}]
  /\ execLock \in [Execution -> Session \cup {NoSession}]
  /\ pc \in [Session -> {"idle", "fire", "reserve", "dispatch", "acked",
                          "lookup", "move", "close", "commit"}]
  /\ firing \in [Session -> SUBSET Execution]
  /\ draft \in [Session -> SUBSET Leg]
  /\ won \in [Session -> SUBSET Execution]
  /\ queue \in [Session -> SUBSET Execution]
  /\ left \in [Session -> SUBSET Leg]
  /\ reversed \subseteq Leg /\ statement \subseteq ExternalRef
  /\ event \in [Session -> Event \cup {NoEvent}]
  /\ target \in [Session -> Leg \cup {NoLeg}]
  /\ verdict \in [Session -> {"none", "completed", "failed"}]
  /\ legLock \in [Leg -> Session \cup {NoSession}]
  /\ restarts \in 0 .. MaxRestarts

\* No partial fills: an execution that stalled or never fired has no leg, one
\* that reserved has every leg, although the transaction that reserves it
\* inserts them one by one and may be refused in between.
AllLegsOrNone ==
  \A l \in Leg : leg[l] = "absent" <=> execution[l[1]] \in {"absent", "insufficient_funds"}

\* Whatever order events, duplicates and contradicting outcomes arrive in, a
\* leg's money goes one way: settled legs have a confirmed hold and a
\* statement and were never released, failed legs were released once and
\* have no statement.
BooksFollowLegs ==
  \A l \in Leg :
    /\ leg[l] = "settled" <=> hold[l] = "confirmed"
    /\ leg[l] = "settled" <=> ref[l] \in statement
    /\ leg[l] = "failed" <=> hold[l] = "failed"
    /\ leg[l] = "failed" <=> l \in reversed

\* An execution is completed only when all its legs settled, and failed
\* exactly when one of them failed.
OutcomeMatchesLegs ==
  \A x \in Execution :
    /\ execution[x] = "completed" => \A l \in LegsOf(x) : leg[l] = "settled"
    /\ execution[x] = "failed" <=> \E l \in LegsOf(x) : leg[l] = "failed"

\* What each off-ramp credited to a user, and what each leg holds or has taken.
Credited(u) ==
  [t \in Trigger |-> IF confirmed[t] /\ Credit[t].user = u THEN Credit[t].amount ELSE 0]
Held(u) ==
  [l \in Leg |-> IF UserOf(l[1]) = u /\ leg[l] \notin {"absent", "failed"} THEN Debit[l] ELSE 0]

\* What the user can spend is what off-ramps credited less what live or
\* settled legs hold: no leg is reserved twice or released twice.
HeadroomIsCreditLessHolds ==
  \A u \in User :
    /\ headroom[u] = SumFunction(Credited(u)) - SumFunction(Held(u))
    /\ headroom[u] >= 0

\* Legs and executions only move forward, and never leave a final state.
Forward(now, next) ==
  CASE now = "absent" -> TRUE
    [] now = "insufficient_funds" -> next \in {now, "reserved"}
    [] now = "reserved" -> next \notin {"absent", "insufficient_funds"}
    [] now = "initiated" -> next \in {now, "settled", "failed"}
    [] now \in {"settled", "failed", "completed"} -> next = now

OnlyForward ==
  [][/\ \A l \in Leg : Forward(leg[l], leg'[l])
     /\ \A x \in Execution : Forward(execution[x], execution'[x])]_vars

\* Every handler and every settlement comes to its end: the row locks of legs,
\* guards and executions never form a cycle of waiting, whether reservations,
\* retries or reversals take them.
EverySessionEnds == \A s \in Session : ~Idle(s) ~> Idle(s)
=============================================================================
