------------------------------- MODULE System --------------------------------
(***************************************************************************)
(* The whole process (src/server.ts): the deposit watcher, the routing     *)
(* engine, settlement and the bridge between the first two, over one       *)
(* database.  A deposit of Watcher is a trigger of Routing; the credit of  *)
(* one is the confirmation of the other, in the same transaction.  The     *)
(* bridge is the hook: it fires the routes in a transaction of its own,    *)
(* statement by statement beside the handlers, and dispatches them, while  *)
(* the watcher's tick awaits it.                                           *)
(***************************************************************************)
EXTENDS Settlement

CONSTANTS
  Worker,       \* the watchers, among the sessions
  CreditedUser, ChainAmount, WebhookBody, Droppable, ScanLimit, BatchLimit

VARIABLES
  landed, finality,                               \* the chain
  chainEvent, seen, deposit, offramps, pending,   \* the watcher's tables
  fired, tick, todo, rooted,                      \* its hook and its ticks
  hookFailed  \* triggers whose hook was logged as failed before it reserved

W == INSTANCE Watcher WITH
       Tx <- Trigger, pc <- tick, crashes <- 0, MaxCrashes <- 0

watcherVars == <<landed, finality, chainEvent, seen, deposit, offramps, pending,
                 fired, tick, todo, rooted>>
systemVars == <<vars, watcherVars, hookFailed>>

ASSUME SystemAssumption ==
  /\ Worker \subseteq Session /\ CreditedUser \in User
  /\ ChainAmount \in [Trigger -> Nat \ {0}]
  /\ WebhookBody \in [Trigger -> SUBSET [user : User, amount : Nat \ {0}]]
  /\ \A t \in Trigger :
       ~W!QuoteRefused(ChainAmount[t]) => Credit[t].user = CreditedUser

Handler == Session \ Worker

SystemInit == Init /\ W!Init /\ hookFailed = {}
-----------------------------------------------------------------------------
\* An update of a user's guard row waits for the transaction that has its lock.
GuardsFree == \A u \in User : pending'[u] # pending[u] => guardLock[u] = NoSession

\* A deposit shows up on the chain, a webhook tells of it, the chain decides.
Arrive(t) == (W!Land(t) \/ (W!Webhook(t) /\ GuardsFree)) /\ UNCHANGED <<vars, hookFailed>>
Decide(t) == W!Decided(t) /\ UNCHANGED <<vars, hookFailed>>

\* A tick outside its credits; it stands still while the hook runs.
Detect(w) ==
  /\ Idle(w)
  /\ W!DetectDeposit(w) /\ GuardsFree
  /\ UNCHANGED <<vars, hookFailed>>
BeginConfirm(w) ==
  /\ Idle(w)
  /\ W!BeginConfirm(w)
  /\ UNCHANGED <<vars, hookFailed>>
TickOn(w) ==
  /\ Idle(w)
  /\ \/ W!Scan(w) \/ W!SkipSignature(w) \/ W!SkipRow(w) \/ W!EndTick(w) \/ W!FailTick(w)
  /\ UNCHANGED <<vars, hookFailed>>

\* The credit makes the off-ramp a trigger and the net spendable.
CreditDeposit(w) ==
  /\ Idle(w)
  /\ W!CreditDeposit(w) /\ GuardsFree
  /\ ConfirmTrigger(Head(todo[w]))
  /\ UNCHANGED <<settlementVars, hookFailed>>

\* The hook reserves for the routes of the credited account in a transaction of
\* its own; the watcher hears of it when that has committed.
HookBegin(w) ==
  /\ tick[w] = "hook"
  /\ BeginTrigger(w, Head(todo[w]), CreditedUser)
  /\ UNCHANGED <<settlementVars, watcherVars, hookFailed>>
HookReserve(w) ==
  /\ ReserveStep(w)
  /\ UNCHANGED <<settlementVars, watcherVars, hookFailed>>
HookCommit(w) ==
  /\ W!FireHook(w)
  /\ CommitReservation(w)
  /\ UNCHANGED <<settlementVars, hookFailed>>

\* A route throws, or the transaction fails, if it ever begins: logged, and the
\* tick goes on.
HookThrows(w) ==
  /\ W!FireHook(w)
  /\ \/ Idle(w) /\ UNCHANGED routingVars
     \/ ThrowLeg(w) \/ AbandonReservation(w)
  /\ hookFailed' = hookFailed \cup {Head(todo[w])}
  /\ UNCHANGED settlementVars

\* The hook, once its routes are reserved.
HookDispatch(w) ==
  /\ DispatchStep(w)
  /\ UNCHANGED <<settlementVars, watcherVars, hookFailed>>

\* POST /routing/trigger and retry, the settle lever and polls.
Serve(s) ==
  /\ \/ Requests(s) /\ UNCHANGED settlementVars
     \/ Settle(s) \/ Poll(s)
  /\ UNCHANGED <<watcherVars, hookFailed>>

\* A handler goes on.
Continue(s) ==
  /\ HandlerStep(s)
  /\ UNCHANGED <<watcherVars, hookFailed>>

\* Handlers, and the dispatch of a hook, that fail where they are.
Failure(s) ==
  /\ \/ AbandonDispatch(s) /\ UNCHANGED settlementVars
     \/ s \in Handler /\ AbandonReservation(s) /\ UNCHANGED settlementVars
     \/ AbandonSettlement(s)
  /\ UNCHANGED <<watcherVars, hookFailed>>

Elapse ==
  /\ \E p \in Leg : FinalizeSend(p)
  /\ UNCHANGED <<watcherVars, hookFailed>>

\* The process dies with its handlers, its hook and its tick.
ProcessRestart ==
  /\ Restart
  /\ tick' = [w \in Worker |-> "idle"]
  /\ todo' = [w \in Worker |-> << >>] /\ rooted' = [w \in Worker |-> {}]
  /\ UNCHANGED <<landed, finality, chainEvent, seen, deposit, offramps, pending, fired,
                 hookFailed>>

WatcherStep(w) == \/ Detect(w) \/ BeginConfirm(w) \/ TickOn(w) \/ CreditDeposit(w)
                  \/ HookBegin(w) \/ HookReserve(w) \/ HookCommit(w) \/ HookThrows(w)
                  \/ HookDispatch(w)

SystemNext ==
  \/ Elapse \/ ProcessRestart
  \/ \E t \in Trigger : Arrive(t) \/ Decide(t)
  \/ \E w \in Worker : WatcherStep(w)
  \/ \E s \in Handler : Serve(s) \/ Continue(s)
  \/ \E s \in Session : Failure(s)

SystemSpec == SystemInit /\ [][SystemNext]_systemVars

\* The watcher's fairness, its hook included: the chain decides, the poller
\* reschedules itself, calls that are tried for ever succeed, and who waits for
\* a row lock gets it in turn.  No handler is obliged to call, but one that has
\* begun a transaction runs on, or loses its connection.
FairSystemSpec ==
  /\ SystemSpec
  /\ \A t \in Trigger : WF_systemVars(Decide(t))
  /\ \A w \in Worker :
       /\ WF_systemVars(WatcherStep(w))
       /\ SF_systemVars(Detect(w)) /\ SF_systemVars(BeginConfirm(w))
       /\ SF_systemVars(CreditDeposit(w)) /\ SF_systemVars(HookReserve(w))
  /\ \A s \in Handler : SF_systemVars(Continue(s))
-----------------------------------------------------------------------------
\* No money leaves for a deposit the chain dropped before it was final or past
\* the threshold: a leg exists only under an off-ramp whose deposit was as deep,
\* although the status was read in an earlier await than the credit and the
\* credit in an earlier transaction than the reservation.
PaidOnlyPastThreshold ==
  \A l \in Leg : leg[l] # "absent" => finality[l[1][2]] \in {"deep", "final", "reorged"}

\* End to end: a final deposit that converts reaches every route that watches
\* its account, unless the failed hook is in the log or the process died.
FinalDepositIsRouted ==
  \A t \in Trigger :
    finality[t] = "final" /\ ~W!QuoteRefused(ChainAmount[t])
      ~> \/ t \in hookFailed \/ restarts > 0
         \/ \A r \in Route : WatchedUser[r] = CreditedUser => execution[<<r, t>>] # "absent"
=============================================================================
