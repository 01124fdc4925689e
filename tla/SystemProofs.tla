---------------------------- MODULE SystemProofs -----------------------------
(***************************************************************************)
(* The whole process runs routing and settlement as they are specified, so *)
(* that what is proved of them holds in it; no leg is reserved for a       *)
(* deposit short of the threshold; and recon's report is true of it.       *)
(***************************************************************************)
EXTENDS Recon, SettlementProofs

\* A deposit that once was past the threshold is never again short of it,
\* although the chain may since have dropped it.
PastThreshold == {"deep", "final", "reorged"}

\* The watcher's side: what a tick was shown as deep enough was, a hook is
\* about a deposit, and a trigger is a deposit past the threshold.
ChainInv ==
  /\ finality \in [Trigger -> {"absent", "confirmed", "deep", "final", "dropped", "reorged"}]
  /\ tick \in [Worker -> {"idle", "detect", "credit", "hook"}]
  /\ todo = [w \in Worker |-> todo[w]]
  /\ rooted \in [Worker -> SUBSET Trigger]
  /\ \A w \in Worker : \A t \in rooted[w] : finality[t] \in PastThreshold
  /\ \A w \in Worker : tick[w] = "hook" => Head(todo[w]) \in Trigger
  /\ confirmed \in [Trigger -> BOOLEAN]
  /\ \A t \in Trigger : confirmed[t] => finality[t] \in PastThreshold

\* Routes fire for confirmed triggers only: what has fired, what a reservation
\* is to fire, and what it has locked.
FiredInv ==
  /\ \A x \in Execution : execution[x] # "absent" => confirmed[x[2]]
  /\ \A s \in Session : \A x \in firing[s] : confirmed[x[2]]
  /\ \A x \in Execution : execLock[x] # NoSession => confirmed[x[2]]
-----------------------------------------------------------------------------
LEMMA ChainInit == SystemInit => ChainInv /\ FiredInv
BY DEF SystemInit, Init, RoutingInit, ChainInv, FiredInv, W!Init

\* What the bridge leaves to routing and settlement.
LEMMA StepIsStep ==
  ASSUME ChainInv, [SystemNext]_systemVars
  PROVE  [Next]_vars
<1>1. CASE UNCHANGED systemVars
  BY <1>1 DEF systemVars
<1>2. CASE Elapse
  BY <1>2 DEF Elapse, Next
<1>3. CASE ProcessRestart
  BY <1>3 DEF ProcessRestart, Next
<1>4. ASSUME NEW t \in Trigger, Arrive(t) \/ Decide(t) PROVE UNCHANGED vars
  BY <1>4 DEF Arrive, Decide
<1>5. ASSUME NEW w \in Worker, WatcherStep(w) PROVE [Next]_vars
  <2>1. w \in Session /\ CreditedUser \in User
    BY SystemAssumption
  <2>2. CASE Detect(w) \/ BeginConfirm(w) \/ TickOn(w)
    BY <2>2 DEF Detect, BeginConfirm, TickOn
  <2>3. CASE CreditDeposit(w)
    <3>1. Head(todo[w]) \in Trigger
      BY <2>3 DEF CreditDeposit, W!CreditDeposit, ChainInv
    <3> QED BY <2>3, <3>1 DEF CreditDeposit, Next, RoutingStep
  <2>4. CASE HookBegin(w)
    <3>1. Head(todo[w]) \in Trigger
      BY <2>4 DEF HookBegin, ChainInv
    <3> QED BY <2>1, <2>4, <3>1 DEF HookBegin, Next, RoutingStep, Requests
  <2>5. CASE HookReserve(w) \/ HookCommit(w) \/ HookDispatch(w)
    BY <2>1, <2>5 DEF HookReserve, HookCommit, HookDispatch, Next, RoutingStep, ReservationStep
  <2>6. CASE HookThrows(w)
    BY <2>1, <2>6 DEF HookThrows, Next, RoutingStep, ReservationStep, vars
  <2> QED BY <1>5, <2>2, <2>3, <2>4, <2>5, <2>6 DEF WatcherStep
<1>6. ASSUME NEW s \in Session, Serve(s) \/ Continue(s) \/ Failure(s) PROVE [Next]_vars
  BY <1>6 DEF Serve, Continue, Failure, HandlerStep, Next, RoutingStep
<1> QED BY <1>1, <1>2, <1>3, <1>4, <1>5, <1>6 DEF SystemNext, Handler

\* Only the credit confirms a trigger.
Quiet(s) == \/ Requests(s) \/ ReservationStep(s) \/ AbandonReservation(s)
            \/ DispatchStep(s) \/ AbandonDispatch(s) \/ Settle(s) \/ Poll(s)
            \/ SettlementStep(s) \/ AbandonSettlement(s)

LEMMA QuietConfirmed ==
  ASSUME NEW s \in Session, Quiet(s)
  PROVE  UNCHANGED confirmed
<1>1. DispatchStep(s) \/ AbandonDispatch(s) => UNCHANGED confirmed
  BY DEF DispatchStep, ReadReservedLegs, InitiatePayout, RecordAck, EndDispatch, AbandonDispatch,
     bookVars
<1>2. Settle(s) \/ Poll(s) => UNCHANGED confirmed
  BY DEF Settle, Poll, Receive, bookVars
<1>3. SettlementStep(s) \/ AbandonSettlement(s) => UNCHANGED confirmed
  BY DEF SettlementStep, UnknownReference, LockLeg, StaleEvent, MoveLeg, RefuseReversal,
     CloseExecution, LeaveExecution, CommitSettlement, AbandonSettlement, NothingWritten, bookVars
<1>4. Requests(s) \/ ReservationStep(s) \/ AbandonReservation(s) => UNCHANGED confirmed
  BY ReservationWritesLate DEF CommitReservation, bookVars
<1> QED BY <1>1, <1>2, <1>3, <1>4 DEF Quiet

LEMMA HookQuiet ==
  ASSUME NEW w \in Worker,
         HookBegin(w) \/ HookReserve(w) \/ HookCommit(w) \/ HookThrows(w) \/ HookDispatch(w)
  PROVE  UNCHANGED confirmed
<1>1. w \in Session /\ CreditedUser \in User
  BY SystemAssumption
<1>2. ReserveStep(w) \/ CommitReservation(w) \/ ThrowLeg(w) \/ AbandonReservation(w)
      \/ DispatchStep(w)
        => UNCHANGED confirmed
  BY <1>1, QuietConfirmed DEF Quiet, ReservationStep
<1>3. HookBegin(w) => UNCHANGED confirmed
  BY DEF HookBegin, BeginTrigger, bookVars
<1> QED BY <1>2, <1>3 DEF HookReserve, HookCommit, HookThrows, HookDispatch, routingVars, bookVars

\* Only the credit confirms a trigger, and only of a deposit that was shown as
\* deep enough.
LEMMA ChainNext ==
  ASSUME ChainInv, [SystemNext]_systemVars
  PROVE  ChainInv'
<1>1. CASE UNCHANGED <<finality, tick, todo, rooted, confirmed>>
  BY <1>1 DEF ChainInv
<1>2. ASSUME NEW t \in Trigger, Arrive(t) \/ Decide(t) PROVE ChainInv'
  <2> USE DEF Arrive, Decide, W!Decided, W!Land, W!Webhook, W!Deepen, W!Finalize, W!Drop
  <2>1. /\ finality' \in [Trigger -> {"absent", "confirmed", "deep", "final", "dropped", "reorged"}]
        /\ \A x \in Trigger : finality[x] \in PastThreshold => finality'[x] \in PastThreshold
    BY <1>2 DEF W!chainVars, ChainInv, PastThreshold
  <2>2. UNCHANGED <<tick, todo, rooted, confirmed>>
    BY <1>2 DEF W!workerVars, vars, routingVars, bookVars
  <2> QED BY <2>1, <2>2 DEF ChainInv
<1>3. CASE ProcessRestart
  <2>1. UNCHANGED <<finality, confirmed>>
    BY <1>3 DEF ProcessRestart, Restart, bookVars
  <2> QED BY <1>3, <2>1 DEF ProcessRestart, ChainInv
<1>4. ASSUME NEW w \in Worker, CreditDeposit(w) PROVE ChainInv'
  <2> DEFINE t == Head(todo[w])
  <2>1. t \in Trigger /\ finality[t] \in PastThreshold
    BY <1>4 DEF CreditDeposit, W!CreditDeposit, ChainInv
  <2>2. /\ confirmed' = [confirmed EXCEPT ![t] = TRUE]
        /\ tick' = [tick EXCEPT ![w] = "hook"]
        /\ UNCHANGED <<finality, todo, rooted>>
    BY <1>4 DEF CreditDeposit, W!CreditDeposit, ConfirmTrigger, W!chainVars
  <2> QED BY <2>1, <2>2 DEF ChainInv
<1>5. ASSUME NEW w \in Worker,
             Detect(w) \/ BeginConfirm(w) \/ TickOn(w) \/ HookCommit(w) \/ HookThrows(w)
      PROVE  ChainInv'
  <2>1. /\ UNCHANGED <<finality, confirmed>>
        /\ \E next \in {"idle", "detect", "credit"} : tick' = [tick EXCEPT ![w] = next]
        /\ \E list : todo' = [todo EXCEPT ![w] = list]
        /\ \E set \in SUBSET { t \in Trigger : t \in rooted[w] \/ finality[t] \in PastThreshold } :
             rooted' = [rooted EXCEPT ![w] = set]
    <3> USE DEF ChainInv, W!chainVars, W!Advance, vars, routingVars, bookVars
    <3>1. CASE Detect(w)
      <4>1. /\ UNCHANGED <<finality, confirmed, rooted>>
            /\ todo' = [todo EXCEPT ![w] = Tail(@)] /\ tick' = [tick EXCEPT ![w] = "detect"]
        BY <3>1 DEF Detect, W!DetectDeposit
      <4> QED BY <4>1
    <3>2. CASE BeginConfirm(w)
      BY <3>2 DEF BeginConfirm, W!BeginConfirm, W!IsFinal, PastThreshold
    <3>3. CASE TickOn(w)
      BY <3>3 DEF TickOn, W!Scan, W!SkipSignature, W!SkipRow, W!EndTick, W!FailTick
    <3>4. CASE HookCommit(w) \/ HookThrows(w)
      <4>1. UNCHANGED confirmed
        BY <3>4, HookQuiet
      <4>2. W!FireHook(w)
        BY <3>4 DEF HookCommit, HookThrows
      <4> QED BY <4>1, <4>2 DEF W!FireHook
    <3> QED BY <1>5, <3>1, <3>2, <3>3, <3>4
  <2>2. PICK set \in SUBSET { t \in Trigger : t \in rooted[w] \/ finality[t] \in PastThreshold } :
          rooted' = [rooted EXCEPT ![w] = set]
    BY <2>1
  <2>3. /\ rooted' \in [Worker -> SUBSET Trigger]
        /\ \A v \in Worker : rooted'[v] = IF v = w THEN set ELSE rooted[v]
    BY <2>2 DEF ChainInv
  <2>4. /\ tick' \in [Worker -> {"idle", "detect", "credit", "hook"}]
        /\ todo' = [v \in Worker |-> todo'[v]]
        /\ \A v \in Worker : tick'[v] = "hook" => tick[v] = "hook" /\ todo'[v] = todo[v]
    BY <2>1 DEF ChainInv
  <2>5. \A v \in Worker : \A t \in rooted'[v] : finality'[t] \in PastThreshold
    BY <2>1, <2>3 DEF ChainInv
  <2> QED BY <2>1, <2>3, <2>4, <2>5 DEF ChainInv
<1>6. ASSUME Elapse \/ (\E s \in Session : Serve(s) \/ Continue(s) \/ Failure(s))
             \/ (\E w \in Worker : HookBegin(w) \/ HookReserve(w) \/ HookDispatch(w))
             \/ UNCHANGED systemVars
      PROVE  UNCHANGED <<finality, tick, todo, rooted, confirmed>>
  <2>1. CASE UNCHANGED systemVars
    BY <2>1 DEF systemVars, watcherVars, vars, routingVars, bookVars
  <2>2. CASE Elapse
    BY <2>2 DEF Elapse, FinalizeSend, bookVars, watcherVars
  <2>3. ASSUME NEW s \in Session, Serve(s) \/ Continue(s) \/ Failure(s)
        PROVE  UNCHANGED <<finality, tick, todo, rooted, confirmed>>
    <3>1. UNCHANGED watcherVars
      BY <2>3 DEF Serve, Continue, Failure
    <3>2. Quiet(s)
      BY <2>3 DEF Serve, Continue, Failure, HandlerStep, Quiet
    <3> QED BY <3>1, <3>2, QuietConfirmed DEF watcherVars
  <2>4. ASSUME NEW w \in Worker, HookBegin(w) \/ HookReserve(w) \/ HookDispatch(w)
        PROVE  UNCHANGED <<finality, tick, todo, rooted, confirmed>>
    BY <2>4, HookQuiet DEF HookBegin, HookReserve, HookDispatch, watcherVars
  <2> QED BY <1>6, <2>1, <2>2, <2>3, <2>4
<1> QED BY <1>1, <1>2, <1>3, <1>4, <1>5, <1>6 DEF SystemNext, WatcherStep, Handler

\* Nothing new is fired, locked or to fire.
FiresLess ==
  /\ \A x \in Execution : execution[x] = "absent" => execution'[x] = "absent"
  /\ \A s \in Session : firing'[s] \subseteq firing[s]
  /\ \A x \in Execution : execLock[x] = NoSession => execLock'[x] = NoSession

LEMMA LocksFiresLess ==
  ASSUME IInv, NEW s \in Session, ReleaseLocks(s)
  PROVE  \A x \in Execution : execLock[x] = NoSession => execLock'[x] = NoSession
BY DEF ReleaseLocks

\* A reservation fires what it was to fire, of a confirmed trigger.
LEMMA ReservationFired ==
  ASSUME IInv, FiredInv, NEW s \in Session,
         ReservationStep(s) \/ AbandonReservation(s) \/ Requests(s), UNCHANGED confirmed
  PROVE  FiredInv'
<1> USE DEF IInv, StateOK, WorkOK
<1>1. ASSUME NEW t \in Trigger, NEW u \in User, BeginTrigger(s, t, u) PROVE FiredInv'
  <2>1. \A x \in { <<r, t>> : r \in Watching(u) } : x[2] = t
    <3> SUFFICES ASSUME NEW x \in { <<r, t>> : r \in Watching(u) } PROVE x[2] = t
      OBVIOUS
    <3>1. PICK r \in Watching(u) : x = <<r, t>>
      OBVIOUS
    <3> QED BY <3>1
  <2>2. /\ firing' = [firing EXCEPT ![s] = { <<r, t>> : r \in Watching(u) }]
        /\ confirmed[t] /\ UNCHANGED <<execution, execLock>>
    BY <1>1 DEF BeginTrigger, bookVars, lockVars
  <2>3. \A v \in Session : \A x \in firing'[v] : confirmed[x[2]]
    BY <2>1, <2>2 DEF FiredInv
  <2> QED BY <2>2, <2>3 DEF FiredInv
<1>2. ASSUME NEW x \in Execution, BeginRetry(s, x) PROVE FiredInv'
  <2>1. /\ firing' = [firing EXCEPT ![s] = {x}] /\ execLock' = [execLock EXCEPT ![x] = s]
        /\ confirmed[x[2]] /\ UNCHANGED execution
    BY <1>2 DEF BeginRetry, Retryable, LockExecution, bookVars, FiredInv
  <2>2. \A v \in Session : \A y \in firing'[v] : confirmed[y[2]]
    BY <2>1 DEF FiredInv
  <2> QED BY <2>1, <2>2 DEF FiredInv
<1>3. ASSUME InsertExecution(s) PROVE FiredInv'
  <2>1. PICK x \in Execution : /\ x \in firing[s] /\ execLock' = [execLock EXCEPT ![x] = s]
                               /\ UNCHANGED <<execution, firing>>
    BY <1>3 DEF InsertExecution, Oldest, LockExecution, bookVars, draftVars
  <2> QED BY <2>1 DEF FiredInv
<1>4. ASSUME CommitReservation(s) PROVE FiredInv'
  <2>1. /\ \A x \in Execution : execution'[x] # "absent" => execution[x] # "absent" \/ execLock[x] = s
        /\ \A v \in Session : firing'[v] \subseteq firing[v]
        /\ \A x \in Execution : execLock[x] = NoSession => execLock'[x] = NoSession
    <3>1. \A x \in won[s] : execLock[x] = s
      BY <1>4, CommitReservationEffect
    <3> QED BY <1>4, <3>1, LocksFiresLess DEF CommitReservation, EndReservation
  <2>2. s # NoSession
    BY RouteAssumption
  <2> QED BY <2>1, <2>2 DEF FiredInv
<1>5. ASSUME \/ AlreadyFired(s) \/ ReserveLeg(s) \/ RefuseLeg(s) \/ ReleaseSavepoint(s)
             \/ ThrowLeg(s) \/ AbandonReservation(s)
      PROVE  FiredInv'
  <2>1. UNCHANGED execution
    BY <1>5 DEF AlreadyFired, ReserveLeg, RefuseLeg, ReleaseSavepoint, ThrowLeg,
       AbandonReservation, RollbackReservation, bookVars
  <2>2. \A v \in Session : firing'[v] \subseteq firing[v]
    BY <1>5 DEF AlreadyFired, ReserveLeg, RefuseLeg, ReleaseSavepoint, ThrowLeg,
       AbandonReservation, RollbackReservation, EndReservation
  <2>3. \A x \in Execution : execLock[x] = NoSession => execLock'[x] = NoSession
    BY <1>5, LocksFiresLess DEF AlreadyFired, ReserveLeg, RefuseLeg, ReleaseSavepoint, ThrowLeg,
       AbandonReservation, RollbackReservation, EndReservation, lockVars
  <2> QED BY <2>1, <2>2, <2>3 DEF FiredInv
<1> QED BY <1>1, <1>2, <1>3, <1>4, <1>5 DEF ReservationStep, ReserveStep, Requests

\* What a step of routing and settlement fires was confirmed, and stays so.
LEMMA FiredNext ==
  ASSUME IInv, FiredInv, confirmed \in [Trigger -> BOOLEAN], [Next]_vars
  PROVE  FiredInv'
<1> USE DEF IInv, StateOK, WorkOK
<1>1. \A x \in Execution : x[2] \in Trigger
  BY DEF Execution
<1>2. ASSUME \A t \in Trigger : confirmed[t] => confirmed'[t], FiresLess
      PROVE  FiredInv'
  <2>1. \A s \in Session : firing[s] \subseteq Execution
    OBVIOUS
  <2> QED BY <1>1, <1>2, <2>1 DEF FiredInv, FiresLess
<1>3. ASSUME NEW t \in Trigger, ConfirmTrigger(t) PROVE FiredInv'
  <2>1. \A x \in Trigger : confirmed[x] => confirmed'[x]
    BY <1>3 DEF ConfirmTrigger
  <2>2. FiresLess
    BY <1>3 DEF ConfirmTrigger, FiresLess, lockVars, draftVars
  <2> QED BY <1>2, <2>1, <2>2
<1>4. ASSUME NEW s \in Session, ReservationStep(s) \/ AbandonReservation(s) \/ Requests(s)
      PROVE  FiredInv'
  BY <1>4, ReservationFired, QuietConfirmed DEF Quiet
<1>5. ASSUME NEW s \in Session, CloseExecution(s) PROVE FiredInv'
  <2> DEFINE x == ExecutionOf(s)
  <2>1. /\ execLock' = [execLock EXCEPT ![x] = s] /\ execution[x] = "reserved"
        /\ UNCHANGED <<execution, firing, confirmed>>
    BY <1>5 DEF CloseExecution, Closes, LockExecution, NothingWritten, bookVars, draftVars
  <2> HIDE DEF x
  <2> QED BY <2>1 DEF FiredInv
<1>6. ASSUME NEW s \in Session,
             \/ DispatchStep(s) \/ AbandonDispatch(s) \/ Settle(s) \/ Poll(s)
             \/ (SettlementStep(s) /\ ~CloseExecution(s)) \/ AbandonSettlement(s)
      PROVE  FiredInv'
  <2>1. UNCHANGED confirmed
    BY <1>6, QuietConfirmed DEF Quiet
  <2>2. UNCHANGED firing
    BY <1>6 DEF DispatchStep, ReadReservedLegs, InitiatePayout, RecordAck, EndDispatch,
       AbandonDispatch, Settle, Poll, Receive, SettlementStep, UnknownReference, LockLeg,
       StaleEvent, MoveLeg, RefuseReversal, LeaveExecution, CommitSettlement, AbandonSettlement,
       NothingWritten, draftVars
  <2>3. \A x \in Execution : execLock[x] = NoSession => execLock'[x] = NoSession
    BY <1>6, LocksFiresLess DEF DispatchStep, ReadReservedLegs, InitiatePayout, RecordAck,
       EndDispatch, AbandonDispatch, Settle, Poll, Receive, SettlementStep, UnknownReference,
       LockLeg, StaleEvent, MoveLeg, RefuseReversal, LeaveExecution, CommitSettlement,
       AbandonSettlement, EndSession, lockVars
  <2>4. CASE CommitSettlement(s)
    <3>1. \A x \in Execution : execution[x] = "absent" => execution'[x] = "absent"
      BY <2>4, CommitEffect
    <3> QED BY <1>2, <2>1, <2>2, <2>3, <3>1 DEF FiresLess
  <2>5. CASE ~CommitSettlement(s)
    <3>1. UNCHANGED execution
      BY <1>6, <2>5 DEF DispatchStep, ReadReservedLegs, InitiatePayout, RecordAck, EndDispatch,
         AbandonDispatch, Settle, Poll, Receive, SettlementStep, UnknownReference, LockLeg,
         StaleEvent, MoveLeg, RefuseReversal, LeaveExecution, AbandonSettlement,
         NothingWritten, bookVars
    <3> QED BY <1>2, <2>1, <2>2, <2>3, <3>1 DEF FiresLess
  <2> QED BY <2>4, <2>5
<1>7. CASE UNCHANGED vars \/ \E p \in Leg : FinalizeSend(p)
  <2>1. UNCHANGED <<confirmed, execution, firing, execLock>>
    BY <1>7 DEF FinalizeSend, vars, routingVars, bookVars, draftVars, lockVars
  <2> QED BY <1>2, <2>1 DEF FiresLess
<1>8. CASE Restart
  <2>1. /\ UNCHANGED <<confirmed, execution>>
        /\ \A s \in Session : firing'[s] = {}
        /\ \A x \in Execution : execLock'[x] = NoSession
    BY <1>8 DEF Restart, bookVars
  <2> QED BY <1>2, <2>1 DEF FiresLess
<1> QED BY <1>3, <1>4, <1>5, <1>6, <1>7, <1>8 DEF Next, RoutingStep
-----------------------------------------------------------------------------
\* The process is an instance of routing and settlement: the watcher, the bridge
\* and the chain only choose when triggers are confirmed and fired.
THEOREM SystemImplementsSettlement == SystemSpec => Spec
<1>1. SystemInit => Init
  BY DEF SystemInit
<1>2. ChainInv /\ [SystemNext]_systemVars => ChainInv' /\ [Next]_vars
  BY ChainNext, StepIsStep
<1>3. SystemInit => ChainInv
  BY ChainInit
<1> QED BY <1>1, <1>2, <1>3, PTL DEF SystemSpec, Spec

\* No leg exists, reserved or paid, for a deposit the chain dropped before it
\* was final or past the threshold.
THEOREM NonePaidShortOfThreshold == SystemSpec => []PaidOnlyPastThreshold
<1>1. SystemInit => IInv /\ ChainInv /\ FiredInv
  BY InitInv, ChainInit DEF SystemInit
<1>2. IInv /\ ChainInv /\ FiredInv /\ [SystemNext]_systemVars
        => IInv' /\ ChainInv' /\ FiredInv'
  <2> SUFFICES ASSUME IInv, ChainInv, FiredInv, [SystemNext]_systemVars
               PROVE  IInv' /\ ChainInv' /\ FiredInv'
    OBVIOUS
  <2>1. [Next]_vars /\ confirmed \in [Trigger -> BOOLEAN]
    BY StepIsStep DEF ChainInv
  <2> QED BY <2>1, NextInv, ChainNext, FiredNext
<1>3. IInv /\ ChainInv /\ FiredInv => PaidOnlyPastThreshold
  <2> SUFFICES ASSUME IInv, ChainInv, FiredInv, NEW l \in Leg, leg[l] # "absent"
               PROVE  finality[l[1][2]] \in PastThreshold
    BY DEF PaidOnlyPastThreshold, PastThreshold
  <2>1. l[1] \in Execution /\ execution[l[1]] # "absent"
    BY LegParts DEF IInv, BookInv, AllLegsOrNone
  <2> QED BY <2>1 DEF Execution, ChainInv, FiredInv
<1> QED BY <1>1, <1>2, <1>3, PTL DEF SystemSpec
-----------------------------------------------------------------------------
(* Reconciliation: the watcher's tables and its buckets in the process.     *)

Transfer == [status : {"pending", "confirmed"}, user : User, amount : Nat]

\* Every event has its deposit, and the credited ones are those confirmed and
\* booked as off-ramps.
WatchInv ==
  /\ chainEvent \in [Trigger -> {"absent", "detected", "credited"}]
  /\ deposit \in [Trigger -> {W!NoDeposit} \cup Transfer]
  /\ offramps \subseteq Trigger
  /\ W!EventsMatchLedger

\* What the deposits have booked for a user, less what the credits took back
\* from the account the watcher knows.
Booked(u) ==
  [t \in Trigger |-> IF deposit[t] # W!NoDeposit /\ deposit[t].user = u
                     THEN deposit[t].amount ELSE 0]
Drained(u) ==
  [t \in Trigger |-> IF t \in offramps /\ u = CreditedUser THEN ChainAmount[t] ELSE 0]
Left(u) == [t \in Trigger |-> Booked(u)[t] - Drained(u)[t]]

BucketInv ==
  /\ pending \in [User -> Int]
  /\ \A u \in User : pending[u] = SumFunctionOnSet(Left(u), Trigger)

\* A leg has its hold from the reservation on.
HoldInv == \A l \in Leg : hold[l] = "absent" <=> leg[l] = "absent"

LEMMA NotATransfer == W!NoDeposit \notin Transfer /\ W!NoDeposit.status = "absent"
BY DEF W!NoDeposit, Transfer

LEMMA LeftType ==
  ASSUME WatchInv
  PROVE  \A u : \A t \in Trigger : Booked(u)[t] \in Int /\ Drained(u)[t] \in Int /\ Left(u)[t] \in Int
BY SystemAssumption DEF WatchInv, Booked, Drained, Left, Transfer

\* Which steps of the process write the watcher's tables.
LEMMA WatchSteps ==
  ASSUME [SystemNext]_systemVars
  PROVE  \/ UNCHANGED <<chainEvent, deposit, offramps, pending>>
         \/ \E t \in Trigger : W!Webhook(t)
         \/ \E w \in Worker : W!DetectDeposit(w) \/ W!CreditDeposit(w)
<1> USE DEF W!bookVars
<1>1. CASE UNCHANGED systemVars
  BY <1>1 DEF systemVars, watcherVars
<1>2. CASE Elapse \/ ProcessRestart
  BY <1>2 DEF Elapse, ProcessRestart, watcherVars
<1>3. ASSUME NEW t \in Trigger, Arrive(t) \/ Decide(t)
      PROVE  UNCHANGED <<chainEvent, deposit, offramps, pending>> \/ W!Webhook(t)
  BY <1>3 DEF Arrive, Decide, W!Land, W!Decided, W!Deepen, W!Finalize, W!Drop
<1>4. ASSUME NEW s \in Session,
             \/ Serve(s) \/ Continue(s) \/ Failure(s)
             \/ HookBegin(s) \/ HookReserve(s) \/ HookDispatch(s)
      PROVE  UNCHANGED <<chainEvent, deposit, offramps, pending>>
  BY <1>4 DEF Serve, Continue, Failure, HookBegin, HookReserve, HookDispatch, watcherVars
<1>5. ASSUME NEW w \in Worker,
             BeginConfirm(w) \/ TickOn(w) \/ HookCommit(w) \/ HookThrows(w)
      PROVE  UNCHANGED <<chainEvent, deposit, offramps, pending>>
  BY <1>5 DEF BeginConfirm, TickOn, HookCommit, HookThrows, W!BeginConfirm, W!Scan, W!SkipSignature,
     W!SkipRow, W!EndTick, W!FailTick, W!FireHook
<1>6. ASSUME NEW w \in Worker, Detect(w) \/ CreditDeposit(w)
      PROVE  W!DetectDeposit(w) \/ W!CreditDeposit(w)
  BY <1>6 DEF Detect, CreditDeposit
<1>7. Worker \subseteq Session
  BY SystemAssumption
<1> QED BY <1>1, <1>2, <1>3, <1>4, <1>5, <1>6, <1>7 DEF SystemNext, WatcherStep, Handler

\* One deposit whose row changes changes each bucket by what it changes there.
LEMMA LeftChanges ==
  ASSUME WatchInv, WatchInv', BucketInv, NEW t \in Trigger, pending' \in [User -> Int],
         \A x \in Trigger \ {t} : deposit'[x] = deposit[x] /\ (x \in offramps' <=> x \in offramps),
         \A u \in User : pending'[u] = pending[u] + (Left(u)'[t] - Left(u)[t])
  PROVE  BucketInv'
<1> SUFFICES ASSUME NEW u \in User
             PROVE  pending'[u] = SumFunctionOnSet(Left(u)', Trigger)
  BY DEF BucketInv
<1> DEFINE f == Left(u)
           g == Left(u)'
<1>1. \A x \in Trigger : f[x] \in Int
  BY LeftType
<1>2. \A x \in Trigger : g[x] \in Int
  BY SystemAssumption DEF WatchInv, Booked, Drained, Left, Transfer, W!NoDeposit
<1>3. \A x \in Trigger \ {t} : f[x] = g[x]
  BY DEF Left, Booked, Drained, W!NoDeposit
<1>4. pending[u] = SumFunctionOnSet(f, Trigger) /\ pending'[u] = pending[u] + (g[t] - f[t])
  BY DEF BucketInv
<1> HIDE DEF f, g
<1>5. SumFunctionOnSet(g, Trigger) = SumFunctionOnSet(f, Trigger) + (g[t] - f[t])
  BY <1>1, <1>2, <1>3, SumChange, FiniteAssumption
<1> QED BY <1>4, <1>5 DEF g

LEMMA WatchKept ==
  ASSUME WatchInv, BucketInv, UNCHANGED <<chainEvent, deposit, offramps, pending>>
  PROVE  WatchInv' /\ BucketInv'
BY DEF WatchInv, BucketInv, Left, Booked, Drained, W!EventsMatchLedger, W!NoDeposit

\* Who books a deposit books it once, as pending, beside a new event or none.
LEMMA BookDepositWatch ==
  ASSUME WatchInv, BucketInv, NEW t \in Trigger, NEW u \in User, NEW n \in Nat,
         W!BookDeposit(t, u, n), UNCHANGED offramps,
         \/ UNCHANGED chainEvent
         \/ chainEvent[t] = "absent" /\ chainEvent' = [chainEvent EXCEPT ![t] = "detected"]
  PROVE  WatchInv' /\ BucketInv'
<1> DEFINE row == [status |-> "pending", user |-> u, amount |-> n]
<1>1. /\ chainEvent' \in [Trigger -> {"absent", "detected", "credited"}]
      /\ \A x \in Trigger : /\ chainEvent'[x] = "credited" <=> chainEvent[x] = "credited"
                            /\ x # t => chainEvent'[x] = chainEvent[x]
  BY DEF WatchInv
<1>2. UNCHANGED W!NoDeposit
  BY DEF W!NoDeposit
<1>3. CASE ~W!KeyFree(t)
  <2>1. UNCHANGED <<deposit, pending>> /\ deposit[t] # W!NoDeposit
    BY <1>3 DEF W!BookDeposit, W!KeyFree
  <2>2. WatchInv'
    BY <1>1, <1>2, <2>1 DEF WatchInv, W!EventsMatchLedger
  <2>3. BucketInv'
    BY <2>1 DEF BucketInv, Left, Booked, Drained, W!NoDeposit
  <2> QED BY <2>2, <2>3
<1>4. CASE W!KeyFree(t)
  <2>1. /\ deposit' = [deposit EXCEPT ![t] = row]
        /\ pending' = [pending EXCEPT ![u] = @ + n]
        /\ deposit[t] = W!NoDeposit
    BY <1>4 DEF W!BookDeposit, W!KeyFree
  <2>2. t \notin offramps
    BY <2>1, NotATransfer DEF WatchInv, W!EventsMatchLedger
  <2>3. row \in Transfer /\ row # W!NoDeposit /\ row.status = "pending"
    BY NotATransfer DEF Transfer
  <2> HIDE DEF row
  <2>4. /\ deposit' \in [Trigger -> {W!NoDeposit} \cup Transfer]
        /\ deposit'[t] = row /\ \A x \in Trigger \ {t} : deposit'[x] = deposit[x]
    BY <2>1, <2>3 DEF WatchInv
  <2>5. WatchInv'
    BY <1>1, <1>2, <2>1, <2>2, <2>3, <2>4, NotATransfer DEF WatchInv, W!EventsMatchLedger
  <2>6. \A v \in User : Left(v)[t] = 0 /\ Left(v)'[t] = IF v = u THEN n ELSE 0
    <3>1. \A v \in User : Left(v)[t] = 0
      BY <2>1, <2>2 DEF Left, Booked, Drained
    <3>2. ASSUME NEW v \in User PROVE Booked(v)'[t] = IF v = u THEN n ELSE 0
      BY <1>2, <2>3, <2>4 DEF Booked, row
    <3>3. \A v \in User : Drained(v)'[t] = 0
      BY <2>2 DEF Drained
    <3> QED BY <3>1, <3>2, <3>3 DEF Left
  <2>7. \A v \in User : pending'[v] = pending[v] + (Left(v)'[t] - Left(v)[t])
    BY <2>1, <2>6 DEF BucketInv
  <2>8. pending' \in [User -> Int]
    BY <2>1 DEF BucketInv
  <2> QED BY <2>4, <2>5, <2>7, <2>8, LeftChanges
<1> QED BY <1>3, <1>4

\* A credit drains the amount the chain showed from the credited account.
LEMMA CreditDepositWatch ==
  ASSUME ChainInv, WatchInv, BucketInv, NEW w \in Worker, W!CreditDeposit(w)
  PROVE  WatchInv' /\ BucketInv'
<1> DEFINE t == Head(todo[w])
<1>1. t \in Trigger /\ chainEvent[t] = "detected"
  BY DEF W!CreditDeposit, W!Advances, ChainInv
<1>2. t \notin offramps /\ deposit[t] \in Transfer
  BY <1>1 DEF WatchInv, W!EventsMatchLedger
<1>3. /\ chainEvent' = [chainEvent EXCEPT ![t] = "credited"]
      /\ deposit' = [deposit EXCEPT ![t].status = "confirmed"]
      /\ offramps' = offramps \cup {t}
      /\ pending' = [pending EXCEPT ![CreditedUser] = @ - ChainAmount[t]]
  BY <1>2 DEF W!CreditDeposit
<1> HIDE DEF t
<1>4. /\ deposit'[t] \in Transfer /\ deposit'[t].status = "confirmed"
      /\ deposit'[t].user = deposit[t].user /\ deposit'[t].amount = deposit[t].amount
      /\ \A x \in Trigger \ {t} : deposit'[x] = deposit[x]
  BY <1>1, <1>2, <1>3 DEF WatchInv, Transfer
<1>5. UNCHANGED W!NoDeposit
  BY DEF W!NoDeposit
<1>6. WatchInv'
  <2>1. deposit' \in [Trigger -> {W!NoDeposit} \cup Transfer]
    BY <1>1, <1>3, <1>4 DEF WatchInv
  <2> QED BY <1>1, <1>2, <1>3, <1>4, <1>5, <2>1, NotATransfer DEF WatchInv, W!EventsMatchLedger
<1>7. ASSUME NEW u \in User
      PROVE  Left(u)'[t] - Left(u)[t] = IF u = CreditedUser THEN -ChainAmount[t] ELSE 0
  <2>1. Booked(u)'[t] = Booked(u)[t]
    BY <1>1, <1>2, <1>4, <1>5, NotATransfer DEF Booked
  <2>2. Drained(u)[t] = 0 /\ Drained(u)'[t] = IF u = CreditedUser THEN ChainAmount[t] ELSE 0
    BY <1>1, <1>2, <1>3 DEF Drained
  <2>3. Booked(u)[t] \in Int /\ ChainAmount[t] \in Int
    BY <1>1, LeftType, SystemAssumption
  <2> QED BY <1>1, <2>1, <2>2, <2>3 DEF Left
<1>8. pending' \in [User -> Int]
      /\ \A u \in User : pending'[u] = pending[u] + (Left(u)'[t] - Left(u)[t])
  BY <1>1, <1>3, <1>7, SystemAssumption DEF BucketInv
<1>9. \A x \in Trigger \ {t} : deposit'[x] = deposit[x] /\ (x \in offramps' <=> x \in offramps)
  BY <1>3, <1>4
<1> QED BY <1>1, <1>6, <1>8, <1>9, LeftChanges

LEMMA WatchNext ==
  ASSUME ChainInv, WatchInv, BucketInv, [SystemNext]_systemVars
  PROVE  WatchInv' /\ BucketInv'
<1>1. CASE UNCHANGED <<chainEvent, deposit, offramps, pending>>
  BY <1>1, WatchKept
<1>2. ASSUME NEW t \in Trigger, W!Webhook(t) PROVE WatchInv' /\ BucketInv'
  <2>1. PICK b \in WebhookBody[t] : W!BookDeposit(t, b.user, b.amount)
    BY <1>2 DEF W!Webhook
  <2>2. b.user \in User /\ b.amount \in Nat
    BY SystemAssumption
  <2>3. UNCHANGED <<offramps, chainEvent>>
    BY <1>2 DEF W!Webhook
  <2> QED BY <2>1, <2>2, <2>3, BookDepositWatch
<1>3. ASSUME NEW w \in Worker, W!DetectDeposit(w) PROVE WatchInv' /\ BucketInv'
  <2>1. PICK t \in Trigger :
          /\ W!BookDeposit(t, CreditedUser, ChainAmount[t]) /\ UNCHANGED offramps
          /\ chainEvent[t] = "absent" /\ chainEvent' = [chainEvent EXCEPT ![t] = "detected"]
    BY <1>3 DEF W!DetectDeposit
  <2>2. CreditedUser \in User /\ ChainAmount[t] \in Nat
    BY SystemAssumption
  <2> QED BY <2>1, <2>2, BookDepositWatch
<1> QED BY <1>1, <1>2, <1>3, WatchSteps, CreditDepositWatch

LEMMA HoldNext ==
  ASSUME IInv, HoldInv, [Next]_vars
  PROVE  HoldInv'
<1> USE DEF HoldInv, IInv, StateOK
<1>1. CASE UNCHANGED <<leg, hold>>
  BY <1>1
<1>2. ASSUME NEW s \in Session, CommitReservation(s) PROVE HoldInv'
  BY <1>2 DEF CommitReservation, BookLegs
<1>3. ASSUME NEW s \in Session, RecordAck(s) PROVE HoldInv'
  BY <1>3 DEF RecordAck
<1>4. ASSUME NEW s \in Session, CommitSettlement(s) PROVE HoldInv'
  <2>1. /\ target[s] \in Leg /\ leg[target[s]] = "initiated"
        /\ event[s].status \in {"settled", "failed"}
        /\ \A l \in Leg : leg'[l] = IF l = target[s] THEN event[s].status ELSE leg[l]
    BY <1>4, CommitEffect, Settling
  <2>2. /\ hold'[target[s]] \in {"failed", "confirmed"}
        /\ \A l \in Leg : l # target[s] => hold'[l] = hold[l]
    BY <1>4, <2>1 DEF CommitSettlement
  <2> QED BY <2>1, <2>2
<1> QED BY <1>1, <1>2, <1>3, <1>4, MoneySteps DEF ConfirmTrigger

\* The entries of a user's legs are what those legs hold or have taken.
LEMMA EntriesAreHolds ==
  ASSUME IInv, ReversalInv, HoldInv, NEW u
  PROVE  \A l \in Leg : LegEntries(u)[l] = Held(u)[l]
<1> SUFFICES ASSUME NEW l \in Leg PROVE LegEntries(u)[l] = Held(u)[l]
  OBVIOUS
<1>1. /\ hold[l] = "absent" <=> leg[l] = "absent"
      /\ leg[l] = "failed" <=> l \in reversed
  BY DEF HoldInv, IInv, BookInv, HoldsFollowLegs
<1>2. Debit[l] \in Nat /\ ActionOf(l) \in Action
  BY LegAction
<1>3. l \in reversed => ActionOf(l).source = Debit[l]
  BY <1>2 DEF ReversalInv, Reversible, Debit, Action
<1> QED BY <1>1, <1>2, <1>3 DEF LegEntries, Held

\* The entries of a user's deposits make up what is pending and was credited.
LEMMA EntriesAreBuckets ==
  ASSUME WatchInv, NEW u
  PROVE  SumFunctionOnSet(DepositEntries(u), Trigger)
           = -(SumFunctionOnSet(Left(u), Trigger) + SumFunctionOnSet(Credited(u), Trigger))
<1> DEFINE e == DepositEntries(u)
           f == Left(u)
           c == Credited(u)
           ef == [t \in Trigger |-> e[t] + f[t]]
           none == [t \in Trigger |-> 0]
<1>1. \A t \in Trigger : f[t] \in Int /\ c[t] \in Int
  BY LeftType, MoneyType
<1>2. \A t \in Trigger : e[t] = -f[t] - c[t]
  <2> SUFFICES ASSUME NEW t \in Trigger PROVE e[t] = -f[t] - c[t]
    OBVIOUS
  <2>1. /\ e[t] = Drained(u)[t] - Booked(u)[t] - c[t]
        /\ f[t] = Booked(u)[t] - Drained(u)[t]
    BY DEF DepositEntries, Left, Booked, Drained
  <2>2. Booked(u)[t] \in Int /\ Drained(u)[t] \in Int /\ c[t] \in Int
    BY <1>1, LeftType
  <2> HIDE DEF c, f, e
  <2> QED BY <2>1, <2>2
<1> HIDE DEF e, f, c
<1>3. \A t \in Trigger : /\ e[t] \in Int /\ ef[t] \in Int
                         /\ ef[t] = e[t] + f[t] /\ none[t] = ef[t] + c[t]
  BY <1>1, <1>2
<1>4. \A t \in Trigger : none[t] = 0
  OBVIOUS
<1> HIDE DEF ef, none
<1>5. Trigger \in SUBSET Trigger /\ Trigger \ Trigger = {}
  OBVIOUS
<1>6. SumFunctionOnSet(ef, Trigger) = SumFunctionOnSet(e, Trigger) + SumFunctionOnSet(f, Trigger)
  BY <1>1, <1>3, <1>5, SumAdd, FiniteAssumption
<1>7. SumFunctionOnSet(none, Trigger) = SumFunctionOnSet(ef, Trigger) + SumFunctionOnSet(c, Trigger)
  BY <1>1, <1>3, <1>5, SumAdd, FiniteAssumption
<1>8. SumFunctionOnSet(none, Trigger) = 0
  BY <1>4, SumZero, FiniteAssumption
<1>9. /\ SumFunctionOnSet(e, Trigger) \in Int /\ SumFunctionOnSet(f, Trigger) \in Int
      /\ SumFunctionOnSet(c, Trigger) \in Int
  BY <1>1, <1>3, SumInt, FiniteAssumption
<1>10. SumFunctionOnSet(e, Trigger) = -(SumFunctionOnSet(f, Trigger) + SumFunctionOnSet(c, Trigger))
  BY <1>6, <1>7, <1>8, <1>9
<1> QED BY <1>10 DEF e, f, c

\* All that recon's answers rest on.
ReconInv == /\ IInv /\ MoneyInv /\ ReversalInv /\ PurseInv
            /\ ChainInv /\ WatchInv /\ BucketInv /\ HoldInv

LEMMA ReconInit == SystemInit => ReconInv
<1> SUFFICES ASSUME SystemInit PROVE ReconInv
  OBVIOUS
<1>1. IInv /\ MoneyInv /\ ReversalInv /\ PurseInv /\ ChainInv
  BY InitInv, MoneyInit, ChainInit DEF SystemInit
<1>2. WatchInv /\ HoldInv
  BY NotATransfer DEF SystemInit, W!Init, Init, RoutingInit, WatchInv, HoldInv, W!EventsMatchLedger
<1>3. \A u \in User : \A t \in Trigger : Left(u)[t] = 0
  BY DEF SystemInit, W!Init, Left, Booked, Drained
<1>4. \A u \in User : SumFunctionOnSet(Left(u), Trigger) = 0
  BY <1>3, SumZero, FiniteAssumption
<1>5. BucketInv
  BY <1>4 DEF SystemInit, W!Init, BucketInv
<1> QED BY <1>1, <1>2, <1>5 DEF ReconInv

LEMMA ReconNext ==
  ASSUME ReconInv, [SystemNext]_systemVars
  PROVE  ReconInv'
<1>1. [Next]_vars
  BY StepIsStep DEF ReconInv
<1>2. IInv' /\ MoneyInv' /\ ReversalInv' /\ HoldInv'
  BY <1>1, NextInv, MoneyNext, ReversalNext, HoldNext DEF ReconInv
<1>3. PurseInv'
  BY <1>1, <1>2, PurseNext DEF ReconInv
<1>4. ChainInv' /\ WatchInv' /\ BucketInv'
  BY ChainNext, WatchNext DEF ReconInv
<1> QED BY <1>2, <1>3, <1>4 DEF ReconInv

LEMMA ReconAlways == SystemSpec => []ReconInv
<1> QED BY ReconNext, ReconInit, PTL DEF SystemSpec

\* Recon raises no false alarm, however transfers commit between its queries: an
\* event has its deposit, a statement its leg's transfer, and the entries rebuild
\* the counters of every account.
THEOREM NoFalseAlarm == SystemSpec => []OnlyRealFindings
<1>1. ASSUME ReconInv PROVE OnlyRealFindings
  <2>1. OrphanEvents = {}
    BY <1>1 DEF ReconInv, WatchInv, W!EventsMatchLedger, OrphanEvents
  <2>2. OrphanStatements = {}
    <3> SUFFICES ASSUME NEW r \in statement
                 PROVE  /\ \E l \in Leg : ref[l] = r
                        /\ \A l \in Leg : ref[l] = r => hold[l] # "absent"
      BY DEF OrphanStatements
    <3>1. PICK k \in Leg : leg[k] = "settled" /\ ref[k] = r
      BY <1>1 DEF ReconInv, IInv, RefInv
    <3>2. r # NoRef
      BY <1>1, <3>1 DEF ReconInv, IInv, RefInv
    <3>3. \A l \in Leg : ref[l] = r => leg[l] # "absent"
      BY <1>1, <3>2 DEF ReconInv, IInv, RefInv
    <3> QED BY <1>1, <3>1, <3>3 DEF ReconInv, HoldInv
  <2>3. ASSUME NEW u \in User PROVE headroom[u] + pending[u] = -EntriesOf(u)
    <3> DEFINE deposits == SumFunctionOnSet(DepositEntries(u), Trigger)
               legs == SumFunctionOnSet(LegEntries(u), Leg)
               booked == SumFunctionOnSet(Left(u), Trigger)
               credited == SumFunctionOnSet(Credited(u), Trigger)
               held == SumFunctionOnSet(Held(u), Leg)
    <3>1. EntriesOf(u) = deposits + legs
      BY DEF EntriesOf, SumFunction, DepositEntries, LegEntries
    <3>2. deposits = -(booked + credited)
      BY <1>1, EntriesAreBuckets DEF ReconInv
    <3>3. legs = held
      BY <1>1, EntriesAreHolds, SumEqual, FiniteLeg DEF ReconInv
    <3>4. headroom[u] = credited - held /\ pending[u] = booked
      BY <1>1 DEF ReconInv, MoneyInv, BucketInv
    <3>5. booked \in Int /\ credited \in Int /\ held \in Int
      BY <1>1, MoneyType DEF ReconInv, BucketInv
    <3> HIDE DEF deposits, legs, booked, credited, held
    <3> QED BY <3>1, <3>2, <3>3, <3>4, <3>5
  <2>4. Drift = {}
    BY <2>3 DEF Drift
  <2> QED BY <2>1, <2>2, <2>4 DEF OnlyRealFindings
<1> QED BY <1>1, ReconAlways, PTL

\* Recon is a backstop as long as references last: a deposit that is still
\* pending and a leg that is still open come up in its queries, and no event or
\* statement hides them.
THEOREM NothingSlipsThrough ==
  ASSUME RefsLast
  PROVE  SystemSpec => []OpenIsReported
<1>1. SystemInit => OwnInv
  BY DEF SystemInit, Init, RoutingInit, OwnInv
<1>2. ReconInv /\ OwnInv /\ [SystemNext]_systemVars => OwnInv'
  BY OwnNext, StepIsStep DEF ReconInv
<1>3. ASSUME ReconInv, OwnInv PROVE OpenIsReported
  <2>1. ASSUME NEW t \in Trigger, deposit[t].status = "pending" PROVE t \in StuckTransfers(Trigger)
    BY <1>3, <2>1 DEF ReconInv, WatchInv, W!EventsMatchLedger, StuckTransfers
  <2>2. ASSUME NEW l \in Leg, leg[l] \in {"reserved", "initiated"} PROVE l \in StuckLegs(Leg)
    <3>1. ref[l] \notin statement
      BY <1>3, <2>2, StatementsOwned DEF ReconInv, BooksFollowLegs
    <3> QED BY <2>2, <3>1 DEF StuckLegs
  <2> QED BY <2>1, <2>2 DEF OpenIsReported
<1> QED BY <1>1, <1>2, <1>3, ReconAlways, PTL DEF SystemSpec
=============================================================================
