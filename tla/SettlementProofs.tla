-------------------------- MODULE SettlementProofs ---------------------------
(***************************************************************************)
(* Safety of routing and settlement for every set of handlers, routes,     *)
(* actions, triggers and credits.  Nothing is assumed of the legs a        *)
(* dispatch has read: one acts only where it indexes the tables.           *)
(***************************************************************************)
EXTENDS Settlement, SumTheorems

\* What a reservation or a dispatch works through, and the guards it locks.
WorkOK ==
  /\ guardLock \in [User -> Session \cup {NoSession}]
  /\ firing \in [Session -> SUBSET Execution]
  /\ draft \in [Session -> SUBSET Leg]
  /\ won \in [Session -> SUBSET Execution]
  /\ queue \in [Session -> SUBSET Execution]
  /\ left \in [Session -> SUBSET Leg]

StateOK ==
  /\ execution \in [Execution -> ExecutionStatus]
  /\ leg \in [Leg -> LegStatus]
  /\ ref \in [Leg -> ExternalRef \cup {NoRef}]
  /\ hold \in [Leg -> HoldStatus]
  /\ payout \in [Leg -> PayoutRecord \cup {NoPayout}] /\ issued \in Nat
  /\ pc \in [Session -> {"idle", "fire", "reserve", "dispatch", "acked",
                          "lookup", "move", "close", "commit"}]
  /\ reversed \subseteq Leg
  /\ event \in [Session -> Event \cup {NoEvent}]
  /\ target \in [Session -> Leg \cup {NoLeg}]
  /\ verdict \in [Session -> {"none", "completed", "failed"}]
  /\ legLock \in [Leg -> Session \cup {NoSession}]
  /\ execLock \in [Execution -> Session \cup {NoSession}]
  /\ restarts \in 0 .. MaxRestarts
  /\ WorkOK

\* The providers' memory: a payout has its own reference, and what the bank
\* counted it counted once.
PayoutInv ==
  /\ \A l \in Leg : Known(l) =>
       IF ProviderOf[l] = "legacybank"
       THEN \E n \in 1 .. issued : payout[l].ref = Counted(n)
       ELSE payout[l].ref = Digest(l)
  /\ \A k, l \in Leg :
       /\ ProviderOf[k] = "legacybank" /\ ProviderOf[l] = "legacybank"
       /\ Known(k) /\ Known(l) /\ payout[k].ref = payout[l].ref
       => k = l

\* A handler that has the provider's answer is about a payout it remembers.
AckInv ==
  \A s \in Session : pc[s] = "acked" /\ NextLeg(s) \in Leg => Known(NextLeg(s))

\* A leg has a reference once it is initiated, and the statements are those of
\* the settled legs.
RefInv ==
  /\ \A l \in Leg : ref[l] # NoRef <=> leg[l] \in {"initiated", "settled", "failed"}
  /\ \A l \in Leg : leg[l] = "settled" => ref[l] \in statement
  /\ \A r \in statement : \E l \in Leg : leg[l] = "settled" /\ ref[l] = r

\* A settlement holds the lock of the leg it moves, which stays movable until
\* it commits; what it wrote to the execution it wrote under that row's lock,
\* and a failure that wrote nothing found the execution failed.
SessionOK(s) ==
  /\ pc[s] = "lookup" => event[s] \in Event
  /\ pc[s] \in {"move", "close", "commit"} =>
       /\ event[s] \in Event /\ target[s] \in Leg
       /\ ref[target[s]] # NoRef
       /\ legLock[target[s]] = s
  /\ pc[s] \in {"close", "commit"} => leg[target[s]] = "initiated"
  /\ verdict[s] # "none" =>
       /\ pc[s] = "commit"
       /\ execLock[ExecutionOf(s)] = s
       /\ execution[ExecutionOf(s)] = "reserved"
  /\ verdict[s] = "completed" => event[s].status = "settled" /\ SeesAllSettled(s)
  /\ verdict[s] = "failed" => event[s].status = "failed"
  /\ pc[s] = "commit" /\ verdict[s] = "none" /\ event[s].status = "failed" =>
       execution[ExecutionOf(s)] = "failed"

SessionInv == \A s \in Session : SessionOK(s)

\* A reservation has locked every execution it works on, all of them without a
\* leg so far; what it has won is in with all its legs, and beyond that it has
\* only legs of the execution it is at.
DraftOK(s) ==
  /\ pc[s] \notin {"fire", "reserve"} => firing[s] = {} /\ draft[s] = {} /\ won[s] = {}
  /\ \A x \in Execution : execLock[x] = s =>
       \/ pc[s] = "commit"
       \/ pc[s] \in {"fire", "reserve"} /\ execution[x] \in {"absent", "insufficient_funds"}
  /\ \A x, y \in firing[s] : x[1] = y[1] => x = y
  /\ \A x \in firing[s] : pc[s] = "reserve" /\ Oldest(firing[s], x) => execLock[x] = s
  /\ \A x \in won[s] : execLock[x] = s /\ x \notin firing[s] /\ LegsOf(x) \subseteq draft[s]
  /\ \A l \in draft[s] : l[1] \in won[s] \/ (pc[s] = "reserve" /\ Oldest(firing[s], l[1]))

DraftInv == \A s \in Session : DraftOK(s)

\* BooksFollowLegs, but for whose a statement is.
HoldsFollowLegs ==
  \A l \in Leg :
    /\ leg[l] = "settled" <=> hold[l] = "confirmed"
    /\ leg[l] = "failed" <=> hold[l] = "failed"
    /\ leg[l] = "failed" <=> l \in reversed

BookInv == AllLegsOrNone /\ HoldsFollowLegs /\ OutcomeMatchesLegs

IInv == StateOK /\ PayoutInv /\ AckInv /\ RefInv /\ SessionInv /\ DraftInv /\ BookInv

\* What the ledger and the routing tables say of legs and executions.
tables == <<execution, leg, ref, hold, reversed, statement>>
-----------------------------------------------------------------------------
LEMMA LegParts ==
  /\ \A l \in Leg : l[1] \in Execution /\ l \in LegsOf(l[1])
  /\ \A x : \A l \in LegsOf(x) : l \in Leg /\ l[1] = x
BY DEF Leg, LegsOf

LEMMA LegProvider == \A l \in Leg : ProviderOf[l] \in Provider
<1> SUFFICES ASSUME NEW l \in Leg PROVE ProviderOf[l] \in Provider
  OBVIOUS
<1>1. PICK x \in Execution : \E i \in DOMAIN RouteActions[x[1]] : l = <<x, i>>
  BY DEF Leg
<1>2. x[1] \in Route /\ RouteActions[x[1]] \in Seq(Action)
  BY RouteAssumption DEF Execution
<1>3. RouteActions[x[1]][l[2]] \in Action /\ l[1] = x
  BY <1>1, <1>2
<1> QED BY <1>1, <1>3 DEF ProviderOf, ActionOf, Action, Provider

LEMMA Nothings ==
  /\ NoRef \notin ExternalRef
  /\ NoPayout \notin PayoutRecord
  /\ NoEvent \notin Event
BY DEF NoRef, ExternalRef, Provider, NoPayout, PayoutRecord, PayoutStatus, NoEvent, Event

LEMMA DigestType ==
  /\ \A l \in Leg : Digest(l) \in ExternalRef
  /\ \A k, l \in Leg : Digest(k) = Digest(l) => k = l
  /\ \A n \in Nat : Counted(n) \in ExternalRef
  /\ \A l \in Leg, n \in Nat : ProviderOf[l] # "legacybank" => Digest(l) # Counted(n)
  /\ \A m, n \in Nat : Counted(m) = Counted(n) => m = n
BY LegProvider DEF Digest, Counted, ExternalRef
-----------------------------------------------------------------------------
LEMMA InitInv == Init => IInv
<1> SUFFICES ASSUME Init PROVE IInv
  OBVIOUS
<1> USE DEF Init, RoutingInit, ProvidersInit
<1>1. StateOK
  BY SettlementAssumption DEF StateOK, WorkOK, ExecutionStatus, LegStatus, HoldStatus
<1>2. PayoutInv /\ AckInv
  BY DEF PayoutInv, AckInv, Known
<1>3. RefInv
  BY DEF RefInv
<1>4. SessionInv
  BY DEF SessionInv, SessionOK
<1>5. DraftInv
  BY RouteAssumption DEF DraftInv, DraftOK
<1>6. BookInv
  BY LegParts DEF BookInv, AllLegsOrNone, HoldsFollowLegs, OutcomeMatchesLegs
<1> QED BY <1>1, <1>2, <1>3, <1>4, <1>5, <1>6 DEF IInv
-----------------------------------------------------------------------------
(* What a step that leaves the tables alone has to show.                    *)

LEMMA TablesKept ==
  ASSUME RefInv, BookInv, UNCHANGED tables
  PROVE  RefInv' /\ BookInv'
BY DEF RefInv, BookInv, AllLegsOrNone, HoldsFollowLegs, OutcomeMatchesLegs, tables

\* What another step may not do to a session: touch the leg it holds, a settled
\* leg, the execution it wrote or a failed one.
LEMMA SessionKept ==
  ASSUME StateOK, NEW s \in Session, SessionOK(s),
         pc'[s] = pc[s], event'[s] = event[s], target'[s] = target[s],
         verdict'[s] = verdict[s],
         \A l \in Leg : legLock[l] = s => legLock'[l] = s,
         \A x \in Execution : execLock[x] = s => execLock'[x] = s,
         \A l \in Leg : (l = target[s] /\ ref[l] # NoRef) \/ leg[l] = "settled"
                          => ref'[l] = ref[l] /\ leg'[l] = leg[l],
         \A x \in Execution : execLock[x] = s \/ execution[x] = "failed"
                                => execution'[x] = execution[x]
  PROVE  SessionOK(s)'
<1>1. CASE pc[s] \notin {"move", "close", "commit"}
  BY <1>1 DEF SessionOK
<1>2. CASE pc[s] \in {"move", "close", "commit"}
  <2>1. /\ target[s] \in Leg /\ ref[target[s]] # NoRef /\ legLock[target[s]] = s
        /\ ExecutionOf(s) \in Execution /\ ExecutionOf(s)' = ExecutionOf(s)
    BY <1>2, LegParts DEF SessionOK, ExecutionOf
  <2>2. /\ ref'[target[s]] = ref[target[s]] /\ leg'[target[s]] = leg[target[s]]
        /\ legLock'[target[s]] = s
    BY <2>1
  <2>3. SeesAllSettled(s) => SeesAllSettled(s)'
    BY <2>1, LegParts DEF SeesAllSettled, LegsOf
  <2> QED BY <1>2, <2>1, <2>2, <2>3 DEF SessionOK
<1> QED BY <1>1, <1>2

LEMMA SessionAway ==
  ASSUME NEW s \in Session, pc'[s] \in {"idle", "fire", "reserve", "dispatch", "acked"},
         verdict'[s] = "none"
  PROVE  SessionOK(s)'
BY DEF SessionOK

\* Nor to a reservation: touch what it works on, its locks or what it locked.
LEMMA DraftKept ==
  ASSUME NEW s \in Session, DraftOK(s),
         pc'[s] = pc[s], firing'[s] = firing[s], draft'[s] = draft[s], won'[s] = won[s],
         \A x \in Execution : execLock'[x] = s <=> execLock[x] = s,
         \A x \in Execution : execLock[x] = s /\ pc[s] # "commit" => execution'[x] = execution[x],
         firing[s] \subseteq Execution, won[s] \subseteq Execution
  PROVE  DraftOK(s)'
<1>1. \A x \in Execution : execLock'[x] = s =>
        \/ pc'[s] = "commit"
        \/ pc'[s] \in {"fire", "reserve"} /\ execution'[x] \in {"absent", "insufficient_funds"}
  BY DEF DraftOK
<1>2. /\ \A x \in firing[s] : pc[s] = "reserve" /\ Oldest(firing[s], x) => execLock'[x] = s
      /\ \A x \in won[s] : execLock'[x] = s /\ x \notin firing[s] /\ LegsOf(x) \subseteq draft[s]
  BY DEF DraftOK
<1>3. \A xs, x : Oldest(xs, x)' <=> Oldest(xs', x')
  BY DEF Oldest
<1>4. \A x : LegsOf(x)' = LegsOf(x')
  BY DEF LegsOf
<1> QED BY <1>1, <1>2, <1>3, <1>4 DEF DraftOK, Oldest, LegsOf

\* A session that does not reserve.
LEMMA DraftAway ==
  ASSUME NEW s \in Session, pc'[s] \notin {"fire", "reserve"},
         firing'[s] = {}, draft'[s] = {}, won'[s] = {},
         \A x \in Execution : execLock'[x] = s => pc'[s] = "commit"
  PROVE  DraftOK(s)'
BY DEF DraftOK

LEMMA NextLegKept == \A s \in Session : left'[s] = left[s] => NextLeg(s)' = NextLeg(s)
BY DEF NextLeg

LEMMA PayoutsKept ==
  ASSUME PayoutInv, AckInv, UNCHANGED <<payout, issued>>,
         \A s \in Session : pc'[s] = "acked" => pc[s] = "acked" /\ left'[s] = left[s]
  PROVE  PayoutInv' /\ AckInv'
BY NextLegKept DEF PayoutInv, AckInv, Known, Digest, Counted, ProviderOf, ActionOf

\* Beside it, a handler that routes or dispatches.
LEMMA HandlerSessions ==
  ASSUME StateOK, SessionInv, NEW s \in Session,
         pc[s] \in {"idle", "fire", "reserve", "dispatch", "acked"},
         NEW next \in {"idle", "fire", "reserve", "dispatch", "acked"},
         pc' = [pc EXCEPT ![s] = next],
         UNCHANGED eventVars,
         \A x \in Execution, t \in Session : t # s /\ execLock[x] = t => execLock'[x] = t,
         \A l \in Leg : ref[l] # NoRef \/ leg[l] = "settled"
                          => ref'[l] = ref[l] /\ leg'[l] = leg[l],
         \A x \in Execution : execution[x] \in {"reserved", "failed"}
                                => execution'[x] = execution[x]
  PROVE  SessionInv'
<1> SUFFICES ASSUME NEW t \in Session PROVE SessionOK(t)'
  BY DEF SessionInv
<1>1. CASE t = s
  <2>1. verdict'[s] = "none"
    BY DEF SessionInv, SessionOK, eventVars
  <2>2. pc'[s] \in {"idle", "fire", "reserve", "dispatch", "acked"}
    BY DEF StateOK
  <2> QED BY <1>1, <2>1, <2>2, SessionAway
<1>2. CASE t # s
  <2>1. SessionOK(t) /\ pc'[t] = pc[t]
    BY <1>2 DEF SessionInv, StateOK
  <2>2. CASE verdict[t] = "none"
    BY <2>1, <2>2, LegParts DEF StateOK, SessionOK, eventVars, ExecutionOf
  <2>3. CASE verdict[t] # "none"
    <3>1. /\ target[t] \in Leg /\ ExecutionOf(t) \in Execution
          /\ execution'[ExecutionOf(t)] = execution[ExecutionOf(t)]
          /\ execLock'[ExecutionOf(t)] = t
          /\ ExecutionOf(t)' = ExecutionOf(t)
      BY <1>2, <2>1, <2>3, LegParts DEF SessionOK, ExecutionOf, eventVars
    <3>2. SeesAllSettled(t) => SeesAllSettled(t)'
      BY <3>1, LegParts DEF SeesAllSettled, LegsOf, eventVars
    <3> QED BY <2>1, <2>3, <3>1, <3>2 DEF SessionOK, eventVars
  <2> QED BY <2>2, <2>3
<1> QED BY <1>1, <1>2
-----------------------------------------------------------------------------
(* The providers' memory.                                                   *)

LEMMA InitiatePayoutAtMemory ==
  ASSUME StateOK, PayoutInv, NEW p, InitiatePayoutAt(p)
  PROVE  /\ payout' \in [Leg -> PayoutRecord \cup {NoPayout}] /\ issued' \in Nat
         /\ PayoutInv'
         /\ \A l \in Leg : Known(l) => Known(l)' /\ payout'[l].ref = payout[l].ref
         /\ p \in Leg => Known(p)'
<1>1. CASE Known(p)
  BY <1>1 DEF InitiatePayoutAt, StateOK, PayoutInv, Known, Digest, Counted, ProviderOf, ActionOf
<1>2. CASE ~Known(p) /\ p \in Leg
  <2> DEFINE record == [ref |-> NextRef(p), status |-> "initiated"]
  <2>1. payout' = [payout EXCEPT ![p] = record]
    BY <1>2 DEF InitiatePayoutAt
  <2>2. /\ issued' \in Nat /\ issued <= issued'
        /\ ProviderOf[p] = "legacybank" => issued' = issued + 1
    BY <1>2 DEF InitiatePayoutAt, StateOK
  <2>3. record \in PayoutRecord
    BY <1>2, DigestType DEF NextRef, StateOK, PayoutRecord, PayoutStatus
  <2>4. /\ payout' \in [Leg -> PayoutRecord \cup {NoPayout}]
        /\ payout'[p] = record /\ Known(p)'
        /\ \A l \in Leg : l # p => payout'[l] = payout[l] /\ (Known(l)' <=> Known(l))
    BY <1>2, <2>1, <2>3, Nothings DEF StateOK, Known
  <2>5. UNCHANGED ProviderOf /\ (\A l \in Leg : UNCHANGED Digest(l)) /\ (\A n \in Nat : UNCHANGED Counted(n))
    BY DEF ProviderOf, ActionOf, Digest, Counted
  <2>6. ASSUME NEW l \in Leg, Known(l)'
        PROVE  IF ProviderOf[l] = "legacybank"
               THEN \E n \in 1 .. issued' : payout'[l].ref = Counted(n)
               ELSE payout'[l].ref = Digest(l)
    <3>1. CASE l = p
      BY <2>2, <2>4, <3>1 DEF NextRef, StateOK
    <3>2. CASE l # p
      BY <2>2, <2>4, <2>6, <3>2 DEF PayoutInv, StateOK
    <3> QED BY <3>1, <3>2
  <2>7. ASSUME NEW l \in Leg, l # p, Known(l), ProviderOf[l] = "legacybank",
               ProviderOf[p] = "legacybank"
        PROVE  payout'[l].ref # payout'[p].ref
    <3>1. PICK n \in 1 .. issued : payout[l].ref = Counted(n)
      BY <2>7 DEF PayoutInv
    <3>2. payout'[p].ref = Counted(issued + 1)
      BY <2>4, <2>7 DEF NextRef
    <3> QED BY <2>4, <2>7, <3>1, <3>2, DigestType DEF StateOK
  <2>8. PayoutInv'
    BY <2>4, <2>5, <2>6, <2>7 DEF PayoutInv
  <2> QED BY <1>2, <2>2, <2>4, <2>8
<1>3. CASE ~Known(p) /\ p \notin Leg
  <2>1. payout' = payout /\ issued' \in Nat /\ issued <= issued'
    BY <1>3 DEF InitiatePayoutAt, StateOK
  <2>2. 1 .. issued \subseteq 1 .. issued'
    BY <2>1 DEF StateOK
  <2> QED BY <1>3, <2>1, <2>2 DEF StateOK, PayoutInv, Known, Digest, Counted, ProviderOf, ActionOf
<1> QED BY <1>1, <1>2, <1>3

\* A status that changes is that of a payout it knows, which keeps its reference.
LEMMA OutcomeMemory ==
  ASSUME StateOK, PayoutInv, NEW p \in Leg,
         FinalizeSendAt(p) \/ \E outcome \in {"settled", "failed"} : EmitSettlementEvent(p, outcome)
  PROVE  /\ payout' \in [Leg -> PayoutRecord \cup {NoPayout}]
         /\ PayoutInv'
         /\ \A l \in Leg : Known(l) => Known(l)' /\ payout'[l].ref = payout[l].ref
<1>0. PICK outcome \in {"settled", "failed"} :
       /\ Known(p) /\ issued' = issued
       /\ payout' = [payout EXCEPT ![p].status = outcome]
  BY DEF FinalizeSendAt, EmitSettlementEvent
<1>1. payout[p] \in PayoutRecord
  BY <1>0 DEF StateOK, Known
<1>2. /\ payout' \in [Leg -> PayoutRecord \cup {NoPayout}]
      /\ payout'[p] \in PayoutRecord /\ payout'[p].ref = payout[p].ref
      /\ \A l \in Leg : l # p => payout'[l] = payout[l]
  BY <1>0, <1>1 DEF StateOK, PayoutRecord, PayoutStatus
<1>3. \A l \in Leg : /\ Known(l)' <=> Known(l)
                     /\ Known(l) => payout'[l].ref = payout[l].ref
  BY <1>1, <1>2, Nothings DEF Known
<1>4. issued' = issued
  BY <1>0
<1>5. PayoutInv'
  BY <1>3, <1>4 DEF PayoutInv, Known, ProviderOf, ActionOf, Digest, Counted
<1> QED BY <1>2, <1>3, <1>5 DEF Known
-----------------------------------------------------------------------------
(* Handlers that route and dispatch.                                        *)

\* A handler's step that leaves the tables alone and ends in a state that is
\* in order for it, taking no lock of another.
LEMMA HandlerInv ==
  ASSUME IInv, NEW s \in Session,
         pc[s] \in {"idle", "fire", "reserve", "dispatch", "acked"},
         NEW next \in {"idle", "fire", "reserve", "dispatch", "acked"},
         pc' = [pc EXCEPT ![s] = next],
         UNCHANGED settlementVars, UNCHANGED <<execution, leg, ref, hold>>,
         payout' \in [Leg -> PayoutRecord \cup {NoPayout}], issued' \in Nat,
         PayoutInv', AckInv', WorkOK',
         execLock' \in [Execution -> Session \cup {NoSession}],
         \A t \in Session : t # s =>
           /\ firing'[t] = firing[t] /\ draft'[t] = draft[t] /\ won'[t] = won[t]
           /\ \A x \in Execution : execLock'[x] = t <=> execLock[x] = t,
         DraftOK(s)'
  PROVE  IInv'
<1> USE DEF IInv
<1>1. UNCHANGED tables /\ UNCHANGED eventVars /\ UNCHANGED restarts
  BY DEF settlementVars, tables
<1>2. StateOK'
  BY <1>1 DEF StateOK, tables, eventVars
<1>3. SessionInv'
  <2>1. \A x \in Execution, t \in Session : t # s /\ execLock[x] = t => execLock'[x] = t
    OBVIOUS
  <2>2. /\ \A l \in Leg : ref'[l] = ref[l] /\ leg'[l] = leg[l]
        /\ \A x \in Execution : execution'[x] = execution[x]
    OBVIOUS
  <2> QED BY <1>1, <2>1, <2>2, HandlerSessions
<1>4. DraftInv'
  <2> SUFFICES ASSUME NEW t \in Session, t # s PROVE DraftOK(t)'
    BY DEF DraftInv
  <2> QED BY DraftKept DEF DraftInv, StateOK, WorkOK
<1>5. RefInv' /\ BookInv'
  BY <1>1, TablesKept
<1> QED BY <1>2, <1>3, <1>4, <1>5

\* One that dispatches, or is done with it.
LEMMA DispatchInv ==
  ASSUME IInv, NEW s \in Session, pc[s] \in {"dispatch", "acked"},
         NEW next \in {"idle", "dispatch", "acked"}, pc' = [pc EXCEPT ![s] = next],
         UNCHANGED settlementVars, UNCHANGED <<execution, leg, ref, hold>>,
         UNCHANGED lockVars, UNCHANGED draftVars,
         queue' \in [Session -> SUBSET Execution], left' \in [Session -> SUBSET Leg],
         payout' \in [Leg -> PayoutRecord \cup {NoPayout}], issued' \in Nat,
         PayoutInv', AckInv'
  PROVE  IInv'
<1>1. WorkOK' /\ execLock' \in [Execution -> Session \cup {NoSession}]
  BY DEF IInv, StateOK, WorkOK, lockVars, draftVars
<1>2. DraftOK(s)'
  <2>1. /\ pc'[s] \notin {"fire", "reserve"}
        /\ firing'[s] = {} /\ draft'[s] = {} /\ won'[s] = {}
        /\ \A x \in Execution : execLock'[x] # s
    BY DEF IInv, StateOK, DraftInv, DraftOK, lockVars, draftVars
  <2> QED BY <2>1, DraftAway
<1>3. \A t \in Session : t # s =>
        /\ firing'[t] = firing[t] /\ draft'[t] = draft[t] /\ won'[t] = won[t]
        /\ \A x \in Execution : execLock'[x] = t <=> execLock[x] = t
  BY DEF lockVars, draftVars
<1> QED BY <1>1, <1>2, <1>3, HandlerInv

LEMMA ConfirmTriggerInv ==
  ASSUME IInv, NEW t \in Trigger, ConfirmTrigger(t), UNCHANGED settlementVars
  PROVE  IInv'
<1> USE DEF IInv
<1>1. /\ UNCHANGED tables /\ UNCHANGED eventVars /\ UNCHANGED restarts
      /\ UNCHANGED <<payout, issued, pc, guardLock, execLock, firing, draft, won, queue, left>>
  BY DEF ConfirmTrigger, settlementVars, tables, providerVars, lockVars, draftVars, dispatchVars
<1>2. StateOK'
  BY <1>1 DEF StateOK, WorkOK, tables, eventVars
<1>3. PayoutInv' /\ AckInv'
  BY <1>1, PayoutsKept
<1>4. SessionInv'
  BY <1>1, SessionKept DEF SessionInv, eventVars, tables
<1>5. DraftInv'
  BY <1>1, DraftKept DEF DraftInv, StateOK, WorkOK, tables
<1>6. RefInv' /\ BookInv'
  BY <1>1, TablesKept
<1> QED BY <1>2, <1>3, <1>4, <1>5, <1>6

LEMMA ReadReservedLegsInv ==
  ASSUME IInv, NEW s \in Session, ReadReservedLegs(s), UNCHANGED settlementVars
  PROVE  IInv'
<1>1. /\ pc[s] = "dispatch" /\ pc' = [pc EXCEPT ![s] = "dispatch"]
      /\ UNCHANGED <<execution, leg, ref, hold, payout, issued>>
      /\ UNCHANGED lockVars /\ UNCHANGED draftVars
  BY DEF ReadReservedLegs, IInv, StateOK, bookVars, providerVars
<1>2. /\ queue' \in [Session -> SUBSET Execution] /\ left' \in [Session -> SUBSET Leg]
      /\ \A t \in Session : pc'[t] = "acked" => pc[t] = "acked" /\ left'[t] = left[t]
  BY <1>1, LegParts DEF ReadReservedLegs, IInv, StateOK, WorkOK
<1>3. payout' \in [Leg -> PayoutRecord \cup {NoPayout}] /\ issued' \in Nat
  BY <1>1 DEF IInv, StateOK
<1>4. PayoutInv' /\ AckInv'
  BY <1>1, <1>2, PayoutsKept DEF IInv
<1> QED BY <1>1, <1>2, <1>3, <1>4, DispatchInv

LEMMA InitiatePayoutInv ==
  ASSUME IInv, NEW s \in Session, InitiatePayout(s), UNCHANGED settlementVars
  PROVE  IInv'
<1>0. PICK p : p = NextLeg(s)
  OBVIOUS
<1>1. /\ pc[s] = "dispatch" /\ pc' = [pc EXCEPT ![s] = "acked"]
      /\ UNCHANGED <<execution, leg, ref, hold, queue, left>>
      /\ UNCHANGED lockVars /\ UNCHANGED draftVars
      /\ InitiatePayoutAt(p)
  BY <1>0 DEF InitiatePayout, bookVars, dispatchVars
<1>2. /\ payout' \in [Leg -> PayoutRecord \cup {NoPayout}] /\ issued' \in Nat
      /\ PayoutInv'
      /\ \A l \in Leg : Known(l) => Known(l)' /\ payout'[l].ref = payout[l].ref
      /\ p \in Leg => Known(p)'
  BY <1>1, InitiatePayoutAtMemory DEF IInv
<1>3. AckInv'
  BY <1>0, <1>1, <1>2, NextLegKept DEF IInv, StateOK, AckInv
<1>4. queue' \in [Session -> SUBSET Execution] /\ left' \in [Session -> SUBSET Leg]
  BY <1>1 DEF IInv, StateOK, WorkOK
<1> QED BY <1>1, <1>2, <1>3, <1>4, DispatchInv

LEMMA EndDispatchInv ==
  ASSUME IInv, NEW s \in Session, EndDispatch(s) \/ AbandonDispatch(s), UNCHANGED settlementVars
  PROVE  IInv'
<1>1. /\ pc[s] \in {"dispatch", "acked"} /\ pc' = [pc EXCEPT ![s] = "idle"]
      /\ UNCHANGED <<execution, leg, ref, hold, payout, issued>>
      /\ UNCHANGED lockVars /\ UNCHANGED draftVars
      /\ queue' \in [Session -> SUBSET Execution] /\ left' \in [Session -> SUBSET Leg]
      /\ \A t \in Session : t # s => left'[t] = left[t]
  BY DEF EndDispatch, AbandonDispatch, IInv, StateOK, WorkOK, bookVars, providerVars, dispatchVars
<1>2. \A t \in Session : pc'[t] = "acked" => pc[t] = "acked" /\ left'[t] = left[t]
  BY <1>1 DEF IInv, StateOK
<1>3. payout' \in [Leg -> PayoutRecord \cup {NoPayout}] /\ issued' \in Nat
  BY <1>1 DEF IInv, StateOK
<1>4. PayoutInv' /\ AckInv'
  BY <1>1, <1>2, PayoutsKept DEF IInv
<1> QED BY <1>1, <1>3, <1>4, DispatchInv

\* The acknowledgement gives a reserved leg its reference.
LEMMA RecordAckInv ==
  ASSUME IInv, NEW s \in Session, RecordAck(s), UNCHANGED settlementVars
  PROVE  IInv'
<1> DEFINE l == NextLeg(s)
<1> DEFINE r == payout[l].ref
<1>1. /\ pc[s] = "acked" /\ pc' = [pc EXCEPT ![s] = "dispatch"]
      /\ left' = [left EXCEPT ![s] = @ \ {l}]
      /\ UNCHANGED <<execution, hold, payout, issued, queue>>
      /\ UNCHANGED lockVars /\ UNCHANGED draftVars
      /\ UNCHANGED <<reversed, statement>> /\ UNCHANGED eventVars /\ UNCHANGED restarts
  BY DEF RecordAck, providerVars, settlementVars
<1>2. /\ queue' \in [Session -> SUBSET Execution] /\ left' \in [Session -> SUBSET Leg]
      /\ \A t \in Session : pc'[t] = "acked" => pc[t] = "acked" /\ left'[t] = left[t]
  BY <1>1 DEF IInv, StateOK, WorkOK
<1>3. PayoutInv' /\ AckInv'
  BY <1>1, <1>2, PayoutsKept DEF IInv
<1>4. CASE l \in Leg /\ leg[l] = "reserved"
  <2>1. leg' = [leg EXCEPT ![l] = "initiated"] /\ ref' = [ref EXCEPT ![l] = r]
    BY <1>4 DEF RecordAck
  <2>2. Known(l) /\ ref[l] = NoRef
    BY <1>1, <1>4 DEF IInv, AckInv, RefInv
  <2>3. r \in ExternalRef /\ r # NoRef
    BY <1>4, <2>2, Nothings DEF IInv, StateOK, Known, PayoutRecord
  <2> HIDE DEF l, r
  <2>4. /\ \A k \in Leg : leg'[k] = IF k = l THEN "initiated" ELSE leg[k]
        /\ \A k \in Leg : ref'[k] = IF k = l THEN r ELSE ref[k]
    BY <2>1 DEF IInv, StateOK
  <2>5. StateOK'
    <3>1. WorkOK'
      BY <1>1, <1>2 DEF IInv, StateOK, WorkOK, lockVars, draftVars
    <3> QED BY <1>1, <2>1, <2>3, <3>1 DEF IInv, StateOK, LegStatus, eventVars, lockVars
  <2>6. RefInv'
    BY <1>1, <1>4, <2>3, <2>4 DEF IInv, RefInv
  <2>7. SessionInv'
    <3>1. \A k \in Leg : ref[k] # NoRef \/ leg[k] = "settled"
                         => ref'[k] = ref[k] /\ leg'[k] = leg[k]
      BY <1>4, <2>2, <2>4
    <3> QED BY <1>1, <3>1, HandlerSessions DEF IInv, lockVars
  <2>8. DraftInv'
    <3> SUFFICES ASSUME NEW t \in Session PROVE DraftOK(t)'
      BY DEF DraftInv
    <3>1. CASE t = s
      <4>1. /\ pc'[s] \notin {"fire", "reserve"}
            /\ firing'[s] = {} /\ draft'[s] = {} /\ won'[s] = {}
            /\ \A x \in Execution : execLock'[x] # s
        BY <1>1 DEF IInv, StateOK, DraftInv, DraftOK, lockVars, draftVars
      <4> QED BY <3>1, <4>1, DraftAway
    <3>2. CASE t # s
      BY <1>1, <3>2, DraftKept DEF IInv, StateOK, WorkOK, DraftInv, lockVars, draftVars
    <3> QED BY <3>1, <3>2
  <2>9. BookInv'
    <3>1. AllLegsOrNone' /\ OutcomeMatchesLegs'
      BY <1>1, <1>4, <2>4, LegParts DEF IInv, BookInv, AllLegsOrNone, OutcomeMatchesLegs
    <3>2. HoldsFollowLegs'
      BY <1>1, <1>4, <2>4 DEF IInv, BookInv, HoldsFollowLegs
    <3> QED BY <3>1, <3>2 DEF BookInv
  <2> QED BY <1>3, <2>5, <2>6, <2>7, <2>8, <2>9 DEF IInv
<1>5. CASE ~(l \in Leg /\ leg[l] = "reserved")
  <2>1. leg' = leg /\ ref' = ref
    BY <1>5 DEF RecordAck, IInv, StateOK
  <2>2. payout' \in [Leg -> PayoutRecord \cup {NoPayout}] /\ issued' \in Nat
    BY <1>1 DEF IInv, StateOK
  <2> HIDE DEF l
  <2> QED BY <1>1, <1>2, <1>3, <2>1, <2>2, DispatchInv
<1> QED BY <1>4, <1>5
-----------------------------------------------------------------------------
(* The reservation, whose statements show nothing before its COMMIT.        *)

LEMMA OneOldest ==
  ASSUME StateOK, NEW s \in Session, DraftOK(s),
         NEW x, NEW y, Oldest(firing[s], x), Oldest(firing[s], y)
  PROVE  x = y
<1>1. x \in firing[s] /\ y \in firing[s] /\ x[1] <= y[1] /\ y[1] <= x[1]
  BY DEF Oldest
<1>2. x \in Execution /\ y \in Execution
  BY <1>1 DEF StateOK, WorkOK
<1>3. x[1] \in Nat /\ y[1] \in Nat
  BY <1>2, RouteAssumption DEF Execution
<1> QED BY <1>1, <1>3 DEF DraftOK

LEMMA ReservingInv ==
  ASSUME IInv, NEW s \in Session, pc[s] \in {"idle", "fire", "reserve"},
         NEW next \in {"idle", "fire", "reserve"}, pc' = [pc EXCEPT ![s] = next],
         NEW f \in SUBSET Execution, firing' = [firing EXCEPT ![s] = f],
         NEW d \in SUBSET Leg, draft' = [draft EXCEPT ![s] = d],
         NEW w \in SUBSET Execution, won' = [won EXCEPT ![s] = w],
         guardLock' \in [User -> Session \cup {NoSession}],
         execLock' \in [Execution -> Session \cup {NoSession}],
         \A x \in Execution, t \in Session : t # s => (execLock'[x] = t <=> execLock[x] = t),
         UNCHANGED settlementVars, UNCHANGED <<execution, leg, ref, hold>>,
         UNCHANGED providerVars, UNCHANGED dispatchVars,
         DraftOK(s)'
  PROVE  IInv'
<1>1. WorkOK'
  BY DEF IInv, StateOK, WorkOK, dispatchVars
<1>2. payout' \in [Leg -> PayoutRecord \cup {NoPayout}] /\ issued' \in Nat
  BY DEF IInv, StateOK, providerVars
<1>3. PayoutInv' /\ AckInv'
  <2>1. \A t \in Session : pc'[t] = "acked" => pc[t] = "acked" /\ left'[t] = left[t]
    BY DEF IInv, StateOK, dispatchVars
  <2> QED BY <2>1, PayoutsKept DEF IInv, providerVars
<1>4. \A t \in Session : t # s =>
        /\ firing'[t] = firing[t] /\ draft'[t] = draft[t] /\ won'[t] = won[t]
        /\ \A x \in Execution : execLock'[x] = t <=> execLock[x] = t
  BY DEF IInv, StateOK, WorkOK
<1> QED BY <1>1, <1>2, <1>3, <1>4, HandlerInv

LEMMA BeginTriggerInv ==
  ASSUME IInv, NEW s \in Session, NEW t \in Trigger, NEW u \in User, BeginTrigger(s, t, u),
         UNCHANGED settlementVars
  PROVE  IInv'
<1> DEFINE f == { <<r, t>> : r \in Watching(u) }
<1>1. /\ pc[s] = "idle" /\ pc' = [pc EXCEPT ![s] = "fire"]
      /\ firing' = [firing EXCEPT ![s] = f]
      /\ UNCHANGED <<draft, won, guardLock, execLock, execution, leg, ref, hold>>
      /\ UNCHANGED providerVars /\ UNCHANGED dispatchVars
  BY DEF BeginTrigger, Idle, lockVars, bookVars
<1>2. \A x \in f : x \in Execution /\ x[2] = t
  BY DEF Watching, Execution
<1>3. f \in SUBSET Execution /\ \A x, y \in f : x[1] = y[1] => x = y
  BY <1>2 DEF Execution
<1> HIDE DEF f
<1>4. /\ draft' = [draft EXCEPT ![s] = {}] /\ won' = [won EXCEPT ![s] = {}]
      /\ draft[s] = {} /\ won[s] = {} /\ \A x \in Execution : execLock[x] # s
      /\ guardLock' \in [User -> Session \cup {NoSession}]
      /\ execLock' \in [Execution -> Session \cup {NoSession}]
  BY <1>1 DEF IInv, StateOK, WorkOK, DraftInv, DraftOK
<1>5. pc'[s] = "fire" /\ firing'[s] = f /\ draft'[s] = {} /\ won'[s] = {}
  BY <1>1, <1>4 DEF IInv, StateOK, WorkOK
<1>6. DraftOK(s)'
  BY <1>1, <1>3, <1>4, <1>5 DEF DraftOK
<1> QED BY <1>1, <1>3, <1>4, <1>6, ReservingInv

LEMMA BeginRetryInv ==
  ASSUME IInv, NEW s \in Session, NEW x \in Execution, BeginRetry(s, x), UNCHANGED settlementVars
  PROVE  IInv'
<1>1. /\ pc[s] = "idle" /\ pc' = [pc EXCEPT ![s] = "reserve"]
      /\ firing' = [firing EXCEPT ![s] = {x}]
      /\ execLock[x] = NoSession /\ execLock' = [execLock EXCEPT ![x] = s]
      /\ execution[x] = "insufficient_funds"
      /\ UNCHANGED <<draft, won, guardLock, execution, leg, ref, hold>>
      /\ UNCHANGED providerVars /\ UNCHANGED dispatchVars
  BY DEF BeginRetry, Retryable, LockExecution, Idle, bookVars
<1>2. draft[s] = {} /\ won[s] = {} /\ \A y \in Execution : execLock[y] # s
  BY <1>1 DEF IInv, DraftInv, DraftOK
<1>3. /\ draft' = [draft EXCEPT ![s] = {}] /\ won' = [won EXCEPT ![s] = {}]
      /\ guardLock' \in [User -> Session \cup {NoSession}]
      /\ execLock' \in [Execution -> Session \cup {NoSession}]
      /\ \A y \in Execution, t \in Session : t # s => (execLock'[y] = t <=> execLock[y] = t)
  BY <1>1, <1>2, RouteAssumption DEF IInv, StateOK, WorkOK
<1>4. /\ pc'[s] = "reserve" /\ firing'[s] = {x} /\ draft'[s] = {} /\ won'[s] = {}
      /\ \A y \in Execution : execLock'[y] = s <=> y = x
  BY <1>1, <1>2, <1>3 DEF IInv, StateOK, WorkOK
<1>5. DraftOK(s)'
  BY <1>1, <1>4 DEF DraftOK
<1>6. {x} \in SUBSET Execution /\ {} \in SUBSET Leg /\ {} \in SUBSET Execution
  OBVIOUS
<1> QED BY <1>1, <1>3, <1>5, <1>6, ReservingInv

LEMMA InsertExecutionInv ==
  ASSUME IInv, NEW s \in Session, InsertExecution(s), UNCHANGED settlementVars
  PROVE  IInv'
<1>1. PICK x \in Execution :
        /\ pc[s] = "fire" /\ pc' = [pc EXCEPT ![s] = "reserve"]
        /\ Oldest(firing[s], x) /\ execution[x] = "absent"
        /\ execLock[x] = NoSession /\ execLock' = [execLock EXCEPT ![x] = s]
        /\ UNCHANGED <<firing, draft, won, guardLock, execution, leg, ref, hold>>
        /\ UNCHANGED providerVars /\ UNCHANGED dispatchVars
  BY DEF InsertExecution, LockExecution, bookVars, draftVars
<1>2. /\ firing' = [firing EXCEPT ![s] = firing[s]] /\ draft' = [draft EXCEPT ![s] = draft[s]]
      /\ won' = [won EXCEPT ![s] = won[s]]
      /\ firing[s] \in SUBSET Execution /\ draft[s] \in SUBSET Leg /\ won[s] \in SUBSET Execution
      /\ guardLock' \in [User -> Session \cup {NoSession}]
      /\ execLock' \in [Execution -> Session \cup {NoSession}]
      /\ \A y \in Execution, t \in Session : t # s => (execLock'[y] = t <=> execLock[y] = t)
      /\ \A y \in Execution : execLock'[y] = s <=> (execLock[y] = s \/ y = x)
      /\ pc'[s] = "reserve"
  BY <1>1, RouteAssumption DEF IInv, StateOK, WorkOK
<1>3. \A y : Oldest(firing[s], y) => y = x
  BY <1>1, OneOldest DEF IInv, DraftInv
<1>4. DraftOK(s)'
  BY <1>1, <1>2, <1>3 DEF IInv, DraftInv, DraftOK, Oldest, LegsOf
<1> QED BY <1>1, <1>2, <1>4, ReservingInv

LEMMA AlreadyFiredInv ==
  ASSUME IInv, NEW s \in Session, AlreadyFired(s), UNCHANGED settlementVars
  PROVE  IInv'
<1>1. PICK x \in Execution :
        /\ pc[s] = "fire" /\ UNCHANGED pc
        /\ firing' = [firing EXCEPT ![s] = firing[s] \ {x}]
        /\ UNCHANGED <<draft, won, guardLock, execLock, execution, leg, ref, hold>>
        /\ UNCHANGED providerVars /\ UNCHANGED dispatchVars
  BY DEF AlreadyFired, lockVars, bookVars
<1>2. /\ pc' = [pc EXCEPT ![s] = "fire"]
      /\ draft' = [draft EXCEPT ![s] = draft[s]] /\ won' = [won EXCEPT ![s] = won[s]]
      /\ firing[s] \ {x} \in SUBSET Execution /\ draft[s] \in SUBSET Leg
      /\ won[s] \in SUBSET Execution
      /\ guardLock' \in [User -> Session \cup {NoSession}]
      /\ execLock' \in [Execution -> Session \cup {NoSession}]
      /\ firing'[s] = firing[s] \ {x}
  BY <1>1 DEF IInv, StateOK, WorkOK
<1>3. DraftOK(s)'
  BY <1>1, <1>2 DEF IInv, DraftInv, DraftOK, LegsOf
<1> QED BY <1>1, <1>2, <1>3, ReservingInv

LEMMA ReserveLegInv ==
  ASSUME IInv, NEW s \in Session, ReserveLeg(s), UNCHANGED settlementVars
  PROVE  IInv'
<1>1. PICK l \in Leg :
        /\ pc[s] = "reserve" /\ UNCHANGED pc /\ Oldest(firing[s], l[1])
        /\ guardLock' = [guardLock EXCEPT ![UserOf(l[1])] = s]
        /\ draft' = [draft EXCEPT ![s] = draft[s] \cup {l}]
        /\ UNCHANGED <<firing, won, execLock, execution, leg, ref, hold>>
        /\ UNCHANGED providerVars /\ UNCHANGED dispatchVars
  BY DEF ReserveLeg, AtLeg, LockGuard, bookVars
<1>2. /\ pc' = [pc EXCEPT ![s] = "reserve"]
      /\ firing' = [firing EXCEPT ![s] = firing[s]] /\ won' = [won EXCEPT ![s] = won[s]]
      /\ firing[s] \in SUBSET Execution /\ draft[s] \cup {l} \in SUBSET Leg
      /\ won[s] \in SUBSET Execution
      /\ guardLock' \in [User -> Session \cup {NoSession}]
      /\ execLock' \in [Execution -> Session \cup {NoSession}]
      /\ draft'[s] = draft[s] \cup {l}
  BY <1>1 DEF IInv, StateOK, WorkOK
<1>3. DraftOK(s)'
  BY <1>1, <1>2 DEF IInv, DraftInv, DraftOK, LegsOf, Oldest
<1> QED BY <1>1, <1>2, <1>3, ReservingInv

\* The rollback to the savepoint takes the legs of the refused execution, and
\* of no execution that has won.
LEMMA RefuseLegInv ==
  ASSUME IInv, NEW s \in Session, RefuseLeg(s), UNCHANGED settlementVars
  PROVE  IInv'
<1>1. PICK l \in Leg :
        /\ pc[s] = "reserve" /\ pc' = [pc EXCEPT ![s] = "fire"] /\ Oldest(firing[s], l[1])
        /\ guardLock' = [u \in User |-> IF guardLock[u] = s /\ draft[s] \subseteq LegsOf(l[1])
                                        THEN NoSession ELSE guardLock[u]]
        /\ draft' = [draft EXCEPT ![s] = draft[s] \ LegsOf(l[1])]
        /\ firing' = [firing EXCEPT ![s] = firing[s] \ {l[1]}]
        /\ UNCHANGED <<won, execLock, execution, leg, ref, hold>>
        /\ UNCHANGED providerVars /\ UNCHANGED dispatchVars
  BY DEF RefuseLeg, AtLeg, RollbackToSavepoint, bookVars
<1> DEFINE x == l[1]
<1>2. /\ won' = [won EXCEPT ![s] = won[s]]
      /\ firing[s] \ {x} \in SUBSET Execution /\ draft[s] \ LegsOf(x) \in SUBSET Leg
      /\ won[s] \in SUBSET Execution
      /\ guardLock' \in [User -> Session \cup {NoSession}]
      /\ execLock' \in [Execution -> Session \cup {NoSession}]
      /\ pc'[s] = "fire" /\ firing'[s] = firing[s] \ {x} /\ draft'[s] = draft[s] \ LegsOf(x)
  BY <1>1 DEF IInv, StateOK, WorkOK
<1>3. \A y : Oldest(firing[s], y) => y = x
  BY <1>1, OneOldest DEF IInv, DraftInv
<1>4. x \in firing[s]
  BY <1>1 DEF Oldest
<1>5. \A y \in won[s] : LegsOf(y) \subseteq draft[s] \ LegsOf(x)
  BY <1>4, LegParts DEF IInv, DraftInv, DraftOK
<1>6. \A k \in draft[s] \ LegsOf(x) : k[1] \in won[s]
  BY <1>3, LegParts DEF IInv, StateOK, WorkOK, DraftInv, DraftOK
<1>7. DraftOK(s)'
  <2> HIDE DEF x
  <2>1. /\ \A y \in Execution : execLock'[y] = s =>
             pc'[s] \in {"fire", "reserve"} /\ execution'[y] \in {"absent", "insufficient_funds"}
        /\ \A y, z \in firing'[s] : y[1] = z[1] => y = z
        /\ \A y \in won'[s] : execLock'[y] = s /\ y \notin firing'[s]
    BY <1>1, <1>2 DEF IInv, DraftInv, DraftOK
  <2>2. \A y \in won'[s] : LegsOf(y)' \subseteq draft'[s]
    BY <1>1, <1>2, <1>5 DEF LegsOf
  <2> QED BY <1>1, <1>2, <1>6, <2>1, <2>2 DEF DraftOK
<1> QED BY <1>1, <1>2, <1>7, ReservingInv

LEMMA ReleaseSavepointInv ==
  ASSUME IInv, NEW s \in Session, ReleaseSavepoint(s), UNCHANGED settlementVars
  PROVE  IInv'
<1>1. PICK x \in Execution :
        /\ pc[s] = "reserve" /\ pc' = [pc EXCEPT ![s] = "fire"] /\ Oldest(firing[s], x)
        /\ LegsOf(x) \subseteq draft[s]
        /\ firing' = [firing EXCEPT ![s] = firing[s] \ {x}]
        /\ won' = [won EXCEPT ![s] = won[s] \cup {x}]
        /\ UNCHANGED <<draft, guardLock, execLock, execution, leg, ref, hold>>
        /\ UNCHANGED providerVars /\ UNCHANGED dispatchVars
  BY DEF ReleaseSavepoint, lockVars, bookVars
<1>2. /\ draft' = [draft EXCEPT ![s] = draft[s]]
      /\ firing[s] \ {x} \in SUBSET Execution /\ draft[s] \in SUBSET Leg
      /\ won[s] \cup {x} \in SUBSET Execution
      /\ guardLock' \in [User -> Session \cup {NoSession}]
      /\ execLock' \in [Execution -> Session \cup {NoSession}]
      /\ pc'[s] = "fire" /\ firing'[s] = firing[s] \ {x} /\ won'[s] = won[s] \cup {x}
  BY <1>1 DEF IInv, StateOK, WorkOK
<1>3. \A y : Oldest(firing[s], y) => y = x
  BY <1>1, OneOldest DEF IInv, DraftInv
<1>4. x \in firing[s]
  BY <1>1 DEF Oldest
<1>5. DraftOK(s)'
  BY <1>1, <1>2, <1>3, <1>4 DEF IInv, DraftInv, DraftOK, LegsOf
<1> QED BY <1>1, <1>2, <1>5, ReservingInv

LEMMA RollbackReservationInv ==
  ASSUME IInv, NEW s \in Session, pc[s] \in {"fire", "reserve"}, RollbackReservation(s),
         UNCHANGED settlementVars
  PROVE  IInv'
<1>1. /\ pc' = [pc EXCEPT ![s] = "idle"]
      /\ firing' = [firing EXCEPT ![s] = {}] /\ draft' = [draft EXCEPT ![s] = {}]
      /\ won' = [won EXCEPT ![s] = {}]
      /\ UNCHANGED <<execution, leg, ref, hold>>
      /\ UNCHANGED providerVars /\ UNCHANGED dispatchVars
  BY DEF RollbackReservation, EndReservation, bookVars
<1>2. /\ guardLock' \in [User -> Session \cup {NoSession}]
      /\ execLock' \in [Execution -> Session \cup {NoSession}]
      /\ \A x \in Execution, t \in Session : t # s => (execLock'[x] = t <=> execLock[x] = t)
      /\ \A x \in Execution : execLock'[x] # s
  BY RouteAssumption DEF RollbackReservation, EndReservation, ReleaseLocks, IInv, StateOK, WorkOK
<1>3. pc'[s] = "idle" /\ firing'[s] = {} /\ draft'[s] = {} /\ won'[s] = {}
  BY <1>1 DEF IInv, StateOK, WorkOK
<1>4. DraftOK(s)'
  BY <1>2, <1>3, DraftAway
<1>5. {} \in SUBSET Execution /\ {} \in SUBSET Leg
  OBVIOUS
<1> QED BY <1>1, <1>2, <1>4, <1>5, ReservingInv

\* What a COMMIT writes: executions that had no legs, and all legs of those
\* that won.
LEMMA CommitReservationEffect ==
  ASSUME IInv, NEW s \in Session, CommitReservation(s)
  PROVE  /\ pc[s] = "fire"
         /\ \A x \in won[s] : execLock[x] = s
         /\ \A x \in Execution : execLock[x] = s =>
              execution[x] \in {"absent", "insufficient_funds"}
         /\ \A l \in Leg : l \in draft[s] <=> l[1] \in won[s]
         /\ \A l \in draft[s] : leg[l] = "absent" /\ ref[l] = NoRef
<1>1. pc[s] = "fire"
  BY DEF CommitReservation
<1>2. /\ \A x \in won[s] : execLock[x] = s /\ LegsOf(x) \subseteq draft[s]
      /\ \A x \in Execution : execLock[x] = s => execution[x] \in {"absent", "insufficient_funds"}
      /\ \A l \in draft[s] : l[1] \in won[s]
  BY <1>1 DEF IInv, DraftInv, DraftOK
<1>3. won[s] \subseteq Execution /\ draft[s] \subseteq Leg
  BY DEF IInv, StateOK, WorkOK
<1>4. \A l \in Leg : l \in draft[s] <=> l[1] \in won[s]
  BY <1>2, LegParts
<1>5. \A l \in draft[s] : leg[l] = "absent"
  BY <1>2, <1>3, LegParts DEF IInv, BookInv, AllLegsOrNone
<1> QED BY <1>1, <1>2, <1>3, <1>4, <1>5 DEF IInv, RefInv

LEMMA CommitReservationInv ==
  ASSUME IInv, NEW s \in Session, CommitReservation(s), UNCHANGED settlementVars
  PROVE  IInv'
<1>1. /\ pc[s] = "fire"
      /\ \A x \in won[s] : execLock[x] = s
      /\ \A x \in Execution : execLock[x] = s => execution[x] \in {"absent", "insufficient_funds"}
      /\ \A l \in Leg : l \in draft[s] <=> l[1] \in won[s]
      /\ \A l \in draft[s] : leg[l] = "absent" /\ ref[l] = NoRef
  BY CommitReservationEffect
<1>2. UNCHANGED <<reversed, statement>> /\ UNCHANGED eventVars /\ UNCHANGED restarts
  BY DEF settlementVars
<1>3. /\ leg' = [l \in Leg |-> IF l \in draft[s] THEN "reserved" ELSE leg[l]]
      /\ hold' = [l \in Leg |-> IF l \in draft[s] THEN "pending" ELSE hold[l]]
      /\ execution' = [x \in Execution |-> IF x \in won[s] THEN "reserved"
                                           ELSE IF execLock[x] = s THEN "insufficient_funds"
                                           ELSE execution[x]]
      /\ firing' = [firing EXCEPT ![s] = {}] /\ draft' = [draft EXCEPT ![s] = {}]
      /\ won' = [won EXCEPT ![s] = {}] /\ queue' = [queue EXCEPT ![s] = won[s]]
      /\ UNCHANGED <<ref, payout, issued, left>>
  BY DEF CommitReservation, BookLegs, EndReservation, providerVars
<1>4. PICK next \in {"idle", "dispatch"} : pc' = [pc EXCEPT ![s] = next]
  BY DEF CommitReservation
<1>5. /\ guardLock' \in [User -> Session \cup {NoSession}]
      /\ execLock' \in [Execution -> Session \cup {NoSession}]
      /\ \A x \in Execution, t \in Session : t # s => (execLock'[x] = t <=> execLock[x] = t)
      /\ \A x \in Execution : execLock'[x] # s
  BY RouteAssumption DEF CommitReservation, EndReservation, ReleaseLocks, IInv, StateOK, WorkOK
<1>6. won[s] \subseteq Execution /\ draft[s] \subseteq Leg
  BY DEF IInv, StateOK, WorkOK
<1>7. StateOK'
  <2>1. WorkOK'
    BY <1>3, <1>5, <1>6 DEF IInv, StateOK, WorkOK
  <2>2. /\ leg' \in [Leg -> LegStatus] /\ hold' \in [Leg -> HoldStatus]
        /\ execution' \in [Execution -> ExecutionStatus]
    BY <1>3 DEF IInv, StateOK, LegStatus, HoldStatus, ExecutionStatus
  <2> QED BY <1>2, <1>3, <1>4, <1>5, <2>1, <2>2 DEF IInv, StateOK, eventVars
<1>8. PayoutInv' /\ AckInv'
  <2>1. \A t \in Session : pc'[t] = "acked" => pc[t] = "acked" /\ left'[t] = left[t]
    BY <1>3, <1>4 DEF IInv, StateOK
  <2> QED BY <1>3, <2>1, PayoutsKept DEF IInv
<1>9. RefInv'
  BY <1>1, <1>2, <1>3 DEF IInv, RefInv
<1>10. SessionInv'
  <2>1. \A l \in Leg : ref[l] # NoRef \/ leg[l] = "settled"
                       => ref'[l] = ref[l] /\ leg'[l] = leg[l]
    BY <1>1, <1>3
  <2>2. \A x \in Execution : execution[x] \in {"reserved", "failed"}
                             => execution'[x] = execution[x]
    BY <1>1, <1>3
  <2>3. \A x \in Execution, t \in Session : t # s /\ execLock[x] = t => execLock'[x] = t
    BY <1>5
  <2>4. next \in {"idle", "fire", "reserve", "dispatch", "acked"}
    OBVIOUS
  <2> QED BY <1>1, <1>2, <1>4, <2>1, <2>2, <2>3, <2>4, HandlerSessions DEF IInv
<1>11. DraftInv'
  <2> SUFFICES ASSUME NEW t \in Session PROVE DraftOK(t)'
    BY DEF DraftInv
  <2>1. CASE t = s
    <3>1. pc'[s] \notin {"fire", "reserve"} /\ firing'[s] = {} /\ draft'[s] = {} /\ won'[s] = {}
      BY <1>3, <1>4 DEF IInv, StateOK, WorkOK
    <3> QED BY <1>5, <2>1, <3>1, DraftAway
  <2>2. CASE t # s
    <3>1. /\ pc'[t] = pc[t] /\ firing'[t] = firing[t] /\ draft'[t] = draft[t] /\ won'[t] = won[t]
          /\ firing[t] \subseteq Execution /\ won[t] \subseteq Execution
      BY <1>3, <1>4, <2>2 DEF IInv, StateOK, WorkOK
    <3>2. \A x \in Execution : execLock[x] = t => execution'[x] = execution[x]
      BY <1>1, <1>3, <2>2
    <3>3. DraftOK(t)
      BY DEF IInv, DraftInv
    <3> QED BY <1>5, <2>2, <3>1, <3>2, <3>3, DraftKept
  <2> QED BY <2>1, <2>2
<1>12. BookInv'
  <2>1. /\ \A l \in Leg : leg'[l] = IF l[1] \in won[s] THEN "reserved" ELSE leg[l]
        /\ \A l \in Leg : l[1] \in Execution
    BY <1>1, <1>3, LegParts
  <2>2. \A l \in Leg : execLock[l[1]] = s => leg[l] = "absent"
    BY <1>1, <2>1 DEF IInv, BookInv, AllLegsOrNone
  <2>3. AllLegsOrNone'
    BY <1>1, <1>3, <2>1, <2>2 DEF IInv, BookInv, AllLegsOrNone
  <2>4. HoldsFollowLegs'
    BY <1>1, <1>2, <1>3 DEF IInv, BookInv, HoldsFollowLegs
  <2>5. OutcomeMatchesLegs'
    <3> SUFFICES ASSUME NEW x \in Execution
                 PROVE  /\ execution'[x] = "completed" => \A l \in LegsOf(x) : leg'[l] = "settled"
                        /\ execution'[x] = "failed" <=> \E l \in LegsOf(x) : leg'[l] = "failed"
      BY DEF OutcomeMatchesLegs, LegsOf
    <3>1. CASE execLock[x] = s
      <4>1. execution'[x] \in {"reserved", "insufficient_funds"}
        BY <1>3, <3>1
      <4>2. \A l \in LegsOf(x) : leg'[l] \in {"reserved", "absent"}
        BY <2>1, <2>2, <3>1, LegParts
      <4> QED BY <4>1, <4>2
    <3>2. CASE execLock[x] # s
      <4>1. execution'[x] = execution[x]
        BY <1>1, <1>3, <3>2
      <4>2. \A l \in LegsOf(x) : leg'[l] = leg[l]
        BY <1>1, <2>1, <3>2, LegParts
      <4> QED BY <4>1, <4>2 DEF IInv, BookInv, OutcomeMatchesLegs
    <3> QED BY <3>1, <3>2
  <2> QED BY <2>3, <2>4, <2>5 DEF BookInv
<1> QED BY <1>7, <1>8, <1>9, <1>10, <1>11, <1>12 DEF IInv
-----------------------------------------------------------------------------
(* Settlement.                                                              *)

\* A step of session s that leaves the tables and the providers alone and ends
\* in a state that is in order for s, taking no lock of another.
LEMMA SettlerInv ==
  ASSUME IInv, NEW s \in Session, UNCHANGED tables,
         payout' \in [Leg -> PayoutRecord \cup {NoPayout}], UNCHANGED <<issued, restarts>>,
         PayoutInv', \A l \in Leg : Known(l) => Known(l)',
         UNCHANGED draftVars, UNCHANGED dispatchVars,
         pc[s] \notin {"fire", "reserve"},
         NEW next \in {"idle", "lookup", "move", "close", "commit"},
         pc' = [pc EXCEPT ![s] = next],
         NEW e \in Event \cup {NoEvent}, event' = [event EXCEPT ![s] = e],
         NEW d \in Leg \cup {NoLeg}, target' = [target EXCEPT ![s] = d],
         NEW v \in {"none", "completed", "failed"}, verdict' = [verdict EXCEPT ![s] = v],
         legLock' \in [Leg -> Session \cup {NoSession}],
         \A l \in Leg, t \in Session : t # s /\ legLock[l] = t => legLock'[l] = t,
         guardLock' \in [User -> Session \cup {NoSession}],
         execLock' \in [Execution -> Session \cup {NoSession}],
         \A x \in Execution, t \in Session : t # s => (execLock'[x] = t <=> execLock[x] = t),
         \A x \in Execution : execLock'[x] = s => next = "commit",
         SessionOK(s)'
  PROVE  IInv'
<1> USE DEF IInv
<1>1. StateOK'
  BY DEF StateOK, WorkOK, tables, draftVars, dispatchVars
<1>2. AckInv'
  BY NextLegKept DEF StateOK, AckInv, dispatchVars
<1>3. SessionInv'
  <2> SUFFICES ASSUME NEW t \in Session, t # s PROVE SessionOK(t)'
    BY DEF SessionInv
  <2> QED BY SessionKept DEF SessionInv, StateOK, tables
<1>4. DraftInv'
  <2> SUFFICES ASSUME NEW t \in Session PROVE DraftOK(t)'
    BY DEF DraftInv
  <2>1. CASE t = s
    <3>1. pc'[s] = next
      BY DEF StateOK
    <3>2. firing'[s] = {} /\ draft'[s] = {} /\ won'[s] = {}
      BY DEF DraftInv, DraftOK, draftVars
    <3> QED BY <2>1, <3>1, <3>2, DraftAway
  <2>2. CASE t # s
    BY <2>2, DraftKept DEF DraftInv, StateOK, WorkOK, tables, draftVars
  <2> QED BY <2>1, <2>2
<1>5. RefInv' /\ BookInv'
  BY TablesKept
<1> QED BY <1>1, <1>2, <1>3, <1>4, <1>5

\* What the end of a transaction does to the row locks.
LocksReleased(s) ==
  /\ legLock' \in [Leg -> Session \cup {NoSession}]
  /\ \A l \in Leg, t \in Session : t # s /\ legLock[l] = t => legLock'[l] = t
  /\ guardLock' \in [User -> Session \cup {NoSession}]
  /\ execLock' \in [Execution -> Session \cup {NoSession}]
  /\ \A x \in Execution, t \in Session : t # s => (execLock'[x] = t <=> execLock[x] = t)
  /\ \A x \in Execution : execLock'[x] # s

LEMMA EndSessionLocks ==
  ASSUME IInv, NEW s \in Session, EndSession(s)
  PROVE  LocksReleased(s)
BY RouteAssumption DEF EndSession, ReleaseLocks, IInv, StateOK, WorkOK, LocksReleased

\* Where the transaction ends without a write.
LEMMA EndSessionInv ==
  ASSUME IInv, NEW s \in Session, pc[s] \notin {"fire", "reserve"}, EndSession(s), NothingWritten
  PROVE  IInv'
<1>1. /\ pc' = [pc EXCEPT ![s] = "idle"]
      /\ event' = [event EXCEPT ![s] = NoEvent]
      /\ target' = [target EXCEPT ![s] = NoLeg]
      /\ verdict' = [verdict EXCEPT ![s] = "none"]
      /\ UNCHANGED tables /\ UNCHANGED <<payout, issued, restarts>>
      /\ UNCHANGED draftVars /\ UNCHANGED dispatchVars
  BY DEF EndSession, NothingWritten, bookVars, providerVars, tables
<1>2. LocksReleased(s)
  BY EndSessionLocks
<1>3. SessionOK(s)'
  BY <1>1, SessionAway DEF IInv, StateOK
<1>4. payout' \in [Leg -> PayoutRecord \cup {NoPayout}] /\ PayoutInv'
  BY <1>1 DEF IInv, StateOK, PayoutInv, Known, Digest, Counted, ProviderOf, ActionOf
<1> QED BY <1>1, <1>2, <1>3, <1>4, SettlerInv DEF LocksReleased, Known

\* An event arrives from the lever or from a poll.
LEMMA ReceiveInv ==
  ASSUME IInv, NEW s \in Session, NEW p \in Leg, NEW status \in {"settled", "failed"},
         Known(p), Receive(s, p, status),
         payout' \in [Leg -> PayoutRecord \cup {NoPayout}], UNCHANGED issued, PayoutInv',
         \A l \in Leg : Known(l) => Known(l)'
  PROVE  IInv'
<1> DEFINE e == [ref |-> payout[p].ref, status |-> status]
<1>1. e \in Event
  BY DEF IInv, StateOK, Known, PayoutRecord, Event
<1>2. /\ pc[s] = "idle" /\ pc' = [pc EXCEPT ![s] = "lookup"]
      /\ event' = [event EXCEPT ![s] = e]
      /\ UNCHANGED tables /\ UNCHANGED <<restarts, target, verdict, legLock, guardLock, execLock>>
      /\ UNCHANGED draftVars /\ UNCHANGED dispatchVars
  BY DEF Receive, Idle, bookVars, lockVars, tables
<1> HIDE DEF e
<1>3. /\ target[s] \in Leg \cup {NoLeg} /\ target' = [target EXCEPT ![s] = target[s]]
      /\ verdict[s] = "none" /\ verdict' = [verdict EXCEPT ![s] = "none"]
  BY <1>2 DEF IInv, StateOK, SessionInv, SessionOK
<1>4. SessionOK(s)'
  <2>1. pc'[s] = "lookup" /\ event'[s] = e /\ verdict'[s] = "none"
    BY <1>2, <1>3 DEF IInv, StateOK
  <2> QED BY <1>1, <2>1 DEF SessionOK
<1>5. /\ legLock' \in [Leg -> Session \cup {NoSession}]
      /\ guardLock' \in [User -> Session \cup {NoSession}]
      /\ execLock' \in [Execution -> Session \cup {NoSession}]
      /\ \A x \in Execution : execLock'[x] # s
  BY <1>2 DEF IInv, StateOK, WorkOK, DraftInv, DraftOK
<1> QED BY <1>1, <1>2, <1>3, <1>4, <1>5, SettlerInv

LEMMA SettleInv ==
  ASSUME IInv, NEW s \in Session, Settle(s) \/ Poll(s)
  PROVE  IInv'
<1>1. CASE Settle(s)
  <2>1. PICK p \in Leg, outcome \in {"settled", "failed"} :
          EmitSettlementEvent(p, outcome) /\ Receive(s, p, outcome)
    BY <1>1 DEF Settle
  <2>2. Known(p) /\ UNCHANGED issued
    BY <2>1 DEF EmitSettlementEvent
  <2>3. /\ payout' \in [Leg -> PayoutRecord \cup {NoPayout}] /\ PayoutInv'
        /\ \A l \in Leg : Known(l) => Known(l)' /\ payout'[l].ref = payout[l].ref
    BY <2>1, OutcomeMemory DEF IInv
  <2> QED BY <2>1, <2>2, <2>3, ReceiveInv
<1>2. CASE Poll(s)
  <2>1. PICK p \in Leg :
          Terminal(p) /\ Receive(s, p, payout[p].status) /\ UNCHANGED providerVars
    BY <1>2 DEF Poll
  <2>2. Known(p) /\ payout[p].status \in {"settled", "failed"}
    BY <2>1 DEF Terminal
  <2>3. UNCHANGED <<payout, issued>>
    BY <2>1 DEF providerVars
  <2>4. payout' \in [Leg -> PayoutRecord \cup {NoPayout}] /\ PayoutInv'
    BY <2>3 DEF IInv, StateOK, PayoutInv, Known, Digest, Counted, ProviderOf, ActionOf
  <2> QED BY <2>1, <2>2, <2>3, <2>4, ReceiveInv DEF Known
<1> QED BY <1>1, <1>2

LEMMA FinalizeSendInv ==
  ASSUME IInv, NEW p \in Leg, FinalizeSend(p)
  PROVE  IInv'
<1> USE DEF IInv
<1>1. /\ UNCHANGED tables /\ UNCHANGED eventVars /\ UNCHANGED <<pc, left, issued, restarts>>
      /\ UNCHANGED <<guardLock, execLock, firing, draft, won, queue>>
      /\ FinalizeSendAt(p)
  BY DEF FinalizeSend, FinalizeSendAt, bookVars, lockVars, draftVars, dispatchVars,
     settlementVars, tables
<1>2. /\ payout' \in [Leg -> PayoutRecord \cup {NoPayout}] /\ PayoutInv'
      /\ \A l \in Leg : Known(l) => Known(l)' /\ payout'[l].ref = payout[l].ref
  BY <1>1, OutcomeMemory
<1>3. StateOK'
  BY <1>1, <1>2 DEF StateOK, WorkOK, tables, eventVars
<1>4. AckInv'
  BY <1>1, <1>2, NextLegKept DEF AckInv
<1>5. SessionInv'
  BY <1>1, SessionKept DEF SessionInv, eventVars, tables
<1>6. DraftInv'
  BY <1>1, DraftKept DEF DraftInv, StateOK, WorkOK, tables
<1>7. RefInv' /\ BookInv'
  BY <1>1, TablesKept
<1> QED BY <1>2, <1>3, <1>4, <1>5, <1>6, <1>7

LEMMA NothingWrittenKeeps ==
  ASSUME IInv, NothingWritten
  PROVE  /\ UNCHANGED tables /\ UNCHANGED <<issued, restarts>>
         /\ UNCHANGED draftVars /\ UNCHANGED dispatchVars
         /\ payout' \in [Leg -> PayoutRecord \cup {NoPayout}] /\ PayoutInv'
         /\ \A l \in Leg : Known(l) => Known(l)'
<1>1. /\ UNCHANGED tables /\ UNCHANGED <<payout, issued, restarts>>
      /\ UNCHANGED draftVars /\ UNCHANGED dispatchVars
  BY DEF NothingWritten, bookVars, providerVars, tables
<1>2. payout' \in [Leg -> PayoutRecord \cup {NoPayout}] /\ PayoutInv'
  BY <1>1 DEF IInv, StateOK, PayoutInv, Known, Digest, Counted, ProviderOf, ActionOf
<1> QED BY <1>1, <1>2 DEF Known

LEMMA LockLegInv ==
  ASSUME IInv, NEW s \in Session, LockLeg(s)
  PROVE  IInv'
<1>1. PICK l \in Matches(s) : target' = [target EXCEPT ![s] = l]
  BY DEF LockLeg
<1>2. /\ pc[s] = "lookup" /\ pc' = [pc EXCEPT ![s] = "move"]
      /\ legLock' = [k \in Leg |-> IF k \in Matches(s) THEN s ELSE legLock[k]]
      /\ \A k \in Matches(s) : legLock[k] = NoSession
      /\ UNCHANGED <<event, verdict, guardLock, execLock>> /\ NothingWritten
  BY DEF LockLeg, lockVars
<1>3. event[s] \in Event /\ verdict[s] = "none"
  BY <1>2 DEF IInv, SessionInv, SessionOK
<1>4. l \in Leg /\ ref[l] # NoRef /\ ref' = ref
  BY <1>2, <1>3, Nothings DEF Matches, Event, NothingWritten, bookVars
<1>5. SessionOK(s)'
  <2>1. /\ pc'[s] = "move" /\ event'[s] \in Event /\ target'[s] = l /\ verdict'[s] = "none"
        /\ legLock'[l] = s
    BY <1>1, <1>2, <1>3, <1>4 DEF IInv, StateOK
  <2> QED BY <1>4, <2>1 DEF SessionOK
<1>6. /\ legLock' \in [Leg -> Session \cup {NoSession}]
      /\ \A k \in Leg, t \in Session : t # s /\ legLock[k] = t => legLock'[k] = t
  BY <1>2, RouteAssumption DEF IInv, StateOK
<1>8. /\ guardLock' \in [User -> Session \cup {NoSession}]
      /\ execLock' \in [Execution -> Session \cup {NoSession}]
      /\ \A x \in Execution : execLock'[x] # s
      /\ \A x \in Execution, t \in Session : t # s => (execLock'[x] = t <=> execLock[x] = t)
  BY <1>2 DEF IInv, StateOK, WorkOK, DraftInv, DraftOK
<1>7. event' = [event EXCEPT ![s] = event[s]] /\ verdict' = [verdict EXCEPT ![s] = verdict[s]]
  BY <1>2 DEF IInv, StateOK
<1> QED BY <1>1, <1>2, <1>3, <1>4, <1>5, <1>6, <1>7, <1>8, NothingWrittenKeeps, SettlerInv

\* A session past its lookup, with its leg and the execution of it.
LEMMA Settling ==
  ASSUME IInv, NEW s \in Session, pc[s] \in {"move", "close", "commit"}
  PROVE  /\ event[s] \in Event /\ target[s] \in Leg /\ ExecutionOf(s) \in Execution
         /\ ref[target[s]] # NoRef /\ legLock[target[s]] = s
         /\ target[s] \in LegsOf(ExecutionOf(s))
         /\ event[s].status \in {"settled", "failed"}
BY LegParts DEF IInv, SessionInv, SessionOK, ExecutionOf, Event

LEMMA MoveLegInv ==
  ASSUME IInv, NEW s \in Session, MoveLeg(s)
  PROVE  IInv'
<1>1. /\ pc[s] = "move" /\ pc' = [pc EXCEPT ![s] = "close"]
      /\ UNCHANGED eventVars /\ UNCHANGED execLock /\ NothingWritten /\ Movable(target[s])
      /\ guardLock' = guardLock \/ \E u : guardLock' = [guardLock EXCEPT ![u] = s]
  BY DEF MoveLeg, LockGuard
<1>2. leg[target[s]] = "initiated" /\ verdict[s] = "none"
  BY <1>1, Settling DEF Movable, IInv, RefInv, SessionInv, SessionOK
<1>3. SessionOK(s)'
  <2>1. /\ pc'[s] = "close" /\ event'[s] = event[s] /\ target'[s] = target[s]
        /\ verdict'[s] = "none" /\ UNCHANGED <<leg, ref, legLock>>
    BY <1>1, <1>2 DEF IInv, StateOK, eventVars, NothingWritten, bookVars
  <2> QED BY <1>1, <1>2, <2>1, Settling DEF SessionOK
<1>4. /\ event' = [event EXCEPT ![s] = event[s]] /\ target' = [target EXCEPT ![s] = target[s]]
      /\ verdict' = [verdict EXCEPT ![s] = verdict[s]]
      /\ legLock' \in [Leg -> Session \cup {NoSession}]
      /\ guardLock' \in [User -> Session \cup {NoSession}]
      /\ execLock' \in [Execution -> Session \cup {NoSession}]
      /\ \A x \in Execution : execLock'[x] # s
      /\ UNCHANGED <<legLock, execLock>>
  BY <1>1 DEF IInv, StateOK, WorkOK, DraftInv, DraftOK, eventVars
<1>5. event[s] \in Event \cup {NoEvent} /\ target[s] \in Leg \cup {NoLeg}
  BY DEF IInv, StateOK
<1> QED BY <1>1, <1>2, <1>3, <1>4, <1>5, NothingWrittenKeeps, SettlerInv

\* An execution one of whose legs is open has neither stalled nor completed.
LEMMA OpenExecution ==
  ASSUME IInv, NEW l \in Leg, leg[l] = "initiated"
  PROVE  execution[l[1]] \in {"reserved", "failed"}
BY LegParts DEF IInv, StateOK, ExecutionStatus, BookInv, AllLegsOrNone, OutcomeMatchesLegs

LEMMA CloseExecutionInv ==
  ASSUME IInv, NEW s \in Session, CloseExecution(s) \/ LeaveExecution(s)
  PROVE  IInv'
<1> DEFINE x == ExecutionOf(s)
<1>1. /\ pc[s] = "close" /\ pc' = [pc EXCEPT ![s] = "commit"]
      /\ UNCHANGED <<event, target, legLock, guardLock>> /\ NothingWritten
  BY DEF CloseExecution, LeaveExecution, eventVars, lockVars
<1>2. leg[target[s]] = "initiated" /\ verdict[s] = "none"
  BY <1>1 DEF IInv, SessionInv, SessionOK
<1>3. execution[x] \in {"reserved", "failed"}
  BY <1>1, <1>2, Settling, OpenExecution DEF ExecutionOf
<1>4. /\ pc'[s] = "commit" /\ event'[s] = event[s] /\ target'[s] = target[s]
      /\ UNCHANGED <<execution, leg, ref, legLock>> /\ x' = x
  BY <1>1 DEF IInv, StateOK, NothingWritten, bookVars, ExecutionOf
<1>5. SeesAllSettled(s) => SeesAllSettled(s)'
  BY <1>4 DEF SeesAllSettled, LegsOf
<1>6. /\ event' = [event EXCEPT ![s] = event[s]] /\ target' = [target EXCEPT ![s] = target[s]]
      /\ legLock' \in [Leg -> Session \cup {NoSession}]
      /\ event[s] \in Event \cup {NoEvent} /\ target[s] \in Leg \cup {NoLeg}
      /\ guardLock' \in [User -> Session \cup {NoSession}]
  BY <1>1 DEF IInv, StateOK, WorkOK
<1>7. CASE CloseExecution(s)
  <2> DEFINE v == IF event[s].status = "settled" THEN "completed" ELSE "failed"
  <2>1. /\ Closes(s) /\ execLock[x] = NoSession
        /\ execLock' = [execLock EXCEPT ![x] = s] /\ verdict' = [verdict EXCEPT ![s] = v]
    BY <1>7 DEF CloseExecution, LockExecution
  <2>2. /\ execLock' \in [Execution -> Session \cup {NoSession}] /\ execLock'[x] = s
        /\ \A y \in Execution, t \in Session : t # s => (execLock'[y] = t <=> execLock[y] = t)
    BY <1>1, <2>1, Settling, RouteAssumption DEF IInv, StateOK
  <2>3. verdict'[s] = v /\ v \in {"completed", "failed"}
    BY <2>1 DEF IInv, StateOK
  <2>4. SessionOK(s)'
    <3>1. execution[x] = "reserved" /\ (v = "completed" => SeesAllSettled(s))
      BY <2>1 DEF Closes
    <3>2. v = "completed" => event[s].status = "settled"
      OBVIOUS
    <3>3. v = "failed" => event[s].status = "failed"
      BY <1>1, Settling
    <3> HIDE DEF x, v
    <3>4. ExecutionOf(s)' = x
      BY <1>4 DEF x
    <3> QED BY <1>1, <1>2, <1>4, <1>5, <2>2, <2>3, <3>1, <3>2, <3>3, <3>4, Settling
            DEF SessionOK
  <2> HIDE DEF x, v
  <2> QED BY <1>1, <1>6, <2>1, <2>2, <2>3, <2>4, NothingWrittenKeeps, SettlerInv
<1>8. CASE LeaveExecution(s)
  <2>1. ~Closes(s) /\ UNCHANGED <<verdict, execLock>>
    BY <1>8 DEF LeaveExecution, eventVars, lockVars
  <2>2. /\ verdict' = [verdict EXCEPT ![s] = "none"] /\ verdict'[s] = "none"
        /\ execLock' \in [Execution -> Session \cup {NoSession}]
    BY <1>2, <2>1 DEF IInv, StateOK
  <2>3. SessionOK(s)'
    <3>1. event[s].status = "failed" => execution[x] = "failed"
      BY <1>3, <2>1 DEF Closes
    <3> HIDE DEF x
    <3>2. ExecutionOf(s)' = x
      BY <1>4 DEF x
    <3> QED BY <1>1, <1>2, <1>4, <2>2, <3>1, <3>2, Settling DEF SessionOK
  <2> HIDE DEF x
  <2> QED BY <1>1, <1>6, <2>1, <2>2, <2>3, NothingWrittenKeeps, SettlerInv
<1> QED BY <1>7, <1>8

\* What a COMMIT writes: its leg, and with a verdict its execution.
LEMMA CommitEffect ==
  ASSUME IInv, NEW s \in Session, CommitSettlement(s)
  PROVE  /\ pc[s] = "commit" /\ leg[target[s]] = "initiated"
         /\ \A l \in Leg : leg'[l] = IF l = target[s] THEN event[s].status ELSE leg[l]
         /\ \A x \in Execution : execution'[x] = IF x = ExecutionOf(s) /\ verdict[s] # "none"
                                                 THEN verdict[s] ELSE execution[x]
         /\ verdict[s] # "none" => execution[ExecutionOf(s)] = "reserved"
         /\ UNCHANGED <<ref, payout, issued, restarts>>
         /\ UNCHANGED draftVars /\ UNCHANGED dispatchVars
<1>1. pc[s] = "commit" /\ leg[target[s]] = "initiated"
  BY DEF CommitSettlement, IInv, SessionInv, SessionOK
<1>2. target[s] \in Leg /\ target[s][1] = ExecutionOf(s) /\ ExecutionOf(s) \in Execution
  BY <1>1, Settling DEF ExecutionOf
<1>3. /\ leg' = [leg EXCEPT ![target[s]] = event[s].status]
      /\ execution' = [execution EXCEPT ![target[s][1]] = IF verdict[s] = "none" THEN @ ELSE verdict[s]]
      /\ UNCHANGED <<ref, payout, issued, restarts>>
      /\ UNCHANGED draftVars /\ UNCHANGED dispatchVars
  BY DEF CommitSettlement, providerVars
<1>4. verdict[s] # "none" => execution[ExecutionOf(s)] = "reserved"
  BY DEF IInv, SessionInv, SessionOK
<1> QED BY <1>1, <1>2, <1>3, <1>4 DEF IInv, StateOK

LEMMA CommitSettlementInv ==
  ASSUME IInv, NEW s \in Session, CommitSettlement(s)
  PROVE  IInv'
<1> DEFINE l == target[s]
<1> DEFINE x == ExecutionOf(s)
<1> DEFINE failed == event[s].status = "failed"
<1>1. /\ l \in Leg /\ x \in Execution /\ l[1] = x /\ l \in LegsOf(x)
      /\ ref[l] # NoRef /\ legLock[l] = s
      /\ event[s].status \in {"settled", "failed"}
  BY CommitEffect, Settling DEF ExecutionOf
<1>2. /\ leg[l] = "initiated"
      /\ \A k \in Leg : leg'[k] = IF k = l THEN event[s].status ELSE leg[k]
      /\ \A y \in Execution : execution'[y] = IF y = x /\ verdict[s] # "none"
                                              THEN verdict[s] ELSE execution[y]
      /\ UNCHANGED <<ref, payout, issued, restarts>>
      /\ UNCHANGED draftVars /\ UNCHANGED dispatchVars
  BY CommitEffect
<1>3. /\ hold' = [hold EXCEPT ![l] = IF failed THEN "failed" ELSE "confirmed"]
      /\ statement' = IF failed THEN statement ELSE statement \cup {ref[l]}
      /\ reversed' = IF failed THEN reversed \cup {l} ELSE reversed
      /\ leg' = [leg EXCEPT ![l] = event[s].status]
      /\ execution' = [execution EXCEPT ![l[1]] = IF verdict[s] = "none" THEN @ ELSE verdict[s]]
      /\ EndSession(s)
  BY DEF CommitSettlement
<1>4. /\ verdict[s] \in {"none", "completed", "failed"}
      /\ verdict[s] # "none" => execution[x] = "reserved" /\ execLock[x] = s
      /\ verdict[s] = "completed" => ~failed /\ SeesAllSettled(s)
      /\ verdict[s] = "failed" => failed
      /\ verdict[s] = "none" /\ failed => execution[x] = "failed"
  BY CommitEffect DEF IInv, StateOK, SessionInv, SessionOK
<1>5. execution[x] \in {"reserved", "failed"}
  BY <1>1, <1>2, OpenExecution
<1>6. verdict[s] = "completed" => \A k \in LegsOf(x) : k = l \/ leg[k] = "settled"
  BY <1>4 DEF SeesAllSettled
<1>7. /\ pc' = [pc EXCEPT ![s] = "idle"] /\ event' = [event EXCEPT ![s] = NoEvent]
      /\ target' = [target EXCEPT ![s] = NoLeg] /\ verdict' = [verdict EXCEPT ![s] = "none"]
      /\ LocksReleased(s)
  BY <1>3, EndSessionLocks DEF EndSession
<1> HIDE DEF l, x, failed
<1>8. StateOK'
  <2>1. /\ leg' \in [Leg -> LegStatus] /\ hold' \in [Leg -> HoldStatus] /\ reversed' \subseteq Leg
    BY <1>1, <1>3 DEF IInv, StateOK, LegStatus, HoldStatus
  <2>2. execution' \in [Execution -> ExecutionStatus]
    BY <1>3, <1>4 DEF IInv, StateOK, ExecutionStatus
  <2>3. /\ pc' \in [Session -> {"idle", "fire", "reserve", "dispatch", "acked",
                                 "lookup", "move", "close", "commit"}]
        /\ event' \in [Session -> Event \cup {NoEvent}]
        /\ target' \in [Session -> Leg \cup {NoLeg}]
        /\ verdict' \in [Session -> {"none", "completed", "failed"}]
        /\ legLock' \in [Leg -> Session \cup {NoSession}]
        /\ execLock' \in [Execution -> Session \cup {NoSession}]
    BY <1>7 DEF IInv, StateOK, LocksReleased
  <2>4. WorkOK'
    BY <1>2, <1>7 DEF IInv, StateOK, WorkOK, LocksReleased, draftVars, dispatchVars
  <2> QED BY <1>2, <2>1, <2>2, <2>3, <2>4 DEF IInv, StateOK
<1>9. PayoutInv' /\ AckInv'
  <2>1. \A t \in Session : pc'[t] = "acked" => pc[t] = "acked" /\ left'[t] = left[t]
    BY <1>2, <1>7 DEF IInv, StateOK, dispatchVars
  <2> QED BY <1>2, <2>1, PayoutsKept DEF IInv
<1>10. RefInv'
  <2>1. \A k \in Leg : ref'[k] # NoRef <=> leg'[k] \in {"initiated", "settled", "failed"}
    BY <1>1, <1>2 DEF IInv, RefInv
  <2>2. \A k \in Leg : leg'[k] = "settled" => ref'[k] \in statement'
    BY <1>1, <1>2, <1>3 DEF IInv, RefInv, failed
  <2>3. ASSUME NEW r \in statement' PROVE \E k \in Leg : leg'[k] = "settled" /\ ref'[k] = r
    <3>1. CASE r \in statement
      <4>1. PICK k \in Leg : leg[k] = "settled" /\ ref[k] = r
        BY <3>1 DEF IInv, RefInv
      <4> QED BY <1>2, <4>1
    <3>2. CASE r \notin statement
      <4>1. ~failed /\ r = ref[l]
        BY <1>3, <2>3, <3>2
      <4>2. leg'[l] = "settled"
        BY <1>1, <1>2, <4>1 DEF failed
      <4> QED BY <1>1, <1>2, <4>1, <4>2
    <3> QED BY <3>1, <3>2
  <2> QED BY <2>1, <2>2, <2>3 DEF RefInv
<1>11. SessionInv'
  <2> SUFFICES ASSUME NEW t \in Session PROVE SessionOK(t)'
    BY DEF SessionInv
  <2>1. CASE t = s
    BY <1>7, <2>1, SessionAway DEF IInv, StateOK
  <2>2. CASE t # s
    <3>1. /\ pc'[t] = pc[t] /\ event'[t] = event[t] /\ target'[t] = target[t]
          /\ verdict'[t] = verdict[t]
          /\ \A k \in Leg : legLock[k] = t => legLock'[k] = t
          /\ \A y \in Execution : execLock[y] = t => execLock'[y] = t
      BY <1>7, <2>2 DEF IInv, StateOK, LocksReleased
    <3>2. CASE target[t] = l
      <4>1. pc[t] \notin {"move", "close", "commit"}
        BY <1>1, <2>2, <3>2, Settling
      <4>2. SessionOK(t)
        BY DEF IInv, SessionInv
      <4> QED BY <3>1, <4>1, <4>2 DEF SessionOK
    <3>3. CASE target[t] # l
      <4>1. \A k \in Leg : (k = target[t] /\ ref[k] # NoRef) \/ leg[k] = "settled"
                           => ref'[k] = ref[k] /\ leg'[k] = leg[k]
        BY <1>2, <3>3
      <4>2. \A y \in Execution : execLock[y] = t \/ execution[y] = "failed"
                                 => execution'[y] = execution[y]
        BY <1>2, <1>4, <2>2
      <4>3. SessionOK(t)
        BY DEF IInv, SessionInv
      <4> QED BY <3>1, <4>1, <4>2, <4>3, SessionKept DEF IInv
    <3> QED BY <3>2, <3>3
  <2> QED BY <2>1, <2>2
<1>12. DraftInv'
  <2> SUFFICES ASSUME NEW t \in Session PROVE DraftOK(t)'
    BY DEF DraftInv
  <2>1. CASE t = s
    <3>1. pc[s] = "commit"
      BY CommitEffect
    <3>2. /\ pc'[s] = "idle" /\ firing'[s] = {} /\ draft'[s] = {} /\ won'[s] = {}
          /\ \A y \in Execution : execLock'[y] # s
      BY <1>2, <1>7, <3>1 DEF IInv, StateOK, DraftInv, DraftOK, draftVars, LocksReleased
    <3> QED BY <2>1, <3>2, DraftAway
  <2>2. CASE t # s
    <3>1. /\ pc'[t] = pc[t] /\ firing'[t] = firing[t] /\ draft'[t] = draft[t] /\ won'[t] = won[t]
          /\ \A y \in Execution : execLock'[y] = t <=> execLock[y] = t
          /\ firing[t] \subseteq Execution /\ won[t] \subseteq Execution
      BY <1>2, <1>7, <2>2 DEF IInv, StateOK, WorkOK, draftVars, LocksReleased
    <3>2. \A y \in Execution : execLock[y] = t => execution'[y] = execution[y]
      BY <1>2, <1>4, <2>2
    <3> QED BY <3>1, <3>2, DraftKept DEF IInv, DraftInv
  <2> QED BY <2>1, <2>2
<1>13. BookInv'
  <2>1. AllLegsOrNone'
    <3> SUFFICES ASSUME NEW k \in Leg
                 PROVE  leg'[k] = "absent" <=> execution'[k[1]] \in {"absent", "insufficient_funds"}
      BY DEF AllLegsOrNone
    <3>1. /\ leg[k] = "absent" <=> execution[k[1]] \in {"absent", "insufficient_funds"}
          /\ k[1] \in Execution
      BY LegParts DEF IInv, BookInv, AllLegsOrNone
    <3>2. leg'[k] = "absent" <=> leg[k] = "absent"
      BY <1>1, <1>2
    <3>3. execution'[k[1]] = execution[k[1]]
            \/ {execution[k[1]], execution'[k[1]]} \subseteq {"reserved", "completed", "failed"}
      BY <1>2, <1>4, <1>5, <3>1
    <3> QED BY <3>1, <3>2, <3>3
  <2>2. HoldsFollowLegs'
    <3>1. \A k \in Leg : hold'[k] = IF k = l THEN (IF failed THEN "failed" ELSE "confirmed")
                                            ELSE hold[k]
      BY <1>1, <1>3 DEF IInv, StateOK
    <3> QED BY <1>1, <1>2, <1>3, <3>1 DEF IInv, BookInv, HoldsFollowLegs, failed
  <2>3. OutcomeMatchesLegs'
    <3> SUFFICES ASSUME NEW y \in Execution
                 PROVE  /\ execution'[y] = "completed" => \A k \in LegsOf(y) : leg'[k] = "settled"
                        /\ execution'[y] = "failed" <=> \E k \in LegsOf(y) : leg'[k] = "failed"
      BY DEF OutcomeMatchesLegs, LegsOf
    <3>1. /\ execution[y] = "completed" => \A k \in LegsOf(y) : leg[k] = "settled"
          /\ execution[y] = "failed" <=> \E k \in LegsOf(y) : leg[k] = "failed"
      BY DEF IInv, BookInv, OutcomeMatchesLegs
    <3>2. CASE y # x
      <4>1. execution'[y] = execution[y] /\ \A k \in LegsOf(y) : leg'[k] = leg[k]
        BY <1>1, <1>2, <3>2, LegParts
      <4> QED BY <3>1, <4>1
    <3>3. CASE y = x
      <4>1. /\ leg'[l] = event[s].status /\ \A k \in LegsOf(x) : k # l => leg'[k] = leg[k]
            /\ execution'[x] = IF verdict[s] # "none" THEN verdict[s] ELSE execution[x]
        BY <1>1, <1>2, LegParts
      <4>2. CASE failed
        BY <1>1, <1>4, <3>3, <4>1, <4>2 DEF failed
      <4>3. CASE ~failed
        <5>1. leg'[l] = "settled" /\ verdict[s] \in {"none", "completed"}
          BY <1>1, <1>4, <4>1, <4>3 DEF failed
        <5> QED BY <1>1, <1>2, <1>4, <1>5, <1>6, <3>1, <3>3, <4>1, <5>1
      <4> QED BY <4>2, <4>3
    <3> QED BY <3>2, <3>3
  <2> QED BY <2>1, <2>2, <2>3 DEF BookInv
<1> QED BY <1>8, <1>9, <1>10, <1>11, <1>12, <1>13 DEF IInv

\* The providers forget; the tables stay.
LEMMA RestartInv ==
  ASSUME IInv, Restart
  PROVE  IInv'
<1>1. /\ payout' = [l \in Leg |-> NoPayout] /\ issued' = 0
      /\ pc' = [s \in Session |-> "idle"] /\ verdict' = [s \in Session |-> "none"]
      /\ firing' = [s \in Session |-> {}] /\ draft' = [s \in Session |-> {}]
      /\ won' = [s \in Session |-> {}]
      /\ queue' = [s \in Session |-> {}] /\ left' = [s \in Session |-> {}]
      /\ execLock' = [x \in Execution |-> NoSession]
      /\ guardLock' = [u \in User |-> NoSession]
      /\ restarts < MaxRestarts /\ restarts' = restarts + 1
      /\ UNCHANGED tables
  BY DEF Restart, ForgetPayouts, bookVars, tables
<1>2. WorkOK'
  BY <1>1 DEF WorkOK
<1>3. StateOK'
  BY <1>1, <1>2, SettlementAssumption DEF Restart, IInv, StateOK, tables
<1>4. PayoutInv' /\ AckInv'
  BY <1>1 DEF PayoutInv, AckInv, Known
<1>5. SessionInv'
  BY <1>1, SessionAway DEF SessionInv
<1>6. DraftInv'
  BY <1>1, DraftAway, RouteAssumption DEF DraftInv
<1>7. RefInv' /\ BookInv'
  BY <1>1, TablesKept DEF IInv
<1> QED BY <1>3, <1>4, <1>5, <1>6, <1>7 DEF IInv

LEMMA NextInv ==
  ASSUME IInv, [Next]_vars
  PROVE  IInv'
<1>1. CASE UNCHANGED vars
  <2>1. /\ UNCHANGED tables /\ UNCHANGED eventVars
        /\ UNCHANGED <<payout, issued, pc, restarts>>
        /\ UNCHANGED <<guardLock, execLock, firing, draft, won, queue, left>>
    BY <1>1 DEF vars, routingVars, bookVars, providerVars, lockVars, draftVars, dispatchVars,
       settlementVars, tables
  <2>2. StateOK'
    BY <2>1 DEF IInv, StateOK, WorkOK, tables, eventVars
  <2>3. PayoutInv' /\ AckInv'
    BY <2>1, PayoutsKept DEF IInv
  <2>4. SessionInv'
    BY <2>1, SessionKept DEF IInv, SessionInv, eventVars, tables
  <2>5. DraftInv'
    BY <2>1, DraftKept DEF IInv, DraftInv, StateOK, WorkOK, tables
  <2>6. RefInv' /\ BookInv'
    BY <2>1, TablesKept DEF IInv
  <2> QED BY <2>2, <2>3, <2>4, <2>5, <2>6 DEF IInv
<1>2. CASE RoutingStep
  <2>1. UNCHANGED settlementVars
    BY <1>2 DEF RoutingStep
  <2>2. ASSUME NEW t \in Trigger, ConfirmTrigger(t) PROVE IInv'
    BY <2>1, <2>2, ConfirmTriggerInv
  <2>3. ASSUME NEW s \in Session, Requests(s) PROVE IInv'
    BY <2>1, <2>3, BeginTriggerInv, BeginRetryInv DEF Requests
  <2>4. ASSUME NEW s \in Session, ReservationStep(s) \/ AbandonReservation(s) PROVE IInv'
    <3>1. CASE ReserveStep(s)
      BY <2>1, <3>1, InsertExecutionInv, AlreadyFiredInv, ReserveLegInv, RefuseLegInv,
         ReleaseSavepointInv DEF ReserveStep
    <3>2. CASE ThrowLeg(s) \/ AbandonReservation(s)
      <4>1. pc[s] \in {"fire", "reserve"} /\ RollbackReservation(s)
        BY <3>2 DEF ThrowLeg, AtLeg, AbandonReservation
      <4> QED BY <2>1, <4>1, RollbackReservationInv
    <3>3. CASE CommitReservation(s)
      BY <2>1, <3>3, CommitReservationInv
    <3> QED BY <2>4, <3>1, <3>2, <3>3 DEF ReservationStep
  <2>5. ASSUME NEW s \in Session, DispatchStep(s) \/ AbandonDispatch(s) PROVE IInv'
    BY <2>1, <2>5, ReadReservedLegsInv, InitiatePayoutInv, RecordAckInv, EndDispatchInv
       DEF DispatchStep
  <2> QED BY <1>2, <2>2, <2>3, <2>4, <2>5 DEF RoutingStep
<1>3. ASSUME NEW p \in Leg, FinalizeSend(p) PROVE IInv'
  BY <1>3, FinalizeSendInv
<1>4. ASSUME NEW s \in Session,
             Settle(s) \/ Poll(s) \/ SettlementStep(s) \/ AbandonSettlement(s)
      PROVE  IInv'
  <2>1. UnknownReference(s) \/ StaleEvent(s) \/ RefuseReversal(s) \/ AbandonSettlement(s)
          => pc[s] \notin {"fire", "reserve"} /\ EndSession(s) /\ NothingWritten
    BY DEF UnknownReference, StaleEvent, RefuseReversal, AbandonSettlement
  <2> QED BY <1>4, <2>1, EndSessionInv, SettleInv, LockLegInv, MoveLegInv, CloseExecutionInv,
             CommitSettlementInv DEF SettlementStep
<1>5. CASE Restart
  BY <1>5, RestartInv
<1> QED BY <1>1, <1>2, <1>3, <1>4, <1>5 DEF Next

\* What ends a reservation without a trace, or goes on with it, writes no table.
LEMMA ReservationWritesLate ==
  ASSUME NEW s \in Session, ReservationStep(s) \/ AbandonReservation(s) \/ Requests(s)
  PROVE  UNCHANGED bookVars \/ CommitReservation(s)
BY DEF ReservationStep, ReserveStep, InsertExecution, AlreadyFired, ReserveLeg, RefuseLeg,
   ReleaseSavepoint, ThrowLeg, AbandonReservation, RollbackReservation, Requests, BeginTrigger,
   BeginRetry

\* Which way each step moves legs and executions.
LEMMA StepForward ==
  ASSUME IInv, [Next]_vars
  PROVE  /\ \A l \in Leg : \/ leg'[l] = leg[l]
                           \/ leg[l] = "absent"
                           \/ leg[l] = "reserved" /\ leg'[l] = "initiated"
                           \/ leg[l] = "initiated" /\ leg'[l] \in {"settled", "failed"}
         /\ \A x \in Execution : \/ execution'[x] = execution[x]
                                 \/ execution[x] = "absent"
                                 \/ execution[x] = "insufficient_funds" /\ execution'[x] = "reserved"
                                 \/ execution[x] = "reserved"
                                    /\ execution'[x] \in {"completed", "failed"}
<1> USE DEF IInv, StateOK
<1>1. CASE UNCHANGED <<leg, execution>>
  BY <1>1
<1>2. ASSUME NEW s \in Session, CommitReservation(s)
      PROVE  /\ \A l \in Leg : leg'[l] = leg[l] \/ leg[l] = "absent"
             /\ \A x \in Execution : \/ execution'[x] = execution[x]
                                     \/ execution[x] = "absent"
                                     \/ /\ execution[x] = "insufficient_funds"
                                        /\ execution'[x] = "reserved"
  <2>1. /\ leg' = [l \in Leg |-> IF l \in draft[s] THEN "reserved" ELSE leg[l]]
        /\ execution' = [x \in Execution |-> IF x \in won[s] THEN "reserved"
                                             ELSE IF execLock[x] = s THEN "insufficient_funds"
                                             ELSE execution[x]]
    BY <1>2 DEF CommitReservation, BookLegs
  <2>2. \A l \in draft[s] : leg[l] = "absent"
    BY <1>2, CommitReservationEffect
  <2>3. \A x \in Execution : x \in won[s] \/ execLock[x] = s
                             => execution[x] \in {"absent", "insufficient_funds"}
    BY <1>2, CommitReservationEffect
  <2> QED BY <2>1, <2>2, <2>3
<1>3. ASSUME NEW s \in Session, RecordAck(s)
      PROVE  /\ execution' = execution
             /\ \A l \in Leg : \/ leg'[l] = leg[l]
                               \/ leg[l] = "reserved" /\ leg'[l] = "initiated"
  BY <1>3 DEF RecordAck
<1>4. ASSUME NEW s \in Session, CommitSettlement(s)
      PROVE  /\ \A l \in Leg : \/ leg'[l] = leg[l]
                               \/ leg[l] = "initiated" /\ leg'[l] \in {"settled", "failed"}
             /\ \A x \in Execution : \/ execution'[x] = execution[x]
                                     \/ /\ execution[x] = "reserved"
                                        /\ execution'[x] \in {"completed", "failed"}
  <2>1. event[s].status \in {"settled", "failed"}
    BY <1>4, CommitEffect, Settling
  <2> QED BY <1>4, <2>1, CommitEffect
<1>5. ASSUME NEW s \in Session,
             \/ ReservationStep(s) \/ AbandonReservation(s) \/ Requests(s)
             \/ DispatchStep(s) \/ AbandonDispatch(s) \/ SettlementStep(s)
             \/ AbandonSettlement(s) \/ Settle(s) \/ Poll(s)
      PROVE  \/ UNCHANGED <<leg, execution>>
             \/ CommitReservation(s) \/ RecordAck(s) \/ CommitSettlement(s)
  BY <1>5, ReservationWritesLate DEF DispatchStep, ReadReservedLegs, InitiatePayout, EndDispatch,
     AbandonDispatch, SettlementStep, AbandonSettlement, UnknownReference, LockLeg, StaleEvent,
     MoveLeg, RefuseReversal, CloseExecution, LeaveExecution, Settle, Poll, Receive,
     NothingWritten, bookVars
<1>6. (\E t \in Trigger : ConfirmTrigger(t)) \/ (\E p \in Leg : FinalizeSend(p)) \/ Restart
      \/ UNCHANGED vars
        => UNCHANGED <<leg, execution>>
  BY DEF ConfirmTrigger, FinalizeSend, Restart, bookVars, vars, routingVars
<1> QED BY <1>1, <1>2, <1>3, <1>4, <1>5, <1>6 DEF Next, RoutingStep

LEMMA Invariance == Spec => []IInv
<1>1. Init => IInv
  BY InitInv
<1>2. IInv /\ [Next]_vars => IInv'
  BY NextInv
<1> QED BY <1>1, <1>2, PTL DEF Spec
-----------------------------------------------------------------------------
\* No partial fills: a route's execution has all its legs or none, although
\* its transaction inserts them one by one.
THEOREM NoPartialFills == Spec => []AllLegsOrNone
<1>1. IInv => AllLegsOrNone
  BY DEF IInv, BookInv
<1> QED BY <1>1, Invariance, PTL

\* An execution that says completed has only settled legs, and it says failed
\* exactly when a leg has failed.
THEOREM OutcomeAlwaysMatchesLegs == Spec => []OutcomeMatchesLegs
<1>1. IInv => OutcomeMatchesLegs
  BY DEF IInv, BookInv
<1> QED BY <1>1, Invariance, PTL

\* No step takes a leg or an execution back, or out of a final state.
THEOREM NeverBackward == Spec => OnlyForward
<1>1. IInv /\ [Next]_vars
        => [ /\ \A l \in Leg : Forward(leg[l], leg'[l])
             /\ \A x \in Execution : Forward(execution[x], execution'[x]) ]_vars
  <2> SUFFICES ASSUME IInv, [Next]_vars
               PROVE  /\ \A l \in Leg : Forward(leg[l], leg'[l])
                      /\ \A x \in Execution : Forward(execution[x], execution'[x])
    OBVIOUS
  <2>1. \A l \in Leg : leg[l] \in LegStatus /\ leg'[l] \in LegStatus
    BY NextInv DEF IInv, StateOK
  <2>2. \A x \in Execution : execution[x] \in ExecutionStatus /\ execution'[x] \in ExecutionStatus
    BY NextInv DEF IInv, StateOK
  <2>3. \A l \in Leg : Forward(leg[l], leg'[l])
    BY <2>1, StepForward DEF Forward, LegStatus
  <2>4. \A x \in Execution : Forward(execution[x], execution'[x])
    BY <2>2, StepForward DEF Forward, ExecutionStatus
  <2> QED BY <2>3, <2>4
<1> QED BY <1>1, Invariance, PTL DEF OnlyForward, Spec
-----------------------------------------------------------------------------
(* Whose reference is whose.                                                *)

\* A reference names one leg for good: no provider that counts its references
\* is used, or the process that counts never dies.
RefsLast == MaxRestarts = 0 \/ \A l \in Leg : ProviderOf[l] # "legacybank"

\* Whose reference r is: derived for good, or counted and still in memory.
Owns(l, r) ==
  IF ProviderOf[l] = "legacybank" THEN Known(l) /\ payout[l].ref = r ELSE r = Digest(l)

OwnInv == \A l \in Leg : ref[l] # NoRef => Owns(l, ref[l])

\* References do not collide.
LEMMA OneOwner ==
  ASSUME PayoutInv, issued \in Nat, NEW k \in Leg, NEW l \in Leg, NEW r, Owns(k, r), Owns(l, r)
  PROVE  k = l
<1>1. \A m \in Leg : Known(m) /\ ProviderOf[m] = "legacybank"
                       => \E n \in Nat : payout[m].ref = Counted(n)
  BY DEF PayoutInv
<1> QED BY <1>1, DigestType DEF PayoutInv, Owns

LEMMA UniqueRef ==
  ASSUME IInv, OwnInv, NEW k \in Leg, NEW l \in Leg, ref[k] # NoRef, ref[k] = ref[l]
  PROVE  k = l
BY OneOwner DEF OwnInv, IInv, StateOK

\* The providers never forget while the process lives.
LEMMA MemoryKept ==
  ASSUME IInv, [Next]_vars, ~Restart
  PROVE  \A l \in Leg : Known(l) => Known(l)' /\ payout'[l].ref = payout[l].ref
<1>1. CASE UNCHANGED payout
  BY <1>1 DEF Known
<1>2. ASSUME NEW s \in Session, InitiatePayout(s)
      PROVE  \A l \in Leg : Known(l) => Known(l)' /\ payout'[l].ref = payout[l].ref
  BY <1>2, InitiatePayoutAtMemory DEF InitiatePayout, IInv
<1>3. ASSUME NEW s \in Session, Settle(s)
      PROVE  \A l \in Leg : Known(l) => Known(l)' /\ payout'[l].ref = payout[l].ref
  BY <1>3, OutcomeMemory DEF Settle, IInv
<1>4. ASSUME NEW p \in Leg, FinalizeSend(p)
      PROVE  \A l \in Leg : Known(l) => Known(l)' /\ payout'[l].ref = payout[l].ref
  BY <1>4, OutcomeMemory DEF FinalizeSend, IInv
<1>5. ASSUME NEW s \in Session,
             \/ ReservationStep(s) \/ AbandonReservation(s) \/ Requests(s)
             \/ DispatchStep(s) \/ AbandonDispatch(s) \/ SettlementStep(s)
             \/ AbandonSettlement(s) \/ Poll(s)
      PROVE  UNCHANGED payout \/ InitiatePayout(s)
  <2>1. ReservationStep(s) \/ AbandonReservation(s) \/ Requests(s) => UNCHANGED payout
    BY DEF ReservationStep, ReserveStep, InsertExecution, AlreadyFired, ReserveLeg, RefuseLeg,
       ReleaseSavepoint, ThrowLeg, AbandonReservation, RollbackReservation, CommitReservation,
       Requests, BeginTrigger, BeginRetry, providerVars
  <2>2. DispatchStep(s) \/ AbandonDispatch(s) => UNCHANGED payout \/ InitiatePayout(s)
    BY DEF DispatchStep, ReadReservedLegs, RecordAck, EndDispatch, AbandonDispatch, providerVars
  <2>3. SettlementStep(s) \/ AbandonSettlement(s) \/ Poll(s) => UNCHANGED payout
    BY DEF SettlementStep, AbandonSettlement, UnknownReference, LockLeg, StaleEvent, MoveLeg,
       RefuseReversal, CloseExecution, LeaveExecution, CommitSettlement, Poll, NothingWritten,
       providerVars
  <2> QED BY <1>5, <2>1, <2>2, <2>3
<1>6. (\E t \in Trigger : ConfirmTrigger(t)) \/ UNCHANGED vars => UNCHANGED payout
  BY DEF ConfirmTrigger, providerVars, vars, routingVars
<1> QED BY <1>1, <1>2, <1>3, <1>4, <1>5, <1>6 DEF Next, RoutingStep

\* Only an acknowledgement gives a leg a reference, the one its payout has.
LEMMA RefWritten ==
  ASSUME IInv, [Next]_vars, NEW l \in Leg, ref'[l] # ref[l]
  PROVE  Known(l) /\ ref'[l] = payout[l].ref
<1>1. ASSUME NEW s \in Session,
             \/ ReservationStep(s) \/ AbandonReservation(s) \/ Requests(s)
             \/ DispatchStep(s) \/ AbandonDispatch(s) \/ SettlementStep(s)
             \/ AbandonSettlement(s) \/ Settle(s) \/ Poll(s)
      PROVE  UNCHANGED ref \/ RecordAck(s)
  <2>1. ReservationStep(s) \/ AbandonReservation(s) \/ Requests(s) => UNCHANGED ref
    BY ReservationWritesLate DEF bookVars, CommitReservation
  <2>2. DispatchStep(s) \/ AbandonDispatch(s) => UNCHANGED ref \/ RecordAck(s)
    BY DEF DispatchStep, ReadReservedLegs, InitiatePayout, EndDispatch, AbandonDispatch, bookVars
  <2>3. SettlementStep(s) \/ AbandonSettlement(s) \/ Settle(s) \/ Poll(s) => UNCHANGED ref
    BY DEF SettlementStep, AbandonSettlement, UnknownReference, LockLeg, StaleEvent, MoveLeg,
       RefuseReversal, CloseExecution, LeaveExecution, CommitSettlement, Settle, Poll, Receive,
       NothingWritten, bookVars
  <2> QED BY <1>1, <2>1, <2>2, <2>3
<1>2. (\E t \in Trigger : ConfirmTrigger(t)) \/ (\E p \in Leg : FinalizeSend(p)) \/ Restart
      \/ UNCHANGED vars
        => UNCHANGED ref
  BY DEF ConfirmTrigger, FinalizeSend, Restart, bookVars, vars, routingVars
<1>3. PICK s \in Session : RecordAck(s)
  BY <1>1, <1>2 DEF Next, RoutingStep
<1>4. pc[s] = "acked" /\ ref' = [ref EXCEPT ![NextLeg(s)] = payout[NextLeg(s)].ref]
  BY <1>3 DEF RecordAck
<1>5. l = NextLeg(s) /\ ref'[l] = payout[l].ref
  BY <1>4 DEF IInv, StateOK
<1> QED BY <1>4, <1>5 DEF IInv, AckInv

LEMMA OwnNext ==
  ASSUME RefsLast, IInv, OwnInv, [Next]_vars
  PROVE  OwnInv'
<1> SUFFICES ASSUME NEW l \in Leg, ref'[l] # NoRef PROVE Owns(l, ref[l])'
  BY DEF OwnInv
<1>1. ProviderOf' = ProviderOf /\ Digest(l)' = Digest(l)
  BY DEF ProviderOf, ActionOf, Digest
<1>2. Owns(l, ref'[l])
  <2>1. CASE ref'[l] = ref[l]
    BY <2>1 DEF OwnInv
  <2>2. CASE ref'[l] # ref[l]
    BY <2>2, RefWritten DEF IInv, PayoutInv, Owns
  <2> QED BY <2>1, <2>2
<1>3. CASE ProviderOf[l] # "legacybank"
  BY <1>1, <1>2, <1>3 DEF Owns
<1>4. CASE ProviderOf[l] = "legacybank"
  <2>1. ~Restart
    BY <1>4, SettlementAssumption DEF RefsLast, Restart, IInv, StateOK
  <2>2. Known(l) /\ payout[l].ref = ref'[l]
    BY <1>2, <1>4 DEF Owns
  <2>3. Known(l)' /\ payout'[l].ref = ref'[l]
    BY <2>1, <2>2, MemoryKept
  <2> QED BY <1>1, <1>4, <2>3 DEF Owns
<1> QED BY <1>3, <1>4

LEMMA StatementsOwned ==
  ASSUME IInv, OwnInv
  PROVE  BooksFollowLegs
<1>1. ASSUME NEW l \in Leg, ref[l] \in statement PROVE leg[l] = "settled"
  <2>1. PICK k \in Leg : leg[k] = "settled" /\ ref[k] = ref[l]
    BY <1>1 DEF IInv, RefInv
  <2>2. ref[k] # NoRef
    BY <2>1 DEF IInv, RefInv
  <2> QED BY <2>1, <2>2, UniqueRef
<1> QED BY <1>1 DEF IInv, RefInv, BookInv, HoldsFollowLegs, BooksFollowLegs

\* A leg's hold, its statement and its reversal tell one story, whatever
\* duplicates and contradictions the providers send and in whatever order.
THEOREM BooksAlwaysFollowLegs ==
  ASSUME RefsLast
  PROVE  Spec => []BooksFollowLegs
<1>1. Init => OwnInv
  BY DEF Init, RoutingInit, OwnInv
<1>2. IInv /\ OwnInv /\ [Next]_vars => OwnInv'
  BY OwnNext
<1>3. IInv /\ OwnInv => BooksFollowLegs
  BY StatementsOwned
<1> QED BY <1>1, <1>2, <1>3, Invariance, PTL DEF Spec
-----------------------------------------------------------------------------
(* The money: what a user can spend.                                        *)

MoneyInv ==
  /\ confirmed \in [Trigger -> BOOLEAN]
  /\ headroom \in [User -> Int]
  /\ \A u \in User :
       /\ headroom[u] = SumFunctionOnSet(Credited(u), Trigger) - SumFunctionOnSet(Held(u), Leg)
       /\ headroom[u] >= 0

\* A failure that is past its reversal posted one that balances: it gives back
\* what the hold took.
ReversalInv ==
  /\ \A s \in Session :
       pc[s] \in {"close", "commit"} /\ event[s].status = "failed" => Reversible(target[s])
  /\ \A l \in reversed : Reversible(l)

LEMMA FiniteLeg == IsFiniteSet(Leg)
<1> DEFINE Rows(x) == {x} \X DOMAIN RouteActions[x[1]]
           rows == [x \in Execution |-> Rows(x)]
           all == { Rows(x) : x \in Execution }
<1>1. IsFiniteSet(Execution)
  BY FiniteAssumption, FS_Product DEF Execution
<1>2. rows \in Surjection(Execution, all)
  BY DEF Surjection
<1>3. IsFiniteSet(all)
  <2> HIDE DEF rows, all
  <2> QED BY <1>1, <1>2, FS_Surjection
<1>4. ASSUME NEW x \in Execution PROVE IsFiniteSet(Rows(x))
  <2>1. RouteActions[x[1]] \in Seq(Action)
    BY RouteAssumption DEF Execution
  <2>2. /\ DOMAIN RouteActions[x[1]] = 1 .. Len(RouteActions[x[1]])
        /\ Len(RouteActions[x[1]]) \in Nat
    BY <2>1
  <2>3. IsFiniteSet(DOMAIN RouteActions[x[1]])
    BY <2>2, FS_Interval
  <2>4. IsFiniteSet({x})
    BY FS_Singleton
  <2> QED BY <2>3, <2>4, FS_Product
<1>5. \A T \in all : IsFiniteSet(T)
  BY <1>4
<1>6. Leg = UNION all
  BY DEF Leg
<1> HIDE DEF all
<1> QED BY <1>3, <1>5, <1>6, FS_UNION

LEMMA LegAction ==
  ASSUME NEW l \in Leg
  PROVE  /\ ActionOf(l) \in Action
         /\ Debit[l] \in Nat
         /\ UserOf(l[1]) \in User
<1>1. PICK x \in Execution : \E i \in DOMAIN RouteActions[x[1]] : l = <<x, i>>
  BY DEF Leg
<1>2. x[1] \in Route /\ RouteActions[x[1]] \in Seq(Action)
  BY RouteAssumption DEF Execution
<1>3. ActionOf(l) \in Action
  BY <1>1, <1>2 DEF ActionOf
<1>4. UserOf(l[1]) \in User
  <2>1. WatchedUser[x[1]] \in User
    BY <1>2, RouteAssumption
  <2> QED BY <1>1, <2>1 DEF UserOf
<1> QED BY <1>3, <1>4 DEF Debit, Action

LEMMA MoneyType ==
  /\ \A u : \A t \in Trigger : Credited(u)[t] \in Int
  /\ \A u : \A l \in Leg : Held(u)[l] \in Int
  /\ \A u : SumFunctionOnSet(Credited(u), Trigger) \in Int
  /\ \A u : SumFunctionOnSet(Held(u), Leg) \in Int
<1>1. \A u : \A t \in Trigger : Credited(u)[t] \in Int
  BY RouteAssumption DEF Credited
<1>2. \A u : \A l \in Leg : Held(u)[l] \in Int
  BY LegAction DEF Held
<1>3. ASSUME NEW u PROVE /\ SumFunctionOnSet(Credited(u), Trigger) \in Int
                         /\ SumFunctionOnSet(Held(u), Leg) \in Int
  BY <1>1, <1>2, SumInt, FiniteAssumption, FiniteLeg
<1> QED BY <1>1, <1>2, <1>3

\* What keeps confirmations and buckets, and moves legs only while they hold.
LEMMA MoneyKept ==
  ASSUME MoneyInv, UNCHANGED <<confirmed, headroom>>,
         \A l \in Leg : leg'[l] \in {"absent", "failed"} <=> leg[l] \in {"absent", "failed"}
  PROVE  MoneyInv'
<1> SUFFICES ASSUME NEW u \in User
             PROVE  /\ SumFunctionOnSet(Credited(u)', Trigger) = SumFunctionOnSet(Credited(u), Trigger)
                    /\ SumFunctionOnSet(Held(u)', Leg) = SumFunctionOnSet(Held(u), Leg)
  BY DEF MoneyInv
<1>1. Credited(u)' = Credited(u)
  BY DEF Credited
<1>2. \A l \in Leg : Held(u)'[l] = Held(u)[l]
  BY DEF Held
<1>3. SumFunctionOnSet(Held(u)', Leg) = SumFunctionOnSet(Held(u), Leg)
  BY <1>2, SumEqual, FiniteLeg
<1> QED BY <1>1, <1>3

LEMMA ConfirmTriggerMoney ==
  ASSUME IInv, MoneyInv, NEW t \in Trigger, ConfirmTrigger(t)
  PROVE  MoneyInv'
<1> DEFINE owner == Credit[t].user
<1>1. /\ owner \in User /\ Credit[t].amount \in Nat
      /\ ~confirmed[t] /\ confirmed' = [confirmed EXCEPT ![t] = TRUE]
      /\ headroom' = [headroom EXCEPT ![owner] = @ + Credit[t].amount]
      /\ leg' = leg
  BY RouteAssumption DEF ConfirmTrigger
<1>2. confirmed' \in [Trigger -> BOOLEAN] /\ headroom' \in [User -> Int]
  BY <1>1 DEF MoneyInv
<1>3. ASSUME NEW u \in User
      PROVE  /\ headroom'[u] = SumFunctionOnSet(Credited(u)', Trigger) - SumFunctionOnSet(Held(u)', Leg)
             /\ headroom'[u] >= 0
  <2> DEFINE f == Credited(u)
             g == Credited(u)'
             held == SumFunctionOnSet(Held(u), Leg)
             gain == IF u = owner THEN Credit[t].amount ELSE 0
  <2>1. \A x \in Trigger : f[x] \in Int /\ g[x] \in Int
    BY RouteAssumption DEF Credited
  <2>2. \A x \in Trigger \ {t} : f[x] = g[x]
    BY <1>1 DEF Credited, MoneyInv
  <2>3. g[t] - f[t] = gain
    BY <1>1 DEF Credited, MoneyInv
  <2>4. Held(u)' = Held(u) /\ held \in Int
    BY <1>1, MoneyType DEF Held
  <2>5. headroom[u] = SumFunctionOnSet(f, Trigger) - held /\ headroom[u] >= 0
    BY DEF MoneyInv
  <2>6. headroom'[u] = headroom[u] + gain /\ gain \in Nat /\ headroom[u] \in Int
    BY <1>1 DEF MoneyInv
  <2>7. SumFunctionOnSet(f, Trigger) \in Int
    BY MoneyType
  <2> HIDE DEF f, g, gain
  <2>8. SumFunctionOnSet(g, Trigger) = SumFunctionOnSet(f, Trigger) + gain
    BY <2>1, <2>2, <2>3, SumChange, FiniteAssumption
  <2>9. SumFunctionOnSet(Held(u)', Leg) = held
    BY <2>4
  <2> HIDE DEF held
  <2>10. headroom'[u] = SumFunctionOnSet(g, Trigger) - held /\ headroom'[u] >= 0
    BY <2>4, <2>5, <2>6, <2>7, <2>8
  <2> QED BY <2>9, <2>10 DEF g
<1> QED BY <1>2, <1>3 DEF MoneyInv

\* The purse of a reservation: it has locked the guards of those it takes from,
\* and takes from nobody more than is there.
PurseOK(s) ==
  /\ \A l \in draft[s] : guardLock[UserOf(l[1])] = s
  /\ \A u \in User : Drafted(s, u) <= headroom[u]

PurseInv == \A s \in Session : PurseOK(s)

\* The legs a reservation has inserted for a user.
DraftFor(s, u) == { l \in draft[s] : UserOf(l[1]) = u }

LEMMA DraftedType ==
  ASSUME StateOK, NEW s \in Session
  PROVE  \A u : /\ IsFiniteSet(DraftFor(s, u)) /\ DraftFor(s, u) \subseteq Leg
               /\ Drafted(s, u) = SumFunctionOnSet(Debit, DraftFor(s, u))
               /\ Drafted(s, u) \in Int
<1> SUFFICES ASSUME NEW u
             PROVE  /\ IsFiniteSet(DraftFor(s, u)) /\ DraftFor(s, u) \subseteq Leg
                    /\ Drafted(s, u) = SumFunctionOnSet(Debit, DraftFor(s, u))
                    /\ Drafted(s, u) \in Int
  OBVIOUS
<1>1. DraftFor(s, u) \subseteq Leg
  BY DEF DraftFor, StateOK, WorkOK
<1>2. IsFiniteSet(DraftFor(s, u))
  BY <1>1, FiniteLeg, FS_Subset
<1>3. Drafted(s, u) = SumFunctionOnSet(Debit, DraftFor(s, u))
  BY DEF Drafted, DraftFor
<1>4. \A l \in DraftFor(s, u) : Debit[l] \in Int
  BY <1>1, LegAction
<1>5. SumFunctionOnSet(Debit, DraftFor(s, u)) \in Int
  BY <1>2, <1>4, SumInt
<1> QED BY <1>1, <1>2, <1>3, <1>5

LEMMA DraftedKept == \A s, u : draft'[s] = draft[s] => Drafted(s, u)' = Drafted(s, u)
BY DEF Drafted, UserOf, Debit, ActionOf

LEMMA DraftedNothing ==
  ASSUME NEW s, NEW u, \A l \in draft[s] : UserOf(l[1]) # u
  PROVE  Drafted(s, u) = 0
<1>1. { l \in draft[s] : UserOf(l[1]) = u } = {}
  OBVIOUS
<1> QED BY <1>1, SumEmpty DEF Drafted

\* The COMMIT of a reservation takes from its users what its legs then hold.
LEMMA CommitReservationMoney ==
  ASSUME IInv, MoneyInv, PurseInv, NEW s \in Session, CommitReservation(s)
  PROVE  MoneyInv'
<1>1. /\ leg' = [l \in Leg |-> IF l \in draft[s] THEN "reserved" ELSE leg[l]]
      /\ headroom' = [u \in User |-> headroom[u] - Drafted(s, u)]
      /\ confirmed' = confirmed
  BY DEF CommitReservation, BookLegs
<1>2. /\ \A l \in draft[s] : leg[l] = "absent" /\ leg'[l] = "reserved" /\ l \in Leg
      /\ \A l \in Leg \ draft[s] : leg'[l] = leg[l]
  BY <1>1, CommitReservationEffect DEF IInv, StateOK, WorkOK
<1>3. ASSUME NEW u \in User
      PROVE  /\ headroom'[u] \in Int
             /\ headroom'[u] = SumFunctionOnSet(Credited(u)', Trigger) - SumFunctionOnSet(Held(u)', Leg)
             /\ headroom'[u] >= 0
  <2> DEFINE f == Held(u)
             g == Held(u)'
             W == DraftFor(s, u)
             taken == Drafted(s, u)
             credited == SumFunctionOnSet(Credited(u), Trigger)
             held == SumFunctionOnSet(Held(u), Leg)
  <2>1. \A l \in Leg : f[l] \in Int
    BY MoneyType
  <2>2. \A l \in Leg \ W : g[l] = f[l]
    BY <1>2 DEF Held, DraftFor
  <2>3. \A l \in W : Debit[l] \in Int /\ g[l] = f[l] + Debit[l]
    <3> SUFFICES ASSUME NEW l \in W PROVE Debit[l] \in Int /\ g[l] = f[l] + Debit[l]
      OBVIOUS
    <3>1. l \in draft[s] /\ UserOf(l[1]) = u /\ l \in Leg
      BY <1>2 DEF DraftFor
    <3>2. f[l] = 0 /\ g[l] = Debit[l] /\ Debit[l] \in Int
      BY <1>2, <3>1, LegAction DEF Held
    <3> QED BY <3>2
  <2>4. W \in SUBSET Leg /\ taken = SumFunctionOnSet(Debit, W) /\ taken \in Int
    BY DraftedType DEF IInv
  <2>5. headroom[u] = credited - held /\ headroom[u] \in Int
    BY DEF MoneyInv
  <2>6. taken <= headroom[u]
    BY DEF PurseInv, PurseOK
  <2>7. credited \in Int /\ held \in Int
    BY MoneyType
  <2>8. headroom'[u] = headroom[u] - taken
    BY <1>1
  <2>9. Credited(u)' = Credited(u)
    BY <1>1 DEF Credited
  <2>10. held = SumFunctionOnSet(f, Leg)
    OBVIOUS
  <2> HIDE DEF f, g, W, taken, credited, held
  <2>11. SumFunctionOnSet(g, Leg) = held + taken
    <3>1. (\A l \in W : Debit[l] \in Int) /\ (\A l \in W : g[l] = f[l] + Debit[l])
      BY <2>3
    <3>2. SumFunctionOnSet(g, Leg) = SumFunctionOnSet(f, Leg) + SumFunctionOnSet(Debit, W)
      BY <2>1, <2>2, <2>4, <3>1, SumAdd, FiniteLeg
    <3> QED BY <2>4, <2>10, <3>2
  <2>12. headroom'[u] \in Int /\ headroom'[u] = credited - SumFunctionOnSet(g, Leg)
         /\ headroom'[u] >= 0
    BY <2>4, <2>5, <2>6, <2>7, <2>8, <2>11
  <2> QED BY <2>9, <2>12 DEF g, credited
<1>4. headroom' \in [User -> Int] /\ confirmed' \in [Trigger -> BOOLEAN]
  BY <1>1, <1>3 DEF MoneyInv
<1> QED BY <1>3, <1>4 DEF MoneyInv

LEMMA RecordAckMoney ==
  ASSUME IInv, MoneyInv, NEW s \in Session, RecordAck(s)
  PROVE  MoneyInv'
<1>1. UNCHANGED <<confirmed, headroom>>
  BY DEF RecordAck
<1>2. \A l \in Leg : leg'[l] = leg[l] \/ (leg[l] = "reserved" /\ leg'[l] = "initiated")
  BY DEF RecordAck, IInv, StateOK
<1> QED BY <1>1, <1>2, MoneyKept

\* A failure gives back what its leg held; a settlement keeps it.
LEMMA CommitSettlementMoney ==
  ASSUME IInv, MoneyInv, ReversalInv, NEW s \in Session, CommitSettlement(s)
  PROVE  MoneyInv'
<1> DEFINE l == target[s]
           owner == UserOf(l[1])
           failed == event[s].status = "failed"
           refund == IF failed THEN Debit[l] ELSE 0
<1>1. /\ l \in Leg /\ leg[l] = "initiated"
      /\ event[s].status \in {"settled", "failed"}
      /\ \A k \in Leg : leg'[k] = IF k = l THEN event[s].status ELSE leg[k]
      /\ pc[s] = "commit"
  BY CommitEffect, Settling
<1>2. owner \in User /\ Debit[l] \in Nat /\ ActionOf(l) \in Action
  BY <1>1, LegAction
<1>3. failed => ActionOf(l).source = Debit[l]
  BY <1>1, <1>2 DEF ReversalInv, Reversible, Debit, Action
<1>4. headroom' = [headroom EXCEPT ![owner] = IF failed THEN @ + ActionOf(l).source ELSE @]
      /\ UNCHANGED confirmed
  BY DEF CommitSettlement
<1>5. headroom' \in [User -> Int] /\ confirmed' \in [Trigger -> BOOLEAN]
  BY <1>2, <1>3, <1>4 DEF MoneyInv
<1>6. refund \in Nat
  BY <1>2
<1>7. \A u \in User : headroom'[u] = headroom[u] + (IF u = owner THEN refund ELSE 0)
  BY <1>2, <1>3, <1>4 DEF MoneyInv
<1>8. ASSUME NEW u \in User
      PROVE  SumFunctionOnSet(Held(u)', Leg)
               = SumFunctionOnSet(Held(u), Leg) - (IF u = owner THEN refund ELSE 0)
  <2> DEFINE f == Held(u)
             g == Held(u)'
             back == IF u = owner THEN refund ELSE 0
  <2>1. \A k \in Leg : f[k] \in Int /\ g[k] \in Int
    BY LegAction DEF Held
  <2>2. \A k \in Leg \ {l} : f[k] = g[k]
    BY <1>1 DEF Held
  <2>3. g[l] - f[l] = -back
    BY <1>1, <1>2 DEF Held
  <2>4. SumFunctionOnSet(f, Leg) \in Int /\ back \in Nat
    BY <1>6, MoneyType
  <2> HIDE DEF f, g, l, back
  <2>5. SumFunctionOnSet(g, Leg) = SumFunctionOnSet(f, Leg) + (g[l] - f[l])
    BY <1>1, <2>1, <2>2, SumChange, FiniteLeg
  <2>6. SumFunctionOnSet(g, Leg) = SumFunctionOnSet(f, Leg) - back
    BY <2>3, <2>4, <2>5
  <2> QED BY <2>6 DEF f, g, back
<1> HIDE DEF owner, refund, l
<1>9. ASSUME NEW u \in User
      PROVE  /\ headroom'[u] = SumFunctionOnSet(Credited(u)', Trigger) - SumFunctionOnSet(Held(u)', Leg)
             /\ headroom'[u] >= 0
  <2> DEFINE credited == SumFunctionOnSet(Credited(u), Trigger)
             held == SumFunctionOnSet(Held(u), Leg)
             heldNext == SumFunctionOnSet(Held(u)', Leg)
  <2>1. SumFunctionOnSet(Credited(u)', Trigger) = credited
    BY <1>4 DEF Credited
  <2>2. headroom[u] = credited - held /\ headroom[u] >= 0 /\ headroom[u] \in Int
    BY DEF MoneyInv
  <2>3. credited \in Int /\ held \in Int
    BY MoneyType
  <2>4. heldNext = held - (IF u = owner THEN refund ELSE 0)
    BY <1>8
  <2> HIDE DEF credited, held, heldNext
  <2>5. headroom'[u] = credited - heldNext /\ headroom'[u] >= 0
    BY <1>6, <1>7, <2>2, <2>3, <2>4
  <2> QED BY <2>1, <2>5 DEF heldNext
<1> QED BY <1>5, <1>9 DEF MoneyInv

\* Which steps write a leg or a bucket.
LEMMA MoneySteps ==
  ASSUME [Next]_vars
  PROVE  \/ UNCHANGED <<confirmed, headroom, leg, hold>>
         \/ \E t \in Trigger : ConfirmTrigger(t)
         \/ \E s \in Session : CommitReservation(s) \/ RecordAck(s) \/ CommitSettlement(s)
<1>1. ASSUME NEW s \in Session,
             \/ Requests(s) \/ ReservationStep(s) \/ AbandonReservation(s)
             \/ DispatchStep(s) \/ AbandonDispatch(s) \/ Settle(s) \/ Poll(s)
             \/ SettlementStep(s) \/ AbandonSettlement(s)
      PROVE  \/ UNCHANGED bookVars
             \/ CommitReservation(s) \/ RecordAck(s) \/ CommitSettlement(s)
  BY <1>1, ReservationWritesLate DEF DispatchStep, ReadReservedLegs, InitiatePayout, EndDispatch,
     AbandonDispatch, Settle, Poll, Receive, SettlementStep, UnknownReference, LockLeg,
     StaleEvent, MoveLeg, RefuseReversal, CloseExecution, LeaveExecution, AbandonSettlement,
     NothingWritten
<1>2. (\E p \in Leg : FinalizeSend(p)) \/ Restart \/ UNCHANGED vars => UNCHANGED bookVars
  BY DEF FinalizeSend, Restart, vars, routingVars
<1> QED BY <1>1, <1>2 DEF Next, RoutingStep, bookVars

LEMMA MoneyNext ==
  ASSUME IInv, MoneyInv, ReversalInv, PurseInv, [Next]_vars
  PROVE  MoneyInv'
<1>1. CASE UNCHANGED <<confirmed, headroom, leg, hold>>
  BY <1>1, MoneyKept
<1> QED BY <1>1, MoneySteps, ConfirmTriggerMoney, CommitReservationMoney,
           RecordAckMoney, CommitSettlementMoney

LEMMA MoneyInit == Init => MoneyInv /\ ReversalInv /\ PurseInv
<1> SUFFICES ASSUME Init PROVE MoneyInv /\ ReversalInv /\ PurseInv
  OBVIOUS
<1>1. ASSUME NEW u \in User
      PROVE  /\ SumFunctionOnSet(Credited(u), Trigger) = 0
             /\ SumFunctionOnSet(Held(u), Leg) = 0
  <2>1. (\A t \in Trigger : Credited(u)[t] = 0) /\ (\A l \in Leg : Held(u)[l] = 0)
    BY DEF Init, RoutingInit, Credited, Held
  <2> QED BY <2>1, SumZero, FiniteAssumption, FiniteLeg
<1>2. MoneyInv
  BY <1>1 DEF Init, RoutingInit, MoneyInv
<1>3. PurseInv
  BY DraftedNothing DEF Init, RoutingInit, PurseInv, PurseOK
<1> QED BY <1>2, <1>3 DEF Init, RoutingInit, ReversalInv

LEMMA ReversalNext ==
  ASSUME IInv, ReversalInv, [Next]_vars
  PROVE  ReversalInv'
<1>1. ASSUME NEW s \in Session, reversed' = reversed,
             \A r \in Session : r # s => pc'[r] = pc[r] /\ event'[r] = event[r] /\ target'[r] = target[r],
             pc'[s] \in {"close", "commit"} /\ event'[s].status = "failed" => Reversible(target'[s])
      PROVE  ReversalInv'
  BY <1>1 DEF ReversalInv, Reversible
<1>2. ASSUME reversed' = reversed, event' = event, target' = target,
             \A s \in Session : pc'[s] \in {"close", "commit"} => pc[s] = pc'[s]
      PROVE  ReversalInv'
  BY <1>2 DEF ReversalInv, Reversible
<1> USE DEF IInv, StateOK
<1>3. CASE UNCHANGED vars
  BY <1>2, <1>3 DEF vars, routingVars, settlementVars, eventVars
<1>4. CASE RoutingStep
  <2>1. UNCHANGED <<reversed, event, target>>
    BY <1>4 DEF RoutingStep, settlementVars, eventVars
  <2>2. \/ pc' = pc
        \/ \E s \in Session, next \in {"idle", "fire", "reserve", "dispatch", "acked"} :
             pc' = [pc EXCEPT ![s] = next]
    <3>1. ASSUME NEW t \in Trigger, ConfirmTrigger(t) PROVE pc' = pc
      BY <3>1 DEF ConfirmTrigger
    <3>2. ASSUME NEW s \in Session,
                 \/ Requests(s) \/ ReservationStep(s) \/ AbandonReservation(s)
                 \/ DispatchStep(s) \/ AbandonDispatch(s)
          PROVE  \/ pc' = pc
                 \/ \E next \in {"idle", "fire", "reserve", "dispatch", "acked"} :
                      pc' = [pc EXCEPT ![s] = next]
      <4>1. Requests(s) => \E next \in {"fire", "reserve"} : pc' = [pc EXCEPT ![s] = next]
        BY DEF Requests, BeginTrigger, BeginRetry
      <4>2. ReservationStep(s) \/ AbandonReservation(s) =>
              \/ pc' = pc
              \/ \E next \in {"idle", "fire", "reserve", "dispatch"} :
                   pc' = [pc EXCEPT ![s] = next]
        BY DEF ReservationStep, ReserveStep, InsertExecution, AlreadyFired, ReserveLeg, RefuseLeg,
           ReleaseSavepoint, ThrowLeg, AbandonReservation, RollbackReservation, CommitReservation
      <4>3. DispatchStep(s) \/ AbandonDispatch(s) =>
              \/ pc' = pc
              \/ \E next \in {"idle", "dispatch", "acked"} : pc' = [pc EXCEPT ![s] = next]
        BY DEF DispatchStep, ReadReservedLegs, InitiatePayout, RecordAck, EndDispatch, AbandonDispatch
      <4> QED BY <3>2, <4>1, <4>2, <4>3
    <3> QED BY <1>4, <3>1, <3>2 DEF RoutingStep
  <2>3. \A s \in Session : pc'[s] \in {"close", "commit"} => pc[s] = pc'[s]
    BY <2>2
  <2> QED BY <1>2, <2>1, <2>3
<1>5. ASSUME NEW p \in Leg, FinalizeSend(p) PROVE ReversalInv'
  BY <1>2, <1>5 DEF FinalizeSend, settlementVars, eventVars
<1>6. CASE Restart
  BY <1>6 DEF Restart, ReversalInv, Reversible
<1>7. ASSUME NEW s \in Session, EndSession(s), reversed' = reversed PROVE ReversalInv'
  BY <1>1, <1>7 DEF EndSession
<1>8. ASSUME NEW s \in Session,
             UnknownReference(s) \/ StaleEvent(s) \/ RefuseReversal(s) \/ AbandonSettlement(s)
      PROVE  ReversalInv'
  BY <1>7, <1>8 DEF UnknownReference, StaleEvent, RefuseReversal, AbandonSettlement, NothingWritten
<1>9. ASSUME NEW s \in Session, Settle(s) \/ Poll(s) \/ LockLeg(s) PROVE ReversalInv'
  BY <1>1, <1>9 DEF Settle, Poll, Receive, LockLeg, NothingWritten
<1>10. ASSUME NEW s \in Session, MoveLeg(s) PROVE ReversalInv'
  BY <1>1, <1>10 DEF MoveLeg, NothingWritten, eventVars
<1>11. ASSUME NEW s \in Session, CloseExecution(s) \/ LeaveExecution(s) PROVE ReversalInv'
  <2>1. /\ pc[s] = "close" /\ UNCHANGED <<event, target, reversed>>
        /\ pc' = [pc EXCEPT ![s] = "commit"]
    BY <1>11 DEF CloseExecution, LeaveExecution, NothingWritten, eventVars
  <2> QED BY <1>1, <2>1 DEF ReversalInv
<1>12. ASSUME NEW s \in Session, CommitSettlement(s) PROVE ReversalInv'
  <2>1. /\ pc[s] = "commit"
        /\ reversed' = IF event[s].status = "failed" THEN reversed \cup {target[s]} ELSE reversed
        /\ EndSession(s)
    BY <1>12 DEF CommitSettlement
  <2>2. \A l \in reversed' : Reversible(l)
    BY <2>1 DEF ReversalInv
  <2>3. \A r \in Session : pc'[r] \in {"close", "commit"} =>
          pc[r] = pc'[r] /\ event'[r] = event[r] /\ target'[r] = target[r]
    BY <2>1 DEF EndSession
  <2> QED BY <2>2, <2>3 DEF ReversalInv, Reversible
<1> QED BY <1>3, <1>4, <1>5, <1>6, <1>8, <1>9, <1>10, <1>11, <1>12 DEF Next, SettlementStep

\* Beside a reservation: nobody else's step touches what it has inserted or
\* lowers the bucket it has locked.
LEMMA PurseKept ==
  ASSUME IInv, MoneyInv', NEW s \in Session, PurseOK(s), draft'[s] = draft[s],
         \A u \in User : guardLock[u] = s => guardLock'[u] = s /\ headroom'[u] >= headroom[u],
         headroom \in [User -> Int]
  PROVE  PurseOK(s)'
<1>1. ASSUME NEW l \in draft[s] PROVE l \in Leg /\ UserOf(l[1]) \in User
  BY LegAction DEF IInv, StateOK, WorkOK
<1>2. \A l \in draft'[s] : guardLock'[UserOf(l[1])] = s
  BY <1>1 DEF PurseOK
<1>3. ASSUME NEW u \in User PROVE Drafted(s, u) <= headroom'[u]
  <2>1. Drafted(s, u) \in Int /\ headroom[u] \in Int /\ headroom'[u] \in Int /\ headroom'[u] >= 0
    BY DraftedType DEF IInv, MoneyInv
  <2>2. CASE guardLock[u] = s
    BY <2>1, <2>2 DEF PurseOK
  <2>3. CASE guardLock[u] # s
    <3>1. Drafted(s, u) = 0
      BY <2>3, DraftedNothing DEF PurseOK
    <3> QED BY <2>1, <3>1
  <2> QED BY <2>2, <2>3
<1>4. \A u \in User : Drafted(s, u)' = Drafted(s, u)
  BY DraftedKept
<1>5. \A x : UserOf(x)' = UserOf(x)
  BY DEF UserOf
<1> QED BY <1>2, <1>3, <1>4, <1>5 DEF PurseOK

\* A session without an uncommitted leg takes nothing.
LEMMA PurseEmpty ==
  ASSUME MoneyInv', NEW s \in Session, draft'[s] = {}
  PROVE  PurseOK(s)'
<1>1. \A u : Drafted(s, u)' = SumFunctionOnSet(Debit, {})
  <2> SUFFICES ASSUME NEW u PROVE Drafted(s, u)' = SumFunctionOnSet(Debit, {})
    OBVIOUS
  <2>1. { l \in draft'[s] : UserOf(l[1]) = u } = {}
    OBVIOUS
  <2>2. Drafted(s, u)' = SumFunctionOnSet(Debit, { l \in draft'[s] : UserOf(l[1]) = u })
    BY DEF Drafted, UserOf, Debit, ActionOf
  <2> QED BY <2>1, <2>2
<1>2. \A u : Drafted(s, u)' = 0
  BY <1>1, SumEmpty
<1> QED BY <1>2 DEF PurseOK, MoneyInv

\* What others feel of a session's step is its locks and its commit.
LEMMA PurseOthers ==
  ASSUME IInv, MoneyInv, MoneyInv', PurseInv, NEW s \in Session,
         \A t \in Session : t # s => draft'[t] = draft[t],
         \A u \in User : guardLock[u] # s => headroom'[u] >= headroom[u],
         \A u \in User, t \in Session : t # s /\ guardLock[u] = t => guardLock'[u] = t,
         PurseOK(s)'
  PROVE  PurseInv'
<1> SUFFICES ASSUME NEW t \in Session, t # s PROVE PurseOK(t)'
  BY DEF PurseInv
<1> QED BY PurseKept DEF PurseInv, MoneyInv

LEMMA ReserveLegPurse ==
  ASSUME IInv, MoneyInv, MoneyInv', PurseInv, NEW s \in Session, ReserveLeg(s)
  PROVE  PurseInv'
<1>1. PICK l \in Leg :
        /\ l \notin draft[s] /\ Covered(s, l)
        /\ guardLock' = [guardLock EXCEPT ![UserOf(l[1])] = s]
        /\ guardLock[UserOf(l[1])] \in {NoSession, s}
        /\ draft' = [draft EXCEPT ![s] = draft[s] \cup {l}]
        /\ headroom' = headroom
  BY DEF ReserveLeg, AtLeg, LockGuard, bookVars
<1> DEFINE owner == UserOf(l[1])
<1>2. owner \in User /\ Debit[l] \in Int
  BY LegAction
<1>3. /\ draft'[s] = draft[s] \cup {l} /\ draft[s] \subseteq Leg
      /\ \A t \in Session : t # s => draft'[t] = draft[t]
      /\ \A u \in User : guardLock'[u] = IF u = owner THEN s ELSE guardLock[u]
  BY <1>1 DEF IInv, StateOK, WorkOK
<1>4. ASSUME NEW u \in User PROVE Drafted(s, u)' <= headroom'[u]
  <2> DEFINE old == DraftFor(s, u)
             new == { k \in draft[s] \cup {l} : UserOf(k[1]) = u }
  <2>1. Drafted(s, u)' = SumFunctionOnSet(Debit, new)
    <3>1. Drafted(s, u)' = SumFunctionOnSet(Debit, { k \in draft'[s] : UserOf(k[1]) = u })
      BY DEF Drafted, UserOf, Debit, ActionOf
    <3> QED BY <1>3, <3>1
  <2>2. /\ IsFiniteSet(old) /\ old \subseteq Leg
        /\ Drafted(s, u) = SumFunctionOnSet(Debit, old) /\ Drafted(s, u) \in Int
    BY DraftedType DEF IInv
  <2>3. Drafted(s, u) <= headroom[u] /\ headroom[u] \in Int
    BY DEF PurseInv, PurseOK, MoneyInv
  <2>4. CASE u # owner
    <3>1. new = old
      BY <2>4 DEF DraftFor
    <3> QED BY <1>1, <2>1, <2>2, <2>3, <3>1
  <2>5. CASE u = owner
    <3>1. new = old \cup {l} /\ l \notin old
      BY <1>1, <2>5 DEF DraftFor
    <3>2. \A k \in new : Debit[k] \in Int
      BY <1>2, <2>2, <3>1, LegAction
    <3> HIDE DEF old, new
    <3>3. SumFunctionOnSet(Debit, new) = Debit[l] + SumFunctionOnSet(Debit, old)
      <4>1. IsFiniteSet(new) /\ l \in new /\ new \ {l} = old
        BY <2>2, <3>1, FS_AddElement
      <4> QED BY <3>2, <4>1, SumRemove
    <3>4. Drafted(s, u) + Debit[l] <= headroom[u]
      BY <1>1, <2>5 DEF Covered
    <3>5. Drafted(s, u)' = Debit[l] + Drafted(s, u)
      BY <2>1, <2>2, <3>3
    <3>6. headroom'[u] = headroom[u]
      BY <1>1
    <3> QED BY <1>2, <2>2, <2>3, <3>4, <3>5, <3>6
  <2> QED BY <2>4, <2>5
<1>5. \A k \in draft'[s] : guardLock'[UserOf(k[1])] = s
  <2> SUFFICES ASSUME NEW k \in draft[s] \cup {l} PROVE guardLock'[UserOf(k[1])] = s
    BY <1>3
  <2>1. UserOf(k[1]) \in User
    BY <1>3, LegAction
  <2> QED BY <1>3, <2>1 DEF PurseInv, PurseOK
<1>6. PurseOK(s)'
  <2>1. \A x : UserOf(x)' = UserOf(x)
    BY DEF UserOf
  <2> QED BY <1>4, <1>5, <2>1 DEF PurseOK
<1>7. \A u \in User, t \in Session : t # s /\ guardLock[u] = t => guardLock'[u] = t
  BY <1>1, <1>3, RouteAssumption
<1>8. \A u \in User : headroom'[u] >= headroom[u]
  BY <1>1 DEF MoneyInv
<1> QED BY <1>3, <1>6, <1>7, <1>8, PurseOthers

LEMMA RefuseLegPurse ==
  ASSUME IInv, MoneyInv, MoneyInv', PurseInv, NEW s \in Session, RefuseLeg(s)
  PROVE  PurseInv'
<1>1. PICK x :
        /\ guardLock' = [u \in User |-> IF guardLock[u] = s /\ draft[s] \subseteq LegsOf(x)
                                        THEN NoSession ELSE guardLock[u]]
        /\ draft' = [draft EXCEPT ![s] = draft[s] \ LegsOf(x)]
        /\ headroom' = headroom
  BY DEF RefuseLeg, RollbackToSavepoint, bookVars
<1>2. /\ draft'[s] = draft[s] \ LegsOf(x) /\ draft[s] \subseteq Leg
      /\ \A t \in Session : t # s => draft'[t] = draft[t]
  BY <1>1 DEF IInv, StateOK, WorkOK
<1>3. ASSUME NEW u \in User PROVE Drafted(s, u)' <= headroom'[u]
  <2> DEFINE old == DraftFor(s, u)
             new == { k \in draft[s] \ LegsOf(x) : UserOf(k[1]) = u }
             gone == old \ new
  <2>1. Drafted(s, u)' = SumFunctionOnSet(Debit, new)
    <3>1. Drafted(s, u)' = SumFunctionOnSet(Debit, { k \in draft'[s] : UserOf(k[1]) = u })
      BY DEF Drafted, UserOf, Debit, ActionOf
    <3> QED BY <1>2, <3>1
  <2>2. /\ IsFiniteSet(old) /\ old \subseteq Leg
        /\ Drafted(s, u) = SumFunctionOnSet(Debit, old) /\ Drafted(s, u) \in Int
    BY DraftedType DEF IInv
  <2>3. Drafted(s, u) <= headroom[u] /\ headroom[u] \in Int
    BY DEF PurseInv, PurseOK, MoneyInv
  <2>4. new \in SUBSET old
    BY DEF DraftFor
  <2>5. \A k \in old : Debit[k] \in Nat
    BY <2>2, LegAction
  <2> HIDE DEF old, new
  <2>6. SumFunctionOnSet(Debit, new) <= SumFunctionOnSet(Debit, old)
    BY <2>2, <2>4, <2>5, SumSmaller
  <2>7. SumFunctionOnSet(Debit, new) \in Int
    <3>1. IsFiniteSet(new) /\ \A k \in new : Debit[k] \in Int
      BY <2>2, <2>4, <2>5, FS_Subset
    <3> QED BY <3>1, SumInt
  <2> QED BY <1>1, <2>1, <2>2, <2>3, <2>6, <2>7
<1>4. \A k \in draft'[s] : guardLock'[UserOf(k[1])] = s
  <2> SUFFICES ASSUME NEW k \in draft[s] \ LegsOf(x) PROVE guardLock'[UserOf(k[1])] = s
    BY <1>2
  <2>1. UserOf(k[1]) \in User
    BY <1>2, LegAction
  <2> QED BY <1>1, <2>1 DEF PurseInv, PurseOK
<1>5. PurseOK(s)'
  <2>1. \A y : UserOf(y)' = UserOf(y)
    BY DEF UserOf
  <2> QED BY <1>3, <1>4, <2>1 DEF PurseOK
<1>6. \A u \in User, t \in Session : t # s /\ guardLock[u] = t => guardLock'[u] = t
  BY <1>1
<1>7. \A u \in User : headroom'[u] >= headroom[u]
  BY <1>1 DEF MoneyInv
<1> QED BY <1>2, <1>5, <1>6, <1>7, PurseOthers

\* The end of a transaction drops what it had not committed.
LEMMA EndReservationPurse ==
  ASSUME IInv, MoneyInv, MoneyInv', PurseInv, NEW s \in Session, EndReservation(s),
         headroom' = headroom \/ CommitReservation(s)
  PROVE  PurseInv'
<1>1. /\ draft'[s] = {} /\ \A t \in Session : t # s => draft'[t] = draft[t]
      /\ \A u \in User, t \in Session : t # s /\ guardLock[u] = t => guardLock'[u] = t
  BY DEF EndReservation, ReleaseLocks, IInv, StateOK, WorkOK
<1>2. ASSUME NEW u \in User, guardLock[u] # s PROVE headroom'[u] >= headroom[u]
  <2>1. headroom[u] \in Int
    BY DEF MoneyInv
  <2>2. CASE headroom' = headroom
    BY <2>1, <2>2
  <2>3. CASE CommitReservation(s)
    <3>1. Drafted(s, u) = 0
      BY <1>2, DraftedNothing DEF PurseInv, PurseOK
    <3>2. headroom'[u] = headroom[u] - Drafted(s, u)
      BY <2>3 DEF CommitReservation
    <3> QED BY <2>1, <3>1, <3>2
  <2> QED BY <2>2, <2>3
<1>3. PurseOK(s)'
  BY <1>1, PurseEmpty
<1> QED BY <1>1, <1>2, <1>3, PurseOthers

\* A session that does not reserve: what it does to buckets and guards.
LEMMA SettlerPurse ==
  ASSUME IInv, MoneyInv, MoneyInv', ReversalInv, PurseInv, NEW s \in Session,
         \/ DispatchStep(s) \/ AbandonDispatch(s) \/ Settle(s) \/ Poll(s)
         \/ SettlementStep(s) \/ AbandonSettlement(s)
  PROVE  PurseInv'
<1>1. draft' = draft
  BY DEF DispatchStep, ReadReservedLegs, InitiatePayout, RecordAck, EndDispatch, AbandonDispatch,
     Settle, Poll, Receive, SettlementStep, UnknownReference, LockLeg, StaleEvent, MoveLeg,
     RefuseReversal, CloseExecution, LeaveExecution, CommitSettlement, AbandonSettlement,
     NothingWritten, draftVars
<1>2. pc[s] \notin {"fire", "reserve"}
  BY DEF DispatchStep, ReadReservedLegs, InitiatePayout, RecordAck, EndDispatch, AbandonDispatch,
     Settle, Poll, Receive, Idle, SettlementStep, UnknownReference, LockLeg, StaleEvent, MoveLeg,
     RefuseReversal, CloseExecution, LeaveExecution, CommitSettlement, AbandonSettlement
<1>3. draft'[s] = {}
  BY <1>1, <1>2 DEF IInv, DraftInv, DraftOK
<1>4. \A u \in User, t \in Session : t # s /\ guardLock[u] = t => guardLock'[u] = t
  <2>1. \/ guardLock' = guardLock
        \/ \E u \in User : LockGuard(s, u)
        \/ ReleaseLocks(s)
    <3>1. DispatchStep(s) \/ AbandonDispatch(s) \/ Settle(s) \/ Poll(s) => guardLock' = guardLock
      BY DEF DispatchStep, ReadReservedLegs, InitiatePayout, RecordAck, EndDispatch,
         AbandonDispatch, Settle, Poll, Receive, lockVars
    <3>2. MoveLeg(s) => guardLock' = guardLock \/ \E u \in User : LockGuard(s, u)
      <4>1. MoveLeg(s) => UserOf(ExecutionOf(s)) \in User
        BY Settling, LegAction DEF MoveLeg, ExecutionOf
      <4> QED BY <4>1 DEF MoveLeg
    <3>3. LockLeg(s) \/ CloseExecution(s) \/ LeaveExecution(s) => guardLock' = guardLock
      BY DEF LockLeg, CloseExecution, LeaveExecution, lockVars
    <3>4. UnknownReference(s) \/ StaleEvent(s) \/ RefuseReversal(s) \/ CommitSettlement(s)
          \/ AbandonSettlement(s) => ReleaseLocks(s)
      BY DEF UnknownReference, StaleEvent, RefuseReversal, CommitSettlement, AbandonSettlement,
         EndSession
    <3> QED BY <3>1, <3>2, <3>3, <3>4 DEF SettlementStep
  <2> QED BY <2>1, RouteAssumption DEF LockGuard, ReleaseLocks, IInv, StateOK, WorkOK
<1>5. \A u \in User : headroom'[u] >= headroom[u]
  <2>1. CASE headroom' = headroom
    BY <2>1 DEF MoneyInv
  <2>2. CASE CommitSettlement(s)
    <3>1. target[s] \in Leg /\ ActionOf(target[s]).source \in Nat
      BY <2>2, CommitEffect, Settling, LegAction DEF Action
    <3>2. \/ headroom' = headroom
          \/ headroom' = [headroom EXCEPT ![UserOf(target[s][1])] = @ + ActionOf(target[s]).source]
      BY <2>2 DEF CommitSettlement, MoneyInv
    <3> QED BY <3>1, <3>2 DEF MoneyInv
  <2>3. headroom' = headroom \/ CommitSettlement(s)
    BY DEF DispatchStep, ReadReservedLegs, InitiatePayout, RecordAck, EndDispatch,
       AbandonDispatch, Settle, Poll, Receive, SettlementStep, UnknownReference, LockLeg,
       StaleEvent, MoveLeg, RefuseReversal, CloseExecution, LeaveExecution, AbandonSettlement,
       NothingWritten, bookVars
  <2> QED BY <2>1, <2>2, <2>3
<1>6. PurseOK(s)'
  BY <1>3, PurseEmpty
<1> QED BY <1>1, <1>4, <1>5, <1>6, PurseOthers

LEMMA PurseNext ==
  ASSUME IInv, MoneyInv, MoneyInv', ReversalInv, PurseInv, [Next]_vars
  PROVE  PurseInv'
<1>1. ASSUME UNCHANGED <<draft, guardLock>>, \A u \in User : headroom'[u] >= headroom[u]
      PROVE  PurseInv'
  BY <1>1, PurseKept DEF PurseInv, MoneyInv
<1>2. ASSUME UNCHANGED <<draft, guardLock, headroom>> PROVE PurseInv'
  BY <1>1, <1>2 DEF MoneyInv
<1>3. ASSUME NEW t \in Trigger, ConfirmTrigger(t) PROVE PurseInv'
  <2>1. /\ headroom' = [headroom EXCEPT ![Credit[t].user] = @ + Credit[t].amount]
        /\ Credit[t].amount \in Nat
        /\ UNCHANGED <<draft, guardLock>>
    BY <1>3, RouteAssumption DEF ConfirmTrigger, draftVars, lockVars
  <2> QED BY <1>1, <2>1 DEF MoneyInv
<1>4. ASSUME NEW s \in Session, Requests(s) PROVE PurseInv'
  BY <1>2, <1>4 DEF Requests, BeginTrigger, BeginRetry, bookVars, lockVars
<1>5. ASSUME NEW s \in Session, ReservationStep(s) \/ AbandonReservation(s) PROVE PurseInv'
  <2>1. CASE InsertExecution(s) \/ AlreadyFired(s) \/ ReleaseSavepoint(s)
    BY <1>2, <2>1 DEF InsertExecution, AlreadyFired, ReleaseSavepoint, bookVars, lockVars, draftVars
  <2>2. CASE ThrowLeg(s) \/ AbandonReservation(s)
    BY <2>2, EndReservationPurse DEF ThrowLeg, AbandonReservation, RollbackReservation, bookVars
  <2>3. CASE CommitReservation(s)
    BY <2>3, EndReservationPurse DEF CommitReservation
  <2> QED BY <1>5, <2>1, <2>2, <2>3, ReserveLegPurse, RefuseLegPurse
          DEF ReservationStep, ReserveStep
<1>6. ASSUME NEW p \in Leg, FinalizeSend(p) PROVE PurseInv'
  BY <1>2, <1>6 DEF FinalizeSend, bookVars, lockVars, draftVars
<1>7. CASE Restart
  BY <1>7, PurseEmpty DEF Restart, PurseInv
<1>8. CASE UNCHANGED vars
  BY <1>2, <1>8 DEF vars, routingVars, bookVars, lockVars, draftVars
<1> QED BY <1>3, <1>4, <1>5, <1>6, <1>7, <1>8, SettlerPurse DEF Next, RoutingStep

LEMMA MoneyInvariance == Spec => [](MoneyInv /\ ReversalInv /\ PurseInv)
<1>1. Init => MoneyInv /\ ReversalInv /\ PurseInv
  BY MoneyInit
<1>2. IInv /\ MoneyInv /\ ReversalInv /\ PurseInv /\ [Next]_vars
        => MoneyInv' /\ ReversalInv' /\ PurseInv'
  BY MoneyNext, ReversalNext, PurseNext
<1> QED BY <1>1, <1>2, Invariance, PTL DEF Spec

\* What a user can spend is what off-ramps credited them less what their live
\* and settled legs hold, and is never less than nothing: no leg is reserved or
\* released twice, whatever races, fails, dies or comes again.
THEOREM HeadroomAlwaysBacked == Spec => []HeadroomIsCreditLessHolds
<1>1. MoneyInv => HeadroomIsCreditLessHolds
  BY DEF MoneyInv, HeadroomIsCreditLessHolds, SumFunction, Credited, Held
<1> QED BY <1>1, MoneyInvariance, PTL

\* Every variable keeps its type.
THEOREM SettlementTypeCorrect == Spec => []TypeOK
<1>1. ASSUME IInv, MoneyInv PROVE TypeOK
  <2>1. statement \subseteq ExternalRef
    <3> SUFFICES ASSUME NEW r \in statement PROVE r \in ExternalRef
      OBVIOUS
    <3>1. PICK l \in Leg : leg[l] = "settled" /\ ref[l] = r
      BY <1>1 DEF IInv, RefInv
    <3> QED BY <1>1, <3>1 DEF IInv, StateOK, RefInv
  <2> QED BY <1>1, <2>1 DEF IInv, StateOK, WorkOK, MoneyInv, TypeOK
<1> QED BY <1>1, Invariance, MoneyInvariance, PTL
=============================================================================
