---------------------------- MODULE MCSettlement -----------------------------
(***************************************************************************)
(* Small instances of the routing engine and its settlement for TLC, and   *)
(* what comments of the code say of settlement that the runs refute.       *)
(***************************************************************************)
EXTENDS Settlement

Wire(amount, source) ==
  [provider |-> "acmepay", amount |-> amount, source |-> source, cross |-> FALSE, paired |-> FALSE]
Send(amount, source) ==
  [provider |-> "polygon-usdt", amount |-> amount, source |-> source, cross |-> TRUE, paired |-> TRUE]
Unpaired == [Send(1, 1) EXCEPT !.paired = FALSE]

\* One user with three routes and an off-ramp of 3.  The first route takes 1.
\* The second has room for its first leg, whose two amounts differ, and none
\* for its second, across currencies, until the leg of the first has failed.
\* The third then has room for its first leg and trips over its second.
Routes == {1, 2, 3}
OneUser == [r \in Routes |-> "user"]
Actions == << << Wire(1, 1) >>, << Wire(1, 2), Send(7, 2) >>, << Wire(3, 3), Unpaired >> >>
OneCredit == [t \in Trigger |-> [user |-> "user", amount |-> 3]]

\* One route with two legs.
OneRoute == {1}
OneRouteWatched == [r \in OneRoute |-> "user"]
OneRouteActions == << << Wire(1, 1), Send(7, 2) >> >>
-----------------------------------------------------------------------------
\* "Complete the execution only when every leg has settled.  Single guarded
\* statement -- race-safe under the row lock taken above": when all legs of an
\* execution have settled and no event is being applied, it is completed.
SettledExecutionIsCompleted ==
  \A x \in Execution :
    /\ execution[x] = "reserved"
    /\ \A l \in LegsOf(x) : leg[l] = "settled"
    => \E s \in Session : event[s] # NoEvent

\* Handlers run on, the trigger of every off-ramp is delivered again and
\* again, and so is the settlement of every payout its provider knows.
RedeliverySpec ==
  /\ FairSpec
  /\ \A s \in Session, t \in Trigger, u \in User :
       SF_vars(BeginTrigger(s, t, u) /\ UNCHANGED settlementVars)
  /\ \A s \in Session, p \in Leg :
       SF_vars(EmitSettlementEvent(p, "settled") /\ Receive(s, p, "settled"))

\* "Crash-safe: if the process dies between the provider call and the UPDATE,
\* a re-dispatch re-sends the SAME clientReference", and "`reserved' is admitted
\* alongside `initiated' for the C3 crash window: the provider acked but our
\* dispatcher died before recording it -- the settlement is still real": a leg
\* whose payout the provider has acknowledged does not stay reserved.
AckedLegMovesOn == \A l \in Leg : leg[l] = "reserved" /\ Known(l) ~> leg[l] # "reserved"
=============================================================================
