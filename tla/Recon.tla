-------------------------------- MODULE Recon --------------------------------
(***************************************************************************)
(* Reconciliation (src/recon/recon.ts): five SELECTs over live tables,     *)
(* each its own snapshot, whose rows make up the report.  It writes        *)
(* nothing and a row is judged inside one statement, so a query is an      *)
(* operator on the state, and what holds of its answer in every state      *)
(* holds of a report however transfers commit between the statements.      *)
(***************************************************************************)
EXTENDS System

\* Chain events without a transfer under their key.
OrphanEvents == { t \in Trigger : chainEvent[t] # "absent" /\ deposit[t] = W!NoDeposit }

\* Provider statements joined with no leg, or with one that has no transfer.
OrphanStatements ==
  { r \in statement : \/ \A l \in Leg : ref[l] # r
                      \/ \E l \in Leg : ref[l] = r /\ hold[l] = "absent" }

\* Pending transfers past the SLA that no credited event clears.  A leg's hold
\* is left to the query for legs.
StuckTransfers(old) ==
  { t \in old : deposit[t].status = "pending" /\ chainEvent[t] # "credited" }

\* Open legs past the SLA that no statement under their reference clears.
StuckLegs(old) ==
  { l \in old : leg[l] \in {"reserved", "initiated"} /\ ref[l] \notin statement }

\* The entries of a user, per deposit: the deposit itself, its off-ramp and the
\* net credited; and per leg: its hold and its reversal.
DepositEntries(u) ==
  [t \in Trigger |->
      (IF t \in offramps /\ u = CreditedUser THEN ChainAmount[t] ELSE 0)
    - (IF deposit[t] # W!NoDeposit /\ deposit[t].user = u THEN deposit[t].amount ELSE 0)
    - Credited(u)[t]]
LegEntries(u) ==
  [l \in Leg |->
      (IF UserOf(l[1]) = u /\ hold[l] # "absent" THEN Debit[l] ELSE 0)
    - (IF UserOf(l[1]) = u /\ l \in reversed THEN ActionOf(l).source ELSE 0)]

\* SUM(entries).
EntriesOf(u) == SumFunction(DepositEntries(u)) + SumFunction(LegEntries(u))

\* User accounts whose counters the entries do not rebuild.  The query covers
\* the fee account too, to which nothing here posts.
Drift == { u \in User : headroom[u] + pending[u] # -EntriesOf(u) }
-----------------------------------------------------------------------------
\* No false alarm: what recon calls settled without an entry, and drift, never
\* arises from the process's own steps, in whatever order its transactions
\* commit, fail or die.
OnlyRealFindings == OrphanEvents = {} /\ OrphanStatements = {} /\ Drift = {}

\* Nothing slips through: a deposit still pending and a leg still open are
\* reported by their queries once past the SLA ("recon is the final backstop").
OpenIsReported ==
  /\ \A t \in Trigger : deposit[t].status = "pending" => t \in StuckTransfers(Trigger)
  /\ \A l \in Leg : leg[l] \in {"reserved", "initiated"} => l \in StuckLegs(Leg)
=============================================================================
