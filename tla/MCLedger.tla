------------------------------ MODULE MCLedger ------------------------------
(***************************************************************************)
(* Properties of the ledger that sum over sequences of entries or sets of  *)
(* transfers, its abstract specification, and symmetry for TLC.            *)
(***************************************************************************)
EXTENDS Ledger, Functions, TLC

Atomic == INSTANCE AtomicLedger WITH DepositOf <- LAMBDA k : Own(k[1])

\* Every commit is one whole transfer of the abstract ledger under a key used
\* never before; all other steps leave the ledger as it is.  This is what
\* "idempotent", "append-only" and "double-entry" promise of any interleaving.
ImplementsAtomicLedger == Atomic!Spec

\* The pending bucket of a client is exactly its deposits still waiting for
\* their off-ramp: no deposit is cleared twice by racing confirmations, and
\* none stays pending that was cleared.
PendingIsOpenDeposits ==
  \A u \in UserAccount :
    pending[u] = SumFunction([k \in BaseKey |->
      IF transfers[Own(k)] = [kind |-> "deposit", status |-> "pending"]
      THEN Atomic!Effect(entries[Own(k)], u, "pending") ELSE 0])

\* "Same key, different body -> 422": a payout answered by replay has asked
\* for what the stored transfer did.
ReplayIsSameRequest ==
  [][\A s \in Session :
       /\ ReplayTransfer(s)
       /\ job[s].kind = "payout" /\ transfers[job[s].key].kind = "payout"
       => job[s].postings = entries[job[s].key]]_vars

\* The payout event is emitted at most once per transfer, and only for a
\* payout that committed: a replay, a refusal or a rollback announces nothing.
AnnouncedOnceAfterCommit ==
  \A k \in Key : announced[k] > 0 =>
    announced[k] = 1 /\ transfers[k].kind = "payout"

\* Every call comes to its end: sessions that wait for each other's keys and
\* guard rows never form a cycle.
EveryCallEnds == \A s \in Session : ~Idle(s) ~> Idle(s)

OwnKeys == { Own(k) : k \in BaseKey }
AnyKey == Key

Symmetry == Permutations(Session) \cup Permutations(BaseKey)
=============================================================================
