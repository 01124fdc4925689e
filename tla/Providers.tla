------------------------------ MODULE Providers ------------------------------
(***************************************************************************)
(* The payout providers behind one port (src/vendors): two fiat mocks and  *)
(* a simulated chain.  What they know of a payout lives in the memory of   *)
(* the process, keyed by client reference; a payout is named to others by  *)
(* the external reference its provider gave it.                            *)
(***************************************************************************)
EXTENDS Naturals

CONSTANTS
  Payout,     \* client references, one per leg
  ProviderOf  \* the provider each is sent to

VARIABLES
  payout,  \* the record under each client reference
  issued   \* references the bank has counted out since its process started

Provider == {"acmepay", "legacybank", "polygon-usdt"}
PayoutStatus == {"initiated", "settled", "failed"}

\* Two providers derive the reference from the client reference, whose digests
\* do not collide; the bank counts.
Digest(p) == [provider |-> ProviderOf[p], digest |-> p]
Counted(n) == [provider |-> "legacybank", number |-> n]
ExternalRef == [provider : Provider, digest : Payout] \cup
               [provider : {"legacybank"}, number : Nat]

NoPayout == [status |-> "unknown"]
PayoutRecord == [ref : ExternalRef, status : PayoutStatus]

ProvidersInit ==
  /\ payout = [p \in Payout |-> NoPayout]
  /\ issued = 0

Known(p) == payout[p] # NoPayout

\* Mutant: acmepay and polygon-usdt count as the bank does.
CountedRef(p) == [provider |-> ProviderOf[p], number |-> issued + 1]
NextRef(p) == IF ProviderOf[p] = "legacybank" THEN Counted(issued + 1) ELSE Digest(p)

\* initiatePayout: a client reference that is known is answered with its
\* payout, and nothing is paid again.
InitiatePayoutAt(p) ==
  IF Known(p)
  THEN UNCHANGED <<payout, issued>>
  ELSE /\ payout' = [payout EXCEPT ![p] = [ref |-> NextRef(p), status |-> "initiated"]]
       /\ issued' = IF ProviderOf[p] = "legacybank" THEN issued + 1 ELSE issued

\* The settle lever: the record takes the outcome, whatever it had.
EmitSettlementEvent(p, outcome) ==
  /\ Known(p)
  /\ payout' = [payout EXCEPT ![p].status = outcome]
  /\ UNCHANGED issued

\* A simulated send is final once its delay has elapsed, and tells nobody.
FinalizeSendAt(p) ==
  /\ ProviderOf[p] = "polygon-usdt"
  /\ Known(p) /\ payout[p].status = "initiated"
  /\ payout' = [payout EXCEPT ![p].status = "settled"]
  /\ UNCHANGED issued

\* The statuses a poll hands on.
Terminal(p) == Known(p) /\ payout[p].status \in {"settled", "failed"}

\* The maps and the counter are fields of objects that die with the process.
ForgetPayouts ==
  /\ payout' = [p \in Payout |-> NoPayout]
  /\ issued' = 0
=============================================================================
