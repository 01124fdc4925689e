---------------------------- MODULE AtomicLedger ----------------------------
(***************************************************************************)
(* What the money core promises its callers, with no transactions, locks   *)
(* or sessions in sight: transfers appear one at a time and whole, each    *)
(* key once, and the buckets and balances move by exactly the new entries. *)
(*                                                                         *)
(* The entries of a transfer are the caller's choice, so the step is a     *)
(* relation between the old and the new ledger rather than a computation.  *)
(***************************************************************************)
EXTENDS Integers, Sequences, Functions

CONSTANTS Key, Account, NoTransfer, DepositOf(_)

VARIABLES transfers, entries, headroom, pending, position
vars == <<transfers, entries, headroom, pending, position>>

\* What a list of entries adds to a bucket of an account, and to its balance.
Effect(es, a, bucket) ==
  SumFunction([i \in DOMAIN es |->
    IF es[i].account = a /\ es[i].bucket = bucket THEN es[i].delta ELSE 0])

Sum(es, a) ==
  SumFunction([i \in DOMAIN es |-> IF es[i].account = a THEN es[i].amount ELSE 0])

\* assertBalanced, and the deferred trigger: zero per currency.
Balanced(es) ==
  \A c \in { es[i].currency : i \in DOMAIN es } :
    SumFunction([i \in DOMAIN es |->
      IF es[i].currency = c THEN es[i].amount ELSE 0]) = 0

Init ==
  /\ transfers = [k \in Key |-> NoTransfer]
  /\ entries = [k \in Key |-> << >>]
  /\ headroom = [a \in Account |-> 0]
  /\ pending = [a \in Account |-> 0]
  /\ position = [a \in Account |-> 0]

\* An off-ramp finds its deposit pending, confirms it, and drains from
\* pending exactly what the deposit added to it.
Clears(k, es) ==
  LET d == DepositOf(k) IN
  /\ transfers[d] = [kind |-> "deposit", status |-> "pending"]
  /\ transfers'[d] = [kind |-> "deposit", status |-> "confirmed"]
  /\ \A a \in Account : Effect(es, a, "pending") = -Effect(entries[d], a, "pending")

\* A new transfer under the unused key k.  No bucket it spends from goes
\* below zero; every other transfer keeps its entries, and its status unless
\* it is the deposit the transfer clears.
Transfer(k) ==
  LET es == entries'[k]
      offramp == transfers'[k].kind = "offramp" IN
  /\ transfers[k] = NoTransfer /\ transfers'[k] # NoTransfer
  /\ es # << >> /\ Balanced(es)
  /\ headroom' = [a \in Account |-> headroom[a] + Effect(es, a, "available")]
  /\ pending' = [a \in Account |-> pending[a] + Effect(es, a, "pending")]
  /\ position' = [a \in Account |-> position[a] + Sum(es, a)]
  /\ \A a \in Account : headroom'[a] >= 0
  /\ entries' = [entries EXCEPT ![k] = es]
  /\ offramp => Clears(k, es)
  /\ \A other \in Key \ {k} :
       transfers'[other] = transfers[other] \/ (offramp /\ other = DepositOf(k))

Next == \E k \in Key : Transfer(k)

Spec == Init /\ [][Next]_vars
=============================================================================
