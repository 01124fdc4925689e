------------------------------ MODULE MCWatcher ------------------------------
(***************************************************************************)
(* A small instance of the watcher for TLC: one deposit is dust the quote  *)
(* refuses and may be dropped, so that its row never leaves the batch.     *)
(***************************************************************************)
EXTENDS Watcher

Deposits == {"dust", "small"}
Users == {"client", "other"}
Amounts == [dust |-> 5000, small |-> 20000]
DustOnly == {"dust"}

\* A webhook that says what the chain says.
TrueBody == [t \in Deposits |-> {[user |-> "client", amount |-> Amounts[t]]}]
\* A webhook for another user of the address, or with another amount.
AnyBody == [t \in Deposits |-> [user : Users, amount : {Amounts[t], 30000}]]
=============================================================================
